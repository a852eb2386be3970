-------------------------- MODULE Paymaster_proofs --------------------------
(***************************************************************************)
(* What the paymaster owes and what a policy pays, for any number of       *)
(* sponsors, accounts and nested calls.  A sponsored call that throws goes *)
(* back to the state it began in, so the invariant is about the state that *)
(* is and about every state that is kept to go back to.                    *)
(***************************************************************************)
EXTENDS Paymaster, Sums, SequenceTheorems

(***************************************************************************)
(* Sums over time.                                                         *)
(***************************************************************************)
From(t) == {u \in Times : t <= u}

\* The clock has finitely many values.
LEMMA TimesFinite == IsFiniteSet(Times) /\ Times \subseteq Nat
<1>1. MaxTime \in Nat
  BY BoundAssumption
<1> QED
  BY <1>1, FS_Interval DEF Times

\* What is paid in a part of the time is at most what is paid in all of it.
LEMMA SumPart ==
  ASSUME NEW f \in [Times -> Nat], NEW A, NEW B, A \subseteq B, B \subseteq Times
  PROVE  /\ SumFunctionOnSet(f, A) \in Nat /\ SumFunctionOnSet(f, B) \in Nat
         /\ SumFunctionOnSet(f, A) <= SumFunctionOnSet(f, B)
<1>1. IsFiniteSet(A) /\ IsFiniteSet(B) /\ IsFiniteSet(B \ A)
  BY TimesFinite, FS_Subset
<1>2. /\ SumFunctionOnSet(f, A) \in Nat /\ SumFunctionOnSet(f, B) \in Nat
      /\ SumFunctionOnSet(f, B \ A) \in Nat
  <2>1. /\ \A x \in A : f[x] \in Nat
        /\ \A x \in B : f[x] \in Nat
        /\ \A x \in B \ A : f[x] \in Nat
    OBVIOUS
  <2> QED
    BY <1>1, <2>1, SumNat
<1>3. SumFunctionOnSet(f, A \cup (B \ A)) = SumFunctionOnSet(f, A) + SumFunctionOnSet(f, B \ A)
  <2>1. A \cap (B \ A) = {} /\ \A x \in A \cup (B \ A) : f[x] \in Int
    OBVIOUS
  <2> QED
    BY <1>1, <2>1, SumUnion
<1>4. A \cup (B \ A) = B
  OBVIOUS
<1>5. SumFunctionOnSet(f, B) = SumFunctionOnSet(f, A) + SumFunctionOnSet(f, B \ A)
  BY <1>3, <1>4
<1> QED
  BY <1>2, <1>5

\* What is paid in two parts of the time that cover a third is at least what is paid in that.
LEMMA SumCover ==
  ASSUME NEW f \in [Times -> Nat], NEW A, NEW B, NEW C,
         A \subseteq Times, B \subseteq Times, C \subseteq A \cup B
  PROVE  SumFunctionOnSet(f, C) <= SumFunctionOnSet(f, A) + SumFunctionOnSet(f, B)
<1>1. IsFiniteSet(A) /\ IsFiniteSet(B \ A)
  BY TimesFinite, FS_Subset
<1>2. A \cap (B \ A) = {} /\ \A x \in A \cup (B \ A) : f[x] \in Int
  OBVIOUS
<1>3. SumFunctionOnSet(f, A \cup (B \ A)) = SumFunctionOnSet(f, A) + SumFunctionOnSet(f, B \ A)
  BY <1>1, <1>2, SumUnion
<1>4. A \cup (B \ A) = A \cup B /\ A \cup B \subseteq Times
  OBVIOUS
<1>5. /\ SumFunctionOnSet(f, C) <= SumFunctionOnSet(f, A \cup B)
      /\ SumFunctionOnSet(f, C) \in Nat /\ SumFunctionOnSet(f, A \cup B) \in Nat
  BY <1>4, SumPart
<1>6. /\ SumFunctionOnSet(f, B \ A) <= SumFunctionOnSet(f, B)
      /\ SumFunctionOnSet(f, B \ A) \in Nat /\ SumFunctionOnSet(f, B) \in Nat
  <2>1. B \ A \subseteq B
    OBVIOUS
  <2> QED
    BY <2>1, SumPart
<1>7. SumFunctionOnSet(f, A) \in Nat
  <2>1. A \subseteq A
    OBVIOUS
  <2> QED
    BY <2>1, SumPart
<1> QED
  BY <1>3, <1>4, <1>5, <1>6, <1>7

\* Nothing is paid at a time at which nothing is paid.
LEMMA SumNothing ==
  ASSUME NEW f, NEW A, A \subseteq Times, \A t \in A : f[t] = 0
  PROVE  SumFunctionOnSet(f, A) = 0
BY TimesFinite, FS_Subset, SumZero

\* What is paid at time t is so much more, and nothing else is.
PaidAt(f, g, t, amount) ==
  /\ f \in [Times -> Nat] /\ g \in [Times -> Nat]
  /\ g[t] = f[t] + amount
  /\ \A u \in Times \ {t} : g[u] = f[u]

\* What is paid at time t counts wherever t does.
LEMMA SumPaid ==
  ASSUME NEW f, NEW g, NEW t \in Times, NEW amount \in Nat, PaidAt(f, g, t, amount),
         NEW A, A \subseteq Times
  PROVE  SumFunctionOnSet(g, A)
           = IF t \in A THEN SumFunctionOnSet(f, A) + amount ELSE SumFunctionOnSet(f, A)
<1>1. IsFiniteSet(A)
  BY TimesFinite, FS_Subset
<1>2. /\ \A u \in A : f[u] \in Int /\ g[u] \in Int
      /\ \A u \in A \ {t} : f[u] = g[u]
      /\ g[t] = f[t] + amount
  BY DEF PaidAt
<1>3. CASE t \in A
  <2>1. SumFunctionOnSet(g, A) = SumFunctionOnSet(f, A) + g[t] - f[t]
    BY <1>1, <1>2, <1>3, SumChange
  <2>2. SumFunctionOnSet(f, A) \in Int
    BY <1>1, <1>2, SumType
  <2> QED
    BY <1>2, <1>3, <2>1, <2>2
<1>4. CASE t \notin A
  <2>1. \A u \in A : g[u] = f[u]
    BY <1>2, <1>4
  <2>2. SumFunctionOnSet(g, A) = SumFunctionOnSet(f, A)
    BY <1>1, <2>1, SumAgree
  <2> QED
    BY <1>4, <2>2
<1> QED
  BY <1>3, <1>4

(***************************************************************************)
(* One policy's book: what was spent under it, since when the day's        *)
(* counter counts, and what was paid when.  The day's counter is at least  *)
(* what was paid since its window began, and no payment lies behind the    *)
(* window's end, so a window that begins now has nothing paid in it yet.   *)
(* Twenty-four hours meet at most two windows: the last, and the one       *)
(* before it, of which all that counts was paid in the day before the last *)
(* began.                                                                  *)
(***************************************************************************)
WordKept(p, start, payments) ==
  /\ p.totalBudget > 0 => SumFunctionOnSet(payments, Times) <= p.totalBudget
  /\ p.validUntil > 0 => SumFunctionOnSet(payments, After(p.validUntil)) = 0
  /\ p.dailyBudget > 0 =>
       /\ SumFunctionOnSet(payments, From(start)) <= p.dailyBudget
       /\ SumFunctionOnSet(payments, DayFrom(start - OneDay)) <= p.dailyBudget
       /\ \A t \in Times : SumFunctionOnSet(payments, DayFrom(t)) <= 2 * p.dailyBudget

BookOK(p, total, spent, start, payments) ==
  /\ p \in PolicyRecords /\ total \in Nat /\ spent \in Nat
  /\ start \in Int /\ start <= now
  /\ payments \in [Times -> Nat]
  /\ \A t \in Times : payments[t] > 0 => t <= now /\ t < start + OneDay
  /\ SumFunctionOnSet(payments, Times) <= total
  /\ SumFunctionOnSet(payments, From(start)) <= spent
  /\ p # NoPolicy => p \in PolicyChoices /\ WordKept(p, start, payments)

\* A policy that is set anew has paid nothing; the counters stay as they are.
LEMMA BookSet ==
  ASSUME NEW p, NEW new \in PolicyRecords, NEW total, NEW spent, NEW start, NEW payments,
         BookOK(p, total, spent, start, payments),
         NEW none, none = [t \in Times |-> 0]
  PROVE  BookOK(new, total, spent, start, none)
<1>1. /\ SumFunctionOnSet(none, Times) = 0
      /\ SumFunctionOnSet(none, From(start)) = 0
      /\ \A t \in Int : SumFunctionOnSet(none, DayFrom(t)) = 0
      /\ \A t : SumFunctionOnSet(none, After(t)) = 0
  <2>1. /\ From(start) \subseteq Times
        /\ \A t \in Int : DayFrom(t) \subseteq Times
        /\ \A t : After(t) \subseteq Times
    BY DEF From, DayFrom, After
  <2>2. ASSUME NEW A, A \subseteq Times PROVE SumFunctionOnSet(none, A) = 0
    BY <2>2, SumNothing
  <2> QED
    BY <2>1, <2>2
<1>2. start \in Int /\ total \in Nat /\ spent \in Nat /\ OneDay \in Nat
  BY PaymasterAssumption DEF BookOK
<1>3. ASSUME new # NoPolicy PROVE new \in PolicyChoices /\ WordKept(new, start, none)
  <2>1. new \in PolicyChoices
    BY <1>3 DEF PolicyRecords, NoPolicy
  <2>2. {new.dailyBudget, new.totalBudget, new.validUntil} \subseteq Nat
    BY <2>1, PaymasterAssumption
  <2>3. /\ SumFunctionOnSet(none, DayFrom(start - OneDay)) = 0
        /\ \A t \in Times : SumFunctionOnSet(none, DayFrom(t)) = 0
    <3>1. start - OneDay \in Int /\ Times \subseteq Int
      BY <1>2, TimesFinite
    <3> QED
      BY <1>1, <3>1
  <2> QED
    BY <1>1, <1>2, <2>1, <2>2, <2>3 DEF WordKept
<1> QED
  BY <1>1, <1>2, <1>3 DEF BookOK

\* Without a policy, and with the counters cleared, nothing was paid.
LEMMA BookCleared ==
  ASSUME now \in Times, NEW none, none = [t \in Times |-> 0]
  PROVE  BookOK(NoPolicy, 0, 0, Never, none)
<1>1. SumFunctionOnSet(none, Times) = 0 /\ SumFunctionOnSet(none, From(Never)) = 0
  <2>1. From(Never) \subseteq Times
    BY DEF From
  <2>2. ASSUME NEW A, A \subseteq Times PROVE SumFunctionOnSet(none, A) = 0
    BY <2>2, SumNothing
  <2> QED
    BY <2>1, <2>2
<1>2. Never \in Int /\ Never <= now
  BY PaymasterAssumption, TimesFinite DEF Never
<1> QED
  BY <1>1, <1>2 DEF BookOK, PolicyRecords, NoPolicy

\* The day's window and counter as settlement finds them, and what it asks of the policy.
Start(start) == IF now >= start + OneDay THEN now ELSE start
Spent(start, spent) == IF now >= start + OneDay THEN 0 ELSE spent
Allows(p, total, spent, start, amount) ==
  /\ p.validUntil > 0 => now <= p.validUntil
  /\ p.dailyBudget > 0 => Spent(start, spent) + amount <= p.dailyBudget
  /\ p.totalBudget > 0 => total + amount <= p.totalBudget

\* A payment that the policy allows leaves its book in order.
LEMMA BookPaid ==
  ASSUME now \in Times, NEW p \in PolicyChoices, NEW total, NEW spent, NEW start, NEW payments,
         NEW amount \in Nat, NEW payments2,
         p # NoPolicy, BookOK(p, total, spent, start, payments),
         Allows(p, total, spent, start, amount), PaidAt(payments, payments2, now, amount)
  PROVE  BookOK(p, total + amount, Spent(start, spent) + amount, Start(start), payments2)
<1>1. /\ total \in Nat /\ spent \in Nat /\ start \in Int /\ start <= now
      /\ now \in Nat /\ now \in Int /\ OneDay \in Nat /\ OneDay > 0
      /\ payments \in [Times -> Nat] /\ payments2 \in [Times -> Nat]
      /\ \A t \in Times : payments[t] > 0 => t <= now /\ t < start + OneDay
      /\ {p.dailyBudget, p.totalBudget, p.validUntil} \subseteq Nat
  BY PaymasterAssumption, TimesFinite DEF BookOK, PaidAt
<1>0. ASSUME NEW A, A \subseteq Times, now \notin A
      PROVE  SumFunctionOnSet(payments2, A) = SumFunctionOnSet(payments, A)
  <2>1. IsFiniteSet(A) /\ \A u \in A : payments2[u] = payments[u]
    BY <1>0, TimesFinite, FS_Subset DEF PaidAt
  <2> QED
    BY <2>1, SumAgree
<1>2. PICK first \in Int : first = Start(start)
  BY <1>1 DEF Start
<1>3. PICK before \in Nat : before = Spent(start, spent)
  BY <1>1 DEF Spent
<1>4. first <= now /\ now < first + OneDay /\ start <= first
  BY <1>1, <1>2 DEF Start
<1>5. \A t \in Times : payments2[t] > 0 => t <= now /\ t < first + OneDay
  <2>1. ASSUME NEW t \in Times, payments2[t] > 0, t # now
        PROVE  t <= now /\ t < first + OneDay
    <3>1. payments[t] > 0
      BY <2>1 DEF PaidAt
    <3>2. t <= now /\ t < start + OneDay /\ t \in Int
      BY <1>1, <2>1, <3>1, TimesFinite
    <3> QED
      BY <1>1, <1>4, <3>2
  <2> QED
    BY <1>1, <1>4, <2>1
\* A window that begins now has nothing paid in it, and one that goes on is the one it was.
<1>6. /\ SumFunctionOnSet(payments, From(first)) \in Nat
      /\ SumFunctionOnSet(payments, From(first)) <= before
      /\ p.dailyBudget > 0 => SumFunctionOnSet(payments, From(first)) <= p.dailyBudget
  <2>1. CASE now >= start + OneDay
    <3>1. \A t \in From(first) : payments[t] = 0
      <4>1. ASSUME NEW t \in From(first), payments[t] # 0 PROVE FALSE
        <5>1. t \in Times /\ t \in Int /\ first <= t /\ first = now /\ payments[t] > 0
          BY <1>1, <1>2, <2>1, <4>1, TimesFinite DEF From, Start
        <5> QED
          BY <1>1, <2>1, <5>1
      <4> QED
        BY <4>1
    <3>2. SumFunctionOnSet(payments, From(first)) = 0
      BY <3>1, SumNothing DEF From
    <3> QED
      BY <1>1, <1>3, <3>2
  <2>2. CASE ~(now >= start + OneDay)
    <3>1. first = start /\ before = spent
      BY <1>2, <1>3, <2>2 DEF Start, Spent
    <3>2. SumFunctionOnSet(payments, From(first)) \in Nat
      BY <1>1, SumPart DEF From
    <3> QED
      BY <3>1, <3>2 DEF BookOK, WordKept
  <2> QED
    BY <2>1, <2>2
<1>7. /\ SumFunctionOnSet(payments2, Times) = SumFunctionOnSet(payments, Times) + amount
      /\ SumFunctionOnSet(payments2, From(first))
           = SumFunctionOnSet(payments, From(first)) + amount
  <2>1. now \in From(first) /\ From(first) \subseteq Times
    BY <1>4 DEF From
  <2> QED
    BY <2>1, SumPaid
<1>8. SumFunctionOnSet(payments, Times) \in Nat /\ SumFunctionOnSet(payments, Times) <= total
  BY <1>1, SumPart DEF BookOK
<1>9. p.totalBudget > 0 => SumFunctionOnSet(payments2, Times) <= p.totalBudget
  BY <1>1, <1>7, <1>8 DEF Allows
<1>10. p.validUntil > 0 => SumFunctionOnSet(payments2, After(p.validUntil)) = 0
  <2>1. ASSUME p.validUntil > 0 PROVE SumFunctionOnSet(payments2, After(p.validUntil)) = 0
    <3>1. now <= p.validUntil /\ After(p.validUntil) \subseteq Times
      BY <2>1 DEF Allows, After
    <3>2. now \notin After(p.validUntil)
      BY <1>1, <3>1 DEF After
    <3>3. SumFunctionOnSet(payments, After(p.validUntil)) = 0
      BY <2>1 DEF BookOK, WordKept
    <3> QED
      BY <3>1, <3>2, <3>3, SumPaid
  <2> QED
    BY <2>1
<1>11. ASSUME p.dailyBudget > 0
       PROVE  /\ SumFunctionOnSet(payments2, From(first)) \in Nat
              /\ SumFunctionOnSet(payments2, From(first)) <= p.dailyBudget
              /\ SumFunctionOnSet(payments2, DayFrom(first - OneDay)) \in Nat
              /\ SumFunctionOnSet(payments2, DayFrom(first - OneDay)) <= p.dailyBudget
  <2>1. before + amount <= p.dailyBudget
    BY <1>3, <1>11 DEF Allows
  <2>2. /\ DayFrom(first - OneDay) \subseteq Times
        /\ SumFunctionOnSet(payments, DayFrom(first - OneDay)) \in Nat
    <3>1. DayFrom(first - OneDay) \subseteq Times
      BY DEF DayFrom
    <3> QED
      BY <1>1, <3>1, SumPart
  <2>3. now \notin DayFrom(first - OneDay)
    BY <1>1, <1>4 DEF DayFrom
  <2>4. SumFunctionOnSet(payments2, DayFrom(first - OneDay))
          = SumFunctionOnSet(payments, DayFrom(first - OneDay))
    BY <1>0, <2>2, <2>3
  <2>5. SumFunctionOnSet(payments, DayFrom(first - OneDay)) <= p.dailyBudget
    <3>1. CASE now >= start + OneDay
      <4>1. first = now
        BY <1>2, <3>1 DEF Start
      <4>2. DayFrom(first - OneDay) \subseteq From(start) /\ From(start) \subseteq Times
        <5>1. ASSUME NEW u \in Times, first - OneDay <= u PROVE start <= u
          <6>1. u \in Int
            BY TimesFinite
          <6> QED
            BY <1>1, <3>1, <4>1, <5>1, <6>1
        <5> QED
          BY <5>1 DEF DayFrom, From
      <4>3. /\ SumFunctionOnSet(payments, DayFrom(first - OneDay))
                 <= SumFunctionOnSet(payments, From(start))
            /\ SumFunctionOnSet(payments, From(start)) \in Nat
        BY <1>1, <4>2, SumPart
      <4>4. SumFunctionOnSet(payments, From(start)) <= p.dailyBudget
        BY <1>11 DEF BookOK, WordKept
      <4> QED
        BY <1>1, <2>2, <4>3, <4>4
    <3>2. CASE ~(now >= start + OneDay)
      <4>1. first = start
        BY <1>2, <3>2 DEF Start
      <4> QED
        BY <1>11, <4>1 DEF BookOK, WordKept
    <3> QED
      BY <3>1, <3>2
  <2> QED
    BY <1>1, <1>6, <1>7, <2>1, <2>2, <2>4, <2>5
<1>12. ASSUME p.dailyBudget > 0, NEW t \in Times
       PROVE  SumFunctionOnSet(payments2, DayFrom(t)) <= 2 * p.dailyBudget
  <2>0. /\ t \in Int /\ DayFrom(t) \subseteq Times
        /\ DayFrom(first - OneDay) \subseteq Times /\ From(first) \subseteq Times
    BY TimesFinite DEF DayFrom, From
  <2>1. CASE now \in DayFrom(t)
    <3>1. DayFrom(t) \subseteq DayFrom(first - OneDay) \cup From(first)
      <4>1. t <= now /\ now < t + OneDay
        BY <2>1 DEF DayFrom
      <4>2. ASSUME NEW u \in Times, t <= u, ~(first <= u)
            PROVE  first - OneDay <= u /\ u < (first - OneDay) + OneDay
        <5>1. u \in Int
          BY TimesFinite
        <5> QED
          BY <1>1, <1>4, <2>0, <4>1, <4>2, <5>1
      <4> QED
        BY <4>2 DEF DayFrom, From
    <3>2. SumFunctionOnSet(payments2, DayFrom(t))
            <= SumFunctionOnSet(payments2, DayFrom(first - OneDay))
                 + SumFunctionOnSet(payments2, From(first))
      BY <1>1, <2>0, <3>1, SumCover
    <3>3. SumFunctionOnSet(payments2, DayFrom(t)) \in Nat
      BY <1>1, <2>0, SumPart
    <3> QED
      BY <1>1, <1>11, <1>12, <3>2, <3>3
  <2>2. CASE now \notin DayFrom(t)
    <3>1. SumFunctionOnSet(payments2, DayFrom(t)) = SumFunctionOnSet(payments, DayFrom(t))
      BY <1>0, <2>0, <2>2
    <3> QED
      BY <1>12, <3>1 DEF BookOK, WordKept
  <2> QED
    BY <2>1, <2>2
<1>13. WordKept(p, first, payments2)
  BY <1>9, <1>10, <1>11, <1>12 DEF WordKept
<1>14. /\ total + amount \in Nat /\ before + amount \in Nat
       /\ SumFunctionOnSet(payments2, Times) <= total + amount
       /\ SumFunctionOnSet(payments2, From(first)) <= before + amount
  BY <1>1, <1>6, <1>7, <1>8
<1>15. BookOK(p, total + amount, before + amount, first, payments2)
  BY <1>1, <1>4, <1>5, <1>13, <1>14 DEF BookOK, PolicyRecords
<1> QED
  BY <1>2, <1>3, <1>15

(***************************************************************************)
(* The inductive invariant.  Owes is the ledger, Books the policies; both  *)
(* hold of the state that is and of every state a throw would go back to.  *)
(* While a sponsored call is suspended a transaction is running, so the    *)
(* clock does not move under a state that is kept.                         *)
(***************************************************************************)
Owes(dep, g) ==
  /\ dep \in [Parties -> Nat] /\ g \in [Holders -> Nat]
  /\ g[ThisPaymaster] = SumFunction(dep)

Tables(pol, total, spent, start, payments) ==
  /\ pol \in [Parties -> [Scopes -> PolicyRecords]]
  /\ total \in [Parties -> [Scopes -> Nat]] /\ spent \in [Parties -> [Scopes -> Nat]]
  /\ start \in [Parties -> [Scopes -> Int]]
  /\ payments \in [Parties -> [Scopes -> [Times -> Nat]]]
Books(pol, total, spent, start, payments) ==
  /\ Tables(pol, total, spent, start, payments)
  /\ \A s \in Parties, c \in Scopes :
       BookOK(pol[s][c], total[s][c], spent[s][c], start[s][c], payments[s][c])

Txs == [sender : Parties, fee : Nat, claimed : Nat]

\* A state to go back to.
SavedOK(st) ==
  /\ Owes(st.deposit, st.gas)
  /\ Books(st.policy, st.totalSpent, st.dailySpent, st.dailyReset, st.paid)
  /\ st.tx \in Txs /\ st.tx # NoTx
FrameOK(f) ==
  /\ f.account \in Accounts /\ f.sponsor \in Parties
  /\ f.amount \in Nat \ {0} /\ SavedOK(f.saved)

PaymasterInv ==
  /\ now \in Times
  /\ tx \in Txs \cup {NoTx} /\ (sponsored # <<>> => tx # NoTx)
  /\ Owes(deposit, gas)
  /\ Books(policy, totalSpent, dailySpent, dailyReset, paid)
  /\ sponsored \in Seq(Range(sponsored)) /\ \A f \in Range(sponsored) : FrameOK(f)

\* A sequence has what it ranges over, and that suffices.
LEMMA SeqOverRange ==
  ASSUME NEW S, NEW s \in Seq(S)
  PROVE  s \in Seq(Range(s)) /\ Range(s) \subseteq S
<1>1. Len(s) \in Nat /\ s \in [1..Len(s) -> S]
  BY LenProperties
<1>2. s \in [1..Len(s) -> Range(s)] /\ Range(s) \subseteq S
  BY <1>1 DEF Range
<1>3. s \in Seq(Range(s))
  BY <1>1, <1>2
<1> QED
  BY <1>2, <1>3

\* At first nobody has deposited, set a policy or been paid.
LEMMA PaymasterInvInit == PaymasterInit => PaymasterInv
<1> SUFFICES ASSUME PaymasterInit PROVE PaymasterInv
  OBVIOUS
<1>1. now \in Times
  BY BoundAssumption DEF PaymasterInit, Init, Times
<1>2. Owes(deposit, gas)
  <2>1. /\ DOMAIN deposit = Parties /\ \A s \in Parties : deposit[s] = 0
        /\ deposit \in [Parties -> Nat] /\ gas \in [Holders -> Nat] /\ gas[ThisPaymaster] = 0
    BY PaymasterAssumption DEF PaymasterInit, Holders
  <2>2. SumFunctionOnSet(deposit, Parties) = 0
    BY <2>1, PaymasterAssumption, SumZero
  <2> QED
    BY <2>1, <2>2 DEF Owes, SumFunction
<1>3. Books(policy, totalSpent, dailySpent, dailyReset, paid)
  <2>1. Never \in Int /\ NoPolicy \in PolicyRecords
    BY PaymasterAssumption DEF Never, NoPolicy, PolicyRecords
  <2>2. PICK none : none = [t \in Times |-> 0]
    OBVIOUS
  <2>3. BookOK(NoPolicy, 0, 0, Never, none) /\ none \in [Times -> Nat]
    BY <1>1, <2>2, BookCleared
  <2>4. /\ policy = [s \in Parties |-> [c \in Scopes |-> NoPolicy]]
        /\ dailySpent = [s \in Parties |-> [c \in Scopes |-> 0]]
        /\ dailyReset = [s \in Parties |-> [c \in Scopes |-> Never]]
        /\ totalSpent = [s \in Parties |-> [c \in Scopes |-> 0]]
    BY DEF PaymasterInit
  <2>5. paid = [s \in Parties |-> [c \in Scopes |-> none]]
    BY <2>2 DEF PaymasterInit
  <2>6. Tables(policy, totalSpent, dailySpent, dailyReset, paid)
    BY <2>1, <2>3, <2>4, <2>5 DEF Tables
  <2>7. ASSUME NEW s \in Parties, NEW c \in Scopes
        PROVE  BookOK(policy[s][c], totalSpent[s][c], dailySpent[s][c], dailyReset[s][c],
                      paid[s][c])
    <3>1. /\ policy[s][c] = NoPolicy /\ totalSpent[s][c] = 0 /\ dailySpent[s][c] = 0
          /\ dailyReset[s][c] = Never /\ paid[s][c] = none
      BY <2>4, <2>5
    <3> QED
      BY <2>3, <3>1
  <2> QED
    BY <2>6, <2>7 DEF Books
<1>4. tx = NoTx /\ sponsored = <<>>
  BY DEF PaymasterInit
<1>5. sponsored \in Seq(Range(sponsored)) /\ \A f \in Range(sponsored) : FrameOK(f)
  <2>1. sponsored \in Seq({})
    BY <1>4
  <2> QED
    BY <2>1, SeqOverRange
<1> QED
  BY <1>1, <1>2, <1>3, <1>4, <1>5 DEF PaymasterInv

(***************************************************************************)
(* What each kind of step does to the ledger and the books.                *)
(***************************************************************************)
\* A sponsor's deposit moves by d, and what the contract holds with it.
Moved(dep, dep2, g, g2, s, d) ==
  /\ dep2 \in [Parties -> Nat] /\ g2 \in [Holders -> Nat]
  /\ dep2[s] = dep[s] + d
  /\ \A u \in Parties \ {s} : dep[u] = dep2[u]
  /\ g2[ThisPaymaster] = g[ThisPaymaster] + d

\* A deposit that moves together with what the contract holds leaves the ledger in balance.
LEMMA OwesMoved ==
  ASSUME NEW dep, NEW dep2, NEW g, NEW g2, NEW s \in Parties, NEW d \in Int,
         Owes(dep, g), Moved(dep, dep2, g, g2, s, d)
  PROVE  Owes(dep2, g2)
<1>1. /\ DOMAIN dep = Parties /\ DOMAIN dep2 = Parties /\ IsFiniteSet(Parties)
      /\ dep[s] \in Int
  BY PaymasterAssumption DEF Owes, Moved
<1>2. \A u \in Parties : dep[u] \in Int /\ dep2[u] \in Int
  BY DEF Owes, Moved
<1>3. \A u \in Parties \ {s} : dep[u] = dep2[u]
  BY DEF Moved
<1>4. SumFunctionOnSet(dep2, Parties) = SumFunctionOnSet(dep, Parties) + dep2[s] - dep[s]
  BY <1>1, <1>2, <1>3, SumChange
<1>5. SumFunctionOnSet(dep, Parties) \in Int
  BY <1>1, <1>2, SumType
<1> QED
  BY <1>1, <1>4, <1>5 DEF Owes, Moved, SumFunction

\* GAS that is transferred is neither made nor lost.
LEMMA Transferred ==
  ASSUME NEW from \in Holders, NEW to \in Holders, NEW amount \in Nat,
         gas \in [Holders -> Nat], Transfer(from, to, amount), from # to
  PROVE  /\ gas' \in [Holders -> Nat]
         /\ gas'[from] = gas[from] - amount
         /\ gas'[to] = gas[to] + amount
<1>1. gas[from] - amount \in Nat /\ gas[to] + amount \in Nat
  BY DEF Transfer
<1>2. gas' = [gas EXCEPT ![from] = @ - amount, ![to] = @ + amount]
  BY DEF Transfer
<1>3. PICK h : h = [gas EXCEPT ![from] = @ - amount]
  OBVIOUS
<1>4. h \in [Holders -> Nat] /\ h[from] = gas[from] - amount /\ h[to] = gas[to]
  BY <1>1, <1>3
<1>5. gas' = [h EXCEPT ![to] = @ + amount]
  BY <1>2, <1>3
<1> QED
  BY <1>1, <1>4, <1>5

\* Time only goes on, and the books stay in order; what is kept to go back to does, too.
LEMMA BooksLast ==
  ASSUME now \in Times, now' \in Times, now <= now',
         Books(policy', totalSpent', dailySpent', dailyReset', paid')
  PROVE  Books(policy, totalSpent, dailySpent, dailyReset, paid)'
<1>1. now \in Int /\ now' \in Int /\ \A t \in Times : t \in Int
  BY TimesFinite
<1>2. Tables(policy, totalSpent, dailySpent, dailyReset, paid)'
  BY DEF Books, Tables
<1>3. ASSUME NEW s \in Parties, NEW c \in Scopes
      PROVE  BookOK(policy[s][c], totalSpent[s][c], dailySpent[s][c], dailyReset[s][c],
                    paid[s][c])'
  <2>1. BookOK(policy'[s][c], totalSpent'[s][c], dailySpent'[s][c], dailyReset'[s][c],
               paid'[s][c])
    BY DEF Books
  <2>2. PICK w \in Int : w = dailyReset'[s][c]
    BY <2>1 DEF BookOK
  <2>3. w <= now /\ w <= now'
    BY <1>1, <2>1, <2>2 DEF BookOK
  <2>4. \A t \in Times : paid'[s][c][t] > 0 => t <= now' /\ t < w + OneDay
    BY <1>1, <2>1, <2>2 DEF BookOK
  <2> QED
    BY <2>1, <2>2, <2>3, <2>4 DEF BookOK
<1> QED
  BY <1>2, <1>3 DEF Books

\* A suspended call that was in order is so as long as the clock stands.
LEMMA FrameLasts ==
  ASSUME now' = now, NEW f, FrameOK(f)
  PROVE  FrameOK(f)'
BY DEF FrameOK, SavedOK, Owes, Books, Tables, BookOK

\* So is the whole stack, whichever of its calls are left.
LEMMA StackLasts ==
  ASSUME now' = now, NEW S, \A f \in S : FrameOK(f), sponsored' \in Seq(S)
  PROVE  (sponsored \in Seq(Range(sponsored)) /\ \A f \in Range(sponsored) : FrameOK(f))'
<1>1. sponsored' \in Seq(Range(sponsored')) /\ Range(sponsored') \subseteq S
  <2>1. ASSUME NEW z, z = sponsored' PROVE z \in Seq(Range(z)) /\ Range(z) \subseteq S
    BY <2>1, SeqOverRange
  <2> QED
    BY <2>1
<1>2. \A f \in S : FrameOK(f)'
  BY FrameLasts
<1> QED
  BY <1>1, <1>2 DEF Range

\* The other policies' books stay as they are.
OthersKept(s, c) ==
  \A u \in Parties, k \in Scopes : ~(u = s /\ k = c) =>
    /\ policy'[u][k] = policy[u][k] /\ totalSpent'[u][k] = totalSpent[u][k]
    /\ dailySpent'[u][k] = dailySpent[u][k] /\ dailyReset'[u][k] = dailyReset[u][k]
    /\ paid'[u][k] = paid[u][k]

\* One policy's book changes, and no other.
LEMMA BooksChanged ==
  ASSUME NEW s \in Parties, NEW c \in Scopes,
         Books(policy, totalSpent, dailySpent, dailyReset, paid),
         Tables(policy', totalSpent', dailySpent', dailyReset', paid'),
         BookOK(policy'[s][c], totalSpent'[s][c], dailySpent'[s][c], dailyReset'[s][c],
                paid'[s][c]),
         OthersKept(s, c)
  PROVE  Books(policy', totalSpent', dailySpent', dailyReset', paid')
<1>1. ASSUME NEW u \in Parties, NEW k \in Scopes
      PROVE  BookOK(policy'[u][k], totalSpent'[u][k], dailySpent'[u][k], dailyReset'[u][k],
                    paid'[u][k])
  <2>1. BookOK(policy[u][k], totalSpent[u][k], dailySpent[u][k], dailyReset[u][k], paid[u][k])
    BY DEF Books
  <2> QED
    BY <2>1 DEF OthersKept
<1> QED
  BY <1>1 DEF Books

(***************************************************************************)
(* The steps.                                                              *)
(***************************************************************************)
\* Everything the sponsors own, and the clock.
Kept == UNCHANGED <<now, deposit, gas, policy, totalSpent, dailySpent, dailyReset, paid>>

\* A deposit or a withdrawal.
LEMMA DepositStep ==
  ASSUME PaymasterInv, NEW s \in Parties, NEW amount \in Amounts,
         OnNEP17Payment(s, amount) \/ WithdrawDeposit(s, amount)
  PROVE  Owes(deposit', gas') /\ UNCHANGED <<policy, totalSpent, dailySpent, dailyReset, paid>>
<1>1. /\ amount \in Nat /\ s \in Holders /\ ThisPaymaster \in Holders /\ s # ThisPaymaster
      /\ deposit \in [Parties -> Nat] /\ gas \in [Holders -> Nat] /\ Owes(deposit, gas)
  BY PaymasterAssumption DEF Holders, PaymasterInv, Owes
<1>2. UNCHANGED <<policy, totalSpent, dailySpent, dailyReset, paid>>
  BY DEF OnNEP17Payment, WithdrawDeposit, counters
<1>3. CASE OnNEP17Payment(s, amount)
  <2>1. /\ deposit' = [deposit EXCEPT ![s] = @ + amount]
        /\ gas' \in [Holders -> Nat] /\ gas'[ThisPaymaster] = gas[ThisPaymaster] + amount
    BY <1>1, <1>3, Transferred DEF OnNEP17Payment
  <2>2. Moved(deposit, deposit', gas, gas', s, amount)
    BY <1>1, <2>1 DEF Moved
  <2> QED
    BY <1>1, <1>2, <2>2, OwesMoved
<1>4. CASE WithdrawDeposit(s, amount)
  <2>1. /\ deposit' = [deposit EXCEPT ![s] = @ - amount] /\ amount <= deposit[s]
        /\ gas' \in [Holders -> Nat] /\ gas'[ThisPaymaster] = gas[ThisPaymaster] - amount
    BY <1>1, <1>4, Transferred DEF WithdrawDeposit
  <2>2. PICK d \in Int : d = 0 - amount
    BY <1>1
  <2>3. Moved(deposit, deposit', gas, gas', s, d)
    <3>1. /\ deposit[s] - amount \in Nat /\ deposit[s] - amount = deposit[s] + d
          /\ gas[ThisPaymaster] - amount = gas[ThisPaymaster] + d
      BY <1>1, <2>1, <2>2
    <3> QED
      BY <1>1, <2>1, <3>1 DEF Moved
  <2> QED
    BY <1>1, <1>2, <2>2, <2>3, OwesMoved
<1> QED
  BY <1>3, <1>4

\* A policy that is set or revoked.
LEMMA PolicyStep ==
  ASSUME PaymasterInv, NEW s \in Parties, NEW c \in Scopes,
         RevokePolicy(s, c) \/ \E p \in PolicyChoices : SetPolicy(s, c, p)
  PROVE  /\ Books(policy', totalSpent', dailySpent', dailyReset', paid')
         /\ UNCHANGED <<deposit, gas>>
<1>1. /\ Tables(policy, totalSpent, dailySpent, dailyReset, paid)
      /\ Books(policy, totalSpent, dailySpent, dailyReset, paid)
      /\ BookOK(policy[s][c], totalSpent[s][c], dailySpent[s][c], dailyReset[s][c], paid[s][c])
      /\ now \in Times
  BY DEF PaymasterInv, Books
<1>2. PICK none : none = [t \in Times |-> 0]
  OBVIOUS
<1>3. none \in [Times -> Nat] /\ NoPolicy \in PolicyRecords /\ Never \in Int
  BY <1>2, PaymasterAssumption DEF NoPolicy, PolicyRecords, Never
<1>4. ASSUME NEW p \in PolicyChoices, SetPolicy(s, c, p)
      PROVE  Books(policy', totalSpent', dailySpent', dailyReset', paid')
  <2>1. /\ policy' = [policy EXCEPT ![s][c] = p]
        /\ paid' = [paid EXCEPT ![s][c] = none]
        /\ UNCHANGED <<totalSpent, dailySpent, dailyReset>>
    BY <1>2, <1>4 DEF SetPolicy
  <2>2. p \in PolicyRecords
    BY DEF PolicyRecords
  <2>3. Tables(policy', totalSpent', dailySpent', dailyReset', paid')
    BY <1>1, <1>3, <2>1, <2>2 DEF Tables
  <2>4. BookOK(p, totalSpent[s][c], dailySpent[s][c], dailyReset[s][c], none)
    BY <1>1, <1>2, <2>2, BookSet
  <2>5. policy'[s][c] = p /\ paid'[s][c] = none
    BY <1>1, <2>1 DEF Tables
  <2>6. BookOK(policy'[s][c], totalSpent'[s][c], dailySpent'[s][c], dailyReset'[s][c],
               paid'[s][c])
    BY <2>1, <2>4, <2>5
  <2>7. OthersKept(s, c)
    BY <1>1, <2>1 DEF Tables, OthersKept
  <2> QED
    BY <1>1, <2>1, <2>3, <2>6, <2>7, BooksChanged
<1>5. ASSUME RevokePolicy(s, c)
      PROVE  Books(policy', totalSpent', dailySpent', dailyReset', paid')
  <2>1. /\ policy' = [policy EXCEPT ![s][c] = NoPolicy]
        /\ dailySpent' = [dailySpent EXCEPT ![s][c] = 0]
        /\ dailyReset' = [dailyReset EXCEPT ![s][c] = Never]
        /\ totalSpent' = [totalSpent EXCEPT ![s][c] = 0]
        /\ paid' = [paid EXCEPT ![s][c] = none]
    BY <1>2, <1>5 DEF RevokePolicy
  <2>2. Tables(policy', totalSpent', dailySpent', dailyReset', paid')
    BY <1>1, <1>3, <2>1 DEF Tables
  <2>3. BookOK(NoPolicy, 0, 0, Never, none)
    BY <1>1, <1>2, BookCleared
  <2>4. /\ policy'[s][c] = NoPolicy /\ totalSpent'[s][c] = 0 /\ dailySpent'[s][c] = 0
        /\ dailyReset'[s][c] = Never /\ paid'[s][c] = none
    BY <1>1, <2>1 DEF Tables
  <2>5. BookOK(policy'[s][c], totalSpent'[s][c], dailySpent'[s][c], dailyReset'[s][c],
               paid'[s][c])
    BY <2>3, <2>4
  <2>6. OthersKept(s, c)
    BY <1>1, <2>1 DEF Tables, OthersKept
  <2> QED
    BY <1>1, <2>2, <2>5, <2>6, BooksChanged
<1>6. UNCHANGED <<deposit, gas>>
  BY DEF SetPolicy, RevokePolicy
<1> QED
  BY <1>4, <1>5, <1>6

\* A settlement: the deposit is debited and the book has the payment.
LEMMA SettleStep ==
  ASSUME PaymasterInv, NEW s \in Parties, NEW a \in Accounts, NEW call,
         NEW relay \in Parties, NEW amount \in Nat,
         SettleReimbursement(s, a, call, relay, amount)
  PROVE  /\ Owes(deposit', gas')
         /\ Books(policy', totalSpent', dailySpent', dailyReset', paid')
<1> DEFINE c == ScopeOf(s, a)
<1>1. c \in Scopes /\ SpendingKey(s, a) = c /\ ResolvePolicy(s, a) = policy[s][c]
  BY DEF ScopeOf, SpendingKey, ResolvePolicy, Scopes
<1>2. /\ Tables(policy, totalSpent, dailySpent, dailyReset, paid)
      /\ Books(policy, totalSpent, dailySpent, dailyReset, paid)
      /\ BookOK(policy[s][c], totalSpent[s][c], dailySpent[s][c], dailyReset[s][c], paid[s][c])
      /\ now \in Times
  BY <1>1 DEF PaymasterInv, Books
<1>3. /\ amount <= deposit[s] /\ policy[s][c] # NoPolicy
      /\ Allows(policy[s][c], totalSpent[s][c], dailySpent[s][c], dailyReset[s][c], amount)
  BY <1>1 DEF SettleReimbursement, ValidatePaymasterOp, Allows, Spent, GetDailySpent
<1>4. Owes(deposit', gas')
  <2>1. /\ relay \in Holders /\ ThisPaymaster \in Holders /\ relay # ThisPaymaster
        /\ deposit \in [Parties -> Nat] /\ gas \in [Holders -> Nat] /\ Owes(deposit, gas)
    BY PaymasterAssumption DEF Holders, PaymasterInv, Owes
  <2>2. /\ deposit' = [deposit EXCEPT ![s] = @ - amount]
        /\ gas' \in [Holders -> Nat] /\ gas'[ThisPaymaster] = gas[ThisPaymaster] - amount
    BY <2>1, Transferred DEF SettleReimbursement
  <2>3. PICK d \in Int : d = 0 - amount
    OBVIOUS
  <2>4. Moved(deposit, deposit', gas, gas', s, d)
    <3>1. /\ deposit[s] - amount \in Nat /\ deposit[s] - amount = deposit[s] + d
          /\ gas[ThisPaymaster] - amount = gas[ThisPaymaster] + d
      BY <1>3, <2>1, <2>2, <2>3
    <3> QED
      BY <2>1, <2>2, <3>1 DEF Moved
  <2> QED
    BY <2>1, <2>3, <2>4, OwesMoved
<1>5. Books(policy', totalSpent', dailySpent', dailyReset', paid')
  <2> HIDE DEF c
  <2>1. /\ policy' = policy
        /\ dailySpent' = [dailySpent EXCEPT ![s][c] = Spent(dailyReset[s][c], dailySpent[s][c])
                                                        + amount]
        /\ dailyReset' = [dailyReset EXCEPT ![s][c] = Start(dailyReset[s][c])]
        /\ totalSpent' = [totalSpent EXCEPT ![s][c] = @ + amount]
        /\ paid' = [paid EXCEPT ![s][c][now] = @ + amount]
    BY <1>1 DEF SettleReimbursement, UpdateDailySpent, GetDailySpent, Spent, Start, c
  <2>2. /\ totalSpent[s][c] \in Nat /\ dailySpent[s][c] \in Nat /\ dailyReset[s][c] \in Int
        /\ paid[s][c] \in [Times -> Nat] /\ policy[s][c] \in PolicyChoices
        /\ now \in Int
    BY <1>1, <1>2, <1>3, TimesFinite DEF BookOK
  <2>3. PICK start \in Int : start = Start(dailyReset[s][c])
    BY <2>2 DEF Start
  <2>4. PICK spent \in Nat : spent = Spent(dailyReset[s][c], dailySpent[s][c]) + amount
    BY <2>2 DEF Spent
  <2>5. PICK payments : payments = [paid[s][c] EXCEPT ![now] = @ + amount]
    OBVIOUS
  <2>6. payments \in [Times -> Nat] /\ PaidAt(paid[s][c], payments, now, amount)
    BY <1>2, <2>2, <2>5 DEF PaidAt
  <2>7. BookOK(policy[s][c], totalSpent[s][c] + amount, spent, start, payments)
    BY <1>2, <1>3, <2>2, <2>3, <2>4, <2>6, BookPaid
  <2>8. /\ dailySpent' = [dailySpent EXCEPT ![s][c] = spent]
        /\ dailyReset' = [dailyReset EXCEPT ![s][c] = start]
        /\ totalSpent' = [totalSpent EXCEPT ![s][c] = @ + amount]
        /\ paid' = [paid EXCEPT ![s][c] = payments]
    BY <2>1, <2>3, <2>4, <2>5
  <2>9. Tables(policy', totalSpent', dailySpent', dailyReset', paid')
    BY <1>1, <1>2, <2>1, <2>2, <2>6, <2>8 DEF Tables
  <2>10. /\ totalSpent'[s][c] = totalSpent[s][c] + amount /\ dailySpent'[s][c] = spent
         /\ dailyReset'[s][c] = start /\ paid'[s][c] = payments
    BY <1>1, <1>2, <2>8 DEF Tables
  <2>11. BookOK(policy'[s][c], totalSpent'[s][c], dailySpent'[s][c], dailyReset'[s][c],
                paid'[s][c])
    BY <2>1, <2>7, <2>10
  <2>12. OthersKept(s, c)
    BY <1>1, <1>2, <2>1, <2>8 DEF Tables, OthersKept
  <2> QED
    BY <1>1, <1>2, <2>1, <2>9, <2>11, <2>12, BooksChanged
<1> QED
  BY <1>4, <1>5

\* The core's part of a step leaves the clock alone.
LEMMA ClockStands ==
  ASSUME NEW a, NEW who, NEW op, ExecuteUserOp(a, who, op)
  PROVE  now' = now
BY DEF ExecuteUserOp

\* Between transactions the clock may go on, never back.
LEMMA ClockMoves ==
  ASSUME now \in Times, Tick \/ \E who \in Owners : RegistrationNext(who)
  PROVE  now' \in Times /\ now <= now'
<1>1. MaxTime \in Nat /\ now \in Nat
  BY BoundAssumption, TimesFinite
<1>2. CASE Tick
  BY <1>1, <1>2 DEF Tick, Times
<1>3. CASE \E who \in Owners : RegistrationNext(who)
  BY <1>1, <1>3 DEF RegistrationNext, RegisterAccount, RegisterAccounts, RegisterAll
<1> QED
  BY <1>2, <1>3

\* The frame of a sponsored call, on top of the others.
LEMMA Pushed ==
  ASSUME NEW S, NEW s \in Seq(S), NEW f
  PROVE  <<f>> \o s \in Seq(S \cup {f})
<1>1. s \in Seq(S \cup {f}) /\ <<f>> \in Seq(S \cup {f})
  BY SeqMonotonic
<1> QED
  BY <1>1, ConcatProperties

\* A sponsored call suspends over the state it found, which was in order.
LEMMA BeginKeeps ==
  ASSUME PaymasterInv, NEW a \in Accounts, NEW who \in Owners, NEW op \in UserOps,
         NEW ops \in 1..MaxOps, NEW call \in Calls, NEW s \in Parties, NEW requested \in Amounts,
         ExecuteSponsoredUserOps(a, who, op, ops, call, s, requested)
  PROVE  PaymasterInv'
<1>1. PICK f : f = [account |-> a, who |-> who, left |-> ops - 1, call |-> call, sponsor |-> s,
                    amount |-> CapReimbursementToActualCost(requested), saved |-> CurrentState]
  OBVIOUS
<1>2. /\ tx # NoTx /\ sponsored' = <<f>> \o sponsored
      /\ now' = now /\ UNCHANGED <<paymasterVars, tx>>
      /\ CapReimbursementToActualCost(requested) > 0
  BY <1>1, ClockStands DEF ExecuteSponsoredUserOps
<1>3. FrameOK(f)
  <2>1. f.account = a /\ f.sponsor = s /\ f.saved = CurrentState
    BY <1>1
  <2>2. f.amount \in Nat \ {0}
    <3>1. tx \in Txs /\ requested \in Nat
      BY <1>2, PaymasterAssumption DEF PaymasterInv
    <3>2. CapReimbursementToActualCost(requested) \in Nat
      BY <3>1 DEF CapReimbursementToActualCost, Txs
    <3> QED
      BY <1>1, <1>2, <3>2
  <2>3. SavedOK(CurrentState)
    <3>1. PICK st : st = CurrentState
      OBVIOUS
    <3>2. /\ st.deposit = deposit /\ st.gas = gas /\ st.policy = policy
          /\ st.totalSpent = totalSpent /\ st.dailySpent = dailySpent
          /\ st.dailyReset = dailyReset /\ st.paid = paid /\ st.tx = tx
      BY <3>1 DEF CurrentState
    <3> QED
      BY <1>2, <3>1, <3>2 DEF SavedOK, PaymasterInv
  <2> QED
    BY <2>1, <2>2, <2>3 DEF FrameOK
<1>4. sponsored' \in Seq(Range(sponsored) \cup {f}) /\ \A g \in Range(sponsored) \cup {f} : FrameOK(g)
  BY <1>2, <1>3, Pushed DEF PaymasterInv
<1>5. (sponsored \in Seq(Range(sponsored)) /\ \A g \in Range(sponsored) : FrameOK(g))'
  BY <1>2, <1>4, StackLasts
<1>6. Books(policy, totalSpent, dailySpent, dailyReset, paid)'
  <2>1. Books(policy', totalSpent', dailySpent', dailyReset', paid')
    BY <1>2 DEF PaymasterInv, paymasterVars, counters
  <2>2. now \in Times /\ now' \in Times /\ now <= now'
    BY <1>2, TimesFinite DEF PaymasterInv
  <2> QED
    BY <2>1, <2>2, BooksLast
<1> QED
  BY <1>2, <1>5, <1>6 DEF PaymasterInv, Owes, Txs, NoTx, paymasterVars

\* The operation of a frame that comes next, on the frame that stands.
LEMMA NextKeeps ==
  ASSUME PaymasterInv, NEW op \in UserOps, NextUserOp(op)
  PROVE  PaymasterInv'
<1>1. PICK f : f = Head(sponsored)
  OBVIOUS
<1>2. PICK g : g = [f EXCEPT !.left = @ - 1]
  OBVIOUS
<1>3. /\ sponsored # <<>> /\ now' = now /\ UNCHANGED <<paymasterVars, tx>>
      /\ sponsored' = <<g>> \o Tail(sponsored)
  BY <1>1, <1>2, ClockStands DEF NextUserOp
<1>4. FrameOK(f) /\ Tail(sponsored) \in Seq(Range(sponsored))
  BY <1>1, <1>3, HeadTailProperties DEF PaymasterInv
<1>5. FrameOK(g)
  BY <1>2, <1>4 DEF FrameOK
<1>6. sponsored' \in Seq(Range(sponsored) \cup {g}) /\ \A h \in Range(sponsored) \cup {g} : FrameOK(h)
  BY <1>3, <1>4, <1>5, Pushed DEF PaymasterInv
<1>7. (sponsored \in Seq(Range(sponsored)) /\ \A h \in Range(sponsored) : FrameOK(h))'
  BY <1>3, <1>6, StackLasts
<1>8. Books(policy, totalSpent, dailySpent, dailyReset, paid)'
  <2>1. Books(policy', totalSpent', dailySpent', dailyReset', paid')
    BY <1>3 DEF PaymasterInv, paymasterVars, counters
  <2>2. now \in Times /\ now' \in Times /\ now <= now'
    BY <1>3, TimesFinite DEF PaymasterInv
  <2> QED
    BY <2>1, <2>2, BooksLast
<1> QED
  BY <1>3, <1>7, <1>8 DEF PaymasterInv, Owes, Txs, NoTx, paymasterVars

\* The settlement takes its frame off, and the claim of the transaction goes up.
LEMMA FinishKeeps ==
  ASSUME PaymasterInv, FinishSponsored
  PROVE  PaymasterInv'
<1>1. PICK f : f = Head(sponsored)
  OBVIOUS
<1>2. /\ sponsored # <<>> /\ sponsored' = Tail(sponsored)
      /\ SettleReimbursement(f.sponsor, f.account, f.call, tx.sender, f.amount)
      /\ tx' = [tx EXCEPT !.claimed = @ + f.amount]
      /\ now' = now
  BY <1>1 DEF FinishSponsored, vars
<1>3. FrameOK(f) /\ Tail(sponsored) \in Seq(Range(sponsored))
  BY <1>1, <1>2, HeadTailProperties DEF PaymasterInv
<1>4. (sponsored \in Seq(Range(sponsored)) /\ \A g \in Range(sponsored) : FrameOK(g))'
  BY <1>2, <1>3, StackLasts DEF PaymasterInv
<1>5. tx' \in Txs /\ tx' # NoTx
  <2>1. tx \in Txs /\ f.amount \in Nat /\ f.amount > 0
    BY <1>2, <1>3 DEF PaymasterInv, FrameOK
  <2>2. tx'.claimed = tx.claimed + f.amount /\ tx' \in Txs /\ tx.claimed \in Nat
    BY <1>2, <2>1 DEF Txs
  <2>3. tx'.claimed # 0
    BY <2>1, <2>2
  <2> QED
    BY <2>2, <2>3 DEF NoTx
<1>6. Owes(deposit', gas') /\ Books(policy', totalSpent', dailySpent', dailyReset', paid')
  <2>1. f.sponsor \in Parties /\ f.account \in Accounts /\ f.amount \in Nat
    BY <1>3 DEF FrameOK
  <2>2. tx.sender \in Parties
    BY <1>2 DEF PaymasterInv, Txs
  <2> QED
    BY <1>2, <2>1, <2>2, SettleStep
<1>7. Books(policy, totalSpent, dailySpent, dailyReset, paid)' /\ now' \in Times
  <2>1. now \in Times /\ now' \in Times /\ now <= now'
    BY <1>2, TimesFinite DEF PaymasterInv
  <2> QED
    BY <1>6, <2>1, BooksLast
<1> QED
  BY <1>4, <1>5, <1>6, <1>7 DEF PaymasterInv, Owes, Txs, NoTx

\* A throw goes back to a state that was in order.
LEMMA ThrowKeeps ==
  ASSUME PaymasterInv, ThrowSponsored
  PROVE  PaymasterInv'
<1>1. PICK st : st = Head(sponsored).saved
  OBVIOUS
<1>2. /\ sponsored # <<>> /\ sponsored' = Tail(sponsored) /\ now' = now
      /\ deposit' = st.deposit /\ gas' = st.gas /\ policy' = st.policy
      /\ totalSpent' = st.totalSpent /\ dailySpent' = st.dailySpent
      /\ dailyReset' = st.dailyReset /\ paid' = st.paid /\ tx' = st.tx
  BY <1>1 DEF ThrowSponsored
<1>3. FrameOK(Head(sponsored)) /\ Tail(sponsored) \in Seq(Range(sponsored))
  BY <1>2, HeadTailProperties DEF PaymasterInv
<1>4. SavedOK(st)
  BY <1>1, <1>3 DEF FrameOK
<1>5. (sponsored \in Seq(Range(sponsored)) /\ \A g \in Range(sponsored) : FrameOK(g))'
  BY <1>2, <1>3, StackLasts DEF PaymasterInv
<1>6. /\ Owes(deposit', gas') /\ tx' \in Txs /\ tx' # NoTx
      /\ Books(policy', totalSpent', dailySpent', dailyReset', paid')
  BY <1>2, <1>4 DEF SavedOK
<1>7. Books(policy, totalSpent, dailySpent, dailyReset, paid)' /\ now' \in Times
  <2>1. now \in Times /\ now' \in Times /\ now <= now'
    BY <1>2, TimesFinite DEF PaymasterInv
  <2> QED
    BY <1>6, <2>1, BooksLast
<1> QED
  BY <1>5, <1>6, <1>7 DEF PaymasterInv, Owes, Txs, NoTx

\* What the sender does as a sponsor, outside any operation or within one.
LEMMA SponsorKeeps ==
  ASSUME PaymasterInv, SponsorCall
  PROVE  PaymasterInv'
<1>1. tx # NoTx /\ UNCHANGED <<now, tx, sponsored>>
  BY DEF SponsorCall, vars
<1>2. tx.sender \in Parties /\ now \in Times
  BY <1>1 DEF PaymasterInv, Txs
<1>3. Owes(deposit', gas') /\ Books(policy', totalSpent', dailySpent', dailyReset', paid')
  <2>1. Owes(deposit, gas) /\ Books(policy, totalSpent, dailySpent, dailyReset, paid)
    BY DEF PaymasterInv
  <2>2. ASSUME NEW amount \in Amounts,
               OnNEP17Payment(tx.sender, amount) \/ WithdrawDeposit(tx.sender, amount)
        PROVE  Owes(deposit', gas') /\ Books(policy', totalSpent', dailySpent', dailyReset', paid')
    <3>1. /\ Owes(deposit', gas')
          /\ UNCHANGED <<policy, totalSpent, dailySpent, dailyReset, paid>>
      BY <1>2, <2>2, DepositStep
    <3> QED
      BY <2>1, <3>1
  <2>3. ASSUME NEW c \in Scopes,
               \/ RevokePolicy(tx.sender, c)
               \/ \E p \in PolicyChoices : SetPolicy(tx.sender, c, p)
        PROVE  Owes(deposit', gas') /\ Books(policy', totalSpent', dailySpent', dailyReset', paid')
    <3>1. /\ Books(policy', totalSpent', dailySpent', dailyReset', paid')
          /\ UNCHANGED <<deposit, gas>>
      BY <1>2, <2>3, PolicyStep
    <3> QED
      BY <2>1, <3>1
  <2> QED
    BY <2>2, <2>3 DEF SponsorCall
<1>4. Books(policy, totalSpent, dailySpent, dailyReset, paid)'
  <2>1. now \in Times /\ now' \in Times /\ now <= now'
    BY <1>1, <1>2, TimesFinite
  <2> QED
    BY <1>3, <2>1, BooksLast
<1>5. (sponsored \in Seq(Range(sponsored)) /\ \A g \in Range(sponsored) : FrameOK(g))'
  BY <1>1, StackLasts DEF PaymasterInv
<1> QED
  BY <1>1, <1>3, <1>4, <1>5 DEF PaymasterInv, Owes, Txs, NoTx

\* Between transactions no frame is suspended, so time may pass.
LEMMA BetweenKeeps ==
  ASSUME PaymasterInv, Between
  PROVE  PaymasterInv'
<1>1. tx = NoTx /\ sponsored = <<>> /\ UNCHANGED <<paymasterVars, tx, sponsored>>
  BY DEF PaymasterInv, Between
<1>2. now' \in Times /\ now <= now'
  BY ClockMoves DEF PaymasterInv, Between
<1>3. Books(policy, totalSpent, dailySpent, dailyReset, paid)'
  <2>1. Books(policy', totalSpent', dailySpent', dailyReset', paid')
    BY <1>1 DEF PaymasterInv, paymasterVars, counters
  <2> QED
    BY <1>2, <2>1, BooksLast DEF PaymasterInv
<1>4. (sponsored \in Seq(Range(sponsored)) /\ \A g \in Range(sponsored) : FrameOK(g))'
  BY <1>1 DEF Range
<1> QED
  BY <1>1, <1>2, <1>3, <1>4 DEF PaymasterInv, Owes, Txs, NoTx, paymasterVars

\* A transaction begins or ends, or nothing happens.
LEMMA IdleKeeps ==
  ASSUME PaymasterInv, BeginTransaction \/ EndTransaction \/ UNCHANGED allVars
  PROVE  PaymasterInv'
<1>1. UNCHANGED <<now, paymasterVars, sponsored>>
  BY DEF BeginTransaction, EndTransaction, allVars, vars
<1>2. tx' \in Txs \cup {NoTx} /\ (sponsored' # <<>> => tx' # NoTx)
  <2>1. CASE BeginTransaction
    <3>1. tx' \in Txs /\ sponsored = <<>>
      BY <2>1, PaymasterAssumption DEF BeginTransaction, Txs, PaymasterInv
    <3> QED
      BY <1>1, <3>1
  <2>2. CASE EndTransaction
    BY <2>2 DEF EndTransaction
  <2>3. CASE UNCHANGED allVars
    BY <2>3 DEF allVars, PaymasterInv
  <2> QED
    BY <2>1, <2>2, <2>3
<1>3. Books(policy, totalSpent, dailySpent, dailyReset, paid)'
  <2>1. Books(policy', totalSpent', dailySpent', dailyReset', paid')
    BY <1>1 DEF PaymasterInv, paymasterVars, counters
  <2>2. now \in Times /\ now' \in Times /\ now <= now'
    BY <1>1, TimesFinite DEF PaymasterInv
  <2> QED
    BY <2>1, <2>2, BooksLast
<1>4. (sponsored \in Seq(Range(sponsored)) /\ \A g \in Range(sponsored) : FrameOK(g))'
  BY <1>1, StackLasts DEF PaymasterInv
<1> QED
  BY <1>1, <1>2, <1>3, <1>4 DEF PaymasterInv, Owes, Txs, NoTx, paymasterVars

\* The invariant is inductive.
LEMMA PaymasterInvStep == PaymasterInv /\ [PaymasterNext]_allVars => PaymasterInv'
<1> SUFFICES ASSUME PaymasterInv, [PaymasterNext]_allVars PROVE PaymasterInv'
  OBVIOUS
<1>1. CASE Between
  BY <1>1, BetweenKeeps
<1>2. CASE BeginTransaction \/ EndTransaction \/ UNCHANGED allVars
  BY <1>2, IdleKeeps
<1>3. CASE SponsorCall
  BY <1>3, SponsorKeeps
<1>4. CASE RelayCall
  BY <1>4, BeginKeeps DEF RelayCall
<1>5. CASE \E op \in UserOps : NextUserOp(op)
  BY <1>5, NextKeeps
<1>6. CASE FinishSponsored
  BY <1>6, FinishKeeps
<1>7. CASE ThrowSponsored
  BY <1>7, ThrowKeeps
<1> QED
  BY <1>1, <1>2, <1>3, <1>4, <1>5, <1>6, <1>7 DEF PaymasterNext

\* The invariant above holds of the paymaster's specification.
THEOREM PaymasterSafety == PaymasterSpec => []PaymasterInv
BY PaymasterInvInit, PaymasterInvStep, PTL DEF PaymasterSpec

\* The contract holds exactly what it owes its sponsors, and no deposit is overdrawn, however
\* sponsored calls are nested, refused or thrown away.
THEOREM DepositsBacked == PaymasterSpec => []SponsorsBacked
<1>1. PaymasterInv => SponsorsBacked
  BY DEF PaymasterInv, Owes, SponsorsBacked
<1> QED
  BY <1>1, PaymasterSafety, PTL

\* A policy pays no more than its total budget, nothing after it has expired, and in no 24 hours
\* more than twice its daily budget.
THEOREM PoliciesKept == PaymasterSpec => []PolicyKeepsItsWord
<1>1. PaymasterInv => PolicyKeepsItsWord
  <2>1. ASSUME PaymasterInv, NEW s \in Parties, NEW c \in Scopes, policy[s][c] # NoPolicy
        PROVE  WordKept(policy[s][c], dailyReset[s][c], paid[s][c])
    BY <2>1 DEF PaymasterInv, Books, BookOK
  <2> QED
    BY <2>1 DEF PolicyKeepsItsWord, WordKept, PaidIn
<1> QED
  BY <1>1, PaymasterSafety, PTL
DepositCovered == \A s \in Parties : deposit[s] <= gas[ThisPaymaster]

\* A sponsor who withdraws is never refused for the contract's want of GAS: every deposit by itself
\* is covered.
THEOREM DepositsCovered == PaymasterSpec => []DepositCovered
<1>1. ASSUME PaymasterInv, NEW s \in Parties PROVE deposit[s] <= gas[ThisPaymaster]
  <2>1. DOMAIN deposit = Parties /\ IsFiniteSet(Parties) /\ \A u \in Parties : deposit[u] \in Nat
    BY <1>1, PaymasterAssumption DEF PaymasterInv, Owes
  <2>2. deposit[s] <= SumFunctionOnSet(deposit, Parties)
    BY <2>1, SumNat
  <2> QED
    BY <1>1, <2>1, <2>2 DEF PaymasterInv, Owes, SumFunction
<1>2. PaymasterInv => DepositCovered
  BY <1>1 DEF DepositCovered
<1> QED
  BY <1>2, PaymasterSafety, PTL
=============================================================================
