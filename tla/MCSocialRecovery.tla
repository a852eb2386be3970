--------------------------- MODULE MCSocialRecovery ---------------------------
(* Small instances of SocialRecovery for TLC. *)
EXTENDS SocialRecovery, TLC

CONSTANTS m1, m2, f1, f2

Choice(oracle, factors, threshold, timelock) ==
  [oracle |-> oracle, factors |-> factors, threshold |-> threshold, timelock |-> timelock]

\* Both of two factors, or one of them alone: after a longer timelock, and with another oracle.
MCChoices == {Choice(m1, {f1, f2}, 2, 1), Choice(m2, {f1}, 1, 2)}

\* Sound: the specification does not tell accounts apart, nor addresses, nor nullifiers.
MCSymmetry ==
  Permutations(Accounts) \cup Permutations(Owners) \cup Permutations(ActionNullifiers)
=============================================================================
