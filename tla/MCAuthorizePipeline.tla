------------------------ MODULE MCAuthorizePipeline ------------------------
(* Instances of AuthorizePipeline for TLC. *)
EXTENDS AuthorizePipeline, TLC

CONSTANTS r1, r2, r3, w1, alice, pay, read, decoy, x, y, k1, k2

Act(alias, arg) == [agent |-> alice, alias |-> alias, arg |-> arg]

OneWorker == [r \in Request |-> w1]

\* A payment, and the payment with another argument.
PayTwoWays == {Act(pay, x), Act(pay, y)}

\* A payment and a decoy.
PayAndDecoy == {Act(pay, x), Act(decoy, x)}

\* A risky action and a harmless one.
PayAndRead == {Act(pay, x), Act(read, x)}

SwapNames == Permutations(Request) \cup Permutations(Code) \cup Permutations({x, y})
SwapRequests == Permutations(Request)
=============================================================================
