----------------------------- MODULE SealedLog -----------------------------
(***************************************************************************)
(* What the audit ledger promises, without Redis, locks or processes: a    *)
(* log of numbered events, and a list of epochs that seals it from the     *)
(* front.  Each epoch takes the next few unsealed events; what is sealed   *)
(* stays sealed as it is.                                                  *)
(***************************************************************************)
EXTENDS Integers, Sequences

CONSTANT MaxLeaves    \* the most events one epoch may seal

VARIABLES
  emitted,            \* events 1..emitted are in the log
  epochs              \* the epochs, each an interval of events

logVars == <<emitted, epochs>>

\* The last event sealed.
SealedTo == IF epochs = << >> THEN 0 ELSE epochs[Len(epochs)].end

Init == emitted = 0 /\ epochs = << >>

Emit == emitted' = emitted + 1 /\ UNCHANGED epochs

Seal ==
  /\ \E last \in SealedTo + 1 .. emitted :
       /\ last - SealedTo <= MaxLeaves
       /\ epochs' = Append(epochs, [start |-> SealedTo + 1, end |-> last])
  /\ UNCHANGED emitted

Next == Emit \/ Seal

Spec == Init /\ [][Next]_logVars
=============================================================================
