------------------------------ MODULE PopReplay ------------------------------
(***************************************************************************)
(* Single use of a proof-of-possession: the freshness window and the       *)
(* replay record of auth/pop.py (verify_pop_proof, RedisReplayGuard).      *)
(*                                                                         *)
(* A verifier checks the window against its own clock, then records the    *)
(* proof's jti with SET NX EX.  The two are separate steps, the clocks of  *)
(* the workers differ, and the reply of the SET is acted on only within    *)
(* the request timeout of app/main.py.                                     *)
(***************************************************************************)
EXTENDS Integers

CONSTANTS
  Verifiers,   \* requests in flight
  Offset,      \* [Verifiers -> clock of its worker minus the true time]
  Earliest, Latest,  \* the offsets lie between these
  Proofs, Iat, \* proofs and the iat their makers gave them
  MaxAge,      \* POP_MAX_AGE_SECONDS
  Skew,        \* POP_CLOCK_SKEW_SECONDS
  Timeout,     \* request_timeout_s
  MaxNow       \* bound: the true time

\* The clocks differ by less than Skew leaves over the request timeout.
ASSUME PopAssumption ==
  /\ Earliest \in Int /\ Latest \in Int
  /\ Offset \in [Verifiers -> Earliest .. Latest]
  /\ Iat \in [Proofs -> Int]
  /\ MaxAge \in Nat /\ Skew \in Nat /\ Timeout \in Nat /\ MaxNow \in Nat
  /\ (Latest - Earliest) + Timeout < Skew

VARIABLES
  now,       \* the true time
  record,    \* mcpip:pop:jti:*: when the key expires, 0 when never set
  uses,      \* how often a proof was accepted (history)
  verifier

popVars == <<now, record, uses, verifier>>

Waiting == [pc |-> "waiting"]
Recording == [pc : {"record"}, proof : Proofs, checked : Int]

\* Every variable has its type: a key on record has an expiry.
PopTypeOK ==
  /\ now \in 0 .. MaxNow
  /\ record \in [Proofs -> Nat]
  /\ uses \in [Proofs -> Nat]
  /\ verifier \in [Verifiers -> Recording \cup {Waiting}]

PopInit ==
  /\ now = 0
  /\ record = [p \in Proofs |-> 0]
  /\ uses = [p \in Proofs |-> 0]
  /\ verifier = [v \in Verifiers |-> Waiting]

Clock(v) == now + Offset[v]

\* External: the JWT library refuses an iat in the future of the worker.
Mature(v, p) == Iat[p] <= Clock(v)

Fresh(v, p) ==
  /\ Mature(v, p)
  /\ Iat[p] <= Clock(v) + Skew
  /\ Iat[p] >= Clock(v) - MaxAge

CheckProof(v, p) ==
  /\ verifier[v] = Waiting /\ Fresh(v, p)
  /\ verifier' = [verifier EXCEPT ![v] = [pc |-> "record", proof |-> p, checked |-> now]]
  /\ UNCHANGED <<now, record, uses>>

Recorded(p) == now < record[p]

\* Mutant: the record lives for the age of a proof alone.
TtlOfAge == MaxAge

RecordTtl == MaxAge + Skew

\* SET NX EX: the first writer is accepted.
RecordProof(v) ==
  /\ verifier[v] # Waiting
  /\ LET p == verifier[v].proof IN
       IF Recorded(p) THEN UNCHANGED <<record, uses>>
       ELSE /\ record' = [record EXCEPT ![p] = now + RecordTtl]
            /\ uses' = [uses EXCEPT ![p] = @ + 1]
  /\ verifier' = [verifier EXCEPT ![v] = Waiting]
  /\ UNCHANGED now

\* A transport error refuses, whether or not the key was set; so does the
\* request timeout.
RecordFails(v) ==
  /\ verifier[v] # Waiting
  /\ LET p == verifier[v].proof IN
       \/ UNCHANGED record
       \/ ~Recorded(p) /\ record' = [record EXCEPT ![p] = now + RecordTtl]
  /\ verifier' = [verifier EXCEPT ![v] = Waiting]
  /\ UNCHANGED <<now, uses>>

\* A request is cancelled before it has taken longer than its timeout.
PopTick ==
  /\ now < MaxNow /\ now' = now + 1
  /\ \A v \in Verifiers : verifier[v] # Waiting => now' <= verifier[v].checked + Timeout
  /\ UNCHANGED <<record, uses, verifier>>

PopNext ==
  \/ \E v \in Verifiers :
       (\E p \in Proofs : CheckProof(v, p)) \/ RecordProof(v) \/ RecordFails(v)
  \/ PopTick

PopSpec == PopInit /\ [][PopNext]_popVars

---------------------------------------------------------------------------
(* Properties *)

\* Exactly once (step 6 of verify_pop_proof): a proof is accepted once at
\* most, by workers whose clocks differ and whose checks grow old before
\* their records are made.
SingleUse == \A p \in Proofs : uses[p] <= 1

\* "a proof can never fall out of the single-use record while still being
\* temporally acceptable" (interfaces.py, the TTL of the replay guard): an
\* accepted proof that some verifier would still find fresh is on record.
RecordOutlives ==
  \A p \in Proofs, v \in Verifiers : uses[p] > 0 /\ Fresh(v, p) => Recorded(p)
=============================================================================
