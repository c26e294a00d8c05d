---------------------- MODULE AuthorizePipelineProofs ----------------------
(***************************************************************************)
(* Theorems about AuthorizePipeline, for every value of its constants.     *)
(***************************************************************************)
EXTENDS AuthorizePipeline, FiniteSetTheorems, TLAPS

---------------------------------------------------------------------------
(* Type correctness.  A tripped canary freezes the agent of the request,   *)
(* so the types need a request past its arrival to have asked something.   *)

CalledInv == \A r \in Request : pc[r] \notin {"new", "shed"} => call[r] # None

TypeInv == TypeOK /\ CalledInv

\* The steps a request may go to are values of pc.
LEMMA GotoType ==
  ASSUME TypeOK, NEW r \in Request, NEW p \in Working \cup Ended, Goto(r, p)
  PROVE  pc' \in [Request -> {"new"} \cup Working \cup Ended]
BY DEF TypeOK, Goto

\* An answer is a step, and leaves an integer in the counter.
LEMMA AnswerType ==
  ASSUME TypeOK, NEW r \in Request, NEW p \in Ended, Answer(r, p)
  PROVE  /\ pc' \in [Request -> {"new"} \cup Working \cup Ended]
         /\ inFlight' \in [Worker -> Int]
<1>1. WorkerOf[r] \in Worker
  BY RequestAssumption
<1>2. inFlight' \in [Worker -> Int]
  BY <1>1 DEF TypeOK, Answer
<1>3. QED
  BY <1>2, GotoType DEF Answer

\* A record only gains decisions.
LEMMA RecordType ==
  ASSUME TypeOK, NEW r \in Request, NEW d \in Decision, MayRecord(r, d) \/ Records(r, d)
  PROVE  record' \in [Request -> SUBSET Decision]
BY DEF TypeOK, MayRecord, Records

\* The action of a request that has come.
LEMMA WhatType ==
  ASSUME TypeOK, NEW r \in Request, call[r] # None
  PROVE  call[r] \in Call /\ What(r) \in Action /\ What(r).agent \in Agent
BY ActionAssumption DEF TypeOK, What, Call

\* Init establishes the types.
LEMMA InitType == Init => TypeInv
BY DEF Init, TypeInv, CalledInv, TypeOK, Ended, Working, Switch, Decision

\* The steps of one request preserve the types.
LEMMA StepType ==
  ASSUME TypeOK, CalledInv, NEW r \in Request, Step(r)
  PROVE  TypeOK'
<1> USE DEF logVars, lockVars, policyVars, switchVars
<1>0. {"quarantine", "revocation", "canary", "skill", "policy", "register",
       "deliver", "stage", "consume", "allow", "dispatch", "reply", "receipt",
       "refuse"} = Working
      /\ {"staged", "committed", "denied", "shed", "cut"} = Ended
  BY DEF Working, Ended
<1>1. CASE Arrive(r)
  <2>1. WorkerOf[r] \in Worker
    BY RequestAssumption
  <2>2. PICK c \in Call : /\ call' = [call EXCEPT ![r] = c]
                          /\ barred' = [barred EXCEPT ![r] = BarsOn(c.what)]
    BY <1>1 DEF Arrive
  <2>3. BarsOn(c.what) \in SUBSET Switch
    BY DEF BarsOn
  <2>4. pc' \in [Request -> {"new"} \cup Working \cup Ended]
    BY <1>0, <1>1, GotoType DEF Arrive
  <2>5. inFlight' \in [Worker -> Int]
    BY <1>1, <2>1 DEF Arrive, TypeOK
  <2>6. QED
    BY <1>1, <2>2, <2>3, <2>4, <2>5 DEF Arrive, TypeOK
<1>2. CASE Shed(r)
  BY <1>0, <1>2, GotoType DEF Shed, TypeOK
<1>3. CASE \/ CheckQuarantine(r) \/ CheckRevocation(r) \/ CheckSkill(r)
           \/ Refuse(r) \/ Reply(r)
  <2>1. pc' \in [Request -> {"new"} \cup Working \cup Ended]
    BY <1>0, <1>3, GotoType
       DEF CheckQuarantine, CheckRevocation, CheckSkill, Gate, AfterGates,
           Refuse, Reply
  <2>2. UNCHANGED <<call, logVars, lockVars, policyVars, switchVars, inFlight>>
    BY <1>3 DEF CheckQuarantine, CheckRevocation, CheckSkill, Gate, Refuse, Reply
  <2>3. QED
    BY <2>1, <2>2 DEF TypeOK
<1>4. CASE TripCanary(r)
  <2>1. What(r).agent \in Agent
    BY <1>4, WhatType DEF TripCanary, CalledInv
  <2>2. QED
    BY <1>0, <1>4, <2>1, GotoType DEF TripCanary, TypeOK
<1>5. CASE EvaluatePolicy(r)
  <2>1. pc' \in [Request -> {"new"} \cup Working \cup Ended]
    BY <1>0, <1>5, GotoType DEF EvaluatePolicy, Count, PassUncounted, AfterPolicy
  <2>2. /\ velocity' \in Nat
        /\ window' \in SUBSET Request /\ passed' \in SUBSET Request
    BY <1>5 DEF EvaluatePolicy, Count, PassUncounted, TypeOK
  <2>3. QED
    BY <1>5, <2>1, <2>2 DEF EvaluatePolicy, TypeOK
<1>6. CASE Register(r)
  <2>1. pc' \in [Request -> {"new"} \cup Working \cup Ended]
    BY <1>0, <1>6, GotoType DEF Register
  <2>2. QED
    BY <1>6, <2>1 DEF Register, TypeOK
<1>7. CASE Deliver(r)
  <2>1. pc' \in [Request -> {"new"} \cup Working \cup Ended]
    BY <1>0, <1>7, GotoType DEF Deliver
  <2>2. QED
    BY <1>7, <2>1 DEF Deliver, TypeOK
<1>8. CASE RecordStaged(r)
  <2>1. /\ pc' \in [Request -> {"new"} \cup Working \cup Ended]
        /\ inFlight' \in [Worker -> Int]
    BY <1>0, <1>8, GotoType, AnswerType DEF RecordStaged, TypeOK
  <2>2. record' \in [Request -> SUBSET Decision]
    BY <1>8, RecordType DEF RecordStaged, Decision
  <2>3. QED
    BY <1>8, <2>1, <2>2 DEF RecordStaged, TypeOK
<1>9. CASE Consume(r)
  <2>1. pc' \in [Request -> {"new"} \cup Working \cup Ended]
    BY <1>0, <1>9, GotoType DEF Consume
  <2>2. /\ life' \in [Request -> {"none", "live", "last", "forever"}]
        /\ tries' \in [Request -> Nat]
        /\ claim' \in [Request -> Request \cup {None}]
    BY <1>9 DEF Consume, CountWrong, Spend, TypeOK
  <2>3. QED
    BY <1>9, <2>1, <2>2 DEF Consume, TypeOK
<1>10. CASE RecordAllow(r)
  <2>1. pc' \in [Request -> {"new"} \cup Working \cup Ended]
    BY <1>0, <1>10, GotoType DEF RecordAllow
  <2>2. record' \in [Request -> SUBSET Decision]
    BY <1>10, RecordType DEF RecordAllow, Decision
  <2>3. QED
    BY <1>10, <2>1, <2>2 DEF RecordAllow, TypeOK
<1>11. CASE Dispatch(r)
  BY <1>0, <1>11, GotoType DEF Dispatch, TypeOK
<1>12. CASE ReadBack(r) \/ Timeout(r)
  <2>1. /\ pc' \in [Request -> {"new"} \cup Working \cup Ended]
        /\ inFlight' \in [Worker -> Int]
    BY <1>0, <1>12, GotoType, AnswerType DEF ReadBack, Timeout, TypeOK
  <2>2. QED
    BY <1>12, <2>1 DEF ReadBack, Timeout, TypeOK
<1>13. CASE RecordDeny(r)
  <2>1. /\ pc' \in [Request -> {"new"} \cup Working \cup Ended]
        /\ inFlight' \in [Worker -> Int]
    BY <1>0, <1>13, AnswerType DEF RecordDeny
  <2>2. record' \in [Request -> SUBSET Decision]
    BY <1>13, RecordType DEF RecordDeny, Decision
  <2>3. QED
    BY <1>13, <2>1, <2>2 DEF RecordDeny, TypeOK
<1>14. QED
  BY <1>1, <1>2, <1>3, <1>4, <1>5, <1>6, <1>7, <1>8, <1>9, <1>10, <1>11,
     <1>12, <1>13 DEF Step

\* What happens to locks, workers and switches preserves the types.
LEMMA WorldType ==
  ASSUME TypeOK, Next, \A r \in Request : ~Step(r)
  PROVE  TypeOK'
<1> USE DEF logVars, lockVars, policyVars, switchVars, environment
<1>1. ASSUME NEW r \in Request, LastInstant(r) \/ LockExpires(r)
      PROVE  TypeOK'
  BY <1>1 DEF LastInstant, LockExpires, TypeOK
<1>2. ASSUME NEW w \in Worker, Crash(w) PROVE TypeOK'
  <2>1. pc' \in [Request -> {"new"} \cup Working \cup Ended]
    BY <1>2 DEF Crash, TypeOK, Ended
  <2>2. QED
    BY <1>2, <2>1 DEF Crash, TypeOK
<1>3. ASSUME NEW a \in Agent,
             Revoke(a) \/ Reactivate(a) \/ Freeze(a) \/ QuarantineLapses(a)
      PROVE  TypeOK'
  BY <1>3 DEF Revoke, Reactivate, Freeze, QuarantineLapses, Unbar, TypeOK
<1>4. ASSUME NEW s \in Alias, Disable(s) \/ Enable(s) PROVE TypeOK'
  BY <1>4 DEF Disable, Enable, Unbar, TypeOK
<1>5. CASE WindowEnds
  BY <1>5 DEF WindowEnds, TypeOK
<1>6. QED
  BY <1>1, <1>2, <1>3, <1>4, <1>5 DEF Next

\* A request that has come keeps its call, and leaves "new" only by coming.
LEMMA NextCalled ==
  ASSUME TypeOK, CalledInv, Next
  PROVE  CalledInv'
<1> USE DEF CalledInv, TypeOK
<1>1. ASSUME NEW r \in Request, Arrive(r) PROVE CalledInv'
  <2>1. PICK c \in Call : call' = [call EXCEPT ![r] = c]
    BY <1>1 DEF Arrive
  <2>2. c # None
    BY ActionAssumption
  <2>3. pc' = [pc EXCEPT ![r] = "quarantine"]
    BY <1>1 DEF Arrive, Goto
  <2>4. QED
    BY <2>1, <2>2, <2>3
<1>2. ASSUME NEW r \in Request, Shed(r) PROVE CalledInv'
  BY <1>2 DEF Shed, Goto
<1>3. ASSUME NEW r \in Request, pc[r] \in Working, NEW p, Goto(r, p), call' = call
      PROVE  CalledInv'
  <2>1. call[r] # None
    BY <1>3 DEF Working
  <2>2. QED
    BY <1>3, <2>1 DEF Goto
<1>4. ASSUME NEW r \in Request, Step(r), ~Arrive(r), ~Shed(r) PROVE CalledInv'
  <2>1. pc[r] \in Working /\ call' = call
    BY <1>4 DEF Step, CheckQuarantine, CheckRevocation, CheckSkill, Gate,
         TripCanary, Refuse, EvaluatePolicy, Register, Deliver, RecordStaged,
         Consume, RecordAllow, Dispatch, Reply, ReadBack, RecordDeny, Timeout,
         Working
  <2>2. \E p \in Working \cup Ended : Goto(r, p)
    BY <1>4 DEF Step, CheckQuarantine, CheckRevocation, CheckSkill, Gate,
         TripCanary, Refuse, EvaluatePolicy, Count, PassUncounted, Register,
         Deliver, RecordStaged, Consume, RecordAllow, Dispatch, Reply,
         ReadBack, RecordDeny, Timeout, Answer, AfterGates, AfterPolicy,
         Working, Ended
  <2>3. QED
    BY <1>3, <2>1, <2>2
<1>5. ASSUME NEW w \in Worker, Crash(w) PROVE CalledInv'
  BY <1>5 DEF Crash, AdmittedAt, Working
<1>6. CASE UNCHANGED <<pc, call>>
  BY <1>6
<1>7. QED
  BY <1>1, <1>2, <1>4, <1>5, <1>6
     DEF Next, LastInstant, LockExpires, Revoke, Reactivate, Freeze,
         QuarantineLapses, Disable, Enable, WindowEnds, environment

\* Every step preserves the types.
LEMMA NextType == TypeInv /\ [Next]_vars => TypeInv'
<1> SUFFICES ASSUME TypeInv, [Next]_vars PROVE TypeInv'
  OBVIOUS
<1> USE DEF TypeInv
<1>1. CASE Next
  <2>1. TypeOK'
    BY <1>1, StepType, WorldType
  <2>2. QED
    BY <1>1, <2>1, NextCalled
<1>2. CASE UNCHANGED vars
  BY <1>2 DEF vars, logVars, lockVars, policyVars, switchVars, TypeOK, CalledInv
<1>3. QED
  BY <1>1, <1>2

\* The pipeline keeps its variables well typed: what app/main.py carries from
\* gate to gate, and what it leaves in Redis.
THEOREM TypeCorrect == Spec => []TypeOK
<1>1. Spec => []TypeInv
  BY InitType, NextType, PTL DEF Spec
<1>2. QED
  BY <1>1, PTL DEF TypeInv

---------------------------------------------------------------------------
(* The invariant.  It says, for one request, what its step implies about   *)
(* the locks, the records and the histories; the properties follow.        *)

Fresh   == {"new", "shed"}
Gates   == {"quarantine", "revocation", "canary", "skill"}
Decided == {"allow", "dispatch", "reply", "receipt"}
Over    == {"refuse", "denied", "cut"}

\* Nothing a request did can be seen anywhere.
NoEffect(r) ==
  /\ claim[r] = None /\ code[r] = None /\ r \notin passed
  /\ r \notin ran /\ record[r] = {}

\* What the code requires before the ALLOW record.
Approved(r) == IF IsPin(r) THEN claim[r] # None ELSE r \in passed

\* Where a request is, and what it has done.
StepInv(r) ==
  /\ pc[r] \in Fresh <=> call[r] = None
  /\ pc[r] \in Fresh \cup Gates \cup {"policy", "consume"} => NoEffect(r)
  /\ pc[r] = "policy" => ~(IsPin(r) /\ call[r].pin # None)
  /\ pc[r] = "consume" => IsPin(r)
  /\ pc[r] = "register" =>
       IsPin(r) /\ r \in passed /\ claim[r] = None /\ code[r] = None
  /\ pc[r] \in {"register", "deliver", "stage"} => record[r] = {} /\ r \notin ran
  /\ pc[r] \in {"deliver", "stage"} => code[r] # None
  /\ pc[r] = "stage" => r \in noticed
  /\ pc[r] \in Decided => Approved(r) /\ code[r] = None
  /\ pc[r] = "allow" => record[r] = {}
  /\ pc[r] \in {"dispatch", "reply", "receipt"} => record[r] = {"allow"}
  /\ pc[r] \in {"allow", "dispatch"} => r \notin ran
  /\ pc[r] \in {"reply", "receipt"} => r \in ran
  /\ call[r] # None => (call[r].lock # None => call[r].lock \in noticed)

\* The lock a request registered.
LockInv(r) ==
  /\ Held(r) => code[r] # None
  /\ r \in noticed => code[r] # None
  /\ code[r] # None =>
       /\ call[r] # None /\ IsPin(r) /\ r \in passed /\ claim[r] = None
       /\ pc[r] \in {"deliver", "stage", "staged"} \cup Over

\* The lock a request's code spent.
ClaimInv(r) ==
  claim[r] # None =>
    /\ call[r] # None /\ IsPin(r) /\ r \notin passed
    /\ claim[r] \in noticed /\ What(claim[r]) = What(r) /\ ~Held(claim[r])

\* An executed request.
RanInv(r) == r \in ran => call[r] # None /\ Approved(r) /\ "allow" \in record[r]

\* Two requests never spent the same lock.
SpentOnce(r) == \A s \in Request : claim[r] # None /\ claim[r] = claim[s] => r = s

\* An answered request.
AnswerInv(r) ==
  /\ pc[r] = "committed" => r \in ran /\ record[r] = {"allow"} /\ code[r] = None
  /\ pc[r] = "staged" => r \in noticed \ ran /\ record[r] = {"staged"}

RequestInv(r) ==
  /\ StepInv(r) /\ LockInv(r) /\ ClaimInv(r) /\ RanInv(r)
  /\ SpentOnce(r) /\ AnswerInv(r)

PipelineInv == TypeOK /\ \A r \in Request : RequestInv(r)

\* Init establishes the invariant.
LEMMA InitPipeline == Init => PipelineInv
BY InitType
   DEF Init, TypeInv, PipelineInv, RequestInv, StepInv, LockInv, ClaimInv,
       RanInv, SpentOnce, AnswerInv, NoEffect, Held, Fresh, Gates, Decided, Over

\* The steps of one request preserve the invariant of every request.
LEMMA StepPipeline ==
  ASSUME PipelineInv, TypeOK', NEW r \in Request, Step(r), NEW q \in Request
  PROVE  RequestInv(q)'
<1> USE DEF logVars, lockVars, policyVars, switchVars, PipelineInv, TypeOK,
            RequestInv, StepInv, LockInv, ClaimInv, RanInv, SpentOnce,
            AnswerInv, NoEffect, Approved, Held, IsPin, What, Goto, Answer,
            Fresh, Gates, Decided, Over, Working
<1>1. CASE Arrive(r)
  <2>1. PICK c \in Call : MakesSense(c) /\ call' = [call EXCEPT ![r] = c]
    BY <1>1 DEF Arrive
  <2>2. c # None /\ (c.lock # None => c.lock \in noticed)
    BY <2>1, ActionAssumption DEF MakesSense
  <2>3. NoEffect(r) /\ ~Held(r) /\ r \notin noticed
    BY <1>1 DEF Arrive
  <2>4. pc' = [pc EXCEPT ![r] = "quarantine"] /\ UNCHANGED <<logVars, lockVars, policyVars>>
    BY <1>1 DEF Arrive
  <2>5. CASE q = r
    BY <2>1, <2>2, <2>3, <2>4, <2>5
  <2>6. CASE q # r
    BY <2>1, <2>2, <2>3, <2>4, <2>6
  <2>7. QED
    BY <2>5, <2>6
<1>2. CASE Shed(r)
  BY <1>2 DEF Shed
<1>3. CASE CheckQuarantine(r)
  BY <1>3 DEF CheckQuarantine, Gate
<1>4. CASE CheckRevocation(r)
  BY <1>4 DEF CheckRevocation, Gate
<1>5. CASE TripCanary(r)
  BY <1>5 DEF TripCanary
<1>6. CASE CheckSkill(r)
  BY <1>6 DEF CheckSkill, Gate, AfterGates
<1>7. CASE Refuse(r)
  BY <1>7 DEF Refuse
<1>8. CASE EvaluatePolicy(r)
  BY <1>8 DEF EvaluatePolicy, Count, PassUncounted, AfterPolicy
<1>9. CASE Register(r)
  <2>1. PICK k \in Code : code' = [code EXCEPT ![r] = k]
    BY <1>9 DEF Register
  <2>2. k # None
    BY ActionAssumption
  <2>3. QED
    BY <1>9, <2>1, <2>2 DEF Register
<1>10. CASE Deliver(r)
  BY <1>10 DEF Deliver
<1>11. CASE RecordStaged(r)
  BY <1>11 DEF RecordStaged, Records, MayRecord
<1>12. CASE Consume(r)
  <2>1. CASE (\A c \in Request : ~Matches(r, c)) /\ Goto(r, "refuse") /\ UNCHANGED lockVars
    BY <1>12, <2>1 DEF Consume
  <2>2. CASE \E c \in Request :
               /\ Matches(r, c)
               /\ \/ CountWrong(c) /\ UNCHANGED claim /\ Goto(r, "refuse")
                  \/ Spend(r, c) /\ UNCHANGED tries
               /\ UNCHANGED <<code, noticed, lapsed>>
    <3>1. PICK c \in Request :
            /\ Matches(r, c)
            /\ \/ CountWrong(c) /\ UNCHANGED claim /\ Goto(r, "refuse")
               \/ Spend(r, c) /\ UNCHANGED tries
            /\ UNCHANGED <<code, noticed, lapsed>>
      BY <2>2
    <3>2. c \in noticed /\ c # None /\ What(c) = What(r) /\ Held(c) /\ call[r] # None
      BY <1>12, <3>1, RequestAssumption DEF Consume, Matches, Payload
    <3>3. /\ UNCHANGED <<call, logVars, policyVars>>
          /\ pc[r] = "consume"
          /\ \E p \in {"allow", "refuse"} : pc' = [pc EXCEPT ![r] = p]
      BY <1>12, <2>2 DEF Consume
    <3>4. CASE CountWrong(c) /\ UNCHANGED claim /\ Goto(r, "refuse")
      BY <3>1, <3>2, <3>3, <3>4 DEF CountWrong
    <3>5. CASE Spend(r, c) /\ UNCHANGED tries
      <4>1. /\ \A s \in Request : claim[s] # c
            /\ claim' = [claim EXCEPT ![r] = c]
            /\ life' = [life EXCEPT ![c] = "none"]
        BY <3>2, <3>5 DEF Spend
      <4>2. NoEffect(r) /\ IsPin(r)
        BY <3>3
      <4>3. CASE q = r
        BY <3>1, <3>2, <3>3, <4>1, <4>2, <4>3
      <4>4. CASE q # r
        BY <3>1, <3>2, <3>3, <4>1, <4>2, <4>4
      <4>5. QED
        BY <4>3, <4>4
    <3>6. QED
      BY <3>1, <3>4, <3>5
  <2>3. QED
    BY <1>12, <2>1, <2>2 DEF Consume
<1>13. CASE RecordAllow(r)
  BY <1>13 DEF RecordAllow, Records, MayRecord
<1>14. CASE Dispatch(r)
  BY <1>14 DEF Dispatch
<1>15. CASE Reply(r)
  BY <1>15 DEF Reply
<1>16. CASE ReadBack(r)
  BY <1>16 DEF ReadBack
<1>17. CASE RecordDeny(r)
  BY <1>17 DEF RecordDeny, MayRecord
<1>18. CASE Timeout(r)
  BY <1>18 DEF Timeout
<1>19. QED
  BY <1>1, <1>2, <1>3, <1>4, <1>5, <1>6, <1>7, <1>8, <1>9, <1>10, <1>11, <1>12, <1>13, <1>14, <1>15, <1>16, <1>17, <1>18 DEF Step

\* What happens to locks, workers and switches preserves the invariant.
LEMMA WorldPipeline ==
  ASSUME PipelineInv, TypeOK', Next, \A r \in Request : ~Step(r),
         NEW q \in Request
  PROVE  RequestInv(q)'
<1> USE DEF logVars, lockVars, policyVars, switchVars, environment,
            PipelineInv, TypeOK, RequestInv, StepInv, LockInv, ClaimInv,
            RanInv, SpentOnce, AnswerInv, NoEffect, Approved, Held, IsPin,
            What, Fresh, Gates, Decided, Over, Working
<1>1. ASSUME NEW r \in Request, LastInstant(r) \/ LockExpires(r)
      PROVE  RequestInv(q)'
  BY <1>1 DEF LastInstant, LockExpires
<1>2. ASSUME NEW w \in Worker, Crash(w) PROVE RequestInv(q)'
  BY <1>2 DEF Crash, AdmittedAt
<1>3. CASE UNCHANGED <<environment, passed>>
  BY <1>3
<1>4. QED
  BY <1>1, <1>2, <1>3
     DEF Next, Revoke, Reactivate, Freeze, QuarantineLapses, Disable, Enable,
         WindowEnds

\* Every step preserves the invariant.
LEMMA NextPipeline == PipelineInv /\ [Next]_vars => PipelineInv'
<1> SUFFICES ASSUME PipelineInv, [Next]_vars PROVE PipelineInv'
  OBVIOUS
<1>1. TypeInv
  BY DEF PipelineInv, TypeInv, CalledInv, RequestInv, StepInv, Fresh
<1>2. TypeOK'
  BY <1>1, NextType DEF TypeInv
<1>3. ASSUME NEW q \in Request PROVE RequestInv(q)'
  <2>1. CASE Next
    BY <1>2, <2>1, StepPipeline, WorldPipeline
  <2>2. CASE UNCHANGED vars
    BY <2>2 DEF vars, logVars, lockVars, policyVars, PipelineInv, RequestInv,
       StepInv, LockInv, ClaimInv, RanInv, SpentOnce, AnswerInv, NoEffect,
       Approved, Held, IsPin, What
  <2>3. QED
    BY <2>1, <2>2
<1>4. QED
  BY <1>2, <1>3 DEF PipelineInv

\* The invariant holds of every reachable state.
THEOREM PipelineInvariant == Spec => []PipelineInv
<1>1. QED
  BY InitPipeline, NextPipeline, PTL DEF Spec

---------------------------------------------------------------------------
(* The properties. *)

\* Step 7 before step 8: what was executed is on record as allowed.
THEOREM RecordBeforeExecuteCorrect == Spec => []RecordBeforeExecute
<1>1. PipelineInv => RecordBeforeExecute
  BY DEF PipelineInv, TypeOK, RequestInv, RanInv, RecordBeforeExecute
<1>2. QED
  BY <1>1, PipelineInvariant, PTL

\* A lock is spent by at most one request: the consume script deletes it.
THEOREM OneActionPerCodeCorrect == Spec => []OneActionPerCode
<1>1. PipelineInv => OneActionPerCode
  BY DEF PipelineInv, RequestInv, SpentOnce, OneActionPerCode
<1>2. QED
  BY <1>1, PipelineInvariant, PTL

\* What was executed is what was staged, counted by the policy once and, when
\* risky, released by its own code.
THEOREM ExecutedAsApprovedCorrect == Spec => []ExecutedAsApproved
<1>1. ASSUME PipelineInv, NEW r \in ran
      PROVE  IF IsPin(r)
             THEN /\ claim[r] \in passed \cap noticed
                  /\ What(claim[r]) = What(r)
                  /\ r \notin passed
             ELSE claim[r] = None /\ r \in passed
  <2>1. r \in Request /\ RequestInv(r) /\ claim[r] \in Request \cup {None}
    BY <1>1 DEF PipelineInv, TypeOK
  <2>2. claim[r] # None => RequestInv(claim[r])
    BY <1>1, <2>1 DEF PipelineInv
  <2>3. QED
    BY <1>1, <2>1, <2>2 DEF RequestInv, RanInv, Approved, ClaimInv, LockInv
<1>2. PipelineInv => ExecutedAsApproved
  BY <1>1 DEF ExecutedAsApproved
<1>3. QED
  BY <1>2, PipelineInvariant, PTL

\* The answers 200, 202 and 503 at admission say what happened.
THEOREM AnswersAreTrueCorrect == Spec => []AnswersAreTrue
<1>1. PipelineInv => AnswersAreTrue
  BY DEF PipelineInv, RequestInv, AnswerInv, StepInv, NoEffect, Fresh,
     AnswersAreTrue
<1>2. QED
  BY <1>1, PipelineInvariant, PTL

---------------------------------------------------------------------------
(* The budget of a lock, and the reason it is gone. *)

LockBudget(c) ==
  /\ code[c] = None => tries[c] = 0
  /\ tries[c] <= MaxAttempts
  /\ Held(c) => tries[c] < MaxAttempts
  /\ code[c] # None /\ ~Held(c) =>
       \/ c \in lapsed
       \/ tries[c] >= MaxAttempts
       \/ \E r \in Request : claim[r] = c

BudgetInv == \A c \in Request : LockBudget(c)

\* A wrong code costs the lock one attempt, and the lock with the last one.
LEMMA WrongBudget ==
  ASSUME PipelineInv, BudgetInv, NEW d \in Request, Held(d), CountWrong(d),
         UNCHANGED <<code, claim, lapsed>>, NEW c \in Request
  PROVE  LockBudget(c)'
<1> USE DEF PipelineInv, TypeOK, BudgetInv, LockBudget, Held
<1>1. CASE c = d
  <2>1. tries'[c] = tries[c] + 1 /\ tries[c] \in Nat /\ tries[c] < MaxAttempts
    BY <1>1 DEF CountWrong
  <2>2. IF tries'[c] >= MaxAttempts THEN life'[c] = "none"
                                    ELSE life'[c] # "none"
    BY <1>1, <2>1, LimitAssumption DEF CountWrong
  <2>3. code[c] # None
    BY <1>1 DEF RequestInv, LockInv
  <2>4. QED
    BY <2>1, <2>2, <2>3, LimitAssumption
<1>2. CASE c # d
  <2>1. tries'[c] = tries[c] /\ life'[c] = life[c]
    BY <1>2 DEF CountWrong
  <2>2. QED
    BY <2>1
<1>3. QED
  BY <1>1, <1>2

\* A right code leaves the lock gone and claimed.
LEMMA SpendBudget ==
  ASSUME PipelineInv, BudgetInv, NEW d \in Request, Held(d),
         NEW r \in Request, claim[r] = None, Spend(r, d),
         UNCHANGED <<code, tries, lapsed>>, NEW c \in Request
  PROVE  LockBudget(c)'
<1> USE DEF PipelineInv, TypeOK, BudgetInv, LockBudget, Held
<1>1. /\ life' = [life EXCEPT ![d] = "none"]
      /\ claim' = [claim EXCEPT ![r] = d]
  BY DEF Spend
<1>2. CASE c = d
  <2>1. claim'[r] = c
    BY <1>1, <1>2
  <2>2. QED
    BY <1>1, <1>2, <2>1
<1>3. CASE c # d
  <2>1. ASSUME NEW s \in Request, claim[s] = c
        PROVE  claim'[s] = c
    <3>1. s # r
      BY <2>1, RequestAssumption
    <3>2. QED
      BY <1>1, <2>1, <3>1
  <2>2. QED
    BY <1>1, <1>3, <2>1
<1>4. QED
  BY <1>2, <1>3

\* Every step keeps the budget.
LEMMA NextBudget == PipelineInv /\ BudgetInv /\ [Next]_vars => BudgetInv'
<1> SUFFICES ASSUME PipelineInv, BudgetInv, [Next]_vars, NEW c \in Request
             PROVE  LockBudget(c)'
  BY DEF BudgetInv
<1> USE DEF lockVars
<1>1. CASE UNCHANGED <<life, code, tries, claim, lapsed>>
  BY <1>1 DEF BudgetInv, LockBudget, Held
<1>2. ASSUME NEW r \in Request, Register(r) PROVE LockBudget(c)'
  <2>1. code[r] = None
    BY <1>2 DEF Register, PipelineInv, RequestInv, StepInv
  <2>2. PICK k \in Code : code' = [code EXCEPT ![r] = k]
    BY <1>2 DEF Register
  <2>3. QED
    BY <1>2, <2>1, <2>2, LimitAssumption
       DEF Register, PipelineInv, TypeOK, BudgetInv, LockBudget, Held
<1>3. ASSUME NEW r \in Request, Consume(r) PROVE LockBudget(c)'
  <2>1. claim[r] = None
    BY <1>3 DEF Consume, PipelineInv, RequestInv, StepInv, NoEffect
  <2>2. CASE UNCHANGED <<life, code, tries, claim, lapsed>>
    BY <1>1, <2>2
  <2>3. CASE \E d \in Request :
               /\ Held(d) /\ UNCHANGED <<code, lapsed>>
               /\ \/ CountWrong(d) /\ UNCHANGED claim
                  \/ Spend(r, d) /\ UNCHANGED tries
    BY <2>1, <2>3, WrongBudget, SpendBudget
  <2>4. QED
    BY <1>3, <2>2, <2>3 DEF Consume, Matches
<1>4. ASSUME NEW d \in Request, LastInstant(d) \/ LockExpires(d)
      PROVE  LockBudget(c)'
  BY <1>4 DEF LastInstant, LockExpires, PipelineInv, TypeOK, BudgetInv,
     LockBudget, Held
<1>5. ASSUME NEW r \in Request, Step(r), ~Register(r), ~Consume(r)
      PROVE  UNCHANGED <<life, code, tries, claim, lapsed>>
  BY <1>5 DEF Step, Arrive, Shed, CheckQuarantine, CheckRevocation,
     TripCanary, CheckSkill, Gate, Refuse, EvaluatePolicy, Deliver,
     RecordStaged, RecordAllow, Dispatch, Reply, ReadBack, RecordDeny, Timeout
<1>6. QED
  BY <1>1, <1>2, <1>3, <1>4, <1>5
     DEF Next, Crash, Revoke, Reactivate, Freeze, QuarantineLapses, Disable,
         Enable, WindowEnds, environment, vars

\* The two invariants hold together.
LEMMA BudgetInvariant == Spec => [](PipelineInv /\ BudgetInv)
<1>1. Init => BudgetInv
  BY LimitAssumption DEF Init, BudgetInv, LockBudget, Held
<1>2. QED
  BY <1>1, InitPipeline, NextPipeline, NextBudget, PTL DEF Spec

\* At most MaxAttempts wrong codes are compared with a lock, whoever sends them.
THEOREM AttemptsBoundedCorrect == Spec => []AttemptsBounded
<1>1. BudgetInv => AttemptsBounded
  BY DEF BudgetInv, LockBudget, AttemptsBounded
<1>2. QED
  BY <1>1, BudgetInvariant, PTL

\* A lock disappears by its TTL, its budget or its own code, never otherwise.
THEOREM LockGoneForCauseCorrect == Spec => []LockGoneForCause
<1>1. BudgetInv => LockGoneForCause
  BY DEF BudgetInv, LockBudget, LockGoneForCause
<1>2. QED
  BY <1>1, BudgetInvariant, PTL

\* The attempts on a lock are accounted for: both facts together.
THEOREM AttemptsAccountedCorrect == Spec => []AttemptsAccounted
BY AttemptsBoundedCorrect, LockGoneForCauseCorrect, PTL DEF AttemptsAccounted

---------------------------------------------------------------------------
(* The kill switches. *)

\* Where a request can be that has not passed the check of a switch.
Before(switch) ==
  Over \cup CASE switch = "quarantined" -> {"quarantine"}
              [] switch = "revoked"     -> {"quarantine", "revocation"}
              [] OTHER                  -> Gates

Untouched(r) == r \notin ran /\ claim[r] = None /\ code[r] = None

\* A switch that has been on since a request arrived stops it at its check.
SwitchInv ==
  \A r \in Request : \A switch \in barred[r] :
    /\ call[r] # None /\ switch \in BarsOn(What(r))
    /\ pc[r] \in Before(switch) /\ Untouched(r)

\* A step of a request takes no other request past a check, and itself past
\* one only when the switch is off.
LEMMA StepSwitch ==
  ASSUME PipelineInv, SwitchInv, NEW r \in Request, Step(r)
  PROVE  SwitchInv'
<1> SUFFICES ASSUME NEW q \in Request, NEW switch \in barred'[q]
             PROVE  /\ call'[q] # None /\ switch \in BarsOn(What(q))'
                    /\ pc'[q] \in Before(switch) /\ Untouched(q)'
  BY DEF SwitchInv, Before
<1> USE DEF logVars, lockVars, policyVars, switchVars, PipelineInv, TypeOK
<1>1. CASE Arrive(r)
  <2>1. PICK c \in Call : /\ call' = [call EXCEPT ![r] = c]
                          /\ barred' = [barred EXCEPT ![r] = BarsOn(c.what)]
    BY <1>1 DEF Arrive
  <2>2. c # None /\ UNCHANGED <<revoked, quarantined, disabled, logVars, lockVars>>
        /\ pc' = [pc EXCEPT ![r] = "quarantine"]
    BY <1>1, ActionAssumption DEF Arrive, Goto
  <2>3. CASE q = r
    <3>1. Untouched(r)
      BY <1>1 DEF Arrive, RequestInv, StepInv, NoEffect, Fresh, Untouched
    <3>2. pc'[q] \in Before(switch)
      BY <2>2, <2>3 DEF Before, Gates
    <3>3. QED
      BY <2>1, <2>2, <2>3, <3>1, <3>2 DEF BarsOn, What, Untouched
  <2>4. CASE q # r
    BY <2>1, <2>2, <2>4 DEF SwitchInv, BarsOn, What, Untouched
  <2>5. QED
    BY <2>3, <2>4
<1>2. CASE ~Arrive(r)
  <2>1. /\ call' = call /\ barred' = barred
        /\ UNCHANGED <<revoked, disabled>> /\ quarantined \subseteq quarantined'
    BY <1>2 DEF Step, Shed, CheckQuarantine, CheckRevocation, TripCanary,
       CheckSkill, Gate, Refuse, EvaluatePolicy, Register, Deliver,
       RecordStaged, Consume, RecordAllow, Dispatch, Reply, ReadBack,
       RecordDeny, Timeout
  <2>2. /\ call[q] # None /\ switch \in BarsOn(What(q))
        /\ pc[q] \in Before(switch) /\ Untouched(q)
    BY <2>1 DEF SwitchInv
  <2>3. call'[q] # None /\ switch \in BarsOn(What(q))'
    BY <2>1, <2>2 DEF BarsOn, What
  <2>4. CASE q # r
    <3>1. pc'[q] = pc[q] /\ Untouched(q)'
      BY <1>2, <2>2, <2>4
         DEF Step, Shed, CheckQuarantine, CheckRevocation, TripCanary,
             CheckSkill, Gate, Refuse, EvaluatePolicy, Count, PassUncounted,
             Register, Deliver, RecordStaged, Consume, Spend, RecordAllow,
             Dispatch, Reply, ReadBack, RecordDeny, Timeout, Answer, Goto,
             Untouched
    <3>2. QED
      BY <2>2, <2>3, <3>1
  <2>5. CASE q = r
    <3>1. pc[r] \in Before(switch)
      BY <2>2, <2>5
    <3>2. pc[r] \in Over \cup Gates
      BY <3>1 DEF Before, Gates
    <3>3. \/ CheckQuarantine(r) \/ CheckRevocation(r) \/ TripCanary(r)
          \/ CheckSkill(r) \/ Refuse(r) \/ RecordDeny(r) \/ Timeout(r)
      BY <1>2, <3>2
         DEF Step, Shed, EvaluatePolicy, Register, Deliver, RecordStaged,
             Consume, RecordAllow, Dispatch, Reply, ReadBack, Gates, Over
    <3>4. Untouched(r)'
      BY <2>2, <2>5, <3>3
         DEF CheckQuarantine, CheckRevocation, TripCanary, CheckSkill, Gate,
             Refuse, RecordDeny, Timeout, Untouched
    <3>5. pc'[r] \in Before(switch)
      BY <2>2, <2>5, <3>1, <3>3
         DEF CheckQuarantine, CheckRevocation, TripCanary, CheckSkill, Gate,
             Refuse, RecordDeny, Timeout, Answer, Goto, Before, Gates, Over,
             BarsOn, Switch
    <3>6. QED
      BY <2>3, <2>5, <3>4, <3>5
  <2>6. QED
    BY <2>4, <2>5
<1>3. QED
  BY <1>1, <1>2

\* Every step preserves the invariant of the switches.
LEMMA NextSwitch == PipelineInv /\ SwitchInv /\ [Next]_vars => SwitchInv'
<1> SUFFICES ASSUME PipelineInv, SwitchInv, [Next]_vars PROVE SwitchInv'
  OBVIOUS
<1> USE DEF logVars, lockVars, policyVars, switchVars, PipelineInv, TypeOK
<1>1. CASE \E r \in Request : Step(r)
  BY <1>1, StepSwitch
<1>2. ASSUME NEW c \in Request, LastInstant(c) \/ LockExpires(c)
      PROVE  SwitchInv'
  BY <1>2 DEF LastInstant, LockExpires, SwitchInv, BarsOn, What, Untouched, Before
<1>3. ASSUME NEW w \in Worker, Crash(w) PROVE SwitchInv'
  BY <1>3 DEF Crash, SwitchInv, BarsOn, What, Untouched, Before, Over
<1>4. ASSUME NEW a \in Agent, Revoke(a) \/ Freeze(a) PROVE SwitchInv'
  BY <1>4 DEF Revoke, Freeze, environment, SwitchInv, BarsOn, What, Untouched, Before
<1>5. ASSUME NEW a \in Agent, Reactivate(a) PROVE SwitchInv'
  BY <1>5 DEF Reactivate, Unbar, RequestsBy, environment, SwitchInv, BarsOn,
     What, Untouched, Before
<1>6. ASSUME NEW a \in Agent, QuarantineLapses(a) PROVE SwitchInv'
  BY <1>6 DEF QuarantineLapses, Unbar, RequestsBy, environment, SwitchInv,
     BarsOn, What, Untouched, Before
<1>7. ASSUME NEW s \in Alias, Disable(s) PROVE SwitchInv'
  BY <1>7 DEF Disable, environment, SwitchInv, BarsOn, What, Untouched, Before
<1>8. ASSUME NEW s \in Alias, Enable(s) PROVE SwitchInv'
  BY <1>8 DEF Enable, Unbar, RequestsFor, environment, SwitchInv, BarsOn,
     What, Untouched, Before
<1>9. CASE WindowEnds \/ UNCHANGED vars
  BY <1>9 DEF WindowEnds, vars, environment, SwitchInv, BarsOn, What,
     Untouched, Before
<1>10. QED
  BY <1>1, <1>2, <1>3, <1>4, <1>5, <1>6, <1>7, <1>8, <1>9 DEF Next

\* A request that arrived under a switch that is still on stages nothing,
\* spends nothing and runs nothing: the checks of steps 2b, 2c and 4a' come
\* before everything that has an effect, for completions too.
THEOREM KillSwitchHoldsCorrect == Spec => []KillSwitchHolds
<1>1. Init => SwitchInv
  BY DEF Init, SwitchInv
<1>2. Spec => [](PipelineInv /\ SwitchInv)
  BY <1>1, InitPipeline, NextPipeline, NextSwitch, PTL DEF Spec
<1>3. PipelineInv /\ SwitchInv => KillSwitchHolds
  BY DEF PipelineInv, TypeOK, SwitchInv, Untouched, KillSwitchHolds
<1>4. QED
  BY <1>2, <1>3, PTL

---------------------------------------------------------------------------
(* The pipeline implements ApprovedExecution. *)

Asked    == [r \in Request |-> IF call[r] = None THEN None ELSE What(r)]
Approval == [r \in Request |-> IF code[r] = None THEN "none"
                               ELSE IF Held(r) THEN "live" ELSE "gone"]
Logged   == {r \in Request : "allow" \in record[r]}
RiskySet == {a \in Action : a.alias \in PinAlias}

execVars == <<Asked, Approval, claim, Logged, ran>>
execStep == Execution!Next \/ UNCHANGED execVars

\* A request that has come asks for an action, and is risky by its alias.
LEMMA AskedAction ==
  ASSUME PipelineInv, NEW r \in Request, call[r] # None
  PROVE  /\ What(r) \in Action /\ What(r) # None
         /\ Asked[r] = What(r)
         /\ What(r) \in RiskySet <=> IsPin(r)
<1>1. What(r) \in Action
  BY WhatType DEF PipelineInv
<1>2. QED
  BY <1>1, ActionAssumption DEF Asked, RiskySet, IsPin

\* What a step leaves alone in the pipeline, it leaves alone in the promise.
LEMMA Unseen ==
  /\ UNCHANGED call => UNCHANGED Asked
  /\ UNCHANGED <<life, code>> => UNCHANGED Approval
  /\ UNCHANGED record => UNCHANGED Logged
BY DEF Asked, Approval, Logged, Held, What

\* A record other than an ALLOW is not seen.
LEMMA OtherRecord ==
  ASSUME PipelineInv, NEW r \in Request, NEW d \in {"staged", "deny"},
         Records(r, d) \/ MayRecord(r, d)
  PROVE  UNCHANGED Logged
BY DEF PipelineInv, TypeOK, Records, MayRecord, Logged

\* A lock that goes away without a claim is an approval that becomes void.
LEMMA VoidStep ==
  ASSUME PipelineInv, NEW c \in Request, Held(c), NEW v, v # "none",
         \/ life' = [life EXCEPT ![c] = "none"]
         \/ life' = [life EXCEPT ![c] = v],
         UNCHANGED <<call, code, claim, record, ran>>
  PROVE  execStep
<1>1. code[c] # None
  BY DEF PipelineInv, RequestInv, LockInv
<1>2. UNCHANGED <<Asked, claim, Logged, ran>>
  BY Unseen
<1>3. CASE life' = [life EXCEPT ![c] = "none"]
  <2>1. /\ Approval[c] = "live"
        /\ Approval' = [Approval EXCEPT ![c] = "gone"]
    BY <1>1, <1>3 DEF PipelineInv, TypeOK, Approval, Held
  <2>2. Execution!Void(c)
    BY <1>2, <2>1 DEF Execution!Void, Asked, Approval, Logged
  <2>3. QED
    BY <2>2 DEF Execution!Next, execStep
<1>4. CASE life' = [life EXCEPT ![c] = v]
  <2>1. UNCHANGED Approval
    BY <1>1, <1>4 DEF PipelineInv, TypeOK, Approval, Held
  <2>2. QED
    BY <1>2, <2>1 DEF execStep, execVars
<1>5. QED
  BY <1>3, <1>4

\* Spending a lock is spending the approval it holds.
LEMMA SpendStep ==
  ASSUME PipelineInv, NEW r \in Request, NEW c \in Request, call[r] # None,
         claim[r] = None, Matches(r, c), Spend(r, c),
         UNCHANGED <<call, code, record, ran>>
  PROVE  execStep
<1>1. Held(c) /\ code[c] # None /\ call[c] # None /\ What(c) = What(r)
  BY DEF PipelineInv, RequestInv, LockInv, Matches, Payload
<1>2. Asked[r] = Asked[c]
  BY <1>1 DEF Asked
<1>3. /\ Approval[c] = "live"
      /\ Approval' = [Approval EXCEPT ![c] = "gone"]
  BY <1>1 DEF PipelineInv, TypeOK, Approval, Held, Spend
<1>4. UNCHANGED <<Asked, Logged, ran>> /\ claim' = [claim EXCEPT ![r] = c]
  BY Unseen DEF Spend
<1>5. Execution!Spend(r, c)
  BY <1>2, <1>3, <1>4 DEF Execution!Spend, Asked, Approval, Logged
<1>6. QED
  BY <1>5 DEF Execution!Next, execStep

\* Every step of a request is a step of the promise, or none.
LEMMA StepExecution ==
  ASSUME PipelineInv, NEW r \in Request, Step(r)
  PROVE  execStep
<1> USE DEF logVars, lockVars, policyVars, switchVars
<1>1. CASE Arrive(r)
  <2>1. PICK c \in Call : call' = [call EXCEPT ![r] = c]
    BY <1>1 DEF Arrive
  <2>2. call[r] = None /\ c # None /\ c.what \in Action
    BY <1>1, ActionAssumption
       DEF Arrive, PipelineInv, RequestInv, StepInv, Fresh, Call
  <2>3. Asked[r] = None /\ Asked' = [Asked EXCEPT ![r] = c.what]
    BY <2>1, <2>2 DEF PipelineInv, TypeOK, Asked, What
  <2>4. UNCHANGED <<Approval, claim, Logged, ran>>
    BY <1>1, Unseen DEF Arrive
  <2>5. Execution!Ask(r, c.what)
    BY <2>3, <2>4 DEF Execution!Ask, Asked, Approval, Logged
  <2>6. QED
    BY <2>2, <2>5 DEF Execution!Next, execStep
<1>2. CASE Register(r)
  <2>1. PICK k \in Code : code' = [code EXCEPT ![r] = k]
    BY <1>2 DEF Register
  <2>2. /\ k # None /\ code[r] = None /\ IsPin(r) /\ call[r] # None
    BY <1>2, ActionAssumption
       DEF Register, PipelineInv, RequestInv, StepInv, Fresh
  <2>3. /\ Approval[r] = "none"
        /\ Approval' = [Approval EXCEPT ![r] = "live"]
    BY <1>2, <2>1, <2>2 DEF PipelineInv, TypeOK, Register, Approval, Held
  <2>4. UNCHANGED <<Asked, claim, Logged, ran>>
    BY <1>2, Unseen DEF Register
  <2>5. Asked[r] \in RiskySet
    BY <2>2, AskedAction
  <2>6. Execution!Mint(r)
    BY <2>3, <2>4, <2>5 DEF Execution!Mint, Asked, Approval, Logged, RiskySet
  <2>7. QED
    BY <2>6 DEF Execution!Next, execStep
<1>3. CASE Consume(r)
  <2>1. /\ call[r] # None /\ claim[r] = None
        /\ UNCHANGED <<call, record, ran>>
    BY <1>3 DEF Consume, PipelineInv, RequestInv, StepInv, NoEffect, Fresh
  <2>2. CASE UNCHANGED lockVars
    BY <2>1, <2>2, Unseen DEF execStep, execVars
  <2>3. ASSUME NEW c \in Request, Matches(r, c), CountWrong(c),
               UNCHANGED <<claim, code>>
        PROVE  execStep
    <3>1. Held(c)
      BY <2>3 DEF Matches
    <3>2. \/ life' = [life EXCEPT ![c] = "none"]
          \/ life' = [life EXCEPT ![c] = "forever"]
          \/ life' = [life EXCEPT ![c] = life[c]]
      BY <2>3 DEF CountWrong
    <3>3. life[c] # "none" /\ "forever" # "none"
      BY <3>1 DEF Held
    <3>4. QED
      BY <2>1, <2>3, <3>1, <3>2, <3>3, VoidStep
  <2>4. ASSUME NEW c \in Request, Matches(r, c), Spend(r, c), UNCHANGED code
        PROVE  execStep
    BY <2>1, <2>4, SpendStep
  <2>5. QED
    BY <1>3, <2>2, <2>3, <2>4 DEF Consume
<1>4. CASE RecordAllow(r)
  <2>1. UNCHANGED <<Asked, Approval, claim, ran>>
    BY <1>4, Unseen DEF RecordAllow
  <2>2. CASE record' = record
    BY <2>1, <2>2, Unseen DEF execStep, execVars
  <2>3. CASE record' = [record EXCEPT ![r] = @ \cup {"allow"}]
    <3>1. Logged' = Logged \cup {r}
      BY <2>3 DEF PipelineInv, TypeOK, Logged
    <3>2. call[r] # None /\ Approved(r)
      BY <1>4 DEF RecordAllow, PipelineInv, RequestInv, StepInv, Fresh, Decided
    <3>3. Asked[r] \in RiskySet => claim[r] # None
      BY <3>2, AskedAction DEF Approved
    <3>4. Execution!Log(r)
      BY <2>1, <3>1, <3>3 DEF Execution!Log, Asked, Approval, Logged, RiskySet
    <3>5. QED
      BY <3>4 DEF Execution!Next, execStep
  <2>4. QED
    BY <1>4, <2>2, <2>3 DEF RecordAllow, Records, MayRecord
<1>5. CASE Dispatch(r)
  <2>1. /\ call[r] # None /\ Approved(r)
        /\ record[r] = {"allow"} /\ r \notin ran
    BY <1>5 DEF Dispatch, PipelineInv, RequestInv, StepInv, Fresh, Decided
  <2>2. r \in Logged /\ (Asked[r] \in RiskySet => claim[r] # None)
    BY <2>1, AskedAction DEF Logged, Approved
  <2>3. UNCHANGED <<Asked, Approval, claim, Logged>> /\ ran' = ran \cup {r}
    BY <1>5, Unseen DEF Dispatch
  <2>4. Execution!Run(r)
    BY <2>1, <2>2, <2>3 DEF Execution!Run, Asked, Approval, Logged, RiskySet
  <2>5. QED
    BY <2>4 DEF Execution!Next, execStep
<1>6. CASE RecordStaged(r) \/ RecordDeny(r)
  <2>1. UNCHANGED <<Asked, Approval, claim, ran>>
    BY <1>6, Unseen DEF RecordStaged, RecordDeny
  <2>2. UNCHANGED Logged
    BY <1>6, OtherRecord DEF RecordStaged, RecordDeny
  <2>3. QED
    BY <2>1, <2>2 DEF execStep, execVars
<1>7. CASE \/ Shed(r) \/ CheckQuarantine(r) \/ CheckRevocation(r)
           \/ TripCanary(r) \/ CheckSkill(r) \/ Refuse(r)
           \/ EvaluatePolicy(r) \/ Deliver(r) \/ Reply(r) \/ ReadBack(r)
           \/ Timeout(r)
  <2>1. UNCHANGED <<call, life, code, claim, record, ran>>
    BY <1>7 DEF Shed, CheckQuarantine, CheckRevocation, TripCanary,
       CheckSkill, Gate, Refuse, EvaluatePolicy, Deliver, Reply, ReadBack,
       Timeout
  <2>2. QED
    BY <2>1, Unseen DEF execStep, execVars
<1>8. QED
  BY <1>1, <1>2, <1>3, <1>4, <1>5, <1>6, <1>7 DEF Step

\* Every step of the pipeline is a step of the promise, or none.
LEMMA NextExecution == PipelineInv /\ [Next]_vars => execStep
<1> SUFFICES ASSUME PipelineInv, [Next]_vars PROVE execStep
  OBVIOUS
<1> USE DEF logVars, lockVars, policyVars, switchVars
<1>1. CASE \E r \in Request : Step(r)
  BY <1>1, StepExecution
<1>2. ASSUME NEW c \in Request, LastInstant(c) \/ LockExpires(c)
      PROVE  execStep
  <2>1. \/ life' = [life EXCEPT ![c] = "none"]
        \/ life' = [life EXCEPT ![c] = "last"]
    BY <1>2 DEF LastInstant, LockExpires
  <2>2. Held(c) /\ UNCHANGED <<call, code, claim, record, ran>>
    BY <1>2 DEF LastInstant, LockExpires, Held
  <2>3. "last" # "none"
    OBVIOUS
  <2>4. QED
    BY <2>1, <2>2, <2>3, VoidStep
<1>3. CASE UNCHANGED <<call, life, code, claim, record, ran>>
  BY <1>3, Unseen DEF execStep, execVars
<1>4. QED
  BY <1>1, <1>2, <1>3
     DEF Next, Crash, Revoke, Reactivate, Freeze, QuarantineLapses, Disable,
         Enable, WindowEnds, environment, vars

\* The pipeline of app/main.py is an implementation of ApprovedExecution: an
\* action runs once, on record, and a risky one by spending its own approval.
THEOREM PipelineImplements == Spec => ExecutionSpec
<1>1. Init => Execution!Init
  BY DEF Init, Execution!Init
<1>2. PipelineInv /\ [Next]_vars => [Execution!Next]_(Execution!execVars)
  BY NextExecution
     DEF execStep, execVars, Execution!execVars, Asked, Approval, Logged
<1>3. QED
  BY <1>1, <1>2, PipelineInvariant, PTL DEF Spec, ExecutionSpec, Execution!Spec

---------------------------------------------------------------------------
(* The limits. *)

\* The window holds no more requests than were counted, nor than the cap.
VelocityInv ==
  /\ Cardinality(window) <= velocity
  /\ Cardinality(window) <= VelocityMax

\* An increment pays for the request it lets pass.
LEMMA NextVelocity == TypeInv /\ VelocityInv /\ [Next]_vars => VelocityInv'
<1> SUFFICES ASSUME TypeInv, VelocityInv, [Next]_vars PROVE VelocityInv'
  OBVIOUS
<1> USE DEF logVars, lockVars, policyVars, switchVars, environment
<1>1. IsFiniteSet(window) /\ velocity \in Nat
  BY FS_Subset, RequestAssumption DEF TypeInv, TypeOK
<1>2. Cardinality(window) \in Nat
  BY <1>1, FS_CardinalityType
<1>3. ASSUME NEW r \in Request, EvaluatePolicy(r) PROVE VelocityInv'
  <2>1. Cardinality(window \cup {r}) \in {Cardinality(window), Cardinality(window) + 1}
    BY <1>1, FS_AddElement
  <2>2. CASE window' = window \cup {r} /\ velocity' = velocity + 1
             /\ velocity' <= VelocityMax
    BY <1>1, <1>2, <2>1, <2>2, LimitAssumption DEF VelocityInv
  <2>3. CASE window' = window /\ velocity' = velocity + 1
    BY <1>1, <1>2, <2>3 DEF VelocityInv
  <2>4. CASE UNCHANGED <<window, velocity>>
    BY <2>4 DEF VelocityInv
  <2>5. QED
    BY <1>3, <2>2, <2>3, <2>4 DEF EvaluatePolicy, Count, PassUncounted
<1>4. CASE WindowEnds
  BY <1>4, FS_EmptySet, LimitAssumption DEF WindowEnds, VelocityInv
<1>5. CASE UNCHANGED <<window, velocity>>
  BY <1>5 DEF VelocityInv
<1>6. ASSUME NEW r \in Request, Step(r), ~EvaluatePolicy(r)
      PROVE  UNCHANGED <<window, velocity>>
  BY <1>6 DEF Step, Arrive, Shed, CheckQuarantine, CheckRevocation,
     TripCanary, CheckSkill, Gate, Refuse, Register, Deliver, RecordStaged,
     Consume, RecordAllow, Dispatch, Reply, ReadBack, RecordDeny, Timeout
<1>7. QED
  BY <1>3, <1>4, <1>5, <1>6
     DEF Next, LastInstant, LockExpires, Crash, Revoke, Reactivate, Freeze,
         QuarantineLapses, Disable, Enable, vars

\* The velocity rule admits at most max_actions requests in a window: counting
\* and comparing in that order is enough, in whatever order increments come.
THEOREM WithinVelocityCorrect == Spec => []WithinVelocity
<1>1. Init => VelocityInv
  BY FS_EmptySet, LimitAssumption DEF Init, VelocityInv
<1>2. VelocityInv => WithinVelocity
  BY DEF VelocityInv, WithinVelocity
<1>3. QED
  BY <1>1, <1>2, InitType, NextType, NextVelocity, PTL DEF Spec

\* The requests inside a worker are finitely many.
LEMMA AdmittedFinite ==
  ASSUME NEW w \in Worker
  PROVE  IsFiniteSet(AdmittedAt(w)) /\ Cardinality(AdmittedAt(w)) \in Nat
<1>1. IsFiniteSet(AdmittedAt(w))
  BY FS_Subset, RequestAssumption DEF AdmittedAt
<1>2. QED
  BY <1>1, FS_CardinalityType

\* A step admits a request, moves one that is inside or one that is not, or
\* answers one.
LEMMA StepKind ==
  ASSUME NEW r \in Request, Step(r)
  PROVE  \/ /\ pc[r] = "new" /\ Goto(r, "quarantine")
            /\ inFlight[WorkerOf[r]] < MaxInFlight
            /\ inFlight' = [inFlight EXCEPT ![WorkerOf[r]] = @ + 1]
         \/ pc[r] = "new" /\ Goto(r, "shed") /\ UNCHANGED inFlight
         \/ pc[r] \in Working /\ \E p \in Working : Goto(r, p) /\ UNCHANGED inFlight
         \/ pc[r] \in Working /\ \E p \in Ended : Answer(r, p)
<1>1. CASE Arrive(r) \/ Shed(r)
  BY <1>1 DEF Arrive, Shed
<1>2. CASE CheckQuarantine(r) \/ CheckRevocation(r) \/ CheckSkill(r)
  BY <1>2 DEF CheckQuarantine, CheckRevocation, CheckSkill, Gate, AfterGates,
     Working
<1>3. CASE TripCanary(r) \/ Refuse(r)
  BY <1>3 DEF TripCanary, Refuse, Working
<1>4. CASE EvaluatePolicy(r)
  BY <1>4 DEF EvaluatePolicy, Count, PassUncounted, AfterPolicy, Working
<1>5. CASE Register(r) \/ Deliver(r)
  BY <1>5 DEF Register, Deliver, Working
<1>6. CASE Consume(r)
  BY <1>6 DEF Consume, Working
<1>7. CASE RecordAllow(r) \/ Dispatch(r) \/ Reply(r)
  BY <1>7 DEF RecordAllow, Dispatch, Reply, Working
<1>8. CASE RecordStaged(r) \/ ReadBack(r)
  BY <1>8 DEF RecordStaged, ReadBack, Working, Ended
<1>9. CASE RecordDeny(r) \/ Timeout(r)
  BY <1>9 DEF RecordDeny, Timeout, Working, Ended
<1>10. QED
  BY <1>1, <1>2, <1>3, <1>4, <1>5, <1>6, <1>7, <1>8, <1>9 DEF Step

\* A step keeps the counter of every worker exact.
LEMMA StepAdmission ==
  ASSUME TypeInv, AdmissionExact, NEW r \in Request, Step(r)
  PROVE  AdmissionExact'
<1> DEFINE home == WorkerOf[r]
<1> DEFINE size == Cardinality(AdmittedAt(home))
<1>1. /\ home \in Worker /\ IsFiniteSet(AdmittedAt(home)) /\ size \in Nat
      /\ inFlight[home] = size /\ size <= MaxInFlight
  BY RequestAssumption, AdmittedFinite DEF AdmissionExact
<1>2. Working \cap Ended = {} /\ "quarantine" \in Working
      /\ {"new", "shed"} \cap Working = {}
  BY DEF Working, Ended
<1>3. pc \in [Request -> {"new"} \cup Working \cup Ended] /\ inFlight \in [Worker -> Int]
  BY DEF TypeInv, TypeOK
<1>4. CASE pc[r] = "new" /\ Goto(r, "quarantine") /\ inFlight[home] < MaxInFlight
           /\ inFlight' = [inFlight EXCEPT ![home] = @ + 1]
  <2>1. ASSUME NEW w \in Worker
        PROVE  AdmittedAt(w)' = IF w = home THEN AdmittedAt(w) \cup {r}
                                            ELSE AdmittedAt(w)
    BY <1>2, <1>3, <1>4 DEF AdmittedAt, Goto
  <2>2. r \notin AdmittedAt(home)
    BY <1>2, <1>4 DEF AdmittedAt
  <2>3. Cardinality(AdmittedAt(home) \cup {r}) = size + 1
    BY <1>1, <2>2, FS_AddElement
  <2>4. inFlight'[home] = size + 1 /\ size + 1 <= MaxInFlight
    BY <1>1, <1>3, <1>4, LimitAssumption
  <2>5. ASSUME NEW w \in Worker, w # home PROVE inFlight'[w] = inFlight[w]
    BY <1>3, <1>4, <2>5
  <2>6. QED
    BY <2>1, <2>3, <2>4, <2>5 DEF AdmissionExact
<1>5. ASSUME NEW p \in Ended, pc[r] \in Working, Answer(r, p)
      PROVE  AdmissionExact'
  <2>1. ASSUME NEW w \in Worker
        PROVE  AdmittedAt(w)' = IF w = home THEN AdmittedAt(w) \ {r}
                                            ELSE AdmittedAt(w)
    BY <1>2, <1>3, <1>5 DEF AdmittedAt, Answer, Goto
  <2>2. r \in AdmittedAt(home)
    BY <1>5 DEF AdmittedAt
  <2>3. Cardinality(AdmittedAt(home) \ {r}) = size - 1
    BY <1>1, <2>2, FS_RemoveElement
  <2>4. inFlight'[home] = size - 1 /\ size - 1 <= MaxInFlight
    BY <1>1, <1>3, <1>5, LimitAssumption DEF Answer
  <2>5. ASSUME NEW w \in Worker, w # home PROVE inFlight'[w] = inFlight[w]
    BY <1>3, <1>5, <2>5 DEF Answer
  <2>6. QED
    BY <2>1, <2>3, <2>4, <2>5 DEF AdmissionExact
<1>6. ASSUME NEW p, Goto(r, p), p \in Working <=> pc[r] \in Working,
             UNCHANGED inFlight
      PROVE  AdmissionExact'
  <2>1. ASSUME NEW w \in Worker PROVE AdmittedAt(w)' = AdmittedAt(w)
    BY <1>3, <1>6 DEF AdmittedAt, Goto
  <2>2. QED
    BY <1>6, <2>1 DEF AdmissionExact
<1>7. QED
  BY <1>2, <1>4, <1>5, <1>6, StepKind

\* Every step keeps the counters exact; a crash empties both sides.
LEMMA NextAdmission == TypeInv /\ AdmissionExact /\ [Next]_vars => AdmissionExact'
<1> SUFFICES ASSUME TypeInv, AdmissionExact, [Next]_vars PROVE AdmissionExact'
  OBVIOUS
<1>1. CASE \E r \in Request : Step(r)
  BY <1>1, StepAdmission
<1>2. ASSUME NEW v \in Worker, Crash(v) PROVE AdmissionExact'
  <2>1. ASSUME NEW w \in Worker
        PROVE  AdmittedAt(w)' = IF w = v THEN {} ELSE AdmittedAt(w)
    BY <1>2 DEF Crash, AdmittedAt, Working
  <2>2. inFlight' = [inFlight EXCEPT ![v] = 0] /\ inFlight \in [Worker -> Int]
    BY <1>2 DEF Crash, TypeInv, TypeOK
  <2>3. ASSUME NEW w \in Worker
        PROVE  /\ inFlight'[w] = Cardinality(AdmittedAt(w)')
               /\ inFlight'[w] <= MaxInFlight
    <3>1. CASE w = v
      BY <2>1, <2>2, <3>1, FS_EmptySet, LimitAssumption
    <3>2. CASE w # v
      BY <2>1, <2>2, <3>2 DEF AdmissionExact
    <3>3. QED
      BY <3>1, <3>2
  <2>4. QED
    BY <2>3 DEF AdmissionExact
<1>3. CASE UNCHANGED <<pc, inFlight>>
  BY <1>3 DEF AdmissionExact, AdmittedAt
<1>4. QED
  BY <1>1, <1>2, <1>3
     DEF Next, LastInstant, LockExpires, Revoke, Reactivate, Freeze,
         QuarantineLapses, Disable, Enable, WindowEnds, environment, vars

\* The admission counter of EdgeGateMiddleware counts the requests inside, and
\* never passes max_in_flight.
THEOREM AdmissionExactCorrect == Spec => []AdmissionExact
<1>1. Init => AdmissionExact
  <2>1. ASSUME Init, NEW w \in Worker PROVE AdmittedAt(w) = {}
    BY <2>1 DEF Init, AdmittedAt, Working
  <2>2. QED
    BY <2>1, FS_EmptySet, LimitAssumption DEF Init, AdmissionExact
<1>2. QED
  BY <1>1, InitType, NextType, NextAdmission, PTL DEF Spec
=============================================================================
