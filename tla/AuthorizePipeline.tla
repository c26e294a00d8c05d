------------------------- MODULE AuthorizePipeline -------------------------
(***************************************************************************)
(* The authorize pipeline of the gateway, app/main.py, with what it calls: *)
(* the step-up payload lock (auth/pin_validator.py, services/              *)
(* auth_engine.py), the three kill switches, the velocity rule of the      *)
(* policy engine, the audit record around the decision, and the admission  *)
(* control of EdgeGateMiddleware.                                          *)
(*                                                                         *)
(* A request is one run of the pipeline for one tenant, on one worker; it  *)
(* moves from gate to gate, one action per await that reads or writes      *)
(* something others change.  A request for a risky alias that carries no   *)
(* pin stages a payload lock (its own name is the lock's id, a fresh       *)
(* uuid); another request, with the code and the lock's id, completes it.  *)
(* A record that is lost, or written though its writer saw an error, an    *)
(* answer that Redis gave and nobody received, the deadline of a request   *)
(* and the death of a worker can come at every step.                       *)
(*                                                                         *)
(* The payload hash is injective, so the payload bound to a lock is the    *)
(* action of the request that staged it.  Identity, parsing, delegation,   *)
(* compartments, mandates, proof of possession, rate limits and the pure   *)
(* policy rules only ever refuse here: Refuse stands for all of them.      *)
(***************************************************************************)
EXTENDS Integers, FiniteSets

CONSTANTS
  Request, Worker,
  WorkerOf,        \* the worker a request arrives at
  Agent, Alias,
  Action,          \* records of an agent, an alias and its argument
  PinAlias,        \* aliases of risk tier PIN_REQUIRED
  CanaryAlias,     \* decoys
  Code,            \* one-time codes
  None,
  MaxAttempts,     \* PIN_MAX_ATTEMPTS (5)
  Counted,         \* aliases the tenant's velocity rule matches
  VelocityMax,     \* max_actions of that rule
  MaxInFlight,     \* max_in_flight (64)
  Revocable,       \* bound: agents operators revoke or freeze
  Disableable,     \* bound: aliases operators disable
  DeadlineCanHit,  \* may a code arrive in the last millisecond of its lock?
  TransportMayLie  \* may a transport raise after its effect?

Call == [what : Action, pin : Code \cup {None}, lock : Request \cup {None}]

ASSUME RequestAssumption ==
  /\ None \notin Request
  /\ WorkerOf \in [Request -> Worker]
  /\ IsFiniteSet(Request)

ASSUME ActionAssumption ==
  /\ \A a \in Action : a.agent \in Agent /\ a.alias \in Alias
  /\ None \notin Action /\ None \notin Code /\ None \notin Call
  /\ PinAlias \subseteq Alias /\ CanaryAlias \subseteq Alias
  /\ Counted \subseteq Alias
  /\ Revocable \subseteq Agent /\ Disableable \subseteq Alias

ASSUME LimitAssumption ==
  /\ MaxAttempts \in Nat \ {0}
  /\ VelocityMax \in Nat /\ MaxInFlight \in Nat
  /\ DeadlineCanHit \in BOOLEAN /\ TransportMayLie \in BOOLEAN

VARIABLES
  pc, call,      \* per request: where it is, and what it asks
  record,        \* per request: the decisions the audit log holds of it
  ran,           \* requests whose transport executed the action
  life,          \* the lock a request staged: its key and TTL in Redis
  code, tries,   \* the code and the wrong codes counted in that lock
  claim,         \* history: the lock a request's code spent
  noticed,       \* history: locks whose code and id reached a human
  lapsed,        \* history: locks whose TTL ran out
  velocity,      \* the counter of the velocity rule
  window,        \* history: requests the rule let pass in this window
  passed,        \* history: requests the policy let pass
  revoked, quarantined, disabled,   \* the kill switches, in Redis
  barred,        \* history: switches on ever since a request arrived
  inFlight       \* the admission counter of each worker

lockVars   == <<life, code, tries, claim, noticed, lapsed>>
policyVars == <<velocity, window, passed>>
switchVars == <<revoked, quarantined, disabled, barred>>
logVars    == <<record, ran>>
vars == <<pc, call, logVars, lockVars, policyVars, switchVars, inFlight>>

Switch == {"quarantined", "revoked", "disabled"}
Decision == {"staged", "allow", "deny"}

\* Steps between admission and answer, and the ways a request can end: 202,
\* 200, the opaque denial, 503 at admission, and cut off half-way, by the
\* deadline (503) or with its worker.
Working == {"quarantine", "revocation", "canary", "skill", "policy",
            "register", "deliver", "stage", "consume", "allow", "dispatch",
            "reply", "receipt", "refuse"}
Ended == {"staged", "committed", "denied", "shed", "cut"}

AdmittedAt(w) == {r \in Request : WorkerOf[r] = w /\ pc[r] \in Working}

What(r) == call[r].what
IsPin(r) == What(r).alias \in PinAlias

---------------------------------------------------------------------------
Init ==
  /\ pc = [r \in Request |-> "new"]
  /\ call = [r \in Request |-> None]
  /\ record = [r \in Request |-> {}]
  /\ ran = {}
  /\ life = [r \in Request |-> "none"]
  /\ code = [r \in Request |-> None]
  /\ tries = [r \in Request |-> 0]
  /\ claim = [r \in Request |-> None]
  /\ noticed = {} /\ lapsed = {}
  /\ velocity = 0 /\ window = {} /\ passed = {}
  /\ revoked = {} /\ quarantined = {} /\ disabled = {}
  /\ barred = [r \in Request |-> {}]
  /\ inFlight = [w \in Worker |-> 0]

Goto(r, p) == pc' = [pc EXCEPT ![r] = p]

\* An answer leaves; the finally of the edge gate gives the slot back.
Answer(r, how) ==
  /\ Goto(r, how)
  /\ inFlight' = [inFlight EXCEPT ![WorkerOf[r]] = @ - 1]

\* The switches that are on for a request now.
BarsOn(a) ==
  {s \in Switch : \/ s = "quarantined" /\ a.agent \in quarantined
                  \/ s = "revoked" /\ a.agent \in revoked
                  \/ s = "disabled" /\ a.alias \in disabled}

\* A call comes with a pin and a challenge or without both; a challenge may
\* name a lock a human was told of, or nothing (an id that never was).
MakesSense(c) ==
  /\ c.pin = None => c.lock = None
  /\ c.lock # None => c.lock \in noticed

Arrive(r) ==
  /\ pc[r] = "new"
  /\ inFlight[WorkerOf[r]] < MaxInFlight
  /\ \E c \in Call :
       /\ MakesSense(c)
       /\ call' = [call EXCEPT ![r] = c]
       /\ barred' = [barred EXCEPT ![r] = BarsOn(c.what)]
  /\ Goto(r, "quarantine")
  /\ inFlight' = [inFlight EXCEPT ![WorkerOf[r]] = @ + 1]
  /\ UNCHANGED <<logVars, lockVars, policyVars, revoked, quarantined, disabled>>

\* Over the bound: 503 before anything is read.
Shed(r) ==
  /\ pc[r] = "new"
  /\ inFlight[WorkerOf[r]] >= MaxInFlight
  /\ Goto(r, "shed")
  /\ UNCHANGED <<call, logVars, lockVars, policyVars, switchVars, inFlight>>

---------------------------------------------------------------------------
(* The gates, in the order of the code. *)

\* Move on, to `yes' if the gate lets the request pass.
Gate(r, at, open, yes) ==
  /\ pc[r] = at
  /\ Goto(r, IF open THEN yes ELSE "refuse")
  /\ UNCHANGED <<call, logVars, lockVars, policyVars, switchVars, inFlight>>

\* Mutant: completions skip the freeze check, as they skip the policy.
CheckQuarantineOfStagings(r) ==
  Gate(r, "quarantine",
       What(r).agent \notin quarantined \/ call[r].pin # None, "revocation")

CheckQuarantine(r) ==
  Gate(r, "quarantine", What(r).agent \notin quarantined, "revocation")

CheckRevocation(r) ==
  Gate(r, "revocation", What(r).agent \notin revoked,
       IF What(r).alias \in CanaryAlias THEN "canary" ELSE "skill")

\* A decoy was selected: freeze the agent, best effort, and deny.
TripCanary(r) ==
  /\ pc[r] = "canary"
  /\ \/ quarantined' = quarantined \cup {What(r).agent}
     \/ UNCHANGED quarantined
  /\ Goto(r, "refuse")
  /\ UNCHANGED <<call, logVars, lockVars, policyVars, revoked, disabled,
                 barred, inFlight>>

\* The completion of a step-up was counted when it was staged.
AfterGates(r) ==
  IF IsPin(r) /\ call[r].pin # None THEN "consume" ELSE "policy"

\* Mutant: completions skip the skill switch.
CheckSkillOfStagings(r) ==
  Gate(r, "skill",
       What(r).alias \notin disabled \/ call[r].pin # None, AfterGates(r))

CheckSkill(r) ==
  Gate(r, "skill", What(r).alias \notin disabled, AfterGates(r))

\* Any other gate says no, or Redis does not answer: no effect, a denial.
Refuse(r) ==
  /\ pc[r] \in {"quarantine", "revocation", "canary", "skill", "policy",
                "register", "consume", "dispatch"}
  /\ Goto(r, "refuse")
  /\ UNCHANGED <<call, logVars, lockVars, policyVars, switchVars, inFlight>>

AfterPolicy(r) == IF IsPin(r) THEN "register" ELSE "allow"

\* Mutant: the count is compared before it is incremented.
CountAfterCompare(r) ==
  /\ What(r).alias \in Counted
  /\ velocity' = velocity + 1
  /\ \/ /\ velocity <= VelocityMax
        /\ window' = window \cup {r} /\ passed' = passed \cup {r}
        /\ Goto(r, AfterPolicy(r))
     \/ /\ UNCHANGED <<window, passed>>
        /\ Goto(r, "refuse")

\* The velocity script counts, then the count is compared with the cap; the
\* count stays though the request is denied or the reply is lost.
Count(r) ==
  /\ What(r).alias \in Counted
  /\ velocity' = velocity + 1
  /\ \/ /\ velocity' <= VelocityMax
        /\ window' = window \cup {r} /\ passed' = passed \cup {r}
        /\ Goto(r, AfterPolicy(r))
     \/ /\ UNCHANGED <<window, passed>>
        /\ Goto(r, "refuse")

\* No velocity rule matches.
PassUncounted(r) ==
  /\ What(r).alias \notin Counted
  /\ passed' = passed \cup {r} /\ UNCHANGED <<velocity, window>>
  /\ Goto(r, AfterPolicy(r))

EvaluatePolicy(r) ==
  /\ pc[r] = "policy"
  /\ Count(r) \/ PassUncounted(r)
  /\ UNCHANGED <<call, logVars, lockVars, switchVars, inFlight>>

---------------------------------------------------------------------------
(* Staging. *)

\* SET NX EX of a fresh lock; the reply may be lost.
Register(r) ==
  /\ pc[r] = "register"
  /\ life' = [life EXCEPT ![r] = "live"]
  /\ \E k \in Code : code' = [code EXCEPT ![r] = k]
  /\ \E p \in {"deliver", "refuse"} : Goto(r, p)
  /\ UNCHANGED <<call, logVars, tries, claim, noticed, lapsed, policyVars,
                 switchVars, inFlight>>

\* The channel takes the notice, or raises before or after it went out.
Deliver(r) ==
  /\ pc[r] = "deliver"
  /\ \/ noticed' = noticed \cup {r} /\ \E p \in {"stage", "refuse"} : Goto(r, p)
     \/ UNCHANGED noticed /\ Goto(r, "refuse")
  /\ UNCHANGED <<call, logVars, life, code, tries, claim, lapsed, policyVars,
                 switchVars, inFlight>>

\* An emit that was acknowledged, and one that raised, written or not.
Records(r, d) == record' = [record EXCEPT ![r] = @ \cup {d}]
MayRecord(r, d) == record' \in {record, [record EXCEPT ![r] = @ \cup {d}]}

\* Mutant: the 202 leaves though the record failed.
RecordStagedBestEffort(r) ==
  /\ pc[r] = "stage"
  /\ MayRecord(r, "staged") /\ Answer(r, "staged")
  /\ UNCHANGED <<call, ran, lockVars, policyVars, switchVars>>

\* The record of the staging, then the 202.
RecordStaged(r) ==
  /\ pc[r] = "stage"
  /\ \/ Records(r, "staged") /\ Answer(r, "staged")
     \/ MayRecord(r, "staged") /\ Goto(r, "refuse") /\ UNCHANGED inFlight
  /\ UNCHANGED <<call, ran, lockVars, policyVars, switchVars>>

---------------------------------------------------------------------------
(* Completion: the script that compares and spends, one atomic step. *)

Payload(c) == What(c)
Held(c) == life[c] # "none"

\* Mutant: the payload is not compared.
MatchesAnyPayload(r, c) == c = call[r].lock /\ Held(c)

\* The lock a request names is there and was made for the same action.  If
\* not, the lock stays as it is, and no attempt is counted.
Matches(r, c) == c = call[r].lock /\ Held(c) /\ Payload(c) = What(r)

\* Mutants: one attempt too many; the first wrong code deletes the lock; the
\* record is written back without its TTL.
CountWrongOffByOne(c) ==
  /\ tries' = [tries EXCEPT ![c] = @ + 1]
  /\ life' = [life EXCEPT ![c] = IF tries[c] >= MaxAttempts THEN "none" ELSE @]
CountWrongAtOnce(c) ==
  /\ tries' = [tries EXCEPT ![c] = @ + 1]
  /\ life' = [life EXCEPT ![c] = "none"]
CountWrongNoTTL(c) ==
  /\ tries' = [tries EXCEPT ![c] = @ + 1]
  /\ life' = [life EXCEPT ![c] =
       IF tries[c] + 1 >= MaxAttempts THEN "none" ELSE "forever"]

\* A wrong code is counted; the last one allowed deletes the lock.  The
\* record is written back with the remaining TTL, or, when that reads zero,
\* with none.
CountWrong(c) ==
  /\ tries' = [tries EXCEPT ![c] = @ + 1]
  /\ life' = [life EXCEPT ![c] =
       IF tries[c] + 1 >= MaxAttempts THEN "none"
       ELSE IF @ = "last" THEN "forever" ELSE @]

\* Mutants: the lock survives its spending; the code is remembered for it.
SpendAndKeep(r, c) ==
  /\ claim' = [claim EXCEPT ![r] = c] /\ UNCHANGED life
SpendByCode(r, c) ==
  /\ life' = [life EXCEPT ![c] = "none"]
  /\ claim' = [claim EXCEPT ![r] = code[c]]

\* The right code deletes the lock; `claim' remembers who gave it.
Spend(r, c) ==
  /\ life' = [life EXCEPT ![c] = "none"]
  /\ claim' = [claim EXCEPT ![r] = c]

Consume(r) ==
  /\ pc[r] = "consume"
  /\ \/ /\ \A c \in Request : ~Matches(r, c)
        /\ Goto(r, "refuse")
        /\ UNCHANGED lockVars
     \/ \E c \in Request :
          /\ Matches(r, c)
          /\ \/ /\ code[c] # call[r].pin
                /\ CountWrong(c) /\ UNCHANGED claim
                /\ Goto(r, "refuse")
             \/ /\ code[c] = call[r].pin
                /\ Spend(r, c) /\ UNCHANGED tries
                /\ \E p \in {"allow", "refuse"} : Goto(r, p)
          /\ UNCHANGED <<code, noticed, lapsed>>
  /\ UNCHANGED <<call, logVars, policyVars, switchVars, inFlight>>

\* Redis drops the lock at its TTL; the last millisecond reads PTTL 0.
LastInstant(c) ==
  /\ DeadlineCanHit /\ life[c] = "live"
  /\ life' = [life EXCEPT ![c] = "last"]
  /\ UNCHANGED <<pc, call, logVars, code, tries, claim, noticed, lapsed,
                 policyVars, switchVars, inFlight>>

LockExpires(c) ==
  /\ life[c] \in {"live", "last"}
  /\ life' = [life EXCEPT ![c] = "none"]
  /\ lapsed' = lapsed \cup {c}
  /\ UNCHANGED <<pc, call, logVars, code, tries, claim, noticed, policyVars,
                 switchVars, inFlight>>

---------------------------------------------------------------------------
(* The decision, the dispatch and the answer. *)

\* Mutant: a record that failed does not stop the dispatch.
RecordAllowBestEffort(r) ==
  /\ pc[r] = "allow"
  /\ MayRecord(r, "allow") /\ Goto(r, "dispatch")
  /\ UNCHANGED <<call, ran, lockVars, policyVars, switchVars, inFlight>>

RecordAllow(r) ==
  /\ pc[r] = "allow"
  /\ \/ Records(r, "allow") /\ Goto(r, "dispatch")
     \/ MayRecord(r, "allow") /\ Goto(r, "refuse")
  /\ UNCHANGED <<call, ran, lockVars, policyVars, switchVars, inFlight>>

\* The transport does it; a transport that fails before is Refuse.
Dispatch(r) ==
  /\ pc[r] = "dispatch"
  /\ ran' = ran \cup {r}
  /\ Goto(r, "reply")
  /\ UNCHANGED <<call, record, lockVars, policyVars, switchVars, inFlight>>

Reply(r) ==
  /\ pc[r] = "reply"
  /\ \/ Goto(r, "receipt")
     \/ TransportMayLie /\ Goto(r, "refuse")
  /\ UNCHANGED <<call, logVars, lockVars, policyVars, switchVars, inFlight>>

\* The GET of the sequence number for the receipt; it too may raise.
ReadBack(r) ==
  /\ pc[r] = "receipt"
  /\ \/ Answer(r, "committed")
     \/ Goto(r, "refuse") /\ UNCHANGED inFlight
  /\ UNCHANGED <<call, logVars, lockVars, policyVars, switchVars>>

\* The funnel of every exception: record the denial, best effort, and deny.
RecordDeny(r) ==
  /\ pc[r] = "refuse"
  /\ MayRecord(r, "deny")
  /\ Answer(r, "denied")
  /\ UNCHANGED <<call, ran, lockVars, policyVars, switchVars>>

\* Mutants: the deadline does not cover the transport; the slot is not given
\* back at the deadline.
TimeoutBeforeDispatch(r) ==
  /\ pc[r] \in Working \ {"reply"}
  /\ Answer(r, "cut")
  /\ UNCHANGED <<call, logVars, lockVars, policyVars, switchVars>>
TimeoutKeepingSlot(r) ==
  /\ pc[r] \in Working
  /\ Goto(r, "cut")
  /\ UNCHANGED <<call, logVars, lockVars, policyVars, switchVars, inFlight>>

\* The deadline cancels the coroutine wherever it is: no record, a 503.
Timeout(r) ==
  /\ pc[r] \in Working
  /\ Answer(r, "cut")
  /\ UNCHANGED <<call, logVars, lockVars, policyVars, switchVars>>

\* A worker dies with everything it had admitted; Redis keeps its state.
Crash(w) ==
  /\ AdmittedAt(w) # {}
  /\ pc' = [r \in Request |-> IF r \in AdmittedAt(w) THEN "cut" ELSE pc[r]]
  /\ inFlight' = [inFlight EXCEPT ![w] = 0]
  /\ UNCHANGED <<call, logVars, lockVars, policyVars, switchVars>>

---------------------------------------------------------------------------
(* The switches and the windows. *)

environment == <<pc, call, logVars, lockVars, inFlight>>

RequestsBy(a)  == {r \in Request : call[r] # None /\ What(r).agent = a}
RequestsFor(s) == {r \in Request : call[r] # None /\ What(r).alias = s}

\* A switch that goes off no longer bars the requests it barred.
Unbar(switch, those) ==
  barred' = [r \in Request |->
               IF r \in those THEN barred[r] \ {switch} ELSE barred[r]]

Revoke(a) ==
  /\ a \in Revocable \ revoked
  /\ revoked' = revoked \cup {a}
  /\ UNCHANGED <<environment, policyVars, quarantined, disabled, barred>>

Reactivate(a) ==
  /\ a \in revoked
  /\ revoked' = revoked \ {a}
  /\ Unbar("revoked", RequestsBy(a))
  /\ UNCHANGED <<environment, policyVars, quarantined, disabled>>

\* The response playbook freezes an agent.
Freeze(a) ==
  /\ a \in Revocable \ quarantined
  /\ quarantined' = quarantined \cup {a}
  /\ UNCHANGED <<environment, policyVars, revoked, disabled, barred>>

QuarantineLapses(a) ==
  /\ a \in quarantined
  /\ quarantined' = quarantined \ {a}
  /\ Unbar("quarantined", RequestsBy(a))
  /\ UNCHANGED <<environment, policyVars, revoked, disabled>>

Disable(s) ==
  /\ s \in Disableable \ disabled
  /\ disabled' = disabled \cup {s}
  /\ UNCHANGED <<environment, policyVars, revoked, quarantined, barred>>

Enable(s) ==
  /\ s \in disabled
  /\ disabled' = disabled \ {s}
  /\ Unbar("disabled", RequestsFor(s))
  /\ UNCHANGED <<environment, policyVars, revoked, quarantined>>

\* The velocity counter expires.
WindowEnds ==
  /\ velocity > 0
  /\ velocity' = 0 /\ window' = {}
  /\ UNCHANGED <<environment, passed, switchVars>>

---------------------------------------------------------------------------
Step(r) ==
  \/ Arrive(r) \/ Shed(r)
  \/ CheckQuarantine(r) \/ CheckRevocation(r) \/ TripCanary(r)
  \/ CheckSkill(r) \/ Refuse(r) \/ EvaluatePolicy(r)
  \/ Register(r) \/ Deliver(r) \/ RecordStaged(r)
  \/ Consume(r) \/ RecordAllow(r) \/ Dispatch(r) \/ Reply(r)
  \/ ReadBack(r) \/ RecordDeny(r) \/ Timeout(r)

Next ==
  \/ \E r \in Request : Step(r) \/ LastInstant(r) \/ LockExpires(r)
  \/ \E w \in Worker : Crash(w)
  \/ \E a \in Agent : Revoke(a) \/ Reactivate(a) \/ Freeze(a) \/ QuarantineLapses(a)
  \/ \E s \in Alias : Disable(s) \/ Enable(s)
  \/ WindowEnds

Spec == Init /\ [][Next]_vars

\* The deadline of every admitted request comes; Redis keeps every TTL.
FairSpec ==
  /\ Spec
  /\ \A r \in Request : WF_vars(Timeout(r)) /\ WF_vars(LockExpires(r))

---------------------------------------------------------------------------
(* Properties. *)

\* The types of everything above.
TypeOK ==
  /\ pc \in [Request -> {"new"} \cup Working \cup Ended]
  /\ call \in [Request -> Call \cup {None}]
  /\ record \in [Request -> SUBSET Decision]
  /\ ran \in SUBSET Request
  /\ life \in [Request -> {"none", "live", "last", "forever"}]
  /\ code \in [Request -> Code \cup {None}]
  /\ tries \in [Request -> Nat]
  /\ claim \in [Request -> Request \cup {None}]
  /\ noticed \in SUBSET Request /\ lapsed \in SUBSET Request
  /\ velocity \in Nat
  /\ window \in SUBSET Request /\ passed \in SUBSET Request
  /\ revoked \in SUBSET Agent /\ quarantined \in SUBSET Agent
  /\ disabled \in SUBSET Alias
  /\ barred \in [Request -> SUBSET Switch]
  /\ inFlight \in [Worker -> Int]

\* An action is executed only when its ALLOW record is in the log, whatever
\* failed or was lost on the way (step 7 comes before step 8).
RecordBeforeExecute == \A r \in ran : "allow" \in record[r]

\* What was executed was approved as it is: a risky action was staged with
\* the same agent, alias and argument, that staging passed the policy, a
\* human was told its code, and the completion was not counted again; any
\* other action passed the policy itself, a dummy pin notwithstanding.
ExecutedAsApproved ==
  \A r \in ran :
    IF IsPin(r)
    THEN /\ claim[r] \in passed \cap noticed
         /\ What(claim[r]) = What(r)
         /\ r \notin passed
    ELSE claim[r] = None /\ r \in passed

\* A code is spent once: no two requests get through on the same lock, however
\* completions race, replies are lost or clients retry.
OneActionPerCode ==
  \A r, s \in Request : claim[r] # None /\ claim[r] = claim[s] => r = s

\* A lock is gone only because its code was spent, its TTL ran out or its
\* attempts are used up.
LockGoneForCause ==
  \A c \in Request :
    code[c] # None /\ ~Held(c) =>
      \/ c \in lapsed
      \/ tries[c] >= MaxAttempts
      \/ \E r \in Request : claim[r] = c

\* No more than MaxAttempts wrong codes are ever compared with a lock, by all
\* requests together, and a lock that took that many is gone.
AttemptsBounded ==
  \A c \in Request :
    /\ tries[c] <= MaxAttempts
    /\ Held(c) => tries[c] < MaxAttempts

\* The consume script keeps account of every lock: a tampered payload, another
\* agent or a failed request elsewhere never costs the approver the lock, and
\* nobody gets another guess by spreading the guesses over requests.
AttemptsAccounted == LockGoneForCause /\ AttemptsBounded

\* While a switch that was on when a request arrived stays on, that request
\* stages nothing, spends no code and executes nothing, though it completes a
\* step-up that was staged before.
KillSwitchHolds ==
  \A r \in Request :
    barred[r] # {} => /\ r \notin ran
                      /\ claim[r] = None
                      /\ code[r] = None

\* A 200 means executed and on record as allowed only, a 202 means a staging on
\* record whose code went out, a shed request left no trace.
AnswersAreTrue ==
  \A r \in Request :
    /\ pc[r] = "committed" => r \in ran /\ record[r] = {"allow"}
    /\ pc[r] = "staged" => r \in noticed \ ran /\ record[r] = {"staged"}
    /\ pc[r] = "shed" => call[r] = None /\ record[r] = {} /\ r \notin ran

\* The rule lets at most max_actions requests pass in a window, however their
\* increments interleave.
WithinVelocity == Cardinality(window) <= VelocityMax

\* The admission counter is the number of requests inside, and never over the
\* bound: no deadline, denial or crash leaks a slot.
AdmissionExact ==
  \A w \in Worker :
    /\ inFlight[w] = Cardinality(AdmittedAt(w))
    /\ inFlight[w] <= MaxInFlight

\* The pipeline implements ApprovedExecution.
Execution == INSTANCE ApprovedExecution WITH
  Risky    <- {a \in Action : a.alias \in PinAlias},
  asked    <- [r \in Request |-> IF call[r] = None THEN None ELSE What(r)],
  approval <- [r \in Request |-> IF code[r] = None THEN "none"
                                 ELSE IF Held(r) THEN "live" ELSE "gone"],
  spent    <- claim,
  logged   <- {r \in Request : "allow" \in record[r]}

ExecutionSpec == Execution!Spec

\* Every admitted request ends, also when its transport hangs.
Answered == \A r \in Request : pc[r] \in Working ~> pc[r] \in Ended

\* Every lock is gone in the end, whatever wrong codes were tried on it.
LocksDrain == \A c \in Request : Held(c) ~> ~Held(c)

\* Nothing stays behind (the deadline of EdgeGateMiddleware, the TTL of a
\* payload lock): neither a request with its slot nor a lock.
Settles == Answered /\ LocksDrain

---------------------------------------------------------------------------
(* Statements of the repository that the code does not keep. *)

\* "A denied call ... the tool never runs" (docs/evidence/LOAD_AT_SCALE.md).
DeniedNeverRan == \A r \in Request : pc[r] = "denied" => r \notin ran

\* The payload lock is kept for PIN_TTL_SECONDS (docs/operate/COMPLIANCE.md).
LockHasTTL == \A c \in Request : life[c] # "forever"
=============================================================================
