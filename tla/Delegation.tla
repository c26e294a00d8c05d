----------------------------- MODULE Delegation -----------------------------
(***************************************************************************)
(* Session delegation: services/delegation.py with the /v1/delegate        *)
(* handlers and _apply_delegation of app/main.py.                          *)
(*                                                                         *)
(* A session hands a child session a grant that holds less than itself.    *)
(* The identity provider mints the child's token; the gateway intersects   *)
(* that token with the live grant it names, after probing a revocation key *)
(* of every session of the chain and the kill switches of every principal  *)
(* of it.  Every handler is a task whose awaits are separate actions:      *)
(* grants expire, sessions and principals are cut off, and other handlers  *)
(* run between any two of them.                                            *)
(*                                                                         *)
(* Each session has one set of token claims (TokenCaps, TokenComp,         *)
(* TokenExp, AgentOf): what the identity provider signed is an input.      *)
(***************************************************************************)
EXTENDS Integers, Sequences, FiniteSets

CONSTANTS
  Tasks,        \* requests in flight
  Sessions, Agents, Caps, Compartments,
  Switches,     \* kill switches of a principal: revoked, quarantined
  None,         \* an absent claim
  AgentOf, TokenCaps, TokenComp, TokenExp,  \* claims of a session's token
  Tokens,       \* signed tokens: <<session, delegation_id or 0>>
  Leeway,       \* clock skew the token check tolerates (JWT_CLOCK_SKEW_LEEWAY_SECONDS)
  Bodies,       \* delegation requests: [child, agent, caps, comp, ttl]
  MaxDepth,     \* MAX_DEPTH (4)
  MaxGrants,    \* bound: delegation ids drawn
  MaxCuts,      \* bound: kill switches on at a time
  MaxClock      \* bound: seconds

Mark    == Agents \X Switches
Body    == [child : Sessions, agent : Agents, caps : SUBSET Caps,
            comp : Compartments \cup {None}, ttl : Int]
GrantId == 1 .. MaxGrants
Grant   == [parent : Sessions, child : Sessions, agent : Agents,
            caps : SUBSET Caps, comp : Compartments \cup {None}, exp : Int,
            depth : Nat, anc : Seq(Sessions), ancAgents : Seq(Agents)]

ASSUME ClaimAssumption ==
  /\ None \notin Compartments
  /\ AgentOf \in [Sessions -> Agents]
  /\ TokenCaps \in [Sessions -> SUBSET Caps]
  /\ TokenComp \in [Sessions -> Compartments \cup {None}]
  /\ TokenExp \in [Sessions -> Int]
  /\ Leeway \in Nat

ASSUME RequestAssumption ==
  /\ Bodies \subseteq Body
  /\ Tokens \subseteq Sessions \X ({0} \cup GrantId)
  /\ MaxDepth \in Nat /\ MaxGrants \in Nat /\ MaxCuts \in Nat /\ MaxClock \in Nat

VARIABLES
  clock,     \* time.time() in seconds
  drawn,     \* delegation ids drawn so far (uuid4)
  sealed,    \* ids with a delegation_granted record in the audit log
  grants,    \* mcpip:delegation:grant:{id}, kept here after its TTL
  goneAt,    \* when the TTL of that key runs out
  cutoff,    \* mcpip:delegation:revoked:{session}, no TTL
  marks,     \* principals under a kill switch
  task       \* the handlers

vars == <<clock, drawn, sealed, grants, goneAt, cutoff, marks, task>>
grantVars == <<drawn, sealed, grants, goneAt>>

NoGrant == [parent |-> None]
Kinds == {"use", "delegate", "revoke"}
Idle == [pc |-> "idle"]

\* sessionsCut and marksCut are history: what was cut off when the request
\* began and has not been lifted since.
Task == [pc : {"own", "chain", "ancestors", "seal", "persist", "cut"} \cup Kinds,
         kind : Kinds, sess : Sessions, gid : {0} \cup GrantId,
         todo : SUBSET Mark, read : Grant \cup {NoGrant},
         caps : SUBSET Caps, comp : Compartments \cup {None},
         new : Grant \cup {NoGrant}, newId : {0} \cup GrantId,
         target : Sessions \cup {None},
         sessionsCut : SUBSET Sessions, marksCut : SUBSET Mark]

\* Every variable has its type.
TypeOK ==
  /\ clock \in Nat /\ drawn \in {0} \cup GrantId /\ sealed \subseteq GrantId
  /\ grants \in [GrantId -> Grant \cup {NoGrant}]
  /\ goneAt \in [GrantId -> Int]
  /\ cutoff \subseteq Sessions /\ marks \subseteq Mark
  /\ task \in [Tasks -> Task \cup {Idle}]

Init ==
  /\ clock = 0 /\ drawn = 0 /\ sealed = {}
  /\ grants = [g \in GrantId |-> NoGrant]
  /\ goneAt = [g \in GrantId |-> 0]
  /\ cutoff = {} /\ marks = {}
  /\ task = [t \in Tasks |-> Idle]

---------------------------------------------------------------------------
\* What DelegationStore.fetch finds.
Live(g) == grants[g] # NoGrant /\ clock < goneAt[g]

Elems(s) == {s[i] : i \in 1 .. Len(s)}
Chain(r) == Elems(r.anc) \cup {r.child}
ProbesOf(agents) == agents \X Switches

Least(a, b) == IF a <= b THEN a ELSE b

\* A verified token starts a request; its own kill switches come first.
Begin(t) ==
  /\ task[t] = Idle
  /\ \E k \in Kinds, token \in Tokens :
       /\ token[2] <= drawn
       /\ clock < TokenExp[token[1]] + Leeway
       /\ task' = [task EXCEPT ![t] =
            [pc |-> "own", kind |-> k, sess |-> token[1], gid |-> token[2],
             todo |-> ProbesOf({AgentOf[token[1]]}), read |-> NoGrant,
             caps |-> {}, comp |-> None, new |-> NoGrant, newId |-> 0,
             target |-> None,
             sessionsCut |-> cutoff, marksCut |-> marks]]
  /\ UNCHANGED <<clock, grantVars, cutoff, marks>>

\* One is_revoked or is_quarantined; a mark denies (Fail).
Probe(t) ==
  /\ task[t].pc \in {"own", "ancestors"}
  /\ \E p \in task[t].todo :
       /\ p \notin marks
       /\ task' = [task EXCEPT ![t].todo = @ \ {p}]
  /\ UNCHANGED <<clock, grantVars, cutoff, marks>>

\* A token without a delegation_id passes untouched.
PassUndelegated(t) ==
  /\ task[t].pc = "own" /\ task[t].todo = {} /\ task[t].gid = 0
  /\ task' = [task EXCEPT ![t].pc = task[t].kind,
                          ![t].caps = TokenCaps[task[t].sess],
                          ![t].comp = TokenComp[task[t].sess]]
  /\ UNCHANGED <<clock, grantVars, cutoff, marks>>

\* The grant must be live, be for this session and agent, and not be over.
FetchGrant(t) ==
  /\ task[t].pc = "own" /\ task[t].todo = {} /\ task[t].gid # 0
  /\ LET r == grants[task[t].gid]
     IN /\ Live(task[t].gid)
        /\ r.child = task[t].sess
        /\ r.agent = AgentOf[task[t].sess]
        /\ r.exp > clock
        /\ task' = [task EXCEPT ![t].pc = "chain", ![t].read = r]
  /\ UNCHANGED <<clock, grantVars, cutoff, marks>>

\* Mutant: the principals above the child are not asked.
ProbeChainOnly(t) ==
  /\ task[t].pc = "chain"
  /\ Chain(task[t].read) \cap cutoff = {}
  /\ task' = [task EXCEPT ![t].pc = "ancestors"]
  /\ UNCHANGED <<clock, grantVars, cutoff, marks>>

\* Mutant: only the child's own revocation key is probed.
ProbeChild(t) ==
  /\ task[t].pc = "chain"
  /\ task[t].read.child \notin cutoff
  /\ task' = [task EXCEPT ![t].pc = "ancestors",
                          ![t].todo = ProbesOf(Elems(task[t].read.ancAgents))]
  /\ UNCHANGED <<clock, grantVars, cutoff, marks>>

\* is_chain_revoked: the child and every ancestor session, in one pipeline.
ProbeChain(t) ==
  /\ task[t].pc = "chain"
  /\ Chain(task[t].read) \cap cutoff = {}
  /\ task' = [task EXCEPT ![t].pc = "ancestors",
                          ![t].todo = ProbesOf(Elems(task[t].read.ancAgents))]
  /\ UNCHANGED <<clock, grantVars, cutoff, marks>>

\* Token and grant are intersected; compartments must agree.
Narrow(t) ==
  /\ task[t].pc = "ancestors" /\ task[t].todo = {}
  /\ LET s == task[t].sess
         r == task[t].read
     IN task' = [task EXCEPT ![t].pc = task[t].kind,
                             ![t].caps = TokenCaps[s] \cap r.caps,
                             ![t].comp = IF r.comp = TokenComp[s] THEN r.comp ELSE None]
  /\ UNCHANGED <<clock, grantVars, cutoff, marks>>

\* The narrowed request is acted on.
Use(t) ==
  /\ task[t].pc = "use"
  /\ task' = [task EXCEPT ![t] = Idle]
  /\ UNCHANGED <<clock, grantVars, cutoff, marks>>

---------------------------------------------------------------------------
(* POST /v1/delegate *)

\* Mutant: the parent grant's expiry does not bound the child's.
ExpiryOwn(t, b, parent) == Least(clock + b.ttl, TokenExp[task[t].sess])

Expiry(t, b, parent) ==
  LET own == Least(clock + b.ttl, TokenExp[task[t].sess])
  IN IF parent = NoGrant THEN own ELSE Least(own, parent.exp)

Depth(parent) == IF parent = NoGrant THEN 1 ELSE parent.depth + 1

\* Mutant: capabilities are compared with the token, not the narrowed set.
AttenuatesToken(t, b, parent) ==
  /\ b.caps \subseteq TokenCaps[task[t].sess]
  /\ b.comp # None => b.comp = task[t].comp
  /\ Depth(parent) <= MaxDepth
  /\ b.child # task[t].sess
  /\ b.ttl > 0
  /\ Expiry(t, b, parent) > clock

Attenuates(t, b, parent) ==
  /\ b.caps \subseteq task[t].caps
  /\ b.comp # None => b.comp = task[t].comp
  /\ Depth(parent) <= MaxDepth
  /\ b.child # task[t].sess
  /\ b.ttl > 0
  /\ Expiry(t, b, parent) > clock

\* The grant prepare returns.
Prepared(t, b, parent) ==
  LET root == parent = NoGrant
      s == task[t].sess
  IN [parent |-> s, child |-> b.child, agent |-> b.agent,
      caps |-> b.caps, comp |-> b.comp, exp |-> Expiry(t, b, parent),
      depth |-> Depth(parent),
      anc |-> Append(IF root THEN << >> ELSE parent.anc, s),
      ancAgents |-> Append(IF root THEN << >> ELSE parent.ancAgents, AgentOf[s])]

\* The parent grant is read again, the rules are checked, an id is drawn.
Prepare(t) ==
  /\ task[t].pc = "delegate"
  /\ task[t].gid # 0 => Live(task[t].gid)
  /\ drawn < MaxGrants
  /\ LET parent == IF task[t].gid = 0 THEN NoGrant ELSE grants[task[t].gid]
     IN \E b \in Bodies :
          /\ Attenuates(t, b, parent)
          /\ task' = [task EXCEPT ![t].pc = "seal",
                                  ![t].new = Prepared(t, b, parent),
                                  ![t].newId = drawn + 1]
  /\ drawn' = drawn + 1
  /\ UNCHANGED <<clock, sealed, grants, goneAt, cutoff, marks>>

\* delegation_granted is emitted; without it there is no grant (Fail).
Seal(t) ==
  /\ task[t].pc = "seal"
  /\ sealed' = sealed \cup {task[t].newId}
  /\ task' = [task EXCEPT ![t].pc = "persist"]
  /\ UNCHANGED <<clock, drawn, grants, goneAt, cutoff, marks>>

\* SET with EX = max(1, expires_at - now); the reply may be lost.
Persist(t) ==
  /\ task[t].pc = "persist"
  /\ LET g == task[t].newId
         left == task[t].new.exp - clock
     IN /\ grants' = [grants EXCEPT ![g] = task[t].new]
        /\ goneAt' = [goneAt EXCEPT ![g] = clock + (IF left >= 1 THEN left ELSE 1)]
  /\ task' = [task EXCEPT ![t] = Idle]
  /\ UNCHANGED <<clock, drawn, sealed, cutoff, marks>>

---------------------------------------------------------------------------
(* POST /v1/delegate/revoke and the two kill switches *)

\* Mutant: a target that no grant places below the caller is not refused.
ScanUnchecked(t) ==
  /\ task[t].pc = "revoke"
  /\ \E g \in GrantId :
       task' = [task EXCEPT ![t].pc = "cut",
                            ![t].target = IF Live(g) THEN grants[g].child ELSE None]
  /\ UNCHANGED <<clock, grantVars, cutoff, marks>>

\* list_grants: the target must be below the caller in some live grant.
Scan(t) ==
  /\ task[t].pc = "revoke"
  /\ \E g \in GrantId :
       /\ Live(g)
       /\ task[t].sess \in Elems(grants[g].anc)
       /\ task' = [task EXCEPT ![t].pc = "cut", ![t].target = grants[g].child]
  /\ UNCHANGED <<clock, grantVars, cutoff, marks>>

Cut(t) ==
  /\ task[t].pc = "cut"
  /\ cutoff' = cutoff \cup {task[t].target}
  /\ task' = [task EXCEPT ![t] = Idle]
  /\ UNCHANGED <<clock, grantVars, marks>>

\* A kill switch can be thrown within the bound.
Room == Cardinality(cutoff) + Cardinality(marks) < MaxCuts

AdminCut(s) ==
  /\ Room /\ s \notin cutoff
  /\ cutoff' = cutoff \cup {s}
  /\ UNCHANGED <<clock, grantVars, marks, task>>

\* RevocationStore.revoke, QuarantineStore.quarantine.
Throw(m) ==
  /\ Room /\ m \notin marks
  /\ marks' = marks \cup {m}
  /\ UNCHANGED <<clock, grantVars, cutoff, task>>

\* An operator reactivates or releases, or the quarantine lapses.
Lift(m) ==
  /\ m \in marks
  /\ marks' = marks \ {m}
  /\ task' = [t \in Tasks |-> IF task[t] = Idle THEN Idle
                              ELSE [task[t] EXCEPT !.marksCut = @ \ {m}]]
  /\ UNCHANGED <<clock, grantVars, cutoff>>

\* A refusal, a failed call, or the end of the process: no effect is left.
Fail(t) ==
  /\ task[t] # Idle
  /\ task' = [task EXCEPT ![t] = Idle]
  /\ UNCHANGED <<clock, grantVars, cutoff, marks>>

Tick ==
  /\ clock < MaxClock
  /\ clock' = clock + 1
  /\ UNCHANGED <<grantVars, cutoff, marks, task>>

Step(t) ==
  \/ Begin(t) \/ Probe(t) \/ PassUndelegated(t) \/ FetchGrant(t)
  \/ ProbeChain(t) \/ Narrow(t) \/ Use(t)
  \/ Prepare(t) \/ Seal(t) \/ Persist(t) \/ Scan(t) \/ Cut(t) \/ Fail(t)

Next ==
  \/ \E t \in Tasks : Step(t)
  \/ \E s \in Sessions : AdminCut(s)
  \/ \E m \in Mark : Throw(m) \/ Lift(m)
  \/ Tick

Spec == Init /\ [][Next]_vars

---------------------------------------------------------------------------
(* Properties *)

\* The request runs with its effective authority.
Admitted(t) == task[t].pc \in Kinds \cup {"seal", "persist", "cut"}
Delegated(t) == task[t] # Idle /\ task[t].gid # 0

\* One thrown key kills the whole subtree (is_chain_revoked): a delegated
\* request admitted now had, when it began, no revoked session in its chain,
\* whichever grants were being issued while the key was thrown.
SubtreeSevered ==
  \A t \in Tasks : Admitted(t) /\ Delegated(t) =>
     Chain(task[t].read) \cap task[t].sessionsCut = {}

\* The kill switches cascade (_apply_delegation): no principal of the chain,
\* and not the caller, has been under one ever since the request began.
PrincipalsSevered ==
  \A t \in Tasks : Admitted(t) =>
     LET above == IF Delegated(t) THEN Elems(task[t].read.ancAgents) ELSE {}
     IN (above \cup {AgentOf[task[t].sess]}) \X Switches \cap task[t].marksCut = {}

\* A cut severs all that hangs on it, by session or by principal.
ChainSevered == SubtreeSevered /\ PrincipalsSevered

\* Authority only shrinks down a chain (prepare, _apply_delegation): what a
\* delegated request holds, every session above it held by its own token.
AuthorityShrinks ==
  \A t \in Tasks : Admitted(t) /\ Delegated(t) =>
     \A s \in Chain(task[t].read) :
        /\ task[t].caps \subseteq TokenCaps[s]
        /\ task[t].comp # None => task[t].comp = TokenComp[s]

\* So does lifetime: a request that passes the expiry check of its grant
\* (_apply_delegation) does so before the token of any session above it runs
\* out, though those tokens are not looked at again.
LifetimeShrinks ==
  [][\A t \in Tasks : task[t].pc = "own" /\ task'[t].pc = "chain" =>
       \A s \in Elems(task'[t].read.anc) : clock < TokenExp[s]]_vars

\* The hot path probes a bounded chain, and the two ancestor lists it probes
\* stay aligned: the i-th principal is the one of the i-th session.
ChainAligned ==
  \A g \in GrantId : grants[g] # NoGrant =>
     LET r == grants[g]
     IN /\ Len(r.anc) = r.depth /\ r.depth <= MaxDepth
        /\ r.ancAgents = [i \in 1 .. r.depth |-> AgentOf[r.anc[i]]]
        /\ r.anc[r.depth] = r.parent

\* Write before execute: authority in use comes from a grant in the audit log.
GrantsSealed ==
  /\ \A g \in GrantId : grants[g] # NoGrant => g \in sealed
  /\ \A t \in Tasks : Admitted(t) /\ Delegated(t) => task[t].gid \in sealed
=============================================================================
