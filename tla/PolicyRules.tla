------------------------------ MODULE PolicyRules ------------------------------
(***************************************************************************)
(* The deny-only policy overlay: VelocityAmountPolicyEngine and            *)
(* PolicyDocStore of services/policy_engine.py, for one tenant.            *)
(*                                                                         *)
(* A document is a list of rules, each for one scope (an alias or a        *)
(* transport class).  An evaluation loads the document, applies the rules  *)
(* that look at the arguments, and then increments one Redis counter after *)
(* the other; administrators replace the document and windows end between  *)
(* any two of these round trips, and each of them may fail.                *)
(*                                                                         *)
(* A counter belongs to a scope, not to a rule: rules for the same scope   *)
(* count on the same key, and the window is that of the rule that counted  *)
(* first, so a window may end at any time here.                            *)
(***************************************************************************)
EXTENDS Naturals, FiniteSets

CONSTANTS
  Calls,       \* evaluations: automatic calls and stagings
  Kinds,       \* [scopes, argument] of a call: its alias and transport class
  RuleLists,   \* documents that pass validate
  NoDocument,
  Damaged,     \* a stored document that does not parse: edited by hand
  MaxEdits,    \* bound: documents put or deleted
  MaxOutages   \* bound: failed round trips

VARIABLES
  document,    \* mcpip:policy:doc:*
  counter,     \* mcpip:policy:vel:*: [scope -> count], 0 for no key
  eval,        \* the evaluations
  counted,     \* [scope -> what was counted on the key since it is there] (history)
  edits, outages

policyVars == <<document, counter, eval, counted, edits, outages>>

ASSUME PolicyAssumption ==
  /\ {NoDocument, Damaged} \cap RuleLists = {} /\ NoDocument # Damaged
  /\ {MaxEdits, MaxOutages} \subseteq Nat
  /\ \A d \in RuleLists : \A i \in DOMAIN d :
       /\ d[i].kind \in {"argument", "velocity"}
       /\ d[i].kind = "velocity" => d[i].max \in Nat
  /\ IsFiniteSet(Calls)

Counters == UNION {k.scopes : k \in Kinds}

Velocity == {r \in UNION {{d[i] : i \in DOMAIN d} : d \in RuleLists} : r.kind = "velocity"}

New == [at |-> "new"]
Started(c) == eval[c] # New

\* What a document asks of a call.  An amount or argument rule is the set of
\* arguments it refuses.
Matches(rule, k) == rule.scope \in k.scopes
Refuses(rule, k) == rule.kind = "argument" /\ Matches(rule, k) /\ k.argument \in rule.refuses
RefusedBy(d, k)  == \E i \in DOMAIN d : Refuses(d[i], k)
\* The places in the document of the velocity rules that count a call.
Velocities(d, k) == {i \in DOMAIN d : d[i].kind = "velocity" /\ Matches(d[i], k)}

\* Every variable has its type.
PolicyTypeOK ==
  /\ document \in RuleLists \cup {NoDocument, Damaged}
  /\ counter \in [Counters -> Nat]
  /\ counted \in [Counters -> SUBSET (Calls \X Velocity)]
  /\ \A c \in Calls : Started(c) =>
       /\ eval[c].at \in {"load", "count", "passed", "denied"}
       /\ eval[c].kind \in Kinds
       /\ eval[c].doc \in RuleLists \cup {NoDocument, Damaged}
       /\ eval[c].at = "count" => eval[c].left \subseteq Velocities(eval[c].doc, eval[c].kind)
  /\ edits \in 0 .. MaxEdits /\ outages \in 0 .. MaxOutages

PolicyInit ==
  /\ document = NoDocument
  /\ counter = [s \in Counters |-> 0] /\ counted = [s \in Counters |-> {}]
  /\ eval = [c \in Calls |-> New]
  /\ edits = 0 /\ outages = 0

Reachable == UNCHANGED outages
Outage    == outages < MaxOutages /\ outages' = outages + 1

BeginEvaluation(c) ==
  /\ ~Started(c)
  /\ \E k \in Kinds :
       eval' = [eval EXCEPT ![c] = [at |-> "load", kind |-> k, doc |-> NoDocument, left |-> {}]]
  /\ UNCHANGED <<document, counter, counted, edits, outages>>

Decision(c, d, at, left) ==
  eval' = [eval EXCEPT ![c].at = at, ![c].doc = d, ![c].left = left]

\* Mutant: velocity is counted before the arguments are looked at.
LoadDocumentCounting(c) ==
  /\ Started(c) /\ eval[c].at = "load" /\ Reachable
  /\ LET left == IF document \in {NoDocument, Damaged} THEN {}
                 ELSE Velocities(document, eval[c].kind) IN
       Decision(c, document, IF left = {} THEN "passed" ELSE "count", left)
  /\ UNCHANGED <<document, counter, counted, edits>>

\* load, and the rules that change nothing; no document means no limits, one
\* that cannot be read or parsed refuses.
LoadDocument(c) ==
  /\ Started(c) /\ eval[c].at = "load"
  /\ LET k == eval[c].kind IN
       \/ /\ Reachable
          /\ IF document = NoDocument THEN Decision(c, document, "passed", {})
             ELSE IF document = Damaged \/ RefusedBy(document, k)
             THEN Decision(c, document, "denied", {})
             ELSE LET left == Velocities(document, k) IN
                  Decision(c, document, IF left = {} THEN "passed" ELSE "count", left)
       \/ Outage /\ Decision(c, NoDocument, "denied", {})
  /\ UNCHANGED <<document, counter, counted, edits>>

\* Mutant: off by one at the cap.
OverLate(n, rule) == n > rule.max + 1

Over(n, rule) == n > rule.max

\* _check_velocity, of one rule: INCR, and the TTL with the first.
CountRule(c, rule, left) ==
  LET s == rule.scope
      Incremented == /\ counter' = [counter EXCEPT ![s] = @ + 1]
                     /\ counted' = [counted EXCEPT ![s] = @ \cup {<<c, rule>>}]
  IN \/ /\ Reachable /\ Incremented
        /\ IF Over(counter[s] + 1, rule) THEN Decision(c, eval[c].doc, "denied", {})
           ELSE Decision(c, eval[c].doc, IF left = {} THEN "passed" ELSE "count", left)
     \/ /\ Outage /\ Decision(c, eval[c].doc, "denied", {})
        /\ Incremented \/ UNCHANGED <<counter, counted>>

\* The rules count in the order of the document.
CountVelocity(c) ==
  /\ Started(c) /\ eval[c].at = "count"
  /\ \E i \in eval[c].left :
       /\ \A j \in eval[c].left : i <= j
       /\ CountRule(c, eval[c].doc[i], eval[c].left \ {i})
  /\ UNCHANGED <<document, edits>>

\* The TTL of a counter.
VelocityWindowEnds(s) ==
  /\ counter[s] > 0
  /\ counter' = [counter EXCEPT ![s] = 0] /\ counted' = [counted EXCEPT ![s] = {}]
  /\ UNCHANGED <<document, eval, edits, outages>>

\* put, delete, and a hand in Redis.
EditDocument ==
  /\ edits < MaxEdits /\ edits' = edits + 1
  /\ document' \in (RuleLists \cup {NoDocument, Damaged}) \ {document}
  /\ UNCHANGED <<counter, eval, counted, outages>>

PolicyNext ==
  \/ EditDocument
  \/ \E s \in Counters : VelocityWindowEnds(s)
  \/ \E c \in Calls : BeginEvaluation(c) \/ LoadDocument(c) \/ CountVelocity(c)

PolicySpec == PolicyInit /\ [][PolicyNext]_policyVars

---------------------------------------------------------------------------
Passed(c) == Started(c) /\ eval[c].at = "passed"

\* Between the creation of a counter and its end, no more calls pass a velocity
\* rule than its max_actions, however evaluations, replaced documents and
\* other rules for the same scope interleave.
CapsBite ==
  \A s \in Counters, rule \in Velocity :
    Cardinality({c \in Calls : <<c, rule>> \in counted[s] /\ Passed(c)}) <= rule.max

\* Nothing passes that its document refuses or on a document that cannot be
\* parsed; and what the arguments refuse has used up no velocity.
DenyOnly ==
  \A c \in Calls : Started(c) =>
    /\ Passed(c) => eval[c].doc # Damaged
    /\ eval[c].doc \in RuleLists /\ RefusedBy(eval[c].doc, eval[c].kind) =>
         ~Passed(c) /\ \A s \in Counters, rule \in Velocity : <<c, rule>> \notin counted[s]

RulesHold == CapsBite /\ DenyOnly
=============================================================================
