----------------------------- MODULE ControlPlane -----------------------------
(***************************************************************************)
(* The control desk of a tenant: the administrators' endpoints of          *)
(* app/main.py behind _require_directory_admin and the investigators'      *)
(* behind _require_forensic_read, over services/revocation.py,             *)
(* services/skill_gate.py, the document stores of services/                *)
(* policy_engine.py and services/directory_store.py, and the captures of   *)
(* services/forensic_store.py.                                             *)
(*                                                                         *)
(* Whoever works here is himself a principal that can be revoked or        *)
(* quarantined.  A request reads the two switches of its principal, then   *)
(* records and writes (or writes and records); each round trip is an       *)
(* action, and one that fails may have had its effect.                     *)
(***************************************************************************)
EXTENDS Naturals, FiniteSets

CONSTANTS
  Orders,     \* requests in flight
  Officers,   \* the principals of the tenant that hold the capabilities
  Tools,      \* aliases
  Papers,     \* "policy" and "directory"
  Contents,   \* valid documents
  NoPaper,
  Queries,    \* correlation ids
  MaxOrders,  \* bound: requests
  MaxHiccups  \* bound: failed round trips and captures moved by hand

ASSUME DeskAssumption ==
  NoPaper \notin Contents /\ {MaxOrders, MaxHiccups} \subseteq Nat

VARIABLES
  revoked, quarantined, disabled,   \* Redis: the switches
  papers,                           \* Redis: the documents
  captures,                         \* Redis: what is sealed under each correlation id
  due,                              \* captures still to be written by their task
  audit,                            \* the audit log
  order,
  under,       \* [order -> switches its principal has been under since it came] (history)
  disclosed,   \* what investigators were shown
  orders, hiccups

deskStores == <<revoked, quarantined, disabled, papers>>
deskVars ==
  <<deskStores, captures, due, audit, order, under, disclosed, orders, hiccups>>

Empty == "empty"
Waiting == [at |-> "waiting"]
Asks ==
  [op : {"revoke", "reactivate"}, by : Officers, on : Officers]
  \cup [op : {"disable", "enable"}, by : Officers, on : Tools]
  \cup [op : {"put"}, by : Officers, on : Papers \X Contents]
  \cup [op : {"delete"}, by : Officers, on : {"policy"}]
  \cup [op : {"read"}, by : Officers, on : Queries]

\* What the log keeps of an order: hit says whether a key was there.
Notes == {[op |-> a.op, by |-> a.by, on |-> a.on, hit |-> h] : a \in Asks, h \in BOOLEAN}
         \cup [op : {"decision"}, on : Queries]

\* Every variable has its type.
DeskTypeOK ==
  /\ revoked \subseteq Officers /\ quarantined \subseteq Officers /\ disabled \subseteq Tools
  /\ papers \in [Papers -> Contents \cup {NoPaper}]
  /\ captures \in [Queries -> Queries \cup {Empty}] /\ due \subseteq Queries
  /\ audit \subseteq Notes
  /\ \A o \in Orders : order[o] = Waiting \/
       /\ order[o].at \in {"revocation", "quarantine", "retrieve", "record", "write"}
       /\ order[o].ask \in Asks
  /\ under \in [Orders -> SUBSET {"revoked", "quarantined"}]
  /\ disclosed \subseteq [by : Officers, query : Queries, shown : Queries]
  /\ orders \in 0 .. MaxOrders /\ hiccups \in 0 .. MaxHiccups

DeskInit ==
  /\ revoked = {} /\ quarantined = {} /\ disabled = {} /\ papers = [p \in Papers |-> NoPaper]
  /\ captures = [q \in Queries |-> Empty] /\ due = {} /\ audit = {} /\ disclosed = {}
  /\ order = [o \in Orders |-> Waiting] /\ under = [o \in Orders |-> {}]
  /\ orders = 0 /\ hiccups = 0

Smooth == UNCHANGED hiccups
Hiccup == hiccups < MaxHiccups /\ hiccups' = hiccups + 1

Is(o, at) == order[o] # Waiting /\ order[o].at = at
Op(o) == order[o].ask.op
By(o) == order[o].ask.by
On(o) == order[o].ask.on

Advance(o, at) == order' = [order EXCEPT ![o].at = at]
Finish(o) == order' = [order EXCEPT ![o] = Waiting]

PlaceOrder(o) ==
  /\ order[o] = Waiting /\ orders < MaxOrders /\ orders' = orders + 1
  /\ \E a \in Asks :
       order' = [order EXCEPT ![o] = [at |-> "revocation", ask |-> a, found |-> Empty]]
  /\ UNCHANGED <<deskStores, captures, due, audit, disclosed, hiccups>>

---------------------------------------------------------------------------
(* The gate: two reads that fail closed, a refusal says nothing            *)

CheckPrincipal(o) ==
  /\ Is(o, "revocation")
  /\ \/ Smooth /\ IF By(o) \in revoked THEN Finish(o) ELSE Advance(o, "quarantine")
     \/ Hiccup /\ Finish(o)
  /\ UNCHANGED <<deskStores, captures, due, audit, disclosed, orders>>

\* Switches that loosen are thrown first and recorded second, all others are
\* recorded first.
First(o) ==
  CASE Op(o) = "read"                      -> "retrieve"
    [] Op(o) \in {"reactivate", "enable"}  -> "write"
    [] OTHER                               -> "record"

\* Mutant: a freeze list that cannot be read lets the request on.
CheckFreezeOpen(o) ==
  /\ Is(o, "quarantine")
  /\ \/ Smooth /\ IF By(o) \in quarantined THEN Finish(o) ELSE Advance(o, First(o))
     \/ Hiccup /\ Advance(o, First(o))
  /\ UNCHANGED <<deskStores, captures, due, audit, disclosed, orders>>

CheckFreeze(o) ==
  /\ Is(o, "quarantine")
  /\ \/ Smooth /\ IF By(o) \in quarantined THEN Finish(o) ELSE Advance(o, First(o))
     \/ Hiccup /\ Finish(o)
  /\ UNCHANGED <<deskStores, captures, due, audit, disclosed, orders>>

---------------------------------------------------------------------------
(* The work *)

Switched(on, o) == IF Op(o) \in {"revoke", "disable"} THEN on \cup {On(o)} ELSE on \ {On(o)}

\* The one write of an order.
Apply(o) ==
  CASE Op(o) \in {"revoke", "reactivate"} ->
         revoked' = Switched(revoked, o) /\ UNCHANGED <<disabled, papers>>
    [] Op(o) \in {"disable", "enable"} ->
         disabled' = Switched(disabled, o) /\ UNCHANGED <<revoked, papers>>
    [] Op(o) = "put" ->
         papers' = [papers EXCEPT ![On(o)[1]] = On(o)[2]] /\ UNCHANGED <<revoked, disabled>>
    [] Op(o) = "delete" ->
         papers' = [papers EXCEPT !["policy"] = NoPaper] /\ UNCHANGED <<revoked, disabled>>

\* Whether a switch was on, as DEL and SREM report it.
WasOn(o) == On(o) \in (IF Op(o) = "reactivate" THEN revoked ELSE disabled)

Write(o) ==
  /\ Is(o, "write")
  /\ \/ /\ Smooth /\ Apply(o)
        /\ IF Op(o) \in {"reactivate", "enable"}
           THEN order' = [order EXCEPT ![o].at = "record", ![o].found = IF WasOn(o) THEN "on" ELSE Empty]
           ELSE Finish(o)
     \/ Hiccup /\ Finish(o) /\ (Apply(o) \/ UNCHANGED <<revoked, disabled, papers>>)
  /\ UNCHANGED <<quarantined, captures, due, audit, disclosed, orders>>

\* retrieve: what does not open under this correlation id is a miss, as is a
\* read that fails.
OpensSealed(q) == captures[q] = q

Retrieve(o) ==
  /\ Is(o, "retrieve")
  /\ \/ /\ Smooth
        /\ order' = [order EXCEPT ![o].at = "record",
                               ![o].found = IF OpensSealed(On(o)) THEN captures[On(o)] ELSE Empty]
     \/ Hiccup /\ Advance(o, "record")
  /\ UNCHANGED <<deskStores, captures, due, audit, disclosed, orders>>

Note(o) == [op |-> Op(o), by |-> By(o), on |-> On(o), hit |-> order[o].found # Empty]

\* WormLogger.emit, and what follows it: the write, or the answer.  A capture
\* that was found is disclosed as it was read.
EmitNote(o) ==
  /\ Is(o, "record")
  /\ \/ /\ Smooth
        /\ audit' = audit \cup {Note(o)}
        /\ IF Op(o) \in {"reactivate", "enable", "read"} THEN Finish(o) ELSE Advance(o, "write")
        /\ disclosed' = IF Op(o) # "read" \/ order[o].found = Empty THEN disclosed
                        ELSE disclosed \cup {[by |-> By(o), query |-> On(o),
                                              shown |-> order[o].found]}
     \/ /\ Hiccup /\ Finish(o)
        /\ audit' \in {audit, audit \cup {Note(o)}}
        /\ UNCHANGED disclosed
  /\ UNCHANGED <<deskStores, captures, due, orders>>

---------------------------------------------------------------------------
(* Beside the desk *)

\* A canary or the playbook freezes a principal; the mark has a TTL.
QuarantineOfficer(a) ==
  /\ quarantined' = quarantined \cup {a}
  /\ UNCHANGED <<revoked, disabled, papers, captures, due, audit, order, disclosed, orders, hiccups>>

FreezeEnds(a) ==
  /\ a \in quarantined /\ quarantined' = quarantined \ {a}
  /\ UNCHANGED <<revoked, disabled, papers, captures, due, audit, order, disclosed, orders, hiccups>>

\* The pipeline records its decision and leaves the capture to a task ...
Decide(q) ==
  /\ [op |-> "decision", on |-> q] \notin audit
  /\ audit' = audit \cup {[op |-> "decision", on |-> q]}
  /\ due' = due \cup {q}
  /\ UNCHANGED <<deskStores, captures, order, disclosed, orders, hiccups>>

\* ... that seals it for its correlation id, or drops it: too large, or Redis
\* does not answer.
Capture(q) ==
  /\ q \in due /\ due' = due \ {q}
  /\ captures' \in {captures, [captures EXCEPT ![q] = q]}
  /\ UNCHANGED <<deskStores, audit, order, disclosed, orders, hiccups>>

CaptureExpires(q) ==
  /\ captures[q] # Empty /\ captures' = [captures EXCEPT ![q] = Empty]
  /\ UNCHANGED <<deskStores, due, audit, order, disclosed, orders, hiccups>>

\* A blob is put under another correlation id by hand.
Misplace(q, r) ==
  /\ q # r /\ captures[q] # Empty /\ Hiccup
  /\ captures' = [captures EXCEPT ![r] = captures[q]]
  /\ UNCHANGED <<deskStores, due, audit, order, disclosed, orders>>

---------------------------------------------------------------------------
AtTheDesk(o) ==
  PlaceOrder(o) \/ CheckPrincipal(o) \/ CheckFreeze(o) \/ Write(o) \/ Retrieve(o) \/ EmitNote(o)

BesideTheDesk ==
  \/ \E a \in Officers : QuarantineOfficer(a) \/ FreezeEnds(a)
  \/ \E q \in Queries : \/ Decide(q) \/ Capture(q) \/ CaptureExpires(q)
                        \/ \E r \in Queries : Misplace(q, r)

\* The switches on the principal of an order in flight.
SwitchesOn(o) ==
  IF order[o] = Waiting THEN {}
  ELSE {s \in {"revoked", "quarantined"} :
          By(o) \in (IF s = "revoked" THEN revoked ELSE quarantined)}

\* under keeps those that have been on since the order came.
DeskNext ==
  /\ BesideTheDesk \/ \E o \in Orders : AtTheDesk(o)
  /\ under' = [o \in Orders |->
                 IF order[o] = Waiting THEN SwitchesOn(o)' ELSE under[o] \cap SwitchesOn(o)']

DeskSpec == DeskInit /\ [][DeskNext]_deskVars

---------------------------------------------------------------------------
\* A principal that was under a kill switch before his request came, and still
\* is, changes nothing by it, sees nothing, and leaves no record: he cannot
\* lift his own revocation, nor work against others until his token dies.
FrozenDeskIdle ==
  [][\A o \in Orders : under[o] # {} /\ order'[o] # order[o] =>
       UNCHANGED <<deskStores, audit, disclosed>>]_deskVars

\* What tightens is on record before it holds: a revocation, a switched-off
\* alias, a document in force.  A record that says a switch was lifted follows
\* the one that says it was thrown.  What an investigator saw was on record
\* before he saw it, and was the query that was decided under that id.
Noted(op, on) == \E n \in audit : n.op = op /\ n.on = on

DeskOnRecord ==
  /\ \A a \in revoked : Noted("revoke", a)
  /\ \A t \in disabled : Noted("disable", t)
  /\ \A p \in Papers : papers[p] # NoPaper => Noted("put", <<p, papers[p]>>)
  /\ \A n \in audit : n.op \in {"reactivate", "enable"} /\ n.hit =>
       Noted(IF n.op = "enable" THEN "disable" ELSE "revoke", n.on)
  /\ \A d \in disclosed :
       /\ d.shown = d.query /\ Noted("decision", d.query)
       /\ [op |-> "read", by |-> d.by, on |-> d.query, hit |-> TRUE] \in audit
=============================================================================
