---------------------------- MODULE CatalogReview ----------------------------
(***************************************************************************)
(* The operator's catalog overlay and the review of community extensions:  *)
(* the register, deregister, submit, approve, reject and          *)
(* publishers endpoints of app/main.py and its boot hydration, over        *)
(* services/catalog_overlay.py, services/extension_submissions.py,         *)
(* services/registry_publishers.py and obfuscator/alias_registry.py.       *)
(*                                                                         *)
(* The overlay is one Redis hash, a row an alias; each gateway worker      *)
(* resolves from a registry in its memory, loaded at boot and changed only *)
(* by the requests it serves.  An action is a Redis call with the code up  *)
(* to the next await.  A submission stands for its manifest and its pin.   *)
(***************************************************************************)
EXTENDS Integers, FiniteSets

CONSTANTS
  Desks,        \* admin requests in flight
  Nodes, NodeOf,
  Aliases, Targets,
  Related,      \* pairs of targets of which one subsumes the other
  Config,       \* shipped aliases, their targets and postures
  Bodies,       \* what administrators register
  Submissions, ManifestOf,
  Namespaces,   \* publishers
  OverlayCap, PendingCap,
  MaxRequests,  \* bound: requests
  MaxMishaps    \* bound: failed calls, restarts and edits by hand

NoBinding == [target |-> "none"]
NoPublisher == "none"
NoSubmission == "none"

\* Risk tier and classification, weakest first.  A restricted skill that is
\* not PIN_REQUIRED is invalid (_overlay_skill_invalid).
Ranks == (0 .. 1) \X (0 .. 1)
Postures == Ranks \ {<<0, 1>>}
Weaker(p, q) == p[1] < q[1] \/ p[2] < q[2]

Operator == "operator"
Shipped == "config"
Binding == [target : Targets, posture : Ranks, source : Submissions \cup {Operator, Shipped}]

ASSUME CatalogAssumption ==
  /\ NodeOf \in [Desks -> Nodes]
  /\ Related \subseteq Targets \X Targets
  /\ \A t \in Targets : <<t, t>> \in Related
  /\ \A p \in Related : <<p[2], p[1]>> \in Related
  /\ DOMAIN Config \subseteq Aliases
  /\ \A a \in DOMAIN Config : Config[a] \in [target : Targets, posture : Ranks, source : {Shipped}]
  /\ Bodies \subseteq [alias : Aliases, target : Targets, posture : Postures]
  /\ ManifestOf \in [Submissions -> [kind : {"skill", "registry", "gate"}, alias : Aliases,
                       target : Targets, posture : Postures, publisher : Namespaces \cup {NoPublisher}]]
  /\ {Operator, Shipped, NoSubmission} \cap Submissions = {}
  /\ OverlayCap \in Nat \ {0} /\ PendingCap \in Nat \ {0}
  /\ MaxRequests \in Nat /\ MaxMishaps \in Nat

VARIABLES
  overlay,    \* mcpip:catalog_overlay:*
  approved,   \* mcpip:ext:approved:*: alias to the approved manifest
  review,     \* mcpip:ext:pending:*: state of each submission
  publishers, \* the verified-publisher allow-list
  live,       \* [node -> what its registry resolves]
  boot,       \* [node -> rows its hydration has still to load]
  vetted,     \* [node -> the row whose pin held and whose publisher is still to check]
  desk,
  journal,    \* requests with a skill_register or extension_approve record
  removed,    \* aliases whose row was removed once (history)
  edited,     \* aliases whose row was edited by hand (history)
  since,      \* [node -> namespaces listed at some time since its boot] (history)
  requests, mishaps

catalogStore == <<overlay, approved, review, publishers>>
catalogPast  == <<journal, removed, edited, since>>
catalogVars  == <<catalogStore, live, boot, vetted, desk, catalogPast, requests, mishaps>>

AtRest == [pc |-> "rest"]
AtWork == [pc : {"count", "verify", "emit", "keep", "relist", "add", "golive", "settle",
                 "remove", "enqueue"},
           op : {"register", "approve", "reject", "submit", "deregister"},
           alias : Aliases, bind : Binding \cup {NoBinding},
           sub : Submissions \cup {NoSubmission}, unread : BOOLEAN]

\* Every variable has its type; no worker resolves a restricted skill that is
\* not PIN_REQUIRED, even when its row was edited so.
CatalogTypeOK ==
  /\ overlay \in [Aliases -> Binding \cup {NoBinding}]
  /\ approved \in [Aliases -> Submissions \cup {NoSubmission}]
  /\ review \in [Submissions -> {"none", "pending", "approved", "rejected"}]
  /\ publishers \subseteq Namespaces
  /\ live \in [Nodes -> [Aliases -> Binding \cup {NoBinding}]]
  /\ \A n \in Nodes, a \in Aliases \ DOMAIN Config :
       live[n][a] # NoBinding => live[n][a].posture \in Postures
  /\ boot \in [Nodes -> [Aliases -> Binding \cup {NoBinding}]]
  /\ vetted \in [Nodes -> SUBSET Aliases]
  /\ desk \in [Desks -> AtWork \cup {AtRest}]
  /\ journal \subseteq [alias : Aliases, bind : Binding]
  /\ removed \subseteq Aliases /\ edited \subseteq Aliases
  /\ since \in [Nodes -> SUBSET Namespaces]
  /\ requests \in 0 .. MaxRequests /\ mishaps \in 0 .. MaxMishaps

Nothing == [a \in Aliases |-> NoBinding]
ShippedRegistry == [a \in Aliases |-> IF a \in DOMAIN Config THEN Config[a] ELSE NoBinding]

CatalogInit ==
  /\ overlay = Nothing
  /\ approved = [a \in Aliases |-> NoSubmission]
  /\ review = [s \in Submissions |-> "none"]
  /\ publishers = Namespaces
  /\ live = [n \in Nodes |-> ShippedRegistry] /\ boot = [n \in Nodes |-> Nothing]
  /\ vetted = [n \in Nodes |-> {}]
  /\ desk = [d \in Desks |-> AtRest]
  /\ journal = {} /\ removed = {} /\ edited = {}
  /\ since = [n \in Nodes |-> Namespaces]
  /\ requests = 0 /\ mishaps = 0

---------------------------------------------------------------------------

Rows == {a \in Aliases : overlay[a] # NoBinding}
Serving(n) == boot[n] = Nothing
Mishap(failed) == IF failed THEN mishaps < MaxMishaps /\ mishaps' = mishaps + 1
                            ELSE UNCHANGED mishaps

\* A request reaches a serving worker.
Arrives(d) ==
  /\ desk[d] = AtRest /\ Serving(NodeOf[d])
  /\ requests < MaxRequests /\ requests' = requests + 1

Steps(d, pc) == desk' = [desk EXCEPT ![d].pc = pc]
Leaves(d) == desk' = [desk EXCEPT ![d] = AtRest]

Work(pc, op, a, b, s) ==
  [pc |-> pc, op |-> op, alias |-> a, bind |-> b, sub |-> s, unread |-> FALSE]

HasAlias(n, a) == live[n][a] # NoBinding

\* _target_posture_conflict: b would bind a target covered by another binding
\* more weakly.
Conflicts(bindings, b) ==
  \E e \in bindings : /\ e # NoBinding /\ <<e.target, b.target>> \in Related
                      /\ Weaker(b.posture, e.posture)

InMemory(n) == {live[n][a] : a \in Aliases}
InOverlay == {overlay[a] : a \in Aliases}

---------------------------------------------------------------------------
(* register_skill *)

\* The checks before the record: alias and posture in memory, then the
\* overlay, which list_for_tenant reports as empty when it cannot be read.
StartRegister(d, body, failed) ==
  LET b == [target |-> body.target, posture |-> body.posture, source |-> Operator]
      n == NodeOf[d]
  IN /\ Arrives(d) /\ Mishap(failed)
     /\ ~HasAlias(n, body.alias) /\ ~Conflicts(InMemory(n), b)
     /\ failed \/ ~Conflicts(InOverlay, b)
     /\ desk' = [desk EXCEPT ![d] = Work("count", "register", body.alias, b, NoSubmission)]
     /\ UNCHANGED <<catalogStore, live, boot, vetted, catalogPast>>

\* count answers 0 when it fails.
CountRows(d, failed) ==
  /\ desk[d].pc = "count" /\ Mishap(failed)
  /\ IF ~failed /\ Cardinality(Rows) >= OverlayCap THEN Leaves(d)
     ELSE Steps(d, IF desk[d].op = "approve" /\ ManifestOf[desk[d].sub].kind = "registry"
                   THEN "verify" ELSE "emit")
  /\ UNCHANGED <<catalogStore, live, boot, vetted, catalogPast, requests>>

\* The record precedes every write.  Registration then enters
\* _apply_overlay_skill, which looks in memory first.
EmitIntent(d) ==
  LET k == desk[d] IN
  /\ k.pc = "emit"
  /\ journal' = IF k.op = "reject" THEN journal
                ELSE journal \cup {[alias |-> k.alias, bind |-> k.bind]}
  /\ CASE k.op = "reject"  -> Steps(d, "settle")
       [] k.op = "approve" -> Steps(d, "keep")
       [] OTHER -> IF Conflicts(InMemory(NodeOf[d]), k.bind) THEN Leaves(d) ELSE Steps(d, "relist")
  /\ UNCHANGED <<catalogStore, live, boot, vetted, removed, edited, since, requests, mishaps>>

\* add_approved, then the same look in memory.
KeepApproved(d) ==
  LET k == desk[d] IN
  /\ k.pc = "keep"
  /\ approved' = [approved EXCEPT ![k.alias] = k.sub]
  /\ IF Conflicts(InMemory(NodeOf[d]), k.bind) THEN Leaves(d) ELSE Steps(d, "relist")
  /\ UNCHANGED <<overlay, review, publishers, live, boot, vetted, catalogPast, requests, mishaps>>

\* _apply_overlay_skill reads the overlay again.
Relist(d, failed) ==
  /\ desk[d].pc = "relist" /\ Mishap(failed)
  /\ IF ~failed /\ Conflicts(InOverlay, desk[d].bind) THEN Leaves(d)
     ELSE desk' = [desk EXCEPT ![d].pc = "add", ![d].unread = failed]
  /\ UNCHANGED <<catalogStore, live, boot, vetted, catalogPast, requests>>

\* Mutant: HSET, so a second request repoints the alias.
AddOver(d, lost) ==
  /\ desk[d].pc = "add" /\ ~lost
  /\ overlay' = [overlay EXCEPT ![desk[d].alias] = desk[d].bind]
  /\ Steps(d, "golive")
  /\ UNCHANGED <<approved, review, publishers, live, boot, vetted, journal, removed, edited,
                 since, requests, mishaps>>

\* HSETNX; a lost reply raises LockError, and nothing goes live here.
AddRow(d, lost) ==
  LET k == desk[d] IN
  /\ k.pc = "add" /\ Mishap(lost)
  /\ IF overlay[k.alias] = NoBinding
     THEN /\ overlay' = [overlay EXCEPT ![k.alias] = k.bind]
                  /\ IF lost THEN Leaves(d) ELSE Steps(d, "golive")
     ELSE Leaves(d) /\ UNCHANGED overlay
  /\ UNCHANGED <<approved, review, publishers, live, boot, vetted, journal, removed, edited,
                 since, requests>>

GoLive(d) ==
  LET k == desk[d] IN
  /\ k.pc = "golive"
  /\ live' = [live EXCEPT ![NodeOf[d]][k.alias] = k.bind]
  /\ IF k.op = "approve" THEN Steps(d, "settle") ELSE Leaves(d)
  /\ UNCHANGED <<catalogStore, boot, vetted, catalogPast, requests, mishaps>>

---------------------------------------------------------------------------
(* deregister_skill *)

\* Only a row in the overlay is removable; without one only a record is made.
StartDeregister(d, a) ==
  /\ Arrives(d) /\ a \in Rows
  /\ desk' = [desk EXCEPT ![d] = Work("remove", "deregister", a, NoBinding, NoSubmission)]
  /\ UNCHANGED <<catalogStore, live, boot, vetted, catalogPast, mishaps>>

\* HDEL, and the alias leaves the registry of this worker alone; a lost reply
\* raises LockError, and the alias stays live here too.  The record and the
\* skill gate, which AuthorizePipeline models, come after.
RemoveRow(d, lost) ==
  LET a == desk[d].alias IN
  /\ desk[d].pc = "remove" /\ Leaves(d) /\ Mishap(lost)
  /\ overlay' = [overlay EXCEPT ![a] = NoBinding]
  /\ live' = IF lost THEN live ELSE [live EXCEPT ![NodeOf[d]][a] = NoBinding]
  /\ removed' = (IF a \in Rows THEN removed \cup {a} ELSE removed) /\ edited' = edited \ {a}
  /\ UNCHANGED <<approved, review, publishers, boot, vetted, journal, since, requests>>

---------------------------------------------------------------------------
(* Submissions *)

ManifestBinding(s) ==
  [target |-> ManifestOf[s].target, posture |-> ManifestOf[s].posture, source |-> s]

\* The hash keeps a submission for ever: all of them count.
StartSubmit(d, s, failed) ==
  /\ Arrives(d) /\ Mishap(failed) /\ review[s] = "none"
  /\ failed \/ Cardinality({t \in Submissions : review[t] # "none"}) < PendingCap
  /\ desk' = [desk EXCEPT ![d] =
                Work("enqueue", "submit", ManifestOf[s].alias, NoBinding, s)]
  /\ UNCHANGED <<catalogStore, live, boot, vetted, catalogPast>>

Enqueue(d) ==
  /\ desk[d].pc = "enqueue" /\ Leaves(d)
  /\ review' = [review EXCEPT ![desk[d].sub] = "pending"]
  /\ UNCHANGED <<overlay, approved, publishers, live, boot, vetted, catalogPast,
                 requests, mishaps>>

\* get_pending and the checks of approve_extension; a gate is never approved.
StartApprove(d, s) ==
  LET m == ManifestOf[s] IN
  /\ Arrives(d)
  /\ review[s] = "pending" /\ m.kind # "gate" /\ ~HasAlias(NodeOf[d], m.alias)
  /\ desk' = [desk EXCEPT ![d] = Work("count", "approve", m.alias, ManifestBinding(s), s)]
  /\ UNCHANGED <<catalogStore, live, boot, vetted, catalogPast, mishaps>>

\* is_verified; what cannot be read is not verified.
VerifyPublisher(d) ==
  /\ desk[d].pc = "verify"
  /\ IF ManifestOf[desk[d].sub].publisher \in publishers THEN Steps(d, "emit") ELSE Leaves(d)
  /\ UNCHANGED <<catalogStore, live, boot, vetted, catalogPast, requests, mishaps>>

StartReject(d, s) ==
  /\ Arrives(d) /\ review[s] = "pending"
  /\ desk' = [desk EXCEPT ![d] = Work("emit", "reject", ManifestOf[s].alias, NoBinding, s)]
  /\ UNCHANGED <<catalogStore, live, boot, vetted, catalogPast, mishaps>>

\* set_state rewrites the record it was read from.
Settle(d) ==
  /\ desk[d].pc = "settle" /\ Leaves(d)
  /\ review' = [review EXCEPT ![desk[d].sub] =
                  IF desk[d].op = "approve" THEN "approved" ELSE "rejected"]
  /\ UNCHANGED <<overlay, approved, publishers, live, boot, vetted, catalogPast,
                 requests, mishaps>>

\* put_verified_publishers: the record, then one SET.
PutPublishers(names) ==
  /\ requests < MaxRequests /\ requests' = requests + 1
  /\ publishers' = names
  /\ since' = [n \in Nodes |-> since[n] \cup names]
  /\ UNCHANGED <<overlay, approved, review, live, boot, vetted, desk, journal, removed, edited,
                 mishaps>>

---------------------------------------------------------------------------
(* Boot *)

\* The worker restarts with the shipped registry and reads the overlay.  Its
\* requests end where they are.
Boot(n, failed) ==
  /\ mishaps < MaxMishaps /\ mishaps' = mishaps + 1
  /\ live' = [live EXCEPT ![n] = ShippedRegistry]
  /\ boot' = [boot EXCEPT ![n] = IF failed THEN Nothing ELSE overlay]
  /\ vetted' = [vetted EXCEPT ![n] = {}]
  /\ since' = [since EXCEPT ![n] = publishers]
  /\ desk' = [d \in Desks |-> IF NodeOf[d] = n THEN AtRest ELSE desk[d]]
  /\ UNCHANGED <<catalogStore, journal, removed, edited, requests>>

\* Mutant: the row is not compared with the approved manifest.
PinOfRow(a, b) == approved[a] = b.source /\ ManifestOf[b.source].alias = a

\* _community_pin_valid up to its last await: the approved manifest is there,
\* is the one the row pins and says what the row says.
PinValid(a, b) ==
  LET m == ManifestOf[b.source] IN
  approved[a] = b.source /\ m.alias = a /\ m.target = b.target /\ m.posture = b.posture

\* Mutant: a restricted row is loaded whatever its tier.
LoadableAny(n, a, b) ==
  ~HasAlias(n, a) /\ (b.source \in Submissions => PinValid(a, b))

Loadable(n, a, b) ==
  /\ ~HasAlias(n, a)
  /\ b.posture \in Postures
  /\ b.source \in Submissions => PinValid(a, b)

FromRegistry(s) == ManifestOf[s].kind = "registry"

\* The hydration is through with a row, which goes live or is skipped.
Loaded(n, a, sound) ==
  /\ boot' = [boot EXCEPT ![n][a] = NoBinding]
  /\ live' = IF sound THEN [live EXCEPT ![n][a] = boot[n][a]] ELSE live

\* get_approved, for a community row; when it fails the row is skipped.
LoadRow(n, a, failed) ==
  LET b     == boot[n][a]
      sound == Loadable(n, a, b) /\ ~(failed /\ b.source \in Submissions)
  IN /\ b # NoBinding /\ vetted[n] = {} /\ Mishap(failed)
     /\ IF sound /\ b.source \in Submissions /\ FromRegistry(b.source)
        THEN vetted' = [vetted EXCEPT ![n] = {a}] /\ UNCHANGED <<live, boot>>
        ELSE Loaded(n, a, sound) /\ UNCHANGED vetted
     /\ UNCHANGED <<catalogStore, desk, catalogPast, requests>>

\* is_verified, the last await of _registry_pin_valid.
VetPublisher(n, a, failed) ==
  /\ a \in vetted[n] /\ Mishap(failed)
  /\ vetted' = [vetted EXCEPT ![n] = {}]
  /\ Loaded(n, a, ~failed /\ ManifestOf[boot[n][a].source].publisher \in publishers)
  /\ UNCHANGED <<catalogStore, desk, catalogPast, requests>>

---------------------------------------------------------------------------

\* A write fails and raises LockError, or the record cannot be emitted: the
\* request ends where it is.
RequestFails(d) ==
  /\ desk[d] # AtRest /\ Mishap(TRUE) /\ Leaves(d)
  /\ UNCHANGED <<catalogStore, live, boot, vetted, catalogPast, requests>>

\* A field of a stored row is edited by hand, not through the gateway; without
\* a source, the row is the operator's.
EditRow(a) ==
  /\ a \in Rows /\ Mishap(TRUE)
  /\ \/ \E t \in Targets : overlay' = [overlay EXCEPT ![a].target = t]
     \/ \E s \in Submissions \cup {Operator} : overlay' = [overlay EXCEPT ![a].source = s]
     \/ \E p \in Ranks : overlay' = [overlay EXCEPT ![a].posture = p]
  /\ edited' = edited \cup {a}
  /\ UNCHANGED <<approved, review, publishers, live, boot, vetted, desk, journal, removed,
                 since, requests>>

Request(d) ==
  \/ \E body \in Bodies, failed \in BOOLEAN : StartRegister(d, body, failed)
  \/ \E a \in Aliases : StartDeregister(d, a)
  \/ \E s \in Submissions :
       \/ \E failed \in BOOLEAN : StartSubmit(d, s, failed)
       \/ StartApprove(d, s) \/ StartReject(d, s)

Handle(d) ==
  \/ \E failed \in BOOLEAN :
       CountRows(d, failed) \/ Relist(d, failed) \/ AddRow(d, failed) \/ RemoveRow(d, failed)
  \/ VerifyPublisher(d) \/ EmitIntent(d) \/ KeepApproved(d) \/ GoLive(d)
  \/ Enqueue(d) \/ Settle(d)

CatalogNext ==
  \/ \E d \in Desks : Request(d) \/ Handle(d) \/ RequestFails(d)
  \/ \E names \in SUBSET Namespaces : PutPublishers(names)
  \/ \E n \in Nodes, failed \in BOOLEAN :
       Boot(n, failed) \/ \E a \in Aliases : LoadRow(n, a, failed) \/ VetPublisher(n, a, failed)
  \/ \E a \in Aliases : EditRow(a)

CatalogSpec == CatalogInit /\ [][CatalogNext]_catalogVars

---------------------------------------------------------------------------
(* Properties *)

\* Write before execute (register_skill, approve_extension): a row of the
\* overlay, unless edited by hand, was asked for by a request whose record
\* (alias and tier, or the digest of the manifest) is already in the log.
CatalogLogged ==
  \A a \in Rows \ edited : [alias |-> a, bind |-> overlay[a]] \in journal

\* A community skill resolves only as a reviewer has approved it (rug-pull
\* defense of _community_pin_valid) and only from a publisher listed at some
\* time since the worker booted (_registry_pin_valid): on every worker, at any
\* time, also when its row was edited or another submission was approved for
\* the alias.
CommunityAsApproved ==
  \A n \in Nodes, a \in Aliases :
    LET b == live[n][a] IN
    b # NoBinding /\ b.source \in Submissions =>
      LET m == ManifestOf[b.source] IN
      /\ [alias |-> a, bind |-> b] \in journal
      /\ m.alias = a /\ b = ManifestBinding(b.source)
      /\ m.kind = "registry" => m.publisher \in since[n]

\* Additive-only (_apply_overlay_skill): until an alias is deregistered or its
\* row edited, all the workers that resolve it agree with the one row.
WorkersAgree ==
  \A n \in Nodes, a \in Aliases \ (removed \cup edited \cup DOMAIN Config) :
    live[n][a] \in {NoBinding, overlay[a]}

\* The posture floor (_target_posture_conflict): no row binds a target more
\* weakly than a shipped alias that covers it, whichever path minted it and
\* whatever could not be read.
ShippedFloor ==
  \A a \in Rows \ edited, c \in DOMAIN Config :
    <<Config[c].target, overlay[a].target>> \in Related =>
      ~Weaker(overlay[a].posture, Config[c].posture)

\* What the overlay adds is what was approved, and weakens nothing shipped.
OverlaySound == CommunityAsApproved /\ ShippedFloor

\* "ANY failure -> approval REFUSED (opaque deny, no state change)" (docstring of
\* approve_extension): the approved record of a row stays the one it pins.
RowKeepsItsPin ==
  \A a \in Rows \ edited : overlay[a].source \in Submissions => approved[a] = overlay[a].source
=============================================================================
