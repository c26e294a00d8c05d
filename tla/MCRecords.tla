------------------------------ MODULE MCRecords ------------------------------
(* The ledger where two daemons close it and their lock may lapse, an export *)
(* that reads it while it moves, the per-event file, the Merkle tree, and    *)
(* the processes that keep all this as they come up.  Only the export and    *)
(* the ledger share anything, so a behaviour moves one part and leaves the   *)
(* others in their initial state; focus says which.                          *)
EXTENDS AuditExport, EventChain, MerkleTree, GatewayBoot, TLC

CONSTANTS c1, c2, f1, f2, r1, r2, p1, p2, door, shelf

VARIABLE focus

\* Two hosts: the second daemon has an anchor file of its own.
TwoFiles == [p \in Proc |-> IF p = c2 THEN f2 ELSE f1]

(* Boot: a full production deployment, its rehearsal in a sandbox, each with *)
(* one thing changed, and a bare sandbox that draws its keys itself.         *)
Document(name, issued, expires, genuine) ==
  [id |-> name, issued |-> issued, expires |-> expires, genuine |-> genuine]
Current == Document("ours", 0, 1, TRUE)
MCLicences == {Current, Document("ours", 1, 3, TRUE), Document("theirs", 1, 3, TRUE),
               Document("ours", 2, 3, FALSE)}

Production ==
  [sandbox |-> FALSE, given |-> Setting, bad |-> {}, on |-> Switch \ {"bypass"},
   listed |-> Scope, altered |-> {}, licence |-> Current, durable |-> TRUE]
Rehearsal == [Production EXCEPT !.sandbox = TRUE]
Bare == [Rehearsal EXCEPT !.given = {}, !.durable = FALSE, !.on = @ \ {"pdp", "telemetry"}]

Variants(d) ==
  {d, [d EXCEPT !.durable = FALSE], [d EXCEPT !.altered = {door}],
   [d EXCEPT !.listed = {shelf}, !.altered = {door}],
   [d EXCEPT !.on = {"bypass"}, !.altered = {door}]}
  \cup {[d EXCEPT !.given = @ \ {s}] : s \in Setting}
  \cup {[d EXCEPT !.on = @ \ {s}] : s \in Switch}
MCDeployments ==
  Variants(Production) \cup {[Production EXCEPT !.bad = {s}] : s \in Setting}
  \cup Variants(Rehearsal) \cup {Bare}

\* Bound: between two looks at the shared directory or the clock no other
\* process moves.
Alone(w) ==
  /\ ~IsUp(w) /\ proc[w].at > 1
  /\ Stage(w) \in KeyFiles =>
       proc[w].step = "look" /\ (~Wanted(Stage(w)) \/ Given(Stage(w)))
BootStep ==
  IF \E w \in Boots : Alone(w) THEN \E w \in Boots : Alone(w) /\ ComingUp(w) ELSE BootNext

\* Two processes are interchangeable.
SwapBoots == Permutations(Boots)

treeVars == <<tree, claimed>>
recordsVars == <<focus, exportVars, lineVars, treeVars, bootVars>>

\* The bound on the file stops this instance, not the gateway.
FileFull == Len(lines) = MaxLines /\ UNCHANGED lineVars

\* Bound: beside an export no lock lapses, and failures come where the second
\* daemon has closed nothing.
FaultsWhileAlone == faults' = 0 \/ (pc'[c2] = "idle" /\ anchor'[f2] = {})
BesideExport == Steady /\ FaultsWhileAlone

StartIn(foci) ==
  /\ focus \in foci
  /\ Init /\ ExportInit /\ LinesInit /\ TreesInit /\ BootInit
  /\ focus = "boot" \/ deployment = Production

RecordsNext ==
  /\ \/ /\ focus = "lapse" /\ Next
        /\ UNCHANGED <<export, lineVars, treeVars, bootVars>>
     \/ /\ focus = "export" /\ BesideExport
        /\ UNCHANGED <<export, lineVars, treeVars, bootVars>>
     \/ focus = "export" /\ Export /\ UNCHANGED <<lineVars, treeVars, bootVars>>
     \/ /\ focus = "lines" /\ (LinesNext \/ FileFull)
        /\ UNCHANGED <<exportVars, treeVars, bootVars>>
     \/ focus = "tree" /\ TreesNext /\ UNCHANGED <<exportVars, lineVars, bootVars>>
     \/ focus = "boot" /\ BootStep /\ UNCHANGED <<exportVars, lineVars, treeVars>>
  /\ UNCHANGED focus

RecordsSpec ==
  StartIn({"lapse", "export", "lines", "tree", "boot"}) /\ [][RecordsNext]_recordsVars

\* The type invariants of the four that have variables of several types.
TypesOK == TypeOK /\ ExportTypeOK /\ LinesTypeOK /\ BootTypeOK

\* What is kept outside Redis can be shown to a third party: the per-event file
\* verifies line by line, and a root binds the leaves it was built from.
EvidenceHolds == FileVerifies /\ RootBindsLeaves
=============================================================================
