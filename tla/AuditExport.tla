---------------------------- MODULE AuditExport ----------------------------
(***************************************************************************)
(* `mcpip export-audit --verify': mcpip_verify/audit_export.py.            *)
(*                                                                         *)
(* A second verifier, written apart from verify_chain, that reads the live *)
(* ledger from outside the gateway and takes no lock: the anchor file, the *)
(* headers, the checkpoint, the events page by page and the epoch counter  *)
(* are separate reads, and the daemons close, trim and compact between any *)
(* two of them.  Its verdict is computed from what it read.                *)
(***************************************************************************)
EXTENDS AuditLedger, FiniteSetsExt

CONSTANTS
  ExportFile,   \* the anchor file it is pointed at
  PageSize      \* events per XRANGE (_PAGE, 1000)

ASSUME ExportAssumption == ExportFile \in File /\ PageSize \in Nat \ {0}

VARIABLE export  \* the reads so far, and the verdict of the last export

\* The reads so far have their types.
ExportTypeOK ==
  export \in [at : {"idle", "headers", "supercp", "events", "counter"},
             top : [epoch : EpochOrNone, hash : Nat], headers : SUBSET Nat,
             cp : Checkpoint, events : SUBSET Nat, alarm : BOOLEAN]

NoExport == [at |-> "idle", top |-> NoHead, headers |-> {}, cp |-> NoCheckpoint,
             events |-> {}, alarm |-> FALSE]

ExportInit == export = NoExport

---------------------------------------------------------------------------
(* _snapshot: every read in a step of its own                              *)

\* _read_anchor_head comes first, before Redis is read.
ReadAnchorHead ==
  /\ export.at = "idle"
  /\ \E l \in anchor[ExportFile] \cup {NoHead} :
       /\ IsAnchorHead(ExportFile, l)
       /\ export' = [NoExport EXCEPT !.at = "headers", !.top = l]

FetchEpochHeaders ==
  /\ export.at = "headers"
  /\ export' = [export EXCEPT !.at = "supercp", !.headers = index]

GetCheckpoint ==
  /\ export.at = "supercp"
  /\ export' = [export EXCEPT !.at = "events", !.cp = supercp]

\* The next page: the first events past the last one it has.
FetchEvents ==
  /\ export.at = "events"
  /\ LET rest == {s \in Buffered : \A e \in export.events : s > e}
         page == {s \in rest : Cardinality({r \in rest : r < s}) < PageSize}
     IN export' = [export EXCEPT !.events = @ \cup page,
                      !.at = IF Cardinality(page) < PageSize THEN "counter" ELSE @]

---------------------------------------------------------------------------
(* _verify_chain                                                           *)

\* Mutant: the tolerance comes from the headers alone.
WatermarkOfHeaders(x) == Max(x.headers \cup {x.cp.epoch}) - HotEpochs

\* The newest epoch whose events may be gone: the counter, read last, only
\* widens it.
Watermark(x) == Max(x.headers \cup {x.cp.epoch, num}) - HotEpochs

\* _verify_header: all events of the epoch are exported, or none is and it
\* may have been trimmed.
EventsExported(x, k) ==
  LET span == HeaderAt(k).start .. HeaderAt(k).end IN
  \/ span \subseteq x.events
  \/ span \cap x.events = {} /\ k <= Watermark(x)

Intact(x) ==
  LET replayed == {k \in x.headers : k > x.cp.epoch}
      last     == Max(replayed \cup {x.cp.epoch})
      prior(k) == IF k = x.cp.epoch + 1 THEN x.cp ELSE HeaderAt(k - 1)
  IN
  /\ replayed = x.cp.epoch + 1 .. last
  /\ \A k \in replayed : Follows(HeaderAt(k), prior(k)) /\ EventsExported(x, k)
  /\ x.top.epoch <= last
  /\ x.top.epoch > x.cp.epoch => HeaderAt(x.top.epoch).hash = x.top.hash

\* The verdict: an intact export is done with, a failed one names its reason.
ReadCounter ==
  /\ export.at = "counter"
  /\ export' = IF Intact(export) THEN NoExport
               ELSE [export EXCEPT !.at = "idle", !.alarm = TRUE]

---------------------------------------------------------------------------
Export ==
  /\ \/ ReadAnchorHead \/ FetchEpochHeaders \/ GetCheckpoint
     \/ FetchEvents \/ ReadCounter
  /\ UNCHANGED vars

exportVars == <<export, vars>>

\* The daemons go on while it reads; their sections end within the TTL.
ExportNext == (Steady /\ UNCHANGED export) \/ Export

LiveExportSpec == Init /\ ExportInit /\ [][ExportNext]_exportVars

---------------------------------------------------------------------------
\* An epoch the export has some events of and not the others.
Split(k) ==
  LET span == HeaderAt(k).start .. HeaderAt(k).end
  IN span \cap export.events \notin {{}, span}

\* Over a ledger nobody tampers with, an export cries tamper only when the
\* daemon trimmed an epoch between two pages of it: closing, compacting,
\* rotating the anchor, a crash between any two steps of these, or a trim at
\* any other time never look like tampering to a reader without a lock.
AlarmOnlyOnSplit ==
  export.alarm => \E k \in export.headers : k > export.cp.epoch /\ Split(k)
=============================================================================
