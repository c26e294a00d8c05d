----------------------------- MODULE RecordsProofs -----------------------------
(***************************************************************************)
(* What the records outside Redis can be trusted with: the verdict of an   *)
(* export that reads the ledger without its lock, the per-event file, and  *)
(* the Merkle root and proofs of an epoch.                                 *)
(***************************************************************************)
EXTENDS MCRecords, AuditLedgerProofs, GatewayBootProofs, FiniteSetTheorems,
        WellFoundedInduction, TLAPS

---------------------------------------------------------------------------
(* The export: what its reads so far say of the ledger as it is now        *)

\* The headers read are those of the ledger when its newest epoch was n, but
\* for epochs up to e; the anchor was read before.
Complete(x, n, e) ==
  /\ x.headers \subseteq 0 .. n /\ x.top.epoch <= n
  /\ \A k \in 0 .. n : k > e => k \in x.headers

\* Up to its last event m, what the export has not read was trimmed.
PagedTo(events, m) ==
  /\ events \subseteq 1 .. m
  /\ (events = {} /\ m = 0) \/ m \in events
  /\ \A s \in 1 .. m : s \in events \/ s <= trimmed

\* So it is for all that the headers cover, when the pages are read.
Paged(x) ==
  \A k \in x.headers : \A s \in 1 .. HeaderAt(k).end : s \in x.events \/ s <= trimmed

Heard(x) ==
  /\ x.headers \subseteq 0 .. num
  /\ x.at # "idle" => HeadOnChain(x.top) /\ ~x.alarm
  /\ x.at = "supercp" => \E n \in -1 .. num : Complete(x, n, supercp.epoch)
  /\ x.at \in {"events", "counter"} =>
       CheckpointOnChain(x.cp) /\ \E n \in -1 .. num : Complete(x, n, x.cp.epoch)
  /\ x.at \in {"headers", "supercp"} => x.events = {}
  /\ x.at = "events" => \E m \in Nat : PagedTo(x.events, m)
  /\ x.at = "counter" => Paged(x)

SplitOf(x, k) ==
  LET span == HeaderAt(k).start .. HeaderAt(k).end IN span \cap x.events \notin {{}, span}
Excused(x) == x.alarm => \E k \in x.headers : k > x.cp.epoch /\ SplitOf(x, k)

ExportIInv == ExportTypeOK /\ Heard(export) /\ Excused(export)

ReadType ==
  [at : {"idle", "headers", "supercp", "events", "counter"},
   top : [epoch : EpochOrNone, hash : Nat], headers : SUBSET Nat,
   cp : Checkpoint, events : SUBSET Nat, alarm : BOOLEAN]

\* What the ledger's invariants say, for a reader that holds nothing.
Ledger == TypeInv /\ Mutex /\ GaplessInv /\ TrailInv

\* How the ledger moves on: epochs are added, the checkpoint and the trim go
\* forward.
Grows ==
  /\ num <= num' /\ \A k \in 0 .. num : HeaderAt(k)' = HeaderAt(k)
  /\ supercp.epoch <= supercp'.epoch /\ trimmed <= trimmed'

\* The invariants of the ledger in the form the arithmetic needs.
LEMMA LedgerFacts ==
  ASSUME Ledger
  PROVE  /\ num \in Int /\ num >= -1 /\ seq \in Nat /\ trimmed \in Nat /\ lastSeq \in Nat
         /\ supercp \in Checkpoint /\ supercp.epoch \in Int /\ lastSeq <= seq
         /\ supercp.epoch >= -1 /\ supercp.epoch <= num
         /\ \A k \in 0 .. num : HeaderAt(k) \in Header /\ HeaderAt(k).end <= lastSeq
                                /\ HeaderAt(k).start <= HeaderAt(k).end
<1>1. TypeInv /\ GaplessInv /\ StoreInv
  BY DEF Ledger, TrailInv
<1>2. num \in Int /\ num >= -1 /\ seq \in Nat /\ trimmed \in Nat /\ lastSeq \in Nat
  BY <1>1, ChainFacts
<1>3. supercp \in Checkpoint /\ CheckpointOnChain(supercp)
  BY <1>1 DEF TypeInv, TypeOK, StoreTypeOK, StoreInv, WitnessInv
<1>4. supercp.epoch \in Int /\ supercp.epoch >= -1
  BY <1>3 DEF Checkpoint, EpochOrNone
<1>5. supercp.epoch <= num
  BY <1>2, <1>3, <1>4 DEF CheckpointOnChain, OnChain, NoCheckpoint
<1>6. lastSeq <= seq
  BY <1>1 DEF GaplessInv, ChainGapless
<1>7. \A k \in 0 .. num : HeaderAt(k) \in Header /\ HeaderAt(k).end <= lastSeq
                          /\ HeaderAt(k).start <= HeaderAt(k).end
  BY <1>1, ChainFacts DEF GaplessInv, ChainGapless
<1>8. QED
  BY <1>2, <1>3, <1>4, <1>5, <1>6, <1>7

\* Nothing in the ledger goes back.
LEMMA SteadyGrows ==
  ASSUME Ledger, [Steady]_vars
  PROVE  Grows
<1>1. /\ num \in Int /\ supercp.epoch \in Int /\ trimmed \in Nat
      /\ \A k \in 0 .. num : HeaderAt(k) \in Header
  BY LedgerFacts
<1>2. ASSUME UNCHANGED <<num, sealed, supercp, trimmed>> PROVE Grows
  BY <1>1, <1>2 DEF Grows, HeaderAt
<1>3. ASSUME NEW p \in Proc, CloseCommit(p) PROVE Grows
  <2>1. num' = num + 1 /\ \A k \in 0 .. num : HeaderAt(k)' = HeaderAt(k)
    BY <1>3, CommitEffect DEF Ledger
  <2>2. supercp' = supercp /\ trimmed' = trimmed
    BY <1>3 DEF CloseCommit
  <2>3. QED
    BY <1>1, <2>1, <2>2 DEF Grows
<1>4. ASSUME NEW p \in Proc, TrimEvents(p) PROVE Grows
  <2>1. UNCHANGED <<num, sealed, supercp>>
    BY <1>4 DEF TrimEvents, chainVars
  <2>2. FellOut(p) + 1 \in index => KeepFrom(p) \in Nat
    BY IndexedHeader DEF KeepFrom, Header, Ledger
  <2>3. trimmed <= trimmed'
    BY <1>1, <1>4, <2>2 DEF TrimEvents
  <2>4. QED
    BY <1>1, <2>1, <2>3 DEF Grows, HeaderAt
<1>5. ASSUME NEW p \in Proc, CompactSign(p) PROVE Grows
  <2>1. UNCHANGED <<num, sealed, trimmed>> /\ pc[p] = "cpsign"
    BY <1>5 DEF CompactSign, chainVars
  <2>2. supercp.epoch < view[p].target
    BY <2>1 DEF Ledger, TrailInv, Section, Folding
  <2>3. view[p].target \in Nat
    BY DEF Ledger, TypeInv, TypeOK, LocalTypeOK, View
  <2>4. supercp' = supercp \/ supercp'.epoch = view[p].target
    BY <1>5 DEF CompactSign
  <2>5. supercp.epoch <= supercp'.epoch
    BY <1>1, <2>2, <2>3, <2>4
  <2>6. QED
    BY <1>1, <2>1, <2>5 DEF Grows, HeaderAt
<1>6. ASSUME NEW p \in Proc, Close(p) PROVE Grows
  BY <1>2, <1>3, <1>4, <1>6 DEF Close, CloseBegin, TailEmpty, TailRead, ReadLink,
     RecordAnchor, TrimNothing, TrimLocations, TrimLeaves, redisVars, chainVars
<1>7. ASSUME NEW p \in Proc, Verify(p) \/ Fail(p) \/ Crash(p) PROVE Grows
  BY <1>2, <1>7 DEF Verify, VerifyBegin, VerifyAnchor, VerifySince, VerifyHeaders,
     VerifyFinish, Fail, Crash, redisVars
<1>8. ASSUME NEW p \in Proc, Compact(p) PROVE Grows
  BY <1>2, <1>5, <1>8 DEF Compact, CompactDeclined, CompactBegin, CompactVerified,
     CompactHeaders, CompactIndexes, CompactAnchor, redisVars, chainVars
<1>9. CASE Emit \/ LockExpires \/ UNCHANGED vars
  BY <1>2, <1>9 DEF Emit, LockExpires, vars, redisVars
<1>10. QED
  BY <1>6, <1>7, <1>8, <1>9 DEF Steady

\* What a reader has heard stays true as the ledger moves on.
LEMMA HeardStands ==
  ASSUME Ledger, TypeOK', Grows, NEW x \in ReadType, Heard(x)
  PROVE  Heard(x)'
<1>1. /\ num \in Int /\ num' \in Int /\ supercp.epoch \in Int /\ supercp'.epoch \in Int
      /\ trimmed \in Nat /\ trimmed' \in Nat
  <2>1. num' \in Int /\ supercp'.epoch \in Int /\ trimmed' \in Nat
    BY DEF TypeOK, ChainTypeOK, StoreTypeOK, Checkpoint, EpochOrNone
  <2>2. QED
    BY <2>1, LedgerFacts
<1>2. /\ num <= num' /\ \A k \in 0 .. num : HeaderAt(k)' = HeaderAt(k)
      /\ supercp.epoch <= supercp'.epoch /\ trimmed <= trimmed'
  BY DEF Grows
<1>3. 0 .. num \subseteq 0 .. num' /\ -1 .. num \subseteq -1 .. num'
  BY <1>1, <1>2
<1>4. x.headers \subseteq 0 .. num'
  BY <1>3 DEF Heard
<1>5. ASSUME NEW e, NEW h, OnChain(e, h) PROVE OnChain(e, h)'
  BY <1>2, <1>3, <1>5 DEF OnChain
<1>6. x.at # "idle" => HeadOnChain(x.top)' /\ ~x.alarm
  BY <1>5 DEF Heard, HeadOnChain
<1>7. CheckpointOnChain(x.cp) => CheckpointOnChain(x.cp)'
  BY <1>2, <1>5 DEF CheckpointOnChain, OnChain
<1>8. x.at = "supercp" => \E n \in -1 .. num' : Complete(x, n, supercp'.epoch)
  <2> SUFFICES ASSUME x.at = "supercp" PROVE \E n \in -1 .. num' : Complete(x, n, supercp'.epoch)
    OBVIOUS
  <2>1. PICK n \in -1 .. num : Complete(x, n, supercp.epoch)
    BY DEF Heard
  <2>2. \A k \in 0 .. n : k > supercp'.epoch => k > supercp.epoch
    BY <1>1, <1>2
  <2>3. Complete(x, n, supercp'.epoch)
    BY <2>1, <2>2 DEF Complete
  <2>4. QED
    BY <1>3, <2>3
<1>9. x.at \in {"events", "counter"} =>
        CheckpointOnChain(x.cp)' /\ \E n \in -1 .. num' : Complete(x, n, x.cp.epoch)
  BY <1>3, <1>7 DEF Heard
<1>10. \A s \in Nat : s <= trimmed => s <= trimmed'
  BY <1>1, <1>2
<1>11. ASSUME NEW m \in Nat, PagedTo(x.events, m) PROVE PagedTo(x.events, m)'
  <2>1. \A s \in 1 .. m : s \in Nat
    OBVIOUS
  <2>2. QED
    BY <1>10, <1>11, <2>1 DEF PagedTo
<1>12. Paged(x) => Paged(x)'
  <2> SUFFICES ASSUME Paged(x), NEW k \in x.headers, NEW s \in 1 .. HeaderAt(k)'.end
               PROVE  s \in x.events \/ s <= trimmed'
    BY DEF Paged
  <2>1. k \in 0 .. num
    BY DEF Heard
  <2>2. HeaderAt(k)' = HeaderAt(k)
    BY <1>2, <2>1
  <2>3. s \in x.events \/ s <= trimmed
    BY <2>2 DEF Paged
  <2>4. s \in Nat
    OBVIOUS
  <2>5. QED
    BY <1>10, <2>3, <2>4
<1>13. QED
  BY <1>4, <1>6, <1>8, <1>9, <1>11, <1>12 DEF Heard, Complete

\* A split stays one.
LEMMA ExcusedStands ==
  ASSUME Grows, NEW x, x.headers \subseteq 0 .. num, Excused(x)
  PROVE  Excused(x)'
<1>1. \A k \in 0 .. num : HeaderAt(k)' = HeaderAt(k)
  BY DEF Grows
<1>2. \A k \in x.headers : SplitOf(x, k) => SplitOf(x, k)'
  BY <1>1 DEF SplitOf
<1>3. QED
  BY <1>2 DEF Excused

---------------------------------------------------------------------------
(* The reads, one by one *)

\* A read leaves the ledger as it is.
LEMMA SameLedger ==
  ASSUME UNCHANGED vars, NEW y
  PROVE  /\ Heard(y) => Heard(y)'
         /\ Excused(y) => Excused(y)'
<1>1. UNCHANGED <<num, sealed, supercp, trimmed>>
  BY DEF vars, redisVars
<1>2. \A k : HeaderAt(k)' = HeaderAt(k)
  BY <1>1 DEF HeaderAt
<1>3. \A e, h : OnChain(e, h) => OnChain(e, h)'
  BY <1>1, <1>2 DEF OnChain
<1>4. /\ HeadOnChain(y.top) => HeadOnChain(y.top)'
      /\ CheckpointOnChain(y.cp) => CheckpointOnChain(y.cp)'
  BY <1>2, <1>3 DEF HeadOnChain, CheckpointOnChain
<1>5. Paged(y) => Paged(y)'
  BY <1>1, <1>2 DEF Paged
<1>6. \A m : PagedTo(y.events, m) => PagedTo(y.events, m)'
  BY <1>1 DEF PagedTo
<1>7. Heard(y) => Heard(y)'
  BY <1>1, <1>4, <1>5, <1>6 DEF Heard, Complete
<1>8. Excused(y) => Excused(y)'
  BY <1>2 DEF Excused, SplitOf
<1>9. QED
  BY <1>7, <1>8

\* Before its first read an export has read nothing.
LEMMA NothingRead ==
  /\ NoExport \in ReadType /\ NoExport.at = "idle" /\ NoExport.headers = {}
  /\ NoExport.events = {} /\ NoExport.alarm = FALSE
<1>1. NoCheckpoint \in Checkpoint
  BY NothingTyped
<1>2. NoHead \in [epoch : EpochOrNone, hash : Nat]
  BY DEF NoHead, EpochOrNone, Genesis
<1>3. QED
  BY <1>1, <1>2 DEF NoExport, ReadType

\* The anchor's head is on the chain.
LEMMA HeadRead ==
  ASSUME Ledger, ExportIInv, ReadAnchorHead
  PROVE  export' \in ReadType /\ Heard(export') /\ Excused(export')
<1>1. PICK l \in anchor[ExportFile] \cup {NoHead} :
        export' = [NoExport EXCEPT !.at = "headers", !.top = l]
  BY DEF ReadAnchorHead
<1>2. PICK y : y = export'
  OBVIOUS
<1>3. anchor[ExportFile] \subseteq Line
  BY ExportAssumption DEF Ledger, TypeInv, TypeOK, SharedTypeOK
<1>4. l \in [epoch : EpochOrNone, hash : Nat]
  BY <1>3 DEF Line, NoHead, EpochOrNone, Genesis
<1>5. HeadOnChain(l)
  BY ExportAssumption DEF HeadOnChain, Ledger, TrailInv, StoreInv, WitnessInv
<1>6. /\ y \in ReadType /\ y.at = "headers" /\ y.top = l /\ y.headers = {} /\ y.events = {}
      /\ y.alarm = FALSE
  BY <1>1, <1>2, <1>4, NothingRead DEF ReadType
<1>7. Heard(y) /\ Excused(y)
  BY <1>5, <1>6 DEF Heard, Excused
<1>8. QED
  BY <1>2, <1>6, <1>7

\* The headers read are those of the moment, older ones folded away.
LEMMA HeadersRead ==
  ASSUME Ledger, ExportIInv, FetchEpochHeaders
  PROVE  export' \in ReadType /\ Heard(export') /\ Excused(export')
<1>1. PICK x : x = export
  OBVIOUS
<1>2. PICK y : y = export'
  OBVIOUS
<1>3. x \in ReadType /\ Heard(x) /\ x.at = "headers"
  BY <1>1 DEF ExportIInv, ExportTypeOK, ReadType, FetchEpochHeaders
<1>4. y = [x EXCEPT !.at = "supercp", !.headers = index]
  BY <1>1, <1>2 DEF FetchEpochHeaders
<1>5. index \subseteq 0 .. num /\ index \in SUBSET Nat
  BY DEF Ledger, TypeInv, EpochInv, TypeOK, StoreTypeOK
<1>6. /\ y \in ReadType /\ y.at = "supercp" /\ y.top = x.top /\ y.headers = index
      /\ y.events = x.events /\ y.alarm = x.alarm
  BY <1>3, <1>4, <1>5 DEF ReadType
<1>7. HeadOnChain(x.top) /\ x.alarm = FALSE /\ x.events = {}
  BY <1>3 DEF Heard, ReadType
<1>8. num \in Int /\ num >= -1
  BY LedgerFacts
<1>9. x.top.epoch <= num
  BY <1>7, <1>8 DEF HeadOnChain, OnChain, NoHead
<1>10. \A k \in 0 .. num : k > supercp.epoch => k \in index
  BY DEF Ledger, TrailInv, StoreInv, WitnessInv
<1>11. Complete(y, num, supercp.epoch) /\ num \in -1 .. num
  BY <1>5, <1>6, <1>8, <1>9, <1>10 DEF Complete
<1>12. Heard(y) /\ Excused(y)
  BY <1>5, <1>6, <1>7, <1>11 DEF Heard, Excused
<1>13. QED
  BY <1>2, <1>6, <1>12

\* The checkpoint, read later, covers what the headers lack.
LEMMA CheckpointRead ==
  ASSUME Ledger, ExportIInv, GetCheckpoint
  PROVE  export' \in ReadType /\ Heard(export') /\ Excused(export')
<1>1. PICK x : x = export
  OBVIOUS
<1>2. PICK y : y = export'
  OBVIOUS
<1>3. x \in ReadType /\ Heard(x) /\ x.at = "supercp"
  BY <1>1 DEF ExportIInv, ExportTypeOK, ReadType, GetCheckpoint
<1>4. y = [x EXCEPT !.at = "events", !.cp = supercp]
  BY <1>1, <1>2 DEF GetCheckpoint
<1>5. supercp \in Checkpoint /\ CheckpointOnChain(supercp)
  BY LedgerFacts DEF Ledger, TrailInv, StoreInv, WitnessInv
<1>6. /\ y \in ReadType /\ y.at = "events" /\ y.top = x.top /\ y.headers = x.headers
      /\ y.cp = supercp /\ y.events = x.events /\ y.alarm = x.alarm
  BY <1>3, <1>4, <1>5 DEF ReadType
<1>7. HeadOnChain(x.top) /\ x.alarm = FALSE /\ x.events = {} /\ x.headers \subseteq 0 .. num
  BY <1>3 DEF Heard, ReadType
<1>8. \E n \in -1 .. num : Complete(y, n, y.cp.epoch)
  BY <1>3, <1>6 DEF Heard, Complete
<1>9. PagedTo(y.events, 0)
  BY <1>6, <1>7 DEF PagedTo
<1>10. \E m \in Nat : PagedTo(y.events, m)
  BY <1>9
<1>11. Heard(y) /\ Excused(y)
  BY <1>5, <1>6, <1>7, <1>8, <1>10 DEF Heard, Excused
<1>12. QED
  BY <1>2, <1>6, <1>11

---------------------------------------------------------------------------
(* The pages *)

\* In an interval, the events before s are counted by their distance.
LEMMA CountBefore ==
  ASSUME NEW a \in Nat, NEW b \in Nat, NEW s \in a .. b
  PROVE  Cardinality({r \in a .. b : r < s}) = s - a
<1>1. {r \in a .. b : r < s} = a .. s - 1
  OBVIOUS
<1>2. PICK c : c = Cardinality(a .. s - 1)
  OBVIOUS
<1>3. c = IF a > s - 1 THEN 0 ELSE s - 1 - a + 1
  BY <1>2, FS_Interval
<1>4. c = s - a
  BY <1>3
<1>5. QED
  BY <1>1, <1>2, <1>4, Zenon

\* The page from a to b goes on after event m and after the trim.
PageOf(page, m, a, b) ==
  /\ page = a .. b /\ m < a /\ trimmed < a
  /\ a = m + 1 \/ a = trimmed + 1
  /\ a > b => b = seq
  /\ Cardinality(page) < PageSize => b = seq

\* The page that follows event m is an interval; a short one reaches the newest
\* event.
LEMMA PageRead ==
  ASSUME NEW events, NEW m \in Nat, PagedTo(events, m), trimmed \in Nat, seq \in Nat,
         NEW rest, rest = {s \in Buffered : \A e \in events : s > e},
         NEW page, page = {s \in rest : Cardinality({r \in rest : r < s}) < PageSize}
  PROVE  \E a, b \in Nat : PageOf(page, m, a, b)
<1>1. PICK a \in Nat : a = IF m > trimmed THEN m + 1 ELSE trimmed + 1
  OBVIOUS
<1>2. m < a /\ trimmed < a /\ (a = m + 1 \/ a = trimmed + 1)
  BY <1>1
<1>3. \A e \in events : e \in Nat /\ e <= m
  BY DEF PagedTo
<1>4. rest = a .. seq
  <2>1. ASSUME NEW s \in rest PROVE s \in a .. seq
    <3>1. s \in trimmed + 1 .. seq /\ \A e \in events : s > e
      BY <2>1 DEF Buffered
    <3>2. s > m
      BY <3>1 DEF PagedTo
    <3>3. QED
      BY <1>1, <3>1, <3>2
  <2>2. ASSUME NEW s \in a .. seq PROVE s \in rest
    <3>1. s \in trimmed + 1 .. seq
      BY <1>2, <2>2
    <3>2. \A e \in events : s > e
      BY <1>2, <1>3, <2>2
    <3>3. QED
      BY <3>1, <3>2 DEF Buffered
  <2>3. QED
    BY <2>1, <2>2
<1>5. PageSize \in Nat /\ PageSize > 0
  BY ExportAssumption
<1>6. PICK b \in Nat : b = IF seq < a + PageSize - 1 THEN seq ELSE a + PageSize - 1
  BY <1>5
<1>7. page = a .. b
  <2>1. \A s \in a .. seq : Cardinality({r \in rest : r < s}) = s - a
    BY <1>4, CountBefore
  <2>2. page = {s \in a .. seq : s - a < PageSize}
    BY <1>4, <2>1
  <2>3. {s \in a .. seq : s - a < PageSize} = a .. b
    BY <1>5, <1>6
  <2>4. QED
    BY <2>2, <2>3
<1>8. a > b => b = seq
  BY <1>5, <1>6
<1>9. ASSUME Cardinality(page) < PageSize PROVE b = seq
  <2>1. PICK c : c = Cardinality(a .. b)
    OBVIOUS
  <2>2. c = IF a > b THEN 0 ELSE b - a + 1
    BY <2>1, FS_Interval
  <2>3. c < PageSize
    BY <1>7, <1>9, <2>1
  <2>4. QED
    BY <1>5, <1>6, <2>2, <2>3
<1>10. PageOf(page, m, a, b)
  BY <1>2, <1>7, <1>8, <1>9 DEF PageOf
<1>11. QED
  BY <1>10

\* A page more leaves no gap that a trim does not explain.
LEMMA EventsRead ==
  ASSUME Ledger, ExportIInv, FetchEvents
  PROVE  export' \in ReadType /\ Heard(export') /\ Excused(export')
<1>1. PICK x : x = export
  OBVIOUS
<1>2. PICK y : y = export'
  OBVIOUS
<1>3. x \in ReadType /\ Heard(x) /\ x.at = "events"
  BY <1>1 DEF ExportIInv, ExportTypeOK, ReadType, FetchEvents
<1>4. PICK rest : rest = {s \in Buffered : \A e \in x.events : s > e}
  OBVIOUS
<1>5. PICK page : page = {s \in rest : Cardinality({r \in rest : r < s}) < PageSize}
  OBVIOUS
<1>6. y = [x EXCEPT !.events = @ \cup page,
                    !.at = IF Cardinality(page) < PageSize THEN "counter" ELSE @]
  BY <1>1, <1>2, <1>4, <1>5 DEF FetchEvents
<1>7. /\ trimmed \in Nat /\ seq \in Nat /\ lastSeq \in Nat /\ lastSeq <= seq
      /\ \A k \in 0 .. num : HeaderAt(k) \in Header /\ HeaderAt(k).end <= lastSeq
  BY LedgerFacts
<1>8. PICK m \in Nat : PagedTo(x.events, m)
  BY <1>3 DEF Heard
<1>0. PICK a \in Nat, b \in Nat : PageOf(page, m, a, b)
  BY <1>4, <1>5, <1>7, <1>8, PageRead
<1>9. /\ page = a .. b /\ m < a /\ trimmed < a
      /\ a = m + 1 \/ a = trimmed + 1
      /\ a > b => b = seq
      /\ Cardinality(page) < PageSize => b = seq
  BY <1>0 DEF PageOf
<1>10. page \in SUBSET Nat
  BY <1>9
<1>11. PICK events : events = x.events \cup page
  OBVIOUS
<1>12. x.events \in SUBSET Nat
  BY <1>3 DEF ReadType
<1>13. /\ y \in ReadType /\ y.top = x.top /\ y.headers = x.headers /\ y.cp = x.cp
       /\ y.alarm = x.alarm /\ y.events = events
       /\ y.at \in {"events", "counter"}
       /\ y.at = "counter" => Cardinality(page) < PageSize
  BY <1>3, <1>6, <1>10, <1>11, <1>12 DEF ReadType
<1>14. ASSUME NEW s \in Nat, s > 0, s < a \/ s \in a .. b PROVE s \in events \/ s <= trimmed
  <2>1. CASE s <= m
    BY <1>8, <1>11, <1>14, <2>1 DEF PagedTo
  <2>2. CASE s > m /\ s < a
    BY <1>7, <1>9, <2>2
  <2>3. CASE s \in a .. b
    BY <1>9, <1>11, <2>3
  <2>4. QED
    BY <1>14, <2>1, <2>2, <2>3
<1>15. \E n \in Nat : PagedTo(events, n)
  <2>1. CASE a <= b
    <3>1. events \subseteq 1 .. b
      <4>1. x.events \subseteq 1 .. m
        BY <1>8 DEF PagedTo
      <4>2. QED
        BY <1>9, <1>11, <2>1, <4>1
    <3>2. b \in events
      BY <1>9, <1>11, <2>1
    <3>3. \A s \in 1 .. b : s \in events \/ s <= trimmed
      BY <1>14
    <3>4. PagedTo(events, b)
      BY <3>1, <3>2, <3>3 DEF PagedTo
    <3>5. QED
      BY <3>4
  <2>2. CASE a > b
    <3>1. page = {}
      BY <1>9, <2>2
    <3>2. events = x.events
      BY <1>11, <3>1
    <3>3. QED
      BY <1>8, <3>2
  <2>3. QED
    BY <2>1, <2>2
<1>16. Cardinality(page) < PageSize => Paged(y)
  <2> SUFFICES ASSUME b = seq, NEW k \in x.headers, NEW s \in 1 .. HeaderAt(k).end
               PROVE  s \in events \/ s <= trimmed
    BY <1>9, <1>13 DEF Paged
  <2>1. k \in 0 .. num
    BY <1>3 DEF Heard
  <2>2. HeaderAt(k).end \in Nat /\ HeaderAt(k).end <= seq
    BY <1>7, <2>1 DEF Header
  <2>3. s \in Nat /\ s > 0 /\ s <= b
    BY <2>2
  <2>4. QED
    BY <1>14, <2>3
<1>17. \E n \in -1 .. num : Complete(y, n, y.cp.epoch)
  BY <1>3, <1>13 DEF Heard, Complete
<1>18. Heard(y) /\ Excused(y)
  BY <1>3, <1>13, <1>15, <1>16, <1>17 DEF Heard, Excused, ReadType
<1>19. QED
  BY <1>2, <1>13, <1>18

---------------------------------------------------------------------------
(* The verdict *)

\* The largest of a set of numbers is the one that no other exceeds.
LEMMA Largest ==
  ASSUME NEW S \in SUBSET Int, NEW n \in S, \A k \in S : k <= n
  PROVE  Max(S) = n
<1>1. \E x \in S : \A y \in S : x >= y
  OBVIOUS
<1>2. Max(S) \in S /\ \A y \in S : Max(S) >= y
  BY <1>1, Zenon DEF Max
<1>3. PICK m : m = Max(S)
  OBVIOUS
<1>4. m \in Int /\ n \in Int /\ m >= n /\ m <= n
  BY <1>2, <1>3
<1>5. m = n
  BY <1>4
<1>6. QED
  BY <1>3, <1>5

\* An export that split no epoch finds what it read intact.
LEMMA IntactUnlessSplit ==
  ASSUME Ledger, NEW x \in ReadType, Heard(x), x.at = "counter",
         \A k \in x.headers : k > x.cp.epoch => ~SplitOf(x, k)
  PROVE  Intact(x)
<1> DEFINE replayed == {k \in x.headers : k > x.cp.epoch}
           last     == Max(replayed \cup {x.cp.epoch})
           prior(k) == IF k = x.cp.epoch + 1 THEN x.cp ELSE HeaderAt(k - 1)
<1>1. /\ num \in Int /\ num >= -1 /\ trimmed \in Nat
      /\ \A k \in 0 .. num : HeaderAt(k) \in Header /\ HeaderAt(k).start <= HeaderAt(k).end
  BY LedgerFacts
<1>2. /\ HeadOnChain(x.top) /\ CheckpointOnChain(x.cp) /\ Paged(x)
      /\ x.headers \subseteq 0 .. num
  BY DEF Heard
<1>3. PICK n \in -1 .. num : Complete(x, n, x.cp.epoch)
  BY DEF Heard
<1>4. x.cp \in Checkpoint /\ x.top.epoch \in Int
  BY DEF ReadType, EpochOrNone
<1>5. PICK e \in Int : e = x.cp.epoch /\ e >= -1
  BY <1>4 DEF Checkpoint, EpochOrNone
<1>6. e <= num
  BY <1>1, <1>2, <1>5 DEF CheckpointOnChain, OnChain, NoCheckpoint
<1>7. x.headers \subseteq 0 .. n /\ x.top.epoch <= n /\ \A k \in 0 .. n : k > e => k \in x.headers
  BY <1>3, <1>5 DEF Complete
<1>8. PICK m \in Int : m = IF n > e THEN n ELSE e
  BY <1>5
<1>9. replayed = e + 1 .. m
  <2>1. ASSUME NEW k \in replayed PROVE k \in e + 1 .. m
    <3>1. k \in 0 .. n /\ k > e
      BY <1>5, <1>7
    <3>2. QED
      BY <1>5, <1>8, <3>1
  <2>2. ASSUME NEW k \in e + 1 .. m PROVE k \in replayed
    <3>1. k \in 0 .. n /\ k > e
      BY <1>5, <1>8
    <3>2. QED
      BY <1>5, <1>7, <3>1
  <2>3. QED
    BY <2>1, <2>2
<1>10. last = m
  <2>1. replayed \cup {x.cp.epoch} = (e + 1 .. m) \cup {e}
    BY <1>5, <1>9
  <2>2. Max((e + 1 .. m) \cup {e}) = m
    <3>1. m \in (e + 1 .. m) \cup {e} /\ (e + 1 .. m) \cup {e} \in SUBSET Int
      BY <1>8
    <3>2. \A k \in (e + 1 .. m) \cup {e} : k <= m
      BY <1>8
    <3>3. QED
      BY <3>1, <3>2, Largest
  <2>3. QED
    BY <2>1, <2>2
<1>11. Watermark(x) = num - HotEpochs
  <2>1. num \in x.headers \cup {x.cp.epoch, num} /\ x.headers \cup {x.cp.epoch, num} \in SUBSET Int
    BY <1>1, <1>2, <1>5
  <2>2. \A k \in x.headers \cup {x.cp.epoch, num} : k <= num
    BY <1>1, <1>2, <1>5, <1>6
  <2>3. Max(x.headers \cup {x.cp.epoch, num}) = num
    BY <2>1, <2>2, Largest
  <2>4. QED
    BY <2>3 DEF Watermark
<1>12. ASSUME NEW k \in replayed PROVE Follows(HeaderAt(k), prior(k))
  <2>1. k \in 0 .. num /\ k > e
    BY <1>2, <1>5
  <2>2. Follows(HeaderAt(k), Prior(k))
    BY <2>1 DEF Ledger, GaplessInv, ChainGapless
  <2>3. prior(k).hash = Prior(k).hash /\ prior(k).end = Prior(k).end
    <3>1. CASE k = e + 1 /\ x.cp = NoCheckpoint
      BY <1>5, <3>1 DEF Prior, NoCheckpoint
    <3>2. CASE k = e + 1 /\ x.cp # NoCheckpoint
      <4>1. x.cp.hash = HeaderAt(e).hash /\ x.cp.end = HeaderAt(e).end /\ e >= 0
        BY <1>2, <1>5, <3>2 DEF CheckpointOnChain, OnChain
      <4>2. k # 0 /\ k - 1 = e
        BY <3>2, <4>1
      <4>3. QED
        BY <1>5, <3>2, <4>1, <4>2 DEF Prior
    <3>3. CASE k # e + 1
      <4>1. k # 0
        BY <1>5, <2>1, <3>3
      <4>2. QED
        BY <1>5, <3>3, <4>1 DEF Prior
    <3>4. QED
      BY <3>1, <3>2, <3>3
  <2>4. QED
    BY <2>2, <2>3 DEF Follows
<1>13. ASSUME NEW k \in replayed PROVE EventsExported(x, k)
  <2> DEFINE span == HeaderAt(k).start .. HeaderAt(k).end
  <2>1. k \in x.headers /\ k \in 0 .. num /\ HeaderAt(k) \in Header
    BY <1>1, <1>2
  <2>2. span \cap x.events = {} \/ span \subseteq x.events
    BY <1>13 DEF SplitOf
  <2>3. CASE span \cap x.events = {}
    <3>1. HeaderAt(k).start \in Nat /\ HeaderAt(k).end \in Nat /\ HeaderAt(k).start <= HeaderAt(k).end
      BY <1>1, <2>1 DEF Header
    <3>2. HeaderAt(k).start > 0
      <4>1. HeaderAt(k).start = Prior(k).end + 1
        BY <2>1 DEF Ledger, GaplessInv, ChainGapless, Follows
      <4>2. Prior(k).end \in Nat
        <5>1. CASE k = 0
          BY <5>1 DEF Prior, NoCheckpoint
        <5>2. CASE k # 0
          <6>1. HeaderAt(k - 1) \in Header
            BY <1>1, <2>1, <5>2
          <6>2. QED
            BY <5>2, <6>1 DEF Prior, Header
        <5>3. QED
          BY <5>1, <5>2
      <4>3. QED
        BY <4>1, <4>2
    <3>3. HeaderAt(k).start \in span /\ HeaderAt(k).start \in 1 .. HeaderAt(k).end
      BY <3>1, <3>2
    <3>4. HeaderAt(k).start <= trimmed
      BY <1>2, <2>1, <2>3, <3>3 DEF Paged
    <3>5. ~(k > num - HotEpochs)
      BY <1>1, <2>1, <3>1, <3>4 DEF Ledger, TrailInv, StoreInv, HotInv
    <3>6. k <= num - HotEpochs
      BY <1>1, <2>1, <3>5, WindowAssumption
    <3>7. QED
      BY <1>11, <2>3, <3>6 DEF EventsExported
  <2>4. QED
    BY <2>2, <2>3 DEF EventsExported
<1>14. x.top.epoch <= m
  BY <1>4, <1>5, <1>7, <1>8
<1>15. x.top.epoch > x.cp.epoch => HeaderAt(x.top.epoch).hash = x.top.hash
  <2>1. CASE x.top = NoHead
    BY <1>5, <2>1 DEF NoHead
  <2>2. CASE x.top # NoHead
    BY <1>2, <2>2 DEF HeadOnChain, OnChain
  <2>3. QED
    BY <2>1, <2>2
<1>16. QED
  BY <1>5, <1>9, <1>10, <1>12, <1>13, <1>14, <1>15 DEF Intact

\* The verdict accuses nobody unless an epoch was split.
LEMMA VerdictReached ==
  ASSUME Ledger, ExportIInv, ReadCounter
  PROVE  export' \in ReadType /\ Heard(export') /\ Excused(export')
<1>1. PICK x : x = export
  OBVIOUS
<1>2. PICK y : y = export'
  OBVIOUS
<1>3. x \in ReadType /\ Heard(x) /\ x.at = "counter"
  BY <1>1 DEF ExportIInv, ExportTypeOK, ReadType, ReadCounter
<1>4. y = IF Intact(x) THEN NoExport ELSE [x EXCEPT !.at = "idle", !.alarm = TRUE]
  BY <1>1, <1>2 DEF ReadCounter
<1>5. CASE Intact(x)
  <2>1. y = NoExport
    BY <1>4, <1>5
  <2>2. Heard(y) /\ Excused(y) /\ y \in ReadType
    BY <2>1, NothingRead DEF Heard, Excused
  <2>3. QED
    BY <1>2, <2>2
<1>6. CASE ~Intact(x)
  <2>1. /\ y \in ReadType /\ y.at = "idle" /\ y.headers = x.headers /\ y.cp = x.cp
        /\ y.events = x.events
    BY <1>3, <1>4, <1>6 DEF ReadType
  <2>2. \E k \in x.headers : k > x.cp.epoch /\ SplitOf(x, k)
    BY <1>3, <1>6, IntactUnlessSplit
  <2>3. \E k \in y.headers : k > y.cp.epoch /\ SplitOf(y, k)
    BY <2>1, <2>2 DEF SplitOf
  <2>4. Heard(y) /\ Excused(y)
    BY <1>3, <2>1, <2>3 DEF Heard, Excused
  <2>5. QED
    BY <1>2, <2>1, <2>4
<1>7. QED
  BY <1>5, <1>6

---------------------------------------------------------------------------
(* The export among the daemons *)

\* An export that has not begun has heard nothing wrong.
LEMMA ExportStarts == ExportInit => ExportIInv
BY NothingRead DEF ExportInit, ExportIInv, ExportTypeOK, ReadType, Heard, Excused

\* What an export has heard survives its own reads and the daemons' steps.
LEMMA ExportInductive ==
  ASSUME Ledger, TypeOK', ExportIInv, [ExportNext]_exportVars
  PROVE  ExportIInv'
<1>1. PICK x : x = export
  OBVIOUS
<1>2. x \in ReadType /\ Heard(x) /\ Excused(x)
  BY <1>1 DEF ExportIInv, ExportTypeOK, ReadType
<1>3. CASE [Steady]_vars /\ UNCHANGED export
  <2>1. Grows
    BY <1>3, SteadyGrows
  <2>2. Heard(x)'
    BY <1>2, <2>1, HeardStands
  <2>3. Excused(x)'
    BY <1>2, <2>1, ExcusedStands DEF Heard
  <2>4. export' = x
    BY <1>1, <1>3
  <2>5. QED
    BY <1>2, <2>2, <2>3, <2>4 DEF ExportIInv, ExportTypeOK, ReadType
<1>4. CASE Export
  <2>1. UNCHANGED vars
    BY <1>4 DEF Export
  <2>2. export' \in ReadType /\ Heard(export') /\ Excused(export')
    BY <1>4, HeadRead, HeadersRead, CheckpointRead, EventsRead, VerdictReached DEF Export
  <2>3. PICK y : y = export'
    OBVIOUS
  <2>4. Heard(y)' /\ Excused(y)'
    BY <2>1, <2>2, <2>3, SameLedger
  <2>5. QED
    BY <2>2, <2>3, <2>4 DEF ExportIInv, ExportTypeOK, ReadType
<1>5. QED
  BY <1>3, <1>4 DEF ExportNext, exportVars

\* So it always holds, if no lock lapses under a live holder.
LEMMA ExportInvariant == LiveExportSpec => []ExportIInv
<1>1. [ExportNext]_exportVars => [Steady]_vars
  BY DEF ExportNext, Export, exportVars
<1>2. LiveExportSpec => SteadySpec
  BY <1>1, PTL DEF LiveExportSpec, SteadySpec
<1>3. TypeInv /\ Mutex /\ GaplessInv /\ TrailInv => Ledger
  BY DEF Ledger
<1>4. SteadySpec => [](Ledger /\ TypeOK)
  BY <1>3, TypeCorrect, TypeInvariant, GaplessInvariant, TrailInvariant, SteadyIsSpec, PTL
<1>5. Ledger /\ TypeOK' /\ ExportIInv /\ [ExportNext]_exportVars => ExportIInv'
  BY ExportInductive
<1>6. QED
  BY <1>2, <1>4, <1>5, ExportStarts, PTL DEF LiveExportSpec

\* What the reads say, and that a cry of tamper names a split epoch.
LEMMA ExportSays == ExportIInv => ExportTypeOK /\ AlarmOnlyOnSplit
BY DEF ExportIInv, Excused, SplitOf, AlarmOnlyOnSplit, Split

\* An export that reads the ledger without its lock cries tamper only over an
\* epoch that was trimmed between two of its pages, for any number of daemons,
\* any page size, and failures and crashes at any step (_snapshot,
\* _verify_chain).
THEOREM AlarmOnlyOnSplitCorrect == LiveExportSpec => []AlarmOnlyOnSplit
BY ExportInvariant, ExportSays, PTL

---------------------------------------------------------------------------
(* The per-event file                                                      *)

\* Only the holder of the append lock is at work.
OneEmitter == \A e \in Emitter : emitter[e].at # "idle" => appendLock = e

\* The keys are behind the file while the holder writes them one by one.
KeysFit(e) ==
  /\ emitter[e].at = "hash" => emitter[e].seq = Len(lines)
  /\ emitter[e].at \in {"setseq", "sethash"} =>
       /\ keys.hash = Len(lines) - 1 /\ emitter[e].line = Len(lines)
       /\ emitter[e].seq = Len(lines) - 1
  /\ emitter[e].at = "sethash" => keys.seq = Len(lines) - 1
  /\ emitter[e].at = "quorum" => emitter[e].line = Len(lines) /\ Len(lines) > 0

Behind == \E e \in Emitter : emitter[e].at \in {"setseq", "sethash"}

Uncut ==
  /\ OneEmitter
  /\ \A e \in Emitter : KeysFit(e)
  /\ ~Behind => keys.seq = Len(lines) - 1 /\ keys.hash = Len(lines)
  /\ \A i \in 1 .. Len(lines) : lines[i].seq = i - 1 /\ lines[i].prev = i - 1
  /\ receipts \subseteq 1 .. Len(lines)

LinesIInv == LinesTypeOK /\ (cut \/ Uncut)

FileInOrder == \A i \in 1 .. Len(lines) : lines[i].seq = i - 1 /\ lines[i].prev = i - 1

Emission == [at : EmitterStep, seq : Nat, line : Nat]

\* The others are idle while one of them works.
LEMMA OthersIdle ==
  ASSUME OneEmitter, NEW e \in Emitter, emitter[e].at # "idle"
  PROVE  /\ appendLock = e
         /\ \A f \in Emitter \ {e} : emitter[f].at = "idle"
BY DEF OneEmitter

\* A step of e, the others being idle.
LEMMA EmitterMoves ==
  ASSUME LinesTypeOK, NEW e \in Emitter, NEW p \in Emission,
         emitter' = [emitter EXCEPT ![e] = p],
         \A f \in Emitter \ {e} : emitter[f].at = "idle",
         p.at # "idle" => appendLock' = e, KeysFit(e)',
         p.at \notin {"setseq", "sethash"} =>
           keys'.seq = Len(lines') - 1 /\ keys'.hash = Len(lines'),
         FileInOrder', receipts' \subseteq 1 .. Len(lines')
  PROVE  Uncut'
<1>1. emitter'[e] = p /\ \A f \in Emitter \ {e} : emitter'[f].at = "idle"
  BY DEF LinesTypeOK
<1>2. OneEmitter'
  BY <1>1 DEF OneEmitter
<1>3. ASSUME NEW f \in Emitter PROVE KeysFit(f)'
  BY <1>1 DEF KeysFit
<1>4. ~Behind' => keys'.seq = Len(lines') - 1 /\ keys'.hash = Len(lines')
  BY <1>1 DEF Behind
<1>5. QED
  BY <1>2, <1>3, <1>4 DEF Uncut, FileInOrder

\* The types.
LEMMA LinesTyped ==
  ASSUME LinesTypeOK, [LinesNext]_lineVars
  PROVE  LinesTypeOK'
<1> USE DEF LinesTypeOK, EmitterStep
<1>1. CASE UNCHANGED lineVars
  BY <1>1 DEF lineVars
<1>2. CASE LeftLockExpires \/ HeldLockLapses
  <2>1. appendLock' = NoEmitter /\ UNCHANGED <<lines, keys, emitter, receipts>>
    BY <1>2 DEF LeftLockExpires, HeldLockLapses
  <2>2. cut' \in BOOLEAN
    BY <1>2 DEF LeftLockExpires, HeldLockLapses
  <2>3. lineFaults \in Int /\ MaxLineFaults \in Int /\ 0 <= lineFaults
        /\ lineFaults <= MaxLineFaults
    BY LinesAssumption
  <2>4. lineFaults' = lineFaults \/ (lineFaults < MaxLineFaults /\ lineFaults' = lineFaults + 1)
    BY <1>2 DEF LeftLockExpires, HeldLockLapses
  <2>5. lineFaults' \in 0 .. MaxLineFaults
    BY <2>3, <2>4
  <2>6. QED
    BY <2>1, <2>2, <2>5
<1>3. ASSUME NEW e \in Emitter, Acquire(e) PROVE LinesTypeOK'
  BY <1>3 DEF Acquire
<1>4. ASSUME NEW e \in Emitter, GetSeq(e) PROVE LinesTypeOK'
  <2>1. keys.seq + 1 \in Nat
    OBVIOUS
  <2>2. QED
    BY <1>4, <2>1 DEF GetSeq
<1>5. ASSUME NEW e \in Emitter, AppendLine(e) PROVE LinesTypeOK'
  <2>1. emitter[e].seq \in Nat /\ keys.hash \in Nat /\ Len(lines) + 1 \in Nat
    OBVIOUS
  <2>2. lines' \in Seq([seq : Nat, prev : Nat])
    BY <1>5, <2>1 DEF AppendLine
  <2>3. emitter' \in [Emitter -> [at : EmitterStep, seq : Nat, line : Nat]]
    <3> DEFINE E == [at : EmitterStep, seq : Nat, line : Nat]
               p == [emitter[e] EXCEPT !.at = "setseq", !.line = Len(lines) + 1]
    <3>1. p \in E
      BY <2>1
    <3>2. emitter' = [emitter EXCEPT ![e] = p]
      BY <1>5 DEF AppendLine
    <3> HIDE DEF p
    <3>3. QED
      BY <3>1, <3>2
  <2>4. QED
    BY <1>5, <2>2, <2>3 DEF AppendLine
<1>6. ASSUME NEW e \in Emitter, SetSeq(e) \/ SetHash(e) PROVE LinesTypeOK'
  <2>1. emitter[e].seq \in Nat /\ emitter[e].line \in Nat
    OBVIOUS
  <2>2. keys' \in [seq : Nat \cup {-1}, hash : Nat]
    BY <1>6, <2>1 DEF SetSeq, SetHash
  <2>3. emitter' \in [Emitter -> [at : EmitterStep, seq : Nat, line : Nat]]
    <3>1. ASSUME NEW at \in EmitterStep
          PROVE  [emitter EXCEPT ![e].at = at] \in [Emitter -> [at : EmitterStep, seq : Nat, line : Nat]]
      OBVIOUS
    <3>2. \/ emitter' = [emitter EXCEPT ![e].at = "sethash"]
          \/ emitter' = [emitter EXCEPT ![e].at = "quorum"]
      BY <1>6 DEF SetSeq, SetHash
    <3>3. "sethash" \in EmitterStep /\ "quorum" \in EmitterStep
      OBVIOUS
    <3>4. QED
      BY <3>1, <3>2, <3>3
  <2>4. UNCHANGED <<lines, appendLock, receipts, lineFaults, cut>>
    BY <1>6 DEF SetSeq, SetHash
  <2>5. QED
    BY <2>2, <2>3, <2>4
<1>7. ASSUME NEW e \in Emitter, Quorum(e) PROVE LinesTypeOK'
  BY <1>7 DEF Quorum
<1>8. ASSUME NEW e \in Emitter, Unlock(e) PROVE LinesTypeOK'
  BY <1>8 DEF Unlock, Resting
<1>9. ASSUME NEW e \in Emitter, Stops(e) PROVE LinesTypeOK'
  <2>1. PICK next \in {"unlock", "idle"} :
          emitter' = [emitter EXCEPT ![e] = [Resting EXCEPT !.at = next]]
    BY <1>9 DEF Stops
  <2>2. emitter' \in [Emitter -> [at : EmitterStep, seq : Nat, line : Nat]]
    BY <2>1 DEF Resting
  <2>3. PICK k \in KeysAfter(e) : keys' = k /\ cut' = (cut \/ Cuts(e, k))
    BY <1>9 DEF Stops
  <2>4. k \in [seq : Nat \cup {-1}, hash : Nat]
    BY DEF KeysAfter
  <2>5. cut' \in BOOLEAN
    BY <2>3
  <2>6. lineFaults' \in 0 .. MaxLineFaults
    BY <1>9, LinesAssumption DEF Stops
  <2>7. QED
    BY <1>9, <2>2, <2>3, <2>4, <2>5, <2>6 DEF Stops
<1>10. QED
  BY <1>1, <1>2, <1>3, <1>4, <1>5, <1>6, <1>7, <1>8, <1>9 DEF LinesNext

\* What the invariant says of an emitter at work.
LEMMA AtWorkUncut ==
  ASSUME LinesTypeOK, Uncut, NEW e \in Emitter, emitter[e].at # "idle", NEW q, q = emitter[e]
  PROVE  /\ q \in Emission /\ appendLock = e
         /\ \A f \in Emitter \ {e} : emitter[f].at = "idle"
         /\ Len(lines) \in Nat /\ lines \in Seq([seq : Nat, prev : Nat])
         /\ q.at \notin {"setseq", "sethash"} =>
              keys.seq = Len(lines) - 1 /\ keys.hash = Len(lines)
         /\ KeysFit(e) /\ FileInOrder /\ receipts \subseteq 1 .. Len(lines)
<1>1. q \in Emission /\ Len(lines) \in Nat /\ lines \in Seq([seq : Nat, prev : Nat])
  BY DEF LinesTypeOK, Emission
<1>2. appendLock = e /\ \A f \in Emitter \ {e} : emitter[f].at = "idle"
  BY OthersIdle DEF Uncut
<1>3. q.at \notin {"setseq", "sethash"} => ~Behind
  BY <1>2 DEF Behind
<1>4. QED
  BY <1>1, <1>2, <1>3 DEF Uncut, FileInOrder

\* The steps of an emission keep the file in order.
LEMMA EmissionStep ==
  ASSUME LinesTypeOK, Uncut, NEW e \in Emitter, emitter[e].at # "idle",
         GetSeq(e) \/ AppendLine(e) \/ SetSeq(e) \/ SetHash(e) \/ Quorum(e) \/ Unlock(e)
  PROVE  Uncut'
<1>1. PICK q : q = emitter[e]
  OBVIOUS
<1>2. PICK n \in Nat : n = Len(lines)
  BY DEF LinesTypeOK
<1>3. /\ q \in Emission /\ appendLock = e
      /\ \A f \in Emitter \ {e} : emitter[f].at = "idle"
      /\ lines \in Seq([seq : Nat, prev : Nat])
      /\ q.at \notin {"setseq", "sethash"} => keys.seq = n - 1 /\ keys.hash = n
      /\ KeysFit(e) /\ FileInOrder /\ receipts \subseteq 1 .. n
  BY <1>1, <1>2, AtWorkUncut
<1>4. keys \in [seq : Nat \cup {-1}, hash : Nat] /\ emitter \in [Emitter -> Emission]
  BY DEF LinesTypeOK, Emission
<1>5. CASE GetSeq(e)
  <2>1. q.at = "seq" /\ keys.seq + 1 = n
    BY <1>1, <1>2, <1>3, <1>5 DEF GetSeq
  <2>2. PICK p \in Emission : p = [q EXCEPT !.at = "hash", !.seq = n]
    BY <1>3 DEF Emission, EmitterStep
  <2>3. emitter' = [emitter EXCEPT ![e] = p] /\ p.at = "hash" /\ p.seq = n
    BY <1>1, <1>3, <1>4, <1>5, <2>1, <2>2 DEF GetSeq, Emission
  <2>4. UNCHANGED <<lines, keys, appendLock, receipts>>
    BY <1>5 DEF GetSeq
  <2>5. KeysFit(e)'
    BY <1>2, <1>4, <2>3, <2>4 DEF KeysFit
  <2>6. QED
    BY <1>2, <1>3, <2>1, <2>3, <2>4, <2>5, EmitterMoves DEF FileInOrder
<1>6. CASE AppendLine(e)
  <2>1. q.at = "hash" /\ q.seq = n /\ keys.seq = n - 1 /\ keys.hash = n
    BY <1>1, <1>2, <1>3, <1>6 DEF AppendLine, KeysFit
  <2>2. PICK p \in Emission : p = [q EXCEPT !.at = "setseq", !.line = n + 1]
    <3>1. n + 1 \in Nat /\ "setseq" \in EmitterStep
      BY DEF EmitterStep
    <3>2. QED
      BY <1>3, <3>1 DEF Emission
  <2>3. /\ emitter' = [emitter EXCEPT ![e] = p] /\ p.at = "setseq" /\ p.line = n + 1
        /\ p.seq = n
    BY <1>1, <1>2, <1>3, <1>4, <1>6, <2>1, <2>2 DEF AppendLine, Emission
  <2>4. UNCHANGED <<keys, appendLock, receipts>>
    BY <1>6 DEF AppendLine
  <2>5. PICK line : line = [seq |-> n, prev |-> n]
    OBVIOUS
  <2>6. line \in [seq : Nat, prev : Nat] /\ lines' = Append(lines, line)
    BY <1>1, <1>6, <2>1, <2>5 DEF AppendLine
  <2>7. Len(lines') = n + 1 /\ lines'[n + 1] = line
    BY <1>2, <1>3, <2>6
  <2>8. \A i \in 1 .. n : lines'[i] = lines[i]
    BY <1>2, <1>3, <2>6
  <2>9. FileInOrder'
    <3>1. ASSUME NEW i \in 1 .. n + 1 PROVE lines'[i].seq = i - 1 /\ lines'[i].prev = i - 1
      <4>1. CASE i \in 1 .. n
        BY <1>2, <1>3, <2>8, <4>1 DEF FileInOrder
      <4>2. CASE i = n + 1
        BY <2>5, <2>7, <4>2
      <4>3. QED
        BY <4>1, <4>2
    <3>2. QED
      BY <2>7, <3>1 DEF FileInOrder
  <2>10. KeysFit(e)'
    BY <1>4, <2>1, <2>3, <2>4, <2>7 DEF KeysFit
  <2>11. receipts' \subseteq 1 .. Len(lines')
    BY <1>3, <2>4, <2>7
  <2>12. QED
    BY <1>3, <2>3, <2>4, <2>9, <2>10, <2>11, EmitterMoves
<1>7. CASE SetSeq(e)
  <2>1. q.at = "setseq" /\ keys.hash = n - 1 /\ q.line = n /\ q.seq = n - 1
    BY <1>1, <1>2, <1>3, <1>7 DEF SetSeq, KeysFit
  <2>2. PICK p \in Emission : p = [q EXCEPT !.at = "sethash"]
    BY <1>3 DEF Emission, EmitterStep
  <2>3. /\ emitter' = [emitter EXCEPT ![e] = p] /\ p.at = "sethash" /\ p.line = n
        /\ p.seq = n - 1
    BY <1>1, <1>3, <1>4, <1>7, <2>1, <2>2 DEF SetSeq, Emission
  <2>4. UNCHANGED <<lines, appendLock, receipts>>
    BY <1>7 DEF SetSeq
  <2>5. keys'.seq = n - 1 /\ keys'.hash = n - 1
    BY <1>1, <1>4, <1>7, <2>1 DEF SetSeq
  <2>6. KeysFit(e)'
    BY <1>2, <1>4, <2>3, <2>4, <2>5 DEF KeysFit
  <2>7. QED
    BY <1>2, <1>3, <2>3, <2>4, <2>6, EmitterMoves DEF FileInOrder
<1>8. CASE SetHash(e)
  <2>1. q.at = "sethash" /\ keys.seq = n - 1 /\ q.line = n /\ n > 0
    BY <1>1, <1>2, <1>3, <1>4, <1>8 DEF SetHash, KeysFit, Emission
  <2>2. PICK p \in Emission : p = [q EXCEPT !.at = "quorum"]
    BY <1>3 DEF Emission, EmitterStep
  <2>3. emitter' = [emitter EXCEPT ![e] = p] /\ p.at = "quorum" /\ p.line = n
    BY <1>1, <1>3, <1>4, <1>8, <2>1, <2>2 DEF SetHash, Emission
  <2>4. UNCHANGED <<lines, appendLock, receipts>>
    BY <1>8 DEF SetHash
  <2>5. keys'.seq = n - 1 /\ keys'.hash = n
    BY <1>1, <1>4, <1>8, <2>1 DEF SetHash
  <2>6. KeysFit(e)'
    BY <1>2, <1>4, <2>1, <2>3, <2>4, <2>5 DEF KeysFit
  <2>7. QED
    BY <1>2, <1>3, <2>3, <2>4, <2>5, <2>6, EmitterMoves DEF FileInOrder
<1>9. CASE Quorum(e)
  <2>1. q.at = "quorum" /\ q.line = n /\ n > 0 /\ keys.seq = n - 1 /\ keys.hash = n
    BY <1>1, <1>2, <1>3, <1>9 DEF Quorum, KeysFit
  <2>2. PICK p \in Emission : p = [q EXCEPT !.at = "unlock"]
    BY <1>3 DEF Emission, EmitterStep
  <2>3. emitter' = [emitter EXCEPT ![e] = p] /\ p.at = "unlock"
    BY <1>1, <1>3, <1>4, <1>9, <2>1, <2>2 DEF Quorum, Emission
  <2>4. UNCHANGED <<lines, keys, appendLock>>
    BY <1>9 DEF Quorum
  <2>5. receipts' \subseteq 1 .. n
    BY <1>1, <1>3, <1>9, <2>1 DEF Quorum
  <2>6. KeysFit(e)'
    BY <1>4, <2>3 DEF KeysFit
  <2>7. QED
    BY <1>2, <1>3, <2>1, <2>3, <2>4, <2>5, <2>6, EmitterMoves DEF FileInOrder
<1>10. CASE Unlock(e)
  <2>1. q.at = "unlock"
    BY <1>1, <1>10 DEF Unlock
  <2>2. Resting \in Emission /\ Resting.at = "idle"
    BY DEF Resting, Emission, EmitterStep
  <2>3. emitter' = [emitter EXCEPT ![e] = Resting]
    BY <1>10 DEF Unlock
  <2>4. UNCHANGED <<lines, keys, receipts>>
    BY <1>10 DEF Unlock
  <2>5. KeysFit(e)'
    BY <1>4, <2>2, <2>3 DEF KeysFit
  <2>6. QED
    BY <1>2, <1>3, <2>1, <2>2, <2>3, <2>4, <2>5, EmitterMoves DEF FileInOrder
<1>11. QED
  BY <1>5, <1>6, <1>7, <1>8, <1>9, <1>10

\* An emitter that stops has written both keys or neither, or the file is cut.
LEMMA StopStep ==
  ASSUME LinesTypeOK, Uncut, NEW e \in Emitter, Stops(e), ~cut'
  PROVE  Uncut'
<1>1. PICK q : q = emitter[e]
  OBVIOUS
<1>2. PICK n \in Nat : n = Len(lines)
  BY DEF LinesTypeOK
<1>3. q.at \notin {"idle", "unlock"}
  BY <1>1 DEF Stops
<1>4. /\ q \in Emission /\ appendLock = e
      /\ \A f \in Emitter \ {e} : emitter[f].at = "idle"
      /\ q.at \notin {"setseq", "sethash"} => keys.seq = n - 1 /\ keys.hash = n
      /\ KeysFit(e) /\ FileInOrder /\ receipts \subseteq 1 .. n
  BY <1>1, <1>2, <1>3, AtWorkUncut
<1>5. keys \in [seq : Nat \cup {-1}, hash : Nat] /\ emitter \in [Emitter -> Emission]
  BY DEF LinesTypeOK, Emission
<1>6. PICK next \in {"unlock", "idle"} :
        emitter' = [emitter EXCEPT ![e] = [Resting EXCEPT !.at = next]]
  BY DEF Stops
<1>7. PICK p : p = [Resting EXCEPT !.at = next]
  OBVIOUS
<1>8. p \in Emission /\ p.at = next
  BY <1>7 DEF Resting, Emission, EmitterStep
<1>9. emitter' = [emitter EXCEPT ![e] = p] /\ UNCHANGED <<lines, appendLock, receipts>>
  BY <1>6, <1>7 DEF Stops
<1>10. PICK k \in KeysAfter(e) : keys' = k /\ cut' = (cut \/ Cuts(e, k))
  BY DEF Stops
<1>11. ~Cuts(e, k)
  BY <1>10
<1>12. keys'.seq = n - 1 /\ keys'.hash = n
  <2>1. CASE q.at \notin {"setseq", "sethash"}
    <3>1. k = keys
      BY <1>1, <2>1 DEF KeysAfter
    <3>2. QED
      BY <1>4, <1>10, <2>1, <3>1
  <2>2. CASE q.at = "setseq"
    <3>1. keys.hash = n - 1 /\ q.line = n
      BY <1>1, <1>2, <1>4, <2>2 DEF KeysFit
    <3>2. k = keys \/ k = [keys EXCEPT !.seq = q.seq]
      BY <1>1, <2>2 DEF KeysAfter
    <3>3. k.hash = n - 1
      BY <1>5, <3>1, <3>2
    <3>4. k.hash = n
      BY <1>1, <1>11, <2>2, <3>1 DEF Cuts
    <3>5. QED
      BY <3>3, <3>4
  <2>3. CASE q.at = "sethash"
    <3>1. keys.hash = n - 1 /\ keys.seq = n - 1 /\ q.line = n
      BY <1>1, <1>2, <1>4, <2>3 DEF KeysFit
    <3>2. k = keys \/ k = [keys EXCEPT !.hash = n]
      BY <1>1, <2>3, <3>1 DEF KeysAfter
    <3>3. k.hash = n
      BY <1>1, <1>11, <2>3, <3>1 DEF Cuts
    <3>4. k.seq = n - 1
      BY <1>5, <3>1, <3>2
    <3>5. QED
      BY <1>10, <3>3, <3>4
  <2>4. QED
    BY <2>1, <2>2, <2>3
<1>13. KeysFit(e)'
  BY <1>5, <1>8, <1>9 DEF KeysFit
<1>14. QED
  BY <1>2, <1>4, <1>8, <1>9, <1>12, <1>13, EmitterMoves DEF FileInOrder

\* Every step of the emitters, and every failure of theirs, keeps it.
LEMMA LinesInductive == LinesIInv /\ [LinesNext]_lineVars => LinesIInv'
<1> SUFFICES ASSUME LinesIInv, [LinesNext]_lineVars PROVE LinesIInv'
  OBVIOUS
<1>1. LinesTypeOK /\ LinesTypeOK'
  BY LinesTyped DEF LinesIInv
<1>2. cut => cut'
  BY <1>1 DEF LinesNext, LeftLockExpires, HeldLockLapses, Acquire, GetSeq, AppendLine, SetSeq,
     SetHash, Quorum, Unlock, Stops, lineVars
<1>3. SUFFICES ASSUME Uncut, ~cut' PROVE Uncut'
  BY <1>1, <1>2 DEF LinesIInv
<1>4. ASSUME UNCHANGED <<lines, keys, emitter, receipts>>,
             \A e \in Emitter : emitter[e].at # "idle" => appendLock' = e
      PROVE  Uncut'
  BY <1>3, <1>4 DEF Uncut, OneEmitter, KeysFit, Behind
<1>5. CASE UNCHANGED lineVars
  BY <1>3, <1>4, <1>5 DEF lineVars, Uncut, OneEmitter
<1>6. CASE LeftLockExpires
  <2>1. \A e \in Emitter : emitter[e].at = "idle"
    BY <1>3, <1>6 DEF LeftLockExpires, Uncut, OneEmitter
  <2>2. QED
    BY <1>4, <1>6, <2>1 DEF LeftLockExpires
<1>7. CASE HeldLockLapses
  BY <1>3, <1>7 DEF HeldLockLapses
<1>8. ASSUME NEW e \in Emitter, Acquire(e) PROVE Uncut'
  <2>1. \A f \in Emitter : emitter[f].at = "idle"
    BY <1>3, <1>8, LinesAssumption DEF Acquire, Uncut, OneEmitter
  <2>2. ~Behind
    BY <2>1 DEF Behind
  <2>3. PICK p : p = [emitter[e] EXCEPT !.at = "seq"]
    OBVIOUS
  <2>4. emitter[e] \in Emission
    BY <1>1 DEF LinesTypeOK, Emission
  <2>5. p \in Emission /\ p.at = "seq"
    BY <2>3, <2>4 DEF Emission, EmitterStep
  <2>6. emitter' = [emitter EXCEPT ![e] = p]
    BY <1>8, <2>3 DEF Acquire
  <2>7. appendLock' = e /\ UNCHANGED <<lines, keys, receipts>>
    BY <1>8 DEF Acquire
  <2>8. KeysFit(e)'
    BY <1>1, <2>5, <2>6 DEF KeysFit, LinesTypeOK
  <2>9. /\ keys'.seq = Len(lines') - 1 /\ keys'.hash = Len(lines')
        /\ FileInOrder' /\ receipts' \subseteq 1 .. Len(lines')
    BY <1>3, <2>2, <2>7 DEF Uncut, FileInOrder
  <2>10. QED
    BY <1>1, <2>1, <2>5, <2>6, <2>7, <2>8, <2>9, EmitterMoves
<1>9. ASSUME NEW e \in Emitter,
             GetSeq(e) \/ AppendLine(e) \/ SetSeq(e) \/ SetHash(e) \/ Quorum(e) \/ Unlock(e)
      PROVE  Uncut'
  <2>1. emitter[e].at # "idle"
    BY <1>9 DEF GetSeq, AppendLine, SetSeq, SetHash, Quorum, Unlock
  <2>2. QED
    BY <1>1, <1>3, <1>9, <2>1, EmissionStep
<1>10. ASSUME NEW e \in Emitter, Stops(e) PROVE Uncut'
  BY <1>1, <1>3, <1>10, StopStep
<1>11. QED
  BY <1>5, <1>6, <1>7, <1>8, <1>9, <1>10 DEF LinesNext

\* It holds of an empty file.
LEMMA LinesStart == LinesInit => LinesIInv
<1> SUFFICES ASSUME LinesInit PROVE LinesIInv
  OBVIOUS
<1>1. LinesTypeOK
  <2>1. lines \in Seq([seq : Nat, prev : Nat])
    BY DEF LinesInit
  <2>2. keys \in [seq : Nat \cup {-1}, hash : Nat]
    BY DEF LinesInit
  <2>3. emitter \in [Emitter -> [at : EmitterStep, seq : Nat, line : Nat]]
    BY DEF LinesInit, Resting, EmitterStep
  <2>4. lineFaults \in 0 .. MaxLineFaults
    BY LinesAssumption DEF LinesInit
  <2>5. QED
    BY <2>1, <2>2, <2>3, <2>4 DEF LinesInit, LinesTypeOK
<1>2. Len(lines) = 0 /\ \A e \in Emitter : emitter[e].at = "idle"
  BY DEF LinesInit, Resting
<1>3. Uncut
  BY <1>2 DEF LinesInit, Uncut, OneEmitter, KeysFit, Behind
<1>4. QED
  BY <1>1, <1>3 DEF LinesIInv

\* The per-event file verifies line by line, for any number of emitters and
\* lines, unless a writer was cut short between its line and its keys or lost
\* its lock (_emit_per_event, _verify_per_event).
THEOREM FileVerifiesCorrect == LinesSpec => []FileVerifies
<1>1. LinesIInv => FileVerifies
  <2> SUFFICES ASSUME LinesIInv, ~cut
               PROVE  /\ Refused = {}
                      /\ \A i, j \in receipts : lines[i].seq = lines[j].seq => i = j
    BY DEF FileVerifies
  <2>1. Uncut /\ lines \in Seq([seq : Nat, prev : Nat])
    BY DEF LinesIInv, LinesTypeOK
  <2>2. DOMAIN lines = 1 .. Len(lines)
    BY <2>1
  <2>3. Refused = {}
    BY <2>1, <2>2 DEF Refused, Uncut
  <2>4. ASSUME NEW i \in receipts, NEW j \in receipts, lines[i].seq = lines[j].seq PROVE i = j
    <3>1. i \in 1 .. Len(lines) /\ j \in 1 .. Len(lines)
      BY <2>1 DEF Uncut
    <3>2. lines[i].seq = i - 1 /\ lines[j].seq = j - 1
      BY <2>1, <3>1 DEF Uncut
    <3>3. i \in Int /\ j \in Int
      BY <3>1
    <3>4. i - 1 = j - 1
      BY <2>4, <3>2
    <3>5. QED
      BY <3>3, <3>4
  <2>5. QED
    BY <2>3, <2>4
<1>2. QED
  BY <1>1, LinesStart, LinesInductive, PTL DEF LinesSpec

---------------------------------------------------------------------------
(* The Merkle tree: what the loops compute turn by turn.  Each recursion   *)
(* defines a function, because its first turns can always be taken and     *)
(* always come out the same.                                               *)

\* A set of numbers that holds 0, and n + 1 with n, holds them all.
LEMMA AllNumbers ==
  ASSUME NEW S, S \subseteq Nat, 0 \in S, \A n \in S : n + 1 \in S
  PROVE  S = Nat
<1> DEFINE R == {ss \in Nat \X Nat : ss[1] < ss[2]}
           T == Nat \ S
<1>1. IsWellFoundedOn(R, Nat)
  BY NatLessThanWellFounded DEF OpToRel
<1>2. SUFFICES ASSUME T # {} PROVE FALSE
  OBVIOUS
<1>3. PICK x \in T : \A y \in T : <<y, x>> \notin R
  <2>1. T \subseteq Nat
    OBVIOUS
  <2>2. HIDE DEF R, T
  <2>3. QED
    BY <1>1, <1>2, <2>1, WFMin
<1>4. x \in Nat /\ x # 0 /\ x - 1 \in Nat
  OBVIOUS
<1>5. <<x - 1, x>> \in R
  BY <1>4
<1>6. x - 1 \in S
  BY <1>3, <1>4, <1>5
<1>7. QED
  BY <1>4, <1>6

\* The first n turns.
Turns(g, list, n) ==
  /\ g[0] = list
  /\ \A m \in 1 .. n : g[m] = Above(g[m - 1])

\* The first turns come out the same however many follow.
LEMMA TurnsAgree ==
  ASSUME NEW list, NEW g, NEW h, NEW j \in Nat, NEW k \in Nat, j <= k,
         Turns(g, list, j), Turns(h, list, k)
  PROVE  g[j] = h[j]
<1> DEFINE S == {m \in Nat : m <= j => g[m] = h[m]}
<1>1. 0 \in S
  BY DEF Turns
<1>2. ASSUME NEW m \in S PROVE m + 1 \in S
  <2> SUFFICES ASSUME m + 1 <= j PROVE g[m + 1] = h[m + 1]
    OBVIOUS
  <2>1. m \in Nat /\ m + 1 \in 1 .. j /\ m + 1 \in 1 .. k /\ (m + 1) - 1 = m /\ m <= j
    OBVIOUS
  <2>2. g[m + 1] = Above(g[m]) /\ h[m + 1] = Above(h[m])
    BY <2>1 DEF Turns
  <2>3. QED
    BY <2>1, <2>2
<1>3. S = Nat
  BY <1>1, <1>2, AllNumbers
<1>4. QED
  BY <1>3

\* Any number of turns can be taken.
LEMMA TurnsTaken ==
  ASSUME NEW list, NEW n \in Nat
  PROVE  \E g : Turns(g, list, n)
<1> DEFINE S == {m \in Nat : \E g : Turns(g, list, m)}
<1>1. 0 \in S
  <2>1. Turns([m \in {0} |-> list], list, 0)
    BY DEF Turns
  <2>2. QED
    BY <2>1
<1>2. ASSUME NEW m \in S PROVE m + 1 \in S
  <2>1. PICK g : Turns(g, list, m)
    OBVIOUS
  <2>2. PICK h : h = [k \in Nat |-> IF k = m + 1 THEN Above(g[m]) ELSE g[k]]
    OBVIOUS
  <2>3. m \in Nat /\ h[0] = g[0] /\ h[m + 1] = Above(g[m]) /\ h[m] = g[m]
    BY <2>2
  <2>4. ASSUME NEW k \in 1 .. m + 1 PROVE h[k] = Above(h[k - 1])
    <3>1. CASE k = m + 1
      <4>1. k - 1 = m
        BY <3>1
      <4>2. QED
        BY <2>3, <3>1, <4>1
    <3>2. CASE k \in 1 .. m
      <4>1. k \in Nat /\ k - 1 \in Nat /\ k # m + 1 /\ k - 1 # m + 1
        BY <3>2
      <4>2. h[k] = g[k] /\ h[k - 1] = g[k - 1]
        BY <2>2, <4>1
      <4>3. QED
        BY <2>1, <3>2, <4>2 DEF Turns
    <3>3. QED
      BY <3>1, <3>2
  <2>5. Turns(h, list, m + 1)
    BY <2>1, <2>3, <2>4 DEF Turns
  <2>6. QED
    BY <2>5
<1>3. S = Nat
  BY <1>1, <1>2, AllNumbers
<1>4. QED
  BY <1>3

\* So each level is the one above the level before.
LEMMA LevelsStep ==
  ASSUME NEW list
  PROVE  /\ Levels(list)[0] = list
         /\ \A n \in Nat : Levels(list)[n + 1] = Above(Levels(list)[n])
<1> DEFINE first(n) == CHOOSE g : Turns(g, list, n)
           G == [n \in Nat |-> first(n)[n]]
<1>1. \A n \in Nat : Turns(first(n), list, n)
  BY TurnsTaken
<1>2. G[0] = list
  BY <1>1 DEF Turns
<1>3. ASSUME NEW n \in Nat PROVE G[n + 1] = Above(G[n])
  <2>1. n + 1 \in 1 .. n + 1 /\ n + 1 \in Nat /\ (n + 1) - 1 = n /\ n <= n + 1
    OBVIOUS
  <2>2. Turns(first(n), list, n) /\ Turns(first(n + 1), list, n + 1)
    BY <1>1, <2>1
  <2>3. first(n)[n] = first(n + 1)[n]
    <3> HIDE DEF first
    <3> QED BY <2>1, <2>2, TurnsAgree
  <2>4. first(n + 1)[n + 1] = Above(first(n + 1)[n])
    BY <2>1, <2>2 DEF Turns
  <2>5. QED
    BY <2>1, <2>3, <2>4
<1>4. G = [n \in Nat |-> IF n = 0 THEN list ELSE Above(G[n - 1])]
  <2>1. ASSUME NEW n \in Nat PROVE G[n] = IF n = 0 THEN list ELSE Above(G[n - 1])
    <3>1. CASE n = 0
      BY <1>2, <3>1
    <3>2. CASE n # 0
      <4>1. n - 1 \in Nat /\ (n - 1) + 1 = n
        BY <3>2
      <4>2. G[n] = Above(G[n - 1])
        <5> HIDE DEF G
        <5> QED BY <1>3, <4>1
      <4>3. QED
        BY <3>2, <4>2
    <3>3. QED
      BY <3>1, <3>2
  <2>2. DOMAIN G = Nat /\ G = [n \in Nat |-> G[n]]
    OBVIOUS
  <2>3. QED
    <3> HIDE DEF G
    <3> QED BY <2>1, <2>2
<1>5. Levels(list) = [n \in Nat |-> IF n = 0 THEN list ELSE Above(Levels(list)[n - 1])]
  <2> HIDE DEF G
  <2> QED BY <1>4, Zenon DEF Levels
<1>6. QED
  <2>1. Levels(list)[0] = list
    BY <1>5
  <2>2. ASSUME NEW n \in Nat PROVE Levels(list)[n + 1] = Above(Levels(list)[n])
    <3>1. n + 1 \in Nat /\ n + 1 # 0 /\ (n + 1) - 1 = n
      OBVIOUS
    <3>2. QED
      BY <1>5, <3>1
  <2>3. QED
    BY <2>1, <2>2

\* The first n halvings of the place.
Halvings(g, i, n) ==
  /\ g[0] = i
  /\ \A m \in 1 .. n : g[m] = g[m - 1] \div 2

\* The same of the places over a place,
LEMMA HalvingsAgree ==
  ASSUME NEW i, NEW g, NEW h, NEW j \in Nat, NEW k \in Nat, j <= k,
         Halvings(g, i, j), Halvings(h, i, k)
  PROVE  g[j] = h[j]
<1> DEFINE S == {m \in Nat : m <= j => g[m] = h[m]}
<1>1. 0 \in S
  BY DEF Halvings
<1>2. ASSUME NEW m \in S PROVE m + 1 \in S
  <2> SUFFICES ASSUME m + 1 <= j PROVE g[m + 1] = h[m + 1]
    OBVIOUS
  <2>1. m \in Nat /\ m + 1 \in 1 .. j /\ m + 1 \in 1 .. k /\ (m + 1) - 1 = m /\ m <= j
    OBVIOUS
  <2>2. g[m + 1] = g[m] \div 2 /\ h[m + 1] = h[m] \div 2
    BY <2>1 DEF Halvings
  <2>3. QED
    BY <2>1, <2>2
<1>3. S = Nat
  BY <1>1, <1>2, AllNumbers
<1>4. QED
  BY <1>3

\* any number of which there are;
LEMMA HalvingsTaken ==
  ASSUME NEW i, NEW n \in Nat
  PROVE  \E g : Halvings(g, i, n)
<1> DEFINE S == {m \in Nat : \E g : Halvings(g, i, m)}
<1>1. 0 \in S
  <2>1. Halvings([m \in {0} |-> i], i, 0)
    BY DEF Halvings
  <2>2. QED
    BY <2>1
<1>2. ASSUME NEW m \in S PROVE m + 1 \in S
  <2>1. PICK g : Halvings(g, i, m)
    OBVIOUS
  <2>2. PICK h : h = [k \in Nat |-> IF k = m + 1 THEN g[m] \div 2 ELSE g[k]]
    OBVIOUS
  <2>3. m \in Nat /\ h[0] = g[0] /\ h[m + 1] = g[m] \div 2 /\ h[m] = g[m]
    BY <2>2
  <2>4. ASSUME NEW k \in 1 .. m + 1 PROVE h[k] = h[k - 1] \div 2
    <3>1. CASE k = m + 1
      <4>1. k - 1 = m
        BY <3>1
      <4>2. QED
        BY <2>3, <3>1, <4>1
    <3>2. CASE k \in 1 .. m
      <4>1. k \in Nat /\ k - 1 \in Nat /\ k # m + 1 /\ k - 1 # m + 1
        BY <3>2
      <4>2. h[k] = g[k] /\ h[k - 1] = g[k - 1]
        BY <2>2, <4>1
      <4>3. QED
        BY <2>1, <3>2, <4>2 DEF Halvings
    <3>3. QED
      BY <3>1, <3>2
  <2>5. Halvings(h, i, m + 1)
    BY <2>1, <2>3, <2>4 DEF Halvings
  <2>6. QED
    BY <2>5
<1>3. S = Nat
  BY <1>1, <1>2, AllNumbers
<1>4. QED
  BY <1>3

\* so each place is half the one before.
LEMMA PlacesStep ==
  ASSUME NEW i
  PROVE  /\ Places(i)[0] = i
         /\ \A n \in Nat : Places(i)[n + 1] = Places(i)[n] \div 2
<1> DEFINE first(n) == CHOOSE g : Halvings(g, i, n)
           G == [n \in Nat |-> first(n)[n]]
<1>1. \A n \in Nat : Halvings(first(n), i, n)
  BY HalvingsTaken
<1>2. G[0] = i
  BY <1>1 DEF Halvings
<1>3. ASSUME NEW n \in Nat PROVE G[n + 1] = G[n] \div 2
  <2>1. n + 1 \in 1 .. n + 1 /\ n + 1 \in Nat /\ (n + 1) - 1 = n /\ n <= n + 1
    OBVIOUS
  <2>2. Halvings(first(n), i, n) /\ Halvings(first(n + 1), i, n + 1)
    BY <1>1, <2>1
  <2>3. first(n)[n] = first(n + 1)[n]
    <3> HIDE DEF first
    <3> QED BY <2>1, <2>2, HalvingsAgree
  <2>4. first(n + 1)[n + 1] = first(n + 1)[n] \div 2
    BY <2>1, <2>2 DEF Halvings
  <2>5. QED
    BY <2>1, <2>3, <2>4
<1>4. G = [n \in Nat |-> IF n = 0 THEN i ELSE G[n - 1] \div 2]
  <2>1. ASSUME NEW n \in Nat PROVE G[n] = IF n = 0 THEN i ELSE G[n - 1] \div 2
    <3>1. CASE n = 0
      BY <1>2, <3>1
    <3>2. CASE n # 0
      <4>1. n - 1 \in Nat /\ (n - 1) + 1 = n
        BY <3>2
      <4>2. G[n] = G[n - 1] \div 2
        <5> HIDE DEF G
        <5> QED BY <1>3, <4>1
      <4>3. QED
        BY <3>2, <4>2
    <3>3. QED
      BY <3>1, <3>2
  <2>2. DOMAIN G = Nat /\ G = [n \in Nat |-> G[n]]
    OBVIOUS
  <2>3. QED
    <3> HIDE DEF G
    <3> QED BY <2>1, <2>2
<1>5. Places(i) = [n \in Nat |-> IF n = 0 THEN i ELSE Places(i)[n - 1] \div 2]
  <2> HIDE DEF G
  <2> QED BY <1>4, Zenon DEF Places
<1>6. QED
  <2>1. Places(i)[0] = i
    BY <1>5
  <2>2. ASSUME NEW n \in Nat PROVE Places(i)[n + 1] = Places(i)[n] \div 2
    <3>1. n + 1 \in Nat /\ n + 1 # 0 /\ (n + 1) - 1 = n
      OBVIOUS
    <3>2. QED
      BY <1>5, <3>1
  <2>3. QED
    BY <2>1, <2>2

\* The first n joins with the entries of a proof.
Joins(g, digest, proof, n) ==
  /\ g[0] = digest
  /\ \A m \in 1 .. n : g[m] = Join(proof[m], g[m - 1])

\* And the same of the running hash of verify_inclusion,
LEMMA JoinsAgree ==
  ASSUME NEW digest, NEW proof, NEW g, NEW h, NEW j \in Nat, NEW k \in Nat, j <= k,
         Joins(g, digest, proof, j), Joins(h, digest, proof, k)
  PROVE  g[j] = h[j]
<1> DEFINE S == {m \in Nat : m <= j => g[m] = h[m]}
<1>1. 0 \in S
  BY DEF Joins
<1>2. ASSUME NEW m \in S PROVE m + 1 \in S
  <2> SUFFICES ASSUME m + 1 <= j PROVE g[m + 1] = h[m + 1]
    OBVIOUS
  <2>1. m \in Nat /\ m + 1 \in 1 .. j /\ m + 1 \in 1 .. k /\ (m + 1) - 1 = m /\ m <= j
    OBVIOUS
  <2>2. g[m + 1] = Join(proof[m + 1], g[m]) /\ h[m + 1] = Join(proof[m + 1], h[m])
    BY <2>1 DEF Joins
  <2>3. QED
    BY <2>1, <2>2
<1>3. S = Nat
  BY <1>1, <1>2, AllNumbers
<1>4. QED
  BY <1>3

\* which can join any number of entries;
LEMMA JoinsTaken ==
  ASSUME NEW digest, NEW proof, NEW n \in Nat
  PROVE  \E g : Joins(g, digest, proof, n)
<1> DEFINE S == {m \in Nat : \E g : Joins(g, digest, proof, m)}
<1>1. 0 \in S
  <2>1. Joins([m \in {0} |-> digest], digest, proof, 0)
    BY DEF Joins
  <2>2. QED
    BY <2>1
<1>2. ASSUME NEW m \in S PROVE m + 1 \in S
  <2>1. PICK g : Joins(g, digest, proof, m)
    OBVIOUS
  <2>2. PICK h : h = [k \in Nat |-> IF k = m + 1 THEN Join(proof[m + 1], g[m]) ELSE g[k]]
    OBVIOUS
  <2>3. m \in Nat /\ h[0] = g[0] /\ h[m + 1] = Join(proof[m + 1], g[m]) /\ h[m] = g[m]
    BY <2>2
  <2>4. ASSUME NEW k \in 1 .. m + 1 PROVE h[k] = Join(proof[k], h[k - 1])
    <3>1. CASE k = m + 1
      <4>1. k - 1 = m
        BY <3>1
      <4>2. QED
        BY <2>3, <3>1, <4>1
    <3>2. CASE k \in 1 .. m
      <4>1. k \in Nat /\ k - 1 \in Nat /\ k # m + 1 /\ k - 1 # m + 1
        BY <3>2
      <4>2. h[k] = g[k] /\ h[k - 1] = g[k - 1]
        BY <2>2, <4>1
      <4>3. QED
        BY <2>1, <3>2, <4>2 DEF Joins
    <3>3. QED
      BY <3>1, <3>2
  <2>5. Joins(h, digest, proof, m + 1)
    BY <2>1, <2>3, <2>4 DEF Joins
  <2>6. QED
    BY <2>5
<1>3. S = Nat
  BY <1>1, <1>2, AllNumbers
<1>4. QED
  BY <1>3

\* so each hash joins the next entry to the one before.
LEMMA HashesStep ==
  ASSUME NEW digest, NEW proof
  PROVE  /\ Hashes(digest, proof)[0] = digest
         /\ \A n \in Nat : Hashes(digest, proof)[n + 1] = Join(proof[n + 1], Hashes(digest, proof)[n])
<1> DEFINE first(n) == CHOOSE g : Joins(g, digest, proof, n)
           G == [n \in Nat |-> first(n)[n]]
<1>1. \A n \in Nat : Joins(first(n), digest, proof, n)
  BY JoinsTaken
<1>2. G[0] = digest
  BY <1>1 DEF Joins
<1>3. ASSUME NEW n \in Nat PROVE G[n + 1] = Join(proof[n + 1], G[n])
  <2>1. n + 1 \in 1 .. n + 1 /\ n + 1 \in Nat /\ (n + 1) - 1 = n /\ n <= n + 1
    OBVIOUS
  <2>2. Joins(first(n), digest, proof, n) /\ Joins(first(n + 1), digest, proof, n + 1)
    BY <1>1, <2>1
  <2>3. first(n)[n] = first(n + 1)[n]
    <3>1. PICK k \in Nat : k = n + 1 /\ n <= k
      BY <2>1
    <3>2. PICK g, h : g = first(n) /\ h = first(n + 1)
      OBVIOUS
    <3>3. Joins(g, digest, proof, n) /\ Joins(h, digest, proof, k)
      BY <2>2, <3>1, <3>2
    <3>4. n <= k
      BY <3>1
    <3>5. g[n] = h[n]
      <4> HIDE DEF first, G
      <4> QED BY <3>3, <3>4, JoinsAgree
    <3>6. QED
      BY <3>1, <3>2, <3>5
  <2>4. first(n + 1)[n + 1] = Join(proof[n + 1], first(n + 1)[n])
    BY <2>1, <2>2 DEF Joins
  <2>5. QED
    BY <2>1, <2>3, <2>4
<1>4. G = [n \in Nat |-> IF n = 0 THEN digest ELSE Join(proof[n], G[n - 1])]
  <2>1. ASSUME NEW n \in Nat PROVE G[n] = IF n = 0 THEN digest ELSE Join(proof[n], G[n - 1])
    <3>1. CASE n = 0
      BY <1>2, <3>1
    <3>2. CASE n # 0
      <4>1. n - 1 \in Nat /\ (n - 1) + 1 = n
        BY <3>2
      <4>2. G[n] = Join(proof[n], G[n - 1])
        <5> HIDE DEF G
        <5> QED BY <1>3, <4>1
      <4>3. QED
        BY <3>2, <4>2
    <3>3. QED
      BY <3>1, <3>2
  <2>2. DOMAIN G = Nat /\ G = [n \in Nat |-> G[n]]
    OBVIOUS
  <2>3. QED
    <3> HIDE DEF G
    <3> QED BY <2>1, <2>2
<1>5. Hashes(digest, proof) = [n \in Nat |-> IF n = 0 THEN digest ELSE Join(proof[n], Hashes(digest, proof)[n - 1])]
  <2> HIDE DEF G
  <2> QED BY <1>4, Zenon DEF Hashes
<1>6. QED
  <2>1. Hashes(digest, proof)[0] = digest
    BY <1>5
  <2>2. ASSUME NEW n \in Nat PROVE Hashes(digest, proof)[n + 1] = Join(proof[n + 1], Hashes(digest, proof)[n])
    <3>1. n + 1 \in Nat /\ n + 1 # 0 /\ (n + 1) - 1 = n
      OBVIOUS
    <3>2. QED
      BY <1>5, <3>1
  <2>3. QED
    BY <2>1, <2>2

---------------------------------------------------------------------------
(* The levels *)

\* s has n elements, whatever they are.
List(s, n) == n \in Nat /\ s \in Seq({s[i] : i \in 1 .. n}) /\ Len(s) = n

\* A function on 1 .. n is a list of n elements,
LEMMA ListOf ==
  ASSUME NEW n \in Nat, NEW s, s = [i \in 1 .. n |-> s[i]]
  PROVE  List(s, n)
<1> DEFINE X == {s[i] : i \in 1 .. n}
<1>1. s \in [1 .. n -> X]
  <2>1. \A i \in 1 .. n : s[i] \in X
    OBVIOUS
  <2>2. HIDE DEF X
  <2>3. QED
    BY <2>1
<1>2. s \in Seq(X) /\ Len(s) = n
  <2>1. HIDE DEF X
  <2>2. QED
    BY <1>1
<1>3. QED
  BY <1>2 DEF List

\* and a list of n elements is such a function.
LEMMA ListIs ==
  ASSUME NEW n, NEW s, List(s, n)
  PROVE  n \in Nat /\ Len(s) = n /\ DOMAIN s = 1 .. n /\ s = [i \in 1 .. n |-> s[i]]
<1> DEFINE X == {s[i] : i \in 1 .. n}
<1>1. s \in Seq(X) /\ Len(s) = n /\ n \in Nat
  BY DEF List
<1>2. HIDE DEF X
<1>3. QED
  BY <1>1

\* Padding makes the length even and changes no element.
LEMMA PaddedList ==
  ASSUME NEW n, NEW s, List(s, n), n > 0, NEW m, m = 2 * ((n + 1) \div 2)
  PROVE  /\ List(Padded(s), m) /\ m \in n .. n + 1
         /\ \A i \in 1 .. n : Padded(s)[i] = s[i]
         /\ m > n => Padded(s)[m] = s[n]
<1> DEFINE X == {s[i] : i \in 1 .. n}
<1>1. s \in Seq(X) /\ Len(s) = n /\ n \in Nat /\ n \in 1 .. n
  BY DEF List
<1>2. s[n] \in X
  BY <1>1
<1>3. CASE n % 2 = 1
  <2>1. m = n + 1 /\ m \in Nat
    BY <1>1, <1>3
  <2>2. Padded(s) = Append(s, s[n])
    BY <1>1, <1>3 DEF Padded
  <2>3. /\ Padded(s) \in Seq(X) /\ Len(Padded(s)) = m /\ Padded(s)[m] = s[n]
        /\ \A i \in 1 .. n : Padded(s)[i] = s[i]
    <3> HIDE DEF X
    <3> QED BY <1>1, <1>2, <2>1, <2>2
  <2>4. Padded(s) = [i \in 1 .. m |-> Padded(s)[i]]
    <3> HIDE DEF X
    <3> QED BY <2>3
  <2>5. List(Padded(s), m)
    BY <2>1, <2>4, ListOf
  <2>6. m \in n .. n + 1
    BY <1>1, <2>1
  <2>7. QED
    BY <2>3, <2>5, <2>6
<1>4. CASE n % 2 # 1
  <2>1. m = n
    BY <1>1, <1>4
  <2>2. Padded(s) = s
    BY <1>1, <1>4 DEF Padded
  <2>3. QED
    BY <1>1, <2>1, <2>2
<1>5. QED
  BY <1>3, <1>4

\* The level above has half the nodes, each of two neighbours.
LEMMA AboveList ==
  ASSUME NEW n, NEW s, List(s, n), n > 1
  PROVE  /\ List(Above(s), (n + 1) \div 2)
         /\ \A i \in 1 .. (n + 1) \div 2 :
              Above(s)[i] = <<Padded(s)[2 * i - 1], Padded(s)[2 * i]>>
<1> DEFINE k == (n + 1) \div 2
<1>1. n \in Nat /\ Len(s) = n
  BY ListIs
<1>2. k \in Nat
  BY <1>1
<1>3. Len(Padded(s)) = 2 * k
  <2>1. PICK m : m = 2 * ((n + 1) \div 2)
    OBVIOUS
  <2>2. n > 0 /\ List(s, n)
    BY <1>1
  <2>3. List(Padded(s), m)
    BY <2>1, <2>2, PaddedList
  <2>4. QED
    BY <2>1, <2>3, ListIs
<1>4. Above(s) = [i \in 1 .. k |-> <<Padded(s)[2 * i - 1], Padded(s)[2 * i]>>]
  <2>1. Len(Padded(s)) \div 2 = k
    BY <1>2, <1>3
  <2>2. Above(s) = Parents(Padded(s))
    BY <1>1 DEF Above
  <2>3. QED
    BY <2>1, <2>2 DEF Parents, NodeDigest
<1>5. \A i \in 1 .. k : Above(s)[i] = <<Padded(s)[2 * i - 1], Padded(s)[2 * i]>>
  BY <1>4
<1>6. Above(s) = [i \in 1 .. k |-> Above(s)[i]]
  BY <1>4
<1>7. QED
  BY <1>2, <1>5, <1>6, ListOf

\* A level is determined by the one above it.
LEMMA AboveTells ==
  ASSUME NEW n, NEW s, NEW t, List(s, n), List(t, n), Above(s) = Above(t)
  PROVE  s = t
<1>1. /\ n \in Nat /\ Len(s) = n /\ Len(t) = n
      /\ s = [i \in 1 .. n |-> s[i]] /\ t = [i \in 1 .. n |-> t[i]]
  BY ListIs
<1>2. CASE n <= 1
  BY <1>1, <1>2 DEF Above
<1>3. CASE n > 1
  <2>1. ASSUME NEW i \in 1 .. n PROVE s[i] = t[i]
    <3>1. PICK j \in 1 .. (n + 1) \div 2 : i = 2 * j - 1 \/ i = 2 * j
      <4>1. (i + 1) \div 2 \in 1 .. (n + 1) \div 2
        BY <1>1
      <4>2. i = 2 * ((i + 1) \div 2) - 1 \/ i = 2 * ((i + 1) \div 2)
        BY <1>1
      <4>3. QED
        BY <4>1, <4>2
    <3>2. <<Padded(s)[2 * j - 1], Padded(s)[2 * j]>> = <<Padded(t)[2 * j - 1], Padded(t)[2 * j]>>
      BY <1>3, AboveList
    <3>3. Padded(s)[i] = Padded(t)[i]
      BY <3>1, <3>2
    <3>4. Padded(s)[i] = s[i] /\ Padded(t)[i] = t[i]
      <4>1. PICK m : m = 2 * ((n + 1) \div 2)
        OBVIOUS
      <4>2. QED
        BY <1>1, <1>3, <4>1, PaddedList
    <3>5. QED
      BY <3>3, <3>4
  <2>2. QED
    BY <1>1, <2>1
<1>4. QED
  BY <1>1, <1>2, <1>3

\* The levels of two lists of one length have one length, less by a node at
\* least from turn to turn until one is left.
Narrow(s, t, n, k) ==
  \E w \in 1 .. n : /\ List(Levels(s)[k], w) /\ List(Levels(t)[k], w)
                    /\ w = 1 \/ w + k <= n

LEMMA LevelsNarrow ==
  ASSUME NEW n, n > 0, NEW s, NEW t, List(s, n), List(t, n), NEW k \in Nat
  PROVE  Narrow(s, t, n, k)
<1> DEFINE S == {m \in Nat : Narrow(s, t, n, m)}
<1>1. n \in Nat /\ n \in 1 .. n /\ n + 0 <= n
  BY ListIs
<1>2. 0 \in S
  BY <1>1, LevelsStep DEF Narrow
<1>3. ASSUME NEW m \in S PROVE m + 1 \in S
  <2>1. PICK w \in 1 .. n : /\ List(Levels(s)[m], w) /\ List(Levels(t)[m], w)
                            /\ w = 1 \/ w + m <= n
    BY DEF Narrow
  <2>2. /\ Levels(s)[m + 1] = Above(Levels(s)[m])
        /\ Levels(t)[m + 1] = Above(Levels(t)[m])
    BY LevelsStep
  <2>3. CASE w = 1
    <3>1. Above(Levels(s)[m]) = Levels(s)[m] /\ Above(Levels(t)[m]) = Levels(t)[m]
      BY <2>1, <2>3, ListIs DEF Above
    <3>2. QED
      BY <2>1, <2>2, <2>3, <3>1 DEF Narrow
  <2>4. CASE w > 1
    <3>1. PICK v : v = (w + 1) \div 2
      OBVIOUS
    <3>2. v \in 1 .. n /\ v + (m + 1) <= n
      BY <1>1, <2>1, <2>4, <3>1
    <3>3. List(Levels(s)[m + 1], v) /\ List(Levels(t)[m + 1], v)
      BY <2>1, <2>2, <2>4, <3>1, AboveList
    <3>4. QED
      BY <3>2, <3>3 DEF Narrow
  <2>5. QED
    BY <2>1, <2>3, <2>4
<1>4. S = Nat
  <2> HIDE DEF S
  <2>1. S \subseteq Nat
    BY DEF S
  <2>2. QED
    BY <1>2, <1>3, <2>1, AllNumbers
<1>5. QED
  BY <1>4

\* After as many turns as there are leaves, the root is left alone.
LEMMA RootAlone ==
  ASSUME NEW n, n > 0, NEW s, List(s, n)
  PROVE  List(Levels(s)[n], 1) /\ MerkleRoot(s) = Levels(s)[n][1]
<1>1. n \in Nat /\ Len(s) = n
  BY ListIs
<1>2. Narrow(s, s, n, n)
  BY <1>1, LevelsNarrow
<1>3. List(Levels(s)[n], 1)
  BY <1>1, <1>2 DEF Narrow
<1>4. s # << >>
  BY <1>1
<1>5. QED
  BY <1>1, <1>3, <1>4 DEF MerkleRoot

\* Two lists of one length and one root are one list.
LEMMA RootTells ==
  ASSUME NEW n, NEW s, NEW t, List(s, n), List(t, n), MerkleRoot(s) = MerkleRoot(t)
  PROVE  s = t
<1>1. n \in Nat
  BY ListIs
<1>2. CASE n = 0
  BY <1>2, ListIs
<1>3. CASE n > 0
  <2> DEFINE S == {k \in Nat : k <= n => Levels(s)[n - k] = Levels(t)[n - k]}
  <2>1. 0 \in S
    <3>1. List(Levels(s)[n], 1) /\ List(Levels(t)[n], 1) /\ Levels(s)[n][1] = Levels(t)[n][1]
      BY <1>3, RootAlone
    <3>2. Levels(s)[n] = Levels(t)[n]
      BY <3>1, ListIs
    <3>3. n - 0 = n
      BY <1>1
    <3>4. QED
      BY <3>2, <3>3
  <2>2. ASSUME NEW k \in S PROVE k + 1 \in S
    <3> SUFFICES ASSUME k + 1 <= n PROVE Levels(s)[n - (k + 1)] = Levels(t)[n - (k + 1)]
      OBVIOUS
    <3>1. PICK m \in Nat : m = n - (k + 1) /\ n - k = m + 1 /\ k <= n
      BY <1>1
    <3>2. Levels(s)[m + 1] = Levels(t)[m + 1]
      BY <3>1
    <3>3. Above(Levels(s)[m]) = Above(Levels(t)[m])
      BY <3>2, LevelsStep
    <3>4. PICK w : List(Levels(s)[m], w) /\ List(Levels(t)[m], w)
      BY <1>3, LevelsNarrow DEF Narrow
    <3>5. QED
      BY <3>1, <3>3, <3>4, AboveTells
  <2>3. S = Nat
    <3>1. S \subseteq Nat
      OBVIOUS
    <3> HIDE DEF S
    <3>2. QED
      BY <2>1, <2>2, <3>1, AllNumbers
  <2>4. Levels(s)[0] = Levels(t)[0]
    <3>1. n \in S /\ n <= n /\ n - n = 0
      BY <1>1, <2>3
    <3>2. QED
      BY <3>1
  <2>5. QED
    BY <2>4, LevelsStep
<1>4. QED
  BY <1>1, <1>2, <1>3

\* The loop ends: every level but the last has two nodes at least, and the
\* last is the one that stays.
LEMMA HeightReached ==
  ASSUME NEW n, n > 0, NEW s, List(s, n), NEW h, h = Height(s)
  PROVE  /\ h \in 0 .. n /\ List(Levels(s)[h], 1) /\ Levels(s)[h] = Levels(s)[n]
         /\ \A k \in 0 .. h - 1 : Len(Levels(s)[k]) > 1
<1> DEFINE L == Levels(s)
           short == {k \in 0 .. n : Len(L[k]) <= 1}
<1>1. n \in Nat /\ Len(s) = n
  BY ListIs
<1>2. \A k \in Nat : \E w \in 1 .. n : List(L[k], w) /\ Len(L[k]) = w
  BY LevelsNarrow, ListIs DEF Narrow
<1>3. n \in short
  BY <1>1, RootAlone, ListIs
<1>4. PICK j \in short : \A k \in short : j <= k
  <2> DEFINE S == {k \in Nat : k \in short}
  <2>1. PICK x \in S : \A y \in S : ~(y < x)
    <3> DEFINE R == {ss \in Nat \X Nat : ss[1] < ss[2]}
    <3>1. IsWellFoundedOn(R, Nat)
      BY NatLessThanWellFounded DEF OpToRel
    <3>2. S \subseteq Nat /\ S # {}
      BY <1>1, <1>3
    <3>3. \E x \in S : \A y \in S : <<y, x>> \notin R
      <4> HIDE DEF R, S
      <4> QED BY <3>1, <3>2, WFMin
    <3>4. QED
      BY <3>3
  <2>2. QED
    BY <1>1, <2>1
<1>5. /\ j \in 0 .. n /\ Len(L[j]) <= 1
      /\ \A k \in 0 .. j - 1 : Len(L[k]) > 1
  <2>1. j \in 0 .. n /\ Len(L[j]) <= 1
    OBVIOUS
  <2>2. ASSUME NEW k \in 0 .. j - 1 PROVE Len(L[k]) > 1
    <3>1. k \in 0 .. n /\ ~(j <= k) /\ k \in Nat
      BY <1>1, <2>1
    <3>2. Len(L[k]) \in Nat
      <4>1. PICK w \in 1 .. n : Len(L[k]) = w
        BY <1>2, <3>1
      <4>2. QED
        BY <1>1, <4>1
    <3>3. ~(Len(L[k]) <= 1)
      BY <1>4, <3>1
    <3>4. QED
      BY <3>2, <3>3
  <2>3. QED
    BY <2>1, <2>2
<1>6. /\ h \in 0 .. n /\ Len(L[h]) <= 1
      /\ \A k \in 0 .. h - 1 : Len(L[k]) > 1
  <2> HIDE DEF L, short
  <2>1. h = CHOOSE k \in 0 .. n : /\ Len(L[k]) <= 1
                                  /\ \A m \in 0 .. k - 1 : Len(L[m]) > 1
    BY <1>1 DEF Height, L
  <2>2. QED
    BY <1>5, <2>1, Zenon
<1>7. List(L[h], 1)
  <2>1. PICK w \in 1 .. n : List(L[h], w) /\ Len(L[h]) = w
    BY <1>1, <1>2, <1>6
  <2>2. w = 1
    BY <1>6, <2>1
  <2>3. QED
    BY <2>1, <2>2
<1>8. L[h] = L[n]
  <2> DEFINE S == {k \in Nat : L[h + k] = L[h]}
  <2>1. h \in Nat /\ h + 0 = h
    BY <1>1, <1>6
  <2>2. 0 \in S
    BY <2>1
  <2>3. ASSUME NEW k \in S PROVE k + 1 \in S
    <3>1. L[h + k] = L[h] /\ h + k \in Nat /\ (h + k) + 1 = h + (k + 1)
      BY <2>1
    <3>2. L[(h + k) + 1] = Above(L[h + k])
      BY <3>1, LevelsStep
    <3>3. Above(L[h]) = L[h]
      BY <1>6 DEF Above
    <3>4. QED
      BY <3>1, <3>2, <3>3
  <2>4. S = Nat
    <3>1. S \subseteq Nat
      OBVIOUS
    <3> HIDE DEF S
    <3>2. QED
      BY <2>2, <2>3, <3>1, AllNumbers
  <2>5. n - h \in S /\ h + (n - h) = n
    BY <1>1, <1>6, <2>1, <2>4
  <2>6. QED
    BY <2>5
<1>9. QED
  BY <1>6, <1>7, <1>8

---------------------------------------------------------------------------
(* The proofs of inclusion *)

\* One turn of inclusion_proof and of verify_inclusion: the entry joins the
\* node at a place to the node over it.
LEMMA JoinClimbs ==
  ASSUME NEW w, w > 1, NEW level, List(level, w), NEW p \in 0 .. w - 1
  PROVE  /\ Join(Sibling(Padded(level), p), level[p + 1]) = Above(level)[p \div 2 + 1]
         /\ p \div 2 \in 0 .. (w + 1) \div 2 - 1
<1>1. w \in Nat /\ p \in Nat
  BY ListIs
<1>2. PICK q \in Nat : q = p \div 2 /\ (p = 2 * q \/ p = 2 * q + 1)
  BY <1>1
<1>3. q + 1 \in 1 .. (w + 1) \div 2 /\ q \in 0 .. (w + 1) \div 2 - 1
  BY <1>1, <1>2
<1>4. Above(level)[q + 1] = <<Padded(level)[2 * (q + 1) - 1], Padded(level)[2 * (q + 1)]>>
  BY <1>3, AboveList
<1>5. Padded(level)[p + 1] = level[p + 1]
  <2>1. PICK m : m = 2 * ((w + 1) \div 2)
    OBVIOUS
  <2>2. p + 1 \in 1 .. w /\ w > 0
    BY <1>1
  <2>3. QED
    BY <2>1, <2>2, PaddedList
<1>6. CASE p = 2 * q
  <2>1. p % 2 = 0 /\ 2 * (q + 1) - 1 = p + 1 /\ 2 * (q + 1) = p + 2
    BY <1>2, <1>6
  <2>2. Sibling(Padded(level), p) = [side |-> "R", digest |-> Padded(level)[p + 2]]
    BY <2>1 DEF Sibling
  <2>3. Join(Sibling(Padded(level), p), level[p + 1]) = <<level[p + 1], Padded(level)[p + 2]>>
    BY <2>2 DEF Join, NodeDigest
  <2>4. Above(level)[q + 1] = <<Padded(level)[p + 1], Padded(level)[p + 2]>>
    BY <1>4, <2>1
  <2>5. QED
    BY <1>2, <1>3, <1>5, <2>3, <2>4
<1>7. CASE p = 2 * q + 1
  <2>1. p % 2 # 0 /\ 2 * (q + 1) - 1 = p /\ 2 * (q + 1) = p + 1
    BY <1>2, <1>7
  <2>2. Sibling(Padded(level), p) = [side |-> "L", digest |-> Padded(level)[p]]
    BY <2>1 DEF Sibling
  <2>3. Join(Sibling(Padded(level), p), level[p + 1]) = <<Padded(level)[p], level[p + 1]>>
    BY <2>2 DEF Join, NodeDigest
  <2>4. Above(level)[q + 1] = <<Padded(level)[p], Padded(level)[p + 1]>>
    BY <1>4, <2>1
  <2>5. QED
    BY <1>2, <1>3, <1>5, <2>3, <2>4
<1>8. QED
  BY <1>2, <1>6, <1>7

\* A proof has an entry for every turn.
Entries(s, i) ==
  /\ Len(InclusionProof(s, i)) = Height(s)
  /\ \A k \in Nat : k < Height(s) =>
       InclusionProof(s, i)[k + 1] = Sibling(Padded(Levels(s)[k]), Places(i)[k])

LEMMA ProofEntries ==
  ASSUME NEW n, n > 0, NEW s, List(s, n), NEW i
  PROVE  Height(s) \in 0 .. n /\ Entries(s, i)
<1>1. n \in Nat
  BY ListIs
<1>2. PICK h : h = Height(s)
  OBVIOUS
<1>3. h \in 0 .. n /\ h \in Nat
  <2>1. h \in 0 .. n
    BY <1>2, HeightReached
  <2>2. QED
    BY <1>1, <2>1
<1>4. PICK p : p = InclusionProof(s, i)
  OBVIOUS
<1>5. p = [k \in 1 .. h |-> Sibling(Padded(Levels(s)[k - 1]), Places(i)[k - 1])]
  BY <1>2, <1>4 DEF InclusionProof
<1>6. Len(p) = h
  <2>1. p = [k \in 1 .. h |-> p[k]]
    BY <1>5
  <2>2. QED
    BY <1>3, <2>1, ListOf, ListIs
<1>7. ASSUME NEW k \in Nat, k < h
      PROVE  p[k + 1] = Sibling(Padded(Levels(s)[k]), Places(i)[k])
  <2>1. k + 1 \in 1 .. h /\ (k + 1) - 1 = k
    BY <1>3, <1>7
  <2>2. QED
    BY <1>5, <2>1
<1>8. QED
  BY <1>2, <1>3, <1>4, <1>6, <1>7 DEF Entries

\* The proof of a place leads from its leaf to the root.
LEMMA ProofAccepts ==
  ASSUME NEW n, NEW s, List(s, n), NEW i \in 0 .. n - 1
  PROVE  VerifyInclusion(s[i + 1], InclusionProof(s, i), MerkleRoot(s))
<1> DEFINE h     == Height(s)
           proof == InclusionProof(s, i)
           L     == Levels(s)
           P     == Places(i)
           H     == Hashes(s[i + 1], proof)
           Follow(k) == \E w \in 1 .. n :
             /\ List(L[k], w) /\ P[k] \in 0 .. w - 1 /\ H[k] = L[k][P[k] + 1]
           S     == {k \in Nat : k <= h => Follow(k)}
<1>1. n \in Nat /\ n > 0 /\ i + 1 \in 1 .. n
  BY ListIs
<1>2. /\ h \in Nat /\ h <= n /\ Len(proof) = h
      /\ \A k \in Nat : k < h => proof[k + 1] = Sibling(Padded(L[k]), P[k])
  <2>1. h \in 0 .. n /\ Entries(s, i)
    BY <1>1, ProofEntries
  <2>2. h \in Nat /\ h <= n
    BY <1>1, <2>1
  <2>3. QED
    BY <2>1, <2>2 DEF Entries
<1>3. /\ List(L[h], 1) /\ L[h] = L[n] /\ \A k \in 0 .. h - 1 : Len(L[k]) > 1
  BY <1>1, HeightReached
<1>4. \A k \in Nat : \E w \in 1 .. n : List(L[k], w)
  BY <1>1, LevelsNarrow DEF Narrow
<1>5. L[0] = s /\ \A k \in Nat : L[k + 1] = Above(L[k])
  BY LevelsStep
<1>6. P[0] = i /\ \A k \in Nat : P[k + 1] = P[k] \div 2
  BY PlacesStep
<1>7. H[0] = s[i + 1] /\ \A k \in Nat : H[k + 1] = Join(proof[k + 1], H[k])
  BY HashesStep
<1>8. MerkleRoot(s) = L[n][1]
  BY <1>1, RootAlone
<1>9. Climb(s[i + 1], proof) = H[h]
  BY <1>2 DEF Climb
<1> HIDE DEF h, proof, L, P, H
<1>10. 0 \in S
  <2>1. n \in 1 .. n /\ List(L[0], n) /\ P[0] \in 0 .. n - 1 /\ H[0] = L[0][P[0] + 1]
    BY <1>1, <1>5, <1>6, <1>7
  <2>2. QED
    BY <2>1
<1>11. ASSUME NEW k \in S PROVE k + 1 \in S
  <2> SUFFICES ASSUME k + 1 <= h PROVE Follow(k + 1)
    OBVIOUS
  <2>1. k \in Nat /\ k < h /\ k <= h /\ k \in 0 .. h - 1
    BY <1>2
  <2>2. PICK w \in 1 .. n : /\ List(L[k], w) /\ P[k] \in 0 .. w - 1
                            /\ H[k] = L[k][P[k] + 1]
    BY <2>1
  <2>3. w > 1
    BY <1>3, <2>1, <2>2, ListIs
  <2>4. PICK v \in 1 .. n : v = (w + 1) \div 2
    BY <1>1, <2>3
  <2>5. List(L[k + 1], v)
    BY <1>5, <2>1, <2>2, <2>3, <2>4, AboveList
  <2>6. /\ Join(Sibling(Padded(L[k]), P[k]), L[k][P[k] + 1]) = Above(L[k])[P[k] \div 2 + 1]
        /\ P[k] \div 2 \in 0 .. (w + 1) \div 2 - 1
    BY <2>2, <2>3, JoinClimbs
  <2>7. P[k + 1] = P[k] \div 2 /\ L[k + 1] = Above(L[k])
    BY <1>5, <1>6, <2>1
  <2>8. H[k + 1] = Join(Sibling(Padded(L[k]), P[k]), L[k][P[k] + 1])
    BY <1>2, <1>7, <2>1, <2>2
  <2>9. P[k + 1] \in 0 .. v - 1 /\ H[k + 1] = L[k + 1][P[k + 1] + 1]
    BY <2>4, <2>6, <2>7, <2>8
  <2>10. QED
    BY <2>5, <2>9
<1>12. S = Nat
  <2>1. S \subseteq Nat
    OBVIOUS
  <2> HIDE DEF S
  <2>2. QED
    BY <1>10, <1>11, <2>1, AllNumbers
<1>13. PICK w \in 1 .. n : List(L[h], w) /\ P[h] \in 0 .. w - 1 /\ H[h] = L[h][P[h] + 1]
  <2>1. h \in S /\ h <= h
    BY <1>2, <1>12
  <2>2. QED
    BY <2>1
<1>14. w = 1
  BY <1>3, <1>13, ListIs
<1>15. P[h] + 1 = 1
  BY <1>13, <1>14
<1>16. H[h] = L[n][1]
  BY <1>3, <1>13, <1>15
<1>17. QED
  BY <1>8, <1>9, <1>16 DEF VerifyInclusion, proof

\* A proof leads no two digests to one root.
LEMMA ClimbTells ==
  ASSUME NEW proof, Len(proof) \in Nat, NEW a, NEW b, Climb(a, proof) = Climb(b, proof)
  PROVE  a = b
<1> DEFINE n == Len(proof)
           A == Hashes(a, proof)
           B == Hashes(b, proof)
           S == {k \in Nat : k <= n => A[n - k] = B[n - k]}
<1>1. /\ A[0] = a /\ B[0] = b
      /\ \A k \in Nat : A[k + 1] = Join(proof[k + 1], A[k]) /\ B[k + 1] = Join(proof[k + 1], B[k])
  BY HashesStep
<1>2. A[n] = B[n]
  BY DEF Climb
<1> HIDE DEF A, B, n
<1>3. n \in Nat
  BY DEF n
<1>4. 0 \in S
  <2>1. n - 0 = n
    BY <1>3
  <2>2. QED
    BY <1>2, <2>1
<1>5. ASSUME NEW k \in S PROVE k + 1 \in S
  <2> SUFFICES ASSUME k + 1 <= n PROVE A[n - (k + 1)] = B[n - (k + 1)]
    OBVIOUS
  <2>1. PICK m \in Nat : m = n - (k + 1) /\ n - k = m + 1 /\ k <= n
    BY <1>3
  <2>2. A[m + 1] = B[m + 1]
    BY <2>1
  <2>3. Join(proof[m + 1], A[m]) = Join(proof[m + 1], B[m])
    BY <1>1, <2>2
  <2>4. A[m] = B[m]
    BY <2>3 DEF Join, NodeDigest
  <2>5. QED
    BY <2>1, <2>4
<1>6. S = Nat
  <2>1. S \subseteq Nat
    OBVIOUS
  <2> HIDE DEF S
  <2>2. QED
    BY <1>4, <1>5, <2>1, AllNumbers
<1>7. n <= n => A[n - n] = B[n - n]
  BY <1>3, <1>6
<1>8. A[0] = B[0]
  <2>1. n <= n /\ n - n = 0
    BY <1>3
  <2>2. QED
    BY <1>7, <2>1
<1>9. QED
  BY <1>1, <1>8

Digests == {LeafDigest(r) : r \in Record}

TreesTyped == tree \in Seq(Digests) /\ claimed \in Seq(Digests)

\* Root and count determine the list, and a proof its record.
LEMMA RootBinds == TreesTyped => RootBindsLeaves
<1> SUFFICES ASSUME TreesTyped PROVE RootBindsLeaves
  OBVIOUS
<1>1. List(tree, Len(tree)) /\ List(claimed, Len(claimed))
  <2>1. ASSUME NEW s \in Seq(Digests) PROVE List(s, Len(s))
    <3>1. Len(s) \in Nat /\ s = [i \in 1 .. Len(s) |-> s[i]]
      OBVIOUS
    <3>2. QED
      BY <3>1, ListOf
  <2>2. QED
    BY <2>1 DEF TreesTyped
<1>2. MerkleRoot(claimed) = MerkleRoot(tree) /\ Len(claimed) = Len(tree) => claimed = tree
  BY <1>1, RootTells
<1>3. ASSUME NEW i \in DOMAIN tree, NEW r \in Record
      PROVE  VerifyInclusion(LeafDigest(r), InclusionProof(tree, i - 1), MerkleRoot(tree))
               <=> tree[i] = LeafDigest(r)
  <2> DEFINE proof == InclusionProof(tree, i - 1)
  <2>1. PICK n \in Nat : n = Len(tree) /\ i \in 1 .. n /\ List(tree, n) /\ n > 0
    BY <1>1, ListIs
  <2>2. VerifyInclusion(tree[i], proof, MerkleRoot(tree))
    <3>1. PICK p \in 0 .. n - 1 : p = i - 1 /\ p + 1 = i
      BY <2>1
    <3>2. VerifyInclusion(tree[p + 1], InclusionProof(tree, p), MerkleRoot(tree))
      BY <2>1, ProofAccepts
    <3>3. QED
      BY <3>1, <3>2
  <2>3. Len(proof) \in Nat
    <3>1. Height(tree) \in 0 .. n /\ Entries(tree, i - 1)
      BY <2>1, ProofEntries
    <3>2. QED
      BY <2>1, <3>1 DEF Entries
  <2>4. ASSUME VerifyInclusion(LeafDigest(r), proof, MerkleRoot(tree))
        PROVE  tree[i] = LeafDigest(r)
    <3>1. Climb(LeafDigest(r), proof) = Climb(tree[i], proof)
      BY <2>2, <2>4 DEF VerifyInclusion
    <3>2. QED
      BY <2>3, <3>1, ClimbTells
  <2>5. QED
    BY <2>2, <2>4
<1>4. QED
  BY <1>2, <1>3 DEF RootBindsLeaves

\* No leaves are leaves of the right kind,
LEMMA TreesStart == TreesInit => TreesTyped
BY DEF TreesInit, TreesTyped

\* and only such are added.
LEMMA TreesInductive == TreesTyped /\ [TreesNext]_treeVars => TreesTyped'
<1> SUFFICES ASSUME TreesTyped, [TreesNext]_treeVars PROVE TreesTyped'
  OBVIOUS
<1>1. \A r \in Record : LeafDigest(r) \in Digests
  BY DEF Digests
<1>2. << >> \in Seq(Digests)
  OBVIOUS
<1>3. QED
  <2> HIDE DEF Digests
  <2>1. ASSUME NEW r \in Record, tree' = Append(tree, LeafDigest(r)), UNCHANGED claimed
        PROVE  TreesTyped'
    BY <1>1, <2>1 DEF TreesTyped
  <2>2. ASSUME NEW r \in Record, claimed' = Append(claimed, LeafDigest(r)), UNCHANGED tree
        PROVE  TreesTyped'
    BY <1>1, <2>2 DEF TreesTyped
  <2>3. QED
    BY <1>2, <2>1, <2>2 DEF TreesTyped, TreesNext, treeVars

---------------------------------------------------------------------------
(* The records together: a behaviour moves one part of them *)

\* What moves the ledger, the export among it or not.
LEMMA RecordsMoveLedger ==
  /\ RecordsSpec => Spec
  /\ RecordsSpec /\ focus = "export" => LiveExportSpec
  /\ RecordsSpec /\ ~(focus = "export") => [](export = NoExport)
<1>1. [RecordsNext]_recordsVars => [Next]_vars
  <2>1. ASSUME [Steady]_vars PROVE [Next]_vars
    BY <2>1 DEF Next
  <2>2. QED
    BY <2>1 DEF RecordsNext, recordsVars, exportVars, BesideExport, Export
<1>2. [RecordsNext]_recordsVars /\ focus = "export" =>
        [ExportNext]_exportVars /\ (focus = "export")'
  BY DEF RecordsNext, recordsVars, exportVars, BesideExport, ExportNext
<1>3. [RecordsNext]_recordsVars /\ ~(focus = "export") /\ export = NoExport =>
        (~(focus = "export") /\ export = NoExport)'
  BY DEF RecordsNext, recordsVars, exportVars
<1>4. StartIn({"lapse", "export", "lines", "tree", "boot"}) =>
        Init /\ ExportInit /\ export = NoExport
  BY DEF StartIn, ExportInit
<1>5. QED
  BY <1>1, <1>2, <1>3, <1>4, PTL DEF RecordsSpec, Spec, LiveExportSpec

\* The file, the lists and the processes move as they do alone.
LEMMA RecordsMoveOthers ==
  RecordsSpec => LinesSpec /\ BootSpec /\ TreesInit /\ [][TreesNext]_treeVars
<1>1. [RecordsNext]_recordsVars => [LinesNext]_lineVars
  BY DEF RecordsNext, recordsVars, FileFull
<1>2. BootStep => BootNext
  BY DEF BootStep, BootNext
<1>3. [RecordsNext]_recordsVars => [BootNext]_bootVars
  BY <1>2 DEF RecordsNext, recordsVars
<1>4. [RecordsNext]_recordsVars => [TreesNext]_treeVars
  BY DEF RecordsNext, recordsVars
<1>5. StartIn({"lapse", "export", "lines", "tree", "boot"}) => LinesInit /\ BootInit /\ TreesInit
  BY DEF StartIn
<1>6. QED
  BY <1>1, <1>3, <1>4, <1>5, PTL DEF RecordsSpec, LinesSpec, BootSpec

\* Every variable of the records has its type, whatever the daemons, the
\* export, the emitters and the processes that come up do (close_epoch,
\* _snapshot, _emit_per_event, _build_components).
THEOREM RecordsTypesCorrect == RecordsSpec => []TypesOK
<1>1. export = NoExport => ExportTypeOK
  BY NothingRead DEF ExportTypeOK, ReadType
<1>2. LinesIInv => LinesTypeOK
  BY DEF LinesIInv
<1>3. LinesSpec => []LinesTypeOK
  BY <1>2, LinesStart, LinesInductive, PTL DEF LinesSpec
<1>4. RecordsSpec => []ExportTypeOK
  BY <1>1, RecordsMoveLedger, ExportInvariant, ExportSays, PTL
<1>5. TypeOK /\ ExportTypeOK /\ LinesTypeOK /\ BootTypeOK => TypesOK
  BY DEF TypesOK
<1>6. QED
  BY <1>3, <1>4, <1>5, RecordsMoveLedger, RecordsMoveOthers, TypeCorrect, BootTypeCorrect, PTL

\* What is kept outside Redis can be shown to a third party.  The per-event
\* file verifies (_verify_per_event); and the Merkle root of an epoch with its
\* count of leaves determines them, and the proof of a place accepts the record
\* at that place alone (merkle_root, inclusion_proof, verify_inclusion), for
\* lists of any length.
THEOREM EvidenceHoldsCorrect == RecordsSpec => []EvidenceHolds
<1>1. FileVerifies /\ RootBindsLeaves => EvidenceHolds
  BY DEF EvidenceHolds
<1>2. RecordsSpec => []TreesTyped
  BY TreesStart, TreesInductive, RecordsMoveOthers, PTL
<1>3. QED
  BY <1>1, <1>2, FileVerifiesCorrect, RecordsMoveOthers, RootBinds, PTL
=============================================================================
