------------------------- MODULE AuditLedgerProofs -------------------------
(***************************************************************************)
(* Theorems about AuditLedger, for every value of its constants.           *)
(***************************************************************************)
EXTENDS AuditLedger, TLAPS

---------------------------------------------------------------------------
(* Type correctness.  A trim and a checkpoint read a header by its epoch,  *)
(* so the types rest on the epochs in the index being those of the headers *)
(* committed, and those on the commit script refusing an epoch twice.      *)

EpochInv ==
  /\ NumbersHeaders
  /\ index \subseteq 0 .. num
  /\ \A p \in Proc : pc[p] = "commit" => job[p].epoch <= num + 1

TypeInv == TypeOK /\ EpochInv

\* An epoch with an index entry has a header.
LEMMA IndexedHeader ==
  ASSUME TypeInv, NEW k \in index
  PROVE  HeaderAt(k) \in Header
<1>1. k \in Nat /\ k <= num /\ num = Len(sealed) - 1 /\ sealed \in Seq(Header)
  BY DEF TypeInv, TypeOK, ChainTypeOK, StoreTypeOK, EpochOrNone, EpochInv, NumbersHeaders
<1>2. k + 1 \in 1 .. Len(sealed)
  BY <1>1
<1>3. QED
  BY <1>1, <1>2 DEF HeaderAt

\* The values a process holds outside its section are well typed.
LEMMA NothingTyped ==
  NoJob \in Job /\ NoView \in View /\ NoCheckpoint \in Checkpoint
<1>1. NoJob \in Job
  BY DEF NoJob, Job, Genesis
<1>2. NoCheckpoint \in Checkpoint
  BY DEF NoCheckpoint, Checkpoint, EpochOrNone, Genesis
<1>3. NoHead \in [epoch : EpochOrNone, hash : Nat]
  BY DEF NoHead, EpochOrNone, Genesis
<1>4. NoView \in View
  BY <1>2, <1>3 DEF NoView, View
<1>5. QED
  BY <1>1, <1>2, <1>4

\* Going to another step keeps pc well typed.
LEMMA GotoType ==
  ASSUME LocalTypeOK, NEW p \in Proc, NEW label \in PcValue, Goto(p, label)
  PROVE  pc' \in [Proc -> PcValue]
BY DEF Goto, LocalTypeOK

\* Leaving a section keeps the local state and the lock well typed.
LEMMA LeaveType ==
  ASSUME TypeOK, NEW p \in Proc, NEW label \in PcValue, Leave(p, label)
  PROVE  /\ lock' \in Proc \cup {NoProc}
         /\ pc' \in [Proc -> PcValue]
         /\ job' \in [Proc -> Job]
         /\ view' \in [Proc -> View]
<1>1. lock' \in Proc \cup {NoProc}
  BY DEF Leave, Release, TypeOK, SharedTypeOK
<1>2. pc' \in [Proc -> PcValue]
  BY GotoType DEF Leave, TypeOK
<1>3. job' \in [Proc -> Job]
  BY NothingTyped DEF Leave, TypeOK, LocalTypeOK
<1>4. view' \in [Proc -> View]
  BY NothingTyped DEF Leave, TypeOK, LocalTypeOK
<1>5. QED
  BY <1>1, <1>2, <1>3, <1>4

\* Every step of the program is a pc value.
LEMMA StepsArePcValues ==
  /\ "idle" \in PcValue /\ "compact" \in PcValue
  /\ CloseSteps \subseteq PcValue
  /\ VerifySteps \subseteq PcValue
  /\ CompactSteps \subseteq PcValue
BY DEF PcValue, Critical

\* Init establishes the types.
LEMMA InitType == Init => TypeOK
<1> SUFFICES ASSUME Init PROVE TypeOK
  OBVIOUS
<1>1. ChainTypeOK
  BY DEF Init, ChainTypeOK, EpochOrNone, Genesis
<1>2. StoreTypeOK
  BY NothingTyped DEF Init, StoreTypeOK
<1>3. LocalTypeOK
  BY NothingTyped, StepsArePcValues DEF Init, LocalTypeOK
<1>4. SharedTypeOK
  BY DEF Init, SharedTypeOK
<1>5. QED
  BY <1>1, <1>2, <1>3, <1>4 DEF TypeOK

\* What a step leaves alone keeps its type.
LEMMA FrameType ==
  ASSUME TypeOK
  PROVE  /\ UNCHANGED chainVars => ChainTypeOK'
         /\ UNCHANGED redisVars => ChainTypeOK' /\ StoreTypeOK'
         /\ UNCHANGED localVars => LocalTypeOK'
         /\ UNCHANGED <<lock, anchor, clock, faults>> => SharedTypeOK'
<1>1. UNCHANGED chainVars => ChainTypeOK'
  BY DEF TypeOK, chainVars, ChainTypeOK
<1>2. UNCHANGED redisVars => ChainTypeOK' /\ StoreTypeOK'
  BY DEF TypeOK, redisVars, ChainTypeOK, StoreTypeOK
<1>3. UNCHANGED localVars => LocalTypeOK'
  BY DEF TypeOK, localVars, LocalTypeOK
<1>4. UNCHANGED <<lock, anchor, clock, faults>> => SharedTypeOK'
  BY DEF TypeOK, SharedTypeOK
<1>5. QED
  BY <1>1, <1>2, <1>3, <1>4

\* Leaving a section, whatever else the step does to the verdict.
LEMMA LeaveLocalType ==
  ASSUME TypeOK, NEW p \in Proc, NEW label \in PcValue, Leave(p, label),
         verdict' \in [Proc -> {"none", "intact", "tamper"}]
  PROVE  LocalTypeOK'
BY LeaveType DEF LocalTypeOK

\* The steps of close_epoch up to its commit keep the types.
LEMMA CloseType ==
  ASSUME TypeOK, NEW p \in Proc,
         CloseBegin(p) \/ TailEmpty(p) \/ TailRead(p) \/ ReadLink(p)
  PROVE  TypeOK'
<1> USE StepsArePcValues
<1>1. CASE CloseBegin(p)
  <2>1. LocalTypeOK'
    BY <1>1, GotoType DEF CloseBegin, TypeOK, LocalTypeOK, CloseSteps
  <2>2. SharedTypeOK'
    BY <1>1 DEF CloseBegin, Take, TypeOK, SharedTypeOK
  <2>3. QED
    BY <1>1, <2>1, <2>2, FrameType DEF CloseBegin, TypeOK
<1>2. CASE TailEmpty(p)
  <2>1. LocalTypeOK'
    BY <1>2, LeaveLocalType DEF TailEmpty, TypeOK, LocalTypeOK
  <2>2. SharedTypeOK'
    BY <1>2, LeaveType DEF TailEmpty, TypeOK, SharedTypeOK
  <2>3. QED
    BY <1>2, <2>1, <2>2, FrameType DEF TailEmpty, TypeOK
<1>3. CASE TailRead(p)
  <2>1. Pending \subseteq Nat
    BY DEF Pending, Buffered, TypeOK, StoreTypeOK
  <2>2. PICK first \in Pending, last \in Pending :
          job' = [job EXCEPT ![p].start = first, ![p].end = last]
    BY <1>3 DEF TailRead
  <2>3. job \in [Proc -> Job] /\ first \in Nat /\ last \in Nat
    BY <2>1 DEF TypeOK, LocalTypeOK
  <2>4. job' \in [Proc -> Job]
    BY <2>2, <2>3 DEF Job
  <2>5. LocalTypeOK'
    BY <1>3, <2>4, GotoType DEF TailRead, TypeOK, LocalTypeOK, CloseSteps
  <2>6. QED
    BY <1>3, <2>5, FrameType DEF TailRead, TypeOK
<1>4. CASE ReadLink(p)
  <2>1. num + 1 \in Nat /\ head \in Nat /\ clock + 1 \in Nat /\ job \in [Proc -> Job]
    BY DEF TypeOK, ChainTypeOK, EpochOrNone, SharedTypeOK, LocalTypeOK
  <2>2. [job[p] EXCEPT !.epoch = num + 1, !.prev = head, !.hash = clock + 1] \in Job
    BY <2>1 DEF Job
  <2>3. job' \in [Proc -> Job]
    BY <1>4, <2>1, <2>2 DEF ReadLink
  <2>4. LocalTypeOK'
    BY <1>4, <2>3, GotoType DEF ReadLink, TypeOK, LocalTypeOK, CloseSteps
  <2>5. SharedTypeOK'
    BY <1>4 DEF ReadLink, TypeOK, SharedTypeOK
  <2>6. QED
    BY <1>4, <2>4, <2>5, FrameType DEF ReadLink, TypeOK
<1>5. QED
  BY <1>1, <1>2, <1>3, <1>4

\* The commit script keeps the types.
LEMMA CommitType ==
  ASSUME TypeOK, NEW p \in Proc, CloseCommit(p)
  PROVE  TypeOK'
<1> DEFINE j == job[p]
           h == [start |-> j.start, end |-> j.end, prev |-> j.prev, hash |-> j.hash]
<1>1. j \in Job
  BY DEF TypeOK, LocalTypeOK
<1>2. LocalTypeOK'
  BY GotoType, StepsArePcValues DEF CloseCommit, TypeOK, LocalTypeOK, CloseSteps
<1>3. SharedTypeOK'
  BY FrameType DEF CloseCommit
<1>4. CASE UNCHANGED <<chainVars, stream, index, leaves, eventloc>>
  <2>1. UNCHANGED redisVars
    BY <1>4 DEF CloseCommit, chainVars, redisVars
  <2>2. QED
    BY <1>2, <1>3, <2>1, FrameType DEF TypeOK
<1>5. CASE ~AlreadyCommitted(j)
  <2> SUFFICES ASSUME ~UNCHANGED <<chainVars, stream, index, leaves, eventloc>>
               PROVE  TypeOK'
    BY <1>4
  <2>1. h \in Header
    BY <1>1 DEF Job, Header
  <2>2. sealed' = Append(sealed, h)
    BY DEF CloseCommit
  <2>3. sealed' \in Seq(Header)
    BY <2>1, <2>2 DEF TypeOK, ChainTypeOK
  <2>4. j.epoch \in Nat /\ j.hash \in Nat /\ j.start \in Nat /\ j.end \in Nat
    BY <1>1 DEF Job
  <2>5. num' \in EpochOrNone /\ head' \in Nat /\ lastSeq' \in Nat /\ cursor' \in Nat
    BY <2>4 DEF CloseCommit, EpochOrNone
  <2>6. stream' \in SUBSET Nat /\ index' \in SUBSET Nat /\ leaves' \in SUBSET Nat
    BY <2>4 DEF CloseCommit, TypeOK, StoreTypeOK
  <2>7. eventloc' = [s \in DOMAIN eventloc \cup (j.start .. j.end) |->
                       IF s \in j.start .. j.end THEN j.epoch ELSE eventloc[s]]
    BY DEF CloseCommit
  <2>8. DOMAIN eventloc' \in SUBSET Nat /\ eventloc' \in [DOMAIN eventloc' -> Nat]
    BY <2>4, <2>7 DEF TypeOK, StoreTypeOK
  <2>9. StoreTypeOK'
    BY <2>6, <2>8 DEF CloseCommit, TypeOK, StoreTypeOK
  <2>10. QED
    BY <1>2, <1>3, <2>3, <2>5, <2>9 DEF TypeOK, ChainTypeOK
<1>6. QED
  BY <1>4, <1>5 DEF CloseCommit

\* Recording the head and trimming keep the types.
LEMMA TrimType ==
  ASSUME TypeInv, NEW p \in Proc,
         RecordAnchor(p) \/ TrimNothing(p) \/ TrimLocations(p) \/ TrimLeaves(p)
           \/ TrimEvents(p)
  PROVE  TypeOK'
<1> USE StepsArePcValues DEF TypeInv
<1>1. CASE RecordAnchor(p)
  <2>1. FileOf[p] \in File
    BY ProcAssumption
  <2>2. [epoch |-> job[p].epoch, hash |-> job[p].hash] \in Line
    BY DEF TypeOK, LocalTypeOK, Job, Line
  <2>3. SharedTypeOK'
    BY <1>1, <2>1, <2>2 DEF RecordAnchor, TypeOK, SharedTypeOK
  <2>4. LocalTypeOK'
    BY <1>1, GotoType DEF RecordAnchor, TypeOK, LocalTypeOK, CloseSteps
  <2>5. QED
    BY <1>1, <2>3, <2>4, FrameType DEF RecordAnchor, TypeOK
<1>2. CASE TrimNothing(p)
  <2>1. LocalTypeOK'
    BY <1>2, LeaveLocalType DEF TrimNothing, CloseDone, TypeOK, LocalTypeOK
  <2>2. SharedTypeOK'
    BY <1>2, LeaveType DEF TrimNothing, CloseDone, TypeOK, SharedTypeOK
  <2>3. QED
    BY <1>2, <2>1, <2>2, FrameType DEF TrimNothing, TypeOK
<1>3. CASE TrimLocations(p)
  <2>1. DOMAIN eventloc' \in SUBSET Nat /\ eventloc' \in [DOMAIN eventloc' -> Nat]
    BY <1>3 DEF TrimLocations, TypeOK, StoreTypeOK
  <2>2. StoreTypeOK'
    BY <1>3, <2>1 DEF TrimLocations, TypeOK, StoreTypeOK
  <2>3. LocalTypeOK'
    BY <1>3, GotoType DEF TrimLocations, TypeOK, LocalTypeOK, CloseSteps
  <2>4. QED
    BY <1>3, <2>2, <2>3, FrameType DEF TrimLocations, TypeOK
<1>4. CASE TrimLeaves(p)
  <2>1. StoreTypeOK'
    BY <1>4 DEF TrimLeaves, TypeOK, StoreTypeOK
  <2>2. LocalTypeOK'
    BY <1>4, GotoType DEF TrimLeaves, TypeOK, LocalTypeOK, CloseSteps
  <2>3. QED
    BY <1>4, <2>1, <2>2, FrameType DEF TrimLeaves, TypeOK
<1>5. CASE TrimEvents(p)
  <2>1. trimmed' \in Nat
    <3>1. CASE FellOut(p) + 1 \in index /\ KeepFrom(p) > trimmed
      <4>1. KeepFrom(p) \in Nat
        BY <3>1, IndexedHeader DEF KeepFrom, Header
      <4>2. QED
        BY <1>5, <3>1, <4>1 DEF TrimEvents, TypeInv, TypeOK, StoreTypeOK
    <3>2. QED
      BY <1>5, <3>1 DEF TrimEvents, TypeInv, TypeOK, StoreTypeOK
  <2>2. StoreTypeOK'
    BY <1>5, <2>1 DEF TrimEvents, TypeOK, StoreTypeOK
  <2>3. LocalTypeOK'
    BY <1>5, LeaveLocalType DEF TrimEvents, CloseDone, TypeOK, LocalTypeOK
  <2>4. SharedTypeOK'
    BY <1>5, LeaveType DEF TrimEvents, CloseDone, TypeOK, SharedTypeOK
  <2>5. QED
    BY <1>5, <2>2, <2>3, <2>4, FrameType DEF TrimEvents, TypeOK
<1>6. QED
  BY <1>1, <1>2, <1>3, <1>4, <1>5

\* The steps of a verification keep the types.
LEMMA VerifyType ==
  ASSUME TypeOK, NEW p \in Proc, Verify(p)
  PROVE  TypeOK'
<1> USE StepsArePcValues
<1>1. CASE VerifyBegin(p)
  <2>1. LocalTypeOK'
    BY <1>1, GotoType DEF VerifyBegin, TypeOK, LocalTypeOK, VerifySteps
  <2>2. SharedTypeOK'
    BY <1>1 DEF VerifyBegin, Take, TypeOK, SharedTypeOK
  <2>3. QED
    BY <1>1, <2>1, <2>2, FrameType DEF VerifyBegin, TypeOK
<1>2. CASE VerifyAnchor(p)
  <2>1. PICK l \in anchor[FileOf[p]] \cup {NoHead} :
          view' = [view EXCEPT ![p].top = l, ![p].cp = supercp]
    BY <1>2 DEF VerifyAnchor
  <2>2. FileOf[p] \in File
    BY ProcAssumption
  <2>3. l \in [epoch : EpochOrNone, hash : Nat]
    BY <2>2 DEF TypeOK, SharedTypeOK, Line, NoHead, EpochOrNone, Genesis
  <2>4. supercp \in Checkpoint /\ view \in [Proc -> View]
    BY DEF TypeOK, StoreTypeOK, LocalTypeOK
  <2>5. view' \in [Proc -> View]
    BY <2>1, <2>3, <2>4 DEF View
  <2>6. LocalTypeOK'
    BY <1>2, <2>5, GotoType DEF VerifyAnchor, TypeOK, LocalTypeOK, VerifySteps
  <2>7. QED
    BY <1>2, <2>6, FrameType DEF VerifyAnchor, TypeOK
<1>3. CASE VerifyHeaders(p)
  <2>1. stream \in SUBSET Nat /\ view \in [Proc -> View]
    BY DEF TypeOK, StoreTypeOK, LocalTypeOK
  <2>2. view' \in [Proc -> View]
    BY <1>3, <2>1 DEF VerifyHeaders, View
  <2>3. LocalTypeOK'
    BY <1>3, <2>2, GotoType DEF VerifyHeaders, TypeOK, LocalTypeOK, VerifySteps
  <2>4. QED
    BY <1>3, <2>3, FrameType DEF VerifyHeaders, TypeOK
<1>4. CASE VerifyFinish(p)
  <2>1. verdict' \in [Proc -> {"none", "intact", "tamper"}]
    BY <1>4 DEF VerifyFinish, TypeOK, LocalTypeOK
  <2>2. LocalTypeOK'
    BY <1>4, <2>1, LeaveLocalType DEF VerifyFinish
  <2>3. SharedTypeOK'
    BY <1>4, LeaveType DEF VerifyFinish, TypeOK, SharedTypeOK
  <2>4. QED
    BY <1>4, <2>2, <2>3, FrameType DEF VerifyFinish, TypeOK
<1>5. CASE VerifySince(p)
  <2>1. PICK k \in 0 .. Len(sealed) - 1, l \in anchor[FileOf[p]] \cup {NoHead} :
          \/ /\ view' = [view EXCEPT ![p].top = l,
                             ![p].cp = [epoch |-> k, hash |-> HeaderAt(k).hash,
                                        end |-> HeaderAt(k).end]]
             /\ Goto(p, "vheaders")
             /\ UNCHANGED <<lock, job, verdict>>
          \/ /\ verdict' = [verdict EXCEPT ![p] = "tamper"]
             /\ Leave(p, "idle")
    BY <1>5 DEF VerifySince
  <2>2. CASE Goto(p, "vheaders") /\ UNCHANGED <<lock, job, verdict>>
               /\ view' = [view EXCEPT ![p].top = l,
                             ![p].cp = [epoch |-> k, hash |-> HeaderAt(k).hash,
                                        end |-> HeaderAt(k).end]]
    <3>1. k \in Nat /\ k + 1 \in 1 .. Len(sealed) /\ sealed \in Seq(Header)
      BY DEF TypeOK, ChainTypeOK
    <3>2. HeaderAt(k) \in Header
      BY <3>1 DEF HeaderAt
    <3>3. [epoch |-> k, hash |-> HeaderAt(k).hash, end |-> HeaderAt(k).end] \in Checkpoint
      BY <3>1, <3>2 DEF Checkpoint, Header, EpochOrNone
    <3>4. l \in [epoch : EpochOrNone, hash : Nat]
      BY ProcAssumption DEF TypeOK, SharedTypeOK, Line, NoHead, EpochOrNone, Genesis
    <3>5. view' \in [Proc -> View]
      <4>1. PICK c \in Checkpoint : view' = [view EXCEPT ![p].top = l, ![p].cp = c]
        BY <2>2, <3>3
      <4>2. view \in [Proc -> View]
        BY DEF TypeOK, LocalTypeOK
      <4>3. QED
        BY <3>4, <4>1, <4>2 DEF View
    <3>6. LocalTypeOK'
      BY <2>2, <3>5, GotoType DEF TypeOK, LocalTypeOK, VerifySteps
    <3>7. QED
      BY <1>5, <2>2, <3>6, FrameType DEF VerifySince, TypeOK
  <2>3. CASE verdict' = [verdict EXCEPT ![p] = "tamper"] /\ Leave(p, "idle")
    <3>1. verdict' \in [Proc -> {"none", "intact", "tamper"}]
      BY <2>3 DEF TypeOK, LocalTypeOK
    <3>2. LocalTypeOK'
      BY <2>3, <3>1, LeaveLocalType
    <3>3. SharedTypeOK'
      BY <1>5, <2>3, LeaveType DEF VerifySince, TypeOK, SharedTypeOK
    <3>4. QED
      BY <1>5, <3>2, <3>3, FrameType DEF VerifySince, TypeOK
  <2>4. QED
    BY <2>1, <2>2, <2>3
<1>6. QED
  BY <1>1, <1>2, <1>3, <1>4, <1>5 DEF Verify

\* The steps of a compaction keep the types.
LEMMA CompactType ==
  ASSUME TypeInv, NEW p \in Proc, Compact(p)
  PROVE  TypeOK'
<1> USE StepsArePcValues DEF TypeInv
<1>1. CASE CompactDeclined(p)
  <2>1. LocalTypeOK'
    BY <1>1, GotoType DEF CompactDeclined, TypeOK, LocalTypeOK
  <2>2. QED
    BY <1>1, <2>1, FrameType DEF CompactDeclined, TypeOK
<1>2. CASE CompactBegin(p)
  <2>1. Target \in Nat /\ view \in [Proc -> View]
    BY <1>2, WindowAssumption
    DEF CompactBegin, Foldable, Target, TypeOK, ChainTypeOK, EpochOrNone, LocalTypeOK
  <2>2. view' \in [Proc -> View]
    BY <1>2, <2>1 DEF CompactBegin, View
  <2>3. LocalTypeOK'
    BY <1>2, <2>2, GotoType DEF CompactBegin, TypeOK, LocalTypeOK, VerifySteps
  <2>4. SharedTypeOK'
    BY <1>2 DEF CompactBegin, Take, TypeOK, SharedTypeOK
  <2>5. QED
    BY <1>2, <2>3, <2>4, FrameType DEF CompactBegin, TypeOK
<1>3. CASE CompactVerified(p)
  <2>1. verdict' \in [Proc -> {"none", "intact", "tamper"}]
    BY <1>3 DEF CompactVerified, TypeOK, LocalTypeOK
  <2>2. LocalTypeOK' /\ lock' \in Proc \cup {NoProc}
    <3>1. CASE Leave(p, "idle")
      BY <2>1, <3>1, LeaveLocalType, LeaveType
    <3>2. CASE Goto(p, "cpsign") /\ UNCHANGED <<lock, job, view>>
      BY <2>1, <3>2, GotoType DEF TypeOK, LocalTypeOK, SharedTypeOK, CompactSteps
    <3>3. QED
      BY <1>3, <3>1, <3>2 DEF CompactVerified
  <2>3. QED
    BY <1>3, <2>2, FrameType DEF CompactVerified, TypeOK, SharedTypeOK
<1>4. CASE CompactSign(p)
  <2>1. CASE Leave(p, "idle") /\ UNCHANGED supercp
    <3>1. LocalTypeOK'
      BY <1>4, <2>1, LeaveLocalType DEF CompactSign, TypeOK, LocalTypeOK
    <3>2. SharedTypeOK'
      BY <1>4, <2>1, LeaveType DEF CompactSign, TypeOK, SharedTypeOK
    <3>3. StoreTypeOK'
      BY <1>4, <2>1 DEF CompactSign, TypeOK, StoreTypeOK
    <3>4. QED
      BY <1>4, <3>1, <3>2, <3>3, FrameType DEF CompactSign, TypeOK
  <2>2. CASE /\ view[p].target \in index
             /\ supercp' = [epoch |-> view[p].target,
                            hash |-> HeaderAt(view[p].target).hash,
                            end |-> HeaderAt(view[p].target).end]
             /\ Goto(p, "xdel")
             /\ UNCHANGED <<lock, job, view>>
    <3>1. view[p] \in View
      BY DEF TypeOK, LocalTypeOK
    <3>2. HeaderAt(view[p].target) \in Header /\ view[p].target \in Nat
      BY <2>2, <3>1, IndexedHeader DEF View
    <3>3. supercp' \in Checkpoint
      BY <2>2, <3>2 DEF Checkpoint, Header, EpochOrNone
    <3>4. StoreTypeOK'
      BY <1>4, <3>3 DEF CompactSign, TypeOK, StoreTypeOK
    <3>5. LocalTypeOK'
      BY <1>4, <2>2, GotoType DEF CompactSign, TypeOK, LocalTypeOK, CompactSteps
    <3>6. QED
      BY <1>4, <2>2, <3>4, <3>5, FrameType DEF CompactSign, TypeOK, SharedTypeOK
  <2>3. QED
    BY <1>4, <2>1, <2>2 DEF CompactSign
<1>5. CASE CompactHeaders(p)
  <2>1. Subsumed(view[p].target) \in SUBSET Nat /\ view \in [Proc -> View]
    BY DEF Subsumed, TypeOK, StoreTypeOK, LocalTypeOK
  <2>2. view' \in [Proc -> View]
    BY <1>5, <2>1 DEF CompactHeaders, View
  <2>3. LocalTypeOK'
    BY <1>5, <2>2, GotoType DEF CompactHeaders, TypeOK, LocalTypeOK, CompactSteps
  <2>4. StoreTypeOK'
    BY <1>5 DEF CompactHeaders, TypeOK, StoreTypeOK
  <2>5. QED
    BY <1>5, <2>3, <2>4, FrameType DEF CompactHeaders, TypeOK
<1>6. CASE CompactIndexes(p)
  <2>1. LocalTypeOK'
    BY <1>6, GotoType DEF CompactIndexes, TypeOK, LocalTypeOK, CompactSteps
  <2>2. StoreTypeOK'
    BY <1>6 DEF CompactIndexes, TypeOK, StoreTypeOK
  <2>3. QED
    BY <1>6, <2>1, <2>2, FrameType DEF CompactIndexes, TypeOK
<1>7. CASE CompactAnchor(p)
  <2>1. LocalTypeOK'
    BY <1>7, LeaveLocalType DEF CompactAnchor, TypeOK, LocalTypeOK
  <2>2. FileOf[p] \in File
    BY ProcAssumption
  <2>3. anchor' \in [File -> SUBSET Line]
    BY <1>7, <2>2 DEF CompactAnchor, TypeOK, SharedTypeOK
  <2>4. SharedTypeOK'
    BY <1>7, <2>3, LeaveType DEF CompactAnchor, TypeOK, SharedTypeOK
  <2>5. QED
    BY <1>7, <2>1, <2>4, FrameType DEF CompactAnchor, TypeOK
<1>8. QED
  BY <1>1, <1>2, <1>3, <1>4, <1>5, <1>6, <1>7 DEF Compact

\* Emission, the lock's TTL and faults keep the types.
LEMMA OtherType ==
  ASSUME TypeOK,
         \/ Emit \/ LockExpires \/ LockLapses \/ UNCHANGED vars
         \/ \E p \in Proc : Fail(p) \/ Crash(p)
  PROVE  TypeOK'
<1> USE StepsArePcValues
<1>1. CASE Emit
  <2>1. StoreTypeOK'
    BY <1>1 DEF Emit, TypeOK, StoreTypeOK
  <2>2. QED
    BY <1>1, <2>1, FrameType DEF Emit, chainVars, TypeOK
<1>2. CASE LockExpires \/ LockLapses
  <2>1. SharedTypeOK'
    BY <1>2 DEF LockExpires, LockLapses, TypeOK, SharedTypeOK
  <2>2. QED
    BY <1>2, <2>1, FrameType DEF LockExpires, LockLapses, TypeOK
<1>3. CASE UNCHANGED vars
  BY <1>3, FrameType DEF vars, TypeOK
<1>4. ASSUME NEW p \in Proc, Fail(p)
      PROVE  TypeOK'
  <2>1. LocalTypeOK'
    BY <1>4, LeaveLocalType DEF Fail, TypeOK, LocalTypeOK
  <2>2. SharedTypeOK'
    BY <1>4, LeaveType DEF Fail, TypeOK, SharedTypeOK
  <2>3. QED
    BY <1>4, <2>1, <2>2, FrameType DEF Fail, TypeOK
<1>5. ASSUME NEW p \in Proc, Crash(p)
      PROVE  TypeOK'
  <2>1. LocalTypeOK'
    BY <1>5, GotoType, NothingTyped DEF Crash, TypeOK, LocalTypeOK
  <2>2. SharedTypeOK'
    BY <1>5 DEF Crash, TypeOK, SharedTypeOK
  <2>3. QED
    BY <1>5, <2>1, <2>2, FrameType DEF Crash, TypeOK
<1>6. QED
  BY <1>1, <1>2, <1>3, <1>4, <1>5

\* Every step keeps the types.
LEMMA NextType ==
  ASSUME TypeInv, [Next]_vars
  PROVE  TypeOK'
<1>1. CASE \E p \in Proc : Close(p)
  BY <1>1, CloseType, CommitType, TrimType DEF Close, TypeInv
<1>2. CASE \E p \in Proc : Verify(p) \/ Compact(p)
  BY <1>2, VerifyType, CompactType DEF TypeInv
<1>3. QED
  BY <1>1, <1>2, OtherType DEF Next, Steady, TypeInv

\* The job a process takes to its commit, once TailRead has begun it and
\* ReadLink has completed it, is left alone until the commit; and only a
\* commit or TrimEvents moves the chain or the buffer's start.
JobsKept ==
  \A q \in Proc : pc'[q] \in {"link", "commit"} => pc'[q] = pc[q] /\ job'[q] = job[q]

LEMMA OtherStep ==
  ASSUME TypeOK, [Next]_vars,
         \A p \in Proc : ~TailRead(p) /\ ~ReadLink(p) /\ ~CloseCommit(p) /\ ~TrimEvents(p)
  PROVE  /\ UNCHANGED <<chainVars, trimmed>>
         /\ seq' = seq \/ seq' = seq + 1
         /\ index' \subseteq index
         /\ JobsKept
<1> USE DEF TypeOK, LocalTypeOK, chainVars
<1>1. ASSUME NEW p \in Proc, NEW label \in PcValue \ {"link", "commit"}, Leave(p, label)
      PROVE  JobsKept
  BY <1>1 DEF JobsKept, Leave, Goto
<1>2. ASSUME NEW p \in Proc, NEW label \in PcValue \ {"link", "commit"}, Goto(p, label),
             \/ job' = job
             \/ \E j : job' = [job EXCEPT ![p] = j]
      PROVE  JobsKept
  BY <1>2 DEF JobsKept, Goto
<1>3. ASSUME NEW p \in Proc, Close(p)
      PROVE  UNCHANGED <<seq, chainVars, trimmed, index>> /\ JobsKept
  BY <1>1, <1>2, <1>3 DEF Close, CloseBegin, TailEmpty, RecordAnchor,
     TrimNothing, TrimLocations, TrimLeaves, CloseDone, redisVars,
     PcValue, Critical, CloseSteps
<1>4. ASSUME NEW p \in Proc, Verify(p)
      PROVE  UNCHANGED <<seq, chainVars, trimmed, index>> /\ JobsKept
  BY <1>1, <1>2, <1>4 DEF Verify, VerifyBegin, VerifyAnchor, VerifySince, VerifyHeaders, VerifyFinish,
     redisVars, PcValue, Critical, VerifySteps
<1>5. ASSUME NEW p \in Proc, Compact(p)
      PROVE  UNCHANGED <<seq, chainVars, trimmed>> /\ index' \subseteq index /\ JobsKept
  BY <1>1, <1>2, <1>5 DEF Compact, CompactDeclined, CompactBegin, CompactVerified,
     CompactSign, CompactHeaders, CompactIndexes, CompactAnchor,
     redisVars, PcValue, Critical, VerifySteps, CompactSteps
<1>6. ASSUME NEW p \in Proc, Fail(p) \/ Crash(p)
      PROVE  UNCHANGED <<seq, chainVars, trimmed, index>> /\ JobsKept
  BY <1>1, <1>2, <1>6 DEF Fail, Crash, redisVars, PcValue
<1>7. CASE Emit \/ LockExpires \/ LockLapses \/ UNCHANGED vars
  BY <1>7 DEF JobsKept, Emit, LockExpires, LockLapses, vars, redisVars, localVars
<1>8. QED
  BY <1>3, <1>4, <1>5, <1>6, <1>7 DEF Next, Steady

\* The commit guard at work: a commit that is not refused takes exactly the
\* next epoch number, whatever other closers did since ReadLink.
LEMMA CommitNext ==
  ASSUME TypeInv, NEW p \in Proc, CloseCommit(p)
  PROVE  \/ UNCHANGED redisVars
         \/ /\ job[p] \in Job
            /\ job[p].epoch = num + 1 /\ num' = num + 1
            /\ sealed' = Append(sealed, [start |-> job[p].start, end |-> job[p].end,
                                         prev |-> job[p].prev, hash |-> job[p].hash])
            /\ index' = index \cup {num + 1}
            /\ head' = job[p].hash
            /\ lastSeq' = job[p].end /\ cursor' = job[p].end
<1>1. CASE UNCHANGED <<chainVars, stream, index, leaves, eventloc>>
  BY <1>1 DEF CloseCommit, chainVars, redisVars
<1>2. CASE ~UNCHANGED <<chainVars, stream, index, leaves, eventloc>>
  <2>1. job[p] \in Job /\ job[p].epoch \in Nat /\ num \in Int
    BY DEF TypeInv, TypeOK, LocalTypeOK, ChainTypeOK, EpochOrNone, Job
  <2>2. job[p].epoch <= num + 1 /\ ~(num >= job[p].epoch)
    BY <1>2 DEF CloseCommit, AlreadyCommitted, TypeInv, EpochInv
  <2>3. job[p].epoch = num + 1
    BY <2>1, <2>2
  <2>4. QED
    BY <1>2, <2>1, <2>3 DEF CloseCommit
<1>3. QED
  BY <1>1, <1>2

\* The epoch numbers stay the positions of the headers.
LEMMA NextEpoch ==
  ASSUME TypeInv, [Next]_vars
  PROVE  EpochInv'
<1> USE DEF EpochInv, NumbersHeaders
<1>1. num \in Int /\ num >= -1 /\ num = Len(sealed) - 1 /\ sealed \in Seq(Header)
      /\ index \subseteq 0 .. num
  BY DEF TypeInv, TypeOK, ChainTypeOK, EpochOrNone
<1>2. ASSUME NEW p \in Proc, ReadLink(p)
      PROVE  EpochInv'
  <2>1. UNCHANGED <<num, sealed, index>>
    BY <1>2 DEF ReadLink, redisVars
  <2>2. ASSUME NEW q \in Proc, pc'[q] = "commit"
        PROVE  job'[q].epoch <= num + 1
    <3>1. CASE q = p
      BY <1>1, <1>2, <3>1 DEF ReadLink, TypeInv, TypeOK, LocalTypeOK, Job
    <3>2. CASE q # p
      BY <1>2, <2>2, <3>2 DEF ReadLink, Goto, TypeInv, TypeOK, LocalTypeOK
    <3>3. QED
      BY <3>1, <3>2
  <2>3. QED
    BY <1>1, <2>1, <2>2
<1>3. ASSUME NEW p \in Proc, CloseCommit(p)
      PROVE  EpochInv'
  <2>1. \A q \in Proc : pc'[q] = "commit" => pc[q] = "commit" /\ job'[q] = job[q]
    BY <1>3 DEF CloseCommit, Goto, TypeInv, TypeOK, LocalTypeOK
  <2>2. \A q \in Proc : job[q].epoch \in Nat
    BY DEF TypeInv, TypeOK, LocalTypeOK, Job
  <2>3. CASE UNCHANGED redisVars
    BY <1>1, <2>1, <2>3 DEF redisVars, TypeInv
  <2>4. CASE num' = num + 1 /\ index' = index \cup {num + 1} /\ job[p] \in Job
             /\ sealed' = Append(sealed, [start |-> job[p].start, end |-> job[p].end,
                                          prev |-> job[p].prev, hash |-> job[p].hash])
    <3>1. [start |-> job[p].start, end |-> job[p].end,
           prev |-> job[p].prev, hash |-> job[p].hash] \in Header
      BY <2>4 DEF Job, Header
    <3>2. Len(sealed') = Len(sealed) + 1
      BY <1>1, <2>4, <3>1
    <3>3. Len(sealed) \in Nat /\ Len(sealed') = num' + 1
      BY <1>1, <2>4, <3>2
    <3>4. NumbersHeaders'
      BY <1>1, <2>4, <3>3
    <3>5. index' \subseteq 0 .. num'
      <4>1. num \in Int /\ num >= -1 /\ num' = num + 1
        BY <1>1, <2>4
      <4>2. ASSUME NEW k \in index'
            PROVE  k \in Int /\ 0 <= k /\ k <= num + 1
        <5>1. k \in 0 .. num \/ k = num + 1
          BY <1>1, <2>4
        <5>2. QED
          BY <4>1, <5>1
      <4>3. QED
        BY <4>1, <4>2
    <3>6. ASSUME NEW q \in Proc, pc'[q] = "commit"
          PROVE  job'[q].epoch <= num' + 1
      BY <1>1, <2>1, <2>2, <2>4, <3>6 DEF TypeInv
    <3>7. QED
      BY <3>4, <3>5, <3>6
  <2>5. QED
    BY <1>3, <2>3, <2>4, CommitNext
<1>4. ASSUME NEW p \in Proc, TailRead(p) \/ TrimEvents(p)
      PROVE  EpochInv'
  <2>1. UNCHANGED <<num, sealed, index>>
    BY <1>4 DEF TailRead, TrimEvents, redisVars, chainVars
  <2>2. \A q \in Proc : pc'[q] = "commit" => pc[q] = "commit" /\ job'[q] = job[q]
    BY <1>4 DEF TailRead, TrimEvents, CloseDone, Leave, Goto, TypeInv, TypeOK, LocalTypeOK
  <2>3. QED
    BY <1>1, <2>1, <2>2 DEF TypeInv
<1>5. CASE \A p \in Proc : ~TailRead(p) /\ ~ReadLink(p) /\ ~CloseCommit(p) /\ ~TrimEvents(p)
  <2>1. UNCHANGED <<num, sealed>> /\ index' \subseteq index
    BY <1>5, OtherStep DEF TypeInv, chainVars
  <2>2. \A q \in Proc : pc'[q] = "commit" => job'[q].epoch <= num + 1
    BY <1>5, OtherStep DEF TypeInv, JobsKept
  <2>3. QED
    BY <1>1, <2>1, <2>2
<1>6. QED
  BY <1>2, <1>3, <1>4, <1>5

\* TypeInv is inductive.
LEMMA TypeInvariant == Spec => []TypeInv
<1>1. Init => TypeInv
  <2>1. Init => EpochInv
    BY DEF Init, EpochInv, NumbersHeaders
  <2>2. QED
    BY <2>1, InitType DEF TypeInv
<1>2. TypeInv /\ [Next]_vars => TypeInv'
  BY NextType, NextEpoch DEF TypeInv
<1>3. QED
  BY <1>1, <1>2, PTL DEF Spec

\* Every variable keeps its type: no step of any closer, verifier or
\* compactor reads a header, a checkpoint or an anchor line that is not there.
THEOREM TypeCorrect == Spec => []TypeOK
<1>1. TypeInv => TypeOK
  BY DEF TypeInv
<1>2. QED
  BY <1>1, TypeInvariant, PTL

\* The close-commit script numbers the epochs by position and never commits
\* one twice, also when locks lapse and several closers run at once.
THEOREM NumbersCorrect == Spec => []NumbersHeaders
<1>1. TypeInv => NumbersHeaders
  BY DEF TypeInv, EpochInv
<1>2. QED
  BY <1>1, TypeInvariant, PTL

---------------------------------------------------------------------------
(* No event is lost, lapsed locks included.  Everything below the cursor,  *)
(* below the first event of any header and below the tail a closer has     *)
(* read is under some header, so a second closer that reads a stale cursor *)
(* can only seal events again, never skip one.                             *)

Covered(s) == \E k \in 1 .. Len(sealed) : s \in sealed[k].start .. sealed[k].end

CoverInv ==
  /\ cursor = lastSeq
  /\ \A s \in 1 .. lastSeq : Covered(s)
  /\ NoEventLost
  /\ \A k \in 1 .. Len(sealed) : \A s \in 1 .. sealed[k].start - 1 : Covered(s)
  /\ \A p \in Proc : pc[p] \in {"link", "commit"} =>
       \A s \in 1 .. job[p].start - 1 : Covered(s)

\* What is covered stays covered.
LEMMA CoveredStays ==
  ASSUME TypeInv, NEW h \in Header, sealed' = Append(sealed, h), NEW s, Covered(s)
  PROVE  Covered(s)'
<1>1. sealed \in Seq(Header)
  BY DEF TypeInv, TypeOK, ChainTypeOK
<1>2. PICK k \in 1 .. Len(sealed) : s \in sealed[k].start .. sealed[k].end
  BY DEF Covered
<1>3. k \in 1 .. Len(sealed') /\ sealed'[k] = sealed[k]
  BY <1>1
<1>4. QED
  BY <1>2, <1>3 DEF Covered

\* The first event of the tail: all before it are trimmed or sealed.
LEMMA TailCovered ==
  ASSUME TypeInv, CoverInv, NEW first \in Pending,
         \A s \in Pending : s >= first
  PROVE  \A s \in 1 .. first - 1 : Covered(s)
<1>1. seq \in Nat /\ trimmed \in Nat /\ lastSeq \in Nat /\ cursor = lastSeq
  BY DEF TypeInv, TypeOK, StoreTypeOK, ChainTypeOK, CoverInv
<1>2. first \in Nat /\ first <= seq
  BY <1>1 DEF Pending, Buffered
<1>3. SUFFICES ASSUME NEW s \in 1 .. first - 1 PROVE Covered(s)
  OBVIOUS
<1>4. s \notin Pending
  BY <1>2, <1>3
<1>5. s <= trimmed \/ s <= lastSeq
  BY <1>1, <1>2, <1>3, <1>4 DEF Pending, Buffered
<1>6. CASE s <= trimmed
  BY <1>1, <1>2, <1>6 DEF CoverInv, NoEventLost, Covered
<1>7. CASE s <= lastSeq
  BY <1>1, <1>2, <1>7 DEF CoverInv
<1>8. QED
  BY <1>5, <1>6, <1>7

\* CoverInv is inductive.
LEMMA NextCover ==
  ASSUME TypeInv, CoverInv, [Next]_vars
  PROVE  CoverInv'
<1>1. ASSUME NEW p \in Proc, TailRead(p)
      PROVE  CoverInv'
  <2>1. UNCHANGED <<cursor, lastSeq, sealed, trimmed>>
    BY <1>1 DEF TailRead, redisVars
  <2>2. PICK first \in Pending, last \in Pending :
          /\ \A s \in Pending : s >= first
          /\ job' = [job EXCEPT ![p].start = first, ![p].end = last]
    BY <1>1 DEF TailRead
  <2>3. ASSUME NEW q \in Proc, pc'[q] \in {"link", "commit"}, NEW s \in 1 .. job'[q].start - 1
        PROVE  Covered(s)
    <3>1. CASE q = p
      <4>1. job'[q].start = first
        BY <2>2, <3>1 DEF TypeInv, TypeOK, LocalTypeOK, Job
      <4>2. QED
        BY <2>2, <2>3, <4>1, TailCovered
    <3>2. CASE q # p
      BY <1>1, <2>2, <2>3, <3>2 DEF TailRead, Goto, TypeInv, TypeOK, LocalTypeOK, CoverInv
    <3>3. QED
      BY <3>1, <3>2
  <2>4. QED
    BY <2>1, <2>3 DEF CoverInv, Covered, NoEventLost
<1>2. ASSUME NEW p \in Proc, ReadLink(p)
      PROVE  CoverInv'
  <2>1. UNCHANGED <<cursor, lastSeq, sealed, trimmed>>
    BY <1>2 DEF ReadLink, redisVars
  <2>2. \A q \in Proc : job'[q].start = job[q].start
    BY <1>2 DEF ReadLink, TypeInv, TypeOK, LocalTypeOK, Job
  <2>3. \A q \in Proc : pc'[q] \in {"link", "commit"} => pc[q] \in {"link", "commit"}
    BY <1>2 DEF ReadLink, Goto, TypeInv, TypeOK, LocalTypeOK
  <2>4. QED
    BY <2>1, <2>2, <2>3 DEF CoverInv, Covered, NoEventLost
<1>3. ASSUME NEW p \in Proc, CloseCommit(p)
      PROVE  CoverInv'
  <2>1. \A q \in Proc : pc'[q] \in {"link", "commit"} => pc'[q] = pc[q] /\ job'[q] = job[q]
    BY <1>3 DEF CloseCommit, Goto, TypeInv, TypeOK, LocalTypeOK
  <2>2. CASE UNCHANGED redisVars
    BY <2>1, <2>2 DEF redisVars, CoverInv, Covered, NoEventLost
  <2>3. CASE ~UNCHANGED redisVars
    <3> DEFINE j == job[p]
               h == [start |-> j.start, end |-> j.end, prev |-> j.prev, hash |-> j.hash]
    <3>1. j \in Job /\ sealed' = Append(sealed, h) /\ lastSeq' = j.end /\ cursor' = j.end
      BY <1>3, <2>3, CommitNext
    <3>2. h \in Header /\ sealed \in Seq(Header) /\ j.start \in Nat /\ j.end \in Nat
      BY <3>1 DEF Job, Header, TypeInv, TypeOK, ChainTypeOK
    <3>3. \A s : Covered(s) => Covered(s)'
      BY <3>1, <3>2, CoveredStays
    <3>4. \A s \in 1 .. j.start - 1 : Covered(s)'
      BY <1>3, <3>3 DEF CloseCommit, CoverInv
    <3>5. \A s \in j.start .. j.end : Covered(s)'
      <4>1. Len(sealed') \in 1 .. Len(sealed') /\ sealed'[Len(sealed')] = h
        BY <3>1, <3>2
      <4>2. QED
        BY <4>1 DEF Covered
    <3>6. \A s \in 1 .. lastSeq' : Covered(s)'
      BY <3>1, <3>2, <3>4, <3>5
    <3>7. trimmed' = trimmed /\ NoEventLost'
      BY <1>3, <3>3 DEF CloseCommit, CoverInv, NoEventLost, Covered
    <3>8. ASSUME NEW k \in 1 .. Len(sealed'), NEW s \in 1 .. sealed'[k].start - 1
          PROVE  Covered(s)'
      <4>1. CASE k \in 1 .. Len(sealed)
        BY <3>1, <3>2, <3>3, <4>1 DEF CoverInv
      <4>2. CASE k = Len(sealed) + 1
        BY <3>1, <3>2, <3>4, <4>2
      <4>3. QED
        BY <3>1, <3>2, <4>1, <4>2
    <3>9. ASSUME NEW q \in Proc, pc'[q] \in {"link", "commit"}, NEW s \in 1 .. job'[q].start - 1
          PROVE  Covered(s)'
      BY <2>1, <3>3, <3>9 DEF CoverInv
    <3>10. QED
      BY <3>1, <3>6, <3>7, <3>8, <3>9 DEF CoverInv
  <2>4. QED
    BY <2>2, <2>3
<1>4. ASSUME NEW p \in Proc, TrimEvents(p)
      PROVE  CoverInv'
  <2>1. UNCHANGED <<cursor, lastSeq, sealed, index>>
    BY <1>4 DEF TrimEvents, chainVars
  <2>2. \A q \in Proc : pc'[q] \in {"link", "commit"} => pc'[q] = pc[q] /\ job'[q] = job[q]
    BY <1>4 DEF TrimEvents, CloseDone, Leave, Goto, TypeInv, TypeOK, LocalTypeOK
  <2>3. NoEventLost'
    <3>1. CASE trimmed' = trimmed
      BY <2>1, <3>1 DEF CoverInv, NoEventLost
    <3>2. CASE FellOut(p) + 1 \in index /\ trimmed' = KeepFrom(p) - 1
      <4> DEFINE e == FellOut(p) + 1
      <4>1. e \in 0 .. num /\ num \in Int /\ num = Len(sealed) - 1
        <5>1. num \in Int
          BY DEF TypeInv, TypeOK, ChainTypeOK, EpochOrNone
        <5>2. index \subseteq 0 .. num /\ num = Len(sealed) - 1 /\ e \in index
          BY <3>2 DEF TypeInv, EpochInv, NumbersHeaders
        <5>3. QED
          BY <5>1, <5>2
      <4>2. e + 1 \in 1 .. Len(sealed) /\ KeepFrom(p) = sealed[e + 1].start
        <5>1. KeepFrom(p) = sealed[e + 1].start
          BY DEF KeepFrom, HeaderAt
        <5>2. QED
          BY <4>1, <5>1
      <4>3. \A s \in 1 .. KeepFrom(p) - 1 : Covered(s)
        BY <4>2 DEF CoverInv
      <4>4. QED
        BY <2>1, <3>2, <4>3 DEF NoEventLost, Covered
    <3>3. QED
      BY <1>4, <3>1, <3>2 DEF TrimEvents
  <2>4. QED
    BY <2>1, <2>2, <2>3 DEF CoverInv, Covered
<1>5. CASE \A p \in Proc : ~TailRead(p) /\ ~ReadLink(p) /\ ~CloseCommit(p) /\ ~TrimEvents(p)
  <2>1. UNCHANGED <<cursor, lastSeq, sealed, trimmed>> /\ JobsKept
    BY <1>5, OtherStep DEF TypeInv, chainVars
  <2>2. QED
    BY <2>1 DEF CoverInv, Covered, NoEventLost, JobsKept
<1>6. QED
  BY <1>1, <1>2, <1>3, <1>4, <1>5

\* No event is trimmed from the buffer before some header seals it, whatever
\* closers crash, fail or lose their lock in the middle of a section.
THEOREM NoEventLostCorrect == Spec => []NoEventLost
<1>1. Init => CoverInv
  BY DEF Init, CoverInv, NoEventLost
<1>2. TypeInv /\ CoverInv /\ [Next]_vars => CoverInv'
  BY NextCover
<1>3. CoverInv => NoEventLost
  BY DEF CoverInv
<1>4. QED
  BY <1>1, <1>2, <1>3, TypeInvariant, PTL DEF Spec

\* A lapsed lock costs neither the numbering nor an event.
THEOREM LapseLosesNothingCorrect == Spec => []LapseLosesNothing
BY NumbersCorrect, NoEventLostCorrect, PTL DEF LapseLosesNothing

---------------------------------------------------------------------------
(* The chain is gapless as long as no lock lapses under a live holder.     *)

\* The lock excludes: only its holder is inside a section.
Mutex == \A p \in Proc : pc[p] \in Critical => lock = p

\* No step but a lapse lets two processes into their sections.
LEMMA NextMutex ==
  ASSUME TypeOK, Mutex, [Steady]_vars
  PROVE  Mutex'
<1> USE DEF TypeOK, LocalTypeOK
<1>1. ASSUME NEW p \in Proc, NEW label \in PcValue \ Critical, Leave(p, label)
      PROVE  Mutex'
  BY <1>1 DEF Mutex, Leave, Goto, Release
<1>2. ASSUME NEW p \in Proc, NEW label \in PcValue, Goto(p, label), Take(p)
      PROVE  Mutex'
  BY <1>2, ProcAssumption DEF Mutex, Goto, Take
<1>3. ASSUME NEW p \in Proc, NEW label \in PcValue, Goto(p, label), lock' = lock,
             pc[p] \in Critical \/ label \notin Critical
      PROVE  Mutex'
  BY <1>3 DEF Mutex, Goto
<1>4. {"idle", "compact"} \cap Critical = {}
  BY DEF Critical, CloseSteps, VerifySteps, CompactSteps
<1>5. ASSUME NEW p \in Proc, Close(p)
      PROVE  Mutex'
  BY <1>1, <1>2, <1>3, <1>4, <1>5 DEF Close, CloseBegin, TailEmpty, TailRead, ReadLink,
     CloseCommit, RecordAnchor, TrimNothing, TrimLocations, TrimLeaves, TrimEvents,
     CloseDone, PcValue, Critical, CloseSteps
<1>6. ASSUME NEW p \in Proc, Verify(p)
      PROVE  Mutex'
  BY <1>1, <1>2, <1>3, <1>4, <1>6 DEF Verify, VerifyBegin, VerifyAnchor, VerifySince, VerifyHeaders,
     VerifyFinish, PcValue, Critical, VerifySteps
<1>7. ASSUME NEW p \in Proc, Compact(p)
      PROVE  Mutex'
  BY <1>1, <1>2, <1>3, <1>4, <1>7 DEF Compact, CompactDeclined, CompactBegin,
     CompactVerified, CompactSign, CompactHeaders, CompactIndexes,
     CompactAnchor, PcValue, Critical, VerifySteps, CompactSteps
<1>8. ASSUME NEW p \in Proc, Fail(p) \/ Crash(p)
      PROVE  Mutex'
  BY <1>1, <1>3, <1>4, <1>8 DEF Fail, Crash, PcValue
<1>9. CASE Emit \/ LockExpires \/ UNCHANGED vars
  BY <1>9 DEF Mutex, Emit, LockExpires, vars, localVars
<1>10. QED
  BY <1>5, <1>6, <1>7, <1>8, <1>9 DEF Steady

GaplessInv ==
  /\ ChainGapless
  /\ trimmed <= lastSeq
  /\ \A k \in 0 .. num : HeaderAt(k).end <= lastSeq
  /\ \A p \in Proc : pc[p] \in {"link", "commit"} =>
       /\ job[p].start = lastSeq + 1
       /\ job[p].start <= job[p].end
       /\ job[p].end - job[p].start < MaxLeaves
       /\ job[p].end <= seq
  /\ \A p \in Proc : pc[p] = "commit" =>
       job[p].epoch = num + 1 /\ job[p].prev = head

\* A read of the tail starts right after the last sealed event.
LEMMA TailStart ==
  ASSUME TypeInv, GaplessInv, NEW first \in Pending,
         \A s \in Pending : s >= first
  PROVE  first = lastSeq + 1 /\ Pending \subseteq lastSeq + 1 .. seq
<1>1. seq \in Nat /\ trimmed \in Nat /\ lastSeq \in Nat
  BY DEF TypeInv, TypeOK, StoreTypeOK, ChainTypeOK
<1>2. trimmed <= lastSeq /\ cursor = lastSeq
  BY DEF GaplessInv, ChainGapless
<1>3. Pending = lastSeq + 1 .. seq
  BY <1>1, <1>2 DEF Pending, Buffered
<1>4. QED
  BY <1>1, <1>3

\* Numbers in scope for the steps below.
LEMMA ChainFacts ==
  ASSUME TypeInv
  PROVE  /\ num \in Int /\ num >= -1 /\ num = Len(sealed) - 1
         /\ sealed \in Seq(Header)
         /\ head \in Nat /\ lastSeq \in Nat /\ seq \in Nat /\ trimmed \in Nat
         /\ \A k \in 0 .. num : HeaderAt(k) \in Header
<1>1. /\ num \in Int /\ num >= -1 /\ sealed \in Seq(Header) /\ head \in Nat /\ lastSeq \in Nat
      /\ seq \in Nat /\ trimmed \in Nat
  BY DEF TypeInv, TypeOK, ChainTypeOK, StoreTypeOK, EpochOrNone
<1>2. num = Len(sealed) - 1
  BY DEF TypeInv, EpochInv, NumbersHeaders
<1>3. ASSUME NEW k \in 0 .. num
      PROVE  HeaderAt(k) \in Header
  <2>1. k + 1 \in 1 .. Len(sealed)
    BY <1>1, <1>2
  <2>2. QED
    BY <1>1, <2>1 DEF HeaderAt
<1>4. QED
  BY <1>1, <1>2, <1>3

\* A commit that fits the chain extends it by one header.
LEMMA ChainExtends ==
  ASSUME TypeInv, GaplessInv, NEW p \in Proc, CloseCommit(p),
         ~UNCHANGED redisVars
  PROVE  ChainGapless' /\ (\A k \in 0 .. num : HeaderAt(k).end <= lastSeq)'
<1> DEFINE j == job[p]
           h == [start |-> j.start, end |-> j.end, prev |-> j.prev, hash |-> j.hash]
<1>1. /\ j \in Job /\ num' = num + 1 /\ sealed' = Append(sealed, h)
      /\ head' = j.hash /\ lastSeq' = j.end /\ cursor' = j.end
  BY CommitNext
<1>2. seq' = seq
  BY DEF CloseCommit
<1>3. /\ j.start = lastSeq + 1 /\ j.start <= j.end /\ j.end - j.start < MaxLeaves
      /\ j.end <= seq /\ j.prev = head
  BY DEF CloseCommit, GaplessInv
<1>4. h \in Header /\ j.start \in Nat /\ j.end \in Nat
  BY <1>1 DEF Job, Header
<1>5. PICK n \in Nat : n = num + 1
  BY ChainFacts
<1>6. n = Len(sealed) /\ Len(sealed') = n + 1
  BY <1>1, <1>4, <1>5, ChainFacts
<1>7. \A k \in 0 .. n - 1 : HeaderAt(k)' = HeaderAt(k)
  <2>1. \A k \in 1 .. n : sealed'[k] = sealed[k]
    BY <1>1, <1>4, <1>6, ChainFacts
  <2>2. \A k \in 0 .. n - 1 : k + 1 \in 1 .. n
    BY <1>5
  <2>3. QED
    BY <2>1, <2>2 DEF HeaderAt
<1>8. HeaderAt(n)' = h
  BY <1>1, <1>4, <1>6, ChainFacts DEF HeaderAt
<1>9. \A k \in 0 .. n : Prior(k)' = Prior(k)
  BY <1>7 DEF Prior
<1>10. ASSUME NEW k \in 0 .. n
      PROVE  /\ Follows(HeaderAt(k), Prior(k))'
             /\ HeaderAt(k)'.start <= HeaderAt(k)'.end
             /\ HeaderAt(k)'.end - HeaderAt(k)'.start < MaxLeaves
             /\ HeaderAt(k)'.end <= lastSeq'
  <2>1. CASE k \in 0 .. n - 1
    <3>1. HeaderAt(k).end \in Nat /\ k \in 0 .. num
      BY <1>5, <2>1, ChainFacts DEF Header
    <3>2. HeaderAt(k).end <= lastSeq'
      BY <1>1, <1>3, <1>4, <3>1, ChainFacts DEF GaplessInv
    <3>3. QED
      BY <1>7, <1>9, <2>1, <3>1, <3>2 DEF GaplessInv, ChainGapless, Follows
  <2>2. CASE k = n
    <3>1. HeaderAt(k)' = h /\ Prior(k)' = Prior(num + 1)
      BY <1>5, <1>8, <1>9, <2>2
    <3>2. Prior(num + 1).end = lastSeq /\ Prior(num + 1).hash = head
      BY DEF GaplessInv, ChainGapless
    <3>3. QED
      BY <1>1, <1>3, <1>4, <3>1, <3>2 DEF Follows
  <2>3. QED
    BY <1>5, <2>1, <2>2
<1>11. Prior(n + 1)' = h
  BY <1>5, <1>8 DEF Prior
<1>12. NumbersHeaders' /\ num' = n
  BY <1>1, <1>5, <1>6 DEF NumbersHeaders
<1>13. ChainGapless'
  <2>1. Prior(num + 1)' = h
    BY <1>11, <1>12
  <2>2. lastSeq' <= seq'
    BY <1>1, <1>2, <1>3
  <2>3. QED
    BY <1>1, <1>10, <1>12, <2>1, <2>2 DEF ChainGapless
<1>14. QED
  BY <1>10, <1>12, <1>13

\* A step that leaves the chain alone keeps it gapless.
LEMMA ChainStands ==
  ASSUME TypeInv, GaplessInv, UNCHANGED chainVars, seq' = seq \/ seq' = seq + 1
  PROVE  ChainGapless' /\ (\A k \in 0 .. num : HeaderAt(k).end <= lastSeq)'
<1>1. \A k : HeaderAt(k)' = HeaderAt(k) /\ Prior(k)' = Prior(k)
  BY DEF chainVars, HeaderAt, Prior
<1>2. lastSeq <= seq'
  BY ChainFacts DEF GaplessInv, ChainGapless
<1>3. UNCHANGED <<sealed, num, head, lastSeq, cursor>>
  BY DEF chainVars
<1>4. Prior(num + 1)' = Prior(num + 1)
  BY <1>3 DEF Prior, HeaderAt
<1>5. QED
  BY <1>1, <1>2, <1>3, <1>4 DEF GaplessInv, ChainGapless, NumbersHeaders, Follows

\* Without lapses GaplessInv is inductive.
LEMMA NextGapless ==
  ASSUME TypeInv, Mutex, GaplessInv, [Next]_vars
  PROVE  GaplessInv'
<1> DEFINE AtCommit == {"link", "commit"}
<1>1. ASSUME NEW p \in Proc, TailRead(p)
      PROVE  GaplessInv'
  <2>1. UNCHANGED chainVars /\ UNCHANGED <<seq, trimmed>>
    BY <1>1 DEF TailRead, redisVars, chainVars
  <2>2. PICK first \in Pending, last \in Pending :
          /\ \A s \in Pending : s >= first
          /\ first <= last /\ last - first < MaxLeaves
          /\ job' = [job EXCEPT ![p].start = first, ![p].end = last]
    BY <1>1 DEF TailRead
  <2>3. first = lastSeq + 1 /\ last <= seq
    BY <2>2, TailStart, ChainFacts
  <2>4. job'[p].start = first /\ job'[p].end = last /\ pc'[p] = "link"
    BY <1>1, <2>2 DEF TailRead, Goto, TypeInv, TypeOK, LocalTypeOK, Job
  <2>5. \A q \in Proc \ {p} : pc'[q] = pc[q] /\ job'[q] = job[q]
    BY <1>1, <2>2 DEF TailRead, Goto, TypeInv, TypeOK, LocalTypeOK
  <2>6. QED
    BY <2>1, <2>2, <2>3, <2>4, <2>5, ChainStands DEF GaplessInv, chainVars
<1>2. ASSUME NEW p \in Proc, ReadLink(p)
      PROVE  GaplessInv'
  <2>1. UNCHANGED chainVars /\ UNCHANGED <<seq, trimmed>>
    BY <1>2 DEF ReadLink, redisVars, chainVars
  <2>2. job' = [job EXCEPT ![p] = [@ EXCEPT !.epoch = num + 1, !.prev = head, !.hash = clock + 1]]
    BY <1>2 DEF ReadLink
  <2>3. /\ job'[p].start = job[p].start /\ job'[p].end = job[p].end
        /\ job'[p].epoch = num + 1 /\ job'[p].prev = head
    BY <2>2 DEF TypeInv, TypeOK, LocalTypeOK, Job
  <2>4. \A q \in Proc \ {p} : pc'[q] = pc[q] /\ job'[q] = job[q]
    BY <1>2, <2>2 DEF ReadLink, Goto, TypeInv, TypeOK, LocalTypeOK
  <2>5. pc[p] = "link"
    BY <1>2 DEF ReadLink
  <2>6. QED
    BY <2>1, <2>3, <2>4, <2>5, ChainStands DEF GaplessInv, chainVars
<1>3. ASSUME NEW p \in Proc, CloseCommit(p)
      PROVE  GaplessInv'
  <2>1. \A q \in Proc : pc'[q] \notin AtCommit
    <3>1. pc[p] = "commit" /\ pc' = [pc EXCEPT ![p] = "anchor"]
      BY <1>3 DEF CloseCommit, Goto
    <3>2. \A q \in Proc \ {p} : pc[q] \notin AtCommit
      BY <3>1 DEF Mutex, Critical, CloseSteps
    <3>3. QED
      BY <3>1, <3>2 DEF TypeInv, TypeOK, LocalTypeOK
  <2>2. trimmed' <= lastSeq'
    <3>1. CASE UNCHANGED redisVars
      BY <3>1 DEF redisVars, GaplessInv
    <3>2. CASE ~UNCHANGED redisVars
      <4>1. lastSeq' = job[p].end /\ job[p] \in Job
        BY <1>3, <3>2, CommitNext
      <4>2. job[p].start = lastSeq + 1 /\ job[p].start <= job[p].end /\ trimmed <= lastSeq
        BY <1>3 DEF CloseCommit, GaplessInv
      <4>3. trimmed' = trimmed
        BY <1>3 DEF CloseCommit
      <4>4. QED
        BY <4>1, <4>2, <4>3, ChainFacts DEF Job
    <3>3. QED
      BY <3>1, <3>2
  <2>3. ChainGapless' /\ (\A k \in 0 .. num : HeaderAt(k).end <= lastSeq)'
    <3>1. CASE UNCHANGED redisVars
      BY <3>1, ChainStands DEF redisVars, chainVars
    <3>2. CASE ~UNCHANGED redisVars
      BY <1>3, <3>2, ChainExtends
    <3>3. QED
      BY <3>1, <3>2
  <2>4. QED
    BY <2>1, <2>2, <2>3 DEF GaplessInv
<1>4. ASSUME NEW p \in Proc, TrimEvents(p)
      PROVE  GaplessInv'
  <2>1. UNCHANGED chainVars /\ seq' = seq
    BY <1>4 DEF TrimEvents
  <2>2. \A q \in Proc : pc'[q] \in AtCommit => pc'[q] = pc[q] /\ job'[q] = job[q]
    BY <1>4 DEF TrimEvents, CloseDone, Leave, Goto, TypeInv, TypeOK, LocalTypeOK
  <2>3. trimmed' <= lastSeq
    <3>1. CASE trimmed' = trimmed
      BY <3>1 DEF GaplessInv
    <3>2. CASE FellOut(p) + 1 \in index /\ trimmed' = KeepFrom(p) - 1
      <4> DEFINE e == FellOut(p) + 1
      <4>1. e \in 0 .. num
        BY <3>2 DEF TypeInv, EpochInv
      <4>2. HeaderAt(e).start <= HeaderAt(e).end /\ HeaderAt(e).end <= lastSeq
        BY <4>1 DEF GaplessInv, ChainGapless
      <4>3. HeaderAt(e) \in Header
        BY <4>1, ChainFacts
      <4>4. trimmed' = HeaderAt(e).start - 1
        BY <3>2 DEF KeepFrom
      <4>5. QED
        BY <4>2, <4>3, <4>4, ChainFacts DEF Header
    <3>3. QED
      BY <1>4, <3>1, <3>2 DEF TrimEvents
  <2>4. QED
    BY <2>1, <2>2, <2>3, ChainStands DEF GaplessInv, chainVars
<1>5. CASE \A p \in Proc : ~TailRead(p) /\ ~ReadLink(p) /\ ~CloseCommit(p) /\ ~TrimEvents(p)
  <2>1. UNCHANGED chainVars /\ trimmed' = trimmed /\ (seq' = seq \/ seq' = seq + 1) /\ JobsKept
    BY <1>5, OtherStep DEF TypeInv
  <2>2. ASSUME NEW q \in Proc, pc'[q] \in AtCommit
        PROVE  pc[q] = pc'[q] /\ job'[q] = job[q] /\ job[q].end <= seq'
    <3>1. pc[q] = pc'[q] /\ job'[q] = job[q]
      BY <2>1, <2>2 DEF JobsKept
    <3>2. job[q].end <= seq /\ job[q].end \in Nat
      BY <2>2, <3>1 DEF GaplessInv, TypeInv, TypeOK, LocalTypeOK, Job
    <3>3. QED
      BY <2>1, <3>1, <3>2, ChainFacts
  <2>3. QED
    BY <2>1, <2>2, ChainStands DEF GaplessInv, chainVars
<1>6. QED
  BY <1>1, <1>2, <1>3, <1>4, <1>5

\* A deployment without lapses is a deployment.
LEMMA SteadyIsSpec == SteadySpec => Spec
<1>1. [Steady]_vars => [Next]_vars
  BY DEF Next
<1>2. QED
  BY <1>1, PTL DEF Spec, SteadySpec

\* Without lapses, the lock excludes and the chain stays gapless.
LEMMA GaplessInvariant == SteadySpec => [](Mutex /\ GaplessInv)
<1>1. Init => Mutex /\ GaplessInv
  <2>1. Init => Mutex
    BY DEF Init, Mutex, Critical, CloseSteps, VerifySteps, CompactSteps
  <2>2. Init => GaplessInv
    BY DEF Init, GaplessInv, ChainGapless, NumbersHeaders, Prior, NoCheckpoint, Genesis
  <2>3. QED
    BY <2>1, <2>2
<1>2. TypeInv /\ Mutex /\ GaplessInv /\ [Steady]_vars => (Mutex /\ GaplessInv)'
  BY NextMutex, NextGapless DEF TypeInv, Next
<1>3. QED
  BY <1>1, <1>2, TypeInvariant, SteadyIsSpec, PTL DEF SteadySpec

\* close_epoch seals the events in order, each exactly once, in epochs of at
\* most MaxLeaves linked by hash, and the counters name the newest epoch:
\* for any number of closers, any failures and crashes, if no lock lapses
\* under a live holder.
THEOREM ChainGaplessCorrect == SteadySpec => []ChainGapless
<1>1. Mutex /\ GaplessInv => ChainGapless
  BY DEF GaplessInv
<1>2. QED
  BY <1>1, GaplessInvariant, PTL

---------------------------------------------------------------------------
(* The ledger implements the sealed log, as long as no lock lapses under a *)
(* live holder: a commit that fits the chain seals the next few unsealed   *)
(* events, and nothing else touches what is emitted or sealed.             *)

\* The epochs the log shows, from the headers of the chain.
Shown == [k \in 1 .. Len(sealed) |-> [start |-> sealed[k].start, end |-> sealed[k].end]]

\* One header more is one epoch more.
LEMMA ShownGrows ==
  ASSUME sealed \in Seq(Header), NEW h \in Header, sealed' = Append(sealed, h)
  PROVE  Shown' = Append(Shown, [start |-> h.start, end |-> h.end])
<1> DEFINE n == Len(sealed)
           e == [start |-> h.start, end |-> h.end]
           R == [start : Nat, end : Nat]
<1>1. n \in Nat /\ Len(sealed') = n + 1
  OBVIOUS
<1>2. \A k \in 1 .. n : sealed'[k] = sealed[k] /\ sealed[k] \in Header
  OBVIOUS
<1>3. sealed'[n + 1] = h
  OBVIOUS
<1>4. e \in R /\ \A k \in 1 .. n : [start |-> sealed[k].start, end |-> sealed[k].end] \in R
  BY <1>2 DEF Header
<1>5. Shown \in Seq(R) /\ Len(Shown) = n
  BY <1>1, <1>4 DEF Shown
<1>6. Append(Shown, e) = [k \in 1 .. n + 1 |-> IF k = n + 1 THEN e ELSE Shown[k]]
  BY <1>1, <1>4, <1>5
<1>7. Shown' = [k \in 1 .. n + 1 |-> [start |-> sealed'[k].start, end |-> sealed'[k].end]]
  BY <1>1 DEF Shown
<1>8. ASSUME NEW k \in 1 .. n + 1
      PROVE  [start |-> sealed'[k].start, end |-> sealed'[k].end]
               = IF k = n + 1 THEN e ELSE Shown[k]
  <2>1. CASE k = n + 1
    BY <1>3, <2>1
  <2>2. CASE k \in 1 .. n
    BY <1>2, <2>2 DEF Shown
  <2>3. QED
    BY <1>1, <2>1, <2>2
<1>9. QED
  BY <1>6, <1>7, <1>8

\* The last event the log calls sealed is the counter last_seq.
LEMMA ShownTo ==
  ASSUME TypeInv, GaplessInv
  PROVE  Log!SealedTo = lastSeq
<1>1. num \in Int /\ num = Len(sealed) - 1 /\ sealed \in Seq(Header)
  BY ChainFacts
<1>2. CASE Len(sealed) = 0
  <2>1. Shown = << >>
    BY <1>2 DEF Shown
  <2>2. lastSeq = Prior(0).end /\ Prior(0) = NoCheckpoint
    BY <1>1, <1>2 DEF GaplessInv, ChainGapless, Prior
  <2>3. QED
    BY <2>1, <2>2 DEF Log!SealedTo, Shown, NoCheckpoint
<1>3. CASE Len(sealed) # 0
  <2>1. Len(Shown) = Len(sealed) /\ Shown[Len(sealed)].end = sealed[Len(sealed)].end
    BY <1>1, <1>3 DEF Shown
  <2>2. Shown # << >>
    BY <1>1, <1>3, <2>1
  <2>3. lastSeq = Prior(num + 1).end /\ num + 1 = Len(sealed)
    BY <1>1 DEF GaplessInv, ChainGapless
  <2>4. Prior(num + 1) = sealed[Len(sealed)]
    BY <1>1, <1>3 DEF Prior, HeaderAt
  <2>5. QED
    BY <2>1, <2>2, <2>3, <2>4 DEF Log!SealedTo, Shown
<1>4. QED
  BY <1>2, <1>3

\* Every step of the ledger is a step of the log, or none.
LEMMA StepRefines ==
  ASSUME TypeInv, GaplessInv, [Steady]_vars
  PROVE  [Log!Next]_(Log!logVars)
<1>1. ASSUME NEW p \in Proc, CloseCommit(p), ~UNCHANGED redisVars
      PROVE  Log!Seal
  <2> DEFINE j == job[p]
             h == [start |-> j.start, end |-> j.end, prev |-> j.prev, hash |-> j.hash]
  <2>1. j \in Job /\ sealed' = Append(sealed, h) /\ seq' = seq
    BY <1>1, CommitNext DEF CloseCommit
  <2>2. /\ j.start = lastSeq + 1 /\ j.start <= j.end /\ j.end - j.start < MaxLeaves
        /\ j.end <= seq
    BY <1>1 DEF CloseCommit, GaplessInv
  <2>3. h \in Header /\ sealed \in Seq(Header) /\ lastSeq \in Nat /\ seq \in Nat
        /\ j.end \in Nat /\ MaxLeaves \in Nat
    BY <2>1, ChainFacts, WindowAssumption DEF Job, Header
  <2>4. Shown' = Append(Shown, [start |-> j.start, end |-> j.end])
    BY <2>1, <2>3, ShownGrows
  <2>5. j.end \in Log!SealedTo + 1 .. seq /\ j.end - Log!SealedTo <= MaxLeaves
        /\ j.start = Log!SealedTo + 1
    BY <2>2, <2>3, ShownTo
  <2>6. QED
    BY <2>1, <2>4, <2>5 DEF Log!Seal, Shown
<1>2. CASE Emit
  BY <1>2 DEF Emit, Log!Next, Log!Emit
<1>3. ASSUME ~Emit, UNCHANGED <<sealed, seq>>
      PROVE  UNCHANGED Log!logVars
  BY <1>3 DEF Log!logVars
<1>4. ASSUME NEW p \in Proc, TailRead(p) \/ ReadLink(p) \/ TrimEvents(p)
      PROVE  UNCHANGED <<sealed, seq>>
  BY <1>4 DEF TailRead, ReadLink, TrimEvents, redisVars, chainVars
<1>5. ASSUME NEW p \in Proc, CloseCommit(p), UNCHANGED redisVars
      PROVE  UNCHANGED <<sealed, seq>>
  BY <1>5 DEF redisVars
<1>6. ASSUME \A p \in Proc : ~TailRead(p) /\ ~ReadLink(p) /\ ~CloseCommit(p) /\ ~TrimEvents(p),
             ~Emit
      PROVE  UNCHANGED <<sealed, seq>>
  <2>1. UNCHANGED sealed
    BY <1>6, OtherStep DEF Next, TypeInv, chainVars
  <2>2. UNCHANGED seq
    BY <1>6 DEF Steady, Close, CloseBegin, TailEmpty, RecordAnchor, TrimNothing,
       TrimLocations, TrimLeaves, Verify, VerifyBegin, VerifyAnchor, VerifySince,
       VerifyHeaders, VerifyFinish, Compact, CompactDeclined, CompactBegin,
       CompactVerified, CompactSign, CompactHeaders, CompactIndexes, CompactAnchor,
       Fail, Crash, LockExpires, redisVars, vars
  <2>3. QED
    BY <2>1, <2>2
<1>7. QED
  BY <1>1, <1>2, <1>3, <1>4, <1>5, <1>6 DEF Log!Next

\* The ledger implements the sealed log: closers of any number, failing and
\* crashing anywhere, seal each event once and in order, as one closer that
\* never fails would.
THEOREM LedgerImplements == SteadySpec => LogSpec
<1>1. Init => Log!Init
  BY DEF Init, Log!Init
<1>2. TypeInv /\ GaplessInv /\ [Steady]_vars => [Log!Next]_(Log!logVars)
  BY StepRefines
<1>3. QED
  BY <1>1, <1>2, TypeInvariant, GaplessInvariant, SteadyIsSpec, PTL
  DEF SteadySpec, LogSpec, Log!Spec

---------------------------------------------------------------------------
(* What is hot is provable, and an honest chain verifies: as long as no    *)
(* lock lapses under a live holder.  The stores are written one by one, so *)
(* the invariant says of each what it holds between any two writes.        *)

\* The epochs seal the events in order.
Ordered ==
  \A i, j \in 0 .. num : i < j => HeaderAt(i).end < HeaderAt(j).start

\* The buffer starts with the first event of an epoch.
AtBoundary ==
  \A k \in 0 .. num : HeaderAt(k).end <= trimmed \/ trimmed < HeaderAt(k).start

\* A hot epoch has all its entries and its events.
HotInv ==
  \A k \in 0 .. num : k > num - HotEpochs =>
    /\ k \in index \cap leaves
    /\ trimmed < HeaderAt(k).start
    /\ \A s \in HeaderAt(k).start .. HeaderAt(k).end :
         s \in DOMAIN eventloc /\ eventloc[s] = k

\* A witness of epoch e agrees with the chain.
OnChain(e, h) == e \in 0 .. num /\ HeaderAt(e).hash = h
HeadOnChain(l) == l = NoHead \/ OnChain(l.epoch, l.hash)
CheckpointOnChain(c) ==
  c = NoCheckpoint \/ (OnChain(c.epoch, c.hash) /\ c.end = HeaderAt(c.epoch).end)

\* Every anchor line and the super-checkpoint agree with the chain, and what
\* the super-checkpoint does not subsume is still there.
WitnessInv ==
  /\ \A f \in File : \A l \in anchor[f] : OnChain(l.epoch, l.hash)
  /\ CheckpointOnChain(supercp)
  /\ stream \subseteq 0 .. num
  /\ \A k \in 0 .. num : k > supercp.epoch => k \in stream \cap index

StoreInv == Ordered /\ AtBoundary /\ HotInv /\ WitnessInv

\* What a closer, a verifier and a compactor know inside their sections.
Closing(p) ==
  /\ pc[p] = "anchor" => OnChain(job[p].epoch, job[p].hash)
  /\ pc[p] \in {"trim", "unleaf", "xtrim"} => job[p].epoch <= num
Verifying(p) ==
  /\ pc[p] \in {"vheaders", "vcounters"} =>
       /\ CheckpointOnChain(view[p].cp) /\ view[p].cp.epoch >= supercp.epoch
       /\ HeadOnChain(view[p].top)
  /\ pc[p] = "vcounters" => view[p].stream = stream
Folding(p) ==
  /\ (p \in Closer /\ pc[p] \in VerifySteps) \/ pc[p] = "cpsign" =>
       supercp.epoch < view[p].target /\ view[p].target <= num - KeepEpochs
  /\ pc[p] \in {"xdel", "hdel", "rotate"} =>
       view[p].target <= supercp.epoch /\ view[p].target <= num - KeepEpochs
  /\ pc[p] = "hdel" => view[p].dels \subseteq 0 .. view[p].target
Section(p) == Closing(p) /\ Verifying(p) /\ Folding(p)

TrailInv == StoreInv /\ NoFalseTamper /\ \A p \in Proc : Section(p)

\* The replay of an honest chain succeeds.
LEMMA ReplaySucceeds ==
  ASSUME TypeInv, GaplessInv, StoreInv, NEW p \in Proc, Section(p), pc[p] = "vcounters"
  PROVE  Replays(view[p])
<1> DEFINE v == view[p]
           replayed == {k \in v.stream : k > v.cp.epoch}
           prior(k) == IF k = v.cp.epoch + 1 THEN v.cp ELSE HeaderAt(k - 1)
           final == IF replayed = {} THEN v.cp ELSE HeaderAt(num)
<1>1. /\ CheckpointOnChain(v.cp) /\ v.cp.epoch >= supercp.epoch
      /\ HeadOnChain(v.top) /\ v.stream = stream
  BY DEF Section, Verifying
<1>2. v \in View /\ supercp \in Checkpoint
  BY DEF TypeInv, TypeOK, LocalTypeOK, StoreTypeOK
<1>3. num \in Int /\ num >= -1 /\ lastSeq \in Nat /\ seq \in Nat /\ trimmed \in Nat
  BY ChainFacts
<1>4. v.cp.epoch \in Int /\ v.cp.epoch >= -1 /\ supercp.epoch \in Int
  BY <1>2 DEF View, Checkpoint, EpochOrNone
<1>5. replayed = v.cp.epoch + 1 .. num
  <2>1. ASSUME NEW k \in replayed
        PROVE  k \in v.cp.epoch + 1 .. num
    <3>1. k \in 0 .. num /\ k > v.cp.epoch
      BY <1>1 DEF StoreInv, WitnessInv
    <3>2. QED
      BY <1>3, <1>4, <3>1
  <2>2. ASSUME NEW k \in v.cp.epoch + 1 .. num
        PROVE  k \in replayed
    <3>1. k \in 0 .. num /\ k > supercp.epoch
      BY <1>1, <1>3, <1>4
    <3>2. k \in stream
      BY <3>1 DEF StoreInv, WitnessInv
    <3>3. QED
      BY <1>1, <1>4, <3>2
  <2>3. QED
    BY <2>1, <2>2
<1>6. v.cp = NoCheckpoint => v.cp.epoch = -1 /\ v.cp.hash = Genesis /\ v.cp.end = 0
  BY DEF NoCheckpoint
<1>7. ASSUME v.cp # NoCheckpoint
      PROVE  v.cp.epoch \in 0 .. num /\ v.cp.hash = HeaderAt(v.cp.epoch).hash
             /\ v.cp.end = HeaderAt(v.cp.epoch).end
  BY <1>1, <1>7 DEF CheckpointOnChain, OnChain
<1>8. CASE v.cp = NoCheckpoint /\ replayed = {}
  <2>1. num = -1
    BY <1>3, <1>5, <1>6, <1>8
  <2>2. lastSeq = 0
    BY <2>1 DEF GaplessInv, ChainGapless, Prior, NoCheckpoint
  <2>3. v.top = NoHead
    BY <1>1, <2>1 DEF HeadOnChain, OnChain
  <2>4. QED
    BY <1>8, <2>1, <2>2, <2>3 DEF Replays
<1>9. CASE ~(v.cp = NoCheckpoint /\ replayed = {})
  <2>1. ASSUME NEW k \in replayed
        PROVE  Follows(HeaderAt(k), prior(k))
    <3>1. k \in 0 .. num
      BY <1>4, <1>5
    <3>2. Follows(HeaderAt(k), Prior(k))
      BY <3>1 DEF GaplessInv, ChainGapless
    <3>3. prior(k).hash = Prior(k).hash /\ prior(k).end = Prior(k).end
      <4>1. CASE k = v.cp.epoch + 1 /\ v.cp = NoCheckpoint
        BY <1>6, <4>1 DEF Prior
      <4>2. CASE k = v.cp.epoch + 1 /\ v.cp # NoCheckpoint
        <5>1. k # 0 /\ k - 1 = v.cp.epoch
          BY <1>4, <1>7, <4>2
        <5>2. QED
          BY <1>7, <4>2, <5>1 DEF Prior
      <4>3. CASE k # v.cp.epoch + 1
        <5>1. k # 0
          BY <1>4, <1>5, <4>3
        <5>2. QED
          BY <4>3, <5>1 DEF Prior
      <4>4. QED
        BY <4>1, <4>2, <4>3
    <3>4. QED
      BY <3>2, <3>3 DEF Follows
  <2>2. ASSUME NEW k \in replayed
        PROVE  EventsVerify(k)
    <3>1. k \in 0 .. num /\ HeaderAt(k) \in Header
      BY <1>4, <1>5, ChainFacts
    <3>2. HeaderAt(k).end <= seq
      BY <1>3, <3>1 DEF GaplessInv, ChainGapless, Header
    <3>3. CASE trimmed < HeaderAt(k).start
      BY <1>3, <3>1, <3>2, <3>3 DEF EventsVerify, Header
    <3>4. CASE HeaderAt(k).end <= trimmed
      <4>1. HeaderAt(k).start <= HeaderAt(k).end
        BY <3>1 DEF GaplessInv, ChainGapless
      <4>2. ~(k > num - HotEpochs)
        BY <1>3, <3>1, <3>4, <4>1 DEF StoreInv, HotInv, Header
      <4>3. QED
        BY <1>3, <3>1, <3>4, <4>2, WindowAssumption DEF EventsVerify
    <3>5. QED
      BY <3>1, <3>3, <3>4 DEF StoreInv, AtBoundary
  <2>3. final.end = lastSeq /\ final.hash = head
    <3>1. CASE replayed = {}
      <4>1. v.cp.epoch = num /\ num \in 0 .. num
        BY <1>3, <1>4, <1>5, <1>7, <1>9, <3>1
      <4>2. v.cp.hash = HeaderAt(num).hash /\ v.cp.end = HeaderAt(num).end
        BY <1>7, <1>9, <3>1, <4>1
      <4>3. HeaderAt(num) = Prior(num + 1)
        BY <4>1 DEF Prior
      <4>4. QED
        BY <3>1, <4>2, <4>3 DEF GaplessInv, ChainGapless
    <3>2. CASE replayed # {}
      <4>1. num \in Nat
        BY <1>3, <1>4, <1>5, <3>2
      <4>2. HeaderAt(num) = Prior(num + 1)
        BY <4>1 DEF Prior
      <4>3. QED
        BY <3>2, <4>2 DEF GaplessInv, ChainGapless
    <3>3. QED
      BY <3>1, <3>2
  <2>4. v.top.epoch <= num /\ (v.top.epoch > v.cp.epoch => HeaderAt(v.top.epoch).hash = v.top.hash)
    <3>1. CASE v.top = NoHead
      BY <1>3, <1>4, <3>1 DEF NoHead
    <3>2. CASE v.top # NoHead
      BY <1>1, <1>3, <3>2 DEF HeadOnChain, OnChain
    <3>3. QED
      BY <3>1, <3>2
  <2>5. QED
    BY <1>5, <1>9, <2>1, <2>2, <2>3, <2>4 DEF Replays
<1>10. QED
  BY <1>8, <1>9

\* Outside the critical steps a process has no section to keep.
LEMMA NoSection ==
  ASSUME NEW q \in Proc, pc'[q] \notin Critical
  PROVE  Section(q)'
BY DEF Section, Closing, Verifying, Folding, Critical, CloseSteps, VerifySteps, CompactSteps

\* A process that did not move keeps its section over a step of another one
\* or of no one that leaves the shared stores alone.
LEMMA SectionStands ==
  ASSUME NEW q \in Proc, Section(q), UNCHANGED <<sealed, num, supercp, stream>>,
         pc'[q] = pc[q], job'[q] = job[q], view'[q] = view[q]
  PROVE  Section(q)'
BY DEF Section, Closing, Verifying, Folding, OnChain, CheckpointOnChain, HeadOnChain, HeaderAt

\* The stores stand when no step writes them.
LEMMA StoreStands ==
  ASSUME StoreInv,
         UNCHANGED <<trimmed, chainVars, stream, index, leaves, eventloc, supercp, anchor>>
  PROVE  StoreInv'
<1> USE DEF chainVars, HeaderAt
<1>1. Ordered' /\ AtBoundary' /\ HotInv'
  BY DEF StoreInv, Ordered, AtBoundary, HotInv
<1>2. WitnessInv'
  BY DEF StoreInv, WitnessInv, OnChain, CheckpointOnChain
<1>3. QED
  BY <1>1, <1>2 DEF StoreInv

\* A step of p inside its section finds the others outside theirs.
LEMMA OthersOutside ==
  ASSUME TypeInv, Mutex, NEW p \in Proc, pc[p] \in Critical,
         NEW label \in PcValue, Goto(p, label), NEW q \in Proc \ {p}
  PROVE  Section(q)'
<1>1. pc'[q] = pc[q]
  BY DEF Goto, TypeInv, TypeOK, LocalTypeOK
<1>2. pc[q] \notin Critical
  BY DEF Mutex
<1>3. QED
  BY <1>1, <1>2, NoSection

\* Steps that write no store: the verdict they reach is an honest one, and
\* what they leave the process to know is so.
LEMMA QuietStep ==
  ASSUME TypeInv, Mutex, GaplessInv, TrailInv, NEW p \in Proc,
         \/ CloseBegin(p) \/ TailEmpty(p) \/ TailRead(p) \/ ReadLink(p) \/ TrimNothing(p)
         \/ Verify(p)
         \/ CompactDeclined(p) \/ CompactBegin(p) \/ CompactVerified(p)
         \/ Fail(p) \/ Crash(p)
  PROVE  TrailInv'
<1> USE DEF TypeInv, TypeOK, LocalTypeOK, redisVars
<1>1. UNCHANGED redisVars /\ UNCHANGED anchor
  BY DEF CloseBegin, TailEmpty, TailRead, ReadLink, TrimNothing, Verify, VerifyBegin,
     VerifyAnchor, VerifySince, VerifyHeaders, VerifyFinish, CompactDeclined,
     CompactBegin, CompactVerified, Fail, Crash
<1>2. StoreInv'
  BY <1>1, StoreStands DEF TrailInv, chainVars
<1>3. \A q \in Proc \ {p} : pc'[q] = pc[q] /\ job'[q] = job[q] /\ view'[q] = view[q]
  BY DEF CloseBegin, TailEmpty, TailRead, ReadLink, TrimNothing, CloseDone, Verify,
     VerifyBegin, VerifyAnchor, VerifySince, VerifyHeaders, VerifyFinish,
     CompactDeclined, CompactBegin, CompactVerified, Fail, Crash, Leave, Goto
<1>4. \A q \in Proc \ {p} : Section(q)'
  BY <1>1, <1>3, SectionStands DEF TrailInv
<1>5. SUFFICES NoFalseTamper' /\ Section(p)'
  BY <1>2, <1>4 DEF TrailInv
<1>6. NoFalseTamper /\ StoreInv /\ Section(p)
  BY DEF TrailInv
<1>7. num \in Int /\ supercp.epoch \in Int
  BY ChainFacts DEF StoreTypeOK, Checkpoint, EpochOrNone
<1>8. CASE \/ CloseBegin(p) \/ TailEmpty(p) \/ TailRead(p) \/ ReadLink(p) \/ TrimNothing(p)
           \/ CompactDeclined(p) \/ Fail(p) \/ Crash(p)
  <2>1. verdict' = verdict
    BY <1>8 DEF CloseBegin, TailEmpty, TailRead, ReadLink, TrimNothing, CompactDeclined,
       Fail, Crash
  <2>2. pc'[p] \in {"idle", "compact", "tail", "link", "commit"}
    BY <1>8 DEF CloseBegin, TailEmpty, TailRead, ReadLink, TrimNothing, CloseDone,
       CompactDeclined, Fail, Crash, Leave, Goto
  <2>3. Section(p)'
    BY <2>2 DEF Section, Closing, Verifying, Folding, VerifySteps
  <2>4. QED
    BY <1>6, <2>1, <2>3 DEF NoFalseTamper
<1>9. CASE VerifyBegin(p)
  <2>1. pc'[p] = "vanchor" /\ p \notin Closer /\ verdict' = verdict
    BY <1>9, ProcAssumption DEF VerifyBegin, Goto
  <2>2. QED
    BY <1>6, <2>1 DEF Section, Closing, Verifying, Folding, NoFalseTamper
<1>10. CASE CompactBegin(p)
  <2>1. pc'[p] = "vanchor" /\ view'[p].target = Target /\ verdict' = verdict
    BY <1>10 DEF CompactBegin, Goto, View
  <2>2. supercp.epoch < Target /\ Target <= num - KeepEpochs
    BY <1>7, <1>10, WindowAssumption DEF CompactBegin, Foldable, Target
  <2>3. QED
    BY <1>1, <1>6, <2>1, <2>2 DEF Section, Closing, Verifying, Folding, NoFalseTamper
<1>11. CASE VerifyAnchor(p)
  <2>1. PICK l \in anchor[FileOf[p]] \cup {NoHead} :
          view' = [view EXCEPT ![p].top = l, ![p].cp = supercp]
    BY <1>11 DEF VerifyAnchor
  <2>2. /\ view'[p].top = l /\ view'[p].cp = supercp /\ view'[p].target = view[p].target
        /\ pc'[p] = "vheaders" /\ pc[p] = "vanchor" /\ verdict' = verdict
    BY <1>11, <2>1 DEF VerifyAnchor, Goto, View
  <2>3. HeadOnChain(l) /\ CheckpointOnChain(supercp)
    BY <1>6, ProcAssumption DEF StoreInv, WitnessInv, HeadOnChain
  <2>4. HeadOnChain(view[p].top)' /\ CheckpointOnChain(view[p].cp)'
    BY <1>1, <2>2, <2>3 DEF HeadOnChain, CheckpointOnChain, OnChain, HeaderAt
  <2>5. QED
    BY <1>1, <1>6, <1>7, <2>2, <2>4
    DEF Section, Closing, Verifying, Folding, VerifySteps, NoFalseTamper
<1>12. CASE VerifySince(p)
  <2>1. PICK k \in 0 .. Len(sealed) - 1, l \in anchor[FileOf[p]] \cup {NoHead} :
          /\ k > supercp.epoch
          /\ IF k \in index \cap stream /\ k <= num
             THEN /\ view' = [view EXCEPT ![p].top = l,
                                 ![p].cp = [epoch |-> k, hash |-> HeaderAt(k).hash,
                                            end |-> HeaderAt(k).end]]
                  /\ Goto(p, "vheaders")
                  /\ UNCHANGED <<lock, job, verdict>>
             ELSE /\ verdict' = [verdict EXCEPT ![p] = "tamper"]
                  /\ Leave(p, "idle")
    BY <1>12 DEF VerifySince
  <2> DEFINE c == [epoch |-> k, hash |-> HeaderAt(k).hash, end |-> HeaderAt(k).end]
  <2>2. k \in 0 .. num /\ k \in index \cap stream /\ k <= num
    <3>1. Len(sealed) - 1 = num
      BY DEF EpochInv, NumbersHeaders
    <3>2. k \in 0 .. num
      BY <2>1, <3>1
    <3>3. QED
      BY <1>6, <1>7, <2>1, <3>2 DEF StoreInv, WitnessInv
  <2>3. view' = [view EXCEPT ![p].top = l, ![p].cp = c] /\ Goto(p, "vheaders") /\ verdict' = verdict
    BY <2>1, <2>2
  <2>4. view'[p].top = l /\ view'[p].cp = c /\ pc'[p] = "vheaders" /\ p \notin Closer
    BY <1>12, <2>3, ProcAssumption DEF VerifySince, Goto, View
  <2>5. HeadOnChain(l)
    BY <1>6, ProcAssumption DEF StoreInv, WitnessInv, HeadOnChain
  <2>6. CheckpointOnChain(c)
    BY <2>2 DEF CheckpointOnChain, OnChain
  <2>7. HeadOnChain(view[p].top)' /\ CheckpointOnChain(view[p].cp)'
    BY <1>1, <2>4, <2>5, <2>6 DEF HeadOnChain, CheckpointOnChain, OnChain, HeaderAt
  <2>8. c.epoch >= supercp.epoch
    BY <1>7, <2>1, <2>2
  <2>9. QED
    BY <1>1, <1>6, <2>3, <2>4, <2>7, <2>8
    DEF Section, Closing, Verifying, Folding, VerifySteps, NoFalseTamper
<1>13. CASE VerifyHeaders(p)
  <2>1. /\ view'[p].top = view[p].top /\ view'[p].cp = view[p].cp
        /\ view'[p].target = view[p].target /\ view'[p].stream = stream
        /\ pc'[p] = "vcounters" /\ pc[p] = "vheaders" /\ verdict' = verdict
    BY <1>13 DEF VerifyHeaders, Goto, View
  <2>2. HeadOnChain(view[p].top)' /\ CheckpointOnChain(view[p].cp)'
    BY <1>1, <1>6, <2>1
    DEF Section, Verifying, HeadOnChain, CheckpointOnChain, OnChain, HeaderAt
  <2>3. QED
    BY <1>1, <1>6, <2>1, <2>2
    DEF Section, Closing, Verifying, Folding, VerifySteps, NoFalseTamper
<1>14. CASE VerifyFinish(p)
  <2>1. Replays(view[p])
    BY <1>6, <1>14, ReplaySucceeds DEF VerifyFinish
  <2>2. verdict' = [verdict EXCEPT ![p] = "intact"] /\ pc'[p] = "idle"
    BY <1>14, <2>1 DEF VerifyFinish, Leave, Goto
  <2>3. NoFalseTamper'
    BY <1>6, <2>2 DEF NoFalseTamper
  <2>4. QED
    BY <2>2, <2>3 DEF Section, Closing, Verifying, Folding, VerifySteps
<1>15. CASE CompactVerified(p)
  <2>1. Replays(view[p])
    BY <1>6, <1>15, ReplaySucceeds DEF CompactVerified
  <2>2. /\ verdict' = [verdict EXCEPT ![p] = "intact"] /\ pc'[p] = "cpsign" /\ view' = view
        /\ p \in Closer /\ pc[p] = "vcounters"
    BY <1>15, <2>1 DEF CompactVerified, Goto
  <2>3. NoFalseTamper'
    BY <1>6, <2>2 DEF NoFalseTamper
  <2>4. QED
    BY <1>1, <1>6, <2>2, <2>3 DEF Section, Closing, Verifying, Folding, VerifySteps
<1>16. QED
  BY <1>8, <1>9, <1>10, <1>11, <1>12, <1>13, <1>14, <1>15 DEF Verify

\* A commit takes effect: under the lock its epoch is the next one.
LEMMA CommitEffect ==
  ASSUME TypeInv, GaplessInv, NEW p \in Proc, CloseCommit(p)
  PROVE  /\ num \in Int /\ num >= -1 /\ num' = num + 1
         /\ job[p] \in Job /\ job[p].epoch = num + 1 /\ job[p].start = lastSeq + 1
         /\ job[p].start <= job[p].end
         /\ \A k \in 0 .. num : HeaderAt(k)' = HeaderAt(k)
         /\ \A k \in Nat : k = num + 1 =>
              HeaderAt(k)' = [start |-> job[p].start, end |-> job[p].end,
                              prev |-> job[p].prev, hash |-> job[p].hash]
         /\ stream' = stream \cup {num + 1}
         /\ index' = index \cup {num + 1}
         /\ leaves' = leaves \cup {num + 1}
         /\ eventloc' = [s \in DOMAIN eventloc \cup (job[p].start .. job[p].end) |->
                           IF s \in job[p].start .. job[p].end THEN num + 1
                                                               ELSE eventloc[s]]
<1> DEFINE j == job[p]
           h == [start |-> j.start, end |-> j.end, prev |-> j.prev, hash |-> j.hash]
<1>1. num \in Int /\ num >= -1 /\ num = Len(sealed) - 1 /\ sealed \in Seq(Header)
  BY ChainFacts
<1>2. /\ j \in Job /\ j.epoch = num + 1 /\ j.start = lastSeq + 1 /\ j.start <= j.end
  BY DEF CloseCommit, GaplessInv, TypeInv, TypeOK, LocalTypeOK
<1>3. ~AlreadyCommitted(j)
  BY <1>1, <1>2 DEF AlreadyCommitted
<1>4. /\ sealed' = Append(sealed, h) /\ num' = num + 1
      /\ stream' = stream \cup {num + 1} /\ index' = index \cup {num + 1}
      /\ leaves' = leaves \cup {num + 1}
      /\ eventloc' = [s \in DOMAIN eventloc \cup (j.start .. j.end) |->
                        IF s \in j.start .. j.end THEN num + 1 ELSE eventloc[s]]
  BY <1>2, <1>3 DEF CloseCommit
<1>5. h \in Header
  BY <1>2 DEF Job, Header
<1>6. \A k \in 0 .. num : HeaderAt(k)' = HeaderAt(k)
  BY <1>1, <1>4, <1>5 DEF HeaderAt
<1>7. ASSUME NEW k \in Nat, k = num + 1
      PROVE  HeaderAt(k)' = h
  <2>1. k + 1 = Len(sealed) + 1
    BY <1>1, <1>7
  <2>2. sealed'[Len(sealed) + 1] = h
    BY <1>1, <1>4, <1>5
  <2>3. QED
    BY <2>1, <2>2 DEF HeaderAt
<1>8. QED
  BY <1>1, <1>2, <1>4, <1>6, <1>7

\* A commit adds a hot epoch with all its entries, above everything sealed.
LEMMA CommitStores ==
  ASSUME TypeInv, GaplessInv, StoreInv, NEW p \in Proc, CloseCommit(p)
  PROVE  StoreInv'
<1> DEFINE j == job[p]
           h == [start |-> j.start, end |-> j.end, prev |-> j.prev, hash |-> j.hash]
<1>1. /\ num \in Int /\ num >= -1 /\ num' = num + 1
      /\ j \in Job /\ j.epoch = num + 1 /\ j.start = lastSeq + 1 /\ j.start <= j.end
      /\ \A k \in 0 .. num : HeaderAt(k)' = HeaderAt(k)
      /\ stream' = stream \cup {num + 1}
      /\ index' = index \cup {num + 1}
      /\ leaves' = leaves \cup {num + 1}
      /\ eventloc' = [s \in DOMAIN eventloc \cup (j.start .. j.end) |->
                        IF s \in j.start .. j.end THEN num + 1 ELSE eventloc[s]]
  BY CommitEffect
<1>2. PICK n \in Nat : n = num + 1 /\ HeaderAt(n)' = h
  BY <1>1, CommitEffect
<1>3. trimmed' = trimmed /\ supercp' = supercp /\ anchor' = anchor
  BY DEF CloseCommit
<1>4. trimmed \in Nat /\ lastSeq \in Nat /\ trimmed <= lastSeq
  BY ChainFacts DEF GaplessInv
<1>5. \A k \in 0 .. num : HeaderAt(k) \in Header /\ HeaderAt(k).end <= lastSeq
  BY ChainFacts DEF GaplessInv
<1>6. \A k \in 0 .. num' : k \in 0 .. num \/ k = n
  BY <1>1, <1>2
<1>7. j.start \in Nat /\ j.end \in Nat
  BY <1>1 DEF Job
<1>8. Ordered'
  <2>1. SUFFICES ASSUME NEW a \in 0 .. num', NEW b \in 0 .. num', a < b
                 PROVE  HeaderAt(a)'.end < HeaderAt(b)'.start
    BY DEF Ordered
  <2>2. a \in 0 .. num
    BY <1>1, <2>1
  <2>3. CASE b \in 0 .. num
    BY <1>1, <2>1, <2>2, <2>3 DEF StoreInv, Ordered
  <2>4. CASE b = n
    BY <1>1, <1>2, <1>4, <1>5, <2>2, <2>4 DEF Header
  <2>5. QED
    BY <1>6, <2>3, <2>4
<1>9. AtBoundary'
  <2>1. SUFFICES ASSUME NEW k \in 0 .. num'
                 PROVE  HeaderAt(k)'.end <= trimmed \/ trimmed < HeaderAt(k)'.start
    BY <1>3 DEF AtBoundary
  <2>2. CASE k \in 0 .. num
    BY <1>1, <2>2 DEF StoreInv, AtBoundary
  <2>3. CASE k = n
    BY <1>1, <1>2, <1>4, <2>3
  <2>4. QED
    BY <1>6, <2>2, <2>3
<1>10. HotInv'
  <2>1. SUFFICES ASSUME NEW k \in 0 .. num', k > num' - HotEpochs
                 PROVE  /\ k \in index' \cap leaves'
                        /\ trimmed < HeaderAt(k)'.start
                        /\ \A s \in HeaderAt(k)'.start .. HeaderAt(k)'.end :
                             s \in DOMAIN eventloc' /\ eventloc'[s] = k
    BY <1>3 DEF HotInv
  <2>2. CASE k \in 0 .. num
    <3>1. k > num - HotEpochs
      BY <1>1, <2>1, <2>2, WindowAssumption
    <3>2. /\ k \in index \cap leaves /\ trimmed < HeaderAt(k).start
          /\ \A s \in HeaderAt(k).start .. HeaderAt(k).end :
               s \in DOMAIN eventloc /\ eventloc[s] = k
      BY <2>2, <3>1 DEF StoreInv, HotInv
    <3>3. \A s \in HeaderAt(k).start .. HeaderAt(k).end : s \notin j.start .. j.end
      BY <1>1, <1>4, <1>5, <1>7, <2>2 DEF Header
    <3>4. QED
      BY <1>1, <2>2, <3>2, <3>3
  <2>3. CASE k = n
    BY <1>1, <1>2, <1>4, <2>3
  <2>4. QED
    BY <1>6, <2>2, <2>3
<1>11. WitnessInv'
  <2>1. \A e, x : OnChain(e, x) => OnChain(e, x)'
    BY <1>1 DEF OnChain
  <2>2. CheckpointOnChain(supercp)'
    BY <1>1, <1>3 DEF StoreInv, WitnessInv, CheckpointOnChain, OnChain
  <2>3. stream' \subseteq 0 .. num'
    <3>1. ASSUME NEW k \in stream'
          PROVE  k \in 0 .. num'
      <4>1. k \in 0 .. num \/ k = num + 1
        BY <1>1 DEF StoreInv, WitnessInv
      <4>2. QED
        BY <1>1, <4>1
    <3>2. QED
      BY <3>1
  <2>4. \A k \in 0 .. num' : k > supercp.epoch => k \in stream' \cap index'
    BY <1>1, <1>2, <1>6 DEF StoreInv, WitnessInv
  <2>5. QED
    BY <1>3, <2>1, <2>2, <2>3, <2>4 DEF StoreInv, WitnessInv
<1>12. QED
  BY <1>8, <1>9, <1>10, <1>11 DEF StoreInv

\* The steps that write: the commit, the anchor line and the retention trim.
LEMMA CloseWrite ==
  ASSUME TypeInv, Mutex, GaplessInv, TrailInv, NEW p \in Proc,
         \/ CloseCommit(p) \/ RecordAnchor(p)
         \/ TrimLocations(p) \/ TrimLeaves(p) \/ TrimEvents(p)
  PROVE  TrailInv'
<1>1. verdict' = verdict
  BY DEF CloseCommit, RecordAnchor, TrimLocations, TrimLeaves, TrimEvents
<1>2. \A q \in Proc \ {p} : Section(q)'
  <2>1. pc[p] \in Critical
    BY DEF CloseCommit, RecordAnchor, TrimLocations, TrimLeaves, TrimEvents,
       Critical, CloseSteps
  <2>2. PICK label \in PcValue : Goto(p, label)
    BY DEF CloseCommit, RecordAnchor, TrimLocations, TrimLeaves, TrimEvents, CloseDone,
       Leave, PcValue, Critical, CloseSteps
  <2>3. QED
    BY <2>1, <2>2, OthersOutside
<1>3. SUFFICES StoreInv' /\ Section(p)'
  BY <1>1, <1>2 DEF TrailInv, NoFalseTamper
<1>4. StoreInv /\ Section(p) /\ p \in Proc
  BY DEF TrailInv
<1>5. /\ num \in Int /\ num >= -1 /\ trimmed \in Nat /\ lastSeq \in Nat
      /\ \A k \in 0 .. num : HeaderAt(k) \in Header /\ HeaderAt(k).start <= HeaderAt(k).end
  BY ChainFacts DEF GaplessInv, ChainGapless
<1>6. job[p] \in Job /\ pc \in [Proc -> PcValue] /\ index \subseteq 0 .. num
  BY DEF TypeInv, TypeOK, LocalTypeOK, EpochInv
<1>7. job[p].epoch \in Nat /\ job[p].hash \in Nat
  BY <1>6 DEF Job
<1>8. HotEpochs \in Nat \ {0}
  BY WindowAssumption
<1>9. CASE CloseCommit(p)
  <2>1. pc'[p] = "anchor" /\ job' = job
    BY <1>6, <1>9 DEF CloseCommit, Goto
  <2>2. job[p].epoch = num + 1 /\ num' = num + 1 /\ num + 1 \in Nat
    <3>1. job[p].epoch = num + 1 /\ num' = num + 1
      BY <1>9, CommitEffect
    <3>2. QED
      BY <1>5, <3>1
  <2>3. \A k \in Nat : k = num + 1 =>
          HeaderAt(k)' = [start |-> job[p].start, end |-> job[p].end,
                          prev |-> job[p].prev, hash |-> job[p].hash]
    BY <1>9, CommitEffect
  <2>4. PICK n \in Nat : n = job[p].epoch /\ n = num + 1
    BY <2>2
  <2>5. HeaderAt(n)'.hash = job[p].hash /\ n \in 0 .. num'
    BY <2>2, <2>3, <2>4
  <2>6. OnChain(job[p].epoch, job[p].hash)'
    <3>1. OnChain(n, job[p].hash)'
      BY <2>1, <2>5 DEF OnChain
    <3>2. QED
      BY <2>1, <2>4, <3>1
  <2>7. Section(p)'
    BY <2>1, <2>6 DEF Section, Closing, Verifying, Folding, VerifySteps
  <2>8. QED
    BY <1>4, <1>9, <2>7, CommitStores
<1>10. CASE RecordAnchor(p)
  <2> DEFINE line == [epoch |-> job[p].epoch, hash |-> job[p].hash]
  <2>1. UNCHANGED redisVars /\ job' = job /\ pc'[p] = "trim" /\ pc[p] = "anchor"
    BY <1>6, <1>10 DEF RecordAnchor, Goto
  <2>2. OnChain(line.epoch, line.hash) /\ job[p].epoch <= num
    BY <1>4, <1>5, <2>1 DEF Section, Closing, OnChain
  <2>3. anchor' = anchor \/ anchor' = [anchor EXCEPT ![FileOf[p]] = @ \cup {line}]
    BY <1>10 DEF RecordAnchor
  <2>4. \A f \in File : \A l \in anchor'[f] : l \in anchor[f] \/ l = line
    BY <2>3, ProcAssumption DEF TypeInv, TypeOK, SharedTypeOK
  <2>5. \A f \in File : \A l \in anchor'[f] : OnChain(l.epoch, l.hash)
    BY <1>4, <2>2, <2>4 DEF StoreInv, WitnessInv
  <2>6. WitnessInv'
    BY <1>4, <2>1, <2>5
    DEF StoreInv, WitnessInv, OnChain, CheckpointOnChain, HeaderAt, redisVars
  <2>7. StoreInv'
    BY <1>4, <2>1, <2>6 DEF StoreInv, Ordered, AtBoundary, HotInv, HeaderAt, redisVars
  <2>8. Section(p)'
    BY <2>1, <2>2 DEF redisVars, Section, Closing, Verifying, Folding, VerifySteps
  <2>9. QED
    BY <2>7, <2>8
<1>11. CASE TrimLocations(p)
  <2> DEFINE gone == (HeaderAt(FellOut(p)).start .. HeaderAt(FellOut(p)).end) \cap Buffered
  <2>1. /\ UNCHANGED <<trimmed, chainVars, stream, index, leaves, supercp, anchor>>
        /\ job' = job /\ pc'[p] = "unleaf" /\ pc[p] = "trim"
        /\ eventloc' = [s \in DOMAIN eventloc \ gone |-> eventloc[s]]
        /\ FellOut(p) \in index
    BY <1>6, <1>11 DEF TrimLocations, Goto
  <2>2. job[p].epoch <= num
    BY <1>4, <2>1 DEF Section, Closing
  <2>3. FellOut(p) \in 0 .. num /\ FellOut(p) <= num - HotEpochs
    BY <1>5, <1>6, <1>7, <1>8, <2>1, <2>2 DEF FellOut
  <2>4. ASSUME NEW k \in 0 .. num, k > num - HotEpochs, NEW s \in HeaderAt(k).start .. HeaderAt(k).end
        PROVE  s \in DOMAIN eventloc' /\ eventloc'[s] = k
    <3>1. HeaderAt(FellOut(p)).end < HeaderAt(k).start
      BY <1>4, <1>5, <1>8, <2>3, <2>4 DEF StoreInv, Ordered
    <3>2. s \notin gone
      BY <1>5, <2>3, <2>4, <3>1 DEF Header
    <3>3. s \in DOMAIN eventloc /\ eventloc[s] = k
      BY <1>4, <2>4 DEF StoreInv, HotInv
    <3>4. QED
      BY <2>1, <3>2, <3>3
  <2>5. HotInv'
    BY <1>4, <2>1, <2>4 DEF StoreInv, HotInv, HeaderAt, chainVars
  <2>6. Ordered' /\ AtBoundary' /\ WitnessInv'
    BY <1>4, <2>1
    DEF StoreInv, Ordered, AtBoundary, WitnessInv, OnChain, CheckpointOnChain, HeaderAt, chainVars
  <2>7. Section(p)'
    BY <2>1, <2>2 DEF chainVars, Section, Closing, Verifying, Folding, VerifySteps
  <2>8. QED
    BY <2>5, <2>6, <2>7 DEF StoreInv
<1>12. CASE TrimLeaves(p)
  <2>1. /\ UNCHANGED <<trimmed, chainVars, stream, index, eventloc, supercp, anchor>>
        /\ job' = job /\ pc'[p] = "xtrim" /\ pc[p] = "unleaf"
        /\ leaves' = leaves \ {FellOut(p)}
    BY <1>6, <1>12 DEF TrimLeaves, Goto
  <2>2. job[p].epoch <= num
    BY <1>4, <2>1 DEF Section, Closing
  <2>3. FellOut(p) <= num - HotEpochs /\ FellOut(p) \in Int
    BY <1>5, <1>7, <1>8, <2>2 DEF FellOut
  <2>4. HotInv'
    <3>1. \A k \in 0 .. num : k > num - HotEpochs => k # FellOut(p)
      BY <1>5, <1>8, <2>3
    <3>2. QED
      BY <1>4, <2>1, <3>1 DEF StoreInv, HotInv, HeaderAt, chainVars
  <2>5. Ordered' /\ AtBoundary' /\ WitnessInv'
    BY <1>4, <2>1
    DEF StoreInv, Ordered, AtBoundary, WitnessInv, OnChain, CheckpointOnChain, HeaderAt, chainVars
  <2>6. Section(p)'
    BY <2>1, <2>2 DEF chainVars, Section, Closing, Verifying, Folding, VerifySteps
  <2>7. QED
    BY <2>4, <2>5, <2>6 DEF StoreInv
<1>13. CASE TrimEvents(p)
  <2> DEFINE e == FellOut(p) + 1
  <2>1. /\ UNCHANGED <<chainVars, stream, index, leaves, eventloc, supercp, anchor>>
        /\ pc'[p] \in {"idle", "compact"} /\ pc[p] = "xtrim"
        /\ trimmed' = IF e \in index /\ KeepFrom(p) > trimmed
                      THEN KeepFrom(p) - 1 ELSE trimmed
    BY <1>6, <1>13 DEF TrimEvents, CloseDone, Leave, Goto
  <2>2. Section(p)'
    BY <2>1 DEF Section, Closing, Verifying, Folding, VerifySteps
  <2>3. CASE trimmed' = trimmed
    BY <1>4, <2>1, <2>2, <2>3, StoreStands
  <2>4. CASE e \in index /\ KeepFrom(p) > trimmed /\ trimmed' = KeepFrom(p) - 1
    <3>1. job[p].epoch <= num
      BY <1>4, <2>1 DEF Section, Closing
    <3>2. e \in 0 .. num /\ e <= num - HotEpochs + 1
      BY <1>5, <1>6, <1>7, <1>8, <2>4, <3>1 DEF FellOut
    <3>3. trimmed' = HeaderAt(e).start - 1 /\ HeaderAt(e).start \in Nat
      BY <1>5, <2>4, <3>2 DEF KeepFrom, Header
    <3>4. ASSUME NEW k \in 0 .. num
          PROVE  IF k < e THEN HeaderAt(k).end <= trimmed' ELSE trimmed' < HeaderAt(k).start
      <4>1. CASE k < e
        <5>1. HeaderAt(k).end < HeaderAt(e).start
          BY <1>4, <3>2, <4>1 DEF StoreInv, Ordered
        <5>2. QED
          BY <1>5, <3>3, <4>1, <5>1 DEF Header
      <4>2. CASE k = e
        BY <3>3, <4>2
      <4>3. CASE k > e
        <5>1. HeaderAt(e).end < HeaderAt(k).start /\ HeaderAt(e).start <= HeaderAt(e).end
          BY <1>4, <1>5, <3>2, <4>3 DEF StoreInv, Ordered
        <5>2. QED
          BY <1>5, <3>2, <3>3, <4>3, <5>1 DEF Header
      <4>4. QED
        BY <1>5, <3>2, <4>1, <4>2, <4>3
    <3>5. AtBoundary'
      BY <2>1, <3>4 DEF AtBoundary, HeaderAt, chainVars
    <3>6. \A k \in 0 .. num : k > num - HotEpochs => trimmed' < HeaderAt(k).start
      BY <1>5, <1>8, <3>2, <3>4
    <3>7. HotInv'
      BY <1>4, <2>1, <3>6 DEF StoreInv, HotInv, HeaderAt, chainVars
    <3>8. Ordered' /\ WitnessInv'
      BY <1>4, <2>1
      DEF StoreInv, Ordered, WitnessInv, OnChain, CheckpointOnChain, HeaderAt, chainVars
    <3>9. QED
      BY <2>2, <3>5, <3>7, <3>8 DEF StoreInv
  <2>5. QED
    BY <2>1, <2>3, <2>4
<1>14. QED
  BY <1>9, <1>10, <1>11, <1>12, <1>13

\* The steps that write: the checkpoint first, then the headers it subsumes,
\* their indexes, and the anchor file.
LEMMA CompactWrite ==
  ASSUME TypeInv, Mutex, GaplessInv, TrailInv, NEW p \in Proc,
         CompactSign(p) \/ CompactHeaders(p) \/ CompactIndexes(p) \/ CompactAnchor(p)
  PROVE  TrailInv'
<1>1. /\ verdict' = verdict /\ UNCHANGED chainVars
      /\ UNCHANGED <<seq, trimmed, eventloc>>
  BY DEF CompactSign, CompactHeaders, CompactIndexes, CompactAnchor, redisVars, chainVars
<1>2. \A q \in Proc \ {p} : Section(q)'
  <2>1. pc[p] \in Critical
    BY DEF CompactSign, CompactHeaders, CompactIndexes, CompactAnchor, Critical, CompactSteps
  <2>2. PICK label \in PcValue : Goto(p, label)
    BY DEF CompactSign, CompactHeaders, CompactIndexes, CompactAnchor, Leave,
       PcValue, Critical, CompactSteps
  <2>3. QED
    BY <2>1, <2>2, OthersOutside
<1>3. SUFFICES HotInv' /\ WitnessInv' /\ Section(p)'
  BY <1>1, <1>2
  DEF TrailInv, NoFalseTamper, StoreInv, Ordered, AtBoundary, HeaderAt, chainVars
<1>4. HotInv /\ WitnessInv /\ Section(p) /\ p \in Proc
  BY DEF TrailInv, StoreInv
<1>5. /\ num \in Int /\ view[p] \in View /\ view \in [Proc -> View] /\ pc \in [Proc -> PcValue]
      /\ supercp.epoch \in Int /\ index \subseteq 0 .. num
  BY ChainFacts DEF TypeInv, TypeOK, LocalTypeOK, StoreTypeOK, EpochInv, Checkpoint, EpochOrNone
<1>6. view[p].target \in Nat /\ view[p].dels \in SUBSET Nat
  BY <1>5 DEF View
<1>7. HotEpochs \in Nat \ {0} /\ KeepEpochs \in Nat /\ KeepEpochs >= HotEpochs
  BY WindowAssumption
<1>8. UNCHANGED <<num, sealed>>
  BY <1>1 DEF chainVars
<1>9. CASE CompactSign(p)
  <2> DEFINE t == view[p].target
             c == [epoch |-> t, hash |-> HeaderAt(t).hash, end |-> HeaderAt(t).end]
  <2>1. UNCHANGED <<stream, index, leaves, anchor>> /\ pc[p] = "cpsign"
    BY <1>9 DEF CompactSign
  <2>2. HotInv'
    BY <1>1, <1>4, <1>8, <2>1 DEF HotInv, HeaderAt
  <2>3. supercp.epoch < t /\ t <= num - KeepEpochs
    BY <1>4, <2>1 DEF Section, Folding
  <2>4. CASE supercp' = supercp /\ Leave(p, "idle")
    <3>1. WitnessInv'
      BY <1>4, <1>8, <2>1, <2>4 DEF WitnessInv, OnChain, CheckpointOnChain, HeaderAt
    <3>2. Section(p)'
      BY <1>5, <2>4, NoSection DEF Leave, Goto, Critical, CloseSteps, VerifySteps, CompactSteps
    <3>3. QED
      BY <2>2, <3>1, <3>2
  <2>5. CASE t \in index /\ supercp' = c /\ Goto(p, "xdel") /\ view' = view
    <3>1. CheckpointOnChain(c)
      BY <1>5, <2>5 DEF CheckpointOnChain, OnChain
    <3>2. CheckpointOnChain(supercp)'
      BY <1>8, <2>5, <3>1 DEF CheckpointOnChain, OnChain, HeaderAt
    <3>3. \A k \in 0 .. num : k > t => k \in stream \cap index
      BY <1>4, <1>5, <1>6, <2>3 DEF WitnessInv
    <3>4. \A k \in 0 .. num : k > c.epoch => k \in stream \cap index
      BY <3>3
    <3>5. WitnessInv'
      <4>1. \A f \in File : \A l \in anchor[f] : OnChain(l.epoch, l.hash)'
        BY <1>4, <1>8 DEF WitnessInv, OnChain, HeaderAt
      <4>2. QED
        BY <1>4, <1>8, <2>1, <2>5, <3>2, <3>4, <4>1 DEF WitnessInv
    <3>6. pc'[p] = "xdel" /\ supercp'.epoch = t /\ view'[p].target = t
      BY <1>5, <2>5 DEF Goto
    <3>7. Section(p)'
      BY <1>6, <1>8, <2>3, <3>6 DEF Section, Closing, Verifying, Folding, VerifySteps
    <3>8. QED
      BY <2>2, <3>5, <3>7
  <2>6. QED
    BY <1>9, <2>4, <2>5 DEF CompactSign
<1>10. CASE CompactHeaders(p)
  <2> DEFINE t == view[p].target
  <2>1. /\ UNCHANGED <<index, leaves, anchor, supercp>>
        /\ stream' = stream \ Subsumed(t)
        /\ pc[p] = "xdel" /\ pc'[p] = "hdel"
        /\ view'[p].target = t /\ view'[p].dels = Subsumed(t)
    BY <1>5, <1>10 DEF CompactHeaders, Goto, View
  <2>2. t <= supercp.epoch /\ t <= num - KeepEpochs
    BY <1>4, <2>1 DEF Section, Folding
  <2>3. HotInv'
    BY <1>1, <1>4, <1>8, <2>1 DEF HotInv, HeaderAt
  <2>4. stream \subseteq 0 .. num
    BY <1>4 DEF WitnessInv
  <2>5. Subsumed(t) \subseteq 0 .. t
    <3>1. ASSUME NEW k \in Subsumed(t)
          PROVE  k \in 0 .. t
      <4>1. k \in 0 .. num /\ k <= t
        BY <2>4 DEF Subsumed
      <4>2. QED
        BY <1>5, <1>6, <4>1
    <3>2. QED
      BY <3>1
  <2>6. \A k \in 0 .. num : k > supercp.epoch => k \in stream' \cap index
    <3>1. ASSUME NEW k \in 0 .. num, k > supercp.epoch
          PROVE  k \in stream' \cap index
      <4>1. k \in stream \cap index
        BY <1>4, <3>1 DEF WitnessInv
      <4>2. ~(k <= t)
        BY <1>5, <1>6, <2>2, <3>1
      <4>3. QED
        BY <2>1, <4>1, <4>2 DEF Subsumed
    <3>2. QED
      BY <3>1
  <2>7. WitnessInv'
    <3>1. stream' \subseteq 0 .. num
      BY <2>1, <2>4
    <3>2. QED
      BY <1>4, <1>8, <2>1, <2>6, <3>1 DEF WitnessInv, OnChain, CheckpointOnChain, HeaderAt
  <2>8. Section(p)'
    BY <1>8, <2>1, <2>2, <2>5 DEF Section, Closing, Verifying, Folding, VerifySteps
  <2>9. QED
    BY <2>3, <2>7, <2>8
<1>11. CASE CompactIndexes(p)
  <2> DEFINE t == view[p].target
  <2>1. /\ UNCHANGED <<stream, anchor, supercp, view>>
        /\ index' = index \ view[p].dels /\ leaves' = leaves \ view[p].dels
        /\ pc[p] = "hdel" /\ pc'[p] = "rotate"
    BY <1>5, <1>11 DEF CompactIndexes, Goto
  <2>2. t <= supercp.epoch /\ t <= num - KeepEpochs /\ view[p].dels \subseteq 0 .. t
    BY <1>4, <2>1 DEF Section, Folding
  <2>3. HotInv'
    <3>1. \A k \in 0 .. num : k > num - HotEpochs => k \notin view[p].dels
      BY <1>5, <1>6, <1>7, <2>2
    <3>2. QED
      BY <1>1, <1>4, <1>8, <2>1, <3>1 DEF HotInv, HeaderAt
  <2>4. WitnessInv'
    <3>1. \A k \in 0 .. num : k > supercp.epoch => k \notin view[p].dels
      BY <1>5, <1>6, <2>2
    <3>2. QED
      BY <1>4, <1>8, <2>1, <3>1 DEF WitnessInv, OnChain, CheckpointOnChain, HeaderAt
  <2>5. Section(p)'
    BY <1>8, <2>1, <2>2 DEF Section, Closing, Verifying, Folding, VerifySteps
  <2>6. QED
    BY <2>3, <2>4, <2>5
<1>12. CASE CompactAnchor(p)
  <2>1. /\ UNCHANGED <<stream, index, leaves, supercp>> /\ Leave(p, "idle")
        /\ anchor' = [anchor EXCEPT ![FileOf[p]] = {l \in @ : l.epoch >= view[p].target}]
    BY <1>12 DEF CompactAnchor, redisVars
  <2>2. \A f \in File : anchor'[f] \subseteq anchor[f]
    BY <2>1, ProcAssumption DEF TypeInv, TypeOK, SharedTypeOK
  <2>3. HotInv'
    BY <1>1, <1>4, <1>8, <2>1 DEF HotInv, HeaderAt
  <2>4. WitnessInv'
    BY <1>4, <1>8, <2>1, <2>2 DEF WitnessInv, OnChain, CheckpointOnChain, HeaderAt
  <2>5. Section(p)'
    BY <1>5, <2>1, NoSection DEF Leave, Goto, Critical, CloseSteps, VerifySteps, CompactSteps
  <2>6. QED
    BY <2>3, <2>4, <2>5
<1>13. QED
  BY <1>9, <1>10, <1>11, <1>12

\* Without lapses TrailInv is inductive.
LEMMA NextTrail ==
  ASSUME TypeInv, Mutex, GaplessInv, TrailInv, [Steady]_vars
  PROVE  TrailInv'
<1>1. ASSUME NEW p \in Proc, Close(p)
      PROVE  TrailInv'
  BY <1>1, QuietStep, CloseWrite DEF Close
<1>2. ASSUME NEW p \in Proc, Verify(p) \/ Fail(p) \/ Crash(p)
      PROVE  TrailInv'
  BY <1>2, QuietStep
<1>3. ASSUME NEW p \in Proc, Compact(p)
      PROVE  TrailInv'
  BY <1>3, QuietStep, CompactWrite DEF Compact
<1>4. CASE Emit \/ LockExpires \/ UNCHANGED vars
  <2>1. /\ UNCHANGED <<trimmed, chainVars, stream, index, leaves, eventloc, supercp, anchor>>
        /\ UNCHANGED <<pc, job, view, verdict>>
    BY <1>4 DEF Emit, LockExpires, vars, redisVars, chainVars, localVars
  <2>2. StoreInv'
    BY <2>1, StoreStands DEF TrailInv
  <2>3. \A q \in Proc : Section(q)'
    BY <2>1, SectionStands DEF TrailInv, chainVars
  <2>4. QED
    BY <2>1, <2>2, <2>3 DEF TrailInv, NoFalseTamper
<1>5. QED
  BY <1>1, <1>2, <1>3, <1>4 DEF Steady

LEMMA TrailInvariant == SteadySpec => [](TypeInv /\ GaplessInv /\ TrailInv)
<1>1. Init => TrailInv
  <2> SUFFICES ASSUME Init PROVE TrailInv
    OBVIOUS
  <2>1. StoreInv
    BY DEF Init, StoreInv, Ordered, AtBoundary, HotInv, WitnessInv, CheckpointOnChain
  <2>2. \A p \in Proc : Section(p)
    BY DEF Init, Section, Closing, Verifying, Folding, VerifySteps
  <2>3. QED
    BY <2>1, <2>2 DEF Init, TrailInv, NoFalseTamper
<1>2. TypeInv /\ (Mutex /\ GaplessInv) /\ TrailInv /\ [Steady]_vars => TrailInv'
  BY NextTrail
<1>3. QED
  BY <1>1, <1>2, TypeInvariant, GaplessInvariant, SteadyIsSpec, PTL DEF SteadySpec

\* Every event of the newest HotEpochs epochs can be proved: its location,
\* its header, the leaf vector and the record are all there, at any moment
\* of a close, a trim or a compaction, whichever of them failed or crashed.
THEOREM HotEventsProvableCorrect == SteadySpec => []HotEventsProvable
<1>1. TypeInv /\ GaplessInv /\ TrailInv => HotEventsProvable
  <2> SUFFICES ASSUME TypeInv, GaplessInv, TrailInv PROVE HotEventsProvable
    OBVIOUS
  <2>1. trimmed <= lastSeq
    BY DEF GaplessInv
  <2>2. ASSUME NEW k \in 0 .. num, k > num - HotEpochs,
               NEW s \in HeaderAt(k).start .. HeaderAt(k).end
        PROVE  Provable(s)
    <3>1. /\ k \in index \cap leaves /\ trimmed < HeaderAt(k).start
          /\ s \in DOMAIN eventloc /\ eventloc[s] = k
      BY <2>2 DEF TrailInv, StoreInv, HotInv
    <3>2. HeaderAt(k) \in Header /\ trimmed \in Nat /\ seq \in Nat /\ lastSeq \in Nat
      BY ChainFacts
    <3>3. HeaderAt(k).end <= lastSeq /\ lastSeq <= seq
      BY DEF GaplessInv, ChainGapless
    <3>4. s \in Buffered
      BY <3>1, <3>2, <3>3 DEF Buffered, Header
    <3>5. QED
      BY <3>1, <3>4 DEF Provable
  <2>3. QED
    BY <2>1, <2>2 DEF HotEventsProvable
<1>2. QED
  BY <1>1, TrailInvariant, PTL

\* With nobody tampering no verification reports tampering, whether it
\* starts from the super-checkpoint, from an epoch its caller trusts or from
\* the first epoch, and whatever step a close or a compaction stopped at.
THEOREM NoFalseTamperCorrect == SteadySpec => []NoFalseTamper
<1>1. TrailInv => NoFalseTamper
  BY DEF TrailInv
<1>2. QED
  BY <1>1, TrailInvariant, PTL
=============================================================================
