---------------------------- MODULE AuditLedger ----------------------------
(***************************************************************************)
(* The Merkle-epoch audit ledger: audit/worm_logger.py (epoch mode) with   *)
(* its out-of-domain head anchor, audit/anchor.py.                         *)
(*                                                                         *)
(* Several gateway processes share one Redis.  `emit' appends an event and *)
(* its sequence number in one script.  A closer (the epoch daemon of a     *)
(* process) seals the unsealed tail into a signed epoch header, mirrors    *)
(* the header into an anchor file, and trims what left the retention       *)
(* window; now and then it folds old headers into a signed checkpoint.     *)
(* A verifier (the integrity monitor, an operator's request) replays the   *)
(* chain.  Closers and verifiers take one Redis lock with a TTL; each step *)
(* between two awaits is an action here, and a process may fail or crash   *)
(* between any two of them.                                                *)
(*                                                                         *)
(* An event is its sequence number (event id and stream id are both        *)
(* one-to-one with it).  A record digest is injective, so a Merkle root is *)
(* the interval of events under it; an epoch hash covers a fresh timestamp *)
(* and is therefore the time it was made, a number no other attempt has.   *)
(***************************************************************************)
EXTENDS Integers, Sequences, FiniteSets

CONSTANTS
  Closer,         \* epoch daemons, one per gateway process
  Verifier,       \* callers of verify_chain
  File,           \* anchor files
  FileOf,         \* the anchor file a process writes and reads
  NoProc,         \* the lock key is absent
  HotEpochs,      \* WORM_HOT_EPOCHS (32)
  MaxLeaves,      \* WORM_MAX_EPOCH_LEAVES (4096)
  KeepEpochs,     \* WORM_CHECKPOINT_EPOCHS (128)
  MinStride,      \* the stride maybe_compact passes (WORM_HOT_EPOCHS)
  MaxSeq,         \* bound: events emitted
  MaxFaults       \* bound: failures, crashes and lapses

Proc == Closer \cup Verifier

ASSUME ProcAssumption ==
  /\ Closer \cap Verifier = {}
  /\ NoProc \notin Proc
  /\ FileOf \in [Proc -> File]

ASSUME WindowAssumption ==
  /\ HotEpochs \in Nat \ {0}
  /\ MaxLeaves \in Nat \ {0}
  /\ KeepEpochs \in Nat
  /\ KeepEpochs >= HotEpochs
  /\ MinStride \in Nat \ {0}

ASSUME BoundAssumption ==
  /\ MaxSeq \in Nat
  /\ MaxFaults \in Nat

VARIABLES
  seq,        \* mcpip:worm:seq, the last sequence number given out
  trimmed,    \* events 1..trimmed have left mcpip:worm:events by XTRIM
  sealed,     \* history: every header ever committed; epoch k is sealed[k+1]
  stream,     \* epochs whose header is on mcpip:worm:epochs
  index,      \* epochs with an entry in epoch:index (and epoch:streamid)
  leaves,     \* epochs with a leaf vector in epoch:leaves
  eventloc,   \* mcpip:worm:eventloc, event -> epoch
  num,        \* epoch:num, -1 when absent
  head,       \* epoch:head
  lastSeq,    \* epoch:last_seq
  cursor,     \* the last sealed event, as a stream position
  supercp,    \* the signed super-checkpoint
  lock,       \* epoch:lock
  anchor,     \* lines of each anchor file (the first one of an epoch counts)
  clock,      \* time_ns, as the number of header timestamps taken
  pc, job, view, verdict,   \* process-local
  faults      \* failures, crashes and lapses so far

redisVars == <<seq, trimmed, sealed, stream, index, leaves, eventloc,
               num, head, lastSeq, cursor, supercp>>
localVars == <<pc, job, view, verdict>>
vars == <<redisVars, lock, anchor, clock, localVars, faults>>

\* What a commit writes and a compaction or trim does not.
chainVars == <<sealed, num, head, lastSeq, cursor>>

---------------------------------------------------------------------------
Header      == [start : Nat, end : Nat, prev : Nat, hash : Nat]
EpochOrNone == Nat \cup {-1}
Checkpoint  == [epoch : EpochOrNone, hash : Nat, end : Nat]
Line        == [epoch : Nat, hash : Nat]
Job         == [start : Nat, end : Nat, epoch : Nat, prev : Nat, hash : Nat]
View        == [target : Nat, dels : SUBSET Nat,
                top : [epoch : EpochOrNone, hash : Nat],
                cp : Checkpoint, stream : SUBSET Nat]

HeaderAt(k) == sealed[k + 1]

Genesis == 0
NoCheckpoint == [epoch |-> -1, hash |-> Genesis, end |-> 0]
NoHead == [epoch |-> -1, hash |-> Genesis]
NoJob == [start |-> 0, end |-> 0, epoch |-> 0, prev |-> Genesis, hash |-> Genesis]
NoView == [target |-> 0, dels |-> {}, top |-> NoHead, cp |-> NoCheckpoint,
           stream |-> {}]

\* Events still in the buffer.
Buffered == trimmed + 1 .. seq

\* Mutant: an inclusive XRANGE from the cursor.
PendingInclusive == {s \in Buffered : s >= cursor}

\* The tail close_epoch reads: after the stream cursor and above last_seq.
Pending == {s \in Buffered : s > cursor /\ s > lastSeq}

\* AnchorStore.head answers l: the line with the highest epoch, or None.
IsAnchorHead(f, l) ==
  \/ anchor[f] = {} /\ l = NoHead
  \/ l \in anchor[f] /\ \A m \in anchor[f] : m.epoch <= l.epoch

\* Where a process may be while it holds, or believes it holds, the lock.
CloseSteps   == {"tail", "link", "commit", "anchor", "trim", "unleaf", "xtrim"}
VerifySteps  == {"vanchor", "vheaders", "vcounters"}
CompactSteps == {"cpsign", "xdel", "hdel", "rotate"}
Critical == CloseSteps \cup VerifySteps \cup CompactSteps
PcValue == Critical \cup {"idle", "compact"}

ChainTypeOK ==
  /\ sealed \in Seq(Header)
  /\ num \in EpochOrNone /\ head \in Nat /\ lastSeq \in Nat /\ cursor \in Nat
StoreTypeOK ==
  /\ seq \in Nat /\ trimmed \in Nat
  /\ stream \in SUBSET Nat /\ index \in SUBSET Nat /\ leaves \in SUBSET Nat
  /\ DOMAIN eventloc \in SUBSET Nat
  /\ eventloc \in [DOMAIN eventloc -> Nat]
  /\ supercp \in Checkpoint
LocalTypeOK ==
  /\ pc \in [Proc -> PcValue]
  /\ job \in [Proc -> Job]
  /\ view \in [Proc -> View]
  /\ verdict \in [Proc -> {"none", "intact", "tamper"}]
SharedTypeOK ==
  /\ lock \in Proc \cup {NoProc}
  /\ anchor \in [File -> SUBSET Line]
  /\ clock \in Nat /\ faults \in Nat

\* Every variable has its type: no header, index or anchor line is ever made
\* for an epoch that does not exist.
TypeOK == ChainTypeOK /\ StoreTypeOK /\ LocalTypeOK /\ SharedTypeOK

Init ==
  /\ seq = 0 /\ trimmed = 0 /\ clock = 0 /\ faults = 0
  /\ sealed = << >>
  /\ stream = {} /\ index = {} /\ leaves = {}
  /\ eventloc = [s \in {} |-> 0]
  /\ num = -1 /\ head = Genesis /\ lastSeq = 0 /\ cursor = 0
  /\ supercp = NoCheckpoint
  /\ lock = NoProc
  /\ anchor = [f \in File |-> {}]
  /\ pc = [p \in Proc |-> "idle"]
  /\ job = [p \in Proc |-> NoJob]
  /\ view = [p \in Proc |-> NoView]
  /\ verdict = [p \in Proc |-> "none"]

---------------------------------------------------------------------------
(* The lock: SET NX PX to take it, compare-and-delete to give it back; a    *)
(* release that fails is swallowed, and the TTL frees the lock.             *)

Take(p) == lock = NoProc /\ lock' = p
Release(p) == \/ lock' = IF lock = p THEN NoProc ELSE lock
              \/ lock' = lock
Goto(p, label) == pc' = [pc EXCEPT ![p] = label]

\* Leave the critical section without an outcome to keep.
Leave(p, label) ==
  /\ Release(p)
  /\ Goto(p, label)
  /\ job' = [job EXCEPT ![p] = NoJob]
  /\ view' = [view EXCEPT ![p] = NoView]

\* Mutant: a lock without a TTL.
LockNeverExpires == lock # lock /\ UNCHANGED vars

\* The TTL runs out on a holder that crashed or could not release.
LockExpires ==
  /\ lock # NoProc /\ pc[lock] \notin Critical
  /\ lock' = NoProc
  /\ UNCHANGED <<redisVars, anchor, clock, localVars, faults>>

\* The TTL runs out under a live holder whose section takes longer.
LockLapses ==
  /\ faults < MaxFaults
  /\ lock # NoProc /\ pc[lock] \in Critical
  /\ lock' = NoProc
  /\ faults' = faults + 1
  /\ UNCHANGED <<redisVars, anchor, clock, localVars>>

---------------------------------------------------------------------------
(* emit: INCR and XADD in one script, without the lock.                    *)

Emit ==
  /\ seq < MaxSeq
  /\ seq' = seq + 1
  /\ UNCHANGED <<trimmed, sealed, stream, index, leaves, eventloc, num, head,
                 lastSeq, cursor, supercp, lock, anchor, clock, localVars,
                 faults>>

---------------------------------------------------------------------------
(* close_epoch                                                             *)

CloseBegin(p) ==
  /\ p \in Closer /\ pc[p] = "idle"
  /\ Take(p)
  /\ Goto(p, "tail")
  /\ UNCHANGED <<redisVars, anchor, clock, job, view, verdict, faults>>

\* Mutant: an idle tick ends without maybe_compact.
TailEmptyEndsTick(p) ==
  /\ pc[p] = "tail"
  /\ Pending = {}
  /\ Leave(p, "idle")
  /\ UNCHANGED <<redisVars, anchor, clock, verdict, faults>>

TailEmpty(p) ==
  /\ pc[p] = "tail"
  /\ Pending = {}
  /\ Leave(p, "compact")
  /\ UNCHANGED <<redisVars, anchor, clock, verdict, faults>>

\* The longest prefix of the tail with at most MaxLeaves events.  The cursor,
\* last_seq and the stream are read in one step: under the lock nothing but
\* emit moves between those reads.
TailRead(p) ==
  /\ pc[p] = "tail"
  /\ \E first, last \in Pending :
       /\ \A s \in Pending : s >= first
       /\ first <= last /\ last - first < MaxLeaves
       /\ last - first = MaxLeaves - 1 \/ \A s \in Pending : s <= last
       /\ job' = [job EXCEPT ![p].start = first, ![p].end = last]
  /\ Goto(p, "link")
  /\ UNCHANGED <<redisVars, lock, anchor, clock, view, verdict, faults>>

\* Read the chain head and the epoch number, after the hashing; stamp and sign.
ReadLink(p) ==
  /\ pc[p] = "link"
  /\ clock' = clock + 1
  /\ job' = [job EXCEPT ![p] = [@ EXCEPT !.epoch = num + 1, !.prev = head,
                                         !.hash = clock + 1]]
  /\ Goto(p, "commit")
  /\ UNCHANGED <<redisVars, lock, anchor, view, verdict, faults>>

\* Mutant: the guard lets the newest epoch be committed again.
AlreadyCommittedLater(j) == num > j.epoch

\* The script's anti-dup guard.
AlreadyCommitted(j) == num >= j.epoch

\* The close-commit script: refused for an epoch already committed,
\* otherwise the header, its indexes and all four counters at once.
CloseCommit(p) ==
  LET j == job[p] IN
  /\ pc[p] = "commit"
  /\ \/ /\ AlreadyCommitted(j)
        /\ UNCHANGED <<chainVars, stream, index, leaves, eventloc>>
     \/ /\ ~AlreadyCommitted(j)
        /\ sealed' = Append(sealed, [start |-> j.start, end |-> j.end,
                                     prev |-> j.prev, hash |-> j.hash])
        /\ stream' = stream \cup {j.epoch}
        /\ index' = index \cup {j.epoch}
        /\ leaves' = leaves \cup {j.epoch}
        /\ eventloc' = [s \in DOMAIN eventloc \cup (j.start .. j.end) |->
                          IF s \in j.start .. j.end THEN j.epoch ELSE eventloc[s]]
        /\ num' = j.epoch
        /\ head' = j.hash
        /\ lastSeq' = j.end
        /\ cursor' = j.end
  /\ Goto(p, "anchor")
  /\ UNCHANGED <<seq, trimmed, supercp, lock, anchor, clock, job, view,
                 verdict, faults>>

\* AnchorStore.record: append one line; head keeps the first of an epoch.
RecordAnchor(p) ==
  LET f == FileOf[p]
      line == [epoch |-> job[p].epoch, hash |-> job[p].hash]
  IN
  /\ pc[p] = "anchor"
  /\ anchor' = IF \E l \in anchor[f] : l.epoch = line.epoch
               THEN anchor
               ELSE [anchor EXCEPT ![f] = @ \cup {line}]
  /\ Goto(p, "trim")
  /\ UNCHANGED <<redisVars, lock, clock, job, view, verdict, faults>>

(* _trim_retention: the one epoch that fell out of the window.             *)

\* Mutant: the window is one epoch short.
FellOutEarly(p) == job[p].epoch - HotEpochs + 1

FellOut(p) == job[p].epoch - HotEpochs

\* A full epoch sends the daemon straight back to close_epoch; otherwise
\* it goes on to maybe_compact.
CloseDone(p) ==
  Leave(p, IF job[p].end - job[p].start + 1 >= MaxLeaves THEN "idle" ELSE "compact")

TrimNothing(p) ==
  /\ pc[p] = "trim"
  /\ FellOut(p) \notin index
  /\ CloseDone(p)
  /\ UNCHANGED <<redisVars, anchor, clock, verdict, faults>>

\* HDEL eventloc for those events of the epoch the buffer still has.
TrimLocations(p) ==
  LET gone == (HeaderAt(FellOut(p)).start .. HeaderAt(FellOut(p)).end) \cap Buffered
  IN
  /\ pc[p] = "trim"
  /\ FellOut(p) \in index
  /\ eventloc' = [s \in DOMAIN eventloc \ gone |-> eventloc[s]]
  /\ Goto(p, "unleaf")
  /\ UNCHANGED <<seq, trimmed, chainVars, stream, index, leaves, supercp,
                 lock, anchor, clock, job, view, verdict, faults>>

TrimLeaves(p) ==
  /\ pc[p] = "unleaf"
  /\ leaves' = leaves \ {FellOut(p)}
  /\ Goto(p, "xtrim")
  /\ UNCHANGED <<seq, trimmed, chainVars, stream, index, eventloc, supercp,
                 lock, anchor, clock, job, view, verdict, faults>>

\* Mutant: keep from the newest event instead.
KeepFromNewest(p) == seq

\* The MINID of the XTRIM: the first event of the oldest retained epoch.
KeepFrom(p) == HeaderAt(FellOut(p) + 1).start

TrimEvents(p) ==
  /\ pc[p] = "xtrim"
  /\ trimmed' = IF FellOut(p) + 1 \in index /\ KeepFrom(p) > trimmed
                THEN KeepFrom(p) - 1
                ELSE trimmed
  /\ CloseDone(p)
  /\ UNCHANGED <<seq, chainVars, stream, index, leaves, eventloc, supercp,
                 anchor, clock, verdict, faults>>

---------------------------------------------------------------------------
(* verify_chain, and the verification compact runs first: _verify_epoch.   *)

VerifyBegin(p) ==
  /\ p \in Verifier /\ pc[p] = "idle"
  /\ Take(p)
  /\ Goto(p, "vanchor")
  /\ UNCHANGED <<redisVars, anchor, clock, job, view, verdict, faults>>

VerifyAnchor(p) ==
  /\ pc[p] = "vanchor"
  /\ \E l \in anchor[FileOf[p]] \cup {NoHead} :
       /\ IsAnchorHead(FileOf[p], l)
       /\ view' = [view EXCEPT ![p].top = l, ![p].cp = supercp]
  /\ Goto(p, "vheaders")
  /\ UNCHANGED <<redisVars, lock, anchor, clock, job, verdict, faults>>

\* _verify_epoch_incremental: the caller trusts an epoch that latest_checkpoint
\* gave it after an intact verification; its header must still be there, and
\* only what follows is replayed.  A super-checkpoint that reaches it is
\* stronger (VerifyAnchor).
VerifySince(p) ==
  /\ p \in Verifier /\ pc[p] = "vanchor"
  /\ \E k \in 0 .. Len(sealed) - 1, l \in anchor[FileOf[p]] \cup {NoHead} :
       /\ k > supercp.epoch
       /\ IsAnchorHead(FileOf[p], l)
       /\ IF k \in index \cap stream /\ k <= num
          THEN /\ view' = [view EXCEPT ![p].top = l,
                              ![p].cp = [epoch |-> k, hash |-> HeaderAt(k).hash,
                                         end |-> HeaderAt(k).end]]
               /\ Goto(p, "vheaders")
               /\ UNCHANGED <<lock, job, verdict>>
          ELSE /\ verdict' = [verdict EXCEPT ![p] = "tamper"]
               /\ Leave(p, "idle")
  /\ UNCHANGED <<redisVars, anchor, clock, faults>>

VerifyHeaders(p) ==
  /\ pc[p] = "vheaders"
  /\ view' = [view EXCEPT ![p].stream = stream]
  /\ Goto(p, "vcounters")
  /\ UNCHANGED <<redisVars, lock, anchor, clock, job, verdict, faults>>

\* Mutant: the epoch that fell out last is still taken for a hot one.
EventsVerifyLate(k) ==
  LET h == HeaderAt(k) IN
  \/ h.start > trimmed /\ h.end <= seq
  \/ h.end <= trimmed /\ k < num - HotEpochs

\* Every event of the epoch is buffered, or none is and the epoch has left
\* the hot window.
EventsVerify(k) ==
  LET h == HeaderAt(k) IN
  \/ h.start > trimmed /\ h.end <= seq
  \/ h.end <= trimmed /\ k <= num - HotEpochs

\* A header follows its predecessor: hash linkage and gapless coverage.
Follows(h, prior) == h.prev = prior.hash /\ h.start = prior.end + 1

\* The replay of the headers v took, against the counters as they are now.
Replays(v) ==
  LET replayed == {k \in v.stream : k > v.cp.epoch}
      prior(k) == IF k = v.cp.epoch + 1 THEN v.cp ELSE HeaderAt(k - 1)
      final    == IF replayed = {} THEN v.cp ELSE HeaderAt(num)
  IN
  IF v.cp = NoCheckpoint /\ replayed = {}
  THEN num = -1 /\ lastSeq = 0 /\ v.top = NoHead
  ELSE /\ replayed = v.cp.epoch + 1 .. num
       /\ \A k \in replayed : Follows(HeaderAt(k), prior(k)) /\ EventsVerify(k)
       /\ final.end = lastSeq /\ final.hash = head
       /\ v.top.epoch <= num
       /\ v.top.epoch > v.cp.epoch => HeaderAt(v.top.epoch).hash = v.top.hash

\* Events and counters are read in one step: meanwhile the lock keeps all but
\* emit away, and an event that arrives later is under none of the headers.
VerifyFinish(p) ==
  /\ p \in Verifier /\ pc[p] = "vcounters"
  /\ verdict' = [verdict EXCEPT ![p] = IF Replays(view[p]) THEN "intact" ELSE "tamper"]
  /\ Leave(p, "idle")
  /\ UNCHANGED <<redisVars, anchor, clock, faults>>

---------------------------------------------------------------------------
(* maybe_compact / compact                                                 *)

Target == num - KeepEpochs

\* Mutant: the stride is counted from the newest epoch, with no floor.
FoldableNoFloor == num - supercp.epoch >= MinStride

Foldable ==
  /\ Target >= 0
  /\ Target > supercp.epoch
  /\ Target - supercp.epoch >= MinStride

\* The lock is taken and given back around reads that decline.
CompactDeclined(p) ==
  /\ pc[p] = "compact"
  /\ lock = NoProc
  /\ ~Foldable
  /\ Goto(p, "idle")
  /\ UNCHANGED <<redisVars, lock, anchor, clock, job, view, verdict, faults>>

CompactBegin(p) ==
  /\ pc[p] = "compact"
  /\ Foldable
  /\ Take(p)
  /\ view' = [view EXCEPT ![p].target = Target]
  /\ Goto(p, "vanchor")
  /\ UNCHANGED <<redisVars, anchor, clock, job, verdict, faults>>

\* compact goes on only over a prefix that verifies right now.
CompactVerified(p) ==
  /\ p \in Closer /\ pc[p] = "vcounters"
  /\ \/ /\ Replays(view[p])
        /\ verdict' = [verdict EXCEPT ![p] = "intact"]
        /\ Goto(p, "cpsign")
        /\ UNCHANGED <<lock, job, view>>
     \/ /\ ~Replays(view[p])
        /\ verdict' = [verdict EXCEPT ![p] = "tamper"]
        /\ Leave(p, "idle")
  /\ UNCHANGED <<redisVars, anchor, clock, faults>>

\* SET the signed checkpoint before any header is trimmed; a header to sign
\* that is gone ends the compaction.
CompactSign(p) ==
  LET t == view[p].target IN
  /\ pc[p] = "cpsign"
  /\ \/ /\ t \in index
        /\ supercp' = [epoch |-> t, hash |-> HeaderAt(t).hash, end |-> HeaderAt(t).end]
        /\ Goto(p, "xdel")
        /\ UNCHANGED <<lock, job, view>>
     \/ /\ t \notin index
        /\ Leave(p, "idle")
        /\ UNCHANGED supercp
  /\ UNCHANGED <<seq, trimmed, chainVars, stream, index, leaves, eventloc,
                 anchor, clock, verdict, faults>>

Subsumed(t) == {k \in stream : k <= t}

\* _trim_compacted_headers: XDEL the headers the stream still has ...
CompactHeaders(p) ==
  /\ pc[p] = "xdel"
  /\ stream' = stream \ Subsumed(view[p].target)
  /\ view' = [view EXCEPT ![p].dels = Subsumed(view[p].target)]
  /\ Goto(p, "hdel")
  /\ UNCHANGED <<seq, trimmed, chainVars, index, leaves, eventloc, supercp,
                 lock, anchor, clock, job, verdict, faults>>

\* ... then HDEL the same epochs from index, streamid and leaves.
CompactIndexes(p) ==
  /\ pc[p] = "hdel"
  /\ index' = index \ view[p].dels
  /\ leaves' = leaves \ view[p].dels
  /\ Goto(p, "rotate")
  /\ UNCHANGED <<seq, trimmed, chainVars, stream, eventloc, supercp, lock,
                 anchor, clock, job, view, verdict, faults>>

\* AnchorStore.compact: rewrite the file with the lines from the target on.
CompactAnchor(p) ==
  /\ pc[p] = "rotate"
  /\ anchor' = [anchor EXCEPT ![FileOf[p]] = {l \in @ : l.epoch >= view[p].target}]
  /\ Leave(p, "idle")
  /\ UNCHANGED <<redisVars, clock, verdict, faults>>

---------------------------------------------------------------------------
(* Faults                                                                  *)

\* An exception (Redis, the anchor's disk, the acquire timeout): the lock is
\* released on the way out and the daemon's handler swallows it.
Fail(p) ==
  /\ faults < MaxFaults /\ pc[p] # "idle"
  /\ faults' = faults + 1
  /\ Leave(p, "idle")
  /\ UNCHANGED <<redisVars, anchor, clock, verdict>>

\* The process dies and restarts; its lock key stays until the TTL.
Crash(p) ==
  /\ faults < MaxFaults /\ pc[p] # "idle"
  /\ faults' = faults + 1
  /\ Goto(p, "idle")
  /\ job' = [job EXCEPT ![p] = NoJob]
  /\ view' = [view EXCEPT ![p] = NoView]
  /\ UNCHANGED <<redisVars, lock, anchor, clock, verdict>>

---------------------------------------------------------------------------
Close(p) ==
  \/ CloseBegin(p) \/ TailEmpty(p) \/ TailRead(p) \/ ReadLink(p)
  \/ CloseCommit(p) \/ RecordAnchor(p)
  \/ TrimNothing(p) \/ TrimLocations(p) \/ TrimLeaves(p) \/ TrimEvents(p)

Verify(p) ==
  \/ VerifyBegin(p) \/ VerifyAnchor(p) \/ VerifySince(p)
  \/ VerifyHeaders(p) \/ VerifyFinish(p)

Compact(p) ==
  \/ CompactDeclined(p) \/ CompactBegin(p) \/ CompactVerified(p)
  \/ CompactSign(p)
  \/ CompactHeaders(p) \/ CompactIndexes(p) \/ CompactAnchor(p)

\* The steps as long as no lock lapses under a live holder.
Steady ==
  \/ Emit
  \/ LockExpires
  \/ \E p \in Proc : Close(p) \/ Verify(p) \/ Compact(p) \/ Fail(p) \/ Crash(p)

Next == Steady \/ LockLapses

Spec == Init /\ [][Next]_vars

\* A deployment whose sections end within the TTL of the lock.
SteadySpec == Init /\ [][Steady]_vars

\* Steps of a process inside its section.
Inside(p) ==
  /\ pc[p] \in Critical
  /\ Close(p) \/ Verify(p) \/ Compact(p)

\* The daemon and the verifier are tasks of a running event loop, so a step
\* that stays enabled is taken; the TTL is kept by Redis.  Taking the lock
\* is a poll every 10 ms against sections that are short and apart, so a
\* closer that finds it free again and again gets it: strong fairness.
FairSpec ==
  /\ SteadySpec
  /\ WF_vars(LockExpires)
  /\ \A p \in Proc : WF_vars(Inside(p))
  /\ \A p \in Closer : /\ SF_vars(CloseBegin(p))
                        /\ SF_vars(CompactBegin(p) \/ CompactDeclined(p))

---------------------------------------------------------------------------
(* Safety, as long as no lock lapses under a live holder                   *)

\* The header before epoch k: epoch 0 follows the genesis value.
Prior(k) == IF k = 0 THEN NoCheckpoint ELSE HeaderAt(k - 1)

\* Epoch numbers are the positions of the headers: the commit script never
\* appends a second header for an epoch, lapsed locks included.
NumbersHeaders == num = Len(sealed) - 1

\* close_epoch seals every event once, in order: the headers are linked by
\* hash and cover 1..last_seq without gap or overlap, at most MaxLeaves
\* events each, and the four counters name the newest of them.
ChainGapless ==
  /\ NumbersHeaders
  /\ \A k \in 0 .. num :
       /\ Follows(HeaderAt(k), Prior(k))
       /\ HeaderAt(k).start <= HeaderAt(k).end
       /\ HeaderAt(k).end - HeaderAt(k).start < MaxLeaves
  /\ lastSeq = Prior(num + 1).end
  /\ cursor = lastSeq
  /\ head = Prior(num + 1).hash
  /\ lastSeq <= seq

\* An event is provable: inclusion_proof finds its location, the epoch's
\* header and leaf vector, and the record itself.
Provable(s) ==
  /\ s \in DOMAIN eventloc
  /\ eventloc[s] \in index \cap leaves
  /\ s \in HeaderAt(eventloc[s]).start .. HeaderAt(eventloc[s]).end
  /\ s \in Buffered

\* Whatever failed or crashed in between, no event is trimmed before it is
\* sealed, and every event of the newest HotEpochs epochs is provable.
HotEventsProvable ==
  /\ trimmed <= lastSeq
  /\ \A k \in 0 .. num : k > num - HotEpochs =>
       \A s \in HeaderAt(k).start .. HeaderAt(k).end : Provable(s)

\* With nobody tampering, no verification reports tampering: not while
\* events arrive, nor after a close or a compaction that stopped half-way.
NoFalseTamper == \A p \in Proc : verdict[p] # "tamper"

(* Safety, lapsed locks included                                           *)

\* Only sealed events are ever trimmed from the buffer.
NoEventLost ==
  \A s \in 1 .. trimmed :
    \E k \in 1 .. Len(sealed) : s \in sealed[k].start .. sealed[k].end

\* A lock that lapses under a live closer (_RedisAppendLock has no fencing)
\* costs neither the numbering of the epochs nor an event.
LapseLosesNothing == NumbersHeaders /\ NoEventLost

(* What the source says and the code does not keep                         *)

\* close_epoch: "concurrent nodes never double-close".
NeverSealedTwice ==
  \A i, j \in 1 .. Len(sealed) :
    i < j => sealed[i].end < sealed[j].start

---------------------------------------------------------------------------
(* Liveness                                                                *)

\* Every event emitted is eventually sealed, whichever steps fail.
EventuallySealed == \A s \in 1 .. MaxSeq : (s <= seq) ~> (s <= lastSeq)

\* A chain long enough to fold is eventually folded.
EventuallyCompacted == Foldable ~> ~Foldable

\* The daemons keep up (_epoch_loop), whatever fails or crashes on the way.
EventuallySettled == EventuallySealed /\ EventuallyCompacted

---------------------------------------------------------------------------
(* What the ledger promises: an append-only log, sealed in order.          *)

Log == INSTANCE SealedLog WITH
         emitted <- seq,
         epochs <- [k \in 1 .. Len(sealed) |->
                      [start |-> sealed[k].start, end |-> sealed[k].end]]

LogSpec == Log!Spec

=============================================================================
