----------------------------- MODULE EventChain -----------------------------
(***************************************************************************)
(* The per-event mode of the audit ledger (mode="per_event"), kept for     *)
(* migration: _emit_per_event and _verify_per_event of worm_logger.py.     *)
(*                                                                         *)
(* Each event is one line of a file and names the line before it.  What    *)
(* the next line is to name is kept in two Redis keys, written after the   *)
(* line and one after the other; a spin lock with a TTL keeps emitters of  *)
(* several workers apart.  Calls may fail with or without effect, workers  *)
(* may crash and locks may lapse.                                          *)
(*                                                                         *)
(* A line stands for its sequence and prev_hash; its own hash is its place *)
(* in the file, and 0 is _GENESIS.                                         *)
(***************************************************************************)
EXTENDS Integers, Sequences

CONSTANTS
  Emitter,         \* requests being logged, on any worker
  NoEmitter,
  MaxLines,        \* bound: lines in the file
  MaxLineFaults    \* bound: failed calls, crashes and lapses

ASSUME LinesAssumption ==
  NoEmitter \notin Emitter /\ MaxLines \in Nat /\ MaxLineFaults \in Nat

VARIABLES
  lines,           \* the file at MCPIP_WORM_PATH
  keys,            \* _SEQ_KEY (-1 when absent) and _LAST_HASH_KEY
  appendLock,      \* whose token _LOCK_KEY holds
  emitter,         \* where each emission is, and what it has read
  receipts,        \* the lines whose emission returned a receipt
  lineFaults,
  cut              \* a line was left without its keys, or a lock lapsed

lineVars == <<lines, keys, appendLock, emitter, receipts, lineFaults, cut>>

Resting == [at |-> "idle", seq |-> 0, line |-> 0]

EmitterStep == {"idle", "seq", "hash", "setseq", "sethash", "quorum", "unlock"}

\* Every variable has its type.
LinesTypeOK ==
  /\ lines \in Seq([seq : Nat, prev : Nat])
  /\ keys \in [seq : Nat \cup {-1}, hash : Nat]
  /\ appendLock \in Emitter \cup {NoEmitter}
  /\ emitter \in [Emitter -> [at : EmitterStep, seq : Nat, line : Nat]]
  /\ receipts \in SUBSET Nat
  /\ lineFaults \in 0 .. MaxLineFaults
  /\ cut \in BOOLEAN

LinesInit ==
  /\ lines = << >>
  /\ keys = [seq |-> -1, hash |-> 0]
  /\ appendLock = NoEmitter
  /\ emitter = [e \in Emitter |-> Resting]
  /\ receipts = {}
  /\ lineFaults = 0
  /\ cut = FALSE

---------------------------------------------------------------------------
(* _RedisAppendLock                                                        *)

\* Mutant: SET without NX.
AcquireAnyway(e) ==
  /\ emitter[e].at = "idle" /\ Len(lines) < MaxLines
  /\ appendLock' = e
  /\ emitter' = [emitter EXCEPT ![e].at = "seq"]
  /\ UNCHANGED <<lines, keys, receipts, lineFaults, cut>>

Acquire(e) ==
  /\ emitter[e].at = "idle" /\ Len(lines) < MaxLines
  /\ appendLock = NoEmitter
  /\ appendLock' = e
  /\ emitter' = [emitter EXCEPT ![e].at = "seq"]
  /\ UNCHANGED <<lines, keys, receipts, lineFaults, cut>>

\* __aexit__: compare-and-delete; a RedisError leaves the key to its TTL.
Unlock(e) ==
  /\ emitter[e].at = "unlock"
  /\ emitter' = [emitter EXCEPT ![e] = Resting]
  /\ appendLock' \in {appendLock, IF appendLock = e THEN NoEmitter ELSE appendLock}
  /\ UNCHANGED <<lines, keys, receipts, lineFaults, cut>>

\* The TTL of a lock nobody works under any more.
LeftLockExpires ==
  /\ appendLock # NoEmitter /\ emitter[appendLock].at = "idle"
  /\ appendLock' = NoEmitter
  /\ UNCHANGED <<lines, keys, emitter, receipts, lineFaults, cut>>

\* The TTL of a holder that outlives it (MCPIP WORM-LOCK-OVERRUN).
HeldLockLapses ==
  /\ appendLock # NoEmitter /\ emitter[appendLock].at # "idle"
  /\ lineFaults < MaxLineFaults
  /\ appendLock' = NoEmitter
  /\ lineFaults' = lineFaults + 1
  /\ cut' = TRUE
  /\ UNCHANGED <<lines, keys, emitter, receipts>>

---------------------------------------------------------------------------
(* _emit_per_event                                                         *)

GetSeq(e) ==
  /\ emitter[e].at = "seq"
  /\ emitter' = [emitter EXCEPT ![e].at = "hash", ![e].seq = keys.seq + 1]
  /\ UNCHANGED <<lines, keys, appendLock, receipts, lineFaults, cut>>

\* The read of the head, and, without an await after it, the write of the line.
AppendLine(e) ==
  /\ emitter[e].at = "hash" /\ Len(lines) < MaxLines
  /\ lines' = Append(lines, [seq |-> emitter[e].seq, prev |-> keys.hash])
  /\ emitter' = [emitter EXCEPT ![e].at = "setseq",
                                ![e].line = Len(lines) + 1]
  /\ UNCHANGED <<keys, appendLock, receipts, lineFaults, cut>>

SetSeq(e) ==
  /\ emitter[e].at = "setseq"
  /\ keys' = [keys EXCEPT !.seq = emitter[e].seq]
  /\ emitter' = [emitter EXCEPT ![e].at = "sethash"]
  /\ UNCHANGED <<lines, appendLock, receipts, lineFaults, cut>>

SetHash(e) ==
  /\ emitter[e].at = "sethash"
  /\ keys' = [keys EXCEPT !.hash = emitter[e].line]
  /\ emitter' = [emitter EXCEPT ![e].at = "quorum"]
  /\ UNCHANGED <<lines, appendLock, receipts, lineFaults, cut>>

\* _enforce_replica_quorum: a receipt, or an error over a line that stays.
Quorum(e) ==
  /\ emitter[e].at = "quorum"
  /\ receipts' \in {receipts, receipts \cup {emitter[e].line}}
  /\ emitter' = [emitter EXCEPT ![e].at = "unlock"]
  /\ UNCHANGED <<lines, keys, appendLock, lineFaults, cut>>

\* The keys after a call of e that raises: a SET may have been applied.
KeysAfter(e) ==
  {keys} \cup CASE emitter[e].at = "setseq"  -> {[keys EXCEPT !.seq = emitter[e].seq]}
                [] emitter[e].at = "sethash" -> {[keys EXCEPT !.hash = emitter[e].line]}
                [] OTHER -> {}

\* e stops here, and the keys do not name the line it has written.
Cuts(e, k) == emitter[e].at \in {"setseq", "sethash"} /\ k.hash # emitter[e].line

\* A call raises, and the lock is released on the way out; or the worker
\* dies, and the lock is left behind.
Stops(e) ==
  /\ emitter[e].at \notin {"idle", "unlock"} /\ lineFaults < MaxLineFaults
  /\ \E next \in {"unlock", "idle"} :
       emitter' = [emitter EXCEPT ![e] = [Resting EXCEPT !.at = next]]
  /\ \E k \in KeysAfter(e) : keys' = k /\ cut' = (cut \/ Cuts(e, k))
  /\ lineFaults' = lineFaults + 1
  /\ UNCHANGED <<lines, appendLock, receipts>>

LinesNext ==
  \/ LeftLockExpires \/ HeldLockLapses
  \/ \E e \in Emitter :
       \/ Acquire(e) \/ GetSeq(e) \/ AppendLine(e) \/ SetSeq(e) \/ SetHash(e)
       \/ Quorum(e) \/ Unlock(e) \/ Stops(e)

LinesSpec == LinesInit /\ [][LinesNext]_lineVars

---------------------------------------------------------------------------
\* _verify_per_event: the first line that does not continue the one before.
Refused == {i \in DOMAIN lines : lines[i].seq # i - 1 \/ lines[i].prev # i - 1}

\* The file verifies, whoever wrote it and whatever calls failed, as long as
\* no emitter stopped with its line written and its keys not, and no lock
\* lapsed under a writer; and then no two receipts carry one sequence.  A
\* worker that dies before its line or after its keys does no harm.
FileVerifies ==
  cut \/ /\ Refused = {}
         /\ \A i, j \in receipts : lines[i].seq = lines[j].seq => i = j
=============================================================================
