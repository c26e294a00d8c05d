-------------------------- MODULE ResponsePlaybook --------------------------
(***************************************************************************)
(* The deny-response playbook: services/response_playbook.py over the      *)
(* stream reads of audit/worm_logger.py and the freeze of                  *)
(* services/quarantine.py.                                                 *)
(*                                                                         *)
(* Every gateway worker runs a daemon that tails the audit stream from its *)
(* own cursor, counts the denies of each subject in one shared Redis key,  *)
(* claims the response of a cooldown, records an incident, and freezes the *)
(* agent.  A subject stands for (tenant, agent, reason).  Each Redis call  *)
(* is an action: its reply may be lost, and a daemon may end before it.    *)
(*                                                                         *)
(* Time is relative: a key holds its remaining time, no clock grows.       *)
(***************************************************************************)
EXTENDS Integers, Sequences, FiniteSets

CONSTANTS
  Daemons,       \* one playbook per worker process
  Subjects,      \* (tenant, agent, reason) with a trigger reason
  SingleShot,    \* those with a reason of RESPONSE_SINGLE_SHOT_REASONS
  Other,         \* a record that is no deny of a trigger reason
  BurstThreshold,
  Window, Cooldown,   \* RESPONSE_BURST_WINDOW_S, RESPONSE_COOLDOWN_S
  ScanLimit, AlertLimit,  \* MAX_RESPONSE_SCAN, MAX_RESPONSE_ACTIONS_PER_TICK
  MaxEvents,     \* bound: records appended to the stream
  MaxFaults      \* bound: lost calls and restarts

ASSUME PlaybookAssumption ==
  /\ IsFiniteSet(Daemons) /\ SingleShot \subseteq Subjects /\ Other \notin Subjects
  /\ BurstThreshold \in Nat \ {0} /\ Window \in Nat \ {0} /\ Cooldown \in Nat \ {0}
  /\ ScanLimit \in Nat \ {0} /\ AlertLimit \in Nat \ {0}
  /\ MaxEvents \in Nat /\ MaxFaults \in Nat

VARIABLES
  stream,    \* mcpip:worm:events
  window,    \* mcpip:response:win:*: count and time left
  claim,     \* mcpip:response:claim:*: time left, 0 when there is none
  frozen,    \* subjects whose agent the playbook has quarantined
  incidents, \* subjects with a response_action record
  daemon,
  faults,    \* lost calls and restarts so far
  unrecorded,\* subjects whose incident could not be written (history)
  tally,     \* reads the window of a subject has counted since it began, and
  grounds    \* those of its last window that called for a response (history)

\* A read of a record: by which daemon, with which of its cursors, at which place.
Read == Daemons \X Nat \X Nat
reads == <<tally, grounds>>
store == <<window, claim, frozen, incidents, unrecorded, reads>>
playVars == <<stream, store, daemon, faults>>

NoCursor == -1
NoExpiry == -1
Event == Subjects \cup {Other}

\* alerts are the positions of the records still to be considered.  History:
\* boot, the number of cursors the daemon has had, and tail, the length of the stream when it
\* was anchored.
Daemon == [pc : {"asleep", "next", "expire", "decide", "claim", "record", "freeze"},
           cursor : Int, boot : Nat, tail : Nat, alerts : SUBSET Nat, count : Nat]
Booting == [pc |-> "asleep", cursor |-> NoCursor, boot |-> 0, tail |-> 0, alerts |-> {}, count |-> 0]

\* Every variable has its type; a poll never holds more than AlertLimit alerts.
PlaybookTypeOK ==
  /\ stream \in Seq(Event)
  /\ window \in [Subjects -> [count : Nat, left : {NoExpiry} \cup (0 .. Window)]]
  /\ claim \in [Subjects -> 0 .. Cooldown]
  /\ frozen \subseteq Subjects /\ incidents \subseteq Subjects /\ unrecorded \subseteq Subjects
  /\ daemon \in [Daemons -> Daemon]
  /\ faults \in 0 .. MaxFaults
  /\ tally \in [Subjects -> SUBSET Read]
  /\ grounds \in [Subjects -> SUBSET Read]
  /\ \A d \in Daemons : /\ daemon[d].cursor \in NoCursor .. Len(stream)
                        /\ Cardinality(daemon[d].alerts) <= AlertLimit

PlaybookInit ==
  /\ stream = << >>
  /\ window = [s \in Subjects |-> [count |-> 0, left |-> 0]]
  /\ claim = [s \in Subjects |-> 0]
  /\ frozen = {} /\ incidents = {} /\ unrecorded = {}
  /\ tally = [s \in Subjects |-> {}] /\ grounds = [s \in Subjects |-> {}]
  /\ daemon = [d \in Daemons |-> Booting]
  /\ faults = 0

---------------------------------------------------------------------------

\* The pipeline appends a record.
Append1(e) ==
  /\ Len(stream) < MaxEvents
  /\ stream' = Append(stream, e)
  /\ UNCHANGED <<store, daemon, faults>>

Spend == faults < MaxFaults /\ faults' = faults + 1

Goes(d, pc) == daemon' = [daemon EXCEPT ![d].pc = pc]

\* The alert under consideration, the first of those left, and its subject.
Current(d) == CHOOSE i \in daemon[d].alerts : \A k \in daemon[d].alerts : i <= k
Subject(d) == stream[Current(d)]

\* The alert under consideration is done with.
NextAlert(d) == daemon' = [daemon EXCEPT ![d].pc = "next", ![d].alerts = @ \ {Current(d)},
                                         ![d].count = 0]

\* First poll: the cursor is anchored at the stream's tail.
Anchor(d) ==
  /\ daemon[d].pc = "asleep" /\ daemon[d].cursor = NoCursor
  /\ daemon' = [daemon EXCEPT ![d].cursor = Len(stream), ![d].tail = Len(stream),
                              ![d].boot = @ + 1]
  /\ UNCHANGED <<stream, store, faults>>

\* stream_tail_id answers "0" on a transport error.
AnchorFails(d) ==
  /\ daemon[d].pc = "asleep" /\ daemon[d].cursor = NoCursor /\ Spend
  /\ daemon' = [daemon EXCEPT ![d].cursor = 0, ![d].tail = Len(stream), ![d].boot = @ + 1]
  /\ UNCHANGED <<stream, store>>

Upto(a, b) == IF a <= b THEN a ELSE b

\* Records a scan examines: up to ScanLimit of them, stopping at the last
\* alert that AlertLimit allows.
Alerts(from, to) == {i \in from + 1 .. to : stream[i] # Other}
Examined(from) ==
  LET all == Upto(Len(stream), from + ScanLimit)
      full == {n \in from .. all : Cardinality(Alerts(from, n)) = AlertLimit}
  IN IF full = {} THEN all ELSE CHOOSE n \in full : \A k \in full : n <= k

\* Mutant: the cursor moves past alerts the limit has left out.
ScanPastLimit(d) ==
  LET from == daemon[d].cursor
      to == Upto(Len(stream), from + ScanLimit)
  IN /\ daemon[d].pc = "asleep" /\ from # NoCursor /\ from < Len(stream)
     /\ daemon' = [daemon EXCEPT ![d].pc = "next", ![d].cursor = to,
                                 ![d].alerts = Alerts(from, Examined(from))]
     /\ UNCHANGED <<stream, store, faults>>

\* Mutant: the cursor is inclusive, the last record is read again.
ScanInclusive(d) ==
  LET from == IF daemon[d].cursor > 0 THEN daemon[d].cursor - 1 ELSE daemon[d].cursor
      to == Examined(from)
  IN /\ daemon[d].pc = "asleep" /\ from # NoCursor /\ from < Len(stream)
     /\ daemon' = [daemon EXCEPT ![d].pc = "next", ![d].cursor = to,
                                 ![d].alerts = Alerts(from, to)]
     /\ UNCHANGED <<stream, store, faults>>

\* scan_alerts; the cursor moves before any alert is considered.  A failed
\* read moves nothing.
Scan(d) ==
  LET from == daemon[d].cursor
      to == Examined(from)
  IN /\ daemon[d].pc = "asleep" /\ from # NoCursor /\ from < Len(stream)
     /\ daemon' = [daemon EXCEPT ![d].pc = "next", ![d].cursor = to,
                                 ![d].alerts = Alerts(from, to)]
     /\ UNCHANGED <<stream, store, faults>>

\* The poll is over; the daemon sleeps for the interval.
Sleep(d) ==
  /\ daemon[d].pc = "next" /\ daemon[d].alerts = {}
  /\ Goes(d, "asleep")
  /\ UNCHANGED <<stream, store, faults>>

---------------------------------------------------------------------------
(* _consider: INCR, EXPIRE on the first count, decide, SET NX EX. *)

\* A count of s that calls for a response (decide_response).
Calls(s, n) == s \in SingleShot \/ n >= BurstThreshold

\* A lost reply is an exception: the subject is counted, the alert dropped.
Bump(d, lost) ==
  /\ daemon[d].pc = "next" /\ daemon[d].alerts # {}
  /\ LET s == Subject(d)
         n == window[s].count + 1
     IN /\ window' = [window EXCEPT ![s] = [count |-> n,
                        left |-> IF n = 1 THEN NoExpiry ELSE @.left]]
        /\ tally' = [tally EXCEPT ![s] = @ \cup {<<d, daemon[d].boot, Current(d)>>}]
        /\ grounds' = IF Calls(s, n) THEN [grounds EXCEPT ![s] = tally'[s]] ELSE grounds
        /\ IF lost THEN Spend /\ NextAlert(d)
           ELSE /\ UNCHANGED faults
                /\ daemon' = [daemon EXCEPT ![d].pc = IF n = 1 THEN "expire" ELSE "decide",
                                            ![d].count = n]
  /\ UNCHANGED <<stream, claim, frozen, incidents, unrecorded>>

Expire(d) ==
  /\ daemon[d].pc = "expire" /\ Goes(d, "decide")
  /\ window' = [window EXCEPT ![Subject(d)].left = Window]
  /\ UNCHANGED <<stream, claim, frozen, incidents, unrecorded, reads, faults>>

Decide(d) ==
  /\ daemon[d].pc = "decide"
  /\ IF Calls(Subject(d), daemon[d].count) THEN Goes(d, "claim") ELSE NextAlert(d)
  /\ UNCHANGED <<stream, store, faults>>

\* A lost reply drops the alert, the claim stands.
Claim(d, lost) ==
  /\ daemon[d].pc = "claim"
  /\ LET s == Subject(d) IN
     \/ /\ claim[s] = 0
        /\ claim' = [claim EXCEPT ![s] = Cooldown]
        /\ IF lost THEN Spend /\ NextAlert(d) ELSE UNCHANGED faults /\ Goes(d, "record")
     \/ claim[s] > 0 /\ ~lost /\ NextAlert(d) /\ UNCHANGED <<claim, faults>>
  /\ UNCHANGED <<stream, window, frozen, incidents, unrecorded, reads>>

---------------------------------------------------------------------------
(* _respond: the incident is written before the freeze, which a failed     *)
(* write does not stop.                                                    *)

\* With RESPONSE_AUTO_QUARANTINE on and no notifiers: a response is the
\* incident and the freeze.
Record(d, written) ==
  /\ daemon[d].pc = "record" /\ Goes(d, "freeze")
  /\ IF written
     THEN incidents' = incidents \cup {Subject(d)} /\ UNCHANGED <<unrecorded, faults>>
     ELSE unrecorded' = unrecorded \cup {Subject(d)} /\ Spend /\ UNCHANGED incidents
  /\ UNCHANGED <<stream, window, claim, frozen, reads>>

\* quarantine swallows a transport error.
Freeze(d, kept) ==
  /\ daemon[d].pc = "freeze" /\ NextAlert(d)
  /\ IF kept THEN frozen' = frozen \cup {Subject(d)} /\ UNCHANGED faults
             ELSE Spend /\ UNCHANGED frozen
  /\ UNCHANGED <<stream, window, claim, incidents, unrecorded, reads>>

\* INCR, EXPIRE or SET fails before it is applied: the alert is dropped.
CallFails(d) ==
  /\ \/ daemon[d].pc = "next" /\ daemon[d].alerts # {}
     \/ daemon[d].pc \in {"expire", "claim"}
  /\ Spend /\ NextAlert(d)
  /\ UNCHANGED <<stream, store>>

\* The worker ends and starts again, without a cursor.
Restart(d) ==
  /\ Spend
  /\ daemon' = [daemon EXCEPT ![d] = [Booting EXCEPT !.boot = daemon[d].boot]]
  /\ UNCHANGED <<stream, store>>

\* Time passes: a key whose time is up is gone.
Elapse ==
  /\ window' = [s \in Subjects |->
        CASE window[s].left = NoExpiry -> window[s]
          [] window[s].left > 1 -> [window[s] EXCEPT !.left = @ - 1]
          [] OTHER -> [count |-> 0, left |-> 0]]
  /\ tally' = [s \in Subjects |-> IF window'[s].count = 0 THEN {} ELSE tally[s]]
  /\ claim' = [s \in Subjects |-> IF claim[s] > 0 THEN claim[s] - 1 ELSE 0]
  /\ UNCHANGED <<stream, frozen, incidents, unrecorded, grounds, daemon, faults>>

\* What a daemon does when every call it makes succeeds.
Proceed(d) ==
  \/ Anchor(d) \/ Scan(d) \/ Sleep(d) \/ Bump(d, FALSE) \/ Expire(d) \/ Decide(d)
  \/ Claim(d, FALSE) \/ Record(d, TRUE) \/ Freeze(d, TRUE)

PlaybookNext ==
  \/ \E e \in Event : Append1(e)
  \/ \E d \in Daemons :
       \/ Proceed(d)
       \/ AnchorFails(d) \/ Bump(d, TRUE) \/ Claim(d, TRUE)
       \/ Record(d, FALSE) \/ Freeze(d, FALSE) \/ CallFails(d) \/ Restart(d)
  \/ Elapse

\* The interval task is never starved; nothing fails forever.
PlaybookFairness == \A d \in Daemons : WF_playVars(Proceed(d))

PlaybookSpec == PlaybookInit /\ [][PlaybookNext]_playVars
PlaybookFairSpec == PlaybookSpec /\ PlaybookFairness

---------------------------------------------------------------------------
(* Properties *)

\* What can be read of s: each of its denies, by each cursor there has been.
Reads(s) == {r \in Read : /\ r[2] <= daemon[r[1]].boot
                          /\ r[3] \in 1 .. Len(stream) /\ stream[r[3]] = s}

\* A freeze is warranted, whatever restarts, replays or is lost: one window of
\* the subject came by as many different reads of its denies as the policy
\* asks for (a cursor never counts a record twice), and nobody is frozen
\* without an incident in the log, unless writing that incident has failed
\* (decide_response, _respond).  A window has an end, which somebody is about
\* to set or which a lost call or a dead worker has left unset (_bump_window).
FreezeWarranted ==
  /\ \A s \in frozen :
       /\ grounds[s] \subseteq Reads(s)
       /\ Cardinality(grounds[s]) >= (IF s \in SingleShot THEN 1 ELSE BurstThreshold)
  /\ frozen \subseteq incidents \cup unrecorded
  /\ \A s \in Subjects : window[s].count > 0 /\ window[s].left = NoExpiry =>
       faults > 0 \/ \E d \in Daemons : daemon[d].pc = "expire" /\ Subject(d) = s

\* "fires only once the per-agent window count reaches burst_threshold"
\* (decide_response), where that count is "denials of a reason by ONE agent
\* within RESPONSE_BURST_WINDOW_S" (core/config.py): so many of the agent's own
\* denies were counted in one window.
FrozenByOwnDenies ==
  \A s \in frozen \ SingleShot :
    Cardinality({r[3] : r \in grounds[s]}) >= BurstThreshold

\* Automation closes the loop (poll_once): a single-shot deny that enters the
\* stream after a daemon has anchored ends in a freeze, past every scan and
\* alert limit, unless a call was lost or a worker restarted.
TripAnswered ==
  \A s \in SingleShot, d \in Daemons :
    (/\ daemon[d].cursor # NoCursor
     /\ \E i \in daemon[d].tail + 1 .. Len(stream) : stream[i] = s)
      ~> (s \in frozen \/ faults > 0)
=============================================================================
