------------------------- MODULE CompartmentGrants -------------------------
(***************************************************************************)
(* Delegated compartment grants: services/grant_store.py, the per-worker   *)
(* cache of absences services/grant_cache.py, and the member tuple that    *)
(* services/relation_store.py projects from each grant.                    *)
(*                                                                         *)
(* A grant is one Redis key with a TTL.  Every worker caches that a grant  *)
(* is absent, never that it is there, and drops its own marker when it     *)
(* issues or revokes.  Each await is a separate action: a handler reads or *)
(* writes Redis in one step and acts on the reply in a later one.          *)
(*                                                                         *)
(* Time is relative: a key holds its remaining seconds, a marker its age,  *)
(* so the state space is finite without a bound on the clock.              *)
(***************************************************************************)
EXTENDS Integers, Sequences, FiniteSets

CONSTANTS
  Handlers,       \* requests in flight
  Workers, WorkerOf,
  Entitlements,   \* (tenant, compartment, subject): one grant key each
  Decoys,         \* the one of _TIMING_DECOY_COMPARTMENT, asked for, never granted
  GrantTtls,      \* ttl_seconds asked for
  CacheTtl,       \* NegativeGrantCache ttl_s
  CacheSize       \* NegativeGrantCache max_size

ASSUME GrantAssumption ==
  /\ Decoys \subseteq Entitlements
  /\ WorkerOf \in [Handlers -> Workers]
  /\ GrantTtls \subseteq Nat \ {0}
  /\ CacheTtl \in Nat /\ CacheSize \in Nat \ {0}

VARIABLES
  grant,     \* mcpip:grant:*: seconds left, 0 when there is no key
  tuple,     \* mcpip:rel:*: seconds left of the projected member tuple
  absent,    \* [worker -> markers, least recently used first]
  handler

grantStore == <<grant, tuple>>
grantVars  == <<grant, tuple, absent, handler>>

Marker == [key : Entitlements, age : 0 .. CacheTtl + 1]
Resting == [pc |-> "rest"]

\* present is the reply of the GET; gone is history: no grant was stored
\* at any moment since the request was asked.
Handling == [pc : {"read", "got", "allowed", "denied", "set", "stored", "project",
                   "del", "deleted", "untuple"},
             key : Entitlements, ttl : GrantTtls \cup {0},
             present : BOOLEAN, gone : BOOLEAN]

\* Every variable has its type; a cache holds one marker a key, within its size.
GrantTypeOK ==
  /\ grant \in [Entitlements -> Nat] /\ tuple \in [Entitlements -> Nat]
  /\ handler \in [Handlers -> Handling \cup {Resting}]
  /\ \A w \in Workers :
       /\ absent[w] \in Seq(Marker) /\ Len(absent[w]) <= CacheSize
       /\ \A i, j \in 1 .. Len(absent[w]) :
            absent[w][i].key = absent[w][j].key => i = j

GrantInit ==
  /\ grant = [k \in Entitlements |-> 0] /\ tuple = [k \in Entitlements |-> 0]
  /\ absent = [w \in Workers |-> << >>]
  /\ handler = [h \in Handlers |-> Resting]

---------------------------------------------------------------------------
(* The negative cache. *)

\* Where the marker of k stands; a key has one marker at most.
Places(cache, k) == {i \in 1 .. Len(cache) : cache[i].key = k}

Without(cache, k) ==
  IF Places(cache, k) = {} THEN cache
  ELSE LET p == CHOOSE i \in Places(cache, k) : TRUE
       IN [i \in 1 .. Len(cache) - 1 |-> cache[IF i < p THEN i ELSE i + 1]]

Fresh(cache, k) == \E i \in Places(cache, k) : cache[i].age <= CacheTtl

\* Mutant: using a marker also renews it.
RenewMarker(cache, k) ==
  IF Fresh(cache, k) THEN Append(Without(cache, k), [key |-> k, age |-> 0])
                     ELSE Without(cache, k)

\* get_absent moves a fresh marker to the end and drops a stale one.
GetAbsent(cache, k) ==
  IF Fresh(cache, k)
  THEN Append(Without(cache, k), cache[CHOOSE i \in Places(cache, k) : TRUE])
  ELSE Without(cache, k)

\* Mutant: the oldest marker is never evicted.
MarkUnbounded(cache, k) == Append(Without(cache, k), [key |-> k, age |-> 0])

\* mark_absent, evicting the least recently used marker past max_size.
MarkAbsent(cache, k) ==
  LET all == Append(Without(cache, k), [key |-> k, age |-> 0])
  IN IF Len(all) > CacheSize THEN Tail(all) ELSE all

---------------------------------------------------------------------------
(* has_active_grant *)

Becomes(h, pc) == handler' = [handler EXCEPT ![h].pc = pc]
Rests(h) == handler' = [handler EXCEPT ![h] = Resting]

Asked(k, pc) == [pc |-> pc, key |-> k, ttl |-> 0, present |-> FALSE, gone |-> grant[k] = 0]

\* A fresh marker denies without a round trip.
AskGrant(h, k) ==
  LET w == WorkerOf[h] IN
  /\ handler[h] = Resting
  /\ handler' = [handler EXCEPT ![h] =
                   Asked(k, IF Fresh(absent[w], k) THEN "denied" ELSE "read")]
  /\ absent' = [absent EXCEPT ![w] = GetAbsent(@, k)]
  /\ UNCHANGED grantStore

ReadGrant(h) ==
  /\ handler[h].pc = "read"
  /\ handler' = [handler EXCEPT ![h].pc = "got",
                                ![h].present = grant[handler[h].key] > 0]
  /\ UNCHANGED <<grantStore, absent>>

\* Mutant: an unreadable store lets the request through.
ReadFailsOpen(h) ==
  /\ handler[h].pc = "read" /\ Becomes(h, "allowed")
  /\ UNCHANGED <<grantStore, absent>>

\* A transport error denies and is not cached.
ReadFails(h) ==
  /\ handler[h].pc = "read" /\ Becomes(h, "denied")
  /\ UNCHANGED <<grantStore, absent>>

ConcludeGrant(h) ==
  LET w == WorkerOf[h] IN
  /\ handler[h].pc = "got"
  /\ \/ handler[h].present /\ Becomes(h, "allowed") /\ UNCHANGED absent
     \/ /\ ~handler[h].present /\ Becomes(h, "denied")
        /\ absent' = [absent EXCEPT ![w] = MarkAbsent(@, handler[h].key)]
  /\ UNCHANGED grantStore

Answer(h) ==
  /\ handler[h].pc \in {"allowed", "denied"} /\ Rests(h)
  /\ UNCHANGED <<grantStore, absent>>

---------------------------------------------------------------------------
(* issue and revoke *)

StartIssue(h, k) ==
  /\ handler[h] = Resting
  /\ \E ttl \in GrantTtls :
       handler' = [handler EXCEPT ![h] = [Asked(k, "set") EXCEPT !.ttl = ttl]]
  /\ UNCHANGED <<grantStore, absent>>

\* SET EX: every request for this key now overlaps a live grant.  A lost
\* reply raises LockError after the write: no marker is dropped.
SetGrant(h, lost) ==
  LET k == handler[h].key IN
  /\ handler[h].pc = "set"
  /\ grant' = [grant EXCEPT ![k] = handler[h].ttl]
  /\ handler' = [x \in Handlers |->
        IF x = h THEN IF lost THEN Resting ELSE [handler[h] EXCEPT !.pc = "stored", !.gone = FALSE]
        ELSE IF handler[x] # Resting /\ handler[x].key = k
        THEN [handler[x] EXCEPT !.gone = FALSE] ELSE handler[x]]
  /\ UNCHANGED <<tuple, absent>>

\* invalidate on this worker, then the projection is awaited.
Invalidate(h) ==
  /\ \/ handler[h].pc = "stored" /\ Becomes(h, "project")
     \/ handler[h].pc = "deleted" /\ Becomes(h, "untuple")
  /\ absent' = [absent EXCEPT ![WorkerOf[h]] = Without(@, handler[h].key)]
  /\ UNCHANGED grantStore

\* Mutant: the tuple is written without EX (-1, as TTL answers).
ProjectForever(h) ==
  /\ handler[h].pc = "project" /\ Rests(h)
  /\ tuple' = [tuple EXCEPT ![handler[h].key] = -1]
  /\ UNCHANGED <<grant, absent>>

ProjectMember(h) ==
  /\ handler[h].pc = "project" /\ Rests(h)
  /\ tuple' = [tuple EXCEPT ![handler[h].key] = handler[h].ttl]
  /\ UNCHANGED <<grant, absent>>

StartRevoke(h, k) ==
  /\ handler[h] = Resting
  /\ handler' = [handler EXCEPT ![h] = Asked(k, "del")]
  /\ UNCHANGED <<grantStore, absent>>

\* DEL; a lost reply raises LockError, and leaves marker and tuple alone.
DeleteGrant(h, lost) ==
  /\ handler[h].pc = "del"
  /\ grant' = [grant EXCEPT ![handler[h].key] = 0]
  /\ IF lost THEN Rests(h) ELSE Becomes(h, "deleted")
  /\ UNCHANGED <<tuple, absent>>

RemoveMember(h) ==
  /\ handler[h].pc = "untuple" /\ Rests(h)
  /\ tuple' = [tuple EXCEPT ![handler[h].key] = 0]
  /\ UNCHANGED <<grant, absent>>

\* A failed SET or DEL raises LockError; a failed projection is swallowed.
WriteFails(h) ==
  /\ handler[h].pc \in {"set", "del", "project", "untuple"} /\ Rests(h)
  /\ UNCHANGED <<grantStore, absent>>

---------------------------------------------------------------------------

Down(n) == IF n > 0 THEN n - 1 ELSE n
Older(e) == [e EXCEPT !.age = IF @ > CacheTtl THEN @ ELSE @ + 1]

Second ==
  /\ grant' = [k \in Entitlements |-> Down(grant[k])]
  /\ tuple' = [k \in Entitlements |-> Down(tuple[k])]
  /\ absent' = [w \in Workers |-> [i \in 1 .. Len(absent[w]) |-> Older(absent[w][i])]]
  /\ UNCHANGED handler

\* The worker process ends: its cache is cold, its requests are dropped.
WorkerRestart(w) ==
  /\ absent' = [absent EXCEPT ![w] = << >>]
  /\ handler' = [h \in Handlers |-> IF WorkerOf[h] = w THEN Resting ELSE handler[h]]
  /\ UNCHANGED grantStore

\* A reply arrives and its handler goes on.
GrantReply(h) ==
  \/ ReadGrant(h) \/ ConcludeGrant(h) \/ Answer(h)
  \/ SetGrant(h, FALSE) \/ Invalidate(h) \/ ProjectMember(h)
  \/ DeleteGrant(h, FALSE) \/ RemoveMember(h)

GrantNext ==
  \/ \E h \in Handlers :
       \/ GrantReply(h) \/ ReadFails(h) \/ WriteFails(h)
       \/ SetGrant(h, TRUE) \/ DeleteGrant(h, TRUE)
       \/ \E k \in Entitlements : AskGrant(h, k)
       \/ \E k \in Entitlements \ Decoys : StartIssue(h, k) \/ StartRevoke(h, k)
  \/ \E w \in Workers : WorkerRestart(w)
  \/ Second

\* The event loop runs what is ready, and time passes.
GrantFairness ==
  /\ WF_grantVars(Second)
  /\ \A h \in Handlers : WF_grantVars(GrantReply(h))

GrantSpec == GrantInit /\ [][GrantNext]_grantVars
GrantFairSpec == GrantSpec /\ GrantFairness

---------------------------------------------------------------------------
(* Properties *)

\* A revoked or expired grant is never served stale (has_active_grant): a
\* request is allowed only if the grant was stored at some moment after the
\* request was asked, whatever is cached, fails or restarts.
RevokedNeverServed ==
  \A h \in Handlers : handler[h].pc = "allowed" => ~handler[h].gone

\* A lasting grant, re-issued before each expiry, is seen by every worker in
\* the end (grant_cache.py): a reader suspended over its GET may cache an
\* absence after the issuer has invalidated it, and requests may keep asking,
\* but no marker outlives its TTL.
LastingGrantSeen ==
  \A w \in Workers, k \in Entitlements \ Decoys :
    <>[](grant[k] > 0) => <>[](~Fresh(absent[w], k))

\* The projection heals by itself (relation_store.py): once the grants of an
\* entitlement are over its tuple goes, though every removal may fail.
ProjectionHeals ==
  \A k \in Entitlements \ Decoys : <>[](grant[k] = 0) => <>[](tuple[k] = 0)

\* The copies of a grant, in the caches and in the relation store, agree with
\* it in the end.
CopiesConverge == LastingGrantSeen /\ ProjectionHeals
=============================================================================
