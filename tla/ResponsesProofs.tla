--------------------------- MODULE ResponsesProofs ---------------------------
(***************************************************************************)
(* A revoked grant is never served, no cache outgrows its size, and nobody *)
(* is frozen without cause: for any number of requests, workers and        *)
(* daemons, any lifetimes, limits and thresholds.                          *)
(***************************************************************************)
EXTENDS MCResponses, FiniteSetTheorems, WellFoundedInduction, TLAPS

---------------------------------------------------------------------------
(* Compartment grants *)

StoresTyped ==
  /\ grant \in [Entitlements -> Nat]
  /\ handler \in [Handlers -> Handling \cup {Resting}]

\* A request without a grant so far: there is none now, and the reply it
\* may hold says so.
NoneSoFar ==
  \A h \in Handlers : handler[h] # Resting /\ handler[h].gone =>
    /\ grant[handler[h].key] = 0
    /\ handler[h].pc = "got" => ~handler[h].present
    /\ handler[h].pc # "allowed"

GrantIInv == StoresTyped /\ NoneSoFar

\* A request that rests holds nothing.
LEMMA RestingApart == Resting \notin Handling
BY DEF Resting, Handling

\* A step that moves one request and no grant: that request must stay honest.
LEMMA OneMoves ==
  ASSUME GrantIInv, grant' = grant, NEW h \in Handlers,
         NEW r \in Handling \cup {Resting}, handler' = [handler EXCEPT ![h] = r],
         r # Resting /\ r.gone =>
           grant[r.key] = 0 /\ (r.pc = "got" => ~r.present) /\ r.pc # "allowed"
  PROVE  GrantIInv'
<1>1. handler'[h] = r /\ \A x \in Handlers \ {h} : handler'[x] = handler[x]
  BY DEF GrantIInv, StoresTyped
<1>2. StoresTyped'
  BY DEF GrantIInv, StoresTyped
<1>3. NoneSoFar'
  BY <1>1 DEF GrantIInv, NoneSoFar
<1>4. QED
  BY <1>2, <1>3 DEF GrantIInv

\* Going on with what is known already.
LEMMA GoesOn ==
  ASSUME GrantIInv, grant' = grant, NEW h \in Handlers,
         NEW pc \in {"denied", "project", "deleted", "untuple"},
         handler[h] # Resting, Becomes(h, pc)
  PROVE  GrantIInv'
<1> DEFINE r == [handler[h] EXCEPT !.pc = pc]
<1>1. handler[h] \in Handling
  BY DEF GrantIInv, StoresTyped
<1>2. r \in Handling /\ r.key = handler[h].key /\ r.gone = handler[h].gone /\ r.pc = pc
  BY <1>1 DEF Handling
<1>3. handler' = [handler EXCEPT ![h] = r]
  BY DEF Becomes, GrantIInv, StoresTyped
<1>4. r.gone => grant[r.key] = 0
  BY <1>2 DEF GrantIInv, NoneSoFar
<1>5. QED
  BY <1>2, <1>3, <1>4, OneMoves

\* A request that ends.
LEMMA Ends ==
  ASSUME GrantIInv, grant' = grant, NEW h \in Handlers, Rests(h)
  PROVE  GrantIInv'
BY OneMoves DEF Rests

\* A request that begins knows of no grant only if there is none.
LEMMA AskedHonest ==
  ASSUME GrantIInv, NEW k \in Entitlements, NEW pc \in {"read", "denied", "set", "del"}
  PROVE  /\ Asked(k, pc) \in Handling
         /\ Asked(k, pc).pc = pc /\ Asked(k, pc).key = k
         /\ Asked(k, pc).gone => grant[k] = 0
<1>1. PICK none \in BOOLEAN : none = (grant[k] = 0)
  OBVIOUS
<1> DEFINE r == [pc |-> pc, key |-> k, ttl |-> 0, present |-> FALSE, gone |-> none]
<1>2. Asked(k, pc) = r
  BY <1>1, Zenon DEF Asked
<1>3. r \in Handling /\ r.pc = pc /\ r.key = k /\ (r.gone => grant[k] = 0)
  BY <1>1 DEF Handling
<1>4. QED
  BY <1>2, <1>3, Zenon

\* The invariant is inductive.
LEMMA GrantStep ==
  ASSUME GrantIInv, [GrantNext]_grantVars
  PROVE  GrantIInv'
<1>1. ASSUME NEW h \in Handlers, NEW k \in Entitlements,
             AskGrant(h, k) \/ StartIssue(h, k) \/ StartRevoke(h, k)
      PROVE  GrantIInv'
  <2>1. grant' = grant
    BY <1>1 DEF AskGrant, StartIssue, StartRevoke, grantStore
  <2>2. CASE AskGrant(h, k) \/ StartRevoke(h, k)
    <3>1. PICK pc \in {"read", "denied", "set", "del"} :
            handler' = [handler EXCEPT ![h] = Asked(k, pc)]
      BY <2>2 DEF AskGrant, StartRevoke
    <3> DEFINE a == Asked(k, pc)
    <3>2. a \in Handling /\ a.pc = pc /\ a.key = k /\ (a.gone => grant[k] = 0)
      BY AskedHonest
    <3> HIDE DEF a
    <3>3. a.gone => grant[a.key] = 0 /\ (a.pc = "got" => ~a.present) /\ a.pc # "allowed"
      BY <3>2
    <3>4. handler' = [handler EXCEPT ![h] = a]
      BY <3>1 DEF a
    <3>5. QED
      BY <2>1, <3>2, <3>3, <3>4, OneMoves
  <2>3. CASE StartIssue(h, k)
    <3> DEFINE a == Asked(k, "set")
    <3>1. PICK ttl \in GrantTtls : handler' = [handler EXCEPT ![h] = [a EXCEPT !.ttl = ttl]]
      BY <2>3 DEF StartIssue
    <3>2. a \in Handling /\ a.pc = "set" /\ a.key = k /\ (a.gone => grant[k] = 0)
      BY AskedHonest
    <3> HIDE DEF a
    <3>3. [a EXCEPT !.ttl = ttl] \in Handling
          /\ [a EXCEPT !.ttl = ttl].pc = "set" /\ [a EXCEPT !.ttl = ttl].key = k
          /\ [a EXCEPT !.ttl = ttl].gone = a.gone
      BY <3>2 DEF Handling
    <3>4. QED
      BY <2>1, <3>1, <3>2, <3>3, OneMoves
  <2>4. QED
    BY <1>1, <2>2, <2>3
<1>2. ASSUME NEW h \in Handlers, ReadGrant(h)
      PROVE  GrantIInv'
  <2>1. handler[h] \in Handling
    BY <1>2 DEF ReadGrant, GrantIInv, StoresTyped, Resting
  <2>2. PICK there \in BOOLEAN : there = (grant[handler[h].key] > 0)
    <3>1. (grant[handler[h].key] > 0) \in BOOLEAN
      OBVIOUS
    <3>2. QED
      BY <3>1, Zenon
  <2> DEFINE r == [handler[h] EXCEPT !.pc = "got", !.present = there]
  <2>3. r \in Handling /\ r.key = handler[h].key /\ r.gone = handler[h].gone
        /\ r.pc = "got" /\ r.present = there
    BY <2>1 DEF Handling
  <2>4. handler' = [handler EXCEPT ![h] = r] /\ grant' = grant
    <3>1. handler' = [handler EXCEPT ![h].pc = "got", ![h].present = there]
      BY <1>2, <2>2, Zenon DEF ReadGrant
    <3>2. QED
      BY <1>2, <3>1 DEF ReadGrant, grantStore, GrantIInv, StoresTyped
  <2>5. r.gone => grant[r.key] = 0 /\ ~r.present
    <3>1. r.gone => grant[handler[h].key] = 0
      BY <2>1, <2>3, RestingApart DEF GrantIInv, NoneSoFar
    <3>2. grant[handler[h].key] = 0 => ~there
      <4>1. grant[handler[h].key] = 0 => ~(grant[handler[h].key] > 0)
        OBVIOUS
      <4>2. QED
        BY <2>2, <4>1, Zenon
    <3>3. QED
      BY <2>3, <3>1, <3>2
  <2>6. QED
    BY <2>3, <2>4, <2>5, OneMoves
<1>3. ASSUME NEW h \in Handlers, ConcludeGrant(h)
      PROVE  GrantIInv'
  <2>1. handler[h] \in Handling /\ handler[h].pc = "got" /\ grant' = grant
    BY <1>3 DEF ConcludeGrant, grantStore, GrantIInv, StoresTyped, Resting
  <2>2. CASE Becomes(h, "denied")
    BY <2>1, <2>2, GoesOn, RestingApart
  <2>3. CASE handler[h].present /\ Becomes(h, "allowed")
    <3> DEFINE r == [handler[h] EXCEPT !.pc = "allowed"]
    <3>1. r \in Handling /\ r.gone = handler[h].gone
      BY <2>1 DEF Handling
    <3>2. handler' = [handler EXCEPT ![h] = r]
      BY <2>3 DEF Becomes, GrantIInv, StoresTyped
    <3>3. ~r.gone
      BY <2>1, <2>3, <3>1, RestingApart DEF GrantIInv, NoneSoFar
    <3>4. QED
      BY <2>1, <3>1, <3>2, <3>3, OneMoves
  <2>4. QED
    BY <1>3, <2>2, <2>3 DEF ConcludeGrant
<1>4. ASSUME NEW h \in Handlers, NEW lost \in BOOLEAN, SetGrant(h, lost)
      PROVE  GrantIInv'
  <2> DEFINE k == handler[h].key
  <2>1. handler[h] \in Handling /\ k \in Entitlements /\ handler[h].ttl \in Nat
    BY <1>4, GrantAssumption DEF SetGrant, GrantIInv, StoresTyped, Resting, Handling
  <2>2. grant' = [grant EXCEPT ![k] = handler[h].ttl]
    BY <1>4 DEF SetGrant
  <2>3. ASSUME NEW x \in Handlers
        PROVE  /\ handler'[x] \in Handling \cup {Resting}
               /\ handler'[x] # Resting /\ handler'[x].gone =>
                    /\ handler'[x] = handler[x] /\ handler[x].key # k
    <3>1. \A r \in Handling : /\ [r EXCEPT !.gone = FALSE] \in Handling
                              /\ ~[r EXCEPT !.gone = FALSE].gone
                              /\ [r EXCEPT !.pc = "stored", !.gone = FALSE] \in Handling
                              /\ ~[r EXCEPT !.pc = "stored", !.gone = FALSE].gone
      BY DEF Handling
    <3>2. handler[x] \in Handling \cup {Resting}
      BY DEF GrantIInv, StoresTyped
    <3>3. handler'[x] = IF x = h THEN IF lost THEN Resting
                                      ELSE [handler[h] EXCEPT !.pc = "stored", !.gone = FALSE]
                        ELSE IF handler[x] # Resting /\ handler[x].key = k
                        THEN [handler[x] EXCEPT !.gone = FALSE] ELSE handler[x]
      BY <1>4 DEF SetGrant
    <3>4. QED
      BY <2>1, <3>1, <3>2, <3>3
  <2>4. StoresTyped'
    <3>1. grant' \in [Entitlements -> Nat]
      BY <2>1, <2>2 DEF GrantIInv, StoresTyped
    <3>2. handler' = [x \in Handlers |-> handler'[x]]
      BY <1>4 DEF SetGrant
    <3>3. QED
      BY <2>3, <3>1, <3>2 DEF StoresTyped
  <2>5. NoneSoFar'
    <3> SUFFICES ASSUME NEW x \in Handlers, handler'[x] # Resting, handler'[x].gone
                 PROVE  /\ grant'[handler'[x].key] = 0
                        /\ handler'[x].pc = "got" => ~handler'[x].present
                        /\ handler'[x].pc # "allowed"
      BY DEF NoneSoFar
    <3>1. handler'[x] = handler[x] /\ handler[x].key # k /\ handler[x] # Resting
      BY <2>3
    <3>2. handler[x].key \in Entitlements
      BY <3>1 DEF GrantIInv, StoresTyped, Handling
    <3>3. grant'[handler[x].key] = grant[handler[x].key]
      BY <2>2, <3>1, <3>2 DEF GrantIInv, StoresTyped
    <3>4. QED
      BY <3>1, <3>3 DEF GrantIInv, NoneSoFar
  <2>6. QED
    BY <2>4, <2>5 DEF GrantIInv
<1>5. ASSUME NEW h \in Handlers, NEW lost \in BOOLEAN, DeleteGrant(h, lost)
      PROVE  GrantIInv'
  <2> DEFINE k == handler[h].key
  <2>1. handler[h] \in Handling /\ k \in Entitlements
    BY <1>5 DEF DeleteGrant, GrantIInv, StoresTyped, Resting, Handling
  <2>2. grant' = [grant EXCEPT ![k] = 0]
    BY <1>5 DEF DeleteGrant
  <2>3. grant' \in [Entitlements -> Nat] /\ \A e \in Entitlements : grant[e] = 0 => grant'[e] = 0
    BY <2>1, <2>2 DEF GrantIInv, StoresTyped
  <2>4. PICK r \in Handling \cup {Resting} :
          /\ handler' = [handler EXCEPT ![h] = r]
          /\ r # Resting => r.pc = "deleted" /\ r.gone = handler[h].gone /\ r.key = k
    <3>1. [handler[h] EXCEPT !.pc = "deleted"] \in Handling
      BY <2>1 DEF Handling
    <3>2. CASE lost
      BY <1>5, <3>2 DEF DeleteGrant, Rests
    <3>3. CASE ~lost
      BY <1>5, <2>1, <3>1, <3>3 DEF DeleteGrant, Becomes, GrantIInv, StoresTyped, Handling
    <3>4. QED
      BY <3>2, <3>3
  <2>5. handler'[h] = r /\ \A x \in Handlers \ {h} : handler'[x] = handler[x]
    BY <2>4 DEF GrantIInv, StoresTyped
  <2>6. StoresTyped'
    BY <2>3, <2>4 DEF GrantIInv, StoresTyped
  <2>7. NoneSoFar'
    <3> SUFFICES ASSUME NEW x \in Handlers, handler'[x] # Resting, handler'[x].gone
                 PROVE  /\ grant'[handler'[x].key] = 0
                        /\ handler'[x].pc = "got" => ~handler'[x].present
                        /\ handler'[x].pc # "allowed"
      BY DEF NoneSoFar
    <3>1. CASE x = h
      BY <2>1, <2>3, <2>4, <2>5, <3>1, RestingApart DEF GrantIInv, NoneSoFar
    <3>2. CASE x # h
      <4>1. handler'[x] = handler[x] /\ handler[x].key \in Entitlements
        BY <2>5, <3>2 DEF GrantIInv, StoresTyped, Handling
      <4>2. QED
        BY <2>3, <4>1 DEF GrantIInv, NoneSoFar
    <3>3. QED
      BY <3>1, <3>2
  <2>8. QED
    BY <2>6, <2>7 DEF GrantIInv
<1>6. ASSUME NEW h \in Handlers,
             \/ ReadFails(h) \/ WriteFails(h) \/ Answer(h) \/ Invalidate(h)
             \/ ProjectMember(h) \/ RemoveMember(h)
      PROVE  GrantIInv'
  <2>1. grant' = grant
    BY <1>6 DEF ReadFails, WriteFails, Answer, Invalidate, ProjectMember, RemoveMember, grantStore
  <2>2. handler[h] # Resting
    BY <1>6 DEF ReadFails, WriteFails, Answer, Invalidate, ProjectMember, RemoveMember, Resting
  <2>3. Rests(h) \/ Becomes(h, "denied") \/ Becomes(h, "project") \/ Becomes(h, "untuple")
    BY <1>6 DEF ReadFails, WriteFails, Answer, Invalidate, ProjectMember, RemoveMember
  <2>4. QED
    BY <2>1, <2>2, <2>3, Ends, GoesOn
<1>7. ASSUME NEW w \in Workers, WorkerRestart(w)
      PROVE  GrantIInv'
  BY <1>7 DEF WorkerRestart, grantStore, GrantIInv, StoresTyped, NoneSoFar
<1>8. CASE Second
  <2>1. handler' = handler /\ grant' = [k \in Entitlements |-> Down(grant[k])]
    BY <1>8 DEF Second
  <2>2. grant' \in [Entitlements -> Nat] /\ \A e \in Entitlements : grant[e] = 0 => grant'[e] = 0
    BY <2>1 DEF Down, GrantIInv, StoresTyped
  <2>3. \A h \in Handlers : handler[h] # Resting => handler[h].key \in Entitlements
    BY DEF GrantIInv, StoresTyped, Handling
  <2>4. QED
    BY <2>1, <2>2, <2>3 DEF GrantIInv, StoresTyped, NoneSoFar
<1>9. CASE UNCHANGED grantVars
  BY <1>9 DEF grantVars, GrantIInv, StoresTyped, NoneSoFar
<1>10. QED
  BY <1>1, <1>2, <1>3, <1>4, <1>5, <1>6, <1>7, <1>8, <1>9 DEF GrantNext, GrantReply

\* has_active_grant never serves a revoked or expired grant: a request is
\* allowed only if the grant was stored at some moment after it was asked,
\* whatever the workers have cached, and whichever call fails or restarts.
THEOREM RevokedNeverServedCorrect == GrantSpec => []RevokedNeverServed
<1>1. GrantInit => GrantIInv
  BY DEF GrantInit, GrantIInv, StoresTyped, NoneSoFar
<1>2. GrantIInv /\ [GrantNext]_grantVars => GrantIInv'
  BY GrantStep
<1>3. GrantIInv => RevokedNeverServed
  BY DEF GrantIInv, NoneSoFar, RevokedNeverServed, Resting
<1>4. QED
  BY <1>1, <1>2, <1>3, PTL DEF GrantSpec

---------------------------------------------------------------------------
(* The caches of absences *)

\* A cache holds one marker a key, within its size.
CacheOK(c) ==
  /\ c \in Seq(Marker) /\ Len(c) <= CacheSize
  /\ \A i, j \in 1 .. Len(c) : c[i].key = c[j].key => i = j

CachesIInv ==
  /\ StoresTyped /\ tuple \in [Entitlements -> Nat]
  /\ absent \in [Workers -> Seq(Marker)] /\ \A w \in Workers : CacheOK(absent[w])

Gone(c, k, d) ==
  /\ CacheOK(d) /\ Len(d) <= Len(c) /\ \A i \in 1 .. Len(d) : d[i].key # k
  /\ Places(c, k) # {} => Len(d) = Len(c) - 1

LEMMA WithoutGone ==
  ASSUME NEW c, CacheOK(c), NEW k
  PROVE  Gone(c, k, Without(c, k))
<1> DEFINE d == Without(c, k)
<1>1. c \in Seq(Marker) /\ Len(c) \in Nat /\ Len(c) <= CacheSize
  BY DEF CacheOK
<1>2. CASE Places(c, k) = {}
  <2>1. d = c
    BY <1>2 DEF Without
  <2>2. QED
    BY <1>1, <1>2, <2>1 DEF Places, Gone
<1>3. CASE Places(c, k) # {}
  <2>1. PICK p \in Places(c, k) : d = [i \in 1 .. Len(c) - 1 |-> c[IF i < p THEN i ELSE i + 1]]
    BY <1>3 DEF Without
  <2>2. p \in 1 .. Len(c) /\ c[p].key = k /\ Len(c) - 1 \in Nat
    BY <1>1, <2>1 DEF Places
  <2>3. \A i \in 1 .. Len(c) - 1 : /\ (IF i < p THEN i ELSE i + 1) \in 1 .. Len(c)
                                   /\ (IF i < p THEN i ELSE i + 1) # p
    BY <1>1, <2>2
  <2>4. \A i \in 1 .. Len(c) - 1 : d[i] = c[IF i < p THEN i ELSE i + 1] /\ d[i] \in Marker
    BY <1>1, <2>1, <2>3
  <2>5. d \in Seq(Marker) /\ Len(d) = Len(c) - 1
    BY <1>1, <2>1, <2>2, <2>4
  <2> HIDE DEF d
  <2>6. \A i \in 1 .. Len(d) : d[i].key # k
    BY <2>2, <2>3, <2>4, <2>5 DEF CacheOK
  <2>7. \A i, j \in 1 .. Len(d) : d[i].key = d[j].key => i = j
    <3> SUFFICES ASSUME NEW i \in 1 .. Len(d), NEW j \in 1 .. Len(d), d[i].key = d[j].key
                 PROVE  i = j
      OBVIOUS
    <3> DEFINE a == IF i < p THEN i ELSE i + 1
               b == IF j < p THEN j ELSE j + 1
    <3>1. a \in 1 .. Len(c) /\ b \in 1 .. Len(c) /\ d[i] = c[a] /\ d[j] = c[b]
      BY <2>3, <2>4, <2>5
    <3>2. a = b
      BY <3>1 DEF CacheOK
    <3>3. QED
      BY <2>2, <2>5, <3>2
  <2>8. Len(d) <= CacheSize /\ Len(d) <= Len(c)
    BY <1>1, <2>5, GrantAssumption
  <2>9. Gone(c, k, d)
    BY <2>5, <2>6, <2>7, <2>8 DEF CacheOK, Gone
  <2>10. QED
    BY <2>9 DEF d
<1>4. QED
  BY <1>2, <1>3

\* A marker put at the end, where its key is not yet.
Put(c, m, d) ==
  /\ d \in Seq(Marker) /\ Len(d) = Len(c) + 1
  /\ \A i, j \in 1 .. Len(d) : d[i].key = d[j].key => i = j

LEMMA AppendPut ==
  ASSUME NEW c, CacheOK(c), NEW m \in Marker, \A i \in 1 .. Len(c) : c[i].key # m.key
  PROVE  Put(c, m, Append(c, m))
<1>1. c \in Seq(Marker) /\ Len(c) \in Nat
  BY DEF CacheOK
<1>2. /\ Append(c, m) \in Seq(Marker) /\ Len(Append(c, m)) = Len(c) + 1
      /\ Append(c, m)[Len(c) + 1] = m
      /\ \A i \in 1 .. Len(c) : Append(c, m)[i] = c[i]
  BY <1>1
<1> DEFINE d == Append(c, m)
<1> HIDE DEF d
<1>3. \A i, j \in 1 .. Len(d) : d[i].key = d[j].key => i = j
  BY <1>1, <1>2 DEF CacheOK, d
<1>4. QED
  BY <1>2, <1>3 DEF Put, d

LEMMA GetAbsentOK ==
  ASSUME NEW c, CacheOK(c), NEW k
  PROVE  CacheOK(GetAbsent(c, k))
<1>1. Gone(c, k, Without(c, k)) /\ c \in Seq(Marker) /\ Len(c) \in Nat /\ Len(c) <= CacheSize
  BY WithoutGone DEF CacheOK
<1>2. CASE Fresh(c, k)
  <2>1. PICK p \in Places(c, k) : GetAbsent(c, k) = Append(Without(c, k), c[p])
    BY <1>2 DEF GetAbsent, Fresh
  <2>2. c[p] \in Marker /\ c[p].key = k /\ Places(c, k) # {}
    BY <1>1, <2>1 DEF Places
  <2>3. Put(Without(c, k), c[p], GetAbsent(c, k)) /\ Len(Without(c, k)) = Len(c) - 1
    BY <1>1, <2>1, <2>2, AppendPut DEF Gone
  <2>4. QED
    BY <1>1, <2>3 DEF Put, CacheOK
<1>3. CASE ~Fresh(c, k)
  BY <1>1, <1>3 DEF GetAbsent, Gone
<1>4. QED
  BY <1>2, <1>3

LEMMA MarkAbsentOK ==
  ASSUME NEW c, CacheOK(c), NEW k \in Entitlements
  PROVE  CacheOK(MarkAbsent(c, k))
<1> DEFINE m == [key |-> k, age |-> 0]
           d == Append(Without(c, k), m)
<1>1. Gone(c, k, Without(c, k)) /\ Len(c) \in Nat /\ Len(c) <= CacheSize
  BY WithoutGone DEF CacheOK
<1>2. m \in Marker /\ m.key = k
  BY GrantAssumption DEF Marker
<1> HIDE DEF m
<1>3. Put(Without(c, k), m, d)
  BY <1>1, <1>2, AppendPut DEF Gone
<1>4. /\ d \in Seq(Marker) /\ Len(d) \in Nat /\ Len(d) > 0 /\ Len(d) <= CacheSize + 1
      /\ CacheSize \in Nat
  <2>1. Without(c, k) \in Seq(Marker) /\ Len(Without(c, k)) \in Nat
        /\ Len(Without(c, k)) <= CacheSize
    BY <1>1 DEF Gone, CacheOK
  <2>2. QED
    BY <1>3, <2>1, GrantAssumption DEF Put
<1>5. MarkAbsent(c, k) = IF Len(d) > CacheSize THEN Tail(d) ELSE d
  BY DEF MarkAbsent, m
<1>6. \A i, j \in 1 .. Len(d) : d[i].key = d[j].key => i = j
  BY <1>3 DEF Put
<1> HIDE DEF d
<1>7. CASE Len(d) > CacheSize
  <2>1. /\ Tail(d) \in Seq(Marker) /\ Len(Tail(d)) = Len(d) - 1
        /\ \A i \in 1 .. Len(Tail(d)) : Tail(d)[i] = d[i + 1]
    BY <1>4
  <2>2. \A i, j \in 1 .. Len(Tail(d)) : Tail(d)[i].key = Tail(d)[j].key => i = j
    BY <1>4, <1>6, <2>1
  <2>3. QED
    BY <1>4, <1>5, <1>7, <2>1, <2>2 DEF CacheOK
<1>8. CASE ~(Len(d) > CacheSize)
  BY <1>4, <1>5, <1>6, <1>8 DEF CacheOK
<1>9. QED
  BY <1>7, <1>8

LEMMA OlderOK ==
  ASSUME NEW c, CacheOK(c)
  PROVE  CacheOK([i \in 1 .. Len(c) |-> Older(c[i])])
<1> DEFINE d == [i \in 1 .. Len(c) |-> Older(c[i])]
<1>1. c \in Seq(Marker) /\ Len(c) \in Nat
  BY DEF CacheOK
<1>2. \A i \in 1 .. Len(c) : Older(c[i]) \in Marker /\ Older(c[i]).key = c[i].key
  <2>1. ASSUME NEW m \in Marker PROVE Older(m) \in Marker /\ Older(m).key = m.key
    <3>1. m.age \in 0 .. CacheTtl + 1 /\ m.key \in Entitlements /\ CacheTtl \in Nat
      BY GrantAssumption DEF Marker
    <3>2. PICK a \in 0 .. CacheTtl + 1 : Older(m) = [m EXCEPT !.age = a]
      <4>1. CASE m.age > CacheTtl
        BY <3>1, <4>1 DEF Older
      <4>2. CASE ~(m.age > CacheTtl)
        <5>1. m.age + 1 \in 0 .. CacheTtl + 1
          BY <3>1, <4>2
        <5>2. Older(m) = [m EXCEPT !.age = m.age + 1]
          BY <4>2 DEF Older
        <5>3. QED
          BY <5>1, <5>2
      <4>3. QED
        BY <4>1, <4>2
    <3>3. QED
      BY <3>1, <3>2 DEF Marker
  <2>2. QED
    BY <1>1, <2>1
<1>3. d \in Seq(Marker) /\ Len(d) = Len(c) /\ \A i \in 1 .. Len(d) : d[i].key = c[i].key
  BY <1>1, <1>2
<1> HIDE DEF d
<1>4. CacheOK(d)
  BY <1>3 DEF CacheOK
<1>5. QED
  BY <1>4 DEF d

\* The caches keep their order through every step.
LEMMA CachesStep ==
  ASSUME CachesIInv, StoresTyped', [GrantNext]_grantVars
  PROVE  CachesIInv'
<1> DEFINE Caches == {c \in Seq(Marker) : CacheOK(c)}
<1>1. absent \in [Workers -> Caches]
  BY DEF CachesIInv
<1>2. \A h \in Handlers : WorkerOf[h] \in Workers
  BY GrantAssumption
<1>3. \A c \in Caches, k \in Entitlements :
        GetAbsent(c, k) \in Caches /\ MarkAbsent(c, k) \in Caches /\ Without(c, k) \in Caches
  BY GetAbsentOK, MarkAbsentOK, WithoutGone DEF CacheOK, Gone
<1>4. << >> \in Caches
  BY GrantAssumption DEF CacheOK
<1>5. \A h \in Handlers : handler[h] # Resting =>
        handler[h].key \in Entitlements /\ handler[h].ttl \in Nat
  <2>1. GrantTtls \cup {0} \subseteq Nat
    BY GrantAssumption
  <2>2. \A r \in Handling : r.key \in Entitlements /\ r.ttl \in GrantTtls \cup {0}
    BY DEF Handling
  <2>3. \A h \in Handlers : handler[h] # Resting => handler[h] \in Handling
    BY DEF CachesIInv, StoresTyped
  <2>4. QED
    BY <2>1, <2>2, <2>3
<1> HIDE DEF Caches
<1>6. SUFFICES tuple' \in [Entitlements -> Nat] /\ absent' \in [Workers -> Caches]
  BY DEF CachesIInv, Caches
<1>7. ASSUME NEW h \in Handlers, NEW k \in Entitlements, AskGrant(h, k)
      PROVE  tuple' = tuple /\ absent' \in [Workers -> Caches]
  BY <1>1, <1>2, <1>3, <1>7 DEF AskGrant, grantStore
<1>8. ASSUME NEW h \in Handlers, ConcludeGrant(h) \/ Invalidate(h)
      PROVE  tuple' = tuple /\ absent' \in [Workers -> Caches]
  <2>1. handler[h] # Resting
    BY <1>8 DEF ConcludeGrant, Invalidate, Resting
  <2>2. QED
    BY <1>1, <1>2, <1>3, <1>5, <1>8, <2>1 DEF ConcludeGrant, Invalidate, grantStore
<1>9. ASSUME NEW h \in Handlers, ProjectMember(h) \/ RemoveMember(h)
      PROVE  tuple' \in [Entitlements -> Nat] /\ absent' = absent
  <2>1. handler[h] # Resting
    BY <1>9 DEF ProjectMember, RemoveMember, Resting
  <2>2. QED
    BY <1>5, <1>9, <2>1 DEF ProjectMember, RemoveMember, CachesIInv
<1>10. ASSUME NEW h \in Handlers, NEW k \in Entitlements, NEW lost \in BOOLEAN,
              \/ ReadGrant(h) \/ Answer(h) \/ SetGrant(h, lost) \/ DeleteGrant(h, lost)
              \/ ReadFails(h) \/ WriteFails(h) \/ StartIssue(h, k) \/ StartRevoke(h, k)
       PROVE  tuple' = tuple /\ absent' = absent
  BY <1>10 DEF ReadGrant, Answer, SetGrant, DeleteGrant, ReadFails, WriteFails, StartIssue,
     StartRevoke, grantStore
<1>11. ASSUME NEW w \in Workers, WorkerRestart(w)
       PROVE  tuple' = tuple /\ absent' \in [Workers -> Caches]
  BY <1>1, <1>4, <1>11 DEF WorkerRestart, grantStore
<1>12. CASE Second
  <2>1. \A c \in Caches : [i \in 1 .. Len(c) |-> Older(c[i])] \in Caches
    BY OlderOK DEF Caches, CacheOK
  <2>2. absent' \in [Workers -> Caches]
    BY <1>1, <1>12, <2>1 DEF Second
  <2>3. tuple' \in [Entitlements -> Nat]
    BY <1>12 DEF Second, Down, CachesIInv
  <2>4. QED
    BY <2>2, <2>3
<1>13. CASE UNCHANGED grantVars
  BY <1>1, <1>13 DEF grantVars, CachesIInv
<1>14. QED
  <2>1. ASSUME NEW h \in Handlers, NEW k \in Entitlements,
               \/ AskGrant(h, k) \/ StartIssue(h, k) \/ StartRevoke(h, k)
        PROVE  tuple' \in [Entitlements -> Nat] /\ absent' \in [Workers -> Caches]
    BY <1>1, <1>7, <1>10, <2>1 DEF CachesIInv
  <2>2. ASSUME NEW h \in Handlers, NEW lost \in BOOLEAN,
               \/ ReadGrant(h) \/ Answer(h) \/ SetGrant(h, lost) \/ DeleteGrant(h, lost)
               \/ ReadFails(h) \/ WriteFails(h)
        PROVE  tuple' = tuple /\ absent' = absent
    BY <2>2 DEF ReadGrant, Answer, SetGrant, DeleteGrant, ReadFails, WriteFails, grantStore
  <2>3. QED
    BY <1>1, <1>8, <1>9, <1>11, <1>12, <1>13, <2>1, <2>2
       DEF GrantNext, GrantReply, CachesIInv

\* Every variable of the grants has its type: a cache holds one marker a key,
\* within its size (grant_cache.py).
LEMMA GrantTypeCorrect == GrantSpec => []GrantTypeOK
<1>1. GrantInit => GrantIInv /\ CachesIInv
  <2>1. << >> \in Seq(Marker) /\ CacheOK(<< >>)
    BY GrantAssumption DEF CacheOK
  <2>2. QED
    BY <2>1 DEF GrantInit, GrantIInv, StoresTyped, NoneSoFar, CachesIInv
<1>2. GrantIInv /\ CachesIInv /\ [GrantNext]_grantVars => (GrantIInv /\ CachesIInv)'
  BY GrantStep, CachesStep DEF GrantIInv
<1>3. CachesIInv => GrantTypeOK
  BY DEF CachesIInv, CacheOK, StoresTyped, GrantTypeOK
<1>4. QED
  BY <1>1, <1>2, <1>3, PTL DEF GrantSpec

---------------------------------------------------------------------------
(* What a daemon of the playbook carries *)

\* The least of a set of naturals: no descending chain, no induction.
Least(S) == CHOOSE i \in S : \A k \in S : i <= k

LEMMA LeastIn ==
  ASSUME NEW S, S \subseteq Nat, S # {}
  PROVE  Least(S) \in S /\ \A k \in S : Least(S) <= k
<1> DEFINE R == {ss \in Nat \X Nat : ss[1] < ss[2]}
<1>1. IsWellFoundedOn(R, Nat)
  BY NatLessThanWellFounded DEF OpToRel
<1>2. PICK x \in S : \A y \in S : <<y, x>> \notin R
  <2> HIDE DEF R
  <2>1. QED
    BY <1>1, WFMin
<1>3. ASSUME NEW y \in S PROVE x <= y
  <2>1. x \in Nat /\ y \in Nat
    OBVIOUS
  <2>2. ~(y < x)
    <3>1. y < x => <<y, x>> \in R
      BY <2>1
    <3>2. QED
      BY <1>2, <3>1
  <2>3. QED
    BY <2>1, <2>2
<1>4. QED
  BY <1>3 DEF Least

\* The alert a daemon considers names a subject.
Due(st, k) == st[Least(k.alerts)]

Busy == {"expire", "decide", "claim", "record", "freeze"}

\* The alert under consideration leaves the hand when it is counted.
InHand(k) == IF k.pc \in {"asleep", "next"} THEN k.alerts ELSE k.alerts \ {Least(k.alerts)}

\* The record at position i is still to be counted.
Ahead(k, i) == k.cursor # NoCursor /\ (i > k.cursor \/ i \in InHand(k))

\* A daemon carries alerts behind its cursor; the window it acts on had
\* grounds when its count calls for a response; it responds only then, and
\* freezes after the incident.
Carries(st, k) ==
  /\ k.cursor \in NoCursor .. Len(st)
  /\ k.alerts \subseteq 1 .. Len(st) /\ Cardinality(k.alerts) <= AlertLimit
  /\ \A i \in k.alerts : st[i] # Other /\ i <= k.cursor
Counted(st, gr, k) ==
  k.pc \in Busy => k.alerts # {} /\ (Calls(Due(st, k), k.count) => gr[Due(st, k)] # {})
DueIn(st, k) == k.pc \in {"claim", "record", "freeze"} => Calls(Due(st, k), k.count)
Noted(st, log, k) == k.pc = "freeze" => Due(st, k) \in log
Sound(st, gr, log, k) ==
  k \in Daemon /\ Carries(st, k) /\ Counted(st, gr, k) /\ DueIn(st, k) /\ Noted(st, log, k)

log == incidents \cup unrecorded

StoresTypes ==
  /\ stream \in Seq(Event)
  /\ window \in [Subjects -> [count : Nat, left : {NoExpiry} \cup (0 .. Window)]]
  /\ claim \in [Subjects -> 0 .. Cooldown]
  /\ frozen \subseteq Subjects /\ incidents \subseteq Subjects /\ unrecorded \subseteq Subjects
  /\ faults \in 0 .. MaxFaults
  /\ tally \in [Subjects -> SUBSET Read] /\ grounds \in [Subjects -> SUBSET Read]

DaemonsSound ==
  daemon \in [Daemons -> Daemon] /\ \A d \in Daemons : Sound(stream, grounds, log, daemon[d])

\* A window is as long as its tally; the grounds of a response suffice.
Tallied ==
  \A s \in Subjects :
    /\ IsFiniteSet(tally[s]) /\ tally[s] \subseteq Reads(s)
    /\ window[s].count = Cardinality(tally[s])
Suffices(s) ==
  /\ grounds[s] \subseteq Reads(s)
  /\ Cardinality(grounds[s]) >= (IF s \in SingleShot THEN 1 ELSE BurstThreshold)
Grounded == \A s \in Subjects : grounds[s] = {} \/ Suffices(s)

\* No daemon is still to count what it has counted with this cursor.
Unread(d, k, t) == \A s \in Subjects, i \in Nat : Ahead(k, i) => <<d, k.boot, i>> \notin t[s]
AllUnread == \A d \in Daemons : Unread(d, daemon[d], tally)

\* A window without an end: its daemon is about to set one.
Endless(wn, s) == wn[s].count > 0 /\ wn[s].left = NoExpiry
Ending(st, dm, wn, f) ==
  \A s \in Subjects : Endless(wn, s) =>
    f > 0 \/ \E d \in Daemons : dm[d].pc = "expire" /\ Due(st, dm[d]) = s

Warranted == (\A s \in frozen : grounds[s] # {}) /\ frozen \subseteq log

PlaybookIInv ==
  /\ StoresTypes /\ DaemonsSound /\ Tallied /\ Grounded /\ AllUnread /\ Warranted
  /\ Ending(stream, daemon, window, faults)

---------------------------------------------------------------------------
(* What a step leaves in order *)

\* A stream that another one goes on from.
Extends(st, st2) == Len(st) <= Len(st2) /\ \A i \in 1 .. Len(st) : st2[i] = st[i]

\* Once there are grounds, there are grounds.
Stays(gr, gr2) == \A s \in Subjects : gr[s] # {} => gr2[s] # {}

\* The alert under consideration is one of those a daemon carries.
LEMMA LeastCarried ==
  ASSUME NEW st \in Seq(Event), NEW k \in Daemon, Carries(st, k), k.alerts # {}
  PROVE  /\ Least(k.alerts) \in k.alerts /\ Least(k.alerts) \in 1 .. Len(st)
         /\ Due(st, k) \in Subjects
<1>1. Least(k.alerts) \in k.alerts
  BY LeastIn DEF Daemon
<1>2. Least(k.alerts) \in 1 .. Len(st) /\ st[Least(k.alerts)] # Other
  BY <1>1 DEF Carries
<1>3. Due(st, k) \in Subjects
  BY <1>2 DEF Due, Event
<1>4. QED
  BY <1>1, <1>2, <1>3

\* What a daemon carries stays right while the rest goes on.
LEMMA SoundKept ==
  ASSUME NEW st \in Seq(Event), NEW st2 \in Seq(Event), Extends(st, st2),
         NEW gr, NEW gr2, Stays(gr, gr2), NEW lg, NEW lg2, lg \subseteq lg2,
         NEW k, Sound(st, gr, lg, k)
  PROVE  Sound(st2, gr2, lg2, k) /\ (k.alerts # {} => Due(st2, k) = Due(st, k))
<1>1. Len(st) \in Nat /\ Len(st2) \in Nat /\ Len(st) <= Len(st2) /\ k \in Daemon
      /\ Carries(st, k)
  BY DEF Extends, Sound
<1>2. k.alerts \subseteq 1 .. Len(st) /\ \A i \in k.alerts : st2[i] = st[i]
  BY DEF Sound, Carries, Extends
<1>3. Carries(st2, k)
  BY <1>1, <1>2 DEF Carries
<1>4. k.alerts # {} => Least(k.alerts) \in k.alerts /\ Due(st, k) \in Subjects
  BY <1>1, LeastCarried
<1>5. k.alerts # {} => Due(st2, k) = Due(st, k)
  BY <1>2, <1>4 DEF Due
<1>6. Counted(st2, gr2, k)
  BY <1>4, <1>5 DEF Sound, Counted, Stays
<1>7. DueIn(st2, k) /\ Noted(st2, lg2, k)
  BY <1>5 DEF Sound, Counted, DueIn, Noted, Busy
<1>8. QED
  BY <1>1, <1>3, <1>5, <1>6, <1>7 DEF Sound

\* Nothing is taken back: the stream, the incidents and the grounds grow, and
\* no cursor is numbered again.
Onward ==
  /\ StoresTypes' /\ Extends(stream, stream') /\ log \subseteq log'
  /\ Stays(grounds, grounds') /\ faults' >= faults
  /\ \A d \in Daemons : daemon'[d].boot >= daemon[d].boot

\* What could be read can still be.
LEMMA ReadsRise ==
  ASSUME PlaybookIInv, Onward, NEW s, daemon' \in [Daemons -> Daemon]
  PROVE  Reads(s) \subseteq Reads(s)'
<1> SUFFICES ASSUME NEW r \in Read, r[2] <= daemon[r[1]].boot, r[3] \in 1 .. Len(stream),
                    stream[r[3]] = s
             PROVE  /\ r[2] <= daemon'[r[1]].boot
                    /\ r[3] \in 1 .. Len(stream') /\ stream'[r[3]] = s
  BY DEF Reads
<1>1. r[1] \in Daemons /\ r[2] \in Nat /\ r[3] \in Nat
  BY DEF Read
<1>2. daemon[r[1]].boot \in Nat /\ daemon'[r[1]].boot \in Nat
  BY <1>1 DEF PlaybookIInv, DaemonsSound, Daemon
<1>3. r[2] <= daemon'[r[1]].boot
  BY <1>1, <1>2 DEF Onward
<1>4. Len(stream) \in Nat /\ Len(stream') \in Nat
  BY DEF PlaybookIInv, Onward, StoresTypes
<1>5. r[3] \in 1 .. Len(stream') /\ stream'[r[3]] = s
  BY <1>4 DEF Onward, Extends
<1>6. QED
  BY <1>3, <1>5

\* One daemon goes on as k.
Becoming(d, k) ==
  /\ daemon' = [daemon EXCEPT ![d] = k] /\ Sound(stream', grounds', log', k)
  /\ k.boot >= daemon[d].boot

LEMMA Others ==
  ASSUME PlaybookIInv, NEW d \in Daemons, NEW k, Becoming(d, k)
  PROVE  /\ daemon' \in [Daemons -> Daemon] /\ daemon'[d] = k
         /\ \A x \in Daemons \ {d} : daemon'[x] = daemon[x]
         /\ \A x \in Daemons : daemon'[x].boot >= daemon[x].boot
<1>1. daemon \in [Daemons -> Daemon] /\ k \in Daemon
  BY DEF PlaybookIInv, DaemonsSound, Becoming, Sound
<1>2. /\ daemon' \in [Daemons -> Daemon] /\ daemon'[d] = k
      /\ \A x \in Daemons \ {d} : daemon'[x] = daemon[x]
  BY <1>1 DEF Becoming
<1>3. \A x \in Daemons : daemon[x].boot \in Nat
  BY <1>1 DEF Daemon
<1>4. QED
  BY <1>2, <1>3 DEF Becoming

LEMMA DaemonsKept ==
  ASSUME PlaybookIInv, Onward, NEW d \in Daemons, NEW k, Becoming(d, k)
  PROVE  DaemonsSound'
<1>1. stream \in Seq(Event) /\ stream' \in Seq(Event)
  BY DEF PlaybookIInv, StoresTypes, Onward
<1>2. \A x \in Daemons : Sound(stream', grounds', log', daemon[x])
  BY <1>1, SoundKept DEF PlaybookIInv, DaemonsSound, Onward
<1>3. \A x \in Daemons : Sound(stream', grounds', log', daemon'[x])
  BY <1>2, Others DEF Becoming
<1>4. QED
  BY <1>3, Others DEF DaemonsSound

\* Windows that end, or whose daemon stays where it is.
LEMMA EndsKept ==
  ASSUME PlaybookIInv, Onward, NEW d \in Daemons, NEW k, Becoming(d, k),
         \A s \in Subjects : Endless(window', s) => Endless(window, s),
         \/ daemon[d].pc # "expire" \/ faults' > 0
         \/ ~Endless(window', Due(stream, daemon[d]))
  PROVE  Ending(stream', daemon', window', faults')
<1> SUFFICES ASSUME NEW s \in Subjects, Endless(window', s), ~(faults' > 0)
             PROVE  \E x \in Daemons : daemon'[x].pc = "expire" /\ Due(stream', daemon'[x]) = s
  BY DEF Ending
<1>1. faults \in Nat /\ faults' \in Nat /\ ~(faults > 0)
  BY DEF PlaybookIInv, StoresTypes, Onward
<1>2. PICK x \in Daemons : daemon[x].pc = "expire" /\ Due(stream, daemon[x]) = s
  BY <1>1 DEF PlaybookIInv, Ending
<1>3. x # d
  BY <1>2
<1>4. Sound(stream, grounds, log, daemon[x]) /\ daemon[x].alerts # {}
  BY <1>2 DEF PlaybookIInv, DaemonsSound, Sound, Counted, Busy
<1>5. Due(stream', daemon[x]) = s
  BY <1>2, <1>4, SoundKept DEF Onward, PlaybookIInv, StoresTypes
<1>6. daemon'[x] = daemon[x]
  BY <1>3, Others
<1>7. QED
  BY <1>2, <1>5, <1>6

\* The grounds of a response, and what was counted, stay what they were.
LEMMA GroundedKept ==
  ASSUME PlaybookIInv, Onward, grounds' = grounds, daemon' \in [Daemons -> Daemon]
  PROVE  Grounded'
<1>1. \A s : Reads(s) \subseteq Reads(s)'
  BY ReadsRise
<1>2. QED
  BY <1>1 DEF PlaybookIInv, Grounded, Suffices

LEMMA TalliedKept ==
  ASSUME PlaybookIInv, Onward, tally' = tally, daemon' \in [Daemons -> Daemon],
         \A s \in Subjects : window'[s].count = window[s].count
  PROVE  Tallied'
<1>1. \A s : Reads(s) \subseteq Reads(s)'
  BY ReadsRise
<1>2. QED
  BY <1>1 DEF PlaybookIInv, Tallied

\* A daemon is to count no more than before, or with a new cursor.
Fewer(old, k) ==
  \/ k.boot = old.boot /\ \A i \in Nat : Ahead(k, i) => Ahead(old, i)
  \/ k.boot > old.boot

LEMMA UnreadKept ==
  ASSUME PlaybookIInv, NEW d \in Daemons, NEW k, Becoming(d, k), Fewer(daemon[d], k),
         tally' = tally
  PROVE  AllUnread'
<1> SUFFICES ASSUME NEW x \in Daemons, NEW s \in Subjects, NEW i \in Nat,
                    Ahead(daemon'[x], i), <<x, daemon'[x].boot, i>> \in tally[s]
             PROVE  FALSE
  BY DEF AllUnread, Unread
<1>1. CASE x # d
  BY <1>1, Others DEF PlaybookIInv, AllUnread, Unread
<1>2. CASE x = d
  <2>1. daemon'[x] = k
    BY <1>2, Others
  <2>2. CASE k.boot = daemon[d].boot /\ Ahead(daemon[d], i)
    BY <1>2, <2>1, <2>2 DEF PlaybookIInv, AllUnread, Unread
  <2>3. CASE k.boot > daemon[d].boot
    <3>1. <<x, k.boot, i>> \in Reads(s)
      BY <2>1 DEF PlaybookIInv, Tallied
    <3>2. k.boot <= daemon[d].boot
      BY <1>2, <3>1 DEF Reads
    <3>3. k.boot \in Nat /\ daemon[d].boot \in Nat
      BY DEF Becoming, Sound, Daemon, PlaybookIInv, DaemonsSound
    <3>4. QED
      BY <2>3, <3>2, <3>3
  <2>4. QED
    BY <2>1, <2>2, <2>3 DEF Fewer
<1>3. QED
  BY <1>1, <1>2

\* One daemon goes on, counts nothing, and leaves the windows' counts alone.
LEMMA Moves ==
  ASSUME PlaybookIInv, Onward, NEW d \in Daemons, NEW k, Becoming(d, k), Fewer(daemon[d], k),
         tally' = tally, grounds' = grounds,
         \A s \in Subjects : window'[s].count = window[s].count,
         \A s \in Subjects : Endless(window', s) => Endless(window, s),
         \/ daemon[d].pc # "expire" \/ faults' > 0
         \/ ~Endless(window', Due(stream, daemon[d])),
         Warranted'
  PROVE  PlaybookIInv'
<1>1. daemon' \in [Daemons -> Daemon]
  BY Others
<1>2. DaemonsSound' /\ Ending(stream', daemon', window', faults')
  BY DaemonsKept, EndsKept
<1>3. Tallied' /\ Grounded' /\ AllUnread'
  BY <1>1, TalliedKept, GroundedKept, UnreadKept
<1>4. QED
  BY <1>2, <1>3 DEF Onward, PlaybookIInv

\* A step of one daemon that touches neither the stream nor a window.
Within(d) ==
  /\ d \in Daemons /\ stream' = stream /\ window' = window /\ reads' = reads
  /\ StoresTypes' /\ log \subseteq log' /\ faults' >= faults /\ Warranted'
  /\ daemon[d].pc # "expire" \/ faults' > 0

LEMMA MovesWithin ==
  ASSUME PlaybookIInv, NEW d, Within(d), NEW k,
         daemon' = [daemon EXCEPT ![d] = k], Sound(stream, grounds, log', k),
         k.boot = daemon[d].boot,
         \A i \in Nat : Ahead(k, i) => Ahead(daemon[d], i)
  PROVE  PlaybookIInv'
<1>1. tally' = tally /\ grounds' = grounds /\ stream' = stream /\ window' = window
  BY DEF Within, reads
<1>2. k.boot \in Nat /\ d \in Daemons
  BY DEF Sound, Daemon, Within
<1>3. Becoming(d, k) /\ Fewer(daemon[d], k)
  BY <1>1, <1>2 DEF Becoming, Fewer
<1>4. Onward
  <2>1. Extends(stream, stream') /\ Stays(grounds, grounds')
    BY <1>1 DEF Extends, Stays, PlaybookIInv, StoresTypes
  <2>2. QED
    BY <1>2, <1>3, <2>1, Others DEF Onward, Within
<1>5. QED
  BY <1>1, <1>2, <1>3, <1>4, Moves DEF Within

---------------------------------------------------------------------------
(* What becomes of one daemon *)

LEMMA CarriesLess ==
  ASSUME NEW st \in Seq(Event), NEW k \in Daemon, Carries(st, k),
         NEW k2 \in Daemon, k2.alerts \subseteq k.alerts, k2.cursor = k.cursor
  PROVE  Carries(st, k2)
<1>1. IsFiniteSet(1 .. Len(st))
  BY FS_Interval
<1>2. IsFiniteSet(k.alerts)
  BY <1>1, FS_Subset DEF Carries
<1>3. /\ Cardinality(k2.alerts) \in Nat /\ Cardinality(k.alerts) \in Nat
      /\ Cardinality(k2.alerts) <= Cardinality(k.alerts)
  BY <1>2, FS_Subset, FS_CardinalityType
<1>4. QED
  BY <1>3, PlaybookAssumption DEF Carries

\* What a daemon goes on as: sound, and with nothing more to count.
GoesOnAs(st, gr, lg, k, q) ==
  /\ Sound(st, gr, lg, q) /\ q.cursor = k.cursor /\ q.boot = k.boot
  /\ \A i : Ahead(q, i) => Ahead(k, i)

\* The alert under consideration is done with.
Dropped(k) == [k EXCEPT !.pc = "next", !.alerts = @ \ {Least(k.alerts)}, !.count = 0]

LEMMA DroppedSound ==
  ASSUME NEW st \in Seq(Event), NEW gr, NEW lg, NEW k \in Daemon, Carries(st, k)
  PROVE  /\ GoesOnAs(st, gr, lg, k, Dropped(k))
         /\ k.alerts # {} => ~Ahead(Dropped(k), Least(k.alerts))
<1> DEFINE q == Dropped(k)
<1>1. /\ q \in Daemon /\ q.pc = "next" /\ q.alerts = k.alerts \ {Least(k.alerts)}
      /\ q.cursor = k.cursor /\ q.boot = k.boot
  BY DEF Dropped, Daemon
<1>2. Carries(st, q)
  BY <1>1, CarriesLess
<1>3. \A i : Ahead(q, i) => Ahead(k, i)
  BY <1>1 DEF Ahead, InHand
<1>4. Sound(st, gr, lg, q)
  BY <1>1, <1>2 DEF Sound, Counted, DueIn, Noted, Busy
<1>5. ASSUME k.alerts # {} PROVE ~Ahead(q, Least(k.alerts))
  <2>1. Least(k.alerts) \in k.alerts
    BY <1>5, LeastIn DEF Daemon
  <2>2. Least(k.alerts) <= k.cursor /\ Least(k.alerts) \in Int /\ k.cursor \in Int
    BY <2>1 DEF Carries, Daemon
  <2>3. QED
    BY <1>1, <2>2 DEF Ahead, InHand
<1>6. QED
  BY <1>1, <1>3, <1>4, <1>5 DEF GoesOnAs

\* It goes on with the alert, counted n times.
LEMMA WentOn ==
  ASSUME NEW st \in Seq(Event), NEW gr, NEW lg, NEW k \in Daemon, Carries(st, k),
         NEW n \in Nat, k.alerts # {}, NEW p \in Busy,
         Calls(Due(st, k), n) => gr[Due(st, k)] # {},
         p \in {"claim", "record", "freeze"} => Calls(Due(st, k), n),
         p = "freeze" => Due(st, k) \in lg
  PROVE  /\ GoesOnAs(st, gr, lg, k, [k EXCEPT !.pc = p, !.count = n])
         /\ ~Ahead([k EXCEPT !.pc = p, !.count = n], Least(k.alerts))
<1> DEFINE q == [k EXCEPT !.pc = p, !.count = n]
<1>1. /\ q \in Daemon /\ q.pc = p /\ q.alerts = k.alerts /\ q.cursor = k.cursor /\ q.count = n
      /\ q.boot = k.boot
  BY DEF Daemon, Busy
<1> HIDE DEF q
<1>2. Carries(st, q)
  BY <1>1, CarriesLess
<1>3. \A i : Ahead(q, i) => Ahead(k, i)
  BY <1>1 DEF Ahead, InHand, Busy
<1>4. Due(st, q) = Due(st, k)
  BY <1>1 DEF Due
<1>5. Counted(st, gr, q) /\ DueIn(st, q) /\ Noted(st, lg, q)
  BY <1>1, <1>4 DEF Counted, DueIn, Noted
<1>6. Sound(st, gr, lg, q)
  BY <1>1, <1>2, <1>5 DEF Sound
<1>7. Least(k.alerts) <= k.cursor /\ Least(k.alerts) \in Int /\ k.cursor \in Int
  <2>1. Least(k.alerts) \in k.alerts
    BY LeastIn DEF Daemon
  <2>2. QED
    BY <2>1 DEF Carries, Daemon
<1>8. ~Ahead(q, Least(k.alerts))
  BY <1>1, <1>7 DEF Ahead, InHand, Busy
<1>9. QED
  BY <1>1, <1>3, <1>6, <1>8 DEF q, GoesOnAs

---------------------------------------------------------------------------
(* The steps of a daemon *)

Has(d) ==
  /\ Current(d) = Least(daemon[d].alerts) /\ Current(d) \in daemon[d].alerts
  /\ Current(d) \in 1 .. Len(stream)
  /\ Subject(d) = Due(stream, daemon[d]) /\ Subject(d) \in Subjects

LEMMA At ==
  ASSUME PlaybookIInv, NEW d \in Daemons
  PROVE  /\ stream \in Seq(Event) /\ Len(stream) \in Nat
         /\ daemon[d] \in Daemon /\ Carries(stream, daemon[d])
         /\ Sound(stream, grounds, log, daemon[d])
         /\ daemon[d].alerts # {} => Has(d)
         /\ NextAlert(d) => daemon' = [daemon EXCEPT ![d] = Dropped(daemon[d])]
         /\ \A p : Goes(d, p) =>
              daemon' = [daemon EXCEPT ![d] = [daemon[d] EXCEPT !.pc = p, !.count = daemon[d].count]]
<1>1. /\ stream \in Seq(Event) /\ Len(stream) \in Nat
      /\ daemon[d] \in Daemon /\ Sound(stream, grounds, log, daemon[d])
      /\ daemon \in [Daemons -> Daemon]
  BY DEF PlaybookIInv, StoresTypes, DaemonsSound
<1>2. Carries(stream, daemon[d])
  BY <1>1 DEF Sound
<1>3. Current(d) = Least(daemon[d].alerts)
  BY DEF Current, Least
<1>4. daemon[d].alerts # {} => Has(d)
  BY <1>1, <1>2, <1>3, LeastCarried DEF Has, Subject, Due
<1>5. NextAlert(d) => daemon' = [daemon EXCEPT ![d] = Dropped(daemon[d])]
  BY <1>1, <1>3 DEF NextAlert, Dropped
<1>6. ASSUME NEW p, Goes(d, p)
      PROVE  daemon' = [daemon EXCEPT ![d] = [daemon[d] EXCEPT !.pc = p, !.count = daemon[d].count]]
  BY <1>1, <1>6 DEF Goes, Daemon
<1>7. QED
  BY <1>1, <1>2, <1>4, <1>5, <1>6

\* A daemon with an alert in hand.
LEMMA Considers ==
  ASSUME PlaybookIInv, NEW d \in Daemons, daemon[d].pc \in Busy
  PROVE  /\ Has(d) /\ daemon[d].count \in Nat
         /\ Calls(Subject(d), daemon[d].count) => grounds[Subject(d)] # {}
         /\ daemon[d].pc \in {"claim", "record", "freeze"} => Calls(Subject(d), daemon[d].count)
         /\ daemon[d].pc = "freeze" => Subject(d) \in log
<1>1. Has(d) /\ daemon[d] \in Daemon /\ Sound(stream, grounds, log, daemon[d])
  BY At DEF Sound, Counted
<1>2. QED
  BY <1>1 DEF Sound, Counted, DueIn, Noted, Has, Daemon

\* An alert is done with: nothing else is needed of the daemon.
LEMMA Drops ==
  ASSUME PlaybookIInv, NEW d, Within(d), NextAlert(d)
  PROVE  PlaybookIInv'
<1> DEFINE k == Dropped(daemon[d])
<1>1. d \in Daemons
  BY DEF Within
<1>2. daemon' = [daemon EXCEPT ![d] = k] /\ GoesOnAs(stream, grounds, log', daemon[d], k)
  BY <1>1, At, DroppedSound
<1>3. QED
  BY <1>2, MovesWithin DEF GoesOnAs

\* An alert goes through: the daemon must be allowed to go on.
LEMMA GoesThrough ==
  ASSUME PlaybookIInv, NEW d \in Daemons, daemon[d].pc \in Busy,
         NEW p \in Busy, Goes(d, p),
         p \in {"claim", "record", "freeze"} => Calls(Subject(d), daemon[d].count),
         p = "freeze" => Subject(d) \in log'
  PROVE  \E k : /\ daemon' = [daemon EXCEPT ![d] = k]
                /\ GoesOnAs(stream, grounds, log', daemon[d], k)
<1> DEFINE k == [daemon[d] EXCEPT !.pc = p, !.count = daemon[d].count]
<1>1. daemon' = [daemon EXCEPT ![d] = k] /\ stream \in Seq(Event) /\ daemon[d] \in Daemon
      /\ Carries(stream, daemon[d])
  BY At
<1>2. /\ daemon[d].count \in Nat /\ daemon[d].alerts # {} /\ Subject(d) = Due(stream, daemon[d])
      /\ Calls(Subject(d), daemon[d].count) => grounds[Subject(d)] # {}
  BY Considers DEF Has
<1>3. GoesOnAs(stream, grounds, log', daemon[d], k)
  <2>1. PICK q \in Daemon : q = daemon[d]
    BY <1>1
  <2>2. q.count \in Nat /\ q.alerts # {} /\ Carries(stream, q)
    BY <1>1, <1>2, <2>1
  <2>3. Calls(Due(stream, q), q.count) => grounds[Due(stream, q)] # {}
    BY <1>2, <2>1
  <2>4. /\ p \in {"claim", "record", "freeze"} => Calls(Due(stream, q), q.count)
        /\ p = "freeze" => Due(stream, q) \in log'
    BY <1>2, <2>1
  <2>5. GoesOnAs(stream, grounds, log', q, [q EXCEPT !.pc = p, !.count = q.count])
    BY <1>1, <2>2, <2>3, <2>4, WentOn
  <2>6. QED
    BY <2>1, <2>5
<1>4. QED
  BY <1>1, <1>3

LEMMA GoesThroughWithin ==
  ASSUME PlaybookIInv, NEW d, Within(d), daemon[d].pc \in Busy,
         NEW p \in Busy, Goes(d, p),
         p \in {"claim", "record", "freeze"} => Calls(Subject(d), daemon[d].count),
         p = "freeze" => Subject(d) \in log'
  PROVE  PlaybookIInv'
<1>1. d \in Daemons
  BY DEF Within
<1>2. PICK k : daemon' = [daemon EXCEPT ![d] = k] /\ GoesOnAs(stream, grounds, log', daemon[d], k)
  BY <1>1, GoesThrough
<1>3. QED
  BY <1>2, MovesWithin DEF GoesOnAs

\* A step meets at most one fault.
LEMMA FaultsGrow ==
  ASSUME faults \in 0 .. MaxFaults, faults' = faults \/ Spend
  PROVE  faults' \in 0 .. MaxFaults /\ faults' >= faults
BY PlaybookAssumption DEF Spend

\* A step that writes nothing but the daemon's place, and a fault at most.
LEMMA Quiet ==
  ASSUME PlaybookIInv, NEW d \in Daemons, stream' = stream, store' = store,
         faults' = faults \/ Spend, daemon[d].pc # "expire" \/ Spend
  PROVE  Within(d) /\ log' = log /\ grounds' = grounds
<1>1. /\ window' = window /\ claim' = claim /\ frozen' = frozen /\ incidents' = incidents
      /\ unrecorded' = unrecorded /\ reads' = reads /\ tally' = tally /\ grounds' = grounds
  BY DEF store, reads
<1>2. faults' \in 0 .. MaxFaults /\ faults' >= faults /\ (daemon[d].pc # "expire" \/ faults' > 0)
  BY PlaybookAssumption DEF Spend, PlaybookIInv, StoresTypes
<1>3. StoresTypes'
  BY <1>1, <1>2 DEF PlaybookIInv, StoresTypes
<1>4. log' = log /\ Warranted'
  BY <1>1 DEF log, Warranted, PlaybookIInv
<1>5. QED
  BY <1>1, <1>2, <1>3, <1>4 DEF Within

LEMMA RestartStep ==
  ASSUME PlaybookIInv, NEW d \in Daemons, Restart(d)
  PROVE  PlaybookIInv'
<1> DEFINE k == [Booting EXCEPT !.boot = daemon[d].boot]
<1>1. Within(d) /\ log' = log /\ daemon' = [daemon EXCEPT ![d] = k]
  BY Quiet DEF Restart
<1>2. stream \in Seq(Event) /\ Len(stream) \in Nat /\ daemon[d] \in Daemon
  BY At
<1>3. /\ k \in Daemon /\ k.pc = "asleep" /\ k.cursor = NoCursor /\ k.alerts = {}
      /\ k.boot = daemon[d].boot
  BY <1>2 DEF Booting, Daemon, NoCursor
<1> HIDE DEF k
<1>4. Sound(stream, grounds, log', k)
  <2>1. Cardinality({}) = 0
    BY FS_EmptySet
  <2>2. Carries(stream, k)
    BY <1>2, <1>3, <2>1, PlaybookAssumption DEF Carries, NoCursor
  <2>3. QED
    BY <1>3, <2>2 DEF Sound, Counted, DueIn, Noted, Busy
<1>5. \A i \in Nat : Ahead(k, i) => Ahead(daemon[d], i)
  BY <1>3 DEF Ahead
<1>6. QED
  BY <1>1, <1>3, <1>4, <1>5, MovesWithin

LEMMA SleepStep ==
  ASSUME PlaybookIInv, NEW d \in Daemons, Sleep(d)
  PROVE  PlaybookIInv'
<1> DEFINE k == [daemon[d] EXCEPT !.pc = "asleep", !.count = daemon[d].count]
<1>1. Within(d) /\ log' = log
  BY Quiet DEF Sleep
<1>2. /\ daemon' = [daemon EXCEPT ![d] = k] /\ daemon[d].pc = "next" /\ daemon[d].alerts = {}
  BY At DEF Sleep
<1>3. /\ k \in Daemon /\ k.pc = "asleep" /\ k.cursor = daemon[d].cursor
      /\ k.alerts = daemon[d].alerts /\ k.boot = daemon[d].boot
  BY At DEF Daemon
<1> HIDE DEF k
<1>4. Sound(stream, grounds, log', k)
  <2>1. Carries(stream, k)
    BY <1>3, At, CarriesLess
  <2>2. QED
    BY <1>3, <2>1 DEF Sound, Counted, DueIn, Noted, Busy
<1>5. \A i \in Nat : Ahead(k, i) => Ahead(daemon[d], i)
  BY <1>2, <1>3 DEF Ahead, InHand
<1>6. QED
  BY <1>1, <1>2, <1>3, <1>4, <1>5, MovesWithin

LEMMA CallFailsStep ==
  ASSUME PlaybookIInv, NEW d \in Daemons, CallFails(d)
  PROVE  PlaybookIInv'
BY Quiet, Drops DEF CallFails

LEMMA DecideStep ==
  ASSUME PlaybookIInv, NEW d \in Daemons, Decide(d)
  PROVE  PlaybookIInv'
<1>1. Within(d) /\ daemon[d].pc \in Busy
  BY Quiet DEF Decide, Busy
<1>2. CASE Calls(Subject(d), daemon[d].count) /\ Goes(d, "claim")
  BY <1>1, <1>2, GoesThroughWithin DEF Busy
<1>3. CASE NextAlert(d)
  BY <1>1, <1>3, Drops
<1>4. QED
  BY <1>2, <1>3 DEF Decide

\* The step that ends a window leaves its count.
LEMMA ExpireStep ==
  ASSUME PlaybookIInv, NEW d \in Daemons, Expire(d)
  PROVE  PlaybookIInv'
<1>1. /\ stream' = stream /\ log' = log /\ frozen' = frozen /\ tally' = tally
      /\ grounds' = grounds
      /\ claim' = claim /\ faults' = faults /\ incidents' = incidents /\ unrecorded' = unrecorded
      /\ window' = [window EXCEPT ![Subject(d)].left = Window]
      /\ daemon[d].pc = "expire" /\ Goes(d, "decide")
  BY DEF Expire, log, reads
<1>2. Subject(d) \in Subjects /\ Subject(d) = Due(stream, daemon[d])
  BY <1>1, Considers DEF Has, Busy
<1>3. /\ \A s \in Subjects : window'[s].count = window[s].count
      /\ \A s \in Subjects : Endless(window', s) => Endless(window, s)
      /\ ~Endless(window', Subject(d))
      /\ window' \in [Subjects -> [count : Nat, left : {NoExpiry} \cup (0 .. Window)]]
  <2> DEFINE W == [count : Nat, left : {NoExpiry} \cup (0 .. Window)]
  <2>1. window \in [Subjects -> W]
    BY DEF PlaybookIInv, StoresTypes
  <2>2. window' = [window EXCEPT ![Subject(d)] = [window[Subject(d)] EXCEPT !.left = Window]]
    BY <1>1
  <2>3. \A w \in W : /\ [w EXCEPT !.left = Window] \in W
                     /\ [w EXCEPT !.left = Window].count = w.count
                     /\ [w EXCEPT !.left = Window].left # NoExpiry
    BY PlaybookAssumption DEF NoExpiry
  <2> HIDE DEF W
  <2>4. window' \in [Subjects -> W]
    BY <1>2, <2>1, <2>2, <2>3
  <2>5. /\ \A s \in Subjects : window'[s].count = window[s].count
        /\ \A s \in Subjects \ {Subject(d)} : window'[s] = window[s]
        /\ window'[Subject(d)].left # NoExpiry
    BY <1>2, <2>1, <2>2, <2>3
  <2>6. QED
    BY <2>4, <2>5 DEF W, Endless
<1>4. StoresTypes'
  BY <1>1, <1>3 DEF PlaybookIInv, StoresTypes
<1>5. PICK k : daemon' = [daemon EXCEPT ![d] = k] /\ GoesOnAs(stream, grounds, log', daemon[d], k)
  BY <1>1, GoesThrough DEF Busy
<1>6. Becoming(d, k) /\ Fewer(daemon[d], k)
  BY <1>1, <1>5 DEF GoesOnAs, Becoming, Fewer, Sound, Daemon
<1>7. Onward
  <2>1. Extends(stream, stream') /\ Stays(grounds, grounds') /\ faults' >= faults
    BY <1>1 DEF Extends, Stays, PlaybookIInv, StoresTypes
  <2>2. QED
    BY <1>1, <1>4, <1>6, <2>1, Others DEF Onward
<1>8. Warranted'
  BY <1>1 DEF Warranted, PlaybookIInv
<1>9. QED
  BY <1>1, <1>2, <1>3, <1>6, <1>7, <1>8, Moves

LEMMA ClaimStep ==
  ASSUME PlaybookIInv, NEW d \in Daemons, NEW lost \in BOOLEAN, Claim(d, lost)
  PROVE  PlaybookIInv'
<1>1. /\ stream' = stream /\ log' = log /\ frozen' = frozen /\ reads' = reads
      /\ window' = window /\ incidents' = incidents /\ unrecorded' = unrecorded
      /\ daemon[d].pc = "claim" /\ tally' = tally /\ grounds' = grounds
  BY DEF Claim, log, reads
<1>2. Subject(d) \in Subjects /\ Calls(Subject(d), daemon[d].count)
  BY <1>1, Considers DEF Has, Busy
<1>3. claim' \in [Subjects -> 0 .. Cooldown] /\ faults' \in 0 .. MaxFaults /\ faults' >= faults
  BY <1>2, PlaybookAssumption DEF Claim, Spend, PlaybookIInv, StoresTypes
<1>4. StoresTypes' /\ Warranted'
  BY <1>1, <1>3 DEF PlaybookIInv, StoresTypes, Warranted
<1>5. Within(d)
  BY <1>1, <1>3, <1>4 DEF Within
<1>6. CASE Goes(d, "record")
  BY <1>1, <1>2, <1>5, <1>6, GoesThroughWithin DEF Busy
<1>7. CASE NextAlert(d)
  BY <1>5, <1>7, Drops
<1>8. QED
  BY <1>6, <1>7 DEF Claim

LEMMA RecordStep ==
  ASSUME PlaybookIInv, NEW d \in Daemons, NEW written \in BOOLEAN, Record(d, written)
  PROVE  PlaybookIInv'
<1>1. /\ stream' = stream /\ frozen' = frozen /\ claim' = claim /\ reads' = reads
      /\ window' = window /\ daemon[d].pc = "record" /\ Goes(d, "freeze")
      /\ tally' = tally /\ grounds' = grounds
  BY DEF Record, reads
<1>2. Subject(d) \in Subjects /\ Calls(Subject(d), daemon[d].count)
  BY <1>1, Considers DEF Has, Busy
<1>3. /\ incidents' \subseteq Subjects /\ unrecorded' \subseteq Subjects
      /\ faults' \in 0 .. MaxFaults /\ faults' >= faults
      /\ log \subseteq log' /\ Subject(d) \in log'
  <2>1. faults' \in 0 .. MaxFaults /\ faults' >= faults
    <3>1. faults' = faults \/ Spend
      BY DEF Record
    <3>2. faults \in 0 .. MaxFaults
      BY DEF PlaybookIInv, StoresTypes
    <3>3. QED
      BY <3>1, <3>2, FaultsGrow
  <2>2. \/ incidents' = incidents \cup {Subject(d)} /\ unrecorded' = unrecorded
        \/ unrecorded' = unrecorded \cup {Subject(d)} /\ incidents' = incidents
    BY DEF Record
  <2>3. QED
    BY <1>2, <2>1, <2>2 DEF PlaybookIInv, StoresTypes, log
<1>4. StoresTypes' /\ Warranted'
  BY <1>1, <1>3 DEF PlaybookIInv, StoresTypes, Warranted
<1>5. Within(d)
  BY <1>1, <1>3, <1>4 DEF Within
<1>6. QED
  BY <1>1, <1>2, <1>3, <1>5, GoesThroughWithin DEF Busy

\* The freeze: its subject has grounds and is in the log.
LEMMA FreezeStep ==
  ASSUME PlaybookIInv, NEW d \in Daemons, NEW kept \in BOOLEAN, Freeze(d, kept)
  PROVE  PlaybookIInv'
<1>1. /\ stream' = stream /\ log' = log /\ claim' = claim /\ reads' = reads
      /\ window' = window /\ incidents' = incidents /\ unrecorded' = unrecorded
      /\ daemon[d].pc = "freeze" /\ NextAlert(d) /\ tally' = tally /\ grounds' = grounds
  BY DEF Freeze, log, reads
<1>2. frozen' \subseteq frozen \cup {Subject(d)} /\ faults' \in 0 .. MaxFaults
      /\ faults' >= faults
  BY PlaybookAssumption DEF Freeze, Spend, PlaybookIInv, StoresTypes
<1>3. Subject(d) \in Subjects /\ grounds[Subject(d)] # {} /\ Subject(d) \in log
  BY <1>1, Considers DEF Has, Busy
<1>4. StoresTypes'
  BY <1>1, <1>2, <1>3 DEF PlaybookIInv, StoresTypes
<1>5. Warranted'
  BY <1>1, <1>2, <1>3 DEF PlaybookIInv, Warranted
<1>6. Within(d)
  BY <1>1, <1>2, <1>4, <1>5 DEF Within
<1>7. QED
  BY <1>1, <1>6, Drops

\* Time passes: a window stays as it is, or is gone with its tally.
LEMMA ElapseStep ==
  ASSUME PlaybookIInv, Elapse
  PROVE  PlaybookIInv'
<1>1. /\ stream' = stream /\ log' = log /\ frozen' = frozen /\ grounds' = grounds
      /\ daemon' = daemon /\ faults' = faults
      /\ incidents' = incidents /\ unrecorded' = unrecorded
  BY DEF Elapse, log
<1> DEFINE W == [count : Nat, left : {NoExpiry} \cup (0 .. Window)]
<1>2. window \in [Subjects -> W]
  BY DEF PlaybookIInv, StoresTypes
<1>3. ASSUME NEW s \in Subjects
      PROVE  /\ window'[s] \in W /\ (Endless(window', s) => Endless(window, s))
             /\ window'[s].count = window[s].count \/ window'[s].count = 0
  <2>1. window[s] \in W
    BY <1>2
  <2>2. window'[s] = CASE window[s].left = NoExpiry -> window[s]
          [] window[s].left > 1 -> [window[s] EXCEPT !.left = @ - 1]
          [] OTHER -> [count |-> 0, left |-> 0]
    BY DEF Elapse
  <2>3. CASE window[s].left = NoExpiry
    <3>1. window'[s] = window[s]
      BY <2>2, <2>3 DEF NoExpiry
    <3>2. QED
      BY <2>1, <3>1 DEF Endless
  <2>4. CASE window[s].left # NoExpiry /\ window[s].left > 1
    <3>1. window'[s] = [window[s] EXCEPT !.left = window[s].left - 1]
      BY <2>2, <2>4
    <3>2. window[s].left - 1 \in 0 .. Window
      BY <2>1, <2>4, PlaybookAssumption DEF NoExpiry
    <3>3. window'[s].left # NoExpiry
      BY <2>1, <3>1, <3>2 DEF NoExpiry
    <3>4. QED
      BY <2>1, <3>1, <3>2, <3>3 DEF Endless
  <2>5. CASE window[s].left # NoExpiry /\ ~(window[s].left > 1)
    <3>1. window'[s] = [count |-> 0, left |-> 0]
      BY <2>2, <2>5
    <3>2. QED
      BY <2>1, <3>1, PlaybookAssumption DEF Endless, NoExpiry
  <2>6. QED
    BY <2>3, <2>4, <2>5
<1>4. window' \in [Subjects -> W]
  <2>1. window' = [s \in Subjects |-> window'[s]]
    BY DEF Elapse
  <2> HIDE DEF W
  <2>2. QED
    BY <1>3, <2>1
<1>5. /\ claim' \in [Subjects -> 0 .. Cooldown] /\ tally' \in [Subjects -> SUBSET Read]
      /\ \A s \in Subjects : tally'[s] = IF window'[s].count = 0 THEN {} ELSE tally[s]
  <2>1. claim' \in [Subjects -> 0 .. Cooldown]
    BY PlaybookAssumption DEF Elapse, PlaybookIInv, StoresTypes
  <2>2. tally' = [s \in Subjects |-> IF window'[s].count = 0 THEN {} ELSE tally[s]]
    BY DEF Elapse
  <2>3. QED
    BY <2>1, <2>2 DEF PlaybookIInv, StoresTypes
<1>6. StoresTypes'
  BY <1>1, <1>4, <1>5 DEF PlaybookIInv, StoresTypes
<1>7. DaemonsSound' /\ Grounded' /\ Warranted'
  BY <1>1 DEF PlaybookIInv, DaemonsSound, Grounded, Suffices, Reads, Warranted
<1>8. Tallied'
  <2> SUFFICES ASSUME NEW s \in Subjects
               PROVE  /\ IsFiniteSet(tally'[s]) /\ tally'[s] \subseteq Reads(s)
                      /\ window'[s].count = Cardinality(tally'[s])
    BY <1>1 DEF Tallied, Reads
  <2>1. CASE window'[s].count = 0
    BY <1>5, <2>1, FS_EmptySet
  <2>2. CASE window'[s].count # 0
    BY <1>3, <1>5, <2>2 DEF PlaybookIInv, Tallied
  <2>3. QED
    BY <2>1, <2>2
<1>9. AllUnread'
  BY <1>1, <1>5 DEF PlaybookIInv, AllUnread, Unread
<1>10. Ending(stream', daemon', window', faults')
  BY <1>1, <1>3 DEF PlaybookIInv, Ending
<1>11. QED
  BY <1>6, <1>7, <1>8, <1>9, <1>10 DEF PlaybookIInv

---------------------------------------------------------------------------
(* A scan never takes more alerts than AlertLimit *)

\* One record further, one alert more at most.
LEMMA OneFurther ==
  ASSUME NEW from \in Nat, NEW n \in Nat, from < n
  PROVE  /\ Cardinality(Alerts(from, n - 1)) \in Nat /\ Cardinality(Alerts(from, n)) \in Nat
         /\ Cardinality(Alerts(from, n)) <= Cardinality(Alerts(from, n - 1)) + 1
<1>1. IsFiniteSet(from + 1 .. n - 1)
  BY FS_Interval
<1>2. IsFiniteSet(Alerts(from, n - 1))
  BY <1>1, FS_Subset DEF Alerts
<1>3. Alerts(from, n) = Alerts(from, n - 1) \/ Alerts(from, n) = Alerts(from, n - 1) \cup {n}
  BY DEF Alerts
<1>4. Cardinality(Alerts(from, n - 1)) \in Nat
  BY <1>2, FS_CardinalityType
<1>5. n \notin Alerts(from, n - 1)
  BY DEF Alerts
<1>6. Cardinality(Alerts(from, n - 1) \cup {n}) = Cardinality(Alerts(from, n - 1)) + 1
  BY <1>2, <1>5, FS_AddElement
<1>7. QED
  BY <1>3, <1>4, <1>6

LEMMA ExaminedWithin ==
  ASSUME stream \in Seq(Event), NEW from \in Nat, from <= Len(stream)
  PROVE  /\ Examined(from) \in from .. Len(stream)
         /\ Cardinality(Alerts(from, Examined(from))) <= AlertLimit
<1> DEFINE all == Upto(Len(stream), from + ScanLimit)
           count(n) == Cardinality(Alerts(from, n))
           full == {n \in from .. all : count(n) = AlertLimit}
<1>1. all \in from .. Len(stream) /\ all \in Nat
  BY PlaybookAssumption DEF Upto
<1>2. Examined(from) = IF full = {} THEN all ELSE Least(full)
  BY DEF Examined, Least
<1>3. full \subseteq Nat
  BY <1>1
<1>4. CASE full # {}
  <2>1. Least(full) \in full
    <3> HIDE DEF full
    <3>1. QED
      BY <1>3, <1>4, LeastIn
  <2>2. Least(full) \in from .. Len(stream) /\ count(Least(full)) = AlertLimit
    BY <1>1, <2>1
  <2>3. QED
    BY <1>2, <1>4, <2>2, PlaybookAssumption
<1>5. CASE full = {}
  <2> DEFINE over == {n \in from .. all : ~(count(n) <= AlertLimit)}
  <2>1. \A n \in from .. all : count(n) # AlertLimit
    BY <1>5
  <2>2. count(from) = 0
    <3>1. Alerts(from, from) = {}
      BY DEF Alerts
    <3>2. QED
      BY <3>1, FS_EmptySet
  <2>3. over = {}
    <3> SUFFICES ASSUME over # {} PROVE FALSE
      OBVIOUS
    <3>1. over \subseteq Nat
      BY <1>1
    <3>2. PICK m \in over : \A n \in over : m <= n
      <4> HIDE DEF over
      <4>1. QED
        BY <3>1, LeastIn
    <3>3. m \in from .. all /\ ~(count(m) <= AlertLimit)
      OBVIOUS
    <3>4. m \in Nat /\ from < m
      BY <1>1, <2>2, <3>3, PlaybookAssumption
    <3>5. m - 1 \in from .. all /\ m - 1 \notin over
      BY <1>1, <3>2, <3>3, <3>4
    <3>6. count(m - 1) <= AlertLimit /\ count(m - 1) # AlertLimit
      BY <2>1, <3>5
    <3>7. /\ count(m - 1) \in Nat /\ count(m) \in Nat /\ count(m) <= count(m - 1) + 1
      BY <3>4, OneFurther
    <3>8. QED
      BY <3>3, <3>6, <3>7, PlaybookAssumption
  <2>4. count(all) <= AlertLimit
    BY <1>1, <2>3
  <2>5. QED
    BY <1>1, <1>2, <1>5, <2>4
<1>6. QED
  BY <1>4, <1>5

LEMMA ScanStep ==
  ASSUME PlaybookIInv, NEW d \in Daemons, Scan(d)
  PROVE  PlaybookIInv'
<1> DEFINE from == daemon[d].cursor
           to == Examined(from)
           k == [daemon[d] EXCEPT !.pc = "next", !.cursor = to, !.alerts = Alerts(from, to)]
<1>1. Within(d) /\ log' = log
  BY Quiet DEF Scan
<1>2. /\ stream \in Seq(Event) /\ Len(stream) \in Nat /\ daemon[d] \in Daemon
      /\ from \in Nat /\ from # NoCursor /\ from <= Len(stream)
  <2>1. stream \in Seq(Event) /\ Len(stream) \in Nat /\ daemon[d] \in Daemon
    BY At
  <2>2. from \in NoCursor .. Len(stream)
    BY At DEF Carries
  <2>3. from # NoCursor
    BY DEF Scan
  <2> HIDE DEF from
  <2>4. from \in Nat /\ from <= Len(stream)
    BY <2>1, <2>2, <2>3 DEF NoCursor
  <2>5. QED
    BY <2>1, <2>3, <2>4
<1>3. to \in from .. Len(stream) /\ Cardinality(Alerts(from, to)) <= AlertLimit
  BY <1>2, ExaminedWithin
<1>4. daemon' = [daemon EXCEPT ![d] = k]
  BY At DEF Scan, PlaybookIInv, DaemonsSound
<1>5. /\ k.pc = "next" /\ k.cursor = to /\ k.alerts = Alerts(from, to)
      /\ k.boot = daemon[d].boot
  BY <1>2 DEF Daemon
<1> HIDE DEF from, to
<1>6. /\ \A i \in Alerts(from, to) : i \in 1 .. Len(stream) /\ i > from /\ i <= to
                                     /\ stream[i] # Other
  BY <1>2, <1>3 DEF Alerts
<1>7. k \in Daemon
  <2>1. Alerts(from, to) \in SUBSET Nat
    BY <1>6
  <2>2. to \in Int
    BY <1>2, <1>3
  <2>3. QED
    BY <1>2, <2>1, <2>2 DEF Daemon
<1> HIDE DEF k
<1>8. Sound(stream, grounds, log', k)
  <2>1. Carries(stream, k)
    BY <1>2, <1>3, <1>5, <1>6 DEF Carries, NoCursor
  <2>2. QED
    BY <1>5, <1>7, <2>1 DEF Sound, Counted, DueIn, Noted, Busy
<1>9. \A i \in Nat : Ahead(k, i) => Ahead(daemon[d], i)
  <2> SUFFICES ASSUME NEW i \in Nat, Ahead(k, i) PROVE i > from
    BY <1>2 DEF Ahead, from
  <2>1. i > to \/ i \in Alerts(from, to)
    BY <1>5 DEF Ahead, InHand
  <2>2. QED
    BY <1>2, <1>3, <1>6, <2>1
<1>10. QED
  BY <1>1, <1>4, <1>5, <1>8, <1>9, MovesWithin

---------------------------------------------------------------------------
(* Counting a deny, anchoring a cursor, and a new record *)

\* The daemon that counts a deny with its cursor has not counted it before,
\* so the window and its tally grow together.
LEMMA BumpStep ==
  ASSUME PlaybookIInv, NEW d \in Daemons, NEW lost \in BOOLEAN, Bump(d, lost)
  PROVE  PlaybookIInv'
<1> DEFINE c == Current(d)
           s == Subject(d)
           n == window[s].count + 1
           r == <<d, daemon[d].boot, c>>
           W == [count : Nat, left : {NoExpiry} \cup (0 .. Window)]
<1>1. /\ stream' = stream /\ log' = log /\ frozen' = frozen
      /\ claim' = claim /\ incidents' = incidents /\ unrecorded' = unrecorded
      /\ daemon[d].pc = "next" /\ daemon[d].alerts # {}
      /\ tally' = [tally EXCEPT ![s] = @ \cup {r}]
      /\ grounds' = IF Calls(s, n) THEN [grounds EXCEPT ![s] = tally'[s]] ELSE grounds
  BY DEF Bump, log
<1>2. /\ Has(d) /\ stream \in Seq(Event) /\ Len(stream) \in Nat /\ daemon[d] \in Daemon
      /\ Carries(stream, daemon[d])
  BY <1>1, At
<1>3. s \in Subjects /\ window \in [Subjects -> W] /\ tally \in [Subjects -> SUBSET Read]
      /\ grounds \in [Subjects -> SUBSET Read]
  BY <1>2 DEF Has, PlaybookIInv, StoresTypes
<1>4. PICK left \in {NoExpiry} \cup (0 .. Window) :
        /\ window' = [window EXCEPT ![s] = [count |-> n, left |-> left]]
        /\ n # 1 => left = window[s].left
  <2>1. CASE n = 1
    BY <2>1 DEF Bump
  <2>2. CASE n # 1
    <3>1. window[s].left \in {NoExpiry} \cup (0 .. Window)
      BY <1>3
    <3>2. window' = [window EXCEPT ![s] = [count |-> n, left |-> window[s].left]]
      BY <1>3, <2>2 DEF Bump
    <3>3. QED
      BY <3>1, <3>2
  <2>3. QED
    BY <2>1, <2>2
<1>5. n \in Nat /\ window[s].count \in Nat
  BY <1>3
<1>6. /\ window' \in [Subjects -> W] /\ window'[s].count = n /\ window'[s].left = left
      /\ \A x \in Subjects \ {s} : window'[x] = window[x]
  BY <1>3, <1>4, <1>5
<1>7. faults' \in 0 .. MaxFaults /\ faults' >= faults
  <2>1. faults' = faults \/ Spend
    BY DEF Bump
  <2>2. faults \in 0 .. MaxFaults
    BY DEF PlaybookIInv, StoresTypes
  <2>3. QED
    BY <2>1, <2>2, FaultsGrow
<1>8. /\ c \in Nat /\ c \in 1 .. Len(stream) /\ stream[c] = s /\ c = Least(daemon[d].alerts)
      /\ daemon[d].boot \in Nat /\ r \in Read
  BY <1>2 DEF Has, Due, Daemon, Read
<1>9. r \in Reads(s) /\ r \notin tally[s]
  <2>1. r \in Reads(s)
    BY <1>8 DEF Reads
  <2>2. Ahead(daemon[d], c)
    <3>1. c \in daemon[d].alerts /\ c <= daemon[d].cursor
      BY <1>2 DEF Has, Carries
    <3>2. QED
      BY <1>1, <1>8, <3>1 DEF Ahead, InHand, NoCursor
  <2>3. QED
    BY <1>3, <1>8, <2>1, <2>2 DEF PlaybookIInv, AllUnread, Unread
<1>10. /\ tally' \in [Subjects -> SUBSET Read] /\ tally'[s] = tally[s] \cup {r}
       /\ \A x \in Subjects \ {s} : tally'[x] = tally[x]
  BY <1>1, <1>3, <1>8
<1>11. /\ grounds' \in [Subjects -> SUBSET Read]
       /\ \A x \in Subjects \ {s} : grounds'[x] = grounds[x]
       /\ grounds'[s] = IF Calls(s, n) THEN tally'[s] ELSE grounds[s]
  BY <1>1, <1>3, <1>10
<1>12. StoresTypes'
  BY <1>1, <1>6, <1>7, <1>10, <1>11 DEF PlaybookIInv, StoresTypes
<1>13. /\ IsFiniteSet(tally'[s]) /\ tally'[s] \subseteq Reads(s)
       /\ n = Cardinality(tally'[s]) /\ tally'[s] # {}
  <2>1. IsFiniteSet(tally[s]) /\ tally[s] \subseteq Reads(s) /\ window[s].count = Cardinality(tally[s])
    BY <1>3 DEF PlaybookIInv, Tallied
  <2>2. Cardinality(tally[s] \cup {r}) = Cardinality(tally[s]) + 1
        /\ IsFiniteSet(tally[s] \cup {r})
    BY <1>9, <2>1, FS_AddElement
  <2>3. QED
    BY <1>9, <1>10, <2>1, <2>2
<1>14. PICK k : /\ daemon' = [daemon EXCEPT ![d] = k]
                /\ GoesOnAs(stream, grounds', log, daemon[d], k) /\ ~Ahead(k, c)
                /\ n = 1 => faults' > 0 \/ (k.pc = "expire" /\ k.alerts = daemon[d].alerts)
  <2>1. CASE NextAlert(d) /\ Spend
    <3>1. daemon' = [daemon EXCEPT ![d] = Dropped(daemon[d])]
      BY <2>1, At
    <3>2. GoesOnAs(stream, grounds', log, daemon[d], Dropped(daemon[d]))
          /\ ~Ahead(Dropped(daemon[d]), c)
      BY <1>1, <1>2, <1>8, DroppedSound
    <3>3. faults' > 0
      BY <2>1 DEF Spend, PlaybookIInv, StoresTypes
    <3>4. QED
      BY <3>1, <3>2, <3>3
  <2>2. ASSUME NEW p \in {"expire", "decide"}, n = 1 => p = "expire",
               daemon' = [daemon EXCEPT ![d].pc = p, ![d].count = n]
        PROVE  \E k : /\ daemon' = [daemon EXCEPT ![d] = k]
                      /\ GoesOnAs(stream, grounds', log, daemon[d], k) /\ ~Ahead(k, c)
                      /\ n = 1 => faults' > 0 \/ (k.pc = "expire" /\ k.alerts = daemon[d].alerts)
    <3> DEFINE k == [daemon[d] EXCEPT !.pc = p, !.count = n]
    <3>1. daemon' = [daemon EXCEPT ![d] = k]
      BY <2>2 DEF PlaybookIInv, DaemonsSound
    <3>2. Calls(Due(stream, daemon[d]), n) => grounds'[Due(stream, daemon[d])] # {}
      BY <1>2, <1>11, <1>13 DEF Has
    <3>3. GoesOnAs(stream, grounds', log, daemon[d], k) /\ ~Ahead(k, Least(daemon[d].alerts))
      <4> HIDE DEF n
      <4>1. p \in Busy /\ p \notin {"claim", "record", "freeze"}
        BY DEF Busy
      <4>2. QED
        BY <1>1, <1>2, <1>5, <3>2, <4>1, WentOn
    <3>4. k.pc = p /\ k.alerts = daemon[d].alerts
      BY <1>2 DEF Daemon
    <3>5. QED
      BY <1>8, <2>2, <3>1, <3>3, <3>4
  <2>3. QED
    BY <2>1, <2>2 DEF Bump
<1>15. Becoming(d, k) /\ k.boot = daemon[d].boot
  BY <1>1, <1>8, <1>14 DEF Becoming, GoesOnAs
<1>16. Onward
  <2>1. Extends(stream, stream') /\ Stays(grounds, grounds')
    BY <1>1, <1>2, <1>11, <1>13 DEF Extends, Stays
  <2>2. QED
    BY <1>1, <1>7, <1>12, <1>15, <2>1, Others DEF Onward
<1>17. DaemonsSound' /\ daemon' \in [Daemons -> Daemon]
  BY <1>15, <1>16, DaemonsKept, Others
<1>18. \A x : Reads(x) \subseteq Reads(x)'
  BY <1>16, <1>17, ReadsRise
<1> HIDE DEF s, c, r
<1>19. Tallied'
  <2> SUFFICES ASSUME NEW x \in Subjects
               PROVE  /\ IsFiniteSet(tally'[x]) /\ tally'[x] \subseteq Reads(x)
                      /\ window'[x].count = Cardinality(tally'[x])
    BY <1>18 DEF Tallied
  <2>1. CASE x = s
    BY <1>6, <1>13, <2>1
  <2>2. CASE x # s
    BY <1>6, <1>10, <2>2 DEF PlaybookIInv, Tallied
  <2>3. QED
    BY <2>1, <2>2
<1>20. Grounded'
  <2> SUFFICES ASSUME NEW x \in Subjects, grounds'[x] # {}
               PROVE  /\ grounds'[x] \subseteq Reads(x)
                      /\ Cardinality(grounds'[x]) >= (IF x \in SingleShot THEN 1 ELSE BurstThreshold)
    BY <1>18 DEF Grounded, Suffices
  <2>1. CASE x = s /\ Calls(s, n)
    <3>1. n >= (IF s \in SingleShot THEN 1 ELSE BurstThreshold)
      BY <1>5, <2>1, PlaybookAssumption DEF Calls
    <3>2. QED
      BY <1>11, <1>13, <2>1, <3>1
  <2>2. CASE ~(x = s /\ Calls(s, n))
    BY <1>11, <2>2 DEF PlaybookIInv, Grounded, Suffices
  <2>3. QED
    BY <2>1, <2>2
<1>21. AllUnread'
  <2> SUFFICES ASSUME NEW x \in Daemons, NEW y \in Subjects, NEW i \in Nat,
                      Ahead(daemon'[x], i), <<x, daemon'[x].boot, i>> \in tally'[y]
               PROVE  FALSE
    BY DEF AllUnread, Unread
  <2>1. Ahead(daemon[x], i) /\ daemon'[x].boot = daemon[x].boot /\ (x = d => i # c)
    BY <1>14, <1>15, Others DEF GoesOnAs
  <2>2. <<x, daemon[x].boot, i>> \notin tally[y]
    BY <2>1 DEF PlaybookIInv, AllUnread, Unread
  <2>3. <<x, daemon[x].boot, i>> = r
    BY <1>10, <2>1, <2>2
  <2>4. x = d /\ i = c
    BY <2>3 DEF r
  <2>5. QED
    BY <2>1, <2>4
<1>22. Warranted'
  BY <1>1, <1>16 DEF PlaybookIInv, Warranted, Onward, Stays, StoresTypes
<1>23. Ending(stream', daemon', window', faults')
  <2> SUFFICES ASSUME NEW x \in Subjects, Endless(window', x), ~(faults' > 0)
               PROVE  \E y \in Daemons : daemon'[y].pc = "expire" /\ Due(stream', daemon'[y]) = x
    BY DEF Ending
  <2>1. CASE x = s /\ n = 1
    <3>1. daemon'[d].pc = "expire" /\ Due(stream, daemon'[d]) = Due(stream, daemon[d])
      BY <1>14, <1>15, <2>1, Others DEF Due
    <3>2. s = Due(stream, daemon[d])
      BY <1>2 DEF Has, s
    <3>3. QED
      BY <1>1, <2>1, <3>1, <3>2
  <2>2. CASE ~(x = s /\ n = 1)
    <3>1. Endless(window, x)
      <4>1. CASE x = s
        <5>1. n # 1 /\ left = window[s].left /\ left = NoExpiry
          BY <1>4, <1>6, <2>2, <4>1 DEF Endless
        <5>2. window[s].count > 0
          BY <1>5, <5>1
        <5>3. QED
          BY <4>1, <5>1, <5>2 DEF Endless
      <4>2. CASE x # s
        BY <1>6, <4>2 DEF Endless
      <4>3. QED
        BY <4>1, <4>2
    <3>2. faults \in Nat /\ faults' \in Nat /\ ~(faults > 0)
      BY <1>7 DEF PlaybookIInv, StoresTypes
    <3>3. PICK y \in Daemons : daemon[y].pc = "expire" /\ Due(stream, daemon[y]) = x
      BY <3>1, <3>2 DEF PlaybookIInv, Ending
    <3>4. y # d
      BY <1>1, <3>3
    <3>5. QED
      BY <1>1, <1>15, <3>3, <3>4, Others
  <2>3. QED
    BY <2>1, <2>2
<1>24. QED
  BY <1>12, <1>17, <1>19, <1>20, <1>21, <1>22, <1>23 DEF PlaybookIInv

\* A daemon that anchors may have the whole stream to count, with a cursor
\* that has counted nothing.
LEMMA AnchorStep ==
  ASSUME PlaybookIInv, NEW d \in Daemons, Anchor(d) \/ AnchorFails(d)
  PROVE  PlaybookIInv'
<1>1. /\ daemon[d].pc = "asleep" /\ daemon[d].cursor = NoCursor
      /\ Within(d) /\ log' = log /\ grounds' = grounds
  BY Quiet DEF Anchor, AnchorFails
<1>2. /\ stream \in Seq(Event) /\ Len(stream) \in Nat /\ daemon[d] \in Daemon
      /\ Carries(stream, daemon[d]) /\ daemon[d].boot \in Nat
  BY At DEF Daemon
<1>3. daemon[d].alerts = {}
  BY <1>1, <1>2 DEF Carries, NoCursor
<1>4. PICK at \in 0 .. Len(stream) :
        daemon' = [daemon EXCEPT ![d] =
                     [daemon[d] EXCEPT !.cursor = at, !.tail = Len(stream),
                                       !.boot = daemon[d].boot + 1]]
  <2>1. daemon \in [Daemons -> Daemon] /\ 0 \in 0 .. Len(stream) /\ Len(stream) \in 0 .. Len(stream)
    BY <1>2 DEF PlaybookIInv, DaemonsSound
  <2>2. CASE Anchor(d)
    BY <2>1, <2>2 DEF Anchor
  <2>3. CASE AnchorFails(d)
    BY <2>1, <2>3 DEF AnchorFails
  <2>4. QED
    BY <2>2, <2>3
<1> DEFINE k == [daemon[d] EXCEPT !.cursor = at, !.tail = Len(stream), !.boot = daemon[d].boot + 1]
<1>5. /\ k \in Daemon /\ k.pc = "asleep" /\ k.alerts = {} /\ k.cursor = at
      /\ k.boot = daemon[d].boot + 1
  <2>1. at \in Int /\ daemon[d].boot + 1 \in Nat
    BY <1>2
  <2>2. PICK q \in Daemon : q = daemon[d]
    BY <1>2
  <2>3. PICK b \in Nat : b = daemon[d].boot + 1
    BY <2>1
  <2>4. PICK len \in Nat : len = Len(stream)
    BY <1>2
  <2> DEFINE z == [q EXCEPT !.cursor = at, !.tail = len, !.boot = b]
  <2>5. z \in Daemon /\ z.pc = q.pc /\ z.alerts = q.alerts /\ z.cursor = at /\ z.boot = b
    BY <2>1 DEF Daemon
  <2>6. k = z
    BY <2>2, <2>3, <2>4
  <2>7. QED
    BY <1>1, <1>3, <2>2, <2>3, <2>5, <2>6
<1>6. daemon' = [daemon EXCEPT ![d] = k]
  BY <1>4
<1> HIDE DEF k
<1>7. Sound(stream, grounds, log', k)
  <2>1. Cardinality({}) = 0
    BY FS_EmptySet
  <2>2. Carries(stream, k)
    BY <1>2, <1>5, <2>1, PlaybookAssumption DEF Carries, NoCursor
  <2>3. QED
    BY <1>5, <2>2 DEF Sound, Counted, DueIn, Noted, Busy
<1>8. /\ stream' = stream /\ window' = window /\ tally' = tally
  BY <1>1 DEF Within, reads
<1>9. Becoming(d, k) /\ Fewer(daemon[d], k)
  BY <1>1, <1>2, <1>5, <1>6, <1>7, <1>8 DEF Becoming, Fewer
<1>10. Onward
  <2>1. Extends(stream, stream') /\ Stays(grounds, grounds')
    BY <1>1, <1>2, <1>8 DEF Extends, Stays
  <2>2. QED
    BY <1>1, <1>9, <2>1, Others DEF Onward, Within
<1>11. QED
  BY <1>1, <1>8, <1>9, <1>10, Moves DEF Within

\* A new record is behind nobody's cursor.
LEMMA AppendStep ==
  ASSUME PlaybookIInv, NEW e \in Event, Append1(e)
  PROVE  PlaybookIInv'
<1>1. /\ stream' = Append(stream, e) /\ log' = log /\ frozen' = frozen
      /\ claim' = claim /\ incidents' = incidents /\ unrecorded' = unrecorded
      /\ window' = window /\ daemon' = daemon /\ faults' = faults
      /\ tally' = tally /\ grounds' = grounds
  BY DEF Append1, store, log, reads
<1>2. stream \in Seq(Event) /\ Len(stream) \in Nat /\ daemon \in [Daemons -> Daemon]
  BY DEF PlaybookIInv, StoresTypes, DaemonsSound
<1>3. stream' \in Seq(Event) /\ Extends(stream, stream')
  BY <1>1, <1>2 DEF Extends
<1>4. StoresTypes'
  BY <1>1, <1>3 DEF PlaybookIInv, StoresTypes
<1>5. Onward
  BY <1>1, <1>2, <1>3, <1>4 DEF Onward, Stays, PlaybookIInv, StoresTypes, Daemon
<1>6. \A x \in Daemons : /\ Sound(stream', grounds', log', daemon[x])
                         /\ daemon[x].alerts # {} => Due(stream', daemon[x]) = Due(stream, daemon[x])
  BY <1>1, <1>2, <1>3, <1>5, SoundKept DEF PlaybookIInv, DaemonsSound, Onward
<1>7. DaemonsSound'
  BY <1>1, <1>6 DEF PlaybookIInv, DaemonsSound
<1>8. Tallied' /\ Grounded'
  BY <1>1, <1>2, <1>5, TalliedKept, GroundedKept
<1>9. AllUnread' /\ Warranted'
  BY <1>1 DEF PlaybookIInv, AllUnread, Unread, Warranted
<1>10. \A x \in Daemons : daemon[x].pc = "expire" => daemon[x].alerts # {}
  BY DEF PlaybookIInv, DaemonsSound, Sound, Counted, Busy
<1>11. Ending(stream', daemon', window', faults')
  BY <1>1, <1>6, <1>10 DEF PlaybookIInv, Ending
<1>12. QED
  BY <1>4, <1>7, <1>8, <1>9, <1>11 DEF PlaybookIInv

---------------------------------------------------------------------------

LEMMA PlaybookStep ==
  ASSUME PlaybookIInv, [PlaybookNext]_playVars
  PROVE  PlaybookIInv'
<1>1. ASSUME NEW e \in Event, Append1(e) PROVE PlaybookIInv'
  BY <1>1, AppendStep
<1>2. ASSUME NEW d \in Daemons,
             \/ Anchor(d) \/ AnchorFails(d) \/ Scan(d) \/ Sleep(d) \/ Expire(d) \/ Decide(d)
             \/ CallFails(d) \/ Restart(d)
      PROVE  PlaybookIInv'
  BY <1>2, AnchorStep, ScanStep, SleepStep, ExpireStep, DecideStep, CallFailsStep, RestartStep
<1>3. ASSUME NEW d \in Daemons, NEW b \in BOOLEAN,
             Bump(d, b) \/ Claim(d, b) \/ Record(d, b) \/ Freeze(d, b)
      PROVE  PlaybookIInv'
  BY <1>3, BumpStep, ClaimStep, RecordStep, FreezeStep
<1>4. CASE Elapse
  BY <1>4, ElapseStep
<1>5. CASE UNCHANGED playVars
  BY <1>5 DEF playVars, store, reads, PlaybookIInv, StoresTypes, DaemonsSound, log, Tallied,
     Grounded, Suffices, Reads, AllUnread, Unread, Warranted
<1>6. QED
  BY <1>1, <1>2, <1>3, <1>4, <1>5 DEF PlaybookNext, Proceed

LEMMA PlaybookStarts ==
  ASSUME PlaybookInit
  PROVE  PlaybookIInv
<1>1. /\ stream = << >> /\ stream \in Seq(Event) /\ Len(stream) = 0
      /\ frozen = {} /\ log = {} /\ faults = 0
      /\ daemon = [d \in Daemons |-> Booting]
      /\ \A s \in Subjects : tally[s] = {} /\ grounds[s] = {} /\ window[s].count = 0
  BY DEF PlaybookInit, log
<1>2. StoresTypes
  BY <1>1, PlaybookAssumption DEF PlaybookInit, StoresTypes
<1>3. Cardinality({}) = 0 /\ IsFiniteSet({})
  BY FS_EmptySet
<1>4. /\ Booting \in Daemon /\ Booting.pc = "asleep" /\ Booting.cursor = NoCursor
      /\ Booting.alerts = {}
  BY DEF Booting, Daemon, NoCursor
<1>5. DaemonsSound
  <2>1. Carries(stream, Booting)
    BY <1>1, <1>3, <1>4, PlaybookAssumption DEF Carries, NoCursor
  <2>2. Sound(stream, grounds, log, Booting)
    BY <1>4, <2>1 DEF Sound, Counted, DueIn, Noted, Busy
  <2>3. QED
    BY <1>1, <1>4, <2>2 DEF DaemonsSound
<1>6. Tallied /\ Grounded /\ Warranted
  BY <1>1, <1>3 DEF Tallied, Grounded, Warranted
<1>7. AllUnread
  BY <1>1 DEF AllUnread, Unread
<1>8. Ending(stream, daemon, window, faults)
  BY <1>1 DEF Ending, Endless
<1>9. QED
  BY <1>2, <1>5, <1>6, <1>7, <1>8 DEF PlaybookIInv

\* The invariant says all that FreezeWarranted asks.
LEMMA Warrants ==
  ASSUME PlaybookIInv
  PROVE  FreezeWarranted
<1>1. \A s \in frozen : Suffices(s)
  BY DEF PlaybookIInv, StoresTypes, Warranted, Grounded
<1>2. \A d \in Daemons : daemon[d].pc = "expire" => Subject(d) = Due(stream, daemon[d])
  BY Considers DEF Has, Busy
<1>3. \A s \in Subjects : Endless(window, s) =>
        faults > 0 \/ \E d \in Daemons : daemon[d].pc = "expire" /\ Subject(d) = s
  BY <1>2 DEF PlaybookIInv, Ending
<1>4. QED
  BY <1>1, <1>3 DEF FreezeWarranted, Suffices, Endless, PlaybookIInv, Warranted, log

\* _respond freezes for cause: however many workers run the playbook, and
\* whatever is lost, replayed or restarted, no cursor counts a deny twice; so
\* one window of a frozen subject held as many different reads of its denies
\* as the policy asks for, its incident is in the log or has failed to be
\* written, and only a lost call or a dead worker leaves a window without end.
THEOREM FreezeWarrantedCorrect == PlaybookSpec => []FreezeWarranted
<1>1. PlaybookInit => PlaybookIInv
  BY PlaybookStarts
<1>2. PlaybookIInv /\ [PlaybookNext]_playVars => PlaybookIInv'
  BY PlaybookStep
<1>3. PlaybookIInv => FreezeWarranted
  BY Warrants
<1>4. QED
  BY <1>1, <1>2, <1>3, PTL DEF PlaybookSpec

---------------------------------------------------------------------------
(* Both, each beside the other *)

\* A behaviour of the two is a behaviour of each.
LEMMA EachResponse == Spec => GrantSpec /\ PlaybookSpec
<1>1. Init => GrantInit /\ PlaybookInit
  BY DEF Init
<1>2. [Next]_vars => [GrantNext]_grantVars /\ [PlaybookNext]_playVars
  BY DEF Next, InGrants, InPlaybook, vars
<1>3. QED
  BY <1>1, <1>2, PTL DEF Spec, GrantSpec, PlaybookSpec

\* Every variable of the grants and of the playbook has its type, no cache
\* outgrows its size (NegativeGrantCache), and no poll takes more alerts than
\* its limit (scan_alerts).
THEOREM ResponsesTypesCorrect == Spec => []TypesOK
<1>1. PlaybookInit => PlaybookIInv
  BY PlaybookStarts
<1>2. PlaybookIInv /\ [PlaybookNext]_playVars => PlaybookIInv'
  BY PlaybookStep
<1>3. PlaybookIInv => PlaybookTypeOK
  BY DEF PlaybookIInv, StoresTypes, DaemonsSound, Sound, Carries, PlaybookTypeOK
<1>4. PlaybookSpec => []PlaybookTypeOK
  BY <1>1, <1>2, <1>3, PTL DEF PlaybookSpec
<1>5. QED
  BY <1>4, GrantTypeCorrect, EachResponse, PTL DEF TypesOK
=============================================================================
