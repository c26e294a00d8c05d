----------------------------- MODULE StoresProofs -----------------------------
(***************************************************************************)
(* What administrators keep, for any number of administrators, calls, rows *)
(* and failures.                                                           *)
(***************************************************************************)
EXTENDS MCStores, FiniteSetTheorems, TLAPS

---------------------------------------------------------------------------
(* The broker: what a request carries from one round trip to the next      *)

BindCalls ==
  [at : {"known", "count", "ref", "log", "put"}, op : {"bind"}, env : Envs, binding : Bindings]
StoreCalls ==
  [at : {"known", "count", "log", "put"}, op : {"store"}, secret : Secrets,
   material : Materials]
VendCalls ==
  [at : {"resolve", "open", "access", "spend"}, op : {"vend"}, env : Envs, scope : Scopes,
   binding : Bindings \cup {None}, material : Materials \cup {Host, None}]
UnbindCalls  == [at : {"remove"}, op : {"unbind"}, env : Envs]
DiscardCalls == [at : {"log", "remove"}, op : {"discard"}, secret : Secrets]
BrokerCalls  == BindCalls \cup StoreCalls \cup VendCalls \cup UnbindCalls \cup DiscardCalls

BindRecord(e, b)      == [kind |-> "bind", env |-> e, binding |-> b]
SecretRecord(k, s, m) == [kind |-> k, secret |-> s, material |-> m]

\* A request goes on from what it has read, which is on record: a write for
\* its own record, a call for the binding and the material it holds.
Warranted(c, rec) ==
  /\ c.at = "put" /\ c.op = "bind" => BindRecord(c.env, c.binding) \in rec
  /\ c.at = "put" /\ c.op = "store" => SecretRecord("store", c.secret, c.material) \in rec
  /\ c.at \in {"open", "access", "spend"} =>
       /\ c.binding \in Bindings
       /\ c.binding.scope \in {None, c.scope}
       /\ BindRecord(c.env, c.binding) \in rec
  /\ c.at \in {"open", "access"} => c.binding.ref # None
  /\ c.at = "spend" => (c.binding.ref = None <=> c.material = Host)
  /\ c.at \in {"access", "spend"} /\ c.binding.ref # None =>
       /\ c.material \in Materials
       /\ SecretRecord("store", c.binding.ref, c.material) \in rec
  /\ c.at = "spend" /\ c.binding.ref # None =>
       SecretRecord("access", c.binding.ref, c.material) \in rec

VendTyped ==
  /\ envs \in [Envs -> Bindings \cup {None}]
  /\ vault \in [Secrets -> SealedRows \cup {None}]
  /\ call \in [Callers -> BrokerCalls \cup {Idle}]
  /\ onRecord \subseteq Records
  /\ spends \subseteq [env : Envs, binding : Bindings, scope : Scopes,
                       material : Materials \cup {Host}]
  /\ calls \in 0 .. MaxCalls /\ failures \in 0 .. MaxFailures

VendIInv ==
  /\ VendTyped
  /\ StoredOnRecord
  /\ \A r \in Callers : Warranted(call[r], onRecord)
  /\ VendsAsBound

\* The record only grows, and what was warranted stays so.
LEMMA WarrantKept ==
  ASSUME NEW c, NEW S, NEW T, S \subseteq T, Warranted(c, S)
  PROVE  Warranted(c, T)
BY DEF Warranted

\* The kinds of request, told apart by where they are and what they do.
LEMMA CallKinds ==
  ASSUME NEW c \in BrokerCalls \cup {Idle}
  PROVE  /\ c.at \in {"known", "count", "put"} => c \in BindCalls \cup StoreCalls
         /\ c.at = "ref" => c \in BindCalls
         /\ c.at = "log" => c \in BindCalls \cup StoreCalls \cup DiscardCalls
         /\ c.at = "remove" => c \in UnbindCalls \cup DiscardCalls
         /\ c.at \in {"resolve", "open", "access", "spend"} => c \in VendCalls
         /\ c \in BindCalls <=> c # Idle /\ c.op = "bind"
BY DEF BrokerCalls, BindCalls, StoreCalls, VendCalls, UnbindCalls, DiscardCalls, Idle

\* A step of one request that leaves the two stores alone.
LEMMA CallMoves ==
  ASSUME VendIInv, NEW r \in Callers, NEW c \in BrokerCalls \cup {Idle},
         call' = [call EXCEPT ![r] = c], UNCHANGED stores, spends' = spends,
         onRecord \subseteq onRecord', onRecord' \subseteq Records,
         calls' \in 0 .. MaxCalls, failures' \in 0 .. MaxFailures,
         Warranted(c, onRecord')
  PROVE  VendIInv'
<1>1. VendTyped'
  BY DEF VendIInv, VendTyped, stores
<1>2. StoredOnRecord'
  BY DEF VendIInv, StoredOnRecord, stores
<1>3. ASSUME NEW q \in Callers PROVE Warranted(call'[q], onRecord')
  <2>1. CASE q = r
    BY <2>1 DEF VendIInv, VendTyped
  <2>2. CASE q # r
    <3>1. call'[q] = call[q]
      BY <2>2 DEF VendIInv, VendTyped
    <3>2. Warranted(call[q], onRecord)
      BY DEF VendIInv
    <3>3. QED
      BY <3>1, <3>2, WarrantKept
  <2>3. QED
    BY <2>1, <2>2
<1>4. VendsAsBound'
  BY DEF VendIInv, VendsAsBound
<1>5. QED
  BY <1>1, <1>2, <1>3, <1>4 DEF VendIInv

\* A request that ends.
LEMMA CallEnds ==
  ASSUME VendIInv, NEW r \in Callers, End(r), UNCHANGED <<stores, onRecord, spends>>,
         calls' \in 0 .. MaxCalls, failures' \in 0 .. MaxFailures
  PROVE  VendIInv'
<1>1. Warranted(Idle, onRecord)
  BY DEF Warranted, Idle
<1>2. QED
  BY <1>1, CallMoves DEF End, VendIInv, VendTyped

\* A request that goes on to a place where nothing more is asked of it.
LEMMA CallGoesOn ==
  ASSUME VendIInv, NEW r \in Callers, NEW at \in {"count", "ref", "log", "remove"},
         call[r] # Idle, GoOn(r, at), [call[r] EXCEPT !.at = at] \in BrokerCalls,
         UNCHANGED <<stores, spends>>,
         onRecord \subseteq onRecord', onRecord' \subseteq Records,
         calls' \in 0 .. MaxCalls, failures' \in 0 .. MaxFailures
  PROVE  VendIInv'
<1> DEFINE c == [call[r] EXCEPT !.at = at]
<1>1. c.at = at
  BY DEF BrokerCalls, BindCalls, StoreCalls, VendCalls, UnbindCalls, DiscardCalls, Idle,
         VendIInv, VendTyped
<1>2. Warranted(c, onRecord')
  BY <1>1 DEF Warranted
<1>3. call' = [call EXCEPT ![r] = c]
  BY DEF GoOn
<1> HIDE DEF c
<1>4. QED
  BY <1>2, <1>3, CallMoves DEF c

\* What the counters of the bounds do.
LEMMA VendBounds ==
  ASSUME VendIInv
  PROVE  /\ UNCHANGED calls => calls' \in 0 .. MaxCalls
         /\ calls < MaxCalls /\ calls' = calls + 1 => calls' \in 0 .. MaxCalls
         /\ Works \/ Fails => failures' \in 0 .. MaxFailures
         /\ UNCHANGED failures => failures' \in 0 .. MaxFailures
BY VendingAssumption DEF VendIInv, VendTyped, Works, Fails

LEMMA AskBrokerKeeps ==
  ASSUME VendIInv, NEW r \in Callers, AskBroker(r)
  PROVE  VendIInv'
<1>1. PICK c \in BrokerAsks : call' = [call EXCEPT ![r] = c]
  BY DEF AskBroker
<1>2. c \in BrokerCalls /\ c.at \in {"known", "resolve", "remove", "log"}
  BY DEF BrokerAsks, Bind, Store, Vend, Unbind, Discard, BrokerCalls, BindCalls, StoreCalls,
         VendCalls, UnbindCalls, DiscardCalls
<1>3. Warranted(c, onRecord)
  BY <1>2 DEF Warranted
<1>4. UNCHANGED <<stores, spends, onRecord>> /\ onRecord \subseteq Records
      /\ calls' \in 0 .. MaxCalls /\ failures' \in 0 .. MaxFailures
  BY VendBounds DEF AskBroker, VendIInv, VendTyped
<1>5. QED
  BY <1>1, <1>2, <1>3, <1>4, CallMoves

LEMMA LookUpKeeps ==
  ASSUME VendIInv, NEW r \in Callers, LookUp(r) \/ CountStore(r)
  PROVE  VendIInv'
<1>1. call[r] \in BindCalls \cup StoreCalls /\ call[r] # Idle
  BY CallKinds DEF VendIInv, VendTyped, LookUp, CountStore, Idle
<1>2. [call[r] EXCEPT !.at = "count"] \in BrokerCalls
  BY <1>1 DEF BrokerCalls, BindCalls, StoreCalls
<1>3. Checked(r) \in {"ref", "log"} /\ [call[r] EXCEPT !.at = Checked(r)] \in BrokerCalls
  BY <1>1 DEF BrokerCalls, BindCalls, StoreCalls, Checked
<1>4. onRecord' = onRecord /\ UNCHANGED <<stores, spends>> /\ onRecord \subseteq Records
      /\ calls' \in 0 .. MaxCalls /\ failures' \in 0 .. MaxFailures
  BY VendBounds DEF LookUp, CountStore, VendIInv, VendTyped
<1>5. GoOn(r, "count") \/ GoOn(r, Checked(r)) \/ End(r)
  BY DEF LookUp, CountStore
<1>6. QED
  BY <1>1, <1>2, <1>3, <1>4, <1>5, CallGoesOn, CallEnds

LEMMA CheckReferenceKeeps ==
  ASSUME VendIInv, NEW r \in Callers, CheckReference(r)
  PROVE  VendIInv'
<1>1. call[r] \in BindCalls /\ call[r] # Idle
  BY CallKinds DEF VendIInv, VendTyped, CheckReference, Idle
<1>2. [call[r] EXCEPT !.at = "log"] \in BrokerCalls
  BY <1>1 DEF BrokerCalls, BindCalls
<1>3. onRecord' = onRecord /\ UNCHANGED <<stores, spends>> /\ onRecord \subseteq Records
      /\ calls' \in 0 .. MaxCalls /\ failures' \in 0 .. MaxFailures
  BY VendBounds DEF CheckReference, VendIInv, VendTyped
<1>4. GoOn(r, "log") \/ End(r)
  BY DEF CheckReference
<1>5. QED
  BY <1>1, <1>2, <1>3, <1>4, CallGoesOn, CallEnds

\* A request that writes has its record in the log.
LEMMA EmitActionKeeps ==
  ASSUME VendIInv, NEW r \in Callers, EmitAction(r)
  PROVE  VendIInv'
<1>1. call[r] \in BindCalls \cup StoreCalls \cup DiscardCalls /\ call[r] # Idle
  BY CallKinds DEF VendIInv, VendTyped, EmitAction, Idle
<1>2. UNCHANGED <<stores, spends>> /\ calls' \in 0 .. MaxCalls /\ failures' \in 0 .. MaxFailures
  BY VendBounds DEF EmitAction
<1>3. CASE End(r) /\ UNCHANGED onRecord
  BY <1>2, <1>3, CallEnds
<1>4. ASSUME onRecord' = onRecord \cup Entry(r),
             GoOn(r, IF call[r].op = "discard" THEN "remove" ELSE "put")
      PROVE  VendIInv'
  <2> DEFINE c == [call[r] EXCEPT !.at = IF call[r].op = "discard" THEN "remove" ELSE "put"]
  <2>1. Entry(r) \subseteq Records
    BY <1>1 DEF Entry, Records, BindCalls, StoreCalls, DiscardCalls
  <2>2. onRecord \subseteq onRecord' /\ onRecord' \subseteq Records
    BY <1>4, <2>1 DEF VendIInv, VendTyped
  <2>3. c \in BrokerCalls /\ c # Idle
    BY <1>1 DEF BrokerCalls, BindCalls, StoreCalls, DiscardCalls, Idle
  <2>4. Warranted(c, onRecord')
    <3>1. CASE call[r] \in BindCalls
      BY <3>1, <1>4 DEF Warranted, Entry, BindRecord, BindCalls
    <3>2. CASE call[r] \in StoreCalls
      BY <3>2, <1>4 DEF Warranted, Entry, SecretRecord, StoreCalls
    <3>3. CASE call[r] \in DiscardCalls
      BY <3>3 DEF Warranted, DiscardCalls
    <3>4. QED
      BY <1>1, <3>1, <3>2, <3>3
  <2>5. call' = [call EXCEPT ![r] = c]
    BY <1>4 DEF GoOn
  <2> HIDE DEF c
  <2>6. QED
    BY <1>2, <2>2, <2>3, <2>4, <2>5, CallMoves
<1>5. QED
  BY <1>3, <1>4 DEF EmitAction

LEMMA PutRowKeeps ==
  ASSUME VendIInv, NEW r \in Callers, PutRow(r)
  PROVE  VendIInv'
<1>1. call[r] \in BindCalls \cup StoreCalls
  BY CallKinds DEF VendIInv, VendTyped, PutRow, Idle
<1>2. /\ UNCHANGED <<onRecord, spends>> /\ End(r)
      /\ calls' \in 0 .. MaxCalls /\ failures' \in 0 .. MaxFailures
  BY VendBounds DEF PutRow
<1>3. CASE UNCHANGED stores
  BY <1>2, <1>3, CallEnds
<1>4. CASE WriteStore(r)
  <2>1. Warranted(call[r], onRecord) /\ call[r].at = "put"
    BY DEF VendIInv, PutRow
  <2>2. StoredOnRecord' /\ envs' \in [Envs -> Bindings \cup {None}]
        /\ vault' \in [Secrets -> SealedRows \cup {None}]
    <3>1. CASE call[r] \in BindCalls
      BY <1>2, <1>4, <2>1, <3>1 DEF VendIInv, VendTyped, StoredOnRecord, WriteStore,
                                    Warranted, BindRecord, BindCalls
    <3>2. CASE call[r] \in StoreCalls
      BY <1>2, <1>4, <2>1, <3>2 DEF VendIInv, VendTyped, StoredOnRecord, WriteStore,
                                    Warranted, SecretRecord, StoreCalls, SealedRows
    <3>3. QED
      BY <1>1, <3>1, <3>2
  <2>3. Warranted(Idle, onRecord)
    BY DEF Warranted, Idle
  <2>4. VendTyped' /\ \A q \in Callers : Warranted(call'[q], onRecord')
    BY <1>2, <2>2, <2>3 DEF VendIInv, VendTyped, End
  <2>5. VendsAsBound'
    BY <1>2 DEF VendIInv, VendsAsBound
  <2>6. QED
    BY <2>2, <2>4, <2>5 DEF VendIInv
<1>5. QED
  BY <1>3, <1>4 DEF PutRow

\* Rows that go, or that are copied, say nothing that is not on record.
LEMMA RowsMove ==
  ASSUME VendIInv, UNCHANGED <<onRecord, spends>>,
         call' \in [Callers -> BrokerCalls \cup {Idle}],
         \A q \in Callers : call'[q] \in {call[q], Idle},
         envs' \in [Envs -> Bindings \cup {None}], vault' \in [Secrets -> SealedRows \cup {None}],
         \A e \in Envs : envs'[e] \in {envs[e], None},
         \A s \in Secrets : vault'[s] = None \/ \E t \in Secrets : vault'[s] = vault[t],
         calls' \in 0 .. MaxCalls, failures' \in 0 .. MaxFailures
  PROVE  VendIInv'
<1>1. VendTyped'
  BY DEF VendIInv, VendTyped
<1>2. StoredOnRecord'
  BY DEF VendIInv, StoredOnRecord
<1>3. Warranted(Idle, onRecord)
  BY DEF Warranted, Idle
<1>4. \A q \in Callers : Warranted(call'[q], onRecord')
  BY <1>3 DEF VendIInv
<1>5. VendsAsBound'
  BY DEF VendIInv, VendsAsBound
<1>6. QED
  BY <1>1, <1>2, <1>4, <1>5 DEF VendIInv

LEMMA RemoveEntryKeeps ==
  ASSUME VendIInv, NEW r \in Callers, RemoveEntry(r)
  PROVE  VendIInv'
<1>1. call[r] \in UnbindCalls \cup DiscardCalls
  BY CallKinds DEF VendIInv, VendTyped, RemoveEntry, Idle
<1>2. /\ UNCHANGED <<onRecord, spends>> /\ End(r)
      /\ calls' \in 0 .. MaxCalls /\ failures' \in 0 .. MaxFailures
  BY VendBounds DEF RemoveEntry
<1>3. /\ envs' \in [Envs -> Bindings \cup {None}] /\ vault' \in [Secrets -> SealedRows \cup {None}]
      /\ \A e \in Envs : envs'[e] \in {envs[e], None}
      /\ \A s \in Secrets : vault'[s] \in {vault[s], None}
  BY <1>1 DEF RemoveEntry, VendIInv, VendTyped, stores, UnbindCalls, DiscardCalls
<1>4. /\ call' \in [Callers -> BrokerCalls \cup {Idle}]
      /\ \A q \in Callers : call'[q] \in {call[q], Idle}
  BY <1>2 DEF End, VendIInv, VendTyped
<1>5. QED
  BY <1>2, <1>3, <1>4, RowsMove

LEMMA CopyRowKeeps ==
  ASSUME VendIInv, CopyRow
  PROVE  VendIInv'
<1>1. UNCHANGED <<envs, onRecord, call, spends>> /\ calls' \in 0 .. MaxCalls
      /\ failures' \in 0 .. MaxFailures
  BY VendBounds DEF CopyRow
<1>2. /\ vault' \in [Secrets -> SealedRows \cup {None}]
      /\ \A s \in Secrets : \E t \in Secrets : vault'[s] = vault[t]
  BY DEF CopyRow, VendIInv, VendTyped
<1>3. QED
  BY <1>1, <1>2, RowsMove DEF VendIInv, VendTyped

LEMMA ResolveEnvKeeps ==
  ASSUME VendIInv, NEW r \in Callers, ResolveEnv(r)
  PROVE  VendIInv'
<1>1. call[r] \in VendCalls /\ call[r].at = "resolve"
  BY CallKinds DEF VendIInv, VendTyped, ResolveEnv, At, Idle
<1>2. UNCHANGED <<stores, onRecord, spends>> /\ onRecord \subseteq Records
      /\ calls' \in 0 .. MaxCalls /\ failures' \in 0 .. MaxFailures
  BY VendBounds DEF ResolveEnv, VendIInv, VendTyped
<1>3. CASE End(r)
  BY <1>2, <1>3, CallEnds
<1> DEFINE b == envs[call[r].env]
           c == [call[r] EXCEPT !.binding = b, !.at = IF b.ref = None THEN "spend" ELSE "open",
                                !.material = IF b.ref = None THEN Host ELSE None]
<1>4. CASE Serves(b, call[r].scope) /\ call' = [call EXCEPT ![r] = c]
  <2>1. call[r].env \in Envs
    BY <1>1 DEF VendCalls
  <2>2. b \in Bindings /\ b.scope \in {None, call[r].scope} /\ b # None
    BY <1>4, <2>1 DEF Serves, VendIInv, VendTyped
  <2>3. BindRecord(call[r].env, b) \in onRecord
    BY <2>1, <2>2 DEF VendIInv, StoredOnRecord, BindRecord
  <2> HIDE DEF b
  <2>4. c \in VendCalls /\ c.env = call[r].env /\ c.scope = call[r].scope /\ c.binding = b
        /\ c.at = (IF b.ref = None THEN "spend" ELSE "open")
        /\ c.material = (IF b.ref = None THEN Host ELSE None)
    BY <1>1, <2>2 DEF VendCalls
  <2> HIDE DEF c
  <2>5. Warranted(c, onRecord)
    BY <2>2, <2>3, <2>4 DEF Warranted
  <2>6. QED
    BY <1>2, <1>4, <2>4, <2>5, CallMoves DEF BrokerCalls
<1>5. QED
  BY <1>3, <1>4 DEF ResolveEnv

LEMMA OpenSecretKeeps ==
  ASSUME VendIInv, NEW r \in Callers, OpenSecret(r)
  PROVE  VendIInv'
<1>1. call[r] \in VendCalls /\ call[r].at = "open"
  BY CallKinds DEF VendIInv, VendTyped, OpenSecret, At, Idle
<1>2. UNCHANGED <<stores, onRecord, spends>> /\ onRecord \subseteq Records
      /\ calls' \in 0 .. MaxCalls /\ failures' \in 0 .. MaxFailures
  BY VendBounds DEF OpenSecret, VendIInv, VendTyped
<1> DEFINE ref == call[r].binding.ref
           row == vault[ref]
           c   == [call[r] EXCEPT !.at = "access", !.material = row.material]
<1>3. CASE End(r)
  BY <1>2, <1>3, CallEnds
<1>4. CASE Opens(row, ref) /\ call' = [call EXCEPT ![r] = c]
  <2>1. Warranted(call[r], onRecord)
    BY DEF VendIInv
  <2>2. call[r].binding \in Bindings /\ ref \in Secrets
    BY <1>1, <2>1 DEF Warranted, Bindings, Refs
  <2>3. row \in SealedRows /\ row.sealed = ref
    BY <1>4, <2>2 DEF Opens, VendIInv, VendTyped
  <2>4. SecretRecord("store", ref, row.material) \in onRecord /\ row.material \in Materials
    BY <1>4, <2>2, <2>3 DEF VendIInv, StoredOnRecord, SecretRecord, Opens, SealedRows
  <2> HIDE DEF row
  <2>5. c \in VendCalls /\ c.env = call[r].env /\ c.scope = call[r].scope
        /\ c.binding = call[r].binding /\ c.at = "access" /\ c.material = row.material
    BY <1>1, <2>4 DEF VendCalls
  <2> HIDE DEF c
  <2>6. Warranted(c, onRecord)
    BY <1>1, <2>1, <2>2, <2>4, <2>5 DEF Warranted
  <2>7. QED
    BY <1>2, <1>4, <2>5, <2>6, CallMoves DEF BrokerCalls
<1>5. QED
  BY <1>3, <1>4 DEF OpenSecret

LEMMA RecordAccessKeeps ==
  ASSUME VendIInv, NEW r \in Callers, RecordAccess(r)
  PROVE  VendIInv'
<1>1. call[r] \in VendCalls /\ call[r].at = "access"
  BY CallKinds DEF VendIInv, VendTyped, RecordAccess, At, Idle
<1>2. UNCHANGED <<stores, spends>> /\ calls' \in 0 .. MaxCalls /\ failures' \in 0 .. MaxFailures
  BY VendBounds DEF RecordAccess
<1> DEFINE access == SecretRecord("access", call[r].binding.ref, call[r].material)
           c      == [call[r] EXCEPT !.at = "spend"]
<1>3. CASE End(r) /\ UNCHANGED onRecord
  BY <1>2, <1>3, CallEnds
<1>4. CASE GoOn(r, "spend") /\ onRecord' = onRecord \cup {access}
  <2>1. Warranted(call[r], onRecord)
    BY DEF VendIInv
  <2>2. call[r].binding.ref \in Secrets /\ call[r].material \in Materials
        /\ call[r].binding.ref # None /\ call[r].material # Host
    BY <1>1, <2>1, VendingAssumption DEF Warranted, Bindings, Refs
  <2>3. access \in Records
    BY <2>2 DEF Records, SecretRecord
  <2>4. onRecord \subseteq onRecord' /\ onRecord' \subseteq Records
    BY <1>4, <2>3 DEF VendIInv, VendTyped
  <2>5. c \in VendCalls /\ c.env = call[r].env /\ c.scope = call[r].scope
        /\ c.binding = call[r].binding /\ c.at = "spend" /\ c.material = call[r].material
    BY <1>1 DEF VendCalls
  <2>6. call' = [call EXCEPT ![r] = c]
    BY <1>4 DEF GoOn
  <2> HIDE DEF c
  <2>7. access \in onRecord'
    BY <1>4
  <2>8. Warranted(c, onRecord')
    BY <1>1, <2>1, <2>2, <2>4, <2>5, <2>7 DEF Warranted
  <2>9. QED
    BY <1>2, <2>4, <2>5, <2>6, <2>8, CallMoves DEF BrokerCalls
<1>5. QED
  BY <1>3, <1>4 DEF RecordAccess, SecretRecord

\* The provider is shown what the request was warranted.
LEMMA SpendKeeps ==
  ASSUME VendIInv, NEW r \in Callers, Spend(r)
  PROVE  VendIInv'
<1>1. call[r] \in VendCalls /\ call[r].at = "spend"
  BY CallKinds DEF VendIInv, VendTyped, Spend, At, Idle
<1>2. UNCHANGED <<stores, onRecord>> /\ calls' \in 0 .. MaxCalls /\ failures' \in 0 .. MaxFailures
      /\ End(r)
  BY VendBounds DEF Spend
<1>3. Warranted(call[r], onRecord)
  BY DEF VendIInv
<1>4. PICK v : /\ spends' = spends \cup {v}
               /\ v = [env |-> call[r].env, binding |-> call[r].binding,
                       scope |-> call[r].scope, material |-> call[r].material]
  BY DEF Spend
<1>5. v.env = call[r].env /\ v.binding = call[r].binding /\ v.scope = call[r].scope
      /\ v.material = call[r].material
  BY <1>4
<1>6. call[r].binding \in Bindings /\ call[r].material \in Materials \cup {Host}
      /\ call[r].env \in Envs /\ call[r].scope \in Scopes
  BY <1>1, <1>3 DEF Warranted, VendCalls
<1>7. v \in [env : Envs, binding : Bindings, scope : Scopes, material : Materials \cup {Host}]
  BY <1>4, <1>6
<1>8. VendsAsBound'
  <2>1. SUFFICES ASSUME NEW w \in spends'
                 PROVE  /\ [kind |-> "bind", env |-> w.env, binding |-> w.binding] \in onRecord
                        /\ w.binding.scope \in {None, w.scope}
                        /\ w.binding.ref = None <=> w.material = Host
                        /\ w.binding.ref # None => \A kind \in {"store", "access"} :
                             [kind |-> kind, secret |-> w.binding.ref,
                              material |-> w.material] \in onRecord
    BY <1>2 DEF VendsAsBound
  <2>2. CASE w \in spends
    BY <2>2 DEF VendIInv, VendsAsBound
  <2>3. CASE w = v
    BY <2>3, <1>1, <1>3, <1>5 DEF Warranted, BindRecord, SecretRecord
  <2>4. QED
    BY <1>4, <2>2, <2>3
<1>9. VendTyped'
  BY <1>2, <1>4, <1>7 DEF VendIInv, VendTyped, End, stores
<1>10. \A q \in Callers : Warranted(call'[q], onRecord')
  <2>1. Warranted(Idle, onRecord)
    BY DEF Warranted, Idle
  <2>2. QED
    BY <1>2, <2>1 DEF VendIInv, VendTyped, End
<1>11. StoredOnRecord'
  BY <1>2 DEF VendIInv, StoredOnRecord, stores
<1>12. QED
  BY <1>8, <1>9, <1>10, <1>11 DEF VendIInv

LEMMA VendStarts == VendInit => VendIInv
BY VendingAssumption DEF VendInit, VendIInv, VendTyped, StoredOnRecord, Warranted, VendsAsBound, Idle

LEMMA VendInductive == VendIInv /\ [VendNext]_vendVars => VendIInv'
<1>1. SUFFICES ASSUME VendIInv, [VendNext]_vendVars PROVE VendIInv'
  OBVIOUS
<1>2. CASE CopyRow
  BY <1>1, <1>2, CopyRowKeeps
<1>3. ASSUME NEW r \in Callers, AskBroker(r) PROVE VendIInv'
  BY <1>1, <1>3, AskBrokerKeeps
<1>4. ASSUME NEW r \in Callers, Abandon(r) PROVE VendIInv'
  BY <1>1, <1>4, CallEnds, VendBounds DEF Abandon
<1>5. ASSUME NEW r \in Callers,
             LookUp(r) \/ CountStore(r) \/ CheckReference(r) \/ EmitAction(r)
             \/ PutRow(r) \/ RemoveEntry(r)
      PROVE  VendIInv'
  BY <1>1, <1>5, LookUpKeeps, CheckReferenceKeeps, EmitActionKeeps, PutRowKeeps,
     RemoveEntryKeeps
<1>6. ASSUME NEW r \in Callers,
             ResolveEnv(r) \/ OpenSecret(r) \/ RecordAccess(r) \/ Spend(r)
      PROVE  VendIInv'
  BY <1>1, <1>6, ResolveEnvKeeps, OpenSecretKeeps, RecordAccessKeeps, SpendKeeps
<1>7. CASE UNCHANGED vendVars
  BY <1>1, <1>7 DEF vendVars, VendIInv, VendTyped, StoredOnRecord, VendsAsBound
<1>8. QED
  BY <1>1, <1>2, <1>3, <1>4, <1>5, <1>6, <1>7 DEF VendNext

\* What the provider is shown was bound, stored and recorded, for any number of
\* concurrent calls and administrators (CloudIAMTransport.execute,
\* CloudBroker._broker_material, SecretVault.get_material).
THEOREM VendsAsBoundCorrect == VendSpec => []VendsAsBound
<1>1. VendIInv => VendsAsBound
  BY DEF VendIInv
<1>2. QED
  BY <1>1, VendStarts, VendInductive, PTL DEF VendSpec

---------------------------------------------------------------------------
(* The desk *)

\* Only an investigator retrieves, and he writes nothing.
Suits(at, ask) ==
  /\ at = "retrieve" => ask.op = "read"
  /\ at = "write" => ask.op # "read"

DeskOrders ==
  {w \in [at : {"revocation", "quarantine", "retrieve", "record", "write"}, ask : Asks,
          found : Queries \cup {Empty, "on"}] :
     Suits(w.at, w.ask) /\ (w.ask.op = "read" => w.found \in Queries \cup {Empty})}

DeskTyped ==
  /\ revoked \subseteq Officers /\ quarantined \subseteq Officers /\ disabled \subseteq Tools
  /\ papers \in [Papers -> Contents \cup {NoPaper}]
  /\ captures \in [Queries -> Queries \cup {Empty}] /\ due \subseteq Queries
  /\ audit \subseteq Notes
  /\ order \in [Orders -> DeskOrders \cup {Waiting}]
  /\ under \in [Orders -> SUBSET {"revoked", "quarantined"}]
  /\ disclosed \subseteq [by : Officers, query : Queries, shown : Queries]
  /\ orders \in 0 .. MaxOrders /\ hiccups \in 0 .. MaxHiccups

\* A switch that has been on since an order came is still on, and the order has
\* not come past the read of that switch.
HeldAtTheGate ==
  \A o \in Orders :
    /\ under[o] \subseteq SwitchesOn(o)
    /\ "revoked" \in under[o] => order[o].at = "revocation"
    /\ "quarantined" \in under[o] => order[o].at \in {"revocation", "quarantine"}

GateIInv == DeskTyped /\ HeldAtTheGate

\* The kinds of request, told apart by what they ask.
LEMMA AskKinds ==
  ASSUME NEW a \in Asks
  PROVE  /\ a.op \in {"revoke", "reactivate", "disable", "enable", "put", "delete", "read"}
         /\ a.by \in Officers
         /\ a.op \in {"revoke", "reactivate"} => a.on \in Officers
         /\ a.op \in {"disable", "enable"} => a.on \in Tools
         /\ a.op = "put" => a.on \in Papers \X Contents
         /\ a.op = "delete" => a.on = "policy"
         /\ a.op = "read" => a.on \in Queries
BY DEF Asks

LEMMA WaitingApart == Waiting \notin DeskOrders /\ Waiting.at = "waiting"
BY DEF Waiting, DeskOrders

\* What moving one order does to the others.
LEMMA OrderMoves ==
  ASSUME DeskTyped, NEW o \in Orders, NEW w, order' = [order EXCEPT ![o] = w]
  PROVE  order'[o] = w /\ \A x \in Orders \ {o} : order'[x] = order[x]
BY DEF DeskTyped

\* A step of the desk moves one order, along its place.
LEMMA DeskStepShape ==
  ASSUME DeskTyped, NEW o \in Orders, AtTheDesk(o)
  PROVE  \/ /\ order[o] = Waiting /\ order'[o] # Waiting /\ order'[o].at = "revocation"
            /\ UNCHANGED <<deskStores, audit, disclosed>>
         \/ /\ order[o] # Waiting /\ order[o].at = "revocation"
            /\ \/ order'[o] = Waiting
               \/ /\ order[o].ask.by \notin revoked /\ order'[o] = [order[o] EXCEPT !.at = "quarantine"]
            /\ UNCHANGED <<deskStores, audit, disclosed>>
         \/ /\ order[o] # Waiting /\ order[o].at = "quarantine"
            /\ \/ order'[o] = Waiting
               \/ order[o].ask.by \notin quarantined
            /\ UNCHANGED <<deskStores, audit, disclosed>>
         \/ order[o] # Waiting /\ order[o].at \in {"retrieve", "record", "write"}
<1>1. CASE PlaceOrder(o)
  BY <1>1 DEF PlaceOrder, DeskTyped, Waiting
<1>2. CASE CheckPrincipal(o)
  BY <1>2 DEF CheckPrincipal, Is, By, Finish, Advance, DeskTyped
<1>3. CASE CheckFreeze(o)
  BY <1>3 DEF CheckFreeze, Is, By, Finish, Advance, DeskTyped
<1>4. CASE Write(o) \/ Retrieve(o) \/ EmitNote(o)
  BY <1>4 DEF Write, Retrieve, EmitNote, Is
<1>5. QED
  BY <1>1, <1>2, <1>3, <1>4 DEF AtTheDesk

\* The place of an order is all that Advance changes.
LEMMA AdvanceStep ==
  ASSUME DeskTyped, NEW o \in Orders, order[o] # Waiting,
         NEW at \in {"quarantine", "retrieve", "record", "write"}, Advance(o, at),
         Suits(at, order[o].ask)
  PROVE  /\ order'[o] \in DeskOrders /\ order'[o].at = at
         /\ order'[o].ask = order[o].ask /\ order'[o].found = order[o].found
BY DEF DeskTyped, DeskOrders, Advance

\* Every action of the desk leaves the other orders alone, and what it makes of
\* its own is an order of its kind.
LEMMA OrderTyped ==
  ASSUME DeskTyped, NEW o \in Orders, AtTheDesk(o)
  PROVE  /\ \A x \in Orders \ {o} : order'[x] = order[x]
         /\ order' \in [Orders -> DeskOrders \cup {Waiting}]
         /\ order[o] # Waiting /\ order'[o] # Waiting => order'[o].ask = order[o].ask
<1>1. order[o] \in DeskOrders \cup {Waiting}
  BY DEF DeskTyped
<1>2. CASE Finish(o)
  BY <1>2 DEF Finish, DeskTyped
<1>3. ASSUME order[o] # Waiting, NEW at \in {"quarantine", "retrieve", "record", "write"},
             Advance(o, at), Suits(at, order[o].ask)
      PROVE  /\ \A x \in Orders \ {o} : order'[x] = order[x]
             /\ order' \in [Orders -> DeskOrders \cup {Waiting}]
             /\ order'[o].ask = order[o].ask
  BY <1>3, AdvanceStep DEF Advance, DeskTyped
<1>4. ASSUME order[o] # Waiting, NEW f \in Queries \cup {Empty, "on"},
             order[o].ask.op = "read" => f \in Queries \cup {Empty},
             order' = [order EXCEPT ![o].at = "record", ![o].found = f]
      PROVE  /\ \A x \in Orders \ {o} : order'[x] = order[x]
             /\ order' \in [Orders -> DeskOrders \cup {Waiting}]
             /\ order'[o].ask = order[o].ask
  <2>1. [order[o] EXCEPT !.at = "record", !.found = f] \in DeskOrders
    BY <1>1, <1>4 DEF DeskOrders, Suits
  <2>2. [order[o] EXCEPT !.at = "record", !.found = f].ask = order[o].ask
    BY <1>1, <1>4 DEF DeskOrders
  <2>3. QED
    BY <1>4, <2>1, <2>2 DEF DeskTyped
<1>5. CASE PlaceOrder(o)
  <2>1. PICK a \in Asks : order' = [order EXCEPT ![o] = [at |-> "revocation", ask |-> a,
                                                      found |-> Empty]]
    BY <1>5 DEF PlaceOrder
  <2>2. [at |-> "revocation", ask |-> a, found |-> Empty] \in DeskOrders
    BY DEF DeskOrders, Suits
  <2>3. QED
    BY <1>5, <2>1, <2>2 DEF PlaceOrder, DeskTyped
<1>6. CASE CheckPrincipal(o) \/ CheckFreeze(o)
  <2>1. Finish(o) \/ \E at \in {"quarantine", "retrieve", "record", "write"} :
                        Advance(o, at) /\ Suits(at, order[o].ask)
    BY <1>6 DEF CheckPrincipal, CheckFreeze, First, Op, Suits
  <2>2. QED
    BY <1>2, <1>3, <1>6, <2>1 DEF CheckPrincipal, CheckFreeze, Is
<1>7. CASE Write(o)
  <2>1. Finish(o) \/ \E f \in Queries \cup {Empty, "on"} :
                        order' = [order EXCEPT ![o].at = "record", ![o].found = f]
    BY <1>7 DEF Write
  <2>2. order[o].ask.op # "read"
    BY <1>1, <1>7 DEF Write, Is, DeskOrders, Suits
  <2>3. QED
    BY <1>2, <1>4, <1>7, <2>1, <2>2 DEF Write, Is
<1>8. CASE Retrieve(o)
  <2>1. On(o) \in Queries
    BY <1>1, <1>8, AskKinds DEF Retrieve, Is, DeskOrders, Suits, On
  <2>2. (IF OpensSealed(On(o)) THEN captures[On(o)] ELSE Empty) \in Queries \cup {Empty}
    BY <2>1 DEF DeskTyped
  <2>3. Advance(o, "record") \/ \E f \in Queries \cup {Empty} :
          order' = [order EXCEPT ![o].at = "record", ![o].found = f]
    BY <1>8, <2>2 DEF Retrieve
  <2>4. QED
    BY <1>3, <1>4, <1>8, <2>3 DEF Retrieve, Is, Suits
<1>9. CASE EmitNote(o)
  <2>1. Finish(o) \/ (Advance(o, "write") /\ Op(o) \notin {"reactivate", "enable", "read"})
    BY <1>9 DEF EmitNote
  <2>2. QED
    BY <1>2, <1>3, <1>9, <2>1 DEF EmitNote, Is, Op, Suits
<1>10. QED
  BY <1>5, <1>6, <1>7, <1>8, <1>9 DEF AtTheDesk

\* What happens beside the desk moves no order and throws no switch but the
\* quarantine.
OrdersLeftAlone ==
  /\ UNCHANGED <<order, orders, disclosed, revoked, disabled, papers>>
  /\ quarantined' \subseteq Officers /\ due' \subseteq Queries
  /\ captures' \in [Queries -> Queries \cup {Empty}]
  /\ audit' \subseteq Notes /\ hiccups' \in 0 .. MaxHiccups

LEMMA BesideTypes ==
  ASSUME DeskTyped, BesideTheDesk
  PROVE  OrdersLeftAlone
<1>1. ASSUME NEW a \in Officers, QuarantineOfficer(a) \/ FreezeEnds(a)
      PROVE  OrdersLeftAlone
  BY <1>1 DEF QuarantineOfficer, FreezeEnds, DeskTyped, OrdersLeftAlone
<1>2. ASSUME NEW q \in Queries, Decide(q)
      PROVE  OrdersLeftAlone
  <2>1. [op |-> "decision", on |-> q] \in Notes
    BY DEF Notes
  <2>2. QED
    BY <1>2, <2>1 DEF Decide, DeskTyped, deskStores, OrdersLeftAlone
<1>3. ASSUME NEW q \in Queries, Capture(q) \/ CaptureExpires(q)
      PROVE  OrdersLeftAlone
  BY <1>3 DEF Capture, CaptureExpires, DeskTyped, deskStores, OrdersLeftAlone
<1>4. ASSUME NEW q \in Queries, NEW r \in Queries, Misplace(q, r)
      PROVE  OrdersLeftAlone
  BY <1>4, DeskAssumption DEF Misplace, Hiccup, DeskTyped, deskStores, OrdersLeftAlone
<1>5. QED
  BY <1>1, <1>2, <1>3, <1>4 DEF BesideTheDesk

\* What a step of the desk leaves typed.
LEMMA DeskTypes ==
  ASSUME DeskTyped, NEW o \in Orders, AtTheDesk(o)
  PROVE  /\ revoked' \subseteq Officers /\ quarantined' = quarantined /\ disabled' \subseteq Tools
         /\ papers' \in [Papers -> Contents \cup {NoPaper}]
         /\ captures' = captures /\ due' = due
         /\ audit' \subseteq Notes
         /\ disclosed' \subseteq [by : Officers, query : Queries, shown : Queries]
         /\ orders' \in 0 .. MaxOrders /\ hiccups' \in 0 .. MaxHiccups
<1>1. order[o] \in DeskOrders \cup {Waiting}
  BY DEF DeskTyped
<1>2. Smooth \/ Hiccup => hiccups' \in 0 .. MaxHiccups
  BY DeskAssumption DEF Smooth, Hiccup, DeskTyped
<1>3. CASE PlaceOrder(o) \/ CheckPrincipal(o) \/ CheckFreeze(o) \/ Retrieve(o)
  <2>1. UNCHANGED <<deskStores, captures, due, audit, disclosed>>
    BY <1>3 DEF PlaceOrder, CheckPrincipal, CheckFreeze, Retrieve
  <2>2. orders' \in 0 .. MaxOrders /\ hiccups' \in 0 .. MaxHiccups
    BY <1>2, <1>3, DeskAssumption DEF PlaceOrder, CheckPrincipal, CheckFreeze, Retrieve, DeskTyped
  <2>3. QED
    BY <2>1, <2>2 DEF deskStores, DeskTyped
<1>4. CASE Write(o)
  <2>1. order[o].ask \in Asks /\ order[o].ask.op # "read"
    BY <1>1, <1>4 DEF Write, Is, DeskOrders, Suits
  <2>2. UNCHANGED <<revoked, disabled, papers>> \/ Apply(o)
    BY <1>4 DEF Write
  <2>3. revoked' \subseteq Officers /\ disabled' \subseteq Tools
        /\ papers' \in [Papers -> Contents \cup {NoPaper}]
    <3>1. CASE UNCHANGED <<revoked, disabled, papers>>
      BY <3>1 DEF DeskTyped
    <3>2. CASE Apply(o) /\ Op(o) \in {"revoke", "reactivate"}
      <4>1. On(o) \in Officers
        BY <2>1, <3>2, AskKinds DEF Op, On
      <4>2. revoked' = Switched(revoked, o) /\ UNCHANGED <<disabled, papers>>
        BY <3>2 DEF Apply
      <4>3. Switched(revoked, o) \subseteq revoked \cup {On(o)}
        BY DEF Switched
      <4>4. QED
        BY <4>1, <4>2, <4>3 DEF DeskTyped
    <3>3. CASE Apply(o) /\ Op(o) \in {"disable", "enable"}
      <4>1. On(o) \in Tools
        BY <2>1, <3>3, AskKinds DEF Op, On
      <4>2. disabled' = Switched(disabled, o) /\ UNCHANGED <<revoked, papers>>
        BY <3>3 DEF Apply
      <4>3. Switched(disabled, o) \subseteq disabled \cup {On(o)}
        BY DEF Switched
      <4>4. QED
        BY <4>1, <4>2, <4>3 DEF DeskTyped
    <3>4. CASE Apply(o) /\ Op(o) = "put"
      BY <2>1, <3>4, AskKinds DEF Apply, Op, On, DeskTyped
    <3>5. CASE Apply(o) /\ Op(o) = "delete"
      BY <3>5 DEF Apply, DeskTyped
    <3>6. QED
      BY <2>1, <2>2, <3>1, <3>2, <3>3, <3>4, <3>5, AskKinds DEF Op
  <2>4. QED
    BY <1>2, <1>4, <2>3 DEF Write, DeskTyped
<1>5. CASE EmitNote(o)
  <2>1. order[o].ask \in Asks /\ (Op(o) = "read" => order[o].found \in Queries \cup {Empty})
    BY <1>1, <1>5 DEF EmitNote, Is, DeskOrders, Op
  <2>2. Note(o) \in Notes
    <3>1. PICK h \in BOOLEAN : h = (order[o].found # Empty)
      OBVIOUS
    <3>2. Note(o) = [op |-> Op(o), by |-> By(o), on |-> On(o), hit |-> h]
      BY <3>1, Zenon DEF Note
    <3>3. QED
      BY <2>1, <3>2 DEF Notes, Op, By, On
  <2>3. audit' \subseteq Notes
    BY <1>5, <2>2 DEF EmitNote, DeskTyped
  <2>4. disclosed' \subseteq [by : Officers, query : Queries, shown : Queries]
    <3>1. CASE Op(o) = "read" /\ order[o].found \in Queries
      BY <1>5, <2>1, <3>1, AskKinds DEF EmitNote, DeskTyped, Op, By, On
    <3>2. CASE Op(o) # "read" \/ order[o].found = Empty
      BY <1>5, <3>2 DEF EmitNote, DeskTyped
    <3>3. QED
      BY <2>1, <3>1, <3>2
  <2>5. QED
    BY <1>2, <1>5, <2>3, <2>4 DEF EmitNote, DeskTyped, deskStores
<1>6. QED
  BY <1>3, <1>4, <1>5 DEF AtTheDesk

LEMMA GateStarts == DeskInit => GateIInv
BY DeskAssumption, WaitingApart
DEF DeskInit, GateIInv, DeskTyped, HeldAtTheGate, SwitchesOn

LEMMA TypesKept ==
  ASSUME DeskTyped, DeskNext
  PROVE  DeskTyped'
<1>1. under' \in [Orders -> SUBSET {"revoked", "quarantined"}]
  <2>1. SUFFICES ASSUME NEW o \in Orders
                 PROVE  (IF order[o] = Waiting THEN SwitchesOn(o)' ELSE under[o] \cap SwitchesOn(o)')
                          \subseteq {"revoked", "quarantined"}
    BY DEF DeskNext
  <2>2. SwitchesOn(o)' \subseteq {"revoked", "quarantined"}
    BY DEF SwitchesOn
  <2>3. QED
    BY <2>2 DEF DeskTyped
<1>2. CASE BesideTheDesk
  <2>1. OrdersLeftAlone
    BY <1>2, BesideTypes
  <2>2. QED
    BY <1>1, <2>1 DEF OrdersLeftAlone, DeskTyped
<1>3. ASSUME NEW o \in Orders, AtTheDesk(o)
      PROVE  DeskTyped'
  BY <1>1, <1>3, DeskTypes, OrderTyped DEF DeskTyped
<1>4. QED
  BY <1>2, <1>3 DEF DeskNext

LEMMA GateKept ==
  ASSUME GateIInv, DeskNext
  PROVE  HeldAtTheGate'
<1>1. SUFFICES ASSUME NEW x \in Orders
               PROVE  /\ under'[x] \subseteq SwitchesOn(x)'
                      /\ "revoked" \in under'[x] => order'[x].at = "revocation"
                      /\ "quarantined" \in under'[x] =>
                           order'[x].at \in {"revocation", "quarantine"}
  BY DEF HeldAtTheGate
<1>2. /\ under'[x] = IF order[x] = Waiting THEN SwitchesOn(x)' ELSE under[x] \cap SwitchesOn(x)'
      /\ DeskTyped /\ HeldAtTheGate
  BY DEF DeskNext, GateIInv
<1>3. under'[x] \subseteq SwitchesOn(x)'
  BY <1>2
<1>4. CASE order'[x] = Waiting
  BY <1>3, <1>4 DEF SwitchesOn
<1>5. CASE order'[x] # Waiting /\ order'[x] = order[x]
  BY <1>2, <1>3, <1>5 DEF HeldAtTheGate
<1>6. CASE order'[x] # Waiting /\ order'[x] # order[x]
  <2>1. AtTheDesk(x)
    <3>1. ~BesideTheDesk
      BY <1>2, <1>6, BesideTypes DEF OrdersLeftAlone
    <3>2. PICK o \in Orders : AtTheDesk(o)
      BY <3>1 DEF DeskNext
    <3>3. o = x
      BY <1>2, <1>6, <3>2, OrderTyped
    <3>4. QED
      BY <3>2, <3>3
  <2>2. CASE order[x] = Waiting
    <3>1. order'[x].at = "revocation"
      BY <1>2, <2>1, <2>2, DeskStepShape
    <3>2. QED
      BY <1>3, <3>1
  <2>3. CASE order[x] # Waiting /\ order[x].at = "revocation"
    <3>1. order'[x].at = "quarantine" /\ order[x].ask.by \notin revoked
      BY <1>2, <1>6, <2>1, <2>3, DeskStepShape DEF DeskTyped, DeskOrders
    <3>2. "revoked" \notin under[x]
      BY <1>2, <2>3, <3>1 DEF HeldAtTheGate, SwitchesOn, By
    <3>3. QED
      BY <1>2, <1>3, <2>3, <3>1, <3>2
  <2>4. CASE order[x] # Waiting /\ order[x].at = "quarantine"
    <3>1. order[x].ask.by \notin quarantined
      BY <1>2, <1>6, <2>1, <2>4, DeskStepShape
    <3>2. under[x] = {}
      BY <1>2, <2>4, <3>1 DEF HeldAtTheGate, SwitchesOn, By, DeskTyped
    <3>3. QED
      BY <1>2, <1>3, <2>4, <3>2
  <2>5. CASE order[x] # Waiting /\ order[x].at \in {"retrieve", "record", "write"}
    <3>1. under[x] = {}
      BY <1>2, <2>5 DEF HeldAtTheGate, DeskTyped
    <3>2. QED
      BY <1>2, <1>3, <2>5, <3>1
  <2>6. QED
    BY <1>2, <2>2, <2>3, <2>4, <2>5 DEF DeskTyped, DeskOrders
<1>7. QED
  BY <1>4, <1>5, <1>6

LEMMA GateInductive == GateIInv /\ [DeskNext]_deskVars => GateIInv'
<1>1. GateIInv /\ DeskNext => GateIInv'
  BY TypesKept, GateKept DEF GateIInv
<1>2. GateIInv /\ UNCHANGED deskVars => GateIInv'
  BY DEF GateIInv, DeskTyped, HeldAtTheGate, SwitchesOn, By, deskVars, deskStores
<1>3. QED
  BY <1>1, <1>2

\* Who was frozen or revoked before his request came, and still is, changes
\* nothing at the desk, for any number of orders and officers
\* (_require_directory_admin, _require_forensic_read).
THEOREM FrozenDeskIdleCorrect == DeskSpec => FrozenDeskIdle
<1>1. GateIInv /\ [DeskNext]_deskVars =>
        [\A o \in Orders : under[o] # {} /\ order'[o] # order[o] =>
           UNCHANGED <<deskStores, audit, disclosed>>]_deskVars
  <2>1. SUFFICES ASSUME GateIInv, DeskNext, NEW x \in Orders, under[x] # {}, order'[x] # order[x]
                 PROVE  UNCHANGED <<deskStores, audit, disclosed>>
    OBVIOUS
  <2>2. DeskTyped /\ HeldAtTheGate
    BY <2>1 DEF GateIInv
  <2>3. AtTheDesk(x)
    <3>1. ~BesideTheDesk
      BY <2>1, <2>2, BesideTypes DEF OrdersLeftAlone
    <3>2. PICK o \in Orders : AtTheDesk(o)
      BY <2>1, <3>1 DEF DeskNext
    <3>3. o = x
      BY <2>1, <2>2, <3>2, OrderTyped
    <3>4. QED
      BY <3>2, <3>3
  <2>4. order[x].at \in {"revocation", "quarantine"}
    BY <2>1, <2>2 DEF HeldAtTheGate, DeskTyped
  <2>5. QED
    BY <2>2, <2>3, <2>4, DeskStepShape
<1>2. QED
  BY <1>1, GateStarts, GateInductive, PTL DEF DeskSpec, FrozenDeskIdle

NotedIn(log, op, on) == \E n \in log : n.op = op /\ n.on = on

\* What an order carries is on record: what it is about to write, the switch it
\* has found on, the decision it has found sealed.
Backed(w, log) ==
  /\ w.at = "write" /\ w.ask.op \in {"revoke", "disable", "put"} =>
       NotedIn(log, w.ask.op, w.ask.on)
  /\ w.at = "record" /\ w.found # Empty =>
       /\ w.ask.op = "reactivate" => NotedIn(log, "revoke", w.ask.on)
       /\ w.ask.op = "enable" => NotedIn(log, "disable", w.ask.on)
       /\ w.ask.op = "read" => w.found = w.ask.on /\ NotedIn(log, "decision", w.ask.on)
  /\ w.at \in {"revocation", "quarantine", "retrieve"} => w.found = Empty

SwitchesNoted(rev, dis, paps, log) ==
  /\ \A a \in rev : NotedIn(log, "revoke", a)
  /\ \A t \in dis : NotedIn(log, "disable", t)
  /\ \A p \in Papers : paps[p] # NoPaper => NotedIn(log, "put", <<p, paps[p]>>)

\* A record that says a switch was lifted.
LiftNoted(n, log) ==
  n.op \in {"reactivate", "enable"} /\ n.hit =>
    NotedIn(log, IF n.op = "enable" THEN "disable" ELSE "revoke", n.on)

SightNoted(d, log) ==
  /\ d.shown = d.query /\ NotedIn(log, "decision", d.query)
  /\ [op |-> "read", by |-> d.by, on |-> d.query, hit |-> TRUE] \in log

\* What is sealed, or is still to be, was decided.
SealsNoted(caps, late, log) ==
  /\ \A q \in Queries : caps[q] # Empty => NotedIn(log, "decision", caps[q])
  /\ \A q \in late : NotedIn(log, "decision", q)

DeskIInv ==
  /\ DeskTyped
  /\ SwitchesNoted(revoked, disabled, papers, audit)
  /\ \A n \in audit : LiftNoted(n, audit)
  /\ \A d \in disclosed : SightNoted(d, audit)
  /\ SealsNoted(captures, due, audit)
  /\ \A o \in Orders : order[o] # Waiting => Backed(order[o], audit)

\* A log that grows keeps what it says.
LEMMA NotesStay ==
  ASSUME NEW log, NEW longer, log \subseteq longer
  PROVE  /\ \A op, on : NotedIn(log, op, on) => NotedIn(longer, op, on)
         /\ \A w : Backed(w, log) => Backed(w, longer)
         /\ \A a, b, c : SwitchesNoted(a, b, c, log) => SwitchesNoted(a, b, c, longer)
         /\ \A n : LiftNoted(n, log) => LiftNoted(n, longer)
         /\ \A d : SightNoted(d, log) => SightNoted(d, longer)
         /\ \A c, q : SealsNoted(c, q, log) => SealsNoted(c, q, longer)
<1>1. \A op, on : NotedIn(log, op, on) => NotedIn(longer, op, on)
  BY DEF NotedIn
<1>2. \A w : Backed(w, log) => Backed(w, longer)
  BY <1>1 DEF Backed
<1>3. \A a, b, c : SwitchesNoted(a, b, c, log) => SwitchesNoted(a, b, c, longer)
  BY <1>1 DEF SwitchesNoted
<1>4. \A n : LiftNoted(n, log) => LiftNoted(n, longer)
  BY <1>1 DEF LiftNoted
<1>5. \A d : SightNoted(d, log) => SightNoted(d, longer)
  BY <1>1 DEF SightNoted
<1>6. \A c, q : SealsNoted(c, q, log) => SealsNoted(c, q, longer)
  BY <1>1 DEF SealsNoted
<1>7. QED
  BY <1>1, <1>2, <1>3, <1>4, <1>5, <1>6

\* A step of the desk after which the switches, the notes and what was shown
\* are on record, and so is what its order carries.
LEMMA DeskStep ==
  ASSUME DeskIInv, DeskTyped', NEW o \in Orders, AtTheDesk(o),
         audit \subseteq audit',
         SwitchesNoted(revoked', disabled', papers', audit'),
         \A n \in audit' \ audit : LiftNoted(n, audit'),
         \A d \in disclosed' \ disclosed : SightNoted(d, audit'),
         order'[o] # Waiting => Backed(order'[o], audit')
  PROVE  DeskIInv'
<1>1. \A n \in audit' : LiftNoted(n, audit')
  BY NotesStay DEF DeskIInv
<1>2. \A d \in disclosed' : SightNoted(d, audit')
  BY NotesStay DEF DeskIInv
<1>3. SealsNoted(captures', due', audit')
  BY NotesStay, DeskTypes DEF DeskIInv
<1>4. ASSUME NEW x \in Orders, order'[x] # Waiting PROVE Backed(order'[x], audit')
  <2>1. CASE x = o
    BY <1>4, <2>1
  <2>2. CASE x # o
    <3>1. order'[x] = order[x]
      BY <2>2, OrderTyped DEF DeskIInv
    <3>2. Backed(order[x], audit)
      BY <1>4, <3>1 DEF DeskIInv
    <3>3. QED
      BY <3>1, <3>2, NotesStay
  <2>3. QED
    BY <2>1, <2>2
<1>5. QED
  BY <1>1, <1>2, <1>3, <1>4 DEF DeskIInv

\* A step of the desk that changes no store and appends nothing.
LEMMA QuietStep ==
  ASSUME DeskIInv, DeskTyped', NEW o \in Orders, AtTheDesk(o),
         UNCHANGED <<revoked, disabled, papers, audit, disclosed>>,
         order'[o] # Waiting => Backed(order'[o], audit)
  PROVE  DeskIInv'
<1>1. SwitchesNoted(revoked', disabled', papers', audit')
  BY DEF DeskIInv
<1>2. QED
  BY <1>1, DeskStep

LEMMA GateStepsBacked ==
  ASSUME DeskIInv, DeskTyped', NEW o \in Orders, AtTheDesk(o),
         PlaceOrder(o) \/ CheckPrincipal(o) \/ CheckFreeze(o)
  PROVE  DeskIInv'
<1>1. UNCHANGED <<revoked, disabled, papers, audit, disclosed>>
  BY DEF PlaceOrder, CheckPrincipal, CheckFreeze, deskStores
<1>2. DeskTyped
  BY DEF DeskIInv
<1>3. CASE PlaceOrder(o)
  <2>1. order'[o].at = "revocation" /\ order'[o].found = Empty
    BY <1>2, <1>3 DEF PlaceOrder, DeskTyped
  <2>2. QED
    BY <1>1, <2>1, QuietStep DEF Backed
<1>4. CASE order'[o] = Waiting
  BY <1>1, <1>4, QuietStep
<1>5. CASE order'[o] # Waiting /\ (CheckPrincipal(o) \/ CheckFreeze(o))
  <2>1. order[o] # Waiting /\ order[o].at \in {"revocation", "quarantine"}
    BY <1>5 DEF CheckPrincipal, CheckFreeze, Is
  <2>2. order[o].found = Empty
    BY <2>1 DEF DeskIInv, Backed
  <2>3. \/ Advance(o, "quarantine") /\ Suits("quarantine", order[o].ask)
        \/ /\ Advance(o, First(o)) /\ First(o) \in {"retrieve", "record", "write"}
           /\ Suits(First(o), order[o].ask)
           /\ First(o) = "write" => order[o].ask.op \in {"reactivate", "enable"}
    BY <1>2, <1>5 DEF CheckPrincipal, CheckFreeze, Finish, DeskTyped, First, Op, Suits
  <2>4. /\ order'[o].ask = order[o].ask /\ order'[o].found = Empty
        /\ order'[o].at \in {"quarantine", "retrieve", "record", "write"}
        /\ order'[o].at = "write" => order[o].ask.op \in {"reactivate", "enable"}
    BY <1>2, <2>1, <2>2, <2>3, AdvanceStep
  <2>5. Backed(order'[o], audit)
    BY <2>4 DEF Backed
  <2>6. QED
    BY <1>1, <2>5, QuietStep
<1>6. QED
  BY <1>3, <1>4, <1>5

LEMMA RetrieveBacked ==
  ASSUME DeskIInv, DeskTyped', NEW o \in Orders, AtTheDesk(o), Retrieve(o)
  PROVE  DeskIInv'
<1>1. UNCHANGED <<revoked, disabled, papers, audit, disclosed>>
  BY DEF Retrieve, deskStores
<1>2. order[o] \in DeskOrders /\ order[o].at = "retrieve" /\ order[o].ask.op = "read"
  BY DEF DeskIInv, DeskTyped, Retrieve, Is, DeskOrders, Suits
<1>3. On(o) \in Queries /\ On(o) = order[o].ask.on
  BY <1>2, AskKinds DEF DeskOrders, On
<1>4. CASE Advance(o, "record")
  <2>1. order[o].found = Empty /\ order[o] # Waiting /\ Suits("record", order[o].ask)
    BY <1>2, WaitingApart DEF DeskIInv, Backed, Suits
  <2>2. order'[o].found = Empty /\ order'[o].at = "record"
    BY <1>4, <2>1, AdvanceStep DEF DeskIInv
  <2>3. Backed(order'[o], audit)
    BY <2>2 DEF Backed
  <2>4. QED
    BY <1>1, <2>3, QuietStep
<1>5. CASE order' = [order EXCEPT ![o].at = "record",
                       ![o].found = IF OpensSealed(On(o)) THEN captures[On(o)] ELSE Empty]
  <2> DEFINE w == [order[o] EXCEPT !.at = "record",
                     !.found = IF OpensSealed(On(o)) THEN captures[On(o)] ELSE Empty]
  <2>1. order'[o] = w
    BY <1>5 DEF DeskIInv, DeskTyped
  <2>2. w.at = "record" /\ w.ask = order[o].ask
        /\ w.found = IF OpensSealed(On(o)) THEN captures[On(o)] ELSE Empty
    BY <1>2 DEF DeskOrders
  <2> HIDE DEF w
  <2>3. w.found # Empty => w.found = On(o) /\ NotedIn(audit, "decision", On(o))
    BY <1>3, <2>2 DEF OpensSealed, DeskIInv, SealsNoted
  <2>4. Backed(w, audit)
    BY <1>2, <1>3, <2>2, <2>3 DEF Backed
  <2>5. QED
    BY <1>1, <2>1, <2>4, QuietStep
<1>6. QED
  BY <1>4, <1>5 DEF Retrieve

LEMMA WriteBacked ==
  ASSUME DeskIInv, DeskTyped', NEW o \in Orders, AtTheDesk(o), Write(o)
  PROVE  DeskIInv'
<1>1. audit' = audit /\ disclosed' = disclosed
  BY DEF Write
<1>2. order[o] \in DeskOrders /\ order[o].at = "write" /\ order[o].ask.op # "read"
      /\ order[o] # Waiting /\ Backed(order[o], audit)
  BY DEF DeskIInv, DeskTyped, Write, Is, DeskOrders, Suits
<1>3. order[o].ask \in Asks
  BY <1>2 DEF DeskOrders
<1>4. SwitchesNoted(revoked, disabled, papers, audit)
  BY DEF DeskIInv
<1>5. SwitchesNoted(revoked', disabled', papers', audit')
  <2>1. CASE UNCHANGED <<revoked, disabled, papers>>
    BY <1>1, <1>4, <2>1
  <2>2. CASE Apply(o) /\ Op(o) \in {"revoke", "reactivate"}
    <3>1. revoked' = Switched(revoked, o) /\ UNCHANGED <<disabled, papers>>
      BY <2>2 DEF Apply
    <3>2. \A a \in Switched(revoked, o) : a \in revoked \/ (a = On(o) /\ Op(o) = "revoke")
      BY <2>2 DEF Switched
    <3>3. Op(o) = "revoke" => NotedIn(audit, "revoke", On(o))
      BY <1>2 DEF Backed, Op, On
    <3>4. QED
      BY <1>1, <1>4, <3>1, <3>2, <3>3 DEF SwitchesNoted
  <2>3. CASE Apply(o) /\ Op(o) \in {"disable", "enable"}
    <3>1. disabled' = Switched(disabled, o) /\ UNCHANGED <<revoked, papers>>
      BY <2>3 DEF Apply
    <3>2. \A a \in Switched(disabled, o) : a \in disabled \/ (a = On(o) /\ Op(o) = "disable")
      BY <2>3 DEF Switched
    <3>3. Op(o) = "disable" => NotedIn(audit, "disable", On(o))
      BY <1>2 DEF Backed, Op, On
    <3>4. QED
      BY <1>1, <1>4, <3>1, <3>2, <3>3 DEF SwitchesNoted
  <2>4. CASE Apply(o) /\ Op(o) = "put"
    <3>1. papers' = [papers EXCEPT ![On(o)[1]] = On(o)[2]] /\ UNCHANGED <<revoked, disabled>>
      BY <2>4 DEF Apply
    <3>2. NotedIn(audit, "put", <<On(o)[1], On(o)[2]>>)
      <4>1. On(o) \in Papers \X Contents
        BY <1>3, <2>4, AskKinds DEF Op, On
      <4>2. On(o) = <<On(o)[1], On(o)[2]>>
        BY <4>1
      <4>3. NotedIn(audit, "put", On(o))
        BY <1>2, <2>4 DEF Backed, Op, On
      <4>4. QED
        BY <4>2, <4>3, Zenon
    <3>3. papers \in [Papers -> Contents \cup {NoPaper}]
      BY DEF DeskIInv, DeskTyped
    <3>4. ASSUME NEW p \in Papers, papers'[p] # NoPaper
          PROVE  NotedIn(audit, "put", <<p, papers'[p]>>)
      <4>1. CASE p = On(o)[1]
        BY <3>1, <3>2, <3>3, <4>1
      <4>2. CASE p # On(o)[1]
        BY <1>4, <3>1, <3>3, <3>4, <4>2 DEF SwitchesNoted
      <4>3. QED
        BY <4>1, <4>2
    <3>5. QED
      BY <1>1, <1>4, <3>1, <3>4 DEF SwitchesNoted
  <2>5. CASE Apply(o) /\ Op(o) = "delete"
    <3>1. papers' = [papers EXCEPT !["policy"] = NoPaper] /\ UNCHANGED <<revoked, disabled>>
      BY <2>5 DEF Apply
    <3>2. \A p \in Papers : papers'[p] # NoPaper => papers'[p] = papers[p]
      BY <3>1 DEF DeskIInv, DeskTyped
    <3>3. QED
      BY <1>1, <1>4, <3>1, <3>2 DEF SwitchesNoted
  <2>6. QED
    BY <1>2, <1>3, <2>1, <2>2, <2>3, <2>4, <2>5, AskKinds DEF Write, Op
<1>6. order'[o] # Waiting => Backed(order'[o], audit')
  <2>1. CASE Finish(o)
    BY <2>1 DEF Finish, DeskIInv, DeskTyped
  <2>2. CASE /\ Op(o) \in {"reactivate", "enable"}
             /\ order' = [order EXCEPT ![o].at = "record",
                                    ![o].found = IF WasOn(o) THEN "on" ELSE Empty]
    <3> DEFINE w == [order[o] EXCEPT !.at = "record",
                                     !.found = IF WasOn(o) THEN "on" ELSE Empty]
    <3>1. order'[o] = w
      BY <2>2 DEF DeskIInv, DeskTyped
    <3>2. w.at = "record" /\ w.ask = order[o].ask
          /\ w.found = IF WasOn(o) THEN "on" ELSE Empty
      BY <1>2 DEF DeskOrders
    <3> HIDE DEF w
    <3>3. w.found # Empty => WasOn(o)
      BY <3>2
    <3>4. WasOn(o) => /\ Op(o) = "reactivate" => NotedIn(audit, "revoke", On(o))
                      /\ Op(o) = "enable" => NotedIn(audit, "disable", On(o))
      BY <1>4 DEF WasOn, SwitchesNoted
    <3>5. Backed(w, audit)
      BY <1>2, <2>2, <3>2, <3>3, <3>4 DEF Backed, Op, On
    <3>6. QED
      BY <1>1, <3>1, <3>5
  <2>3. QED
    BY <2>1, <2>2 DEF Write
<1>7. QED
  BY <1>1, <1>5, <1>6, DeskStep

LEMMA EmitBacked ==
  ASSUME DeskIInv, DeskTyped', NEW o \in Orders, AtTheDesk(o), EmitNote(o)
  PROVE  DeskIInv'
<1>1. UNCHANGED <<revoked, disabled, papers>> /\ audit' \in {audit, audit \cup {Note(o)}}
  BY DEF EmitNote, deskStores
<1>2. order[o] \in DeskOrders /\ order[o].at = "record" /\ order[o] # Waiting
      /\ Backed(order[o], audit)
  BY DEF DeskIInv, DeskTyped, EmitNote, Is
<1>3. order[o].ask \in Asks
  BY <1>2 DEF DeskOrders
<1>4. PICK h \in BOOLEAN : h = (order[o].found # Empty)
  OBVIOUS
<1>5. Note(o) = [op |-> Op(o), by |-> By(o), on |-> On(o), hit |-> h]
  BY <1>4, Zenon DEF Note
<1>6. Note(o).op = Op(o) /\ Note(o).on = On(o) /\ (Note(o).hit => order[o].found # Empty)
  <2>1. Note(o).op = Op(o) /\ Note(o).on = On(o)
    BY <1>5
  <2>2. ~h => ~Note(o).hit
    <3>1. ASSUME ~h PROVE Note(o) = [op |-> Op(o), by |-> By(o), on |-> On(o), hit |-> FALSE]
      BY <1>5, <3>1, Zenon
    <3>2. QED
      BY <3>1
  <2>3. QED
    BY <1>4, <2>1, <2>2
<1>7. SwitchesNoted(revoked', disabled', papers', audit')
  BY <1>1, NotesStay DEF DeskIInv
<1>8. LiftNoted(Note(o), audit)
  BY <1>2, <1>6 DEF LiftNoted, Backed, Op, On
<1>9. \A n \in audit' \ audit : LiftNoted(n, audit')
  BY <1>1, <1>8, NotesStay
<1>10. \A d \in disclosed' \ disclosed : SightNoted(d, audit')
  <2>1. SUFFICES ASSUME NEW d \in disclosed' \ disclosed PROVE SightNoted(d, audit')
    OBVIOUS
  <2>2. /\ Op(o) = "read" /\ order[o].found # Empty /\ audit' = audit \cup {Note(o)}
        /\ d = [by |-> By(o), query |-> On(o), shown |-> order[o].found]
    BY <2>1 DEF EmitNote
  <2>3. order[o].found = On(o) /\ NotedIn(audit, "decision", On(o))
    BY <1>2, <2>2 DEF Backed, Op, On
  <2>4. h = TRUE
    BY <1>4, <2>2
  <2>5. Note(o) = [op |-> "read", by |-> By(o), on |-> On(o), hit |-> TRUE]
    BY <1>5, <2>2, <2>4, Zenon
  <2>6. d.by = By(o) /\ d.query = On(o) /\ d.shown = On(o)
    BY <2>2, <2>3
  <2>7. QED
    BY <2>2, <2>3, <2>5, <2>6, NotesStay DEF SightNoted
<1>11. order'[o] # Waiting => Backed(order'[o], audit')
  <2>1. CASE Finish(o)
    BY <2>1 DEF Finish, DeskIInv, DeskTyped
  <2>2. CASE /\ Advance(o, "write") /\ audit' = audit \cup {Note(o)}
             /\ Op(o) \notin {"reactivate", "enable", "read"}
    <3>1. order'[o].at = "write" /\ order'[o].ask = order[o].ask
      BY <1>2, <2>2, AdvanceStep DEF DeskIInv, Suits, Op
    <3>2. NotedIn(audit', Op(o), On(o))
      BY <1>6, <2>2 DEF NotedIn
    <3>3. QED
      BY <3>1, <3>2 DEF Backed, Op, On
  <2>3. QED
    BY <2>1, <2>2 DEF EmitNote
<1>12. QED
  BY <1>1, <1>7, <1>9, <1>10, <1>11, DeskStep

LEMMA BesideBacked ==
  ASSUME DeskIInv, DeskTyped', BesideTheDesk
  PROVE  DeskIInv'
<1>1. OrdersLeftAlone /\ DeskTyped
  BY BesideTypes DEF DeskIInv
<1>2. CASE \E a \in Officers : QuarantineOfficer(a) \/ FreezeEnds(a)
  <2>1. UNCHANGED <<audit, captures, due>>
    BY <1>2 DEF QuarantineOfficer, FreezeEnds
  <2>2. QED
    BY <1>1, <2>1 DEF DeskIInv, OrdersLeftAlone
<1>3. ASSUME NEW q \in Queries, Decide(q)
      PROVE  DeskIInv'
  <2>1. PICK n : n = [op |-> "decision", on |-> q] /\ audit' = audit \cup {n}
    BY <1>3 DEF Decide
  <2>2. n.op = "decision" /\ n.on = q
    BY <2>1
  <2>3. captures' = captures /\ due' = due \cup {q}
    BY <1>3 DEF Decide
  <2>4. LiftNoted(n, audit')
    BY <2>2 DEF LiftNoted
  <2>5. SealsNoted(captures, due, audit')
    BY <2>1, NotesStay DEF DeskIInv
  <2>6. SealsNoted(captures', due', audit')
    BY <2>1, <2>2, <2>3, <2>5 DEF SealsNoted, NotedIn
  <2>7. \A x \in audit' : LiftNoted(x, audit')
    BY <2>1, <2>4, NotesStay DEF DeskIInv
  <2>8. QED
    BY <1>1, <2>1, <2>6, <2>7, NotesStay DEF DeskIInv, OrdersLeftAlone
<1>4. ASSUME NEW q \in Queries, Capture(q) \/ CaptureExpires(q) \/ \E r \in Queries : Misplace(q, r)
      PROVE  DeskIInv'
  <2>1. audit' = audit
    BY <1>4 DEF Capture, CaptureExpires, Misplace
  <2>2. SealsNoted(captures, due, audit) /\ captures \in [Queries -> Queries \cup {Empty}]
    BY <1>1 DEF DeskIInv, DeskTyped
  <2>3. ASSUME Capture(q) PROVE SealsNoted(captures', due', audit)
    BY <2>2, <2>3 DEF Capture, SealsNoted
  <2>4. ASSUME CaptureExpires(q) PROVE SealsNoted(captures', due', audit)
    BY <2>2, <2>4 DEF CaptureExpires, SealsNoted
  <2>5. ASSUME NEW r \in Queries, Misplace(q, r) PROVE SealsNoted(captures', due', audit)
    BY <2>2, <2>5 DEF Misplace, SealsNoted
  <2>6. SealsNoted(captures', due', audit')
    BY <1>4, <2>1, <2>3, <2>4, <2>5
  <2>7. QED
    BY <1>1, <2>1, <2>6 DEF DeskIInv, OrdersLeftAlone
<1>5. QED
  BY <1>2, <1>3, <1>4 DEF BesideTheDesk

LEMMA DeskStarts == DeskInit => DeskIInv
<1>1. DeskInit => DeskTyped
  BY GateStarts DEF GateIInv
<1>2. QED
  BY <1>1 DEF DeskInit, DeskIInv, SwitchesNoted, SealsNoted

LEMMA DeskInductive == DeskIInv /\ [DeskNext]_deskVars => DeskIInv'
<1>1. ASSUME DeskIInv, DeskNext PROVE DeskIInv'
  <2>1. DeskTyped /\ DeskTyped'
    BY <1>1, TypesKept DEF DeskIInv
  <2>2. CASE BesideTheDesk
    BY <1>1, <2>1, <2>2, BesideBacked
  <2>3. ASSUME NEW o \in Orders, AtTheDesk(o) PROVE DeskIInv'
    BY <1>1, <2>1, <2>3, GateStepsBacked, RetrieveBacked, WriteBacked, EmitBacked DEF AtTheDesk
  <2>4. QED
    BY <1>1, <2>2, <2>3 DEF DeskNext
<1>2. DeskIInv /\ UNCHANGED deskVars => DeskIInv'
  BY DEF DeskIInv, DeskTyped, deskVars, deskStores
<1>3. QED
  BY <1>1, <1>2

\* A revocation, a disabled alias and a document in force were recorded before
\* they held, and what an investigator saw was recorded before he saw it, for
\* any number of orders, officers and failed round trips.
THEOREM DeskOnRecordCorrect == DeskSpec => []DeskOnRecord
<1>1. DeskIInv => DeskOnRecord
  BY DEF DeskIInv, DeskOnRecord, SwitchesNoted, LiftNoted, SightNoted, Noted, NotedIn
<1>2. QED
  BY <1>1, DeskStarts, DeskInductive, PTL DEF DeskSpec

---------------------------------------------------------------------------
(* The roster *)

RosterTyped ==
  /\ roster \in [Emails -> User \cup {NoUser}]
  /\ clerk \in [Clerks -> Working \cup {Free}]
  /\ logged \subseteq [email : Emails, ask : Ask]
  /\ asks \in 0 .. MaxAsks /\ blips \in 0 .. MaxBlips /\ miscounts \in 0 .. blips

\* A role or a status of this email was asked for in the log.
RoleLogged(log, e, role)     == \E r \in log : r.email = e /\ r.ask.role = role
StatusLogged(log, e, status) == \E r \in log : r.email = e /\ r.ask.status = status

UserLogged(log, e, u) == RoleLogged(log, e, u.role) /\ StatusLogged(log, e, u.status)

\* What a request is about to write was logged: what it asks for, and what it
\* has read.
ErrandLogged(log, w) ==
  /\ w.pc \in {"count", "create", "get", "put"} => [email |-> w.email, ask |-> w.ask] \in log
  /\ w.pc \in {"count", "create"} => w.ask.role \in Roles /\ w.ask.status = "invited"
  /\ w.pc = "put" => w.seen \in User /\ UserLogged(log, w.email, w.seen)

\* A live token is an invited member's.
TokensLive(u) == u.token # 0 => u.status = "invited"

RosterIInv ==
  /\ RosterTyped
  /\ \A e \in Emails : roster[e] # NoUser => UserLogged(logged, e, roster[e])
  /\ \A e \in Emails : TokensLive(roster[e])
  /\ \A c \in Clerks : clerk[c] # Free => ErrandLogged(logged, clerk[c]) /\ TokensLive(clerk[c].seen)

LEMMA UsersApart ==
  /\ NoUser \notin User /\ NoUser.token = 0 /\ NoUser.status = "none" /\ Free \notin Working
BY DEF NoUser, User, Statuses, Free, Working

\* A log that grows keeps what it says.
LEMMA LogStays ==
  ASSUME NEW log, NEW longer, log \subseteq longer
  PROVE  /\ \A e, u : UserLogged(log, e, u) => UserLogged(longer, e, u)
         /\ \A w : ErrandLogged(log, w) => ErrandLogged(longer, w)
<1>1. \A e, u : UserLogged(log, e, u) => UserLogged(longer, e, u)
  BY DEF UserLogged, RoleLogged, StatusLogged
<1>2. QED
  BY <1>1 DEF ErrandLogged

\* A step of one clerk that leaves the roster alone.
LEMMA ClerkMoves ==
  ASSUME RosterIInv, NEW c \in Clerks, NEW w \in Working \cup {Free},
         clerk' = [clerk EXCEPT ![c] = w], roster' = roster,
         logged \subseteq logged', logged' \subseteq [email : Emails, ask : Ask],
         asks' \in 0 .. MaxAsks, blips' \in 0 .. MaxBlips, miscounts' \in 0 .. blips',
         w # Free => ErrandLogged(logged', w) /\ TokensLive(w.seen)
  PROVE  RosterIInv'
<1>1. RosterTyped'
  BY DEF RosterIInv, RosterTyped
<1>2. \A e \in Emails : roster'[e] # NoUser => UserLogged(logged', e, roster'[e])
  BY LogStays DEF RosterIInv
<1>3. ASSUME NEW x \in Clerks, clerk'[x] # Free
      PROVE  ErrandLogged(logged', clerk'[x]) /\ TokensLive(clerk'[x].seen)
  <2>1. CASE x = c
    BY <1>3, <2>1 DEF RosterIInv, RosterTyped
  <2>2. CASE x # c
    BY <1>3, <2>2, LogStays DEF RosterIInv, RosterTyped
  <2>3. QED
    BY <2>1, <2>2
<1>4. QED
  BY <1>1, <1>2, <1>3 DEF RosterIInv

LEMMA ClerkEnds ==
  ASSUME RosterIInv, NEW c \in Clerks, Frees(c), UNCHANGED <<roster, logged, asks>>,
         blips' \in 0 .. MaxBlips, miscounts' \in 0 .. blips'
  PROVE  RosterIInv'
BY ClerkMoves DEF Frees, RosterIInv, RosterTyped

LEMMA RosterBounds ==
  ASSUME RosterIInv
  PROVE  /\ Blip => blips' \in 0 .. MaxBlips /\ miscounts \in 0 .. blips' /\ miscounts + 1 \in 0 .. blips'
         /\ blips' = blips => blips' \in 0 .. MaxBlips /\ miscounts \in 0 .. blips'
BY RosterAssumption DEF Blip, RosterIInv, RosterTyped

LEMMA ReceiveKeeps ==
  ASSUME RosterIInv, NEW c \in Clerks, Receive(c)
  PROVE  RosterIInv'
<1>1. PICK op \in DOMAIN FirstCall, e \in Emails : \E a \in AsksOf(op) :
        /\ clerk' = [clerk EXCEPT ![c] = Errand(op, e, a)]
        /\ asks' = IF op = "remove" THEN asks ELSE asks + 1
        /\ logged' = IF op = "remove" THEN logged ELSE logged \cup {[email |-> e, ask |-> a]}
  BY DEF Receive
<1>2. PICK a \in AsksOf(op) :
        /\ clerk' = [clerk EXCEPT ![c] = Errand(op, e, a)]
        /\ asks' = IF op = "remove" THEN asks ELSE asks + 1
        /\ logged' = IF op = "remove" THEN logged ELSE logged \cup {[email |-> e, ask |-> a]}
  BY <1>1
<1>3. op \in {"invite", "update", "remove"}
  BY DEF FirstCall
<1>4. a \in Ask /\ (op = "invite" => a.role \in Roles /\ a.status = "invited")
  BY <1>3 DEF AsksOf, Ask, Statuses
<1>5. asks' \in 0 .. MaxAsks /\ asks \in 0 .. MaxAsks /\ UNCHANGED <<roster, blips, miscounts>>
  BY <1>2, RosterAssumption DEF Receive, RosterIInv, RosterTyped
<1> DEFINE w == Errand(op, e, a)
<1>6. /\ w.pc = FirstCall[op] /\ w.email = e /\ w.ask = a /\ w.seen = NoUser
      /\ w \in Working
  <2>1. FirstCall[op] \in {"count", "get", "remove"}
    BY <1>3 DEF FirstCall
  <2>2. (IF op = "invite" THEN asks + 1 ELSE 0) \in 0 .. MaxAsks
    <3>1. CASE op = "invite"
      <4>1. asks' = asks + 1
        BY <1>2, <3>1
      <4>2. QED
        BY <1>5, <3>1, <4>1
    <3>2. CASE op # "invite"
      BY <3>2, RosterAssumption
    <3>3. QED
      BY <3>1, <3>2
  <2>3. QED
    BY <1>4, <2>1, <2>2 DEF Errand, Working
<1>7. ErrandLogged(logged', w)
  <2>1. op # "remove" => [email |-> e, ask |-> a] \in logged'
    BY <1>2
  <2>2. op = "remove" => FirstCall[op] = "remove"
    BY DEF FirstCall
  <2>3. FirstCall[op] \in {"count", "get", "remove"} /\ (FirstCall[op] = "count" => op = "invite")
    BY <1>3 DEF FirstCall
  <2> HIDE DEF w
  <2>4. QED
    BY <1>4, <1>6, <2>1, <2>2, <2>3 DEF ErrandLogged
<1>8. TokensLive(w.seen)
  BY <1>6, UsersApart DEF TokensLive
<1>9. logged \subseteq logged' /\ logged' \subseteq [email : Emails, ask : Ask]
  BY <1>2, <1>4 DEF RosterIInv, RosterTyped
<1>10. blips' \in 0 .. MaxBlips /\ miscounts' \in 0 .. blips'
  BY <1>5 DEF RosterIInv, RosterTyped
<1> HIDE DEF w
<1>11. QED
  BY <1>2, <1>5, <1>6, <1>7, <1>8, <1>9, <1>10, ClerkMoves DEF w

LEMMA CountKeeps ==
  ASSUME RosterIInv, NEW c \in Clerks, NEW failed \in BOOLEAN, Count(c, failed)
  PROVE  RosterIInv'
<1>1. clerk[c] \in Working /\ clerk[c].pc = "count"
  BY DEF Count, RosterIInv, RosterTyped, Free
<1>2. UNCHANGED <<roster, logged, asks>> /\ blips' \in 0 .. MaxBlips /\ miscounts' \in 0 .. blips'
  BY RosterBounds DEF Count
<1>3. CASE Frees(c)
  BY <1>2, <1>3, ClerkEnds
<1>4. CASE Turns(c, "create")
  <2> DEFINE w == [clerk[c] EXCEPT !.pc = "create"]
  <2>1. w \in Working /\ w.pc = "create" /\ w.email = clerk[c].email /\ w.ask = clerk[c].ask
        /\ w.seen = clerk[c].seen
    BY <1>1 DEF Working
  <2>2. ErrandLogged(logged, clerk[c]) /\ TokensLive(clerk[c].seen)
    BY <1>1, UsersApart DEF RosterIInv
  <2>3. clerk' = [clerk EXCEPT ![c] = w]
    BY <1>4 DEF Turns
  <2> HIDE DEF w
  <2>4. ErrandLogged(logged, w) /\ TokensLive(w.seen)
    BY <1>1, <2>1, <2>2 DEF ErrandLogged
  <2>5. QED
    BY <1>2, <2>1, <2>3, <2>4, ClerkMoves DEF RosterIInv, RosterTyped
<1>5. QED
  BY <1>3, <1>4 DEF Count

LEMMA GetKeeps ==
  ASSUME RosterIInv, NEW c \in Clerks, NEW failed \in BOOLEAN, Get(c, failed)
  PROVE  RosterIInv'
<1>1. clerk[c] \in Working /\ clerk[c].pc = "get"
  BY DEF Get, RosterIInv, RosterTyped, Free
<1>2. UNCHANGED <<roster, logged, asks>> /\ blips' \in 0 .. MaxBlips /\ miscounts' \in 0 .. blips'
  BY RosterBounds DEF Get
<1>3. CASE Frees(c)
  BY <1>2, <1>3, ClerkEnds
<1> DEFINE e == clerk[c].email
           w == [clerk[c] EXCEPT !.pc = "put", !.seen = roster[e]]
<1>4. CASE roster[e] # NoUser /\ clerk' = [clerk EXCEPT ![c] = w]
  <2>1. e \in Emails /\ roster[e] \in User
    BY <1>1, <1>4 DEF Working, RosterIInv, RosterTyped
  <2>2. w \in Working /\ w.pc = "put" /\ w.email = clerk[c].email /\ w.ask = clerk[c].ask
        /\ w.seen = roster[e]
    BY <1>1, <2>1 DEF Working
  <2>3. ErrandLogged(logged, clerk[c]) /\ UserLogged(logged, e, roster[e]) /\ TokensLive(roster[e])
    BY <1>1, <1>4, <2>1, UsersApart DEF RosterIInv
  <2> HIDE DEF w
  <2>4. ErrandLogged(logged, w) /\ TokensLive(w.seen)
    BY <1>1, <2>1, <2>2, <2>3 DEF ErrandLogged
  <2>5. QED
    BY <1>2, <1>4, <2>2, <2>4, ClerkMoves DEF RosterIInv, RosterTyped
<1>5. QED
  BY <1>3, <1>4 DEF Get

\* A write of one field by a request that ends with it.
LEMMA FieldWritten ==
  ASSUME RosterIInv, NEW c \in Clerks, Frees(c), NEW e \in Emails, NEW u \in User \cup {NoUser},
         roster' = [roster EXCEPT ![e] = u], UNCHANGED <<logged, asks, blips, miscounts>>,
         u # NoUser => UserLogged(logged, e, u), TokensLive(u)
  PROVE  RosterIInv'
<1>1. RosterTyped'
  BY DEF RosterIInv, RosterTyped, Frees
<1>2. ASSUME NEW x \in Emails
      PROVE  (roster'[x] # NoUser => UserLogged(logged', x, roster'[x])) /\ TokensLive(roster'[x])
  BY DEF RosterIInv, RosterTyped
<1>3. \A x \in Clerks : clerk'[x] # Free => clerk'[x] = clerk[x]
  BY DEF Frees, RosterIInv, RosterTyped
<1>4. QED
  BY <1>1, <1>2, <1>3 DEF RosterIInv

LEMMA CreateKeeps ==
  ASSUME RosterIInv, NEW c \in Clerks, Create(c)
  PROVE  RosterIInv'
<1>1. clerk[c] \in Working /\ clerk[c].pc = "create" /\ clerk[c] # Free
  BY DEF Create, RosterIInv, RosterTyped, Free
<1> DEFINE e == clerk[c].email
           n == [role |-> clerk[c].ask.role, status |-> "invited", token |-> clerk[c].token]
           u == IF roster[e] # NoUser THEN roster[e] ELSE n
<1>2. e \in Emails /\ roster \in [Emails -> User \cup {NoUser}]
  BY <1>1 DEF Working, RosterIInv, RosterTyped
<1>3. ErrandLogged(logged, clerk[c])
  BY <1>1 DEF RosterIInv
<1>4. n \in User /\ TokensLive(n) /\ UserLogged(logged, e, n)
  <2>1. clerk[c].ask.role \in Roles /\ clerk[c].ask.status = "invited"
        /\ [email |-> e, ask |-> clerk[c].ask] \in logged
    BY <1>1, <1>3 DEF ErrandLogged
  <2>2. n \in User /\ n.role = clerk[c].ask.role /\ n.status = "invited"
    BY <1>1, <2>1 DEF User, Working, Statuses
  <2>3. PICK r \in logged : r.email = e /\ r.ask = clerk[c].ask
    BY <2>1
  <2> HIDE DEF n
  <2>4. QED
    BY <2>1, <2>2, <2>3 DEF TokensLive, UserLogged, RoleLogged, StatusLogged
<1>5. roster' = [roster EXCEPT ![e] = u]
  BY DEF Create
<1>6. u \in User \cup {NoUser} /\ TokensLive(u) /\ UserLogged(logged, e, u)
  BY <1>2, <1>4 DEF RosterIInv
<1> HIDE DEF u, e
<1>7. QED
  BY <1>2, <1>5, <1>6, FieldWritten DEF Create

LEMMA PutKeeps ==
  ASSUME RosterIInv, NEW c \in Clerks, Put(c)
  PROVE  RosterIInv'
<1>1. clerk[c] \in Working /\ clerk[c].pc = "put" /\ clerk[c] # Free
  BY DEF Put, RosterIInv, RosterTyped, Free
<1> DEFINE e    == clerk[c].email
           ask  == clerk[c].ask
           seen == clerk[c].seen
           u    == Updated(seen, ask)
<1>2. e \in Emails /\ ask \in Ask
  BY <1>1 DEF Working
<1>3. seen \in User /\ UserLogged(logged, e, seen) /\ [email |-> e, ask |-> ask] \in logged
      /\ TokensLive(seen)
  BY <1>1 DEF RosterIInv, ErrandLogged
<1>4. /\ u.role = (IF ask.role = NoRole THEN seen.role ELSE ask.role)
      /\ u.status = (IF ask.status = NoStatus THEN seen.status ELSE ask.status)
      /\ u.token = (IF u.status = "invited" THEN seen.token ELSE 0)
      /\ u \in User
  BY <1>2, <1>3, RosterAssumption DEF Updated, User, Ask, NoRole, NoStatus
<1>5. PICK r \in logged : r.email = e /\ r.ask = ask
  BY <1>3
<1>6. roster' = [roster EXCEPT ![e] = u]
  BY DEF Put
<1> HIDE DEF u, seen, ask, e
<1>7. UserLogged(logged, e, u) /\ TokensLive(u)
  BY <1>3, <1>4, <1>5 DEF UserLogged, RoleLogged, StatusLogged, TokensLive
<1>8. QED
  BY <1>2, <1>4, <1>6, <1>7, FieldWritten DEF Put

LEMMA RemoveKeeps ==
  ASSUME RosterIInv, NEW c \in Clerks, Remove(c)
  PROVE  RosterIInv'
<1>1. clerk[c] \in Working
  BY DEF Remove, RosterIInv, RosterTyped, Free
<1>2. clerk[c].email \in Emails /\ TokensLive(NoUser)
  BY <1>1, UsersApart DEF Working, TokensLive
<1>3. QED
  BY <1>2, FieldWritten DEF Remove

LEMMA RosterStarts == RosterInit => RosterIInv
<1>1. RosterInit => RosterTyped
  BY RosterAssumption DEF RosterInit, RosterTyped
<1>2. TokensLive(NoUser)
  BY UsersApart DEF TokensLive
<1>3. QED
  BY <1>1, <1>2 DEF RosterInit, RosterIInv

LEMMA RosterInductive == RosterIInv /\ [RosterNext]_rosterVars => RosterIInv'
<1>1. SUFFICES ASSUME RosterIInv, [RosterNext]_rosterVars PROVE RosterIInv'
  OBVIOUS
<1>2. ASSUME NEW c \in Clerks, Receive(c) PROVE RosterIInv'
  BY <1>1, <1>2, ReceiveKeeps
<1>3. ASSUME NEW c \in Clerks, NEW failed \in BOOLEAN, Count(c, failed) \/ Get(c, failed)
      PROVE  RosterIInv'
  BY <1>1, <1>3, CountKeeps, GetKeeps
<1>4. ASSUME NEW c \in Clerks, Create(c) \/ Put(c) \/ Remove(c) PROVE RosterIInv'
  BY <1>1, <1>4, CreateKeeps, PutKeeps, RemoveKeeps
<1>5. ASSUME NEW c \in Clerks, StoreFails(c) PROVE RosterIInv'
  BY <1>1, <1>5, ClerkEnds, RosterBounds DEF StoreFails
<1>6. CASE UNCHANGED rosterVars
  BY <1>1, <1>6 DEF rosterVars, RosterIInv, RosterTyped
<1>7. QED
  BY <1>1, <1>2, <1>3, <1>4, <1>5, <1>6 DEF RosterNext

---------------------------------------------------------------------------
(* The cap on the roster *)

\* The members, and the emails that requests past their check will write.
Claimed == Members \cup {clerk[c].email : c \in Writers}

CapIInv == RosterIInv /\ RosterBounded

\* The image of a finite set.
LEMMA EmailsOf ==
  ASSUME NEW S, IsFiniteSet(S), NEW f
  PROVE  /\ IsFiniteSet({f[x].email : x \in S})
         /\ Cardinality({f[x].email : x \in S}) <= Cardinality(S)
<1> DEFINE T == {f[x].email : x \in S}
           g == [x \in S |-> f[x].email]
<1>1. g \in Surjection(S, T)
  BY DEF Surjection
<1>2. QED
  BY <1>1, FS_Surjection

LEMMA Finite ==
  ASSUME RosterTyped
  PROVE  /\ IsFiniteSet(Members) /\ IsFiniteSet(Claimed)
         /\ Cardinality(Members) \in Nat /\ Cardinality(Claimed) \in Nat
         /\ Cardinality(Clerks) \in Nat \ {0} /\ miscounts \in Nat
<1>1. IsFiniteSet(Members)
  BY RosterAssumption, FS_Subset DEF Members
<1>2. IsFiniteSet(Writers)
  BY RosterAssumption, FS_Subset DEF Writers
<1>3. IsFiniteSet(Claimed)
  BY <1>1, <1>2, EmailsOf, FS_Union DEF Claimed
<1>4. Cardinality(Clerks) \in Nat \ {0}
  BY RosterAssumption, FS_CardinalityType, FS_EmptySet
<1>5. QED
  BY <1>1, <1>3, <1>4, FS_CardinalityType DEF RosterTyped

\* What claims no new email, and no less forgiveness, keeps the cap.
LEMMA NoNewClaim ==
  ASSUME RosterIInv, RosterIInv', RosterBounded, Claimed' \subseteq Claimed, miscounts' >= miscounts
  PROVE  RosterBounded'
<1>1. IsFiniteSet(Claimed') /\ Cardinality(Claimed') <= Cardinality(Claimed)
  BY Finite, FS_Subset DEF RosterIInv
<1>2. Cardinality(Claimed) <= RosterCap + Cardinality(Clerks) - 1 + miscounts
  BY DEF RosterBounded, Claimed
<1>3. Cardinality(Claimed') \in Nat /\ miscounts' \in Nat
  BY <1>1, FS_CardinalityType DEF RosterIInv, RosterTyped
<1>4. Cardinality(Claimed') <= RosterCap + Cardinality(Clerks) - 1 + miscounts'
  BY <1>1, <1>2, <1>3, Finite, RosterAssumption DEF RosterIInv
<1>5. QED
  BY <1>4 DEF RosterBounded, Claimed

\* A count that was answered found room for one more; the other requests claim
\* at most one email each.
LEMMA CountedClaim ==
  ASSUME RosterIInv, RosterIInv', NEW c \in Clerks, Turns(c, "create"), roster' = roster,
         Cardinality(Members) < RosterCap, miscounts' = miscounts
  PROVE  RosterBounded'
<1>1. Members' = Members
  BY DEF Members
<1>2. IsFiniteSet(Writers') /\ Cardinality(Writers') <= Cardinality(Clerks)
      /\ Cardinality(Writers') \in Nat
  BY RosterAssumption, FS_Subset, FS_CardinalityType DEF Writers
<1> DEFINE E == {clerk'[x].email : x \in Writers'}
<1>3. IsFiniteSet(E) /\ Cardinality(E) <= Cardinality(Writers') /\ Cardinality(E) \in Nat
  BY <1>2, EmailsOf, FS_CardinalityType
<1>4. IsFiniteSet(Members) /\ Cardinality(Members) \in Nat /\ miscounts \in Nat
      /\ Cardinality(Clerks) \in Nat \ {0}
  BY Finite DEF RosterIInv
<1> HIDE DEF E
<1>5. /\ Cardinality(Members \cup E) = Cardinality(Members) + Cardinality(E) - Cardinality(Members \cap E)
      /\ Cardinality(Members \cap E) \in Nat
  BY <1>3, <1>4, FS_Union, FS_Intersection, FS_CardinalityType
<1>6. Cardinality(Members \cup E) <= RosterCap + Cardinality(Clerks) - 1 + miscounts'
  BY <1>2, <1>3, <1>4, <1>5, RosterAssumption
<1>7. QED
  BY <1>1, <1>6 DEF RosterBounded, E

\* A count that failed may claim one email too many, and is counted.
LEMMA MiscountedClaim ==
  ASSUME RosterIInv, RosterIInv', RosterBounded, NEW c \in Clerks, Turns(c, "create"),
         roster' = roster, miscounts' = miscounts + 1
  PROVE  RosterBounded'
<1>1. Claimed' \subseteq Claimed \cup {clerk'[c].email}
  BY DEF Claimed, Members, Writers, Turns, RosterIInv, RosterTyped
<1>2. IsFiniteSet(Claimed) /\ Cardinality(Claimed) \in Nat /\ miscounts \in Nat
      /\ Cardinality(Clerks) \in Nat
  BY Finite DEF RosterIInv
<1>3. Cardinality(Claimed \cup {clerk'[c].email}) <= Cardinality(Claimed) + 1
      /\ IsFiniteSet(Claimed \cup {clerk'[c].email})
      /\ Cardinality(Claimed \cup {clerk'[c].email}) \in Nat
  <2>1. \A S, x : IsFiniteSet(S) /\ Cardinality(S) \in Nat =>
          IsFiniteSet(S \cup {x}) /\ Cardinality(S \cup {x}) \in {Cardinality(S), Cardinality(S) + 1}
    BY FS_AddElement
  <2>2. /\ IsFiniteSet(Claimed \cup {clerk'[c].email})
        /\ Cardinality(Claimed \cup {clerk'[c].email}) \in {Cardinality(Claimed), Cardinality(Claimed) + 1}
    BY <1>2, <2>1
  <2>3. QED
    BY <1>2, <2>2
<1>4. Cardinality(Claimed') <= Cardinality(Claimed \cup {clerk'[c].email})
      /\ Cardinality(Claimed') \in Nat
  BY <1>1, <1>3, FS_Subset, FS_CardinalityType
<1>5. Cardinality(Claimed) <= RosterCap + Cardinality(Clerks) - 1 + miscounts
  BY DEF RosterBounded, Claimed
<1>6. Cardinality(Claimed') <= RosterCap + Cardinality(Clerks) - 1 + miscounts'
  BY <1>2, <1>3, <1>4, <1>5, RosterAssumption
<1>7. QED
  BY <1>6 DEF RosterBounded, Claimed

LEMMA CapKept ==
  ASSUME RosterIInv, RosterIInv', RosterBounded, RosterNext
  PROVE  RosterBounded'
<1>1. ASSUME NEW c \in Clerks, NEW failed \in BOOLEAN, Count(c, failed)
      PROVE  RosterBounded'
  <2>1. roster' = roster /\ miscounts' \in {miscounts, miscounts + 1} /\ miscounts \in Nat
    BY <1>1, Finite DEF Count, RosterIInv
  <2>2. CASE Frees(c)
    <3>1. Claimed' \subseteq Claimed
      BY <2>1, <2>2 DEF Claimed, Members, Writers, Frees, RosterIInv, RosterTyped, Free
    <3>2. QED
      BY <2>1, <3>1, NoNewClaim
  <2>3. CASE Turns(c, "create") /\ failed
    BY <1>1, <2>1, <2>3, MiscountedClaim DEF Count
  <2>4. CASE Turns(c, "create") /\ ~failed
    <3>1. CASE Cardinality(Members) >= RosterCap
      <4>1. Frees(c)
        BY <1>1, <2>4, <3>1 DEF Count
      <4>2. QED
        BY <2>2, <4>1
    <3>2. CASE ~(Cardinality(Members) >= RosterCap)
      <4>1. Cardinality(Members) < RosterCap
        BY <3>2, Finite, RosterAssumption DEF RosterIInv
      <4>2. miscounts' = miscounts
        BY <1>1, <2>4 DEF Count
      <4>3. QED
        BY <2>1, <2>4, <4>1, <4>2, CountedClaim
    <3>3. QED
      BY <3>1, <3>2
  <2>5. QED
    BY <1>1, <2>2, <2>3, <2>4 DEF Count
<1>2. ASSUME NEW c \in Clerks,
             Receive(c) \/ (\E failed \in BOOLEAN : Get(c, failed))
             \/ Create(c) \/ Put(c) \/ Remove(c) \/ StoreFails(c)
      PROVE  RosterBounded'
  <2>1. miscounts' = miscounts /\ miscounts \in Nat
    BY <1>2, Finite DEF Receive, Get, Create, Put, Remove, StoreFails, RosterIInv
  <2>2. Claimed' \subseteq Claimed
    <3>1. RosterTyped
      BY DEF RosterIInv
    <3>2. CASE Receive(c)
      <4>1. roster' = roster /\ \A x \in Clerks \ {c} : clerk'[x] = clerk[x]
        BY <3>1, <3>2 DEF Receive, RosterTyped
      <4>2. clerk'[c].pc \in {"count", "get", "remove"}
        <5>1. PICK op \in DOMAIN FirstCall, e \in Emails :
                \E a \in AsksOf(op) : clerk' = [clerk EXCEPT ![c] = Errand(op, e, a)]
          BY <3>2 DEF Receive
        <5>2. FirstCall[op] \in {"count", "get", "remove"}
          BY DEF FirstCall
        <5>3. QED
          BY <3>1, <5>1, <5>2 DEF Errand, RosterTyped
      <4>3. QED
        BY <4>1, <4>2 DEF Claimed, Members, Writers
    <3>3. CASE Frees(c) /\ \A x \in Emails : roster'[x] # NoUser => (roster[x] # NoUser \/ (x = clerk[c].email /\ c \in Writers))
      BY <3>1, <3>3 DEF Claimed, Members, Writers, Frees, RosterTyped, Free
    <3>4. CASE Create(c) \/ Put(c)
      BY <3>1, <3>3, <3>4 DEF Create, Put, Writers, RosterTyped
    <3>5. CASE Remove(c) \/ StoreFails(c)
      BY <3>1, <3>3, <3>5 DEF Remove, StoreFails, RosterTyped
    <3>6. ASSUME NEW failed \in BOOLEAN, Get(c, failed) PROVE Claimed' \subseteq Claimed
      <4>1. CASE Frees(c)
        BY <3>1, <3>3, <3>6, <4>1 DEF Get
      <4>2. CASE /\ roster[clerk[c].email] # NoUser
                 /\ clerk' = [clerk EXCEPT ![c].pc = "put", ![c].seen = roster[clerk[c].email]]
        <5>1. clerk[c] \in Working
          BY <3>1, <3>6 DEF Get, RosterTyped, Free
        <5>2. clerk'[c].email = clerk[c].email /\ clerk[c].email \in Members
              /\ \A x \in Clerks \ {c} : clerk'[x] = clerk[x]
          BY <3>1, <4>2, <5>1 DEF Working, RosterTyped, Members
        <5>3. roster' = roster
          BY <3>6 DEF Get
        <5>4. QED
          BY <5>2, <5>3 DEF Claimed, Members, Writers
      <4>3. QED
        BY <3>6, <4>1, <4>2 DEF Get
    <3>7. QED
      BY <1>2, <3>2, <3>4, <3>5, <3>6
  <2>3. QED
    BY <2>1, <2>2, NoNewClaim
<1>3. QED
  BY <1>1, <1>2 DEF RosterNext

LEMMA CapStarts == RosterInit => RosterBounded
<1>1. SUFFICES ASSUME RosterInit PROVE RosterBounded
  OBVIOUS
<1>2. Claimed = {}
  BY <1>1 DEF RosterInit, Claimed, Members, Writers, Free
<1>3. RosterTyped
  BY <1>1, RosterStarts DEF RosterIInv
<1>4. 0 <= RosterCap + Cardinality(Clerks) - 1 + miscounts
  BY <1>3, Finite, RosterAssumption
<1>5. QED
  BY <1>2, <1>4, FS_EmptySet DEF RosterBounded, Claimed

\* Emit before mutate, for any number of administrators: a role a member holds
\* and a status it has were asked for in a record of that email (invite and
\* update endpoints, operator_users.py).
THEOREM RosterLoggedCorrect == RosterSpec => []RosterLogged
<1>1. RosterIInv => RosterLogged
  BY DEF RosterIInv, RosterTyped, RosterLogged, Members, UserLogged, RoleLogged, StatusLogged
<1>2. QED
  BY <1>1, RosterStarts, RosterInductive, PTL DEF RosterSpec

\* The roster exceeds its cap by fewer members than there are requests in
\* flight, and by one more for each count that failed.
THEOREM RosterBoundedCorrect == RosterSpec => []RosterBounded
<1>1. RosterInit => CapIInv
  BY RosterStarts, CapStarts DEF CapIInv
<1>2. CapIInv /\ [RosterNext]_rosterVars => CapIInv'
  <2>1. CapIInv /\ RosterNext => CapIInv'
    BY RosterInductive, CapKept DEF CapIInv
  <2>2. CapIInv /\ UNCHANGED rosterVars => CapIInv'
    BY RosterInductive DEF CapIInv, rosterVars, RosterBounded, Members, Writers
  <2>3. QED
    BY <2>1, <2>2
<1>3. QED
  BY <1>1, <1>2, PTL DEF RosterSpec, CapIInv

---------------------------------------------------------------------------
(* The policy overlay *)

\* What an evaluation has still to count are velocity rules of its document.
Walks(e) == e.at = "count" => e.doc \in RuleLists /\ e.left \subseteq Velocities(e.doc, e.kind)

PolicyTyped ==
  /\ document \in RuleLists \cup {NoDocument, Damaged}
  /\ counter \in [Counters -> Nat] /\ counted \in [Counters -> SUBSET (Calls \X Velocity)]
  /\ DOMAIN eval = Calls
  /\ \A c \in Calls : Started(c) => Walks(eval[c]) /\ \E rules :
       eval[c] \in [at : {"load", "count", "passed", "denied"}, kind : Kinds,
                    doc : RuleLists \cup {NoDocument, Damaged}, left : {rules}]
  /\ edits \in 0 .. MaxEdits /\ outages \in 0 .. MaxOutages

\* The calls counted for a rule on a key that is there; those of them that the
\* overlay has not refused.
CountedFor(s, rule) == {c \in Calls : <<c, rule>> \in counted[s]}
LetBy(s, rule)      == {c \in CountedFor(s, rule) : eval[c].at # "denied"}

\* A key counts at least the calls that were counted on it, and those that a
\* rule lets by are within its cap.
CountersTell ==
  \A s \in Counters :
    /\ \A rule \in Velocity : Cardinality(CountedFor(s, rule)) <= counter[s]
    /\ \A rule \in Velocity : Cardinality(LetBy(s, rule)) <= rule.max

Uncounted(c) == \A s \in Counters, rule \in Velocity : <<c, rule>> \notin counted[s]
Refused(c)   == eval[c].doc \in RuleLists /\ RefusedBy(eval[c].doc, eval[c].kind)

\* A call is counted only after its document was loaded and let it by.
LoadedFirst ==
  \A c \in Calls :
    /\ ~Started(c) => Uncounted(c)
    /\ Started(c) =>
         /\ eval[c].at = "load" => eval[c].doc = NoDocument /\ Uncounted(c)
         /\ eval[c].at \in {"count", "passed"} => eval[c].doc # Damaged /\ ~Refused(c)
         /\ Refused(c) => Uncounted(c)

PolicyIInv == PolicyTyped /\ CountersTell /\ LoadedFirst

\* A rule that counts a call is a velocity rule, for a scope that has a counter.
LEMMA CountingRules ==
  ASSUME NEW d \in RuleLists, NEW k \in Kinds, NEW i \in Velocities(d, k)
  PROVE  d[i] \in Velocity /\ d[i].scope \in Counters
BY DEF Velocities, Velocity, Matches, Counters

LEMMA PolicyBounds ==
  ASSUME PolicyTyped
  PROVE  /\ Reachable \/ Outage => outages' \in 0 .. MaxOutages
         /\ edits' = edits => edits' \in 0 .. MaxEdits
         /\ outages' = outages => outages' \in 0 .. MaxOutages
         /\ edits < MaxEdits /\ edits' = edits + 1 => edits' \in 0 .. MaxEdits
BY PolicyAssumption DEF PolicyTyped, Reachable, Outage

\* Finitely many calls are counted.
LEMMA CountedFinite ==
  ASSUME NEW T \in SUBSET Calls
  PROVE  IsFiniteSet(T) /\ Cardinality(T) \in Nat
         /\ \A U \in SUBSET T : Cardinality(U) <= Cardinality(T)
<1>1. IsFiniteSet(T)
  BY PolicyAssumption, FS_Subset
<1>2. QED
  BY <1>1, FS_CardinalityType, FS_Subset

\* A decision on one evaluation keeps its kind and leaves the others alone.
Decided(c, d, at, rules) ==
  /\ eval'[c].at = at /\ eval'[c].doc = d /\ eval'[c].kind = eval[c].kind
  /\ eval'[c].left = rules
  /\ eval'[c] # New
  /\ eval'[c] \in [at : {"load", "count", "passed", "denied"}, kind : Kinds,
                   doc : RuleLists \cup {NoDocument, Damaged}, left : {rules}]
  /\ \A x \in Calls \ {c} : eval'[x] = eval[x]
  /\ DOMAIN eval' = Calls

LEMMA DecisionStep ==
  ASSUME PolicyTyped, NEW c \in Calls, Started(c),
         NEW d \in RuleLists \cup {NoDocument, Damaged},
         NEW at \in {"load", "count", "passed", "denied"}, NEW rules, Decision(c, d, at, rules)
  PROVE  Decided(c, d, at, rules)
<1>1. PICK old : eval[c] \in [at : {"load", "count", "passed", "denied"}, kind : Kinds,
                              doc : RuleLists \cup {NoDocument, Damaged}, left : {old}]
  BY DEF PolicyTyped
<1> DEFINE e == [eval[c] EXCEPT !.at = at, !.doc = d, !.left = rules]
<1>2. /\ e \in [at : {"load", "count", "passed", "denied"}, kind : Kinds,
                doc : RuleLists \cup {NoDocument, Damaged}, left : {rules}]
      /\ e.at = at /\ e.doc = d /\ e.kind = eval[c].kind /\ e.left = rules
  BY <1>1
<1>3. eval'[c] = e /\ DOMAIN eval' = Calls /\ \A x \in Calls \ {c} : eval'[x] = eval[x]
  BY DEF Decision, PolicyTyped
<1> HIDE DEF e
<1>4. e # New
  BY <1>2 DEF New
<1>5. QED
  BY <1>2, <1>3, <1>4 DEF Decided

\* A step that counts nothing and refuses or advances one evaluation.
LEMMA NothingCounted ==
  ASSUME PolicyIInv, UNCHANGED <<counter, counted>>,
         document' \in RuleLists \cup {NoDocument, Damaged},
         edits' \in 0 .. MaxEdits, outages' \in 0 .. MaxOutages,
         NEW c \in Calls, DOMAIN eval' = Calls, \A x \in Calls \ {c} : eval'[x] = eval[x],
         eval'[c] # New, Walks(eval'[c]),
         \E rules : eval'[c] \in [at : {"load", "count", "passed", "denied"}, kind : Kinds,
                      doc : RuleLists \cup {NoDocument, Damaged}, left : {rules}],
         ~Started(c) \/ eval[c].at # "denied",
         /\ eval'[c].at = "load" => eval'[c].doc = NoDocument /\ Uncounted(c)
         /\ eval'[c].at \in {"count", "passed"} => eval'[c].doc # Damaged /\ ~Refused(c)'
         /\ Refused(c)' => Uncounted(c)
  PROVE  PolicyIInv'
<1>1. PolicyTyped'
  BY DEF PolicyIInv, PolicyTyped, Started
<1>2. CountersTell'
  <2>1. \A s, rule : CountedFor(s, rule)' = CountedFor(s, rule)
    BY DEF CountedFor
  <2>2. \A s \in Counters, rule \in Velocity : LetBy(s, rule)' \subseteq LetBy(s, rule)
    BY <2>1 DEF LetBy, PolicyIInv, LoadedFirst, Uncounted, CountedFor, Started, New
  <2>3. ASSUME NEW s \in Counters, NEW rule \in Velocity
        PROVE  Cardinality(LetBy(s, rule)') <= rule.max
    <3>1. LetBy(s, rule) \in SUBSET Calls
      BY DEF LetBy, CountedFor
    <3>2. rule.max \in Nat
      BY PolicyAssumption DEF Velocity
    <3>3. Cardinality(LetBy(s, rule)') <= Cardinality(LetBy(s, rule))
          /\ Cardinality(LetBy(s, rule)) \in Nat
      BY <2>2, <3>1, CountedFinite
    <3>4. Cardinality(LetBy(s, rule)') \in Nat
      BY <2>2, <3>1, CountedFinite
    <3>5. Cardinality(LetBy(s, rule)) <= rule.max
      BY DEF PolicyIInv, CountersTell
    <3>6. QED
      BY <3>2, <3>3, <3>4, <3>5
  <2>4. QED
    BY <2>1, <2>3 DEF PolicyIInv, CountersTell
<1>3. LoadedFirst'
  BY DEF PolicyIInv, LoadedFirst, Uncounted, Refused, Started
<1>4. QED
  BY <1>1, <1>2, <1>3 DEF PolicyIInv

LEMMA BeginKeeps ==
  ASSUME PolicyIInv, NEW c \in Calls, BeginEvaluation(c)
  PROVE  PolicyIInv'
<1>1. PICK k \in Kinds :
        eval' = [eval EXCEPT ![c] = [at |-> "load", kind |-> k, doc |-> NoDocument, left |-> {}]]
  BY DEF BeginEvaluation
<1> DEFINE e == [at |-> "load", kind |-> k, doc |-> NoDocument, left |-> {}]
<1>2. /\ e \in [at : {"load", "count", "passed", "denied"}, kind : Kinds,
                doc : RuleLists \cup {NoDocument, Damaged}, left : {{}}]
      /\ e.at = "load" /\ e.doc = NoDocument /\ e # New /\ Walks(e)
  BY DEF New, Walks
<1>3. eval'[c] = e /\ DOMAIN eval' = Calls /\ \A x \in Calls \ {c} : eval'[x] = eval[x]
  BY <1>1 DEF PolicyIInv, PolicyTyped
<1> HIDE DEF e
<1>4. UNCHANGED <<counter, counted, document>> /\ ~Started(c)
      /\ document \in RuleLists \cup {NoDocument, Damaged}
      /\ edits' \in 0 .. MaxEdits /\ outages' \in 0 .. MaxOutages
  BY PolicyBounds DEF BeginEvaluation, PolicyIInv, PolicyTyped
<1>5. Uncounted(c)
  BY <1>4 DEF PolicyIInv, LoadedFirst
<1>6. QED
  BY <1>2, <1>3, <1>4, <1>5, NothingCounted

LEMMA LoadKeeps ==
  ASSUME PolicyIInv, NEW c \in Calls, LoadDocument(c)
  PROVE  PolicyIInv'
<1>1. Started(c) /\ eval[c].at = "load" /\ UNCHANGED <<document, counter, counted>>
      /\ Uncounted(c) /\ PolicyTyped /\ document \in RuleLists \cup {NoDocument, Damaged}
      /\ edits' \in 0 .. MaxEdits /\ outages' \in 0 .. MaxOutages
  BY PolicyBounds DEF LoadDocument, PolicyIInv, LoadedFirst, PolicyTyped
<1>2. PICK d \in RuleLists \cup {NoDocument, Damaged}, at \in {"count", "passed", "denied"} :
        /\ \E rules : Decision(c, d, at, rules)
                      /\ (at = "count" => d \in RuleLists /\ rules \subseteq Velocities(d, eval[c].kind))
        /\ at # "denied" => d = NoDocument \/ (d # Damaged /\ ~RefusedBy(d, eval[c].kind))
  <2>1. CASE Decision(c, NoDocument, "denied", {}) \/ Decision(c, document, "denied", {})
    BY <1>1, <2>1
  <2>2. CASE document = NoDocument /\ Decision(c, document, "passed", {})
    BY <1>1, <2>2
  <2>3. ASSUME document # NoDocument, document # Damaged, ~RefusedBy(document, eval[c].kind),
               NEW at \in {"count", "passed"},
               Decision(c, document, at, Velocities(document, eval[c].kind))
        PROVE  \E x \in RuleLists \cup {NoDocument, Damaged}, y \in {"count", "passed", "denied"} :
                 /\ \E z : Decision(c, x, y, z)
                           /\ (y = "count" => x \in RuleLists /\ z \subseteq Velocities(x, eval[c].kind))
                 /\ y # "denied" => x = NoDocument \/ (x # Damaged /\ ~RefusedBy(x, eval[c].kind))
    <3>1. document \in RuleLists
      BY <1>1, <2>3
    <3>2. QED
      BY <2>3, <3>1
  <2>4. QED
    BY <2>1, <2>2, <2>3, Zenon DEF LoadDocument
<1>3. PICK rules : /\ Decision(c, d, at, rules)
                   /\ at = "count" => d \in RuleLists /\ rules \subseteq Velocities(d, eval[c].kind)
  BY <1>2
<1>4. at \in {"load", "count", "passed", "denied"} /\ PolicyTyped /\ Started(c)
  BY <1>1
<1>5. Decided(c, d, at, rules) /\ Walks(eval'[c])
  BY <1>3, <1>4, DecisionStep DEF Walks, Decided
<1>6. at # "denied" => eval'[c].doc # Damaged /\ ~Refused(c)'
  BY <1>2, <1>5, PolicyAssumption DEF Refused, Decided
<1>7. QED
  BY <1>1, <1>5, <1>6, NothingCounted DEF Decided

\* The next rule counts: the key counts one more, and the call is one of those
\* that were counted.
LEMMA CountKeepsRules ==
  ASSUME PolicyIInv, NEW c \in Calls, CountVelocity(c)
  PROVE  PolicyIInv'
<1>1. Started(c) /\ eval[c].at = "count" /\ document' = document /\ PolicyTyped
      /\ eval[c].doc # Damaged /\ ~Refused(c)
  BY DEF CountVelocity, PolicyIInv, LoadedFirst
<1>2. eval[c].doc \in RuleLists \cup {NoDocument, Damaged}
  BY <1>1 DEF PolicyTyped
<1>3. eval[c].doc \in RuleLists /\ eval[c].kind \in Kinds
      /\ eval[c].left \subseteq Velocities(eval[c].doc, eval[c].kind)
  BY <1>1 DEF PolicyTyped, Walks
<1>4. PICK i \in eval[c].left : CountRule(c, eval[c].doc[i], eval[c].left \ {i})
  BY DEF CountVelocity
<1> DEFINE rule == eval[c].doc[i]
           s    == rule.scope
           left == eval[c].left \ {i}
           Incremented == /\ counter' = [counter EXCEPT ![s] = @ + 1]
                          /\ counted' = [counted EXCEPT ![s] = @ \cup {<<c, rule>>}]
<1>5. /\ rule \in Velocity /\ s \in Counters /\ left \subseteq Velocities(eval[c].doc, eval[c].kind)
      /\ edits' \in 0 .. MaxEdits /\ outages' \in 0 .. MaxOutages
  BY <1>1, <1>3, <1>4, CountingRules, PolicyBounds DEF CountVelocity, CountRule
<1>6. PICK at \in {"count", "passed", "denied"} :
        /\ Decision(c, eval[c].doc, at, IF at = "denied" THEN {} ELSE left)
        /\ at # "denied" => Incremented /\ ~Over(counter[s] + 1, rule)
        /\ Incremented \/ UNCHANGED <<counter, counted>>
  <2>1. CASE Decision(c, eval[c].doc, "denied", {}) /\ (Incremented \/ UNCHANGED <<counter, counted>>)
    BY <2>1
  <2>2. ASSUME Incremented, ~Over(counter[s] + 1, rule), NEW at \in {"count", "passed"},
               Decision(c, eval[c].doc, at, left)
        PROVE  \E x \in {"count", "passed", "denied"} :
                 /\ Decision(c, eval[c].doc, x, IF x = "denied" THEN {} ELSE left)
                 /\ x # "denied" => Incremented /\ ~Over(counter[s] + 1, rule)
                 /\ Incremented \/ UNCHANGED <<counter, counted>>
    <3> HIDE DEF Incremented
    <3>1. QED
      BY <2>2
  <2>3. QED
    BY <1>4, <2>1, <2>2, Zenon DEF CountRule
<1> DEFINE rules == IF at = "denied" THEN {} ELSE left
<1>7. Decided(c, eval[c].doc, at, rules) /\ Walks(eval'[c])
  <2>1. at \in {"load", "count", "passed", "denied"} /\ PolicyTyped /\ Started(c)
    BY <1>1
  <2>2. Decided(c, eval[c].doc, at, rules)
    BY <1>2, <1>6, <2>1, DecisionStep
  <2>3. QED
    BY <1>3, <1>5, <2>2 DEF Walks, Decided
<1>8. PolicyTyped'
  <2>1. counter' \in [Counters -> Nat] /\ counted' \in [Counters -> SUBSET (Calls \X Velocity)]
    BY <1>1, <1>5, <1>6 DEF PolicyTyped
  <2>2. QED
    BY <1>1, <1>5, <1>7, <2>1 DEF PolicyTyped, Started, Decided
<1>9. LoadedFirst'
  <2>1. \A x \in Calls \ {c}, k \in Counters, r \in Velocity :
          <<x, r>> \in counted'[k] => <<x, r>> \in counted[k]
    BY <1>1, <1>6 DEF PolicyTyped
  <2>2. ~Refused(c)'
    BY <1>1, <1>7 DEF Refused, Decided
  <2>3. ASSUME NEW x \in Calls \ {c}
        PROVE  /\ eval'[x] = eval[x] /\ (Uncounted(x) => Uncounted(x)')
    BY <1>7, <2>1 DEF Uncounted, Decided
  <2>4. QED
    BY <1>1, <1>7, <2>2, <2>3 DEF PolicyIInv, LoadedFirst, Refused, Started, Decided
<1>10. CountersTell'
  <2>1. ASSUME NEW k \in Counters, NEW r \in Velocity
        PROVE  /\ Cardinality(CountedFor(k, r)') <= counter'[k]
               /\ Cardinality(LetBy(k, r)') <= r.max
    <3>1. /\ CountedFor(k, r) \in SUBSET Calls /\ LetBy(k, r) \in SUBSET Calls
          /\ CountedFor(k, r)' \in SUBSET Calls /\ LetBy(k, r)' \in SUBSET CountedFor(k, r)'
      BY DEF CountedFor, LetBy
    <3>2. /\ Cardinality(CountedFor(k, r)) <= counter[k] /\ Cardinality(LetBy(k, r)) <= r.max
          /\ r.max \in Nat /\ counter[k] \in Nat /\ counter'[k] \in Nat
      BY <1>1, <1>8, PolicyAssumption DEF PolicyIInv, CountersTell, PolicyTyped, Velocity
    <3>3. CASE counter'[k] = counter[k] /\ counted'[k] = counted[k]
      <4>1. CountedFor(k, r)' = CountedFor(k, r)
        BY <3>3 DEF CountedFor
      <4>2. LetBy(k, r)' \subseteq LetBy(k, r)
        <5>1. ASSUME NEW x \in LetBy(k, r)' PROVE x \in LetBy(k, r)
          <6>1. x \in CountedFor(k, r) /\ x \in Calls /\ eval'[x].at # "denied"
            BY <4>1, <5>1, Zenon DEF LetBy, CountedFor
          <6>2. eval[x].at # "denied"
            BY <1>1, <1>7, <6>1 DEF Decided
          <6>3. QED
            BY <6>1, <6>2 DEF LetBy
        <5>2. QED
          BY <5>1
      <4>3. Cardinality(LetBy(k, r)') <= Cardinality(LetBy(k, r))
            /\ Cardinality(LetBy(k, r)) \in Nat /\ Cardinality(LetBy(k, r)') \in Nat
        BY <3>1, <4>2, CountedFinite
      <4>4. QED
        BY <3>2, <3>3, <4>1, <4>3
    <3>4. CASE Incremented /\ k = s
      <4>1. counter'[k] = counter[k] + 1 /\ counted'[k] = counted[k] \cup {<<c, rule>>}
        BY <1>1, <3>4 DEF PolicyTyped
      <4>2. CountedFor(k, r)' \subseteq CountedFor(k, r) \cup {c}
        BY <4>1 DEF CountedFor
      <4>3. /\ IsFiniteSet(CountedFor(k, r)) /\ Cardinality(CountedFor(k, r)) \in Nat
            /\ CountedFor(k, r) \cup {c} \in SUBSET Calls
        BY <3>1, CountedFinite
      <4>4. Cardinality(CountedFor(k, r) \cup {c}) <= Cardinality(CountedFor(k, r)) + 1
        <5>1. \A S, x : IsFiniteSet(S) =>
                Cardinality(S \cup {x}) \in {Cardinality(S), Cardinality(S) + 1}
          BY FS_AddElement
        <5>2. Cardinality(CountedFor(k, r) \cup {c})
                \in {Cardinality(CountedFor(k, r)), Cardinality(CountedFor(k, r)) + 1}
          BY <4>3, <5>1
        <5>3. QED
          BY <4>3, <5>2
      <4>5. /\ Cardinality(CountedFor(k, r)') <= Cardinality(CountedFor(k, r) \cup {c})
            /\ Cardinality(CountedFor(k, r)') \in Nat
            /\ Cardinality(CountedFor(k, r) \cup {c}) \in Nat
            /\ Cardinality(LetBy(k, r)') <= Cardinality(CountedFor(k, r)')
            /\ Cardinality(LetBy(k, r)') \in Nat
        BY <3>1, <4>2, <4>3, CountedFinite
      <4>6. Cardinality(CountedFor(k, r)') <= counter'[k]
        BY <3>2, <4>1, <4>3, <4>4, <4>5
      <4>7. CASE r = rule /\ at # "denied"
        <5>1. ~(counter[k] + 1 > r.max)
          BY <1>6, <3>4, <4>7 DEF Over
        <5>2. QED
          BY <3>2, <4>1, <4>5, <4>6, <5>1
      <4>8. CASE r # rule \/ at = "denied"
        <5>1. LetBy(k, r)' \subseteq LetBy(k, r)
          BY <1>1, <1>7, <4>1, <4>8 DEF LetBy, CountedFor, Decided
        <5>2. Cardinality(LetBy(k, r)') <= Cardinality(LetBy(k, r))
              /\ Cardinality(LetBy(k, r)) \in Nat
          BY <3>1, <5>1, CountedFinite
        <5>3. QED
          BY <3>2, <4>5, <4>6, <5>2
      <4>9. QED
        BY <4>7, <4>8
    <3>5. CASE Incremented /\ k # s
      <4>1. counter'[k] = counter[k] /\ counted'[k] = counted[k]
        BY <1>1, <3>5 DEF PolicyTyped
      <4>2. QED
        BY <3>3, <4>1
    <3>6. QED
      BY <1>6, <3>3, <3>4, <3>5
  <2>2. QED
    BY <2>1 DEF CountersTell
<1>11. QED
  BY <1>8, <1>9, <1>10 DEF PolicyIInv

\* A key that ends forgets what was counted on it.
LEMMA WindowKeeps ==
  ASSUME PolicyIInv, NEW s \in Counters, VelocityWindowEnds(s)
  PROVE  PolicyIInv'
<1>1. UNCHANGED <<document, eval>> /\ PolicyTyped
      /\ edits' \in 0 .. MaxEdits /\ outages' \in 0 .. MaxOutages
  BY PolicyBounds DEF VelocityWindowEnds, PolicyIInv
<1>2. /\ counter'[s] = 0 /\ counted'[s] = {}
      /\ \A k \in Counters \ {s} : counter'[k] = counter[k] /\ counted'[k] = counted[k]
      /\ counter' \in [Counters -> Nat] /\ counted' \in [Counters -> SUBSET (Calls \X Velocity)]
  BY <1>1 DEF VelocityWindowEnds, PolicyTyped
<1>3. PolicyTyped'
  BY <1>1, <1>2 DEF PolicyTyped, Started
<1>4. LoadedFirst'
  <2>1. \A c : Uncounted(c) => Uncounted(c)'
    BY <1>2 DEF Uncounted
  <2>2. QED
    BY <1>1, <2>1 DEF PolicyIInv, LoadedFirst, Refused, Started
<1>5. CountersTell'
  <2>1. ASSUME NEW k \in Counters
        PROVE  \A rule \in Velocity : /\ Cardinality(CountedFor(k, rule)') <= counter'[k]
                                      /\ Cardinality(LetBy(k, rule)') <= rule.max
    <3>1. CASE k = s
      <4>1. \A rule : CountedFor(k, rule)' = {} /\ LetBy(k, rule)' = {}
        BY <1>2, <3>1 DEF CountedFor, LetBy
      <4>2. \A rule \in Velocity : rule.max \in Nat
        BY PolicyAssumption DEF Velocity
      <4>3. \A rule : Cardinality(CountedFor(k, rule)') = 0 /\ Cardinality(LetBy(k, rule)') = 0
        BY <4>1, FS_EmptySet
      <4>4. counter'[k] = 0 /\ counted'[k] = {}
        BY <1>2, <3>1
      <4>5. QED
        BY <4>2, <4>3, <4>4
    <3>2. CASE k # s
      <4>1. \A rule : CountedFor(k, rule)' = CountedFor(k, rule) /\ LetBy(k, rule)' = LetBy(k, rule)
        BY <1>1, <1>2, <3>2 DEF CountedFor, LetBy
      <4>2. QED
        BY <1>2, <3>2, <4>1 DEF PolicyIInv, CountersTell
    <3>3. QED
      BY <3>1, <3>2
  <2>2. QED
    BY <2>1 DEF CountersTell
<1>6. QED
  BY <1>3, <1>4, <1>5 DEF PolicyIInv

LEMMA PolicyStarts == PolicyInit => PolicyIInv
<1>1. SUFFICES ASSUME PolicyInit PROVE PolicyIInv
  OBVIOUS
<1>2. PolicyTyped
  BY <1>1, PolicyAssumption DEF PolicyInit, PolicyTyped, Started
<1>3. \A s \in Counters : \A rule : CountedFor(s, rule) = {} /\ LetBy(s, rule) = {}
  BY <1>1 DEF PolicyInit, CountedFor, LetBy
<1>4. \A rule \in Velocity : rule.max \in Nat
  BY PolicyAssumption DEF Velocity
<1>5. CountersTell
  <2>1. ASSUME NEW s \in Counters, NEW rule \in Velocity
        PROVE  Cardinality(CountedFor(s, rule)) = 0 /\ Cardinality(LetBy(s, rule)) = 0 /\ counter[s] = 0
    BY <1>1, <1>3, FS_EmptySet DEF PolicyInit
  <2>2. QED
    BY <1>4, <2>1 DEF CountersTell
<1>6. LoadedFirst
  BY <1>1 DEF PolicyInit, LoadedFirst, Started, Uncounted
<1>7. QED
  BY <1>2, <1>5, <1>6 DEF PolicyIInv

LEMMA PolicyInductive == PolicyIInv /\ [PolicyNext]_policyVars => PolicyIInv'
<1>1. SUFFICES ASSUME PolicyIInv, [PolicyNext]_policyVars PROVE PolicyIInv'
  OBVIOUS
<1>2. CASE EditDocument \/ UNCHANGED policyVars
  <2>1. /\ UNCHANGED <<counter, counted, eval>>
        /\ document' \in RuleLists \cup {NoDocument, Damaged}
        /\ edits' \in 0 .. MaxEdits /\ outages' \in 0 .. MaxOutages
    BY <1>1, <1>2, PolicyBounds DEF EditDocument, policyVars, PolicyIInv, PolicyTyped
  <2>2. QED
    BY <1>1, <2>1 DEF PolicyIInv, PolicyTyped, CountersTell, LoadedFirst, Started, CountedFor,
                      LetBy, Uncounted, Refused
<1>3. ASSUME NEW s \in Counters, VelocityWindowEnds(s) PROVE PolicyIInv'
  BY <1>1, <1>3, WindowKeeps
<1>4. ASSUME NEW c \in Calls, BeginEvaluation(c) \/ LoadDocument(c) \/ CountVelocity(c)
      PROVE  PolicyIInv'
  BY <1>1, <1>4, BeginKeeps, LoadKeeps, CountKeepsRules
<1>5. QED
  BY <1>1, <1>2, <1>3, <1>4 DEF PolicyNext

\* No more calls pass a velocity rule than its cap while its key lives, and
\* nothing passes that its document refuses, however evaluations and edits of
\* the document interleave (VelocityAmountPolicyEngine.evaluate,
\* _check_velocity).
THEOREM RulesHoldCorrect == PolicySpec => []RulesHold
<1>1. PolicyIInv => RulesHold
  <2>1. SUFFICES ASSUME PolicyIInv PROVE CapsBite /\ DenyOnly
    BY DEF RulesHold
  <2>2. CapsBite
    <3>1. SUFFICES ASSUME NEW s \in Counters, NEW rule \in Velocity
                   PROVE  Cardinality({c \in Calls : <<c, rule>> \in counted[s] /\ Passed(c)}) <= rule.max
      BY DEF CapsBite
    <3> DEFINE T == {c \in Calls : <<c, rule>> \in counted[s] /\ Passed(c)}
    <3>2. T \in SUBSET LetBy(s, rule) /\ LetBy(s, rule) \in SUBSET Calls
      BY DEF LetBy, CountedFor, Passed
    <3> HIDE DEF T
    <3>3. Cardinality(T) <= Cardinality(LetBy(s, rule)) /\ Cardinality(LetBy(s, rule)) \in Nat
          /\ Cardinality(T) \in Nat
      BY <3>2, CountedFinite
    <3>4. Cardinality(LetBy(s, rule)) <= rule.max /\ rule.max \in Nat
      BY <2>1, PolicyAssumption DEF PolicyIInv, CountersTell, Velocity
    <3>5. Cardinality(T) <= rule.max
      BY <3>3, <3>4
    <3>6. QED
      BY <3>5 DEF T
  <2>3. DenyOnly
    BY <2>1 DEF PolicyIInv, LoadedFirst, DenyOnly, Passed, Refused, Uncounted
  <2>4. QED
    BY <2>2, <2>3
<1>2. QED
  BY <1>1, PolicyStarts, PolicyInductive, PTL DEF PolicySpec

---------------------------------------------------------------------------
(* The catalog *)

MaybeBinding == Binding \cup {NoBinding}

CatalogTyped ==
  /\ overlay \in [Aliases -> MaybeBinding]
  /\ approved \in [Aliases -> Submissions \cup {NoSubmission}]
  /\ review \in [Submissions -> {"none", "pending", "approved", "rejected"}]
  /\ publishers \subseteq Namespaces
  /\ live \in [Nodes -> [Aliases -> MaybeBinding]]
  /\ boot \in [Nodes -> [Aliases -> MaybeBinding]]
  /\ vetted \in [Nodes -> SUBSET Aliases]
  /\ desk \in [Desks -> AtWork \cup {AtRest}]
  /\ journal \subseteq [alias : Aliases, bind : Binding]
  /\ removed \subseteq Aliases /\ edited \subseteq Aliases
  /\ since \in [Nodes -> SUBSET Namespaces]
  /\ requests \in 0 .. MaxRequests /\ mishaps \in 0 .. MaxMishaps

\* Not weaker than what is shipped for a target that covers it.
AboveFloor(b) ==
  \A c \in DOMAIN Config :
    <<Config[c].target, b.target>> \in Related => ~Weaker(b.posture, Config[c].posture)

InLog(log, a, b) == [alias |-> a, bind |-> b] \in log

\* What a request carries, whatever the state: an alias that is not shipped and
\* what the administrator or the manifest asks for.
Form(w) ==
  /\ w.op \in {"register", "approve"} =>
       /\ w.pc \in {"count", "verify", "emit", "keep", "relist", "add", "golive", "settle"}
       /\ w.alias \notin DOMAIN Config /\ w.bind \in Binding /\ w.bind.posture \in Postures
  /\ w.op = "register" => w.bind.source = Operator
  /\ w.op = "approve" =>
       w.sub \in Submissions /\ w.bind = ManifestBinding(w.sub) /\ w.alias = ManifestOf[w.sub].alias
  /\ w.op = "reject" => w.pc \in {"emit", "settle"} /\ w.sub \in Submissions
  /\ w.op = "submit" => w.pc = "enqueue" /\ w.sub \in Submissions
  /\ w.op = "deregister" => w.pc = "remove" /\ w.alias \notin DOMAIN Config
  /\ w.pc = "keep" => w.op = "approve"
  /\ w.pc \in {"relist", "add", "golive"} => AboveFloor(w.bind)

\* Past its record it is in the log; past the check of its publisher, that one
\* was listed since the worker booted; where it goes live, the row is its own.
Carried(w, log, names) ==
  /\ w.pc \in {"keep", "relist", "add", "golive"} => InLog(log, w.alias, w.bind)
  /\ w.op = "approve" /\ w.pc \in {"emit", "keep", "relist", "add", "golive"} =>
       (FromRegistry(w.sub) => ManifestOf[w.sub].publisher \in names)

OwnRow(w) == w.pc = "golive" /\ w.alias \notin removed \cup edited => overlay[w.alias] = w.bind

ShippedStays ==
  \A a \in DOMAIN Config :
    overlay[a] = NoBinding /\ \A n \in Nodes : live[n][a] = Config[a] /\ boot[n][a] = NoBinding

RowsSound ==
  \A a \in Aliases : overlay[a] # NoBinding /\ a \notin edited =>
    InLog(journal, a, overlay[a]) /\ AboveFloor(overlay[a])

ApprovedLogged ==
  \A a \in Aliases : approved[a] # NoSubmission => InLog(journal, a, ManifestBinding(approved[a]))

\* What a worker resolves beside what is shipped.
Resolvable(a, b, log, names) ==
  /\ b.posture \in Postures
  /\ b.source \in Submissions =>
       /\ InLog(log, a, b) /\ ManifestOf[b.source].alias = a /\ b = ManifestBinding(b.source)
       /\ FromRegistry(b.source) => ManifestOf[b.source].publisher \in names

LiveSound ==
  \A n \in Nodes, a \in Aliases \ DOMAIN Config :
    live[n][a] # NoBinding => Resolvable(a, live[n][a], journal, since[n])

\* A row that waits for the check of its publisher is as it was approved.
VettedSound ==
  \A n \in Nodes : \A a \in vetted[n] :
    LET b == boot[n][a] IN
    /\ b # NoBinding /\ b.posture \in Postures /\ b.source \in Submissions
    /\ InLog(journal, a, b) /\ ManifestOf[b.source].alias = a /\ b = ManifestBinding(b.source)

Listed == \A n \in Nodes : publishers \subseteq since[n]

EditedRows == \A a \in edited : overlay[a] # NoBinding

Agree ==
  \A n \in Nodes, a \in Aliases \ (removed \cup edited \cup DOMAIN Config) :
    live[n][a] \in {NoBinding, overlay[a]} /\ boot[n][a] \in {NoBinding, overlay[a]}

DeskSound(d) ==
  desk[d] # AtRest =>
    Form(desk[d]) /\ Carried(desk[d], journal, since[NodeOf[d]]) /\ OwnRow(desk[d])

CatalogIInv ==
  /\ CatalogTyped /\ ShippedStays /\ RowsSound /\ ApprovedLogged /\ LiveSound
  /\ VettedSound /\ Listed /\ EditedRows /\ Agree
  /\ \A d \in Desks : DeskSound(d)

LEMMA BindingsApart == NoBinding \notin Binding /\ AtRest \notin AtWork /\ AtRest.pc = "rest"
BY DEF NoBinding, Binding, AtRest, AtWork

LEMMA Manifests ==
  ASSUME NEW s \in Submissions
  PROVE  /\ ManifestBinding(s) \in Binding /\ ManifestBinding(s).posture \in Postures
         /\ ManifestBinding(s).source = s
         /\ ManifestBinding(s).target = ManifestOf[s].target
         /\ ManifestBinding(s).posture = ManifestOf[s].posture
         /\ ManifestOf[s].alias \in Aliases
BY CatalogAssumption DEF ManifestBinding, Binding, Postures

LEMMA Shelves ==
  /\ DOMAIN Config \subseteq Aliases
  /\ \A a \in DOMAIN Config : Config[a] \in Binding /\ Config[a] # NoBinding
                              /\ Config[a].source = Shipped
  /\ \A d \in Desks : NodeOf[d] \in Nodes
  /\ Shipped \notin Submissions /\ Operator \notin Submissions /\ NoSubmission \notin Submissions
BY CatalogAssumption, BindingsApart DEF Binding

\* A log that grows keeps what it says.
LEMMA JournalStays ==
  ASSUME NEW log, NEW longer, log \subseteq longer
  PROVE  /\ \A a, b : InLog(log, a, b) => InLog(longer, a, b)
         /\ \A w, names : Carried(w, log, names) => Carried(w, longer, names)
         /\ \A a, b, names : Resolvable(a, b, log, names) => Resolvable(a, b, longer, names)
BY DEF InLog, Carried, Resolvable

LEMMA NamesStay ==
  ASSUME NEW names, NEW more, names \subseteq more
  PROVE  /\ \A w, log : Carried(w, log, names) => Carried(w, log, more)
         /\ \A a, b, log : Resolvable(a, b, log, names) => Resolvable(a, b, log, more)
BY DEF Carried, Resolvable

\* A step of one request that writes neither the overlay nor a registry.
LEMMA RequestMoves ==
  ASSUME CatalogIInv, UNCHANGED <<overlay, publishers, live, boot, vetted, removed, edited, since>>,
         journal \subseteq journal', journal' \subseteq [alias : Aliases, bind : Binding],
         approved' \in [Aliases -> Submissions \cup {NoSubmission}],
         \A a \in Aliases : approved'[a] # approved[a] =>
           InLog(journal', a, ManifestBinding(approved'[a])),
         review' \in [Submissions -> {"none", "pending", "approved", "rejected"}],
         requests' \in 0 .. MaxRequests, mishaps' \in 0 .. MaxMishaps,
         NEW d \in Desks, NEW w \in AtWork \cup {AtRest}, desk' = [desk EXCEPT ![d] = w],
         w # AtRest => Form(w) /\ Carried(w, journal', since[NodeOf[d]]) /\ OwnRow(w)
  PROVE  CatalogIInv'
<1>1. CatalogTyped'
  BY DEF CatalogIInv, CatalogTyped
<1>2. ShippedStays' /\ Listed' /\ EditedRows' /\ Agree'
  BY DEF CatalogIInv, ShippedStays, Listed, EditedRows, Agree
<1>3. RowsSound' /\ LiveSound' /\ VettedSound'
  BY JournalStays DEF CatalogIInv, RowsSound, LiveSound, VettedSound
<1>4. ApprovedLogged'
  BY JournalStays DEF CatalogIInv, ApprovedLogged
<1>5. ASSUME NEW x \in Desks PROVE DeskSound(x)'
  <2>1. CASE x = d
    BY <2>1 DEF DeskSound, CatalogIInv, CatalogTyped, OwnRow
  <2>2. CASE x # d
    <3>1. desk'[x] = desk[x]
      BY <2>2 DEF CatalogIInv, CatalogTyped
    <3>2. QED
      BY <3>1, JournalStays DEF DeskSound, CatalogIInv, OwnRow
  <2>3. QED
    BY <2>1, <2>2
<1>6. QED
  BY <1>1, <1>2, <1>3, <1>4, <1>5 DEF CatalogIInv

LEMMA CatalogBounds ==
  ASSUME CatalogIInv
  PROVE  /\ requests' = requests => requests' \in 0 .. MaxRequests
         /\ requests < MaxRequests /\ requests' = requests + 1 => requests' \in 0 .. MaxRequests
         /\ \A failed : Mishap(failed) => mishaps' \in 0 .. MaxMishaps
         /\ mishaps < MaxMishaps /\ mishaps' = mishaps + 1 => mishaps' \in 0 .. MaxMishaps
         /\ mishaps' = mishaps => mishaps' \in 0 .. MaxMishaps
BY CatalogAssumption DEF Mishap, CatalogIInv, CatalogTyped

\* The same, when nothing else changes either.
LEMMA RequestGoesOn ==
  ASSUME CatalogIInv, UNCHANGED <<catalogStore, live, boot, vetted, catalogPast>>,
         requests' \in 0 .. MaxRequests, mishaps' \in 0 .. MaxMishaps,
         NEW d \in Desks, NEW w \in AtWork \cup {AtRest}, desk' = [desk EXCEPT ![d] = w],
         w # AtRest => Form(w) /\ Carried(w, journal, since[NodeOf[d]]) /\ OwnRow(w)
  PROVE  CatalogIInv'
BY RequestMoves DEF catalogStore, catalogPast, CatalogIInv, CatalogTyped

LEMMA RequestEnds ==
  ASSUME CatalogIInv, UNCHANGED <<catalogStore, live, boot, vetted, catalogPast>>,
         requests' \in 0 .. MaxRequests, mishaps' \in 0 .. MaxMishaps,
         NEW d \in Desks, Leaves(d)
  PROVE  CatalogIInv'
BY RequestGoesOn DEF Leaves

\* A request that has just come is of its form and carries nothing.
LEMMA NewWork ==
  ASSUME NEW pc \in {"count", "remove", "enqueue", "emit"},
         NEW op \in {"register", "approve", "reject", "submit", "deregister"},
         NEW a \in Aliases, NEW b \in MaybeBinding, NEW s \in Submissions \cup {NoSubmission}
  PROVE  /\ Work(pc, op, a, b, s) \in AtWork
         /\ Work(pc, op, a, b, s).pc = pc /\ Work(pc, op, a, b, s).op = op
         /\ Work(pc, op, a, b, s).alias = a /\ Work(pc, op, a, b, s).bind = b
         /\ Work(pc, op, a, b, s).sub = s
BY DEF Work, AtWork, MaybeBinding

LEMMA StartRegisterKeeps ==
  ASSUME CatalogIInv, NEW d \in Desks, NEW body \in Bodies, NEW failed \in BOOLEAN,
         StartRegister(d, body, failed)
  PROVE  CatalogIInv'
<1> DEFINE b == [target |-> body.target, posture |-> body.posture, source |-> Operator]
           w == Work("count", "register", body.alias, b, NoSubmission)
<1>1. body.alias \in Aliases /\ body.target \in Targets /\ body.posture \in Postures
  BY CatalogAssumption
<1>2. b \in Binding /\ b.posture \in Postures /\ b.source = Operator
  BY <1>1 DEF Binding, Postures
<1>3. /\ UNCHANGED <<catalogStore, live, boot, vetted, catalogPast>> /\ desk' = [desk EXCEPT ![d] = w]
      /\ ~HasAlias(NodeOf[d], body.alias)
      /\ requests' \in 0 .. MaxRequests /\ mishaps' \in 0 .. MaxMishaps
  BY CatalogBounds DEF StartRegister, Arrives
<1>4. body.alias \notin DOMAIN Config
  BY <1>3, Shelves DEF HasAlias, CatalogIInv, ShippedStays
<1> HIDE DEF b
<1>5. /\ w \in AtWork /\ w.pc = "count" /\ w.op = "register" /\ w.alias = body.alias /\ w.bind = b
      /\ w.sub = NoSubmission
  BY <1>1, <1>2, NewWork DEF MaybeBinding
<1> HIDE DEF w
<1>6. Form(w) /\ Carried(w, journal, since[NodeOf[d]]) /\ OwnRow(w)
  BY <1>2, <1>4, <1>5 DEF Form, Carried, OwnRow
<1>7. QED
  BY <1>3, <1>5, <1>6, RequestGoesOn

LEMMA StartOthersKeep ==
  ASSUME CatalogIInv, NEW d \in Desks,
         \/ \E a \in Aliases : StartDeregister(d, a)
         \/ \E s \in Submissions, failed \in BOOLEAN : StartSubmit(d, s, failed)
         \/ \E s \in Submissions : StartApprove(d, s) \/ StartReject(d, s)
  PROVE  CatalogIInv'
<1>1. /\ UNCHANGED <<catalogStore, live, boot, vetted, catalogPast>>
      /\ requests' \in 0 .. MaxRequests /\ mishaps' \in 0 .. MaxMishaps
  BY CatalogBounds DEF StartDeregister, StartSubmit, StartApprove, StartReject, Arrives
<1>2. ASSUME NEW a \in Aliases, StartDeregister(d, a) PROVE CatalogIInv'
  <2> DEFINE w == Work("remove", "deregister", a, NoBinding, NoSubmission)
  <2>1. /\ w \in AtWork /\ w.pc = "remove" /\ w.op = "deregister" /\ w.alias = a
    BY NewWork DEF MaybeBinding
  <2>2. a \notin DOMAIN Config /\ desk' = [desk EXCEPT ![d] = w]
    BY <1>2 DEF StartDeregister, Rows, CatalogIInv, ShippedStays
  <2> HIDE DEF w
  <2>3. Form(w) /\ Carried(w, journal, since[NodeOf[d]]) /\ OwnRow(w)
    BY <2>1, <2>2 DEF Form, Carried, OwnRow
  <2>4. QED
    BY <1>1, <2>1, <2>2, <2>3, RequestGoesOn
<1>3. ASSUME NEW s \in Submissions, NEW failed \in BOOLEAN, StartSubmit(d, s, failed) PROVE CatalogIInv'
  <2> DEFINE w == Work("enqueue", "submit", ManifestOf[s].alias, NoBinding, s)
  <2>1. /\ w \in AtWork /\ w.pc = "enqueue" /\ w.op = "submit" /\ w.sub = s
    BY NewWork, Manifests, BindingsApart DEF MaybeBinding
  <2>2. desk' = [desk EXCEPT ![d] = w]
    BY <1>3 DEF StartSubmit
  <2> HIDE DEF w
  <2>3. Form(w) /\ Carried(w, journal, since[NodeOf[d]]) /\ OwnRow(w)
    BY <2>1 DEF Form, Carried, OwnRow
  <2>4. QED
    BY <1>1, <2>1, <2>2, <2>3, RequestGoesOn
<1>4. ASSUME NEW s \in Submissions, StartReject(d, s) PROVE CatalogIInv'
  <2> DEFINE w == Work("emit", "reject", ManifestOf[s].alias, NoBinding, s)
  <2>1. /\ w \in AtWork /\ w.pc = "emit" /\ w.op = "reject" /\ w.sub = s
    BY NewWork, Manifests, BindingsApart DEF MaybeBinding
  <2>2. desk' = [desk EXCEPT ![d] = w]
    BY <1>4 DEF StartReject
  <2> HIDE DEF w
  <2>3. Form(w) /\ Carried(w, journal, since[NodeOf[d]]) /\ OwnRow(w)
    BY <2>1 DEF Form, Carried, OwnRow
  <2>4. QED
    BY <1>1, <2>1, <2>2, <2>3, RequestGoesOn
<1>5. ASSUME NEW s \in Submissions, StartApprove(d, s) PROVE CatalogIInv'
  <2> DEFINE w == Work("count", "approve", ManifestOf[s].alias, ManifestBinding(s), s)
  <2>1. /\ w \in AtWork /\ w.pc = "count" /\ w.op = "approve" /\ w.sub = s
        /\ w.alias = ManifestOf[s].alias /\ w.bind = ManifestBinding(s)
    BY NewWork, Manifests, BindingsApart DEF MaybeBinding
  <2>2. desk' = [desk EXCEPT ![d] = w] /\ ~HasAlias(NodeOf[d], ManifestOf[s].alias)
    BY <1>5 DEF StartApprove
  <2>3. ManifestOf[s].alias \notin DOMAIN Config
    BY <2>2, Shelves DEF HasAlias, CatalogIInv, ShippedStays
  <2> HIDE DEF w
  <2>4. Form(w) /\ Carried(w, journal, since[NodeOf[d]]) /\ OwnRow(w)
    BY <2>1, <2>3, Manifests DEF Form, Carried, OwnRow
  <2>5. QED
    BY <1>1, <2>1, <2>2, <2>4, RequestGoesOn
<1>6. QED
  BY <1>2, <1>3, <1>4, <1>5

LEMMA AtWorkFacts ==
  ASSUME NEW k \in AtWork, NEW pc \in {"verify", "emit", "keep", "relist", "add", "golive", "settle"},
         NEW w, w = [k EXCEPT !.pc = pc]
  PROVE  /\ w \in AtWork /\ w.pc = pc /\ w.op = k.op /\ w.alias = k.alias
         /\ w.bind = k.bind /\ w.sub = k.sub
BY DEF AtWork

LEMMA RequestAtHand ==
  ASSUME CatalogIInv, NEW d \in Desks
  PROVE  /\ NodeOf[d] \in Nodes
         /\ desk[d].pc # "rest" =>
              /\ desk[d] \in AtWork /\ Form(desk[d])
              /\ Carried(desk[d], journal, since[NodeOf[d]]) /\ OwnRow(desk[d])
<1>1. desk[d] \in AtWork \cup {AtRest} /\ DeskSound(d)
  BY DEF CatalogIInv, CatalogTyped
<1>2. QED
  BY <1>1, BindingsApart, Shelves DEF DeskSound

\* A look in memory that finds no conflict: what is shipped is in every memory.
LEMMA LookedInMemory ==
  ASSUME CatalogIInv, NEW n \in Nodes, NEW b, ~Conflicts(InMemory(n), b)
  PROVE  AboveFloor(b)
<1> SUFFICES ASSUME NEW c \in DOMAIN Config, <<Config[c].target, b.target>> \in Related
             PROVE  ~Weaker(b.posture, Config[c].posture)
  BY DEF AboveFloor
<1>1. live[n][c] = Config[c] /\ c \in Aliases /\ Config[c] # NoBinding
  BY Shelves DEF CatalogIInv, ShippedStays
<1>2. Config[c] \in InMemory(n)
  BY <1>1 DEF InMemory
<1>3. QED
  BY <1>1, <1>2 DEF Conflicts

LEMMA CountRowsKeeps ==
  ASSUME CatalogIInv, NEW d \in Desks, NEW failed \in BOOLEAN, CountRows(d, failed)
  PROVE  CatalogIInv'
<1>1. /\ UNCHANGED <<catalogStore, live, boot, vetted, catalogPast>>
      /\ requests' \in 0 .. MaxRequests /\ mishaps' \in 0 .. MaxMishaps
  BY CatalogBounds DEF CountRows
<1>2. /\ desk[d] \in AtWork /\ Form(desk[d]) /\ desk[d].pc = "count"
      /\ OwnRow(desk[d])
  BY RequestAtHand DEF CountRows
<1>3. CASE Leaves(d)
  BY <1>1, <1>3, RequestEnds
<1>4. ASSUME NEW pc \in {"verify", "emit"}, Steps(d, pc),
             desk[d].op = "approve" /\ ManifestOf[desk[d].sub].kind = "registry" => pc = "verify"
      PROVE  CatalogIInv'
  <2> DEFINE w == [desk[d] EXCEPT !.pc = pc]
  <2>1. /\ w \in AtWork /\ w.pc = pc /\ w.op = desk[d].op /\ w.alias = desk[d].alias
        /\ w.bind = desk[d].bind /\ w.sub = desk[d].sub
    BY <1>2, AtWorkFacts
  <2>2. desk' = [desk EXCEPT ![d] = w]
    BY <1>4 DEF Steps
  <2> HIDE DEF w
  <2>3. Form(w) /\ Carried(w, journal, since[NodeOf[d]]) /\ OwnRow(w)
    BY <1>2, <1>4, <2>1 DEF Form, Carried, OwnRow, FromRegistry, AtWork
  <2>4. QED
    BY <1>1, <2>1, <2>2, <2>3, RequestGoesOn
<1>5. QED
  BY <1>3, <1>4 DEF CountRows

LEMMA VerifyKeeps ==
  ASSUME CatalogIInv, NEW d \in Desks, VerifyPublisher(d)
  PROVE  CatalogIInv'
<1>1. /\ UNCHANGED <<catalogStore, live, boot, vetted, catalogPast>>
      /\ requests' \in 0 .. MaxRequests /\ mishaps' \in 0 .. MaxMishaps
  BY CatalogBounds DEF VerifyPublisher
<1>2. /\ desk[d] \in AtWork /\ Form(desk[d]) /\ desk[d].pc = "verify" /\ NodeOf[d] \in Nodes
  BY RequestAtHand DEF VerifyPublisher
<1>3. CASE Leaves(d)
  BY <1>1, <1>3, RequestEnds
<1>4. CASE Steps(d, "emit") /\ ManifestOf[desk[d].sub].publisher \in publishers
  <2> DEFINE w == [desk[d] EXCEPT !.pc = "emit"]
  <2>1. /\ w \in AtWork /\ w.pc = "emit" /\ w.op = desk[d].op /\ w.alias = desk[d].alias
        /\ w.bind = desk[d].bind /\ w.sub = desk[d].sub
    BY <1>2, AtWorkFacts
  <2>2. desk' = [desk EXCEPT ![d] = w]
    BY <1>4 DEF Steps
  <2> HIDE DEF w
  <2>3. ManifestOf[w.sub].publisher \in since[NodeOf[d]]
    BY <1>2, <1>4, <2>1 DEF CatalogIInv, Listed
  <2>4. Form(w) /\ Carried(w, journal, since[NodeOf[d]]) /\ OwnRow(w)
    BY <1>2, <2>1, <2>3 DEF Form, Carried, OwnRow
  <2>5. QED
    BY <1>1, <2>1, <2>2, <2>4, RequestGoesOn
<1>5. QED
  BY <1>3, <1>4 DEF VerifyPublisher

LEMMA EmitIntentKeeps ==
  ASSUME CatalogIInv, NEW d \in Desks, EmitIntent(d)
  PROVE  CatalogIInv'
<1> DEFINE k == desk[d]
<1>1. /\ k \in AtWork /\ Form(k) /\ k.pc = "emit" /\ NodeOf[d] \in Nodes
      /\ Carried(k, journal, since[NodeOf[d]])
  BY RequestAtHand DEF EmitIntent
<1>2. k.op \in {"register", "approve", "reject"}
  BY <1>1 DEF Form, AtWork
<1>3. journal \subseteq journal' /\ journal' \subseteq [alias : Aliases, bind : Binding]
  <2>1. CASE k.op = "reject"
    BY <2>1 DEF EmitIntent, CatalogIInv, CatalogTyped
  <2>2. CASE k.op # "reject"
    <3>1. k.alias \in Aliases /\ k.bind \in Binding
      BY <1>1, <1>2, <2>2 DEF Form, AtWork
    <3>2. journal' = journal \cup {[alias |-> k.alias, bind |-> k.bind]}
      BY <2>2 DEF EmitIntent
    <3>3. QED
      BY <3>1, <3>2 DEF CatalogIInv, CatalogTyped
  <2>3. QED
    BY <2>1, <2>2
<1>4. k.op # "reject" => InLog(journal', k.alias, k.bind)
  BY DEF EmitIntent, InLog
<1>5. UNCHANGED <<overlay, approved, review, publishers, live, boot, vetted, removed, edited, since,
                  requests, mishaps>>
  BY DEF EmitIntent, catalogStore
<1>6. \/ k.op = "reject" /\ Steps(d, "settle")
      \/ k.op = "approve" /\ Steps(d, "keep")
      \/ k.op = "register" /\ Leaves(d)
      \/ k.op = "register" /\ Steps(d, "relist") /\ AboveFloor(k.bind)
  BY <1>1, <1>2, LookedInMemory DEF EmitIntent
<1>7. CASE Leaves(d)
  <2>1. desk' = [desk EXCEPT ![d] = AtRest]
    BY <1>7 DEF Leaves
  <2>2. QED
    BY <1>3, <1>5, <2>1, RequestMoves DEF CatalogIInv, CatalogTyped
<1>8. ASSUME NEW pc \in {"settle", "keep", "relist"}, Steps(d, pc),
             \/ k.op = "reject" /\ pc = "settle"
             \/ k.op = "approve" /\ pc = "keep"
             \/ k.op = "register" /\ pc = "relist" /\ AboveFloor(k.bind)
      PROVE  CatalogIInv'
  <2> DEFINE w == [desk[d] EXCEPT !.pc = pc]
  <2>1. /\ w \in AtWork /\ w.pc = pc /\ w.op = k.op /\ w.alias = k.alias
        /\ w.bind = k.bind /\ w.sub = k.sub
    BY <1>1, AtWorkFacts
  <2>2. desk' = [desk EXCEPT ![d] = w]
    BY <1>8 DEF Steps
  <2> HIDE DEF w, k
  <2>3. Form(w)
    BY <1>1, <1>8, <2>1 DEF Form
  <2>4. Carried(w, journal', since[NodeOf[d]]) /\ OwnRow(w)
    BY <1>1, <1>4, <1>8, <2>1 DEF Carried, OwnRow
  <2>5. QED
    BY <1>3, <1>5, <2>1, <2>2, <2>3, <2>4, RequestMoves DEF CatalogIInv, CatalogTyped
<1>9. QED
  BY <1>6, <1>7, <1>8

LEMMA KeepApprovedKeeps ==
  ASSUME CatalogIInv, NEW d \in Desks, KeepApproved(d)
  PROVE  CatalogIInv'
<1> DEFINE k == desk[d]
<1>1. /\ k \in AtWork /\ Form(k) /\ k.pc = "keep" /\ NodeOf[d] \in Nodes
      /\ Carried(k, journal, since[NodeOf[d]])
  BY RequestAtHand DEF KeepApproved
<1>2. /\ k.op = "approve" /\ k.sub \in Submissions /\ k.alias \in Aliases
      /\ k.bind = ManifestBinding(k.sub) /\ InLog(journal, k.alias, k.bind)
  BY <1>1 DEF Form, Carried, AtWork
<1>3. approved' = [approved EXCEPT ![k.alias] = k.sub]
  BY DEF KeepApproved
<1>4. /\ approved' \in [Aliases -> Submissions \cup {NoSubmission}]
      /\ \A a \in Aliases : approved'[a] # approved[a] =>
           InLog(journal, a, ManifestBinding(approved'[a]))
  BY <1>2, <1>3 DEF CatalogIInv, CatalogTyped
<1>5. UNCHANGED <<overlay, review, publishers, live, boot, vetted, journal, removed, edited, since,
                  requests, mishaps>>
  BY DEF KeepApproved, catalogPast
<1>6. Leaves(d) \/ (Steps(d, "relist") /\ AboveFloor(k.bind))
  BY <1>1, LookedInMemory DEF KeepApproved
<1>7. CASE Leaves(d)
  <2>1. desk' = [desk EXCEPT ![d] = AtRest]
    BY <1>7 DEF Leaves
  <2>2. QED
    BY <1>4, <1>5, <2>1, RequestMoves DEF CatalogIInv, CatalogTyped
<1>8. CASE Steps(d, "relist") /\ AboveFloor(k.bind)
  <2> DEFINE w == [desk[d] EXCEPT !.pc = "relist"]
  <2>1. /\ w \in AtWork /\ w.pc = "relist" /\ w.op = k.op /\ w.alias = k.alias
        /\ w.bind = k.bind /\ w.sub = k.sub
    BY <1>1, AtWorkFacts
  <2>2. desk' = [desk EXCEPT ![d] = w]
    BY <1>8 DEF Steps
  <2> HIDE DEF w, k
  <2>3. Form(w) /\ Carried(w, journal, since[NodeOf[d]]) /\ OwnRow(w)
    BY <1>1, <1>2, <1>8, <2>1 DEF Form, Carried, OwnRow
  <2>4. QED
    BY <1>4, <1>5, <2>1, <2>2, <2>3, RequestMoves DEF CatalogIInv, CatalogTyped
<1>9. QED
  BY <1>6, <1>7, <1>8

LEMMA RelistKeeps ==
  ASSUME CatalogIInv, NEW d \in Desks, NEW failed \in BOOLEAN, Relist(d, failed)
  PROVE  CatalogIInv'
<1>1. /\ UNCHANGED <<catalogStore, live, boot, vetted, catalogPast>>
      /\ requests' \in 0 .. MaxRequests /\ mishaps' \in 0 .. MaxMishaps
  BY CatalogBounds DEF Relist
<1>2. /\ desk[d] \in AtWork /\ Form(desk[d]) /\ desk[d].pc = "relist"
      /\ Carried(desk[d], journal, since[NodeOf[d]])
  BY RequestAtHand DEF Relist
<1>3. CASE Leaves(d)
  BY <1>1, <1>3, RequestEnds
<1>4. CASE desk' = [desk EXCEPT ![d].pc = "add", ![d].unread = failed]
  <2> DEFINE w == [desk[d] EXCEPT !.pc = "add", !.unread = failed]
  <2>1. /\ w \in AtWork /\ w.pc = "add" /\ w.op = desk[d].op /\ w.alias = desk[d].alias
        /\ w.bind = desk[d].bind /\ w.sub = desk[d].sub
    BY <1>2 DEF AtWork
  <2>2. desk' = [desk EXCEPT ![d] = w]
    BY <1>4 DEF CatalogIInv, CatalogTyped
  <2> HIDE DEF w
  <2>3. Form(w) /\ Carried(w, journal, since[NodeOf[d]]) /\ OwnRow(w)
    BY <1>2, <2>1 DEF Form, Carried, OwnRow
  <2>4. QED
    BY <1>1, <2>1, <2>2, <2>3, RequestGoesOn
<1>5. QED
  BY <1>3, <1>4 DEF Relist

LEMMA LastStepsKeep ==
  ASSUME CatalogIInv, NEW d \in Desks, Enqueue(d) \/ Settle(d) \/ RequestFails(d)
  PROVE  CatalogIInv'
<1>1. CASE RequestFails(d)
  BY <1>1, CatalogBounds, RequestEnds DEF RequestFails
<1>2. CASE Enqueue(d) \/ Settle(d)
  <2>1. /\ desk' = [desk EXCEPT ![d] = AtRest]
        /\ UNCHANGED <<overlay, approved, publishers, live, boot, vetted, journal, removed, edited, since,
                       requests, mishaps>>
    BY <1>2 DEF Enqueue, Settle, Leaves, catalogPast
  <2>2. review' \in [Submissions -> {"none", "pending", "approved", "rejected"}]
    BY <1>2 DEF Enqueue, Settle, CatalogIInv, CatalogTyped
  <2>3. QED
    BY <2>1, <2>2, RequestMoves DEF CatalogIInv, CatalogTyped
<1>3. QED
  BY <1>1, <1>2

LEMMA AddRowKeeps ==
  ASSUME CatalogIInv, NEW d \in Desks, NEW lost \in BOOLEAN, AddRow(d, lost)
  PROVE  CatalogIInv'
<1> DEFINE k == desk[d]
<1>1. /\ k \in AtWork /\ Form(k) /\ k.pc = "add" /\ NodeOf[d] \in Nodes
      /\ Carried(k, journal, since[NodeOf[d]])
  BY RequestAtHand DEF AddRow
<1>2. /\ k.op \in {"register", "approve"} /\ k.alias \in Aliases \ DOMAIN Config
      /\ k.bind \in Binding /\ k.bind # NoBinding
      /\ AboveFloor(k.bind) /\ InLog(journal, k.alias, k.bind)
  BY <1>1, BindingsApart DEF Form, Carried, AtWork
<1>3. /\ UNCHANGED <<approved, review, publishers, live, boot, vetted, journal, removed, edited, since,
                     requests>>
      /\ mishaps' \in 0 .. MaxMishaps
  BY CatalogBounds DEF AddRow
<1>4. CASE overlay[k.alias] # NoBinding
  BY <1>3, <1>4, CatalogBounds, RequestEnds DEF AddRow, catalogStore, catalogPast
<1>5. CASE overlay[k.alias] = NoBinding
  <2> DEFINE v == IF lost THEN AtRest ELSE [k EXCEPT !.pc = "golive"]
  <2>1. overlay' = [overlay EXCEPT ![k.alias] = k.bind] /\ desk' = [desk EXCEPT ![d] = v]
    BY <1>5 DEF AddRow, Leaves, Steps
  <2>2. /\ v \in AtWork \cup {AtRest}
        /\ v # AtRest => v.pc = "golive" /\ v.op = k.op /\ v.alias = k.alias
                         /\ v.bind = k.bind /\ v.sub = k.sub
    BY <1>1 DEF AtWork
  <2> HIDE DEF v, k
  <2>3. /\ overlay'[k.alias] = k.bind
        /\ \A a \in Aliases : a # k.alias => overlay'[a] = overlay[a]
        /\ overlay' \in [Aliases -> MaybeBinding]
    BY <1>2, <2>1 DEF CatalogIInv, CatalogTyped, MaybeBinding
  <2>4. CatalogTyped'
    BY <1>3, <2>1, <2>2, <2>3 DEF CatalogIInv, CatalogTyped
  <2>5. ShippedStays' /\ ApprovedLogged' /\ LiveSound' /\ VettedSound' /\ Listed'
    BY <1>2, <1>3, <2>3, Shelves DEF CatalogIInv, ShippedStays, ApprovedLogged, LiveSound,
         VettedSound, Listed
  <2>6. RowsSound'
    BY <1>2, <1>3, <2>3 DEF CatalogIInv, RowsSound
  <2>7. EditedRows'
    BY <1>2, <1>3, <2>3 DEF CatalogIInv, EditedRows, CatalogTyped
  <2>8. Agree'
    BY <1>3, <1>5, <2>3 DEF CatalogIInv, Agree
  <2>9. ASSUME NEW x \in Desks PROVE DeskSound(x)'
    <3>1. CASE x = d
      <4>1. desk'[x] = v
        BY <2>1, <3>1 DEF CatalogIInv, CatalogTyped
      <4>2. v # AtRest => Form(v) /\ Carried(v, journal, since[NodeOf[d]])
        BY <1>1, <1>2, <2>2 DEF Form, Carried
      <4>3. v # AtRest => overlay'[v.alias] = v.bind
        BY <2>2, <2>3
      <4>4. QED
        BY <1>3, <3>1, <4>1, <4>2, <4>3 DEF DeskSound, OwnRow
    <3>2. CASE x # d
      <4>1. desk'[x] = desk[x]
        BY <2>1, <3>2 DEF CatalogIInv, CatalogTyped
      <4>2. ASSUME desk[x] # AtRest, desk[x].pc = "golive",
                   desk[x].alias \notin removed \cup edited
            PROVE  overlay'[desk[x].alias] = desk[x].bind
        <5>1. /\ desk[x] \in AtWork /\ Form(desk[x]) /\ OwnRow(desk[x])
          BY <4>2, RequestAtHand DEF AtRest
        <5>2. desk[x].bind \in Binding /\ desk[x].alias \in Aliases
          BY <4>2, <5>1 DEF Form, AtWork
        <5>3. overlay[desk[x].alias] = desk[x].bind
          BY <4>2, <5>1 DEF OwnRow
        <5>4. QED
          BY <1>5, <2>3, <5>2, <5>3, BindingsApart
      <4>3. QED
        BY <1>3, <4>1, <4>2 DEF CatalogIInv, DeskSound, OwnRow
    <3>3. QED
      BY <3>1, <3>2
  <2>10. QED
    BY <2>4, <2>5, <2>6, <2>7, <2>8, <2>9 DEF CatalogIInv
<1>6. QED
  BY <1>4, <1>5

LEMMA GoLiveKeeps ==
  ASSUME CatalogIInv, NEW d \in Desks, GoLive(d)
  PROVE  CatalogIInv'
<1> DEFINE k == desk[d]
           n == NodeOf[d]
           v == IF k.op = "approve" THEN [k EXCEPT !.pc = "settle"] ELSE AtRest
<1>1. /\ k \in AtWork /\ Form(k) /\ k.pc = "golive" /\ n \in Nodes
      /\ Carried(k, journal, since[n]) /\ OwnRow(k)
  BY RequestAtHand DEF GoLive
<1>2. /\ k.op \in {"register", "approve"} /\ k.alias \in Aliases \ DOMAIN Config
      /\ k.bind \in Binding /\ k.bind.posture \in Postures
      /\ k.op = "register" => k.bind.source = Operator
      /\ k.op = "approve" =>
           k.sub \in Submissions /\ k.bind = ManifestBinding(k.sub) /\ k.alias = ManifestOf[k.sub].alias
      /\ InLog(journal, k.alias, k.bind)
      /\ k.alias \notin removed \cup edited => overlay[k.alias] = k.bind
      /\ k.op = "approve" => (FromRegistry(k.sub) => ManifestOf[k.sub].publisher \in since[n])
  BY <1>1 DEF Form, Carried, AtWork, OwnRow
<1>3. /\ UNCHANGED <<overlay, approved, review, publishers, boot, vetted, journal, removed, edited, since,
                     requests, mishaps>>
      /\ live' = [live EXCEPT ![n][k.alias] = k.bind]
  BY DEF GoLive, catalogStore, catalogPast
<1>4. desk' = [desk EXCEPT ![d] = v]
  BY DEF GoLive, Leaves, Steps
<1>5. /\ v \in AtWork \cup {AtRest}
      /\ v # AtRest => v.pc = "settle" /\ v.op = "approve" /\ v.op = k.op /\ v.alias = k.alias
                       /\ v.bind = k.bind /\ v.sub = k.sub
  BY <1>1 DEF AtWork
<1> HIDE DEF k, n, v
<1>6. /\ \A m \in Nodes, a \in Aliases : <<m, a>> # <<n, k.alias>> => live'[m][a] = live[m][a]
      /\ live'[n][k.alias] = k.bind
      /\ live' \in [Nodes -> [Aliases -> MaybeBinding]]
  BY <1>1, <1>2, <1>3 DEF CatalogIInv, CatalogTyped, MaybeBinding
<1>7. CatalogTyped'
  BY <1>3, <1>4, <1>5, <1>6 DEF CatalogIInv, CatalogTyped
<1>8. ShippedStays'
  BY <1>2, <1>3, <1>6, Shelves DEF CatalogIInv, ShippedStays
<1>9. ApprovedLogged' /\ VettedSound' /\ Listed' /\ RowsSound' /\ EditedRows'
  BY <1>3 DEF CatalogIInv, ApprovedLogged, VettedSound, Listed, RowsSound, EditedRows
<1>10. Resolvable(k.alias, k.bind, journal, since[n])
  BY <1>2, Manifests, Shelves DEF Resolvable
<1>11. LiveSound'
  BY <1>3, <1>6, <1>10 DEF CatalogIInv, LiveSound
<1>12. Agree'
  BY <1>2, <1>3, <1>6 DEF CatalogIInv, Agree
<1>13. ASSUME NEW x \in Desks PROVE DeskSound(x)'
  <2>1. CASE x = d
    <3>1. desk'[x] = v
      BY <1>4, <2>1 DEF CatalogIInv, CatalogTyped
    <3>2. v # AtRest => Form(v) /\ Carried(v, journal, since[n]) /\ v.pc = "settle"
      BY <1>2, <1>5 DEF Form, Carried
    <3>3. QED
      BY <1>3, <2>1, <3>1, <3>2 DEF DeskSound, OwnRow, n
  <2>2. CASE x # d
    <3>1. desk'[x] = desk[x]
      BY <1>4, <2>2 DEF CatalogIInv, CatalogTyped
    <3>2. QED
      BY <1>3, <3>1 DEF CatalogIInv, DeskSound, OwnRow
  <2>3. QED
    BY <2>1, <2>2
<1>14. QED
  BY <1>7, <1>8, <1>9, <1>11, <1>12, <1>13 DEF CatalogIInv

LEMMA RemoveRowKeeps ==
  ASSUME CatalogIInv, NEW d \in Desks, NEW lost \in BOOLEAN, RemoveRow(d, lost)
  PROVE  CatalogIInv'
<1> DEFINE a == desk[d].alias
           n == NodeOf[d]
<1>1. desk[d] \in AtWork /\ Form(desk[d]) /\ desk[d].pc = "remove" /\ n \in Nodes
  BY RequestAtHand DEF RemoveRow
<1>2. a \in Aliases \ DOMAIN Config
  BY <1>1 DEF Form, AtWork
<1>3. /\ UNCHANGED <<approved, review, publishers, boot, vetted, journal, since, requests>>
      /\ mishaps' \in 0 .. MaxMishaps
      /\ overlay' = [overlay EXCEPT ![a] = NoBinding]
      /\ live' = live \/ live' = [live EXCEPT ![n][a] = NoBinding]
      /\ removed' = (IF a \in Rows THEN removed \cup {a} ELSE removed) /\ edited' = edited \ {a}
      /\ desk' = [desk EXCEPT ![d] = AtRest]
  BY CatalogBounds DEF RemoveRow, Leaves
<1> HIDE DEF a, n
<1>4. /\ overlay'[a] = NoBinding
      /\ \A b \in Aliases : b # a => overlay'[b] = overlay[b]
      /\ overlay' \in [Aliases -> MaybeBinding]
      /\ \A m \in Nodes, b \in Aliases : <<m, b>> # <<n, a>> => live'[m][b] = live[m][b]
      /\ live'[n][a] \in {NoBinding, live[n][a]}
      /\ live' \in [Nodes -> [Aliases -> MaybeBinding]]
  <2>1. CASE live' = live
    BY <1>1, <1>2, <1>3, <2>1 DEF CatalogIInv, CatalogTyped, MaybeBinding
  <2>2. CASE live' = [live EXCEPT ![n][a] = NoBinding]
    BY <1>1, <1>2, <1>3, <2>2 DEF CatalogIInv, CatalogTyped, MaybeBinding
  <2>3. QED
    BY <1>3, <2>1, <2>2
<1>5. /\ removed \subseteq removed' /\ removed' \subseteq Aliases /\ edited' \subseteq Aliases
      /\ a \notin removed' => overlay[a] = NoBinding /\ a \notin edited
      /\ a \notin edited'
      /\ \A b \in Aliases : b # a => (b \in edited' <=> b \in edited)
  BY <1>2, <1>3 DEF CatalogIInv, CatalogTyped, Rows, EditedRows
<1>6. CatalogTyped'
  BY <1>3, <1>4, <1>5 DEF CatalogIInv, CatalogTyped
<1>7. ShippedStays'
  BY <1>2, <1>3, <1>4, Shelves DEF CatalogIInv, ShippedStays
<1>8. ApprovedLogged' /\ VettedSound' /\ Listed'
  BY <1>3 DEF CatalogIInv, ApprovedLogged, VettedSound, Listed
<1>9. RowsSound' /\ EditedRows'
  BY <1>3, <1>4, <1>5 DEF CatalogIInv, RowsSound, EditedRows, CatalogTyped
<1>10. LiveSound'
  BY <1>3, <1>4 DEF CatalogIInv, LiveSound
<1>11. Agree'
  <2> SUFFICES ASSUME NEW m \in Nodes, NEW b \in Aliases \ (removed' \cup edited' \cup DOMAIN Config)
               PROVE  live'[m][b] \in {NoBinding, overlay'[b]} /\ boot'[m][b] \in {NoBinding, overlay'[b]}
    BY DEF Agree
  <2>1. b \notin removed \cup edited
    BY <1>5
  <2>2. live[m][b] \in {NoBinding, overlay[b]} /\ boot[m][b] \in {NoBinding, overlay[b]}
    BY <2>1 DEF CatalogIInv, Agree
  <2>3. QED
    BY <1>3, <1>4, <1>5, <2>2
<1>12. ASSUME NEW x \in Desks PROVE DeskSound(x)'
  <2>1. CASE x = d
    BY <1>3, <2>1 DEF CatalogIInv, CatalogTyped, DeskSound
  <2>2. CASE x # d
    <3>1. desk'[x] = desk[x]
      BY <1>3, <2>2 DEF CatalogIInv, CatalogTyped
    <3>2. ASSUME desk[x] # AtRest, desk[x].pc = "golive",
                 desk[x].alias \notin removed' \cup edited'
          PROVE  overlay'[desk[x].alias] = desk[x].bind
      <4>1. desk[x] \in AtWork /\ Form(desk[x]) /\ OwnRow(desk[x])
        BY <3>2, RequestAtHand DEF AtRest
      <4>2. desk[x].bind \in Binding /\ desk[x].alias \in Aliases
        BY <3>2, <4>1 DEF Form, AtWork
      <4>3. desk[x].alias \notin removed \cup edited
        BY <1>5, <3>2, <4>2
      <4>4. overlay[desk[x].alias] = desk[x].bind
        BY <3>2, <4>1, <4>3 DEF OwnRow
      <4>5. QED
        BY <1>4, <1>5, <3>2, <4>2, <4>4, BindingsApart
    <3>3. QED
      BY <1>3, <3>1, <3>2 DEF CatalogIInv, DeskSound, OwnRow
  <2>3. QED
    BY <2>1, <2>2
<1>13. QED
  BY <1>6, <1>7, <1>8, <1>9, <1>10, <1>11, <1>12 DEF CatalogIInv

LEMMA PutPublishersKeeps ==
  ASSUME CatalogIInv, NEW names \in SUBSET Namespaces, PutPublishers(names)
  PROVE  CatalogIInv'
<1>1. /\ UNCHANGED <<overlay, approved, review, live, boot, vetted, desk, journal, removed, edited, mishaps>>
      /\ publishers' = names /\ requests' \in 0 .. MaxRequests
      /\ since' = [n \in Nodes |-> since[n] \cup names]
  BY CatalogBounds DEF PutPublishers
<1>2. \A n \in Nodes : since'[n] = since[n] \cup names /\ since[n] \subseteq since'[n]
  BY <1>1
<1>3. CatalogTyped'
  BY <1>1 DEF CatalogIInv, CatalogTyped
<1>4. ShippedStays' /\ ApprovedLogged' /\ VettedSound' /\ RowsSound' /\ EditedRows' /\ Agree'
  BY <1>1 DEF CatalogIInv, ShippedStays, ApprovedLogged, VettedSound, RowsSound, EditedRows, Agree
<1>5. Listed'
  BY <1>1, <1>2 DEF Listed
<1>6. LiveSound'
  BY <1>1, <1>2, NamesStay DEF CatalogIInv, LiveSound
<1>7. ASSUME NEW x \in Desks PROVE DeskSound(x)'
  <2>1. since[NodeOf[x]] \subseteq since'[NodeOf[x]]
    BY <1>2, Shelves
  <2>2. Carried(desk[x], journal, since[NodeOf[x]]) => Carried(desk[x], journal, since'[NodeOf[x]])
    BY <2>1, NamesStay
  <2>3. QED
    BY <1>1, <2>2 DEF CatalogIInv, DeskSound, OwnRow
<1>8. QED
  BY <1>3, <1>4, <1>5, <1>6, <1>7 DEF CatalogIInv

LEMMA BootKeeps ==
  ASSUME CatalogIInv, NEW n \in Nodes, NEW failed \in BOOLEAN, Boot(n, failed)
  PROVE  CatalogIInv'
<1>1. /\ UNCHANGED <<overlay, approved, review, publishers, journal, removed, edited, requests>>
      /\ mishaps' \in 0 .. MaxMishaps
      /\ live' = [live EXCEPT ![n] = ShippedRegistry]
      /\ boot' = [boot EXCEPT ![n] = IF failed THEN Nothing ELSE overlay]
      /\ vetted' = [vetted EXCEPT ![n] = {}]
      /\ since' = [since EXCEPT ![n] = publishers]
      /\ desk' = [d \in Desks |-> IF NodeOf[d] = n THEN AtRest ELSE desk[d]]
  BY CatalogBounds DEF Boot, catalogStore
<1>2. /\ ShippedRegistry \in [Aliases -> MaybeBinding] /\ Nothing \in [Aliases -> MaybeBinding]
      /\ \A a \in DOMAIN Config : ShippedRegistry[a] = Config[a]
      /\ \A a \in Aliases \ DOMAIN Config : ShippedRegistry[a] = NoBinding
      /\ \A a \in Aliases : Nothing[a] = NoBinding
  BY Shelves DEF ShippedRegistry, Nothing, MaybeBinding
<1>3. /\ live'[n] = ShippedRegistry /\ boot'[n] \in {Nothing, overlay} /\ since'[n] = publishers
      /\ vetted'[n] = {}
      /\ \A m \in Nodes : m # n => /\ live'[m] = live[m] /\ boot'[m] = boot[m]
                                  /\ vetted'[m] = vetted[m] /\ since'[m] = since[m]
  BY <1>1 DEF CatalogIInv, CatalogTyped
<1>4. CatalogTyped'
  <2>1. live' \in [Nodes -> [Aliases -> MaybeBinding]] /\ boot' \in [Nodes -> [Aliases -> MaybeBinding]]
    BY <1>1, <1>2 DEF CatalogIInv, CatalogTyped
  <2>2. /\ since' \in [Nodes -> SUBSET Namespaces] /\ desk' \in [Desks -> AtWork \cup {AtRest}]
        /\ vetted' \in [Nodes -> SUBSET Aliases]
    BY <1>1 DEF CatalogIInv, CatalogTyped
  <2>3. QED
    BY <1>1, <2>1, <2>2 DEF CatalogIInv, CatalogTyped
<1>5. ShippedStays'
  <2> SUFFICES ASSUME NEW a \in DOMAIN Config
               PROVE  /\ overlay'[a] = NoBinding
                      /\ \A m \in Nodes : live'[m][a] = Config[a] /\ boot'[m][a] = NoBinding
    BY DEF ShippedStays
  <2>1. a \in Aliases /\ overlay[a] = NoBinding
        /\ \A m \in Nodes : live[m][a] = Config[a] /\ boot[m][a] = NoBinding
    BY Shelves DEF CatalogIInv, ShippedStays
  <2>2. QED
    BY <1>1, <1>2, <1>3, <2>1
<1>6. ApprovedLogged' /\ RowsSound' /\ EditedRows'
  BY <1>1 DEF CatalogIInv, ApprovedLogged, RowsSound, EditedRows
<1>7. Listed'
  BY <1>1, <1>3 DEF CatalogIInv, Listed
<1>8. LiveSound' /\ VettedSound'
  BY <1>1, <1>2, <1>3 DEF CatalogIInv, LiveSound, VettedSound
<1>9. Agree'
  <2> SUFFICES ASSUME NEW m \in Nodes, NEW a \in Aliases \ (removed' \cup edited' \cup DOMAIN Config)
               PROVE  live'[m][a] \in {NoBinding, overlay'[a]} /\ boot'[m][a] \in {NoBinding, overlay'[a]}
    BY DEF Agree
  <2>1. live[m][a] \in {NoBinding, overlay[a]} /\ boot[m][a] \in {NoBinding, overlay[a]}
    BY <1>1 DEF CatalogIInv, Agree
  <2>2. QED
    BY <1>1, <1>2, <1>3, <2>1
<1>10. ASSUME NEW x \in Desks PROVE DeskSound(x)'
  <2>1. CASE NodeOf[x] = n
    BY <1>1, <2>1 DEF DeskSound
  <2>2. CASE NodeOf[x] # n
    <3>1. desk'[x] = desk[x] /\ since'[NodeOf[x]] = since[NodeOf[x]]
      BY <1>1, <1>3, <2>2, Shelves
    <3>2. QED
      BY <1>1, <3>1 DEF CatalogIInv, DeskSound, OwnRow
  <2>3. QED
    BY <2>1, <2>2
<1>11. QED
  BY <1>4, <1>5, <1>6, <1>7, <1>8, <1>9, <1>10 DEF CatalogIInv

LEMMA PinnedManifest ==
  ASSUME CatalogIInv, NEW a \in Aliases, NEW b \in Binding,
         b.source \in Submissions, PinValid(a, b)
  PROVE  InLog(journal, a, b) /\ ManifestOf[b.source].alias = a /\ b = ManifestBinding(b.source)
<1>1. /\ approved[a] = b.source /\ ManifestOf[b.source].alias = a
      /\ ManifestOf[b.source].target = b.target /\ ManifestOf[b.source].posture = b.posture
  BY DEF PinValid
<1>2. b = ManifestBinding(b.source)
  BY <1>1 DEF ManifestBinding, Binding
<1>3. InLog(journal, a, ManifestBinding(b.source))
  BY <1>1, Shelves DEF CatalogIInv, ApprovedLogged
<1>4. QED
  BY <1>1, <1>2, <1>3

\* The hydration is through with a row it may load.
LEMMA LoadedKeeps ==
  ASSUME CatalogIInv, NEW n \in Nodes, NEW a \in Aliases, NEW sound, Loaded(n, a, sound),
         UNCHANGED <<catalogStore, desk, catalogPast>>,
         requests' \in 0 .. MaxRequests, mishaps' \in 0 .. MaxMishaps,
         vetted' = vetted \/ vetted' = [vetted EXCEPT ![n] = {}], a \notin vetted'[n],
         boot[n][a] # NoBinding,
         sound => Resolvable(a, boot[n][a], journal, since[n])
  PROVE  CatalogIInv'
<1> DEFINE b == boot[n][a]
<1>1. /\ UNCHANGED <<overlay, approved, review, publishers, desk, journal, removed, edited, since>>
      /\ b # NoBinding /\ boot' = [boot EXCEPT ![n][a] = NoBinding]
  BY DEF Loaded, catalogStore, catalogPast
<1>2. b \in Binding /\ a \notin DOMAIN Config
  BY <1>1 DEF CatalogIInv, CatalogTyped, MaybeBinding, ShippedStays
<1>3. /\ boot'[n][a] = NoBinding
      /\ \A m \in Nodes, c \in Aliases : <<m, c>> # <<n, a>> => boot'[m][c] = boot[m][c]
      /\ boot' \in [Nodes -> [Aliases -> MaybeBinding]]
  BY <1>1 DEF CatalogIInv, CatalogTyped, MaybeBinding
<1>4. \/ live' = live
      \/ live' = [live EXCEPT ![n][a] = b] /\ Resolvable(a, b, journal, since[n])
  BY DEF Loaded
<1>5. /\ \A m \in Nodes, c \in Aliases : <<m, c>> # <<n, a>> => live'[m][c] = live[m][c]
      /\ live'[n][a] = live[n][a] \/ (live'[n][a] = b /\ Resolvable(a, b, journal, since[n]))
      /\ live' \in [Nodes -> [Aliases -> MaybeBinding]]
  <2>1. CASE live' = live
    BY <2>1 DEF CatalogIInv, CatalogTyped
  <2>2. CASE live' = [live EXCEPT ![n][a] = b] /\ Resolvable(a, b, journal, since[n])
    BY <1>2, <2>2 DEF CatalogIInv, CatalogTyped, MaybeBinding
  <2>3. QED
    BY <1>4, <2>1, <2>2
<1>6. /\ vetted' \in [Nodes -> SUBSET Aliases]
      /\ \A m \in Nodes : vetted'[m] \subseteq vetted[m]
  BY DEF CatalogIInv, CatalogTyped
<1>7. CatalogTyped'
  BY <1>1, <1>3, <1>5, <1>6 DEF CatalogIInv, CatalogTyped
<1>8. ShippedStays'
  <2> SUFFICES ASSUME NEW c \in DOMAIN Config
               PROVE  /\ overlay'[c] = NoBinding
                      /\ \A m \in Nodes : live'[m][c] = Config[c] /\ boot'[m][c] = NoBinding
    BY DEF ShippedStays
  <2>1. c \in Aliases /\ c # a /\ overlay[c] = NoBinding
        /\ \A m \in Nodes : live[m][c] = Config[c] /\ boot[m][c] = NoBinding
    BY <1>2, Shelves DEF CatalogIInv, ShippedStays
  <2>2. QED
    BY <1>1, <1>3, <1>5, <2>1
<1>9. ApprovedLogged' /\ RowsSound' /\ EditedRows' /\ Listed'
  BY <1>1 DEF CatalogIInv, ApprovedLogged, RowsSound, EditedRows, Listed
<1>10. LiveSound'
  <2> SUFFICES ASSUME NEW m \in Nodes, NEW c \in Aliases \ DOMAIN Config, live'[m][c] # NoBinding
               PROVE  Resolvable(c, live'[m][c], journal', since'[m])
    BY DEF LiveSound
  <2>1. live[m][c] # NoBinding => Resolvable(c, live[m][c], journal, since[m])
    BY DEF CatalogIInv, LiveSound
  <2>2. QED
    BY <1>1, <1>5, <2>1
<1>11. VettedSound'
  <2> SUFFICES ASSUME NEW m \in Nodes, NEW c \in vetted'[m]
               PROVE  c \in vetted[m] /\ boot'[m][c] = boot[m][c] /\ journal' = journal
    BY DEF CatalogIInv, VettedSound
  <2>1. c \in vetted[m] /\ c \in Aliases /\ <<m, c>> # <<n, a>>
    BY <1>6 DEF CatalogIInv, CatalogTyped
  <2>2. QED
    BY <1>1, <1>3, <2>1
<1> HIDE DEF b
<1>12. Agree'
  <2> SUFFICES ASSUME NEW m \in Nodes, NEW c \in Aliases \ (removed' \cup edited' \cup DOMAIN Config)
               PROVE  live'[m][c] \in {NoBinding, overlay'[c]} /\ boot'[m][c] \in {NoBinding, overlay'[c]}
    BY DEF Agree
  <2>1. live[m][c] \in {NoBinding, overlay[c]} /\ boot[m][c] \in {NoBinding, overlay[c]}
    BY <1>1 DEF CatalogIInv, Agree
  <2>2. CASE <<m, c>> = <<n, a>>
    BY <1>1, <1>3, <1>5, <2>1, <2>2 DEF b
  <2>3. CASE <<m, c>> # <<n, a>>
    BY <1>1, <1>3, <1>5, <2>1, <2>3
  <2>4. QED
    BY <2>2, <2>3
<1>13. ASSUME NEW x \in Desks PROVE DeskSound(x)'
  BY <1>1 DEF CatalogIInv, DeskSound, OwnRow
<1>14. QED
  BY <1>7, <1>8, <1>9, <1>10, <1>11, <1>12, <1>13 DEF CatalogIInv

LEMMA LoadRowKeeps ==
  ASSUME CatalogIInv, NEW n \in Nodes, NEW failed \in BOOLEAN, NEW a \in Aliases,
         LoadRow(n, a, failed)
  PROVE  CatalogIInv'
<1> DEFINE b     == boot[n][a]
           sound == Loadable(n, a, b) /\ ~(failed /\ b.source \in Submissions)
           waits == sound /\ b.source \in Submissions /\ FromRegistry(b.source)
<1>1. /\ UNCHANGED <<catalogStore, desk, catalogPast>> /\ b # NoBinding /\ vetted[n] = {}
      /\ requests' \in 0 .. MaxRequests /\ mishaps' \in 0 .. MaxMishaps
  BY CatalogBounds DEF LoadRow
<1>2. b \in Binding
  BY <1>1 DEF CatalogIInv, CatalogTyped, MaybeBinding
<1>3. sound =>
        /\ b.posture \in Postures
        /\ b.source \in Submissions =>
             /\ InLog(journal, a, b) /\ ManifestOf[b.source].alias = a
             /\ b = ManifestBinding(b.source)
  BY <1>2, PinnedManifest DEF Loadable
<1>4. CASE ~waits
  <2>1. Loaded(n, a, sound) /\ vetted' = vetted
    BY <1>4 DEF LoadRow
  <2>2. sound => Resolvable(a, b, journal, since[n])
    BY <1>3, <1>4 DEF Resolvable
  <2> HIDE DEF sound
  <2>3. QED
    BY <1>1, <2>1, <2>2, LoadedKeeps
<1>5. CASE waits
  <2>1. vetted' = [vetted EXCEPT ![n] = {a}] /\ UNCHANGED <<live, boot>>
    BY <1>5 DEF LoadRow
  <2>2. UNCHANGED <<overlay, approved, review, publishers, live, boot, desk, journal, removed,
                    edited, since>>
    BY <1>1, <2>1 DEF catalogStore, catalogPast
  <2>3. /\ vetted'[n] = {a} /\ \A m \in Nodes : m # n => vetted'[m] = vetted[m]
        /\ vetted' \in [Nodes -> SUBSET Aliases]
    BY <2>1 DEF CatalogIInv, CatalogTyped
  <2>4. CatalogTyped'
    BY <1>1, <2>2, <2>3 DEF CatalogIInv, CatalogTyped
  <2>5. /\ ShippedStays' /\ RowsSound' /\ ApprovedLogged' /\ LiveSound' /\ Listed' /\ EditedRows'
        /\ Agree'
    BY <2>2 DEF CatalogIInv, ShippedStays, RowsSound, ApprovedLogged, LiveSound, Listed,
         EditedRows, Agree
  <2>6. VettedSound'
    BY <1>1, <1>3, <1>5, <2>2, <2>3 DEF CatalogIInv, VettedSound
  <2>7. ASSUME NEW x \in Desks PROVE DeskSound(x)'
    BY <2>2 DEF CatalogIInv, DeskSound, OwnRow
  <2>8. QED
    BY <2>4, <2>5, <2>6, <2>7 DEF CatalogIInv
<1>6. QED
  BY <1>4, <1>5

LEMMA VetPublisherKeeps ==
  ASSUME CatalogIInv, NEW n \in Nodes, NEW failed \in BOOLEAN, NEW a \in Aliases,
         VetPublisher(n, a, failed)
  PROVE  CatalogIInv'
<1> DEFINE sound == ~failed /\ ManifestOf[boot[n][a].source].publisher \in publishers
<1>1. /\ UNCHANGED <<catalogStore, desk, catalogPast>>
      /\ a \in vetted[n] /\ vetted' = [vetted EXCEPT ![n] = {}] /\ Loaded(n, a, sound)
      /\ requests' \in 0 .. MaxRequests /\ mishaps' \in 0 .. MaxMishaps
  BY CatalogBounds DEF VetPublisher
<1>2. a \notin vetted'[n]
  BY <1>1 DEF CatalogIInv, CatalogTyped
<1>3. /\ boot[n][a] # NoBinding
      /\ sound => Resolvable(a, boot[n][a], journal, since[n])
  BY <1>1 DEF CatalogIInv, VettedSound, Listed, Resolvable
<1> HIDE DEF sound
<1>4. QED
  BY <1>1, <1>2, <1>3, LoadedKeeps

LEMMA EditRowKeeps ==
  ASSUME CatalogIInv, NEW a \in Aliases, EditRow(a)
  PROVE  CatalogIInv'
<1>1. /\ UNCHANGED <<approved, review, publishers, live, boot, vetted, desk, journal, removed, since, requests>>
      /\ mishaps' \in 0 .. MaxMishaps /\ edited' = edited \cup {a} /\ overlay[a] # NoBinding
  BY CatalogBounds DEF EditRow, Rows
<1>2. overlay[a] \in Binding /\ a \notin DOMAIN Config
  BY <1>1 DEF CatalogIInv, CatalogTyped, MaybeBinding, ShippedStays
<1>3. PICK b \in Binding : overlay' = [overlay EXCEPT ![a] = b]
  <2>1. ASSUME NEW t \in Targets, overlay' = [overlay EXCEPT ![a].target = t]
        PROVE  \E b \in Binding : overlay' = [overlay EXCEPT ![a] = b]
    <3> DEFINE b == [overlay[a] EXCEPT !.target = t]
    <3>1. b \in Binding
      BY <1>2 DEF Binding
    <3>2. overlay' = [overlay EXCEPT ![a] = b]
      BY <2>1
    <3>3. QED
      BY <3>1, <3>2
  <2>2. ASSUME NEW p \in Ranks, overlay' = [overlay EXCEPT ![a].posture = p]
        PROVE  \E b \in Binding : overlay' = [overlay EXCEPT ![a] = b]
    <3> DEFINE b == [overlay[a] EXCEPT !.posture = p]
    <3>1. b \in Binding
      BY <1>2 DEF Binding
    <3>2. overlay' = [overlay EXCEPT ![a] = b]
      BY <2>2
    <3>3. QED
      BY <3>1, <3>2
  <2>3. ASSUME NEW s \in Submissions \cup {Operator}, overlay' = [overlay EXCEPT ![a].source = s]
        PROVE  \E b \in Binding : overlay' = [overlay EXCEPT ![a] = b]
    <3> DEFINE b == [overlay[a] EXCEPT !.source = s]
    <3>1. b \in Binding
      BY <1>2 DEF Binding
    <3>2. overlay' = [overlay EXCEPT ![a] = b]
      BY <2>3
    <3>3. QED
      BY <3>1, <3>2
  <2>4. QED
    BY <2>1, <2>2, <2>3 DEF EditRow
<1>4. /\ overlay'[a] = b /\ b # NoBinding
      /\ \A c \in Aliases : c # a => overlay'[c] = overlay[c]
      /\ overlay' \in [Aliases -> MaybeBinding]
  BY <1>3, BindingsApart DEF CatalogIInv, CatalogTyped, MaybeBinding
<1>5. CatalogTyped'
  BY <1>1, <1>4 DEF CatalogIInv, CatalogTyped
<1>6. ShippedStays' /\ ApprovedLogged' /\ Listed' /\ LiveSound' /\ VettedSound'
  BY <1>1, <1>2, <1>4, Shelves DEF CatalogIInv, ShippedStays, ApprovedLogged, Listed, LiveSound,
       VettedSound
<1>7. RowsSound' /\ EditedRows'
  BY <1>1, <1>4 DEF CatalogIInv, CatalogTyped, RowsSound, EditedRows
<1>8. Agree'
  BY <1>1, <1>4 DEF CatalogIInv, Agree
<1>9. ASSUME NEW x \in Desks PROVE DeskSound(x)'
  <2>1. ASSUME desk[x] # AtRest, desk[x].pc = "golive",
               desk[x].alias \notin removed \cup edited'
        PROVE  overlay'[desk[x].alias] = desk[x].bind
    <3>1. desk[x] \in AtWork /\ OwnRow(desk[x])
      BY <2>1, RequestAtHand
    <3>2. desk[x].alias \in Aliases
      BY <3>1 DEF AtWork
    <3>3. QED
      BY <1>1, <1>4, <2>1, <3>1, <3>2 DEF OwnRow
  <2>2. QED
    BY <1>1, <2>1 DEF CatalogIInv, DeskSound, OwnRow
<1>10. QED
  BY <1>5, <1>6, <1>7, <1>8, <1>9 DEF CatalogIInv

LEMMA CatalogStarts == CatalogInit => CatalogIInv
<1> SUFFICES ASSUME CatalogInit PROVE CatalogIInv
  OBVIOUS
<1>1. /\ \A a \in Aliases : overlay[a] = NoBinding /\ approved[a] = NoSubmission
      /\ \A n \in Nodes, a \in Aliases \ DOMAIN Config : live[n][a] = NoBinding
      /\ \A n \in Nodes, a \in DOMAIN Config : live[n][a] = Config[a] /\ a \in Aliases
      /\ \A n \in Nodes, a \in Aliases : boot[n][a] = NoBinding
      /\ \A n \in Nodes : since[n] = Namespaces /\ vetted[n] = {}
      /\ \A d \in Desks : desk[d] = AtRest
      /\ edited = {} /\ publishers = Namespaces
  BY Shelves DEF CatalogInit, Nothing, ShippedRegistry
<1>2. CatalogTyped
  <2>1. ShippedRegistry \in [Aliases -> MaybeBinding] /\ Nothing \in [Aliases -> MaybeBinding]
    BY Shelves DEF ShippedRegistry, Nothing, MaybeBinding
  <2>2. 0 \in 0 .. MaxRequests /\ 0 \in 0 .. MaxMishaps
    BY CatalogAssumption
  <2>3. QED
    BY <2>1, <2>2 DEF CatalogInit, CatalogTyped
<1>3. ShippedStays /\ Listed /\ EditedRows
  BY <1>1, Shelves DEF ShippedStays, Listed, EditedRows
<1>4. RowsSound /\ ApprovedLogged /\ LiveSound /\ VettedSound /\ Agree
  BY <1>1 DEF RowsSound, ApprovedLogged, LiveSound, VettedSound, Agree
<1>5. \A d \in Desks : DeskSound(d)
  BY <1>1 DEF DeskSound
<1>6. QED
  BY <1>2, <1>3, <1>4, <1>5 DEF CatalogIInv

LEMMA CatalogInductive == CatalogIInv /\ [CatalogNext]_catalogVars => CatalogIInv'
<1> SUFFICES ASSUME CatalogIInv, [CatalogNext]_catalogVars PROVE CatalogIInv'
  OBVIOUS
<1>1. ASSUME NEW d \in Desks, Request(d) PROVE CatalogIInv'
  BY <1>1, StartRegisterKeeps, StartOthersKeep DEF Request
<1>2. ASSUME NEW d \in Desks, Handle(d) PROVE CatalogIInv'
  BY <1>2, CountRowsKeeps, RelistKeeps, AddRowKeeps, VerifyKeeps, EmitIntentKeeps,
     KeepApprovedKeeps, GoLiveKeeps, RemoveRowKeeps, LastStepsKeep DEF Handle
<1>3. ASSUME NEW d \in Desks, RequestFails(d) PROVE CatalogIInv'
  BY <1>3, LastStepsKeep
<1>4. ASSUME NEW names \in SUBSET Namespaces, PutPublishers(names) PROVE CatalogIInv'
  BY <1>4, PutPublishersKeeps
<1>5. ASSUME NEW n \in Nodes, NEW failed \in BOOLEAN,
             \/ Boot(n, failed)
             \/ \E a \in Aliases : LoadRow(n, a, failed) \/ VetPublisher(n, a, failed)
      PROVE  CatalogIInv'
  BY <1>5, BootKeeps, LoadRowKeeps, VetPublisherKeeps
<1>6. ASSUME NEW a \in Aliases, EditRow(a) PROVE CatalogIInv'
  BY <1>6, EditRowKeeps
<1>7. CASE UNCHANGED catalogVars
  <2>1. UNCHANGED <<overlay, approved, review, publishers, live, boot, vetted, desk, journal, removed,
                    edited, since, requests, mishaps>>
    BY <1>7 DEF catalogVars, catalogStore, catalogPast
  <2>2. /\ CatalogTyped' /\ ShippedStays' /\ RowsSound' /\ ApprovedLogged' /\ LiveSound'
        /\ VettedSound' /\ Listed' /\ EditedRows' /\ Agree'
    BY <2>1 DEF CatalogIInv, CatalogTyped, ShippedStays, RowsSound, ApprovedLogged, LiveSound,
         VettedSound, Listed, EditedRows, Agree
  <2>3. ASSUME NEW x \in Desks PROVE DeskSound(x)'
    BY <2>1 DEF CatalogIInv, DeskSound, OwnRow
  <2>4. QED
    BY <2>2, <2>3 DEF CatalogIInv
<1>8. QED
  BY <1>1, <1>2, <1>3, <1>4, <1>5, <1>6, <1>7 DEF CatalogNext

\* What the invariant says of the properties the runs check.
LEMMA CatalogTells ==
  ASSUME CatalogIInv
  PROVE  CatalogTypeOK /\ CatalogLogged /\ OverlaySound /\ WorkersAgree
<1>1. CatalogTypeOK
  BY DEF CatalogIInv, CatalogTyped, CatalogTypeOK, MaybeBinding, LiveSound, Resolvable
<1>2. CatalogLogged
  BY DEF CatalogIInv, RowsSound, InLog, CatalogLogged, Rows
<1>3. WorkersAgree
  BY DEF CatalogIInv, Agree, WorkersAgree
<1>4. ShippedFloor
  BY DEF CatalogIInv, RowsSound, AboveFloor, ShippedFloor, Rows
<1>5. CommunityAsApproved
  <2> SUFFICES ASSUME NEW n \in Nodes, NEW a \in Aliases,
                      live[n][a] # NoBinding, live[n][a].source \in Submissions
               PROVE  /\ InLog(journal, a, live[n][a])
                      /\ ManifestOf[live[n][a].source].alias = a
                      /\ live[n][a] = ManifestBinding(live[n][a].source)
                      /\ FromRegistry(live[n][a].source) =>
                           ManifestOf[live[n][a].source].publisher \in since[n]
    BY DEF CommunityAsApproved, InLog, FromRegistry
  <2>1. a \notin DOMAIN Config
    BY Shelves DEF CatalogIInv, ShippedStays
  <2>2. QED
    BY <2>1 DEF CatalogIInv, LiveSound, Resolvable
<1>6. QED
  BY <1>1, <1>2, <1>3, <1>4, <1>5 DEF OverlaySound

\* A row of the overlay was asked for in the log, for any number of requests,
\* workers, failures and restarts (register_skill, approve_extension).
THEOREM CatalogLoggedCorrect == CatalogSpec => []CatalogLogged
BY CatalogStarts, CatalogInductive, CatalogTells, PTL DEF CatalogSpec

\* No worker resolves a community skill but as it was approved, and no row
\* weakens what is shipped (_community_pin_valid, _target_posture_conflict).
THEOREM OverlaySoundCorrect == CatalogSpec => []OverlaySound
BY CatalogStarts, CatalogInductive, CatalogTells, PTL DEF CatalogSpec

\* The workers agree on the one row of an alias (_apply_overlay_skill).
THEOREM WorkersAgreeCorrect == CatalogSpec => []WorkersAgree
BY CatalogStarts, CatalogInductive, CatalogTells, PTL DEF CatalogSpec

---------------------------------------------------------------------------
(* The stores together *)

\* A behaviour of the stores is one of each component.
LEMMA EachStore ==
  StoresSpec => RosterSpec /\ CatalogSpec /\ VendSpec /\ DeskSpec /\ PolicySpec
<1>1. StartIn({"roster", "catalog", "vault", "desk", "captures", "policy"}) =>
        RosterInit /\ CatalogInit /\ VendInit /\ DeskInit /\ PolicyInit
  BY DEF StartIn
<1>2. [StoresNext]_storesVars =>
        /\ [RosterNext]_rosterVars /\ [CatalogNext]_catalogVars /\ [VendNext]_vendVars
        /\ [DeskNext]_deskVars /\ [PolicyNext]_policyVars
  BY DEF StoresNext, storesVars
<1>3. QED
  BY <1>1, <1>2, PTL DEF StoresSpec, RosterSpec, CatalogSpec, VendSpec, DeskSpec, PolicySpec

LEMMA RosterTypes == RosterIInv => RosterTypeOK
BY RosterAssumption DEF RosterIInv, RosterTyped, RosterTypeOK, TokensLive

LEMMA VendTypes == VendIInv => VendTypeOK
<1>1. ASSUME VendIInv, NEW r \in Callers
      PROVE  call[r].at \in {"idle", "known", "count", "ref", "log", "put", "remove", "resolve",
                             "open", "access", "spend"}
  BY <1>1 DEF VendIInv, VendTyped, BrokerCalls, BindCalls, StoreCalls, VendCalls, UnbindCalls,
       DiscardCalls, Idle
<1>2. QED
  BY <1>1 DEF VendIInv, VendTyped, VendTypeOK

LEMMA DeskShapes == GateIInv => DeskTypeOK
<1>1. ASSUME DeskTyped, NEW o \in Orders, order[o] # Waiting
      PROVE  /\ order[o].at \in {"revocation", "quarantine", "retrieve", "record", "write"}
             /\ order[o].ask \in Asks
  BY <1>1 DEF DeskTyped, DeskOrders
<1>2. QED
  BY <1>1 DEF GateIInv, DeskTyped, DeskTypeOK

LEMMA PolicyTypes == PolicyIInv => PolicyTypeOK
<1>1. SUFFICES ASSUME PolicyIInv PROVE PolicyTypeOK
  OBVIOUS
<1>2. ASSUME NEW c \in Calls, Started(c)
      PROVE  /\ eval[c].at \in {"load", "count", "passed", "denied"}
             /\ eval[c].kind \in Kinds
             /\ eval[c].doc \in RuleLists \cup {NoDocument, Damaged}
             /\ eval[c].at = "count" => eval[c].left \subseteq Velocities(eval[c].doc, eval[c].kind)
  BY <1>1, <1>2 DEF PolicyIInv, PolicyTyped, Walks
<1>3. QED
  BY <1>1, <1>2 DEF PolicyIInv, PolicyTyped, PolicyTypeOK

\* Type correctness of every store.
THEOREM StoresTypesCorrect == StoresSpec => []TypesOK
<1>1. RosterSpec => []RosterTypeOK
  BY RosterTypes, RosterStarts, RosterInductive, PTL DEF RosterSpec
<1>2. CatalogSpec => []CatalogTypeOK
  BY CatalogTells, CatalogStarts, CatalogInductive, PTL DEF CatalogSpec
<1>3. VendSpec => []VendTypeOK
  BY VendTypes, VendStarts, VendInductive, PTL DEF VendSpec
<1>4. DeskSpec => []DeskTypeOK
  BY DeskShapes, GateStarts, GateInductive, PTL DEF DeskSpec
<1>5. PolicySpec => []PolicyTypeOK
  BY PolicyTypes, PolicyStarts, PolicyInductive, PTL DEF PolicySpec
<1>6. QED
  BY <1>1, <1>2, <1>3, <1>4, <1>5, EachStore, PTL DEF TypesOK

\* What a store holds was asked for in a record that precedes the write: the
\* roster, the overlay, the bindings, the vault, the switches and documents.
THEOREM WriteBeforeExecuteCorrect == StoresSpec => []WriteBeforeExecute
<1>1. VendIInv => StoredOnRecord
  BY DEF VendIInv
<1>2. VendSpec => []StoredOnRecord
  BY <1>1, VendStarts, VendInductive, PTL DEF VendSpec
<1>3. QED
  BY <1>2, RosterLoggedCorrect, CatalogLoggedCorrect, DeskOnRecordCorrect, EachStore, PTL
  DEF WriteBeforeExecute

\* The cap on the roster and the caps of the policy rules hold though they are
\* checked in one round trip and used in another.
THEOREM CapsHoldCorrect == StoresSpec => []CapsHold
BY RosterBoundedCorrect, RulesHoldCorrect, EachStore, PTL DEF CapsHold
=============================================================================
