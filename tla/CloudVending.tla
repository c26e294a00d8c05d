----------------------------- MODULE CloudVending -----------------------------
(***************************************************************************)
(* Cloud environments and the broker's vault: the admin endpoints of       *)
(* app/main.py, CloudIAMTransport, services/cloud_broker.py and            *)
(* services/secret_vault.py, of one tenant in production.                  *)
(*                                                                         *)
(* A binding names a compartment and, if the operator chose so, a secret   *)
(* of the vault.  An authorized call reads the binding, opens the secret,  *)
(* puts the access on record and spends the material, each in its own      *)
(* round trip, while administrators rebind, rotate and discard.  Any round *)
(* trip may fail, and a write may be applied although its answer is lost.  *)
(***************************************************************************)
EXTENDS Naturals, FiniteSets

CONSTANTS
  Callers,       \* requests in flight
  Envs, Secrets, Materials, Compartments,
  None,          \* no reference, no compartment, no row
  Host,          \* the gateway's own identity with the provider
  EnvCap, VaultCap,
  MaxCalls,      \* bound: requests
  MaxFailures    \* bound: round trips that fail

ASSUME VendingAssumption ==
  /\ None \notin Secrets \cup Compartments \cup Materials \cup {Host}
  /\ Host \notin Materials
  /\ {EnvCap, VaultCap, MaxCalls, MaxFailures} \subseteq Nat

Refs     == Secrets \cup {None}
Scopes   == Compartments \cup {None}
Bindings == [ref : Refs, scope : Scopes]

\* A row of the vault: the material, and the id it was sealed for.
SealedRows == [sealed : Secrets, material : Materials]

Records ==
  [kind : {"bind"}, env : Envs, binding : Bindings]
  \cup [kind : {"store", "access"}, secret : Secrets, material : Materials]

VARIABLES
  envs,      \* Redis: the bindings
  vault,     \* Redis: the rows of the vault
  onRecord,  \* the audit log
  call,      \* the requests
  spends,    \* what the provider has been shown: [env, binding, scope, material]
  calls, failures

vendVars == <<envs, vault, onRecord, call, spends, calls, failures>>

Idle == [at |-> "idle"]
Bind(e, b)    == [at |-> "known", op |-> "bind", env |-> e, binding |-> b]
Store(s, m)   == [at |-> "known", op |-> "store", secret |-> s, material |-> m]
Vend(e, c)    == [at |-> "resolve", op |-> "vend", env |-> e, scope |-> c,
                  binding |-> None, material |-> None]
Unbind(e)     == [at |-> "remove", op |-> "unbind", env |-> e]
Discard(s)    == [at |-> "log", op |-> "discard", secret |-> s]

At(r, op, at) == call[r].at = at /\ call[r].op = op

\* Every variable has its type.
VendTypeOK ==
  /\ envs \in [Envs -> Bindings \cup {None}] /\ vault \in [Secrets -> SealedRows \cup {None}]
  /\ onRecord \subseteq Records
  /\ spends \subseteq [env : Envs, binding : Bindings, scope : Scopes,
                       material : Materials \cup {Host}]
  /\ \A r \in Callers : call[r].at \in
       {"idle", "known", "count", "ref", "log", "put", "remove", "resolve", "open",
        "access", "spend"}
  /\ calls \in 0 .. MaxCalls /\ failures \in 0 .. MaxFailures

VendInit ==
  /\ envs = [e \in Envs |-> None] /\ vault = [s \in Secrets |-> None]
  /\ onRecord = {} /\ spends = {} /\ calls = 0 /\ failures = 0
  /\ call = [r \in Callers |-> Idle]

Fails  == failures < MaxFailures /\ failures' = failures + 1
Works  == UNCHANGED failures
End(r) == call' = [call EXCEPT ![r] = Idle]
GoOn(r, at) == call' = [call EXCEPT ![r].at = at]
Occupied(store) == Cardinality({k \in DOMAIN store : store[k] # None})

stores == <<envs, vault>>

BrokerAsks ==
  {Bind(e, b) : e \in Envs, b \in Bindings} \cup {Store(s, m) : s \in Secrets, m \in Materials}
  \cup {Vend(e, s) : e \in Envs, s \in Scopes}
  \cup {Unbind(e) : e \in Envs} \cup {Discard(s) : s \in Secrets}

AskBroker(r) ==
  /\ call[r] = Idle /\ calls < MaxCalls /\ calls' = calls + 1
  /\ \E c \in BrokerAsks : call' = [call EXCEPT ![r] = c]
  /\ UNCHANGED <<stores, onRecord, spends, failures>>

---------------------------------------------------------------------------
(* The administrators *)

\* put_cloud_environment and put_vault_secret up to their record: a row that is
\* there may be replaced, a new one needs room; a read that fails finds nothing
\* and counts nothing.
Present(r) ==
  IF call[r].op = "bind" THEN envs[call[r].env] # None ELSE vault[call[r].secret] # None
HasRoom(r) ==
  IF call[r].op = "bind" THEN Occupied(envs) < EnvCap ELSE Occupied(vault) < VaultCap
Checked(r) == IF call[r].op = "bind" THEN "ref" ELSE "log"

LookUp(r) ==
  /\ call[r].at = "known"
  /\ \/ Works /\ GoOn(r, IF Present(r) THEN Checked(r) ELSE "count")
     \/ Fails /\ GoOn(r, "count")
  /\ UNCHANGED <<stores, onRecord, spends, calls>>

CountStore(r) ==
  /\ call[r].at = "count"
  /\ \/ Works /\ IF HasRoom(r) THEN GoOn(r, Checked(r)) ELSE End(r)
     \/ Fails /\ GoOn(r, Checked(r))
  /\ UNCHANGED <<stores, onRecord, spends, calls>>

\* A reference must name an entry of the vault.
CheckReference(r) ==
  /\ call[r].at = "ref"
  /\ LET ref == call[r].binding.ref IN
       \/ /\ Works
          /\ IF ref = None \/ (ref \in Secrets /\ vault[ref] # None)
             THEN GoOn(r, "log") ELSE End(r)
       \/ ref # None /\ Fails /\ End(r)
  /\ UNCHANGED <<stores, onRecord, spends, calls>>

\* The record of a binding, a secret or a removal comes before its write; the
\* look of delete_vault_secret at the row decides nothing.
Entry(r) ==
  CASE call[r].op = "bind"  -> {[kind |-> "bind", env |-> call[r].env,
                                 binding |-> call[r].binding]}
    [] call[r].op = "store" -> {[kind |-> "store", secret |-> call[r].secret,
                                 material |-> call[r].material]}
    [] OTHER                -> {}

EmitAction(r) ==
  /\ call[r].at = "log"
  /\ \/ Works /\ onRecord' = onRecord \cup Entry(r)
              /\ GoOn(r, IF call[r].op = "discard" THEN "remove" ELSE "put")
     \/ Fails /\ End(r) /\ UNCHANGED onRecord
  /\ UNCHANGED <<stores, spends, calls>>

WriteStore(r) ==
  IF call[r].op = "bind"
  THEN envs' = [envs EXCEPT ![call[r].env] = call[r].binding] /\ UNCHANGED vault
  ELSE /\ vault' = [vault EXCEPT ![call[r].secret] =
                      [sealed |-> call[r].secret, material |-> call[r].material]]
       /\ UNCHANGED envs

\* CloudEnvironmentStore.put and SecretVault.put: an error may hide a write.
PutRow(r) ==
  /\ call[r].at = "put"
  /\ \/ Works /\ WriteStore(r)
     \/ Fails /\ UNCHANGED stores
  /\ End(r)
  /\ UNCHANGED <<onRecord, spends, calls>>

\* The record of a removed binding comes after, and shows nothing new here.
RemoveEntry(r) ==
  /\ call[r].at = "remove"
  /\ \/ /\ Works
        /\ IF call[r].op = "unbind"
           THEN envs' = [envs EXCEPT ![call[r].env] = None] /\ UNCHANGED vault
           ELSE vault' = [vault EXCEPT ![call[r].secret] = None] /\ UNCHANGED envs
     \/ Fails /\ UNCHANGED stores
  /\ End(r)
  /\ UNCHANGED <<onRecord, spends, calls>>

---------------------------------------------------------------------------
(* The call *)

\* CloudIAMTransport.execute: no binding, or one of another compartment, ends it.
Serves(b, scope) == b # None /\ b.scope \in {None, scope}

ResolveEnv(r) ==
  /\ At(r, "vend", "resolve")
  /\ LET b == envs[call[r].env] IN
       \/ /\ Works /\ Serves(b, call[r].scope)
          /\ call' = [call EXCEPT ![r].binding = b,
                        ![r].at = IF b.ref = None THEN "spend" ELSE "open",
                        ![r].material = IF b.ref = None THEN Host ELSE None]
       \/ Works /\ ~Serves(b, call[r].scope) /\ End(r)
       \/ Fails /\ End(r)
  /\ UNCHANGED <<stores, onRecord, spends, calls>>

\* Mutant: a blob decrypts under any id.
OpensAnywhere(row, s) == row # None

\* SecretVault.get_material: the id is bound into the sealed blob.
Opens(row, s) == row # None /\ row.sealed = s

\* _broker_material: what cannot be opened ends the call; it never falls back
\* to the host identity.
OpenSecret(r) ==
  /\ At(r, "vend", "open")
  /\ LET row == vault[call[r].binding.ref] IN
       \/ /\ Works
          /\ IF Opens(row, call[r].binding.ref)
             THEN call' = [call EXCEPT ![r].at = "access", ![r].material = row.material]
             ELSE End(r)
       \/ Fails /\ End(r)
  /\ UNCHANGED <<stores, onRecord, spends, calls>>

\* No access without its record.
RecordAccess(r) ==
  /\ At(r, "vend", "access")
  /\ \/ /\ Works /\ GoOn(r, "spend")
        /\ onRecord' = onRecord \cup {[kind |-> "access", secret |-> call[r].binding.ref,
                                       material |-> call[r].material]}
     \/ Fails /\ End(r) /\ UNCHANGED onRecord
  /\ UNCHANGED <<stores, spends, calls>>

\* _vend_aws, _vend_gcp, _vend_azure.
Spend(r) ==
  /\ At(r, "vend", "spend")
  /\ spends' = spends \cup {[env |-> call[r].env, binding |-> call[r].binding,
                             scope |-> call[r].scope, material |-> call[r].material]}
  /\ End(r)
  /\ UNCHANGED <<stores, onRecord, calls, failures>>

---------------------------------------------------------------------------

\* The request is abandoned, or its worker dies; or its write was applied and
\* the answer lost, which leaves the same traces as success.
Abandon(r) ==
  /\ call[r] # Idle /\ Fails /\ End(r)
  /\ UNCHANGED <<stores, onRecord, spends, calls>>

\* External: a row is copied onto another id inside Redis.
CopyRow ==
  /\ Fails
  /\ \E s, t \in Secrets :
       /\ s # t /\ vault[s] # None
       /\ vault' = [vault EXCEPT ![t] = vault[s]]
  /\ UNCHANGED <<envs, onRecord, call, spends, calls>>

VendNext ==
  \/ CopyRow
  \/ \E r \in Callers :
       \/ AskBroker(r) \/ Abandon(r)
       \/ LookUp(r) \/ CountStore(r) \/ CheckReference(r) \/ EmitAction(r)
       \/ PutRow(r) \/ RemoveEntry(r)
       \/ ResolveEnv(r) \/ OpenSecret(r) \/ RecordAccess(r) \/ Spend(r)

VendSpec == VendInit /\ [][VendNext]_vendVars

---------------------------------------------------------------------------
(* Properties *)

\* What the provider is shown is what an administrator bound: under a binding
\* that is on record, for its own compartment, with the host identity exactly
\* when it names no secret, and otherwise with material that was stored for that
\* very secret and whose access is on record, however the binding is changed and
\* the secret rotated, discarded or misplaced between the reads and the use
\* (CloudIAMTransport.execute, CloudBroker._broker_material).
VendsAsBound ==
  \A v \in spends :
    /\ [kind |-> "bind", env |-> v.env, binding |-> v.binding] \in onRecord
    /\ v.binding.scope \in {None, v.scope}
    /\ v.binding.ref = None <=> v.material = Host
    /\ v.binding.ref # None =>
         \A kind \in {"store", "access"} :
           [kind |-> kind, secret |-> v.binding.ref, material |-> v.material] \in onRecord

\* Nothing is bound or stored that is not on record first.
StoredOnRecord ==
  /\ \A e \in Envs : envs[e] # None =>
       [kind |-> "bind", env |-> e, binding |-> envs[e]] \in onRecord
  /\ \A s \in Secrets : vault[s] # None =>
       [kind |-> "store", secret |-> vault[s].sealed, material |-> vault[s].material]
         \in onRecord
=============================================================================
