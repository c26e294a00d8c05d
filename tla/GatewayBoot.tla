----------------------------- MODULE GatewayBoot -----------------------------
(***************************************************************************)
(* How a gateway process comes up: _build_components and _lifespan of      *)
(* app/main.py, with core/integrity.py, core/licensing.py,                 *)
(* services/license_refresh.py and the durability posture of the ledger.   *)
(*                                                                         *)
(* Several workers of one deployment start side by side and refuse to      *)
(* start on the first thing that is wrong.  They share a directory of key  *)
(* files that the first of them creates (looking, creating the file, and   *)
(* writing it are separate actions), may die at any step, and are started  *)
(* again; the licence they hold is renewed while they run.                 *)
(***************************************************************************)
EXTENDS Integers, Sequences, FiniteSets

CONSTANTS
  Boots,        \* worker processes
  Deployments,  \* configurations: see Deployment
  Scope,        \* source files the manifest must cover (_in_scope_files)
  Licences,     \* documents: [id, issued, expires, genuine]
  MaxStarts,    \* bound: starts of processes
  LastDay       \* bound: days

\* Key files that are created once, and the two texts of the telemetry identity.
ByteKeys == {"worm", "vault", "forensic", "pseudonym", "totp", "content"}
Texts    == {"install id", "telemetry secret"}
KeyFiles == ByteKeys \cup Texts

\* A setting named as a key is the path of its file.
Setting == ByteKeys \cup
  {"manifest", "root key", "license", "license key", "identity", "jwt",
   "retired keys", "webhook secret", "webhook url", "pdp url",
   "telemetry url", "refresh url", "channel"}
Switch == {"bypass", "forensic", "pseudonymize", "encrypt", "pdp", "telemetry",
           "respond", "freeze"}
Part == {"webhook", "pdp", "beacon", "refresher", "playbook"}

\* What the environment of the processes says: settings given, those of them
\* that name a file that is unreadable, malformed or (in production) writable
\* by others, switches on, source files listed in the signed manifest and
\* files that differ from it, the licence on disk, and Redis' durability.
Deployment == [sandbox : BOOLEAN, given : SUBSET Setting, bad : SUBSET Setting,
               on : SUBSET Switch, listed : SUBSET Scope, altered : SUBSET Scope,
               licence : Licences, durable : BOOLEAN]

ASSUME BootAssumption ==
  /\ \A d \in Deployments : d \in Deployment
  /\ \A l \in Licences : l.issued \in Nat /\ l.expires \in Nat /\ l.genuine \in BOOLEAN
  /\ MaxStarts \in Nat /\ LastDay \in Nat

VARIABLES deployment, today,
  disk,     \* the key files of .keys/
  proc,     \* the processes
  starts    \* of processes, so far

bootVars == <<deployment, today, disk, proc, starts>>

\* What a file holds and a process has loaded; a key that is drawn is told
\* from every other by the number of the start that drew it.
Missing    == -1
Empty      == 0
Drawn(n)   == n
Configured == MaxStarts + 1    \* the file the operator named
NoKey      == Missing

\* The order of _build_components and, from the second "content", _lifespan,
\* which binds Redis again on the running loop and loads that key once more.
\* What is checked between two looks at the disk is one stage.
Order == <<"gates", "worm", "vault", "forensic", "pseudonym", "webhook", "totp",
           "content", "features", "install id", "telemetry secret", "daemons",
           "content", "posture">>
Ready == Len(Order) + 1

Off == [at |-> 0, step |-> "look", start |-> 0, keys |-> [k \in KeyFiles |-> NoKey],
        licence |-> {}, built |-> {}]

Stage(w)  == IF proc[w].at \in DOMAIN Order THEN Order[proc[w].at] ELSE "none"
IsUp(w)   == proc[w].at = Ready
Given(s)  == s \in deployment.given
Usable(s) == Given(s) /\ s \notin deployment.bad
On(s)     == s \in deployment.on
Sandbox   == deployment.sandbox

\* A licence that is held, and the day it was last verified (history).
Verified == [doc : Licences, day : 0 .. LastDay]

\* Every variable has its type.
BootTypeOK ==
  /\ deployment \in Deployments /\ today \in 0 .. LastDay /\ starts \in 0 .. MaxStarts
  /\ disk \in [KeyFiles -> Missing .. MaxStarts]
  /\ \A w \in Boots :
       /\ proc[w].at \in 0 .. Ready /\ proc[w].start \in 0 .. starts
       /\ proc[w].step \in {"look", "create", "write", "refused"}
       /\ proc[w].keys \in [KeyFiles -> Missing .. Configured]
       /\ proc[w].licence \subseteq Verified /\ proc[w].built \subseteq Part

BootInit ==
  /\ deployment \in Deployments /\ today = 0
  /\ disk = [k \in KeyFiles |-> Missing]
  /\ proc = [w \in Boots |-> Off] /\ starts = 0

Refuse(w) == proc' = [proc EXCEPT ![w] = [Off EXCEPT !.step = "refused"]]
Go(w)     == proc' = [proc EXCEPT ![w].at = @ + 1]
GoWith(w, parts) == proc' = [proc EXCEPT ![w].at = @ + 1, ![w].built = @ \cup parts]
GoHolding(w, k, v) ==
  proc' = [proc EXCEPT ![w].at = @ + 1, ![w].step = "look", ![w].keys[k] = v]

\* A gate lets the process through or ends it.
Gate(w, sound) == IF sound THEN Go(w) ELSE Refuse(w)

stays == <<deployment, today, disk, starts>>

Start(w) ==
  /\ proc[w].at = 0 /\ starts < MaxStarts
  /\ starts' = starts + 1
  /\ proc' = [proc EXCEPT ![w] = [Off EXCEPT !.at = 1, !.start = starts']]
  /\ UNCHANGED <<deployment, today, disk>>

---------------------------------------------------------------------------
(* The gates *)

\* Two settings that go together: both, or in the sandbox neither.
Together(a, b) == (Sandbox /\ ~Given(a) /\ ~Given(b)) \/ (Given(a) /\ Given(b))

\* Mutant: what the manifest does not list is not looked for.
ListedOnly == deployment.listed \cap deployment.altered = {}

\* verify_boot_integrity: no listed file differs, and none is left out.
CodeMatches ==
  /\ deployment.listed \cap deployment.altered = {}
  /\ Scope \subseteq deployment.listed

\* _enforce_boot_integrity.
BootIntegrity ==
  IF On("bypass") THEN Sandbox
  ELSE /\ Together("manifest", "root key")
       /\ Given("manifest") => Usable("manifest") /\ Usable("root key") /\ CodeMatches

\* verify_license_bytes; is_newer_license with the binding to the identity.
InForce(l) == l.genuine /\ l.issued <= today /\ today < l.expires
Renews(l, held) == l.issued > held.issued /\ l.id = held.id

\* _enforce_license_gate: the gate, and the licence it leaves.
LicenceGate ==
  /\ Together("license", "license key")
  /\ Given("license") =>
       Usable("license") /\ Usable("license key") /\ InForce(deployment.licence)
OnFile == IF Given("license") THEN {[doc |-> deployment.licence, day |-> today]} ELSE {}

\* The paths production insists on, the two gates, _enforce_production_config
\* and _load_verifying_pem.
PassGates(w) ==
  /\ Stage(w) = "gates"
  /\ IF /\ Sandbox \/ (Given("jwt") /\ Given("worm") /\ Given("identity"))
        /\ BootIntegrity /\ LicenceGate /\ "jwt" \notin deployment.bad
     THEN proc' = [proc EXCEPT ![w].at = @ + 1, ![w].licence = OnFile]
     ELSE Refuse(w)
  /\ UNCHANGED stays

\* _load_authn_webhook_secret: in the sandbox too.
LoadWebhookSecret(w) ==
  /\ Stage(w) = "webhook"
  /\ Gate(w, "webhook secret" \notin deployment.bad)
  /\ UNCHANGED stays

\* _load_worm_content_key_fallbacks, _build_authn_channel, _build_community_gate
\* and the first half of _build_telemetry_beacon: half a configuration of a
\* control is refused.
RetiredKeys == On("encrypt") => "retired keys" \notin deployment.bad
WebhookPair == Sandbox \/ (Given("webhook url") <=> Given("webhook secret"))
PdpPair     == On("pdp") => Given("pdp url")
BeaconPair  == On("telemetry") => Given("telemetry url")
Beacon      == On("telemetry") /\ ~Sandbox

BuildFeatures(w) ==
  /\ Stage(w) = "features"
  /\ IF RetiredKeys /\ WebhookPair /\ PdpPair /\ BeaconPair
     THEN GoWith(w, {p \in {"webhook", "pdp"} :
                       \/ p = "webhook" /\ ~Sandbox /\ Given("webhook url")
                       \/ p = "pdp" /\ On("pdp")})
     ELSE Refuse(w)
  /\ UNCHANGED stays

\* _build_response_playbook: one that could do nothing is refused.
PlaybookActs ==
  On("respond") => /\ "channel" \notin deployment.bad
                   /\ On("freeze") \/ Given("channel")

\* The beacon, _build_license_refresher (absent when there is nothing to renew)
\* and the playbook.
BuildDaemons(w) ==
  /\ Stage(w) = "daemons"
  /\ IF PlaybookActs /\ \A k \in Texts : proc[w].keys[k] # Empty
     THEN GoWith(w, {p \in {"beacon", "refresher", "playbook"} :
                       \/ p = "beacon" /\ Beacon
                       \/ p = "refresher" /\ Given("refresh url") /\ proc[w].licence # {}
                       \/ p = "playbook" /\ On("respond")})
     ELSE Refuse(w)
  /\ UNCHANGED stays

\* assert_persistence_posture: Redis may be out of reach at that moment.
CheckPosture(w) ==
  /\ Stage(w) = "posture"
  /\ \E reached \in BOOLEAN : Gate(w, Sandbox \/ (reached /\ deployment.durable))
  /\ UNCHANGED stays

---------------------------------------------------------------------------
(* The key files *)

\* The feature of a key is on.
Wanted(k) ==
  CASE k = "forensic"  -> On("forensic")
    [] k = "pseudonym" -> On("pseudonymize")
    [] k = "content"   -> On("encrypt")
    [] k \in Texts     -> Beacon
    [] OTHER           -> TRUE

\* Keys whose feature is absent in production when no file is named.
MayBeAbsent == {"vault", "forensic", "totp"}

\* A file that is there is read; a key must have its length.
ReadKey(w, k) ==
  IF disk[k] = Empty /\ k \in ByteKeys THEN Refuse(w) ELSE GoHolding(w, k, disk[k])

\* The _load_*_key functions up to the look at the disk.
LookForKey(w) ==
  /\ Stage(w) \in KeyFiles /\ proc[w].step = "look"
  /\ LET k == Stage(w) IN
       IF ~Wanted(k) THEN Go(w)
       ELSE IF Given(k)
       THEN IF k \in deployment.bad THEN Refuse(w) ELSE GoHolding(w, k, Configured)
       ELSE IF ~Sandbox /\ k \in ByteKeys THEN Gate(w, k \in MayBeAbsent)
       ELSE IF disk[k] = Missing THEN proc' = [proc EXCEPT ![w].step = "create"]
       ELSE ReadKey(w, k)
  /\ UNCHANGED stays

\* Mutant: an existing file is opened and truncated.
CreateOver(w) ==
  /\ proc[w].step = "create"
  /\ disk' = [disk EXCEPT ![Stage(w)] = Empty]
  /\ proc' = [proc EXCEPT ![w].step = "write"]
  /\ UNCHANGED <<deployment, today, starts>>

\* The exclusive creation; the loser of a race reads what is there.
CreateKey(w) ==
  /\ proc[w].step = "create"
  /\ IF disk[Stage(w)] = Missing
     THEN /\ disk' = [disk EXCEPT ![Stage(w)] = Empty]
          /\ proc' = [proc EXCEPT ![w].step = "write"]
     ELSE ReadKey(w, Stage(w)) /\ UNCHANGED disk
  /\ UNCHANGED <<deployment, today, starts>>

WriteKey(w) ==
  /\ proc[w].step = "write"
  /\ disk' = [disk EXCEPT ![Stage(w)] = Drawn(proc[w].start)]
  /\ GoHolding(w, Stage(w), Drawn(proc[w].start))
  /\ UNCHANGED <<deployment, today, starts>>

---------------------------------------------------------------------------
(* A running process and its surroundings *)

\* refresh_once with what the vendor's server answers.
Refresh(w) ==
  /\ IsUp(w) /\ "refresher" \in proc[w].built
  /\ \E l \in Licences, held \in proc[w].licence :
       /\ InForce(l) /\ Renews(l, held.doc)
       /\ proc' = [proc EXCEPT ![w].licence = {[doc |-> l, day |-> today]}]
  /\ UNCHANGED stays

Die(w) ==
  /\ proc[w].at # 0 /\ starts < MaxStarts
  /\ proc' = [proc EXCEPT ![w] = Off]
  /\ UNCHANGED stays

\* A file left empty by a process that died between its creation and the write
\* is deleted, as the boot error says; nobody is creating it then.
DeleteEmpty ==
  /\ \E k \in KeyFiles :
       /\ disk[k] = Empty
       /\ \A w \in Boots : Stage(w) = k => proc[w].step = "look"
       /\ disk' = [disk EXCEPT ![k] = Missing]
  /\ UNCHANGED <<deployment, today, proc, starts>>

\* Only a process at the gates or a running one looks at the clock.
NextDay ==
  /\ \A w \in Boots : proc[w].at \in {0, 1, Ready}
  /\ today < LastDay /\ today' = today + 1
  /\ UNCHANGED <<deployment, disk, proc, starts>>

ComingUp(w) ==
  \/ Start(w) \/ Die(w) \/ Refresh(w)
  \/ PassGates(w) \/ LoadWebhookSecret(w) \/ CheckPosture(w)
  \/ LookForKey(w) \/ CreateKey(w) \/ WriteKey(w)
  \/ BuildFeatures(w) \/ BuildDaemons(w)

BootNext == (\E w \in Boots : ComingUp(w)) \/ DeleteEmpty \/ NextDay

BootSpec == BootInit /\ [][BootNext]_bootVars

---------------------------------------------------------------------------
(* Properties *)

Loaded(w, k) == proc[w].keys[k] \notin {NoKey, Empty}

\* Code that runs is the code that was signed, unless a sandbox chose otherwise.
CodeVerified(w) ==
  \/ deployment.altered \cap Scope = {} /\ Scope \subseteq deployment.listed
  \/ Sandbox /\ (On("bypass") \/ ~Given("manifest"))

\* A production process holds a genuine licence, the one on disk or a later
\* document of the same identity, that was in force the day it was verified.
Entitled(w) ==
  /\ Sandbox \/ proc[w].licence # {}
  /\ \A held \in proc[w].licence :
       LET l == held.doc IN
       /\ l.genuine /\ l.id = deployment.licence.id
       /\ l.issued >= deployment.licence.issued
       /\ l.issued <= held.day /\ held.day < l.expires

\* A control that was switched on is in place.
ControlsInPlace(w) ==
  /\ On("encrypt") => Loaded(w, "content")
  /\ On("pseudonymize") => Loaded(w, "pseudonym")
  /\ On("pdp") => "pdp" \in proc[w].built
  /\ On("respond") => "playbook" \in proc[w].built
  /\ Beacon => "beacon" \in proc[w].built /\ \A k \in Texts : Loaded(w, k)
  /\ ~Sandbox /\ Given("webhook url") => "webhook" \in proc[w].built

\* A process serves only with verified code, an entitlement and every control
\* that was asked for, whatever is half configured, damaged, expired or created
\* by a sibling meanwhile (_build_components, _lifespan).
UpSound ==
  \A w \in Boots : IsUp(w) =>
    /\ CodeVerified(w) /\ Entitled(w) /\ ControlsInPlace(w)
    /\ Loaded(w, "worm") /\ (Sandbox \/ deployment.durable)

\* Workers that start side by side, die and start again never hold two keys of
\* one kind: what a process has loaded is what the file says (or the operator's
\* own file), so one never seals what another cannot read (_load_worm_key,
\* _load_vault_key, _load_worm_content_key, _load_or_create_text, ...).
KeysAgree ==
  \A w \in Boots, k \in KeyFiles : Loaded(w, k) =>
    proc[w].keys[k] = IF Given(k) THEN Configured ELSE disk[k]
=============================================================================
