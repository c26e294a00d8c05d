--------------------------- MODULE GatewayBootProofs ---------------------------
(***************************************************************************)
(* What GatewayBoot promises, for any number of workers, deployments,      *)
(* starts and days.                                                        *)
(*                                                                         *)
(* The invariant says of every process what the stages behind it have      *)
(* established: the conclusion of a stage outlives the stages that follow, *)
(* the deaths of siblings and what they do to the key files.               *)
(***************************************************************************)
EXTENDS GatewayBoot, TLAPS

Process ==
  [at : 0 .. Ready, step : {"look", "create", "write", "refused"}, start : 0 .. MaxStarts,
   keys : [KeyFiles -> Missing .. Configured], licence : SUBSET Verified, built : SUBSET Part]

StageOf(p) == IF p.at \in DOMAIN Order THEN Order[p.at] ELSE "none"
Held(p, k) == p.keys[k] \notin {NoKey, Empty}

\* A key that is held is the one of its file.
Agrees(p, k) == Held(p, k) => p.keys[k] = IF Given(k) THEN Configured ELSE disk[k]

\* A process that creates a file is at the stage of that file, which nobody
\* named, and found it missing; what it has created is empty until it writes.
Busy(p) ==
  /\ p.at > 0 => p.step # "refused" /\ p.start \in 1 .. starts
  /\ p.at = 0 => p.step \notin {"create", "write"} /\ p.start = 0
  /\ p.step \in {"create", "write"} => StageOf(p) \in KeyFiles /\ ~Given(StageOf(p))
  /\ p.step = "write" => disk[StageOf(p)] = Empty

\* A licence that descends from the file and was in force when it was verified.
Entitles(v) ==
  /\ v.doc.genuine /\ v.doc.id = deployment.licence.id
  /\ v.doc.issued >= deployment.licence.issued
  /\ v.doc.issued <= v.day /\ v.day < v.doc.expires

\* The gates let it through, with a licence that entitles it.
Admitted(p) ==
  /\ Sandbox \/ Given("license")
  /\ Given("license") => p.licence # {}
  /\ \/ deployment.altered \cap Scope = {} /\ Scope \subseteq deployment.listed
     \/ Sandbox /\ (On("bypass") \/ ~Given("manifest"))
  /\ \A v \in p.licence : Entitles(v)

Durably == Sandbox \/ deployment.durable

\* What the stages behind a process have established.
Through(p) ==
  /\ p.at > 1 => Admitted(p)
  /\ p.at > 2 => Held(p, "worm")
  /\ p.at > 5 /\ On("pseudonymize") => Held(p, "pseudonym")
  /\ p.at > 8 /\ On("encrypt") => Held(p, "content")
  /\ p.at > 9 => /\ On("pdp") => "pdp" \in p.built
                 /\ ~Sandbox /\ Given("webhook url") => "webhook" \in p.built
  /\ p.at > 10 /\ Beacon => p.keys["install id"] # NoKey
  /\ p.at > 11 /\ Beacon => p.keys["telemetry secret"] # NoKey
  /\ p.at > 12 => /\ On("respond") => "playbook" \in p.built
                  /\ Beacon => "beacon" \in p.built /\ \A k \in Texts : Held(p, k)
  /\ p.at > 14 => Durably

Right(p) == (\A k \in KeyFiles : Agrees(p, k)) /\ Busy(p) /\ Through(p)

OneWriter ==
  \A v, w \in Boots :
    proc[v].step = "write" /\ proc[w].step = "write" /\ Stage(v) = Stage(w) => v = w

BootTyped ==
  /\ deployment \in Deployments /\ today \in 0 .. LastDay /\ starts \in 0 .. MaxStarts
  /\ disk \in [KeyFiles -> Missing .. MaxStarts]
  /\ proc \in [Boots -> Process]

BootIInv == BootTyped /\ OneWriter /\ \A w \in Boots : Right(proc[w])

---------------------------------------------------------------------------
(* The order of the stages *)

LEMMA StageOrder ==
  /\ Ready = 15 /\ DOMAIN Order = 1 .. 14
  /\ Order[1] = "gates" /\ Order[2] = "worm" /\ Order[3] = "vault" /\ Order[4] = "forensic"
  /\ Order[5] = "pseudonym" /\ Order[6] = "webhook" /\ Order[7] = "totp" /\ Order[8] = "content"
  /\ Order[9] = "features" /\ Order[10] = "install id" /\ Order[11] = "telemetry secret"
  /\ Order[12] = "daemons" /\ Order[13] = "content" /\ Order[14] = "posture"
BY DEF Ready, Order

LEMMA LastStage == Ready = 15
BY StageOrder

LEMMA StageTable ==
  ASSUME NEW p
  PROVE  /\ p.at = 0 => StageOf(p) = "none"
         /\ p.at = 1 => StageOf(p) = "gates"
         /\ p.at = 2 => StageOf(p) = "worm"
         /\ p.at = 3 => StageOf(p) = "vault"
         /\ p.at = 4 => StageOf(p) = "forensic"
         /\ p.at = 5 => StageOf(p) = "pseudonym"
         /\ p.at = 6 => StageOf(p) = "webhook"
         /\ p.at = 7 => StageOf(p) = "totp"
         /\ p.at = 8 => StageOf(p) = "content"
         /\ p.at = 9 => StageOf(p) = "features"
         /\ p.at = 10 => StageOf(p) = "install id"
         /\ p.at = 11 => StageOf(p) = "telemetry secret"
         /\ p.at = 12 => StageOf(p) = "daemons"
         /\ p.at = 13 => StageOf(p) = "content"
         /\ p.at = 14 => StageOf(p) = "posture"
         /\ p.at = 15 => StageOf(p) = "none"
<1>1. p.at = 0 => StageOf(p) = "none"
  BY DEF StageOf, Order
<1>2. p.at = 1 => StageOf(p) = "gates"
  BY DEF StageOf, Order
<1>3. p.at = 2 => StageOf(p) = "worm"
  BY DEF StageOf, Order
<1>4. p.at = 3 => StageOf(p) = "vault"
  BY DEF StageOf, Order
<1>5. p.at = 4 => StageOf(p) = "forensic"
  BY DEF StageOf, Order
<1>6. p.at = 5 => StageOf(p) = "pseudonym"
  BY DEF StageOf, Order
<1>7. p.at = 6 => StageOf(p) = "webhook"
  BY DEF StageOf, Order
<1>8. p.at = 7 => StageOf(p) = "totp"
  BY DEF StageOf, Order
<1>9. p.at = 8 => StageOf(p) = "content"
  BY DEF StageOf, Order
<1>10. p.at = 9 => StageOf(p) = "features"
  BY DEF StageOf, Order
<1>11. p.at = 10 => StageOf(p) = "install id"
  BY DEF StageOf, Order
<1>12. p.at = 11 => StageOf(p) = "telemetry secret"
  BY DEF StageOf, Order
<1>13. p.at = 12 => StageOf(p) = "daemons"
  BY DEF StageOf, Order
<1>14. p.at = 13 => StageOf(p) = "content"
  BY DEF StageOf, Order
<1>15. p.at = 14 => StageOf(p) = "posture"
  BY DEF StageOf, Order
<1>16. p.at = 15 => StageOf(p) = "none"
  BY DEF StageOf, Order
<1>17. QED
  BY <1>1, <1>2, <1>3, <1>4, <1>5, <1>6, <1>7, <1>8, <1>9,
     <1>10, <1>11, <1>12, <1>13, <1>14, <1>15, <1>16

LEMMA StageNumbers ==
  ASSUME NEW p, p.at \in 0 .. Ready
  PROVE  /\ StageOf(p) = "gates" => p.at = 1
         /\ StageOf(p) = "webhook" => p.at = 6
         /\ StageOf(p) = "features" => p.at = 9
         /\ StageOf(p) = "daemons" => p.at = 12
         /\ StageOf(p) = "posture" => p.at = 14
         /\ StageOf(p) = "worm" => p.at = 2
         /\ StageOf(p) = "vault" => p.at = 3
         /\ StageOf(p) = "forensic" => p.at = 4
         /\ StageOf(p) = "pseudonym" => p.at = 5
         /\ StageOf(p) = "totp" => p.at = 7
         /\ StageOf(p) = "content" => p.at \in {8, 13}
         /\ StageOf(p) = "install id" => p.at = 10
         /\ StageOf(p) = "telemetry secret" => p.at = 11
         /\ StageOf(p) # "none" => p.at \in 1 .. 14
         /\ StageOf(p) \in KeyFiles => p.at \in {2, 3, 4, 5, 7, 8, 10, 11, 13}
<1>1. \/ p.at = 0 \/ p.at = 1 \/ p.at = 2 \/ p.at = 3 \/ p.at = 4 \/ p.at = 5
      \/ p.at = 6 \/ p.at = 7 \/ p.at = 8 \/ p.at = 9 \/ p.at = 10 \/ p.at = 11
      \/ p.at = 12 \/ p.at = 13 \/ p.at = 14 \/ p.at = 15
  <2>1. p.at \in Int /\ 0 <= p.at /\ p.at <= 15
    BY LastStage
  <2>2. QED
    BY <2>1
<1>2. /\ p.at = 0 => StageOf(p) = "none"
      /\ p.at = 1 => StageOf(p) = "gates"
      /\ p.at = 2 => StageOf(p) = "worm"
      /\ p.at = 3 => StageOf(p) = "vault"
      /\ p.at = 4 => StageOf(p) = "forensic"
      /\ p.at = 5 => StageOf(p) = "pseudonym"
      /\ p.at = 6 => StageOf(p) = "webhook"
      /\ p.at = 7 => StageOf(p) = "totp"
  BY StageTable
<1>3. /\ p.at = 8 => StageOf(p) = "content"
      /\ p.at = 9 => StageOf(p) = "features"
      /\ p.at = 10 => StageOf(p) = "install id"
      /\ p.at = 11 => StageOf(p) = "telemetry secret"
      /\ p.at = 12 => StageOf(p) = "daemons"
      /\ p.at = 13 => StageOf(p) = "content"
      /\ p.at = 14 => StageOf(p) = "posture"
      /\ p.at = 15 => StageOf(p) = "none"
  BY StageTable
<1>4. StageOf(p) \in KeyFiles =>
        \/ StageOf(p) = "worm" \/ StageOf(p) = "vault" \/ StageOf(p) = "forensic"
        \/ StageOf(p) = "pseudonym" \/ StageOf(p) = "totp" \/ StageOf(p) = "content"
        \/ StageOf(p) = "install id" \/ StageOf(p) = "telemetry secret"
  BY DEF KeyFiles, ByteKeys, Texts
<1>5. /\ StageOf(p) = "gates" => p.at = 1
      /\ StageOf(p) = "webhook" => p.at = 6
      /\ StageOf(p) = "features" => p.at = 9
      /\ StageOf(p) = "daemons" => p.at = 12
      /\ StageOf(p) = "posture" => p.at = 14
  BY <1>1, <1>2, <1>3
<1>6. /\ StageOf(p) = "worm" => p.at = 2
      /\ StageOf(p) = "vault" => p.at = 3
      /\ StageOf(p) = "forensic" => p.at = 4
      /\ StageOf(p) = "pseudonym" => p.at = 5
      /\ StageOf(p) = "totp" => p.at = 7
  BY <1>1, <1>2, <1>3
<1>7. /\ StageOf(p) = "content" => p.at \in {8, 13}
      /\ StageOf(p) = "install id" => p.at = 10
      /\ StageOf(p) = "telemetry secret" => p.at = 11
  BY <1>1, <1>2, <1>3
<1>8. StageOf(p) # "none" => p.at \in 1 .. 14
  <2>1. p.at \in Int /\ 0 <= p.at /\ p.at <= 15
    BY LastStage
  <2>2. p.at # 0 /\ p.at # 15 => p.at \in 1 .. 14
    BY <2>1
  <2>3. StageOf(p) # "none" => p.at # 0 /\ p.at # 15
    BY <1>2, <1>3
  <2>4. QED
    BY <2>2, <2>3
<1>9. StageOf(p) \in KeyFiles => p.at \in {2, 3, 4, 5, 7, 8, 10, 11, 13}
  BY <1>4, <1>6, <1>7
<1>10. QED
  BY <1>5, <1>6, <1>7, <1>8, <1>9

LEMMA Numbers ==
  /\ Missing = -1 /\ NoKey = -1 /\ Empty = 0 /\ MaxStarts \in Nat /\ Configured = MaxStarts + 1
  /\ Ready = 15
BY BootAssumption, StageOrder DEF Missing, NoKey, Empty, Configured

LEMMA OffIsRight ==
  ASSUME NEW p \in Process, p.at = 0, p.start = 0, p.step \in {"look", "refused"},
         \A k \in KeyFiles : p.keys[k] = NoKey
  PROVE  Right(p)
BY DEF Right, Agrees, Held, Busy, Through

LEMMA OffTyped ==
  /\ Off \in Process /\ Off.at = 0 /\ Off.start = 0 /\ Off.step = "look"
  /\ \A k \in KeyFiles : Off.keys[k] = NoKey
  /\ [Off EXCEPT !.step = "refused"] \in Process
  /\ [Off EXCEPT !.step = "refused"].at = 0 /\ [Off EXCEPT !.step = "refused"].start = 0
  /\ [Off EXCEPT !.step = "refused"].step = "refused"
  /\ [Off EXCEPT !.step = "refused"].keys = Off.keys
BY Numbers DEF Off, Process

\* What a process has established stays, whatever the others do.
LEMMA ThroughKept ==
  ASSUME deployment' = deployment, NEW p, Through(p)
  PROVE  Through(p)'
<1>1. (Sandbox' <=> Sandbox) /\ (Beacon' <=> Beacon)
  BY DEF Sandbox, Beacon, On
<1>2. \A s : (Given(s)' <=> Given(s)) /\ (On(s)' <=> On(s))
  BY DEF Given, On
<1>3. Admitted(p) => Admitted(p)'
  BY <1>1, <1>2, Zenon DEF Admitted, Entitles
<1>4. (Sandbox \/ deployment.durable) => (Sandbox \/ deployment.durable)'
  BY Zenon DEF Sandbox
<1>5. QED
  BY <1>1, <1>2, <1>3, <1>4, ZenonT(60) DEF Through, Durably

LEMMA BusyKept ==
  ASSUME deployment' = deployment, starts \in Nat, starts' \in Nat, starts' >= starts,
         NEW p \in Process, Busy(p),
         p.step = "write" => disk'[StageOf(p)] = disk[StageOf(p)]
  PROVE  Busy(p)'
BY DEF Busy, Process, Given

LEMMA AgreesKept ==
  ASSUME deployment' = deployment, NEW p, NEW k, Agrees(p, k),
         Held(p, k) => Given(k) \/ disk'[k] = disk[k]
  PROVE  Agrees(p, k)'
BY DEF Agrees, Given

\* A step of one process, which takes the value p.
LEMMA OthersStay ==
  ASSUME BootTyped, NEW w \in Boots, NEW p \in Process, proc' = [proc EXCEPT ![w] = p]
  PROVE  /\ proc' \in [Boots -> Process] /\ proc'[w] = p
         /\ \A v \in Boots \ {w} : proc'[v] = proc[v]
BY DEF BootTyped

\* A step of one process that leaves the disk alone.
LEMMA ProcessMoves ==
  ASSUME BootIInv, deployment' = deployment, today' = today, disk' = disk,
         starts' \in starts .. MaxStarts,
         NEW w \in Boots, NEW p \in Process, proc' = [proc EXCEPT ![w] = p],
         p.step # "write", Right(p)'
  PROVE  BootIInv'
<1>1. BootTyped'
  BY Numbers DEF BootIInv, BootTyped
<1>2. proc'[w] = p /\ \A v \in Boots \ {w} : proc'[v] = proc[v]
  BY OthersStay DEF BootIInv
<1>3. OneWriter'
  BY <1>2 DEF BootIInv, OneWriter, Stage
<1>4. ASSUME NEW v \in Boots \ {w}, NEW q \in Process, q = proc[v] PROVE Right(q)'
  <2>1. Right(q)
    BY <1>4 DEF BootIInv
  <2>2. starts \in Nat /\ starts' \in Nat /\ starts' >= starts
    BY Numbers DEF BootIInv, BootTyped
  <2>3. \A k \in KeyFiles : Agrees(q, k)'
    BY <2>1, AgreesKept DEF Right
  <2>4. Busy(q)'
    BY <2>1, <2>2, BusyKept DEF Right
  <2>5. Through(q)'
    BY <2>1, ThroughKept DEF Right
  <2>6. QED
    BY <2>3, <2>4, <2>5 DEF Right
<1>5. \A v \in Boots : proc[v] \in Process
  BY DEF BootIInv, BootTyped
<1>6. ASSUME NEW v \in Boots PROVE Right(proc[v])'
  <2>1. CASE v = w
    BY <2>1, <1>2
  <2>2. CASE v # w
    <3>1. PICK q \in Process : q = proc[v]
      BY <1>5
    <3>2. q = proc'[v] /\ Right(q)'
      BY <3>1, <2>2, <1>2, <1>4
    <3>3. QED
      BY <3>2
  <2>3. QED
    BY <2>1, <2>2
<1>7. QED
  BY <1>1, <1>3, <1>6 DEF BootIInv

\* A process that goes away leaves nothing to say.
LEMMA Leaves ==
  ASSUME BootIInv, UNCHANGED stays, NEW w \in Boots,
         NEW p, p = Off \/ p = [Off EXCEPT !.step = "refused"],
         proc' = [proc EXCEPT ![w] = p]
  PROVE  BootIInv'
<1>1. p \in Process /\ p.at = 0 /\ p.start = 0 /\ p.step \in {"look", "refused"}
  BY OffTyped
<1>2. \A k \in KeyFiles : p.keys[k] = NoKey
  BY OffTyped
<1>3. Right(p)'
  <2>1. \A k \in KeyFiles : ~Held(p, k)
    BY <1>2 DEF Held
  <2>2. (\A k \in KeyFiles : Agrees(p, k))'
    BY <2>1 DEF Agrees, Held
  <2>3. Busy(p)'
    BY <1>1 DEF Busy
  <2>4. Through(p)'
    BY <1>1 DEF Through
  <2>5. QED
    BY <2>2, <2>3, <2>4 DEF Right
<1>4. starts' \in starts .. MaxStarts
  BY Numbers DEF BootIInv, BootTyped, stays
<1>5. QED
  BY <1>1, <1>3, <1>4, ProcessMoves DEF stays

LEMMA Refusal ==
  ASSUME BootIInv, NEW w \in Boots, Refuse(w), UNCHANGED stays
  PROVE  BootIInv'
BY Leaves DEF Refuse

\* A process whose new value is right in the state it steps from.
LEMMA StepsRight ==
  ASSUME BootIInv, UNCHANGED stays, NEW w \in Boots, NEW p \in Process, Right(p),
         p.step # "write", proc' = [proc EXCEPT ![w] = p]
  PROVE  BootIInv'
<1>1. starts \in Nat /\ starts' = starts /\ starts' \in starts .. MaxStarts
  BY Numbers DEF BootIInv, BootTyped, stays
<1>2. deployment' = deployment /\ today' = today /\ disk' = disk
  BY DEF stays
<1>3. \A k \in KeyFiles : Agrees(p, k)'
  BY <1>2, AgreesKept DEF Right
<1>4. Busy(p)'
  BY <1>1, <1>2, BusyKept DEF Right
<1>5. Through(p)'
  BY <1>2, ThroughKept DEF Right
<1>6. Right(p)'
  BY <1>3, <1>4, <1>5 DEF Right
<1>7. QED
  BY <1>1, <1>2, <1>6, ProcessMoves

\* A process that goes one stage on.
LEMMA Advances ==
  ASSUME BootIInv, UNCHANGED stays, NEW w \in Boots, NEW p \in Process,
         proc' = [proc EXCEPT ![w] = p], proc[w].at > 0,
         p.at = proc[w].at + 1, p.step = "look", p.start = proc[w].start,
         \A k \in KeyFiles : Agrees(p, k), Through(p)
  PROVE  BootIInv'
<1>1. Busy(proc[w]) /\ proc[w] \in Process
  BY DEF BootIInv, BootTyped, Right
<1>2. Busy(p)
  BY <1>1 DEF Busy, Process
<1>3. QED
  BY <1>2, StepsRight DEF Right

\* What a step from one stage to the next leaves alone, and what it must
\* establish: the conclusion of the stage it leaves.
Keeps(q, p) ==
  /\ p.at = q.at + 1
  /\ q.at > 1 => p.licence = q.licence
  /\ q.built \subseteq p.built
  /\ \A k \in KeyFiles : Held(q, k) => Held(p, k)
  /\ \A k \in KeyFiles : q.keys[k] # NoKey => p.keys[k] # NoKey

Concludes(q, p) ==
  /\ q.at = 1 => Admitted(p)
  /\ q.at = 2 => Held(p, "worm")
  /\ q.at = 5 /\ On("pseudonymize") => Held(p, "pseudonym")
  /\ q.at = 8 /\ On("encrypt") => Held(p, "content")
  /\ q.at = 9 => /\ On("pdp") => "pdp" \in p.built
                 /\ ~Sandbox /\ Given("webhook url") => "webhook" \in p.built
  /\ q.at = 10 /\ Beacon => p.keys["install id"] # NoKey
  /\ q.at = 11 /\ Beacon => p.keys["telemetry secret"] # NoKey
  /\ q.at = 12 => /\ On("respond") => "playbook" \in p.built
                  /\ Beacon => "beacon" \in p.built /\ \A k \in Texts : Held(p, k)
  /\ q.at = 14 => Durably

LEMMA Carries ==
  ASSUME NEW q \in Process, NEW p \in Process, Through(q), Keeps(q, p), Concludes(q, p)
  PROVE  Through(p)
<1>1. q.at \in Int /\ p.at \in Int /\ p.at = q.at + 1
  BY LastStage DEF Process, Keeps
<1>2. \A n \in Int : p.at > n <=> q.at > n \/ q.at = n
  BY <1>1
<1>3. /\ "worm" \in KeyFiles /\ "pseudonym" \in KeyFiles /\ "content" \in KeyFiles
      /\ "install id" \in KeyFiles /\ "telemetry secret" \in KeyFiles
      /\ Texts \subseteq KeyFiles
  BY DEF KeyFiles, ByteKeys, Texts
<1>4. /\ p.at > 1 <=> q.at > 1 \/ q.at = 1
      /\ p.at > 2 <=> q.at > 2 \/ q.at = 2
      /\ p.at > 5 <=> q.at > 5 \/ q.at = 5
      /\ p.at > 8 <=> q.at > 8 \/ q.at = 8
      /\ p.at > 9 <=> q.at > 9 \/ q.at = 9
      /\ p.at > 10 <=> q.at > 10 \/ q.at = 10
      /\ p.at > 11 <=> q.at > 11 \/ q.at = 11
      /\ p.at > 12 <=> q.at > 12 \/ q.at = 12
      /\ p.at > 14 <=> q.at > 14 \/ q.at = 14
  BY <1>1
<1>5. p.at > 1 => Admitted(p)
  <2>1. q.at > 1 => Admitted(q) /\ p.licence = q.licence
    BY Zenon DEF Through, Keeps
  <2>2. p.licence = q.licence /\ Admitted(q) => Admitted(p)
    BY Zenon DEF Admitted
  <2>3. q.at = 1 => Admitted(p)
    BY Zenon DEF Concludes
  <2>4. QED
    BY <1>4, <2>1, <2>2, <2>3, Zenon
<1>6. /\ p.at > 2 => Held(p, "worm")
      /\ p.at > 5 /\ On("pseudonymize") => Held(p, "pseudonym")
      /\ p.at > 8 /\ On("encrypt") => Held(p, "content")
  BY <1>3, <1>4, Zenon DEF Through, Keeps, Concludes
<1>7. p.at > 9 => /\ On("pdp") => "pdp" \in p.built
                  /\ ~Sandbox /\ Given("webhook url") => "webhook" \in p.built
  BY <1>4, Zenon DEF Through, Keeps, Concludes
<1>8. /\ p.at > 10 /\ Beacon => p.keys["install id"] # NoKey
      /\ p.at > 11 /\ Beacon => p.keys["telemetry secret"] # NoKey
  BY <1>3, <1>4, Zenon DEF Through, Keeps, Concludes
<1>9. p.at > 12 => /\ On("respond") => "playbook" \in p.built
                   /\ Beacon => "beacon" \in p.built /\ \A k \in Texts : Held(p, k)
  BY <1>3, <1>4, Zenon DEF Through, Keeps, Concludes
<1>10. p.at > 14 => Durably
  BY <1>4, Zenon DEF Through, Concludes
<1>11. QED
  BY <1>5, <1>6, <1>7, <1>8, <1>9, <1>10, Zenon DEF Through

\* A process as the invariant describes it.
LEMMA Here ==
  ASSUME BootIInv, NEW w \in Boots, NEW q, q = proc[w]
  PROVE  /\ q \in Process /\ Busy(q) /\ Through(q) /\ \A k \in KeyFiles : Agrees(q, k)
         /\ Stage(w) = StageOf(q) /\ q.at \in 0 .. 15
BY LastStage DEF BootIInv, BootTyped, Right, Stage, StageOf, Process

\* A step that keeps the keys.
LEMMA GoesOn ==
  ASSUME BootIInv, UNCHANGED stays, NEW w \in Boots, NEW q, q = proc[w],
         q.at \in 1 .. 14, StageOf(q) \notin KeyFiles \/ q.step = "look",
         NEW lic \in SUBSET Verified, NEW parts \in SUBSET Part,
         proc' = [proc EXCEPT ![w] =
                    [q EXCEPT !.at = @ + 1, !.licence = lic, !.built = @ \cup parts]],
         q.at > 1 => lic = q.licence,
         NEW p, p = [q EXCEPT !.at = @ + 1, !.licence = lic, !.built = @ \cup parts],
         Concludes(q, p)
  PROVE  BootIInv'
<1>1. q \in Process /\ Busy(q) /\ Through(q) /\ \A k \in KeyFiles : Agrees(q, k)
  BY Here
<1>2. /\ p.at = q.at + 1 /\ p.step = q.step /\ p.start = q.start /\ p.keys = q.keys
      /\ p.licence = lic /\ p.built = q.built \cup parts
  BY <1>1 DEF Process
<1>3. p \in Process
  <2>1. q.at + 1 \in 0 .. Ready
    BY LastStage
  <2>2. q.built \cup parts \in SUBSET Part
    BY <1>1 DEF Process
  <2>3. QED
    BY <1>1, <2>1, <2>2 DEF Process
<1>4. p.step = "look"
  BY <1>1, <1>2 DEF Busy, Process
<1>5. Keeps(q, p)
  BY <1>2 DEF Keeps, Held
<1>6. Through(p)
  BY <1>1, <1>3, <1>5, Carries
<1>7. \A k \in KeyFiles : Agrees(p, k)
  BY <1>1, <1>2 DEF Agrees, Held
<1>8. /\ proc' = [proc EXCEPT ![w] = p] /\ proc[w].at > 0
      /\ p.at = proc[w].at + 1 /\ p.start = proc[w].start
  BY <1>2
<1>9. QED
  BY <1>3, <1>4, <1>6, <1>7, <1>8, Advances

LEMMA NotAKey ==
  /\ "gates" \notin KeyFiles /\ "webhook" \notin KeyFiles /\ "features" \notin KeyFiles
  /\ "daemons" \notin KeyFiles /\ "posture" \notin KeyFiles /\ "none" \notin KeyFiles
BY DEF KeyFiles, ByteKeys, Texts

\* A gate that opens says what the stage concludes.
LEMMA GatePassed ==
  ASSUME BootIInv, UNCHANGED stays, NEW w \in Boots, NEW sound, Gate(w, sound),
         proc[w].at \in 1 .. 14, Stage(w) \notin KeyFiles \/ proc[w].step = "look",
         sound => /\ proc[w].at \notin {1, 2, 5, 8, 9, 10, 11, 12}
                  /\ proc[w].at = 14 => Durably
  PROVE  BootIInv'
<1>1. CASE ~sound
  BY <1>1, Refusal DEF Gate
<1>2. CASE sound
  <2>1. PICK q : q = proc[w]
    OBVIOUS
  <2>2. q \in Process /\ Stage(w) = StageOf(q)
    BY <2>1, Here
  <2>3. PICK p : p = [q EXCEPT !.at = @ + 1, !.licence = q.licence, !.built = @ \cup {}]
    OBVIOUS
  <2>4. p = [proc[w] EXCEPT !.at = @ + 1]
    BY <2>1, <2>2, <2>3 DEF Process
  <2>5. proc' = [proc EXCEPT ![w] = p]
    BY <1>2, <2>4 DEF Gate, Go
  <2>6. Concludes(q, p)
    BY <1>2, <2>1, Zenon DEF Concludes
  <2>7. q.licence \in SUBSET Verified
    BY <2>2 DEF Process
  <2>8. QED
    BY <2>1, <2>2, <2>3, <2>5, <2>6, <2>7, GoesOn
<1>3. QED
  BY <1>1, <1>2

LEMMA WebhookStep ==
  ASSUME BootIInv, NEW w \in Boots, LoadWebhookSecret(w)
  PROVE  BootIInv'
<1>1. PICK q : q = proc[w]
  OBVIOUS
<1>2. q.at = 6
  BY <1>1, Here, StageNumbers, LastStage DEF LoadWebhookSecret
<1>3. Stage(w) \notin KeyFiles
  BY NotAKey DEF LoadWebhookSecret
<1>4. PICK sound : (sound <=> "webhook secret" \notin deployment.bad) /\ Gate(w, sound)
  BY Zenon DEF LoadWebhookSecret
<1>5. UNCHANGED stays /\ proc[w].at = 6
  BY <1>1, <1>2 DEF LoadWebhookSecret
<1>6. /\ proc[w].at \notin {1, 2, 5, 8, 9, 10, 11, 12} /\ proc[w].at # 14
      /\ proc[w].at \in 1 .. 14
  BY <1>5
<1>7. QED
  BY <1>3, <1>4, <1>5, <1>6, GatePassed

LEMMA PostureStep ==
  ASSUME BootIInv, NEW w \in Boots, CheckPosture(w)
  PROVE  BootIInv'
<1>1. PICK q : q = proc[w]
  OBVIOUS
<1>2. q.at = 14
  BY <1>1, Here, StageNumbers, LastStage DEF CheckPosture
<1>3. Stage(w) \notin KeyFiles
  BY NotAKey DEF CheckPosture
<1>4. PICK reached \in BOOLEAN : Gate(w, Sandbox \/ (reached /\ deployment.durable))
  BY Zenon DEF CheckPosture
<1>5. Sandbox \/ (reached /\ deployment.durable) => Durably
  BY Zenon DEF Durably
<1>6. PICK sound : sound <=> (Sandbox \/ (reached /\ deployment.durable))
  BY Zenon
<1>7. Gate(w, sound)
  BY <1>4, <1>6, Zenon DEF Gate
<1>8. UNCHANGED stays
  BY DEF CheckPosture
<1>9. (sound => Durably) /\ proc[w].at = 14
  BY <1>1, <1>2, <1>5, <1>6, Zenon
<1>10. QED
  BY <1>3, <1>7, <1>8, <1>9, GatePassed

LEMMA OneDeployment ==
  ASSUME BootIInv
  PROVE  /\ deployment \in Deployment /\ deployment.licence \in Licences
         /\ deployment.licence.issued \in Nat
BY BootAssumption DEF BootIInv, BootTyped, Deployment

\* The gates: what _enforce_boot_integrity and _enforce_license_gate let through.
LEMMA GatesAdmit ==
  ASSUME BootIInv, BootIntegrity, LicenceGate, NEW p, p.licence = OnFile
  PROVE  Admitted(p)
<1>1. Sandbox \/ Given("license")
  BY Zenon DEF LicenceGate, Together
<1>2. Given("license") => p.licence # {}
  BY DEF OnFile
<1>3. \/ deployment.altered \cap Scope = {} /\ Scope \subseteq deployment.listed
      \/ Sandbox /\ (On("bypass") \/ ~Given("manifest"))
  <2>1. CASE On("bypass")
    BY <2>1, Zenon DEF BootIntegrity
  <2>2. CASE ~On("bypass") /\ Given("manifest")
    <3>1. CodeMatches
      BY <2>2, Zenon DEF BootIntegrity
    <3>2. deployment.altered \cap Scope = {} /\ Scope \subseteq deployment.listed
      BY <3>1 DEF CodeMatches
    <3>3. QED
      BY <3>2
  <2>3. CASE ~On("bypass") /\ ~Given("manifest")
    BY <2>3, Zenon DEF BootIntegrity, Together
  <2>4. QED
    BY <2>1, <2>2, <2>3, Zenon
<1>4. Given("license") => /\ deployment.licence.genuine
                          /\ deployment.licence.issued <= today
                          /\ today < deployment.licence.expires
  BY Zenon DEF LicenceGate, InForce
<1>5. deployment.licence.issued >= deployment.licence.issued
  BY OneDeployment
<1>6. \A v \in p.licence : v.doc = deployment.licence /\ v.day = today /\ Given("license")
  BY DEF OnFile
<1>7. \A v \in p.licence : Entitles(v)
  BY <1>4, <1>5, <1>6, Zenon DEF Entitles
<1>8. QED
  BY <1>1, <1>2, <1>3, <1>7, Zenon DEF Admitted

LEMMA GatesStep ==
  ASSUME BootIInv, NEW w \in Boots, PassGates(w)
  PROVE  BootIInv'
<1>1. PICK q : q = proc[w]
  OBVIOUS
<1>2. q \in Process /\ q.at = 1 /\ StageOf(q) \notin KeyFiles
  BY <1>1, Here, StageNumbers, NotAKey, LastStage DEF PassGates
<1>3. UNCHANGED stays
  BY DEF PassGates
<1>4. CASE Refuse(w)
  BY <1>3, <1>4, Refusal
<1>5. CASE /\ BootIntegrity /\ LicenceGate
           /\ proc' = [proc EXCEPT ![w].at = @ + 1, ![w].licence = OnFile]
  <2>1. PICK p : p = [q EXCEPT !.at = @ + 1, !.licence = OnFile, !.built = @ \cup {}]
    OBVIOUS
  <2>2. p.licence = OnFile
    BY <1>2, <2>1 DEF Process
  <2>3. Admitted(p)
    BY <1>5, <2>2, GatesAdmit
  <2>4. Concludes(q, p)
    BY <1>2, <2>3 DEF Concludes
  <2>5. OnFile \in SUBSET Verified
    BY OneDeployment DEF OnFile, Verified, BootIInv, BootTyped
  <2>6. proc' = [proc EXCEPT ![w] =
                   [q EXCEPT !.at = @ + 1, !.licence = OnFile, !.built = @ \cup {}]]
    <3>1. [q EXCEPT !.at = @ + 1, !.licence = OnFile] = p
      BY <1>2, <2>1 DEF Process
    <3>2. proc \in [Boots -> Process]
      BY DEF BootIInv, BootTyped
    <3>3. proc' = [proc EXCEPT ![w] = [q EXCEPT !.at = @ + 1, !.licence = OnFile]]
      BY <1>1, <1>2, <1>5, <3>2 DEF Process
    <3>4. QED
      BY <2>1, <3>1, <3>3
  <2>7. q.at \in 1 .. 14 /\ ~(q.at > 1)
    BY <1>2
  <2>8. QED
    BY <1>1, <1>2, <1>3, <2>1, <2>4, <2>5, <2>6, <2>7, GoesOn
<1>6. QED
  BY <1>4, <1>5, Zenon DEF PassGates

LEMMA FeaturesStep ==
  ASSUME BootIInv, NEW w \in Boots, BuildFeatures(w)
  PROVE  BootIInv'
<1>1. PICK q : q = proc[w]
  OBVIOUS
<1>2. q \in Process /\ q.at = 9 /\ StageOf(q) \notin KeyFiles
  BY <1>1, Here, StageNumbers, NotAKey, LastStage DEF BuildFeatures
<1>3. UNCHANGED stays
  BY DEF BuildFeatures
<1> DEFINE new == {part \in {"webhook", "pdp"} :
                     \/ part = "webhook" /\ ~Sandbox /\ Given("webhook url")
                     \/ part = "pdp" /\ On("pdp")}
<1>4. CASE Refuse(w)
  BY <1>3, <1>4, Refusal
<1>5. CASE GoWith(w, new)
  <2>1. PICK p : p = [q EXCEPT !.at = @ + 1, !.licence = q.licence, !.built = @ \cup new]
    OBVIOUS
  <2>2. p.built = q.built \cup new
    BY <1>2, <2>1 DEF Process
  <2>3. On("pdp") => "pdp" \in p.built
    BY <2>2
  <2>4. ~Sandbox /\ Given("webhook url") => "webhook" \in p.built
    BY <2>2
  <2>5. Concludes(q, p)
    <3>1. /\ q.at # 1 /\ q.at # 2 /\ q.at # 5 /\ q.at # 8 /\ q.at # 10 /\ q.at # 11
          /\ q.at # 12 /\ q.at # 14
      BY <1>2
    <3>2. QED
      BY <3>1, <2>3, <2>4, Zenon DEF Concludes
  <2>6. new \in SUBSET Part /\ q.licence \in SUBSET Verified
    BY <1>2 DEF Part, Process
  <2>7. proc' = [proc EXCEPT ![w] =
                   [q EXCEPT !.at = @ + 1, !.licence = q.licence, !.built = @ \cup new]]
    <3> HIDE DEF new
    <3> QED
      BY <1>1, <1>2, <1>5 DEF GoWith, Process, BootIInv, BootTyped
  <2> HIDE DEF new
  <2>8. q.at \in 1 .. 14
    BY <1>2
  <2>9. QED
    BY <1>1, <1>2, <1>3, <2>1, <2>5, <2>6, <2>7, <2>8, GoesOn
<1>6. QED
  BY <1>4, <1>5, Zenon DEF BuildFeatures

LEMMA DaemonsStep ==
  ASSUME BootIInv, NEW w \in Boots, BuildDaemons(w)
  PROVE  BootIInv'
<1>1. PICK q : q = proc[w]
  OBVIOUS
<1>2. q \in Process /\ q.at = 12 /\ StageOf(q) \notin KeyFiles
  BY <1>1, Here, StageNumbers, NotAKey, LastStage DEF BuildDaemons
<1>3. UNCHANGED stays
  BY DEF BuildDaemons
<1> DEFINE new == {part \in {"beacon", "refresher", "playbook"} :
                     \/ part = "beacon" /\ Beacon
                     \/ part = "refresher" /\ Given("refresh url") /\ proc[w].licence # {}
                     \/ part = "playbook" /\ On("respond")}
<1>4. CASE Refuse(w)
  BY <1>3, <1>4, Refusal
<1>5. CASE GoWith(w, new) /\ \A k \in Texts : proc[w].keys[k] # Empty
  <2>1. PICK p : p = [q EXCEPT !.at = @ + 1, !.licence = q.licence, !.built = @ \cup new]
    OBVIOUS
  <2>2. p.built = q.built \cup new /\ p.keys = q.keys
    BY <1>2, <2>1 DEF Process
  <2>3. On("respond") => "playbook" \in p.built
    BY <2>2
  <2>4. Beacon => "beacon" \in p.built
    BY <2>2
  <2>5. Beacon => \A k \in Texts : Held(p, k)
    <3>1. Through(q) /\ q.at > 10 /\ q.at > 11
      BY <1>1, <1>2, Here
    <3>2. Beacon => q.keys["install id"] # NoKey /\ q.keys["telemetry secret"] # NoKey
      BY <3>1, Zenon DEF Through
    <3>3. QED
      BY <1>1, <1>5, <2>2, <3>2 DEF Held, Texts
  <2>6. Concludes(q, p)
    BY <1>2, <2>3, <2>4, <2>5 DEF Concludes
  <2>7. new \in SUBSET Part /\ q.licence \in SUBSET Verified
    BY <1>2 DEF Part, Process
  <2>8. proc' = [proc EXCEPT ![w] =
                   [q EXCEPT !.at = @ + 1, !.licence = q.licence, !.built = @ \cup new]]
    <3> HIDE DEF new
    <3> QED
      BY <1>1, <1>2, <1>5 DEF GoWith, Process, BootIInv, BootTyped
  <2> HIDE DEF new
  <2>9. q.at \in 1 .. 14
    BY <1>2
  <2>10. QED
    BY <1>1, <1>2, <1>3, <2>1, <2>6, <2>7, <2>8, <2>9, GoesOn
<1>6. QED
  BY <1>4, <1>5, Zenon DEF BuildDaemons

---------------------------------------------------------------------------
(* The key files *)

LEMMA StageNames ==
  ASSUME NEW p, p.at \in 0 .. Ready, StageOf(p) \in KeyFiles
  PROVE  /\ p.at # 1 /\ p.at # 9 /\ p.at # 12 /\ p.at # 14
         /\ p.at = 2 => StageOf(p) = "worm"
         /\ p.at = 5 => StageOf(p) = "pseudonym"
         /\ p.at = 8 => StageOf(p) = "content"
         /\ p.at = 10 => StageOf(p) = "install id"
         /\ p.at = 11 => StageOf(p) = "telemetry secret"
<1>1. StageOf(p) # "gates" /\ StageOf(p) # "features" /\ StageOf(p) # "daemons"
      /\ StageOf(p) # "posture"
  BY NotAKey
<1>2. QED
  BY <1>1, StageTable, Zenon

Taking(q, k, v) == [q EXCEPT !.at = @ + 1, !.step = "look", !.keys[k] = v]

Took(q, k, v, p) ==
  /\ p \in Process /\ Through(p)
  /\ p.at = q.at + 1 /\ p.step = "look" /\ p.start = q.start
  /\ p.keys[k] = v /\ \A j \in KeyFiles \ {k} : p.keys[j] = q.keys[j]

\* A process that has read or drawn the key of its stage.
LEMMA TakesKey ==
  ASSUME NEW q \in Process, Through(q), NEW k \in KeyFiles, k = StageOf(q),
         NEW v \in Empty .. Configured, v = Empty => k \in Texts /\ ~Held(q, k),
         NEW p, p = Taking(q, k, v)
  PROVE  Took(q, k, v, p)
<1>1. q.at \in {2, 3, 4, 5, 7, 8, 10, 11, 13} /\ q.at \in 0 .. Ready
  BY StageNumbers DEF Process
<1>2. q.keys \in [KeyFiles -> Missing .. Configured] /\ v \in Missing .. Configured
  BY Numbers DEF Process
<1>3. /\ p.at = q.at + 1 /\ p.step = "look" /\ p.start = q.start /\ p.licence = q.licence
      /\ p.built = q.built /\ p.keys = [q.keys EXCEPT ![k] = v]
  BY DEF Process, Taking
<1>4. p.keys[k] = v /\ \A j \in KeyFiles \ {k} : p.keys[j] = q.keys[j]
  BY <1>2, <1>3
<1>5. p \in Process
  <2>1. p.keys \in [KeyFiles -> Missing .. Configured]
    BY <1>2, <1>3
  <2>2. q.at + 1 \in 0 .. Ready
    BY <1>1, LastStage
  <2>3. p = [q EXCEPT !.at = q.at + 1, !.step = "look", !.keys = p.keys]
    BY <1>2, <1>3 DEF Process, Taking
  <2>4. QED
    BY <2>1, <2>2, <2>3 DEF Process
<1>6. v # NoKey /\ (k \notin Texts => v # Empty)
  BY Numbers
<1>7. Keeps(q, p)
  <2>1. \A j \in KeyFiles : Held(q, j) => Held(p, j)
    BY <1>4, <1>6 DEF Held
  <2>2. \A j \in KeyFiles : q.keys[j] # NoKey => p.keys[j] # NoKey
    BY <1>4, <1>6
  <2>3. QED
    BY <1>3, <2>1, <2>2 DEF Keeps
<1>8. Concludes(q, p)
  <2>1. /\ q.at # 1 /\ q.at # 9 /\ q.at # 12 /\ q.at # 14 /\ (q.at = 2 => k = "worm")
        /\ (q.at = 5 => k = "pseudonym") /\ (q.at = 8 => k = "content")
        /\ (q.at = 10 => k = "install id") /\ (q.at = 11 => k = "telemetry secret")
    BY <1>1, StageNames
  <2>2. k \in {"worm", "pseudonym", "content"} => Held(p, k)
    BY <1>4, <1>6 DEF Held, Texts
  <2>3. p.keys[k] # NoKey
    BY <1>4, <1>6
  <2>4. /\ q.at # 1 /\ q.at # 9 /\ q.at # 12 /\ q.at # 14
        /\ (k = "worm" \/ k = "pseudonym" \/ k = "content") => Held(p, k)
    BY <2>1, <2>2
  <2>5. QED
    BY <2>1, <2>3, <2>4, Zenon DEF Concludes
<1>9. Through(p)
  BY <1>5, <1>7, <1>8, Carries
<1>10. QED
  BY <1>3, <1>4, <1>5, <1>9 DEF Took

\* GoHolding with what the file says.
LEMMA HoldsStep ==
  ASSUME BootIInv, UNCHANGED stays, NEW w \in Boots, NEW k \in KeyFiles, k = Stage(w),
         NEW v, GoHolding(w, k, v), v = IF Given(k) THEN Configured ELSE disk[k],
         v # Missing, v # Empty \/ k \in Texts
  PROVE  BootIInv'
<1>1. PICK q : q = proc[w]
  OBVIOUS
<1>2. /\ q \in Process /\ Through(q) /\ k = StageOf(q) /\ q.at \in 0 .. 15
      /\ \A j \in KeyFiles : Agrees(q, j)
  BY <1>1, Here
<1>3. disk[k] \in Missing .. MaxStarts
  BY DEF BootIInv, BootTyped
<1>4. v \in Empty .. Configured
  BY <1>3, Numbers
<1>5. v = Empty => k \in Texts /\ ~Held(q, k)
  <2>1. Held(q, k) => q.keys[k] = v
    BY <1>2 DEF Agrees
  <2>2. QED
    BY <2>1 DEF Held
<1>6. PICK p : p = Taking(q, k, v)
  OBVIOUS
<1>7. /\ p \in Process /\ Through(p)
      /\ p.at = q.at + 1 /\ p.step = "look" /\ p.start = q.start
      /\ p.keys[k] = v /\ \A j \in KeyFiles \ {k} : p.keys[j] = q.keys[j]
  <2>1. q \in Process /\ Through(q) /\ k = StageOf(q)
    BY <1>2
  <2>2. Took(q, k, v, p)
    BY <2>1, <1>4, <1>5, <1>6, TakesKey
  <2>3. QED
    BY <2>2 DEF Took
<1>8. \A j \in KeyFiles : Agrees(p, j)
  BY <1>2, <1>7 DEF Agrees, Held
<1>9. proc' = [proc EXCEPT ![w] = p]
  <2>1. proc \in [Boots -> Process]
    BY DEF BootIInv, BootTyped
  <2>2. QED
    BY <1>1, <1>6, <2>1 DEF GoHolding, Taking, Process
<1>10. q.at > 0
  <2>1. q.at # 0
    BY <1>2, StageTable, NotAKey, Zenon
  <2>2. QED
    BY <1>2, <2>1
<1>11. QED
  BY <1>1, <1>7, <1>8, <1>9, <1>10, Advances

\* ReadKey; the file is there.
LEMMA ReadStep ==
  ASSUME BootIInv, UNCHANGED stays, NEW w \in Boots, NEW k \in KeyFiles, k = Stage(w),
         ReadKey(w, k), ~Given(k), disk[k] # Missing
  PROVE  BootIInv'
<1>1. CASE disk[k] = Empty /\ k \in ByteKeys
  BY <1>1, Refusal DEF ReadKey
<1>2. CASE ~(disk[k] = Empty /\ k \in ByteKeys)
  <2>1. PICK v : v = disk[k]
    OBVIOUS
  <2>2. GoHolding(w, k, v)
    BY <1>2, <2>1 DEF ReadKey
  <2>3. v = (IF Given(k) THEN Configured ELSE disk[k]) /\ v # Missing
    BY <2>1
  <2>4. v # Empty \/ k \in Texts
    BY <1>2, <2>1 DEF KeyFiles
  <2>5. QED
    BY <2>2, <2>3, <2>4, HoldsStep
<1>3. QED
  BY <1>1, <1>2

\* A stage that has nothing to do: the feature of the key is off, or, in
\* production, absent when nothing was configured.
LEMMA SkipStep ==
  ASSUME BootIInv, UNCHANGED stays, NEW w \in Boots, NEW k \in KeyFiles, k = Stage(w),
         proc[w].step = "look", Go(w), ~Wanted(k) \/ k \in MayBeAbsent
  PROVE  BootIInv'
<1>1. PICK q : q = proc[w]
  OBVIOUS
<1>2. q \in Process /\ k = StageOf(q) /\ q.at \in 0 .. Ready
  BY <1>1, Here, LastStage
<1>3. PICK p : p = [q EXCEPT !.at = @ + 1, !.licence = q.licence, !.built = @ \cup {}]
  OBVIOUS
<1>4. p = [proc[w] EXCEPT !.at = @ + 1]
  BY <1>1, <1>2, <1>3 DEF Process
<1>5. proc' = [proc EXCEPT ![w] = p]
  BY <1>4 DEF Go
<1>6. Concludes(q, p)
  <2>1. /\ q.at # 1 /\ q.at # 9 /\ q.at # 12 /\ q.at # 14
        /\ (q.at = 2 => k = "worm") /\ (q.at = 5 => k = "pseudonym")
        /\ (q.at = 8 => k = "content") /\ (q.at = 10 => k = "install id")
        /\ (q.at = 11 => k = "telemetry secret")
    BY <1>2, StageNames
  <2>2. CASE k \in MayBeAbsent
    <3>1. /\ k # "worm" /\ k # "pseudonym" /\ k # "content" /\ k # "install id"
          /\ k # "telemetry secret"
      BY <2>2 DEF MayBeAbsent
    <3>2. QED
      BY <2>1, <3>1, Zenon DEF Concludes
  <2>3. CASE ~Wanted(k)
    <3>1. /\ k # "worm" /\ (k = "pseudonym" => ~On("pseudonymize"))
          /\ (k = "content" => ~On("encrypt")) /\ (k = "install id" => ~Beacon)
          /\ (k = "telemetry secret" => ~Beacon)
      BY <2>3 DEF Wanted, Texts
    <3>2. QED
      BY <2>1, <3>1, Zenon DEF Concludes
  <2>4. QED
    BY <2>2, <2>3
<1>7. q.licence \in SUBSET Verified /\ {} \in SUBSET Part
  BY <1>2 DEF Process
<1>8. q.at \in 1 .. 14
  <2>1. StageOf(q) # "none"
    BY <1>2, NotAKey
  <2>2. QED
    BY <1>2, <2>1, StageNumbers
<1>9. q.step = "look"
  BY <1>1
<1>10. QED
  BY <1>1, <1>3, <1>5, <1>6, <1>7, <1>8, <1>9, GoesOn

LEMMA SameThrough ==
  ASSUME NEW q, NEW p, Through(q), p.at = q.at, p.keys = q.keys, p.licence = q.licence,
         p.built = q.built
  PROVE  Through(p)
<1>1. Admitted(q) => Admitted(p)
  BY Zenon DEF Admitted
<1>2. \A k \in KeyFiles \cup Texts : Held(q, k) <=> Held(p, k)
  BY Zenon DEF Held
<1>3. Texts \subseteq KeyFiles /\ {"worm", "pseudonym", "content"} \subseteq KeyFiles
  BY DEF KeyFiles, ByteKeys, Texts
<1>4. /\ Held(q, "worm") => Held(p, "worm")
      /\ Held(q, "pseudonym") => Held(p, "pseudonym")
      /\ Held(q, "content") => Held(p, "content")
      /\ \A k \in Texts : Held(q, k) => Held(p, k)
  BY <1>2, <1>3
<1>5. /\ p.at > 1 => Admitted(p)
      /\ p.at > 14 => Durably
  BY <1>1, Zenon DEF Through
<1>6. /\ p.at > 2 => Held(p, "worm")
      /\ p.at > 5 /\ On("pseudonymize") => Held(p, "pseudonym")
      /\ p.at > 8 /\ On("encrypt") => Held(p, "content")
  BY <1>4, Zenon DEF Through
<1>7. p.at > 9 => /\ On("pdp") => "pdp" \in p.built
                  /\ ~Sandbox /\ Given("webhook url") => "webhook" \in p.built
  BY Zenon DEF Through
<1>8. /\ p.at > 10 /\ Beacon => p.keys["install id"] # NoKey
      /\ p.at > 11 /\ Beacon => p.keys["telemetry secret"] # NoKey
  BY Zenon DEF Through
<1>9. p.at > 12 => /\ On("respond") => "playbook" \in p.built
                   /\ Beacon => "beacon" \in p.built /\ \A k \in Texts : Held(p, k)
  BY <1>4, Zenon DEF Through
<1>10. QED
  BY <1>5, <1>6, <1>7, <1>8, <1>9, Zenon DEF Through

LEMMA LookStep ==
  ASSUME BootIInv, NEW w \in Boots, LookForKey(w)
  PROVE  BootIInv'
<1>1. PICK q : q = proc[w]
  OBVIOUS
<1>2. PICK k : k = Stage(w)
  OBVIOUS
<1>3. /\ k \in KeyFiles /\ proc[w].step = "look" /\ UNCHANGED stays
  BY <1>2 DEF LookForKey
<1>4. /\ q \in Process /\ Busy(q) /\ Through(q) /\ k = StageOf(q)
      /\ \A j \in KeyFiles : Agrees(q, j)
  BY <1>1, <1>2, Here
<1>5. CASE ~Wanted(k) /\ Go(w)
  BY <1>2, <1>3, <1>5, SkipStep
<1>6. CASE Refuse(w)
  BY <1>3, <1>6, Refusal
<1>7. CASE Given(k) /\ GoHolding(w, k, Configured)
  <2>1. Configured = (IF Given(k) THEN Configured ELSE disk[k]) /\ Configured # Missing
        /\ Configured # Empty
    BY <1>7, Numbers
  <2>2. QED
    BY <1>2, <1>3, <1>7, <2>1, HoldsStep
<1>8. CASE k \in MayBeAbsent /\ Go(w)
  BY <1>2, <1>3, <1>8, SkipStep
<1>9. CASE ~Given(k) /\ disk[k] = Missing /\ proc' = [proc EXCEPT ![w].step = "create"]
  <2>1. PICK p : p = [q EXCEPT !.step = "create"]
    OBVIOUS
  <2>2. /\ p \in Process /\ p.at = q.at /\ p.step = "create" /\ p.start = q.start
        /\ p.keys = q.keys /\ p.licence = q.licence /\ p.built = q.built
    BY <1>4, <2>1 DEF Process
  <2>3. \A j \in KeyFiles : Agrees(p, j)
    BY <1>4, <2>2 DEF Agrees, Held
  <2>4. StageOf(p) = k
    BY <1>4, <2>2 DEF StageOf
  <2>5. q.at # 0
    <3>1. StageOf(q) # "none"
      BY <1>3, <1>4, NotAKey
    <3>2. QED
      BY <3>1, StageTable
  <2>6. Busy(p)
    BY <1>3, <1>4, <1>9, <2>2, <2>4, <2>5 DEF Busy, Process
  <2>7. Through(p)
    BY <1>4, <2>2, SameThrough
  <2>8. proc' = [proc EXCEPT ![w] = p]
    BY <1>1, <1>9, <2>1
  <2>9. QED
    BY <1>3, <2>2, <2>3, <2>6, <2>7, <2>8, StepsRight DEF Right
<1>10. CASE ~Given(k) /\ disk[k] # Missing /\ ReadKey(w, k)
  BY <1>2, <1>3, <1>10, ReadStep
<1>11. QED
  BY <1>2, <1>5, <1>6, <1>7, <1>8, <1>9, <1>10, Zenon DEF LookForKey, Gate

LEMMA AtWork ==
  ASSUME NEW q \in Process, Busy(q), StageOf(q) \in KeyFiles
  PROVE  q.at # 0 /\ q.start \in 1 .. starts
<1>1. StageOf(q) # "none"
  BY NotAKey
<1>2. q.at # 0
  BY <1>1, StageTable, Zenon
<1>3. q.at > 0
  BY <1>2, LastStage DEF Process
<1>4. QED
  BY <1>2, <1>3 DEF Busy

\* A key file that is missing or empty may change under a process that is not
\* writing it: nothing it holds came from there.
LEMMA FileMayChange ==
  ASSUME BootIInv, deployment' = deployment, starts' = starts,
         NEW k \in KeyFiles, NEW d, disk' = [disk EXCEPT ![k] = d],
         disk[k] \in {Missing, Empty},
         NEW q \in Process, Right(q), ~(q.step = "write" /\ StageOf(q) = k)
  PROVE  Right(q)'
<1>1. disk \in [KeyFiles -> Missing .. MaxStarts] /\ starts \in Nat
  BY Numbers DEF BootIInv, BootTyped
<1>2. \A j \in KeyFiles \ {k} : disk'[j] = disk[j]
  BY <1>1
<1>3. ASSUME NEW j \in KeyFiles, Held(q, j) PROVE Given(j) \/ disk'[j] = disk[j]
  <2>1. Agrees(q, j)
    BY DEF Right
  <2>2. ~Given(j) => q.keys[j] = disk[j]
    BY <1>3, <2>1 DEF Agrees
  <2>3. ~Given(j) => j # k
    BY <1>3, <2>2 DEF Held, NoKey
  <2>4. QED
    BY <1>2, <2>3
<1>4. \A j \in KeyFiles : Agrees(q, j)'
  BY <1>3, AgreesKept DEF Right
<1>5. q.step = "write" => StageOf(q) \in KeyFiles \ {k}
  BY DEF Right, Busy
<1>6. Busy(q)'
  BY <1>1, <1>2, <1>5, BusyKept DEF Right
<1>7. Through(q)'
  BY ThroughKept DEF Right
<1>8. QED
  BY <1>4, <1>6, <1>7 DEF Right

\* A step of one process that also changes the key file of its stage.
LEMMA FileMoves ==
  ASSUME BootIInv, deployment' = deployment, today' = today, starts' = starts,
         NEW w \in Boots, NEW k \in KeyFiles,
         NEW d \in Missing .. MaxStarts, disk' = [disk EXCEPT ![k] = d],
         disk[k] \in {Missing, Empty},
         NEW p \in Process, proc' = [proc EXCEPT ![w] = p], Right(p)',
         p.step = "write" => StageOf(p) = k,
         \A v \in Boots \ {w} : ~(proc[v].step = "write" /\ Stage(v) = k)
  PROVE  BootIInv'
<1>1. BootTyped'
  BY DEF BootIInv, BootTyped
<1>2. proc'[w] = p /\ \A v \in Boots \ {w} : proc'[v] = proc[v]
  BY OthersStay DEF BootIInv
<1>3. ASSUME NEW u \in Boots, NEW v \in Boots, u # v PROVE
        (proc[u].step = "write" /\ proc[v].step = "write" => Stage(u) # Stage(v))'
  BY <1>2, <1>3 DEF BootIInv, OneWriter, Stage, StageOf
<1>4. OneWriter'
  BY <1>3 DEF OneWriter
<1>5. ASSUME NEW v \in Boots PROVE Right(proc[v])'
  <2>1. CASE v = w
    BY <2>1, <1>2
  <2>2. CASE v # w
    <3>1. PICK q : q = proc[v]
      OBVIOUS
    <3>2. q \in Process /\ Right(q) /\ Stage(v) = StageOf(q)
      BY <3>1, Here DEF BootIInv
    <3>3. ~(q.step = "write" /\ StageOf(q) = k)
      BY <2>2, <3>1, <3>2
    <3>4. Right(q)'
      BY <3>2, <3>3, FileMayChange
    <3>5. q = proc'[v]
      BY <2>2, <3>1, <1>2
    <3>6. QED
      BY <3>4, <3>5
  <2>3. QED
    BY <2>1, <2>2
<1>6. QED
  BY <1>1, <1>4, <1>5 DEF BootIInv

LEMMA CreateStep ==
  ASSUME BootIInv, NEW w \in Boots, CreateKey(w)
  PROVE  BootIInv'
<1>1. PICK q : q = proc[w]
  OBVIOUS
<1>2. PICK k : k = Stage(w)
  OBVIOUS
<1>3. /\ q \in Process /\ Busy(q) /\ Through(q) /\ k = StageOf(q)
      /\ \A j \in KeyFiles : Agrees(q, j)
  BY <1>1, <1>2, Here
<1>4. q.step = "create" /\ k \in KeyFiles /\ ~Given(k)
  BY <1>1, <1>3 DEF CreateKey, Busy
<1>5. deployment' = deployment /\ today' = today /\ starts' = starts
  BY DEF CreateKey
<1>6. CASE disk[k] = Missing
  <2>1. disk' = [disk EXCEPT ![k] = Empty] /\ proc' = [proc EXCEPT ![w].step = "write"]
    BY <1>2, <1>6 DEF CreateKey
  <2>2. PICK p : p = [q EXCEPT !.step = "write"]
    OBVIOUS
  <2>3. /\ p \in Process /\ p.at = q.at /\ p.step = "write" /\ p.start = q.start
        /\ p.keys = q.keys /\ p.licence = q.licence /\ p.built = q.built
    BY <1>3, <2>2 DEF Process
  <2>4. proc' = [proc EXCEPT ![w] = p]
    BY <1>1, <2>1, <2>2
  <2>5. StageOf(p) = k
    BY <1>3, <2>3 DEF StageOf
  <2>6. disk \in [KeyFiles -> Missing .. MaxStarts]
    BY DEF BootIInv, BootTyped
  <2>7. disk'[k] = Empty /\ \A j \in KeyFiles \ {k} : disk'[j] = disk[j]
    BY <1>4, <2>1, <2>6
  <2>8. ASSUME NEW j \in KeyFiles PROVE Agrees(p, j)'
    <3>1. Agrees(p, j)
      BY <1>3, <2>3 DEF Agrees, Held
    <3>2. Held(p, j) => Given(j) \/ disk'[j] = disk[j]
      BY <1>6, <2>7, <3>1 DEF Agrees, Held, NoKey
    <3>3. QED
      BY <1>5, <3>1, <3>2, AgreesKept
  <2>9. Busy(p)'
    <3>1. q.at # 0 /\ q.start \in 1 .. starts
      BY <1>3, <1>4, AtWork
    <3>2. ~Given(k)'
      BY <1>4, <1>5 DEF Given
    <3>3. QED
      BY <1>4, <1>5, <2>3, <2>5, <2>7, <3>1, <3>2 DEF Busy
  <2>10. Through(p)'
    <3>1. Through(p)
      BY <1>3, <2>3, SameThrough
    <3>2. QED
      BY <1>5, <3>1, ThroughKept
  <2>11. Right(p)'
    BY <2>8, <2>9, <2>10 DEF Right
  <2>12. \A v \in Boots \ {w} : ~(proc[v].step = "write" /\ Stage(v) = k)
    <3>1. ASSUME NEW v \in Boots, proc[v].step = "write", Stage(v) = k PROVE FALSE
      <4>1. PICK r : r = proc[v]
        OBVIOUS
      <4>2. Busy(r) /\ StageOf(r) = k /\ r.step = "write"
        BY <3>1, <4>1, Here
      <4>3. disk[k] = Empty
        BY <4>2 DEF Busy
      <4>4. QED
        BY <1>6, <4>3 DEF Missing, Empty
    <3>2. QED
      BY <3>1
  <2>13. Empty \in Missing .. MaxStarts
    BY Numbers
  <2>14. QED
    BY <1>4, <1>5, <1>6, <2>1, <2>3, <2>4, <2>5, <2>11, <2>12, <2>13, FileMoves
<1>7. CASE disk[k] # Missing /\ ReadKey(w, k) /\ UNCHANGED disk
  BY <1>2, <1>4, <1>5, <1>7, ReadStep DEF stays
<1>8. QED
  BY <1>2, <1>6, <1>7 DEF CreateKey

LEMMA WriteStep ==
  ASSUME BootIInv, NEW w \in Boots, WriteKey(w)
  PROVE  BootIInv'
<1>1. PICK q : q = proc[w]
  OBVIOUS
<1>2. PICK k : k = Stage(w)
  OBVIOUS
<1>3. /\ q \in Process /\ Busy(q) /\ Through(q) /\ k = StageOf(q)
      /\ \A j \in KeyFiles : Agrees(q, j)
  BY <1>1, <1>2, Here
<1>4. q.step = "write" /\ k \in KeyFiles /\ ~Given(k) /\ disk[k] = Empty
  BY <1>1, <1>3 DEF WriteKey, Busy
<1>5. deployment' = deployment /\ today' = today /\ starts' = starts
  BY DEF WriteKey
<1>6. starts \in 0 .. MaxStarts /\ disk \in [KeyFiles -> Missing .. MaxStarts]
  BY DEF BootIInv, BootTyped
<1>7. q.at # 0 /\ q.start \in 1 .. starts
  BY <1>3, <1>4, AtWork
<1>8. PICK v : v = q.start
  OBVIOUS
<1>9. v \in Empty .. Configured /\ v \in Missing .. MaxStarts /\ v # Empty /\ v # NoKey
  BY <1>6, <1>7, <1>8, Numbers
<1>10. disk' = [disk EXCEPT ![k] = v] /\ GoHolding(w, k, v)
  BY <1>1, <1>2, <1>8 DEF WriteKey, Drawn
<1>11. PICK p : p = Taking(q, k, v)
  OBVIOUS
<1>12. Took(q, k, v, p)
  BY <1>3, <1>4, <1>9, <1>11, TakesKey
<1>13. disk'[k] = v /\ \A j \in KeyFiles \ {k} : disk'[j] = disk[j]
  BY <1>4, <1>6, <1>10
<1>14. ASSUME NEW j \in KeyFiles PROVE Agrees(p, j)'
  <2>1. CASE j = k
    <3>1. p.keys[j] = disk'[j] /\ ~Given(j)'
      BY <1>4, <1>5, <1>12, <1>13, <2>1 DEF Took, Given
    <3>2. QED
      BY <3>1 DEF Agrees
  <2>2. CASE j # k
    <3>1. Agrees(p, j)
      BY <1>3, <1>12, <2>2 DEF Took, Agrees, Held
    <3>2. QED
      BY <1>5, <1>13, <2>2, <3>1, AgreesKept
  <2>3. QED
    BY <2>1, <2>2
<1>15. Busy(p)'
  BY <1>5, <1>7, <1>3, <1>12 DEF Busy, Took, Process
<1>16. Through(p)'
  BY <1>5, <1>12, ThroughKept DEF Took
<1>17. Right(p)'
  BY <1>14, <1>15, <1>16 DEF Right
<1>18. proc' = [proc EXCEPT ![w] = p]
  <2>1. proc \in [Boots -> Process]
    BY DEF BootIInv, BootTyped
  <2>2. QED
    BY <1>1, <1>10, <1>11, <2>1 DEF GoHolding, Taking, Process
<1>19. \A u \in Boots \ {w} : ~(proc[u].step = "write" /\ Stage(u) = k)
  BY <1>1, <1>2, <1>4 DEF BootIInv, OneWriter
<1>20. p \in Process /\ p.step = "look"
  BY <1>12 DEF Took
<1>21. QED
  BY <1>4, <1>5, <1>9, <1>10, <1>17, <1>18, <1>19, <1>20, FileMoves

---------------------------------------------------------------------------
(* Starts, deaths, renewals, and the surroundings *)

LEMMA StartStep ==
  ASSUME BootIInv, NEW w \in Boots, Start(w)
  PROVE  BootIInv'
<1>1. PICK n : n = starts + 1
  OBVIOUS
<1>2. starts \in 0 .. MaxStarts /\ starts < MaxStarts /\ starts' = n
  BY <1>1 DEF BootIInv, BootTyped, Start
<1>3. n \in 1 .. MaxStarts /\ starts' \in starts .. MaxStarts
  BY <1>1, <1>2, Numbers
<1>4. PICK p : p = [Off EXCEPT !.at = 1, !.start = n]
  OBVIOUS
<1>5. Off \in Process
  BY OffTyped
<1>6. /\ p \in Process /\ p.at = 1 /\ p.start = n /\ p.step = "look"
      /\ p.keys = Off.keys
  <2>1. 1 \in 0 .. Ready /\ n \in 0 .. MaxStarts
    BY <1>3, LastStage, Numbers
  <2>2. Off.step = "look"
    BY OffTyped
  <2>3. p \in Process
    BY <1>4, <1>5, <2>1 DEF Process
  <2>4. p.at = 1 /\ p.start = n /\ p.step = Off.step /\ p.keys = Off.keys
    BY <1>4, <1>5 DEF Process
  <2>5. QED
    BY <2>2, <2>3, <2>4
<1>7. \A k \in KeyFiles : ~Held(p, k)
  BY <1>6, OffTyped DEF Held
<1>8. (\A k \in KeyFiles : Agrees(p, k))'
  BY <1>7 DEF Agrees, Held
<1>9. Busy(p)'
  BY <1>2, <1>3, <1>6 DEF Busy
<1>10. Through(p)'
  BY <1>6 DEF Through
<1>11. Right(p)'
  BY <1>8, <1>9, <1>10 DEF Right
<1>12. deployment' = deployment /\ today' = today /\ disk' = disk
  BY DEF Start
<1>13. proc' = [proc EXCEPT ![w] = p]
  BY <1>2, <1>4 DEF Start
<1>14. QED
  BY <1>3, <1>6, <1>11, <1>12, <1>13, ProcessMoves

LEMMA DieStep ==
  ASSUME BootIInv, NEW w \in Boots, Die(w)
  PROVE  BootIInv'
BY Leaves DEF Die

\* A renewed licence is genuine, of the same identity, and later.
LEMMA RefreshStep ==
  ASSUME BootIInv, NEW w \in Boots, Refresh(w)
  PROVE  BootIInv'
<1>1. PICK q : q = proc[w]
  OBVIOUS
<1>2. /\ q \in Process /\ Busy(q) /\ Through(q) /\ q.at = Ready
      /\ \A j \in KeyFiles : Agrees(q, j)
  BY <1>1, Here DEF Refresh, IsUp
<1>3. PICK l \in Licences, held \in q.licence :
        /\ InForce(l) /\ Renews(l, held.doc)
        /\ proc' = [proc EXCEPT ![w].licence = {[doc |-> l, day |-> today]}]
  BY <1>1 DEF Refresh
<1> DEFINE new == [doc |-> l, day |-> today]
<1>4. PICK p : p = [q EXCEPT !.licence = {new}]
  OBVIOUS
<1>15. new \in Verified /\ new.doc = l /\ new.day = today
  BY DEF Verified, BootIInv, BootTyped
<1> HIDE DEF new
<1>5. /\ p \in Process /\ p.at = q.at /\ p.step = q.step /\ p.start = q.start
      /\ p.keys = q.keys /\ p.licence = {new} /\ p.built = q.built
  BY <1>2, <1>4, <1>15 DEF Process
<1>6. \A j \in KeyFiles : Agrees(p, j)
  BY <1>2, <1>5 DEF Agrees, Held
<1>7. Busy(p)
  BY <1>2, <1>5 DEF Busy, StageOf
<1>8. Admitted(q)
  <2>1. q.at > 1
    BY <1>2, LastStage
  <2>2. QED
    BY <1>2, <2>1, Zenon DEF Through
<1>9. Admitted(p)
  <2>1. held.doc.id = deployment.licence.id /\ held.doc.issued >= deployment.licence.issued
    BY <1>8, Zenon DEF Admitted, Entitles
  <2>2. /\ l.genuine /\ l.id = held.doc.id /\ l.issued > held.doc.issued
        /\ l.issued <= today /\ today < l.expires
    BY <1>3, Zenon DEF InForce, Renews
  <2>3. held.doc \in Licences
    BY <1>2 DEF Process, Verified
  <2>4. l.issued \in Nat /\ held.doc.issued \in Nat /\ deployment.licence.issued \in Nat
    BY <2>3, OneDeployment, BootAssumption
  <2>5. l.issued >= deployment.licence.issued
    BY <2>1, <2>2, <2>4
  <2>6. \A v \in p.licence : Entitles(v)
    <3>1. Entitles(new)
      BY <1>15, <2>1, <2>2, <2>5, Zenon DEF Entitles
    <3>2. QED
      BY <1>5, <3>1
  <2>7. p.licence # {}
    BY <1>5
  <2>8. QED
    BY <1>8, <2>6, <2>7, Zenon DEF Admitted
<1>10. Through(p)
  <2>1. /\ p.at > 1 => Admitted(p)
        /\ p.at > 14 => Durably
    BY <1>2, <1>5, <1>9, Zenon DEF Through
  <2>2. \A k : Held(q, k) <=> Held(p, k)
    BY <1>5, Zenon DEF Held
  <2>3. /\ p.at > 2 => Held(p, "worm")
        /\ p.at > 5 /\ On("pseudonymize") => Held(p, "pseudonym")
        /\ p.at > 8 /\ On("encrypt") => Held(p, "content")
    BY <1>2, <1>5, <2>2, Zenon DEF Through
  <2>4. p.at > 9 => /\ On("pdp") => "pdp" \in p.built
                    /\ ~Sandbox /\ Given("webhook url") => "webhook" \in p.built
    BY <1>2, <1>5, Zenon DEF Through
  <2>5. /\ p.at > 10 /\ Beacon => p.keys["install id"] # NoKey
        /\ p.at > 11 /\ Beacon => p.keys["telemetry secret"] # NoKey
    BY <1>2, <1>5, Zenon DEF Through
  <2>6. p.at > 12 => /\ On("respond") => "playbook" \in p.built
                     /\ Beacon => "beacon" \in p.built /\ \A k \in Texts : Held(p, k)
    BY <1>2, <1>5, <2>2, Zenon DEF Through
  <2>7. QED
    BY <2>1, <2>3, <2>4, <2>5, <2>6, Zenon DEF Through
<1>11. proc' = [proc EXCEPT ![w] = p]
  BY <1>1, <1>2, <1>3, <1>4 DEF Process, new
<1>12. p.step # "write"
  <2>1. q.at \notin 1 .. 14
    BY <1>2, LastStage
  <2>2. StageOf(q) = "none"
    BY <2>1, StageOrder DEF StageOf
  <2>3. QED
    BY <1>2, <1>5, <2>2, NotAKey DEF Busy
<1>13. Right(p) /\ UNCHANGED stays
  BY <1>6, <1>7, <1>10 DEF Right, Refresh
<1>14. QED
  BY <1>5, <1>11, <1>12, <1>13, StepsRight

LEMMA DeleteStep ==
  ASSUME BootIInv, DeleteEmpty
  PROVE  BootIInv'
<1>1. PICK k \in KeyFiles :
        /\ disk[k] = Empty /\ disk' = [disk EXCEPT ![k] = Missing]
        /\ \A w \in Boots : Stage(w) = k => proc[w].step = "look"
  BY DEF DeleteEmpty
<1>2. deployment' = deployment /\ today' = today /\ starts' = starts /\ proc' = proc
  BY DEF DeleteEmpty
<1>3. BootTyped'
  BY <1>1, <1>2, Numbers DEF BootIInv, BootTyped
<1>4. OneWriter'
  BY <1>2 DEF BootIInv, OneWriter, Stage
<1>5. ASSUME NEW v \in Boots PROVE Right(proc[v])'
  <2>1. PICK q : q = proc[v]
    OBVIOUS
  <2>2. q \in Process /\ Right(q) /\ Stage(v) = StageOf(q)
    BY <2>1, Here DEF BootIInv
  <2>3. ~(q.step = "write" /\ StageOf(q) = k)
    BY <1>1, <2>1, <2>2
  <2>4. Right(q)'
    BY <1>1, <1>2, <2>2, <2>3, FileMayChange
  <2>5. QED
    BY <1>2, <2>1, <2>4
<1>6. QED
  BY <1>3, <1>4, <1>5 DEF BootIInv

\* The clock, or nothing at all.
LEMMA DayStep ==
  ASSUME BootIInv, NextDay \/ UNCHANGED bootVars
  PROVE  BootIInv'
<1>1. deployment' = deployment /\ disk' = disk /\ proc' = proc /\ starts' = starts
  BY DEF NextDay, bootVars
<1>2. today' \in 0 .. LastDay
  BY BootAssumption DEF BootIInv, BootTyped, NextDay, bootVars
<1>3. BootTyped'
  BY <1>1, <1>2 DEF BootIInv, BootTyped
<1>4. OneWriter'
  BY <1>1 DEF BootIInv, OneWriter, Stage
<1>5. starts \in Nat
  BY Numbers DEF BootIInv, BootTyped
<1>6. ASSUME NEW v \in Boots PROVE Right(proc[v])'
  <2>1. PICK q : q = proc[v]
    OBVIOUS
  <2>2. q \in Process /\ Right(q)
    BY <2>1, Here DEF BootIInv
  <2>3. \A k \in KeyFiles : Agrees(q, k)'
    BY <1>1, <2>2, AgreesKept DEF Right
  <2>4. Busy(q)'
    BY <1>1, <1>5, <2>2, BusyKept DEF Right
  <2>5. Through(q)'
    BY <1>1, <2>2, ThroughKept DEF Right
  <2>6. Right(q)'
    BY <2>3, <2>4, <2>5 DEF Right
  <2>7. QED
    BY <1>1, <2>1, <2>6
<1>7. QED
  BY <1>3, <1>4, <1>6 DEF BootIInv

---------------------------------------------------------------------------
(* The theorems *)

LEMMA BootStarts == BootInit => BootIInv
<1> SUFFICES ASSUME BootInit PROVE BootIInv
  OBVIOUS
<1>1. BootTyped
  BY OffTyped, Numbers, BootAssumption DEF BootInit, BootTyped
<1>2. \A w \in Boots : proc[w] = Off
  BY DEF BootInit
<1>3. OneWriter
  BY <1>2, OffTyped DEF OneWriter
<1>4. Right(Off)
  BY OffTyped, OffIsRight
<1>5. QED
  BY <1>1, <1>2, <1>3, <1>4 DEF BootIInv

LEMMA BootInductive == BootIInv /\ [BootNext]_bootVars => BootIInv'
<1> SUFFICES ASSUME BootIInv, [BootNext]_bootVars PROVE BootIInv'
  OBVIOUS
<1>1. CASE \E w \in Boots : ComingUp(w)
  <2>1. PICK w \in Boots : ComingUp(w)
    BY <1>1
  <2>2. CASE Start(w)
    BY <2>2, StartStep
  <2>3. CASE Die(w)
    BY <2>3, DieStep
  <2>4. CASE Refresh(w)
    BY <2>4, RefreshStep
  <2>5. CASE PassGates(w)
    BY <2>5, GatesStep
  <2>6. CASE LoadWebhookSecret(w)
    BY <2>6, WebhookStep
  <2>7. CASE CheckPosture(w)
    BY <2>7, PostureStep
  <2>8. CASE LookForKey(w)
    BY <2>8, LookStep
  <2>9. CASE CreateKey(w)
    BY <2>9, CreateStep
  <2>10. CASE WriteKey(w)
    BY <2>10, WriteStep
  <2>11. CASE BuildFeatures(w)
    BY <2>11, FeaturesStep
  <2>12. CASE BuildDaemons(w)
    BY <2>12, DaemonsStep
  <2>13. QED
    BY <2>1, <2>2, <2>3, <2>4, <2>5, <2>6, <2>7, <2>8, <2>9, <2>10, <2>11, <2>12
       DEF ComingUp
<1>2. CASE DeleteEmpty
  BY <1>2, DeleteStep
<1>3. CASE NextDay \/ UNCHANGED bootVars
  BY <1>3, DayStep
<1>4. QED
  BY <1>1, <1>2, <1>3 DEF BootNext

\* Every reachable state is as the invariant says.
THEOREM BootInvariant == BootSpec => []BootIInv
BY BootStarts, BootInductive, PTL DEF BootSpec

\* Every variable has its type, for any number of workers and starts.
THEOREM BootTypeCorrect == BootSpec => []BootTypeOK
<1>1. BootIInv => BootTypeOK
  <2> SUFFICES ASSUME BootIInv, NEW w \in Boots
               PROVE  /\ proc[w].at \in 0 .. Ready /\ proc[w].start \in 0 .. starts
                      /\ proc[w].step \in {"look", "create", "write", "refused"}
                      /\ proc[w].keys \in [KeyFiles -> Missing .. Configured]
                      /\ proc[w].licence \subseteq Verified /\ proc[w].built \subseteq Part
    BY DEF BootTypeOK, BootIInv, BootTyped
  <2>1. PICK q : q = proc[w]
    OBVIOUS
  <2>2. q \in Process /\ Busy(q) /\ starts \in Nat
    BY <2>1, Here, Numbers DEF BootIInv, BootTyped
  <2>3. q.start \in 0 .. starts
    BY <2>2, LastStage DEF Busy, Process
  <2>4. QED
    BY <2>1, <2>2, <2>3 DEF Process
<1>2. QED
  BY <1>1, BootInvariant, PTL

\* Workers that start side by side, die and start again never hold two keys of
\* one kind, whatever they race for in .keys/ (_load_worm_key, _load_vault_key,
\* _load_worm_content_key, _load_or_create_text, ...).
THEOREM KeysAgreeCorrect == BootSpec => []KeysAgree
<1>1. BootIInv => KeysAgree
  <2> SUFFICES ASSUME BootIInv, NEW w \in Boots, NEW k \in KeyFiles, Loaded(w, k)
               PROVE  proc[w].keys[k] = IF Given(k) THEN Configured ELSE disk[k]
    BY DEF KeysAgree
  <2>1. PICK q : q = proc[w]
    OBVIOUS
  <2>2. Agrees(q, k) /\ Held(q, k)
    BY <2>1, Here DEF Loaded, Held
  <2>3. QED
    BY <2>1, <2>2 DEF Agrees
<1>2. QED
  BY <1>1, BootInvariant, PTL

\* A process serves only with verified code, an entitlement and every control
\* that was asked for, whatever is half configured, damaged, expired, renewed
\* or created by a sibling meanwhile (_build_components, _lifespan).
THEOREM UpSoundCorrect == BootSpec => []UpSound
<1>1. BootIInv => UpSound
  <2> SUFFICES ASSUME BootIInv, NEW w \in Boots, IsUp(w)
               PROVE  /\ CodeVerified(w) /\ Entitled(w) /\ ControlsInPlace(w)
                      /\ Loaded(w, "worm") /\ (Sandbox \/ deployment.durable)
    BY Zenon DEF UpSound
  <2>1. PICK q : q = proc[w]
    OBVIOUS
  <2>2. Through(q) /\ q.at = 15
    BY <2>1, Here, LastStage DEF IsUp
  <2>3. /\ q.at > 1 /\ q.at > 2 /\ q.at > 5 /\ q.at > 8 /\ q.at > 9 /\ q.at > 10
        /\ q.at > 11 /\ q.at > 12 /\ q.at > 14
    BY <2>2
  <2>4. /\ Admitted(q) /\ Held(q, "worm") /\ Durably
        /\ (On("pseudonymize") => Held(q, "pseudonym"))
        /\ (On("encrypt") => Held(q, "content"))
    BY <2>2, <2>3, Zenon DEF Through
  <2>5. /\ On("pdp") => "pdp" \in q.built
        /\ ~Sandbox /\ Given("webhook url") => "webhook" \in q.built
        /\ On("respond") => "playbook" \in q.built
        /\ Beacon => "beacon" \in q.built /\ \A k \in Texts : Held(q, k)
    BY <2>2, <2>3, Zenon DEF Through
  <2>6. \A k : Loaded(w, k) <=> Held(q, k)
    BY <2>1, Zenon DEF Loaded, Held
  <2>7. CodeVerified(w)
    BY <2>4, Zenon DEF Admitted, CodeVerified
  <2>8. Entitled(w)
    BY <2>1, <2>4, Zenon DEF Admitted, Entitles, Entitled
  <2>9. ControlsInPlace(w)
    BY <2>1, <2>4, <2>5, <2>6, Zenon DEF ControlsInPlace
  <2>10. QED
    BY <2>4, <2>6, <2>7, <2>8, <2>9, Zenon DEF Durably
<1>2. QED
  BY <1>1, BootInvariant, PTL
=============================================================================
