# mcpip in TLA+

mcpip is an authorization gateway that stands between AI agents and the systems
they act on.  An agent sends a tool call; the gateway verifies who is calling,
resolves an opaque alias to a real target, applies its gates, asks for a
one-time code when the action is risky, writes a signed audit record, and only
then dispatches.  This directory is the formal model of that program: TLA+
modules translated from the source, TLC configurations that check them on small
instances, and TLAPS proofs of what matters most for every instance.

Contents: [inventory](#inventory) · [modules](#modules) · [runs](#runs)
· [fairness](#fairness) · [proofs](#proofs) · [findings](#findings)
· [limits](#limits) · [plan](#plan) · [running it](#running-it).

## Inventory

Deployment first, because it decides what is concurrent.  The image runs
`uvicorn --workers 4` (`Dockerfile`), the chart runs at least two replicas, and
every worker process runs its own copy of each background task that
`app/main.py:_lifespan` starts.  All of them share one Redis, and the workers of
a host share a directory of key files and one anchor file.  So every piece of
Redis state below is shared by requests and tasks of several processes; each
`await` is a point where others run; a Lua script is one atomic step.

| component | state it keeps | operations | what is hard | what makes it correct | module |
|---|---|---|---|---|---|
| audit ledger, `audit/worm_logger.py` (epoch mode) | event stream, sequence counter, headers, index, leaves, locations, counters, checkpoint, lock | emit, close, trim, compact, verify | several daemons on one lock with a TTL; sections that can stop anywhere; a verification while events arrive | every event sealed once, in order; hot events provable; no false tamper; no event lost | AuditLedger, SealedLog |
| head anchor, `audit/anchor.py` | an append-only file per host | record, head, compact | lags behind the chain; rotated by whoever compacts | witnesses only committed headers | AuditLedger |
| offline verifier, `mcpip_verify/audit_export.py` | what it has read | five reads and a verdict, without a lock | the ledger moves between two reads | cries tamper only over an epoch trimmed between two pages | AuditExport |
| per-event chain, `audit/worm_logger.py` (legacy mode) | the file, two keys, a lock | emit, verify | line and keys are three writes; crash between them | the file verifies | EventChain |
| Merkle tree, `audit/merkle.py` | none | root, proof, verification | odd levels duplicate the last node | root and count bind the leaves | MerkleTree |
| authorize pipeline, `app/main.py:2775-3482` | per request; reads and writes everything else | gates, staging or completion, ALLOW record, dispatch, deny funnel | requests interleave with administrators; each Redis call may fail | record before execute; what runs was approved; kill switches hold | AuthorizePipeline, ApprovedExecution |
| step-up lock, `auth/pin_validator.py`, `services/auth_engine.py` | lock records with TTL | register, deliver, consume (one script) | concurrent completions, retries, expiry, attempts | bound to the payload, spent once, bounded guesses | AuthorizePipeline |
| admission, `EdgeGateMiddleware` | in-flight counter per worker | admit, release, deadline | slots must come back after every end | counter exact | AuthorizePipeline |
| policy, `services/policy_engine.py` | shared counters, the document | evaluate, replace | rules are evaluated one by one, a later one may refuse | no cap is exceeded | AuthorizePipeline, PolicyRules |
| delegation, `services/delegation.py` | grants with TTL, revoked sessions | issue, apply, revoke | a cut races a multi-step issue; chains | authority and lifetime only shrink; a cut severs the subtree | Delegation |
| authenticator, `services/authenticator_enrollment.py`, `authn_channel.py` | enrolment, attempts, burnt steps, sealed codes | begin, confirm, remove, verify, reveal | read, then write; limiter reads before others count | a factor is proven, a code spent once, guesses bounded | Authenticator |
| proof of possession, `auth/pop.py` | `jti` keys with TTL | verify | freshness window against TTL over clocks that differ | a proof is accepted once | PopReplay |
| compartment grants, `services/grant_store.py`, `grant_cache.py`, `relation_store.py` | grants with TTL, a cache of absences per worker, tuples | issue, check, revoke | a reader suspended over an issue | never serves a revoked grant; copies converge | CompartmentGrants |
| response playbook, `services/response_playbook.py` | cursor per process; windows and claims in Redis | poll, consider, claim, respond | every worker counts every alert; a count and its expiry are two calls; failures after the claim | a freeze rests on as many reads of the agent's denies as the threshold says, in one window; trips are answered | ResponsePlaybook |
| operator roster, `services/operator_users.py` | a hash of operators | invite, update, remove | the cap is checked before the write | cap nearly held; record before write | OperatorRoster |
| catalog and review, `services/extension_submissions.py`, `app/main.py` | submissions, approved records, overlay rows, a registry per worker | register, review, hydrate | two reviewers; workers hydrate only at boot | resolved as approved; workers agree | CatalogReview |
| control desk, forensic store, `app/main.py`, `services/revocation.py`, `skill_gate.py`, `directory_store.py`, `forensic_store.py` | switches, documents, captures | revoke, reactivate, switch, edit, read | the gate is read once, early | one under a switch does nothing; record before write | ControlPlane |
| cloud broker and vault, `services/cloud_broker.py` | bindings, secrets | bind, store, rotate, discard, vend | binding, secret, record are separate round trips | vends what was bound and stored | CloudVending |
| start-up, `app/main.py`, `core/` | key files, what a process has built | the stages of `_build_components` and `_lifespan`, licence refresh | several workers create one file; half a configuration | up means verified, entitled, complete; keys agree | GatewayBoot |
| community gate, PDP, parsers, token resolver, schemas, telemetry, metrics, relations, workspace | none that decides later, or read-only | pure checks, best-effort writes | none | covered by tests | – |
| SDKs, dashboard, deployment, scripts, training, tests | – | clients and packaging | – | outside the gateway | – |

How they interact: a request walks through the pipeline and calls the kill
switches, delegation, grants, policy, proof of possession and step-up locks, all
of them Redis reads or scripts; it calls `WormLogger.emit` before dispatching;
administrators write the switches, grants, rosters, catalog and vault (nearly
all record first, then write); the epoch daemon seals what was emitted; the
playbook reads what was emitted and freezes agents; monitors and the exporter
verify the chain.

## Modules

Conventions.  A section of a handler between two awaits that matter is one
action, named for what it does.  A Redis call that may fail has an action for
each outcome that differs: applied with its reply lost, not applied.  `Mutant`
operators beside a definition are wrong variants that show what a property
rules out.  A `history` variable is read by properties only.  Every bound on a
behaviour is a constant named `Max…` (or `Last…`).

**AuditLedger, SealedLog.**  One variable per Redis key, the anchor files, and
per process a program counter and the locals that survive an await (`job` for a
close, `view` for a verification or a compaction).  An event is its sequence
number; a Merkle root is the interval under it, because digests are injective;
an epoch hash covers a fresh timestamp, so it is the number of the attempt that
made it.  `close_epoch` is `CloseBegin … CloseDone` with the trim, `_verify_epoch`
is `VerifyBegin … VerifyFinish` (`VerifySince` for the incremental form),
`compact` is `CompactBegin … CompactAnchor`.  `Fail` is an exception anywhere,
`Crash` a process death, `LockExpires` the TTL of an abandoned lock,
`LockLapses` the TTL running out under a live holder; `Steady` is the next-state
relation without lapses.  `SealedLog` promises numbered events and epochs that
seal them from the front and never change; `LogSpec` maps the ledger to it.

**AuditExport** extends the ledger with a reader that takes no lock: anchor,
headers, checkpoint, events page by page, counter, verdict, one step each.

**EventChain** is the legacy mode: a line is appended to a file, then two keys
are written, under a lock of 5 s that may lapse.  **MerkleTree** is the tree,
its proofs and their verification over symbolic digests, against the reference
"root and count determine the leaves"; its state ranges over pairs of lists.

**AuthorizePipeline, ApprovedExecution.**  Per request a program counter for the
next await, its call, its records; in Redis the locks with life, code and tries,
the velocity counter, the switches; per worker the in-flight counter.  A lock is
named by the request that staged it, which stands for its fresh uuid; the
payload hash is injective.  A request goes `Arrive → CheckQuarantine →
CheckRevocation → (TripCanary) → CheckSkill`, then `EvaluatePolicy → Register →
Deliver → …` for a staging or `Consume → … → EmitAllow → Dispatch` for a
completion.  `Refuse` stands for the gates that only refuse.
`ApprovedExecution` promises that a risky action runs only as it was asked for
and after its one code: ask, mint, void, spend, log, run.

**Delegation** has one task per request: prepare, record, persist for an issue;
fetch, chain probe, principals, narrowing for a use; cuts of sessions and
principals at any time.  **Authenticator** models one principal: enrolment,
confirmation, removal, verification with limiter and burnt time steps, the
sealed stash.  **PopReplay** has verifiers whose clocks differ by `Offset`.

**CompartmentGrants** holds a key with its remaining seconds, the projected
tuple, and an ordered cache of absences for each worker.  **ResponsePlaybook**
holds the stream, and per daemon its cursor and the stream positions of the
alerts it is still to consider (a list in the code, in stream order: the least
position is the first).  What a window has counted is kept as history: `tally`
and `grounds` are sets of reads, a read being a daemon, the number of the cursor
it read with (`boot`: a restarted daemon anchors a new one) and the place of the
record.  The increment and the expiry of a window are two calls, so a lost call
or a death between them leaves a window that never ends.

**OperatorRoster, CatalogReview, ControlPlane, CloudVending, PolicyRules** have
one record per request in flight that says what it has read and what it is to
write next.  A worker of CatalogReview hydrates row by row, with the look at the
approved manifest and the look at the publisher list in two steps (`LoadRow`,
`VetPublisher`).  `EditRow` is a field changed by hand: target, posture or
source.  **GatewayBoot** keeps with each licence the day it was verified, so an
expired one is told from one that has expired since; it is a list of stages; a
stage succeeds, refuses, or (for a key file) looks, creates and writes in three
steps that a sibling or a crash may come between.

**Composites.**  Components that share no key cannot influence each other, so
`MCRecords`, `MCSessions`, `MCResponses` and `MCStores` put them side by side
and let a behaviour move one of them (`focus`) and leave the others in their
initial state: every behaviour of each is there, their product is not.  The
composite adds nothing to a component and takes nothing away; the lemmas
`EachStore`, `EachGuard` and `EachResponse` prove that a behaviour of the
composite is a behaviour of every part.  The ledger and its export do share
state and move together.  `MCAuditLedger` and `MCAuthorizePipeline` only give
constants their values.

## Runs

| run | module | properties | instance |
|---|---|---|---|
| `ledger_safety` | MCAuditLedger | `ChainGapless`, `HotEventsProvable`, `NoFalseTamper`, `LogSpec`, `EventuallySettled` | 2 closers, 1 verifier, 3 events, 2 failures or crashes, hot window 1, 2 leaves an epoch, 1 epoch kept, stride 1, no lapses |
| `pipeline_codes` | MCAuthorizePipeline | `TypeOK`, `RecordBeforeExecute`, `ExecutedAsApproved`, `OneActionPerCode`, `AttemptsAccounted`, `AnswersAreTrue`, `AdmissionExact` | 3 requests, 2 slots, 2 variants of a payment, 2 codes, 2 attempts, deadlines |
| `pipeline_live` | MCAuthorizePipeline | `KillSwitchHolds`, `WithinVelocity`, `Settles`, `ExecutionSpec` | 2 requests, 1 slot, velocity 1 per window, all switches, a transport that may hang or lie |
| `records` | MCRecords | `TypesOK`, `LapseLosesNothing`, `AlarmOnlyOnSplit`, `EvidenceHolds`, `UpSound`, `KeysAgree` | 2 closers on 2 hosts, 3 events, 1 lapse or fault; pages of 1 event; 2 writers, 3 lines, 2 faults; lists up to 5 leaves; 2 processes, 3 starts, 82 deployments, 1 day |
| `sessions` | MCSessions | `TypesOK`, `ChainSevered`, `AuthorityShrinks`, `FactorSound`, `SingleUse`, `LifetimeShrinks` | 2 tasks, 3 sessions, depth 2, 2 grants, 1 cut; 2 requests at a time, 4 in all; 2 verifiers, clock up to 9 |
| `responses` | MCResponses | `TypesOK`, `RevokedNeverServed`, `FreezeWarranted`, `CopiesConverge`, `TripAnswered` | 2 requests on 2 workers, caches of 1; 2 daemons, threshold 3, scan 2, alerts 1, 2 events, 1 fault |
| `stores` | MCStores | `TypesOK`, `WriteBeforeExecute`, `CapsHold`, `OverlaySound`, `WorkersAgree`, `VendsAsBound`, `FrozenDeskIdle` | roster cap 1, 3 asks, 1 blip; overlay cap 2, 4 requests, 2 mishaps; environment and vault caps 1, 4 calls, 1 failure; 2 orders, 1 hiccup; 2 evaluations, 2 edits, 1 outage |
| `ledger_double_close` | MCAuditLedger | `NeverSealedTwice` (violated) | 2 closers, 2 events, 1 lapse |
| `playbook_one_deny` | MCResponses | `FrozenByOwnDenies` (violated) | 2 daemons, threshold 2, 1 deny, nothing lost |
| `pipeline_denied_ran` | MCAuthorizePipeline | `DeniedNeverRan` (violated) | 2 requests, an honest transport |
| `pipeline_eternal_lock` | MCAuthorizePipeline | `LockHasTTL` (violated) | 2 requests, 2 codes |
| `catalog_refused_approval` | MCStores | `RowKeepsItsPin` (violated) | as `stores`, the catalog alone |

What the properties say stands above each in its module.

*Why the bounds are enough.*  Three events in epochs of one or two make up to
three epochs: one leaves the hot window, is folded into a checkpoint, and is
verified after it; two faults are a half-done close followed by a half-done
repair.  Two completions race for a code while a third request changes the
payload.  A chain of three sessions has a grant in the middle.  Two workers with
caches of one make a cache stale by another's write and evict at the limit.  A
threshold of three with two daemons and two denies is reached by the reads of
both daemons, or of one that anchored twice, and never by counting a read twice.
Real values (32 hot epochs, 4096 leaves, caps of hundreds) enter the code only
through comparisons that the assumptions of the modules name.  Where a bound
seems small (delegation, boot, playbook), the safety properties are proved for
all values of the constants, and the run serves the mutants and the liveness.

*Bounds of the instances, not of the code.*  In `MCRecords` faults come beside
an export only where the second daemon has closed nothing (`FaultsWhileAlone`)
and no lock lapses there (`Steady`); between two looks of a starting process at
the directory or the clock no other process moves (`Alone`); the per-event file
stops growing at `MaxLines`.  Interchangeable processes, tasks and names are
symmetric (`SwapBoots`, `SwapNames`); the runs with liveness declare none.
Deadlock is checked in `ledger_safety` and `ledger_double_close`;
elsewhere a behaviour ends when its bounded inputs are used up.

## Fairness

`ledger_safety` checks `EventuallySettled` under `FairSpec`: no lapses; inside a
section a task of a running event loop goes on (weak fairness per process);
Redis keeps the TTL (weak fairness of `LockExpires`); taking the lock is a poll
every 10 ms while sections are short and an interval apart, so a daemon that
finds it free again and again gets it (strong fairness).  `pipeline_live` gives
weak fairness to the steps of an admitted request that do not wait for a
transport, to the timeout that bounds the wait, and to `LockExpires`; none to
clients, humans or administrators.  `responses` gives weak fairness to time, to
replies of calls, and to a daemon's calls that succeed: nothing fails for ever
unless the property says so (`TripAnswered` excuses a lost call).

## Proofs

Eight modules hold theorems; all hold for every value of the constants that the
named `ASSUME`s allow.  Those say only that sets are finite or disjoint, that
limits are natural numbers, and what the code's constants guarantee
(`KeepEpochs >= HotEpochs`; the skew of clocks leaves room for the timeout of a
request).

**AuditLedgerProofs.**  `TypeCorrect` needs the index to hold epochs of
committed headers (`EpochInv`), because a trim and a checkpoint read a header by
its epoch.  `NumbersCorrect`, `NoEventLostCorrect` and `LapseLosesNothingCorrect`
hold with lapses: the commit script refuses an epoch number it has seen, and the
trim horizon is never past what headers cover (`CoverInv`).  Without lapses
`GaplessInv` says who is in the critical section and that his job is a
continuation of the chain: `ChainGaplessCorrect`, and step by step
`LedgerImplements` (`SteadySpec => LogSpec`).  `TrailInv` adds what each
half-done trim and compaction leaves behind, what anchors witness, and what a
verifier's view has in common with the chain when it was read:
`HotEventsProvableCorrect`, `NoFalseTamperCorrect`.

**AuthorizePipelineProofs.**  `PipelineInv` says of each request what its
program counter implies (`RequestInv`: which lock it holds, what is on record,
what it may have run).  From it: `RecordBeforeExecuteCorrect`,
`ExecutedAsApprovedCorrect`, `OneActionPerCodeCorrect`, `AnswersAreTrueCorrect`,
and the refinement `PipelineImplements`.  `BudgetInv` counts the attempts of a
lock (`AttemptsAccountedCorrect`), `SwitchInv` follows a switch through a
request (`KillSwitchHoldsCorrect`), `VelocityInv` the increments
(`WithinVelocityCorrect`), and `AdmissionExactCorrect` the slots by cardinality.

**DelegationProofs.**  `IInv` says of every stored grant what `prepare`
establishes (conveyed authority held by every ancestor's token, aligned ancestor
lists) and of each task what it has read and when; chains of any depth:
`ChainStaysSevered`, `AuthorityOnlyShrinks`, `LifetimeOnlyShrinks` (an action
property), `ChainsAligned`, `GrantsAreSealed`.

**SessionsProofs.**  For the authenticator `FactorIInv` conjoins: what a request
carries between its calls was true when read and what makes it still harmless;
one holder of a code taken out of the stash; disclosed at most once; the active
secret is proven; a burnt step is remembered as long as a code of it is
acceptable; guesses and requests in flight add up: `FactorSoundCorrect`.  For
proofs of possession, the record of an accepted proof outlasts every clock that
finds the proof fresh (`LastsLonger`), whence `ProofsUsedOnce` and
`RecordsOutlive`.  With DelegationProofs, `SessionsTypesCorrect` for the
composite.

**ResponsesProofs.**  Grants: a request that began while no grant was stored
finds none until one is (`NoneSoFar`), so `RevokedNeverServedCorrect` needs
nothing of the caches; that they hold a key once and stay within their size is
`CachesIInv`.  Playbook: a window's count is the number of different reads in
its tally (`Tallied`), because no cursor has still to count what it has counted
(`AllUnread`): a poll moves the cursor past what it returns, and a restart
begins a new cursor.  A daemon on its way to a response holds a count that a
window's reads add up to (`Grounded`), so a freeze rests on that many
(`Warranted`).  A window without an expiry has a daemon about to set one, or a
call was lost or a worker died (`Ending`).  Together `FreezeWarrantedCorrect`.
That a scan stops at its limit (`ExaminedWithin`) is proved by a least
counterexample.  `ResponsesTypesCorrect` for the composite.

**StoresProofs.**  One invariant per store, each saying of a request in flight
that what it is about to write is on record, was read from what was on record,
and can only be overtaken by what is on record too: `VendsAsBoundCorrect`,
`DeskOnRecordCorrect`, `RosterLoggedCorrect`, `CatalogLoggedCorrect` and from
them `WriteBeforeExecuteCorrect`.  `FrozenDeskIdleCorrect` is an action property
(`GateIInv`).  `RosterBoundedCorrect` and `RulesHoldCorrect` (with counters that
tell how many have passed, `CountersTell`) give `CapsHoldCorrect`.
`CatalogIInv` relates rows, approved records and registries:
`OverlaySoundCorrect`, `WorkersAgreeCorrect`; a row that waits for the look at its
publisher is as it was approved (`VettedSound`).  `StoresTypesCorrect` for the
composite.

**GatewayBootProofs.**  `BootIInv` says of each process what the stages behind
it have established (`Right`), that one process at a time is writing a file
(`OneWriter`), that what was loaded is on disk, and that a licence on file was
in force on the day it was verified (`Entitles`): `BootTypeCorrect`,
`KeysAgreeCorrect`, `UpSoundCorrect`.

**RecordsProofs.**  The export: `ExportIInv` says of each read what it has in
common with the ledger of now (`Heard`): headers and checkpoint together cover
every epoch up to one that was once the newest (`Complete`), the pages leave no
gap that a trim does not explain (`PagedTo`).  The daemons can only move the
ledger on (`Grows`, from the ledger's own invariants), so what was heard stands,
and an export that fails has split an epoch (`IntactUnlessSplit`):
`AlarmOnlyOnSplitCorrect`.  The per-event file: as long as nothing was cut, one
emitter is at work and the two keys are behind the file exactly as far as it has
got (`KeysFit`): `FileVerifiesCorrect`.  The Merkle tree: equal levels have
equal levels under them if they have one length (`AboveTells`), which is where
the leaf count comes in; a proof's entries join each node to the one over it
(`JoinClimbs`), and no two digests climb to one hash (`ClimbTells`):
`EvidenceHoldsCorrect`, for lists of any length.  The induction is a set of
numbers that holds 0 and every successor (`AllNumbers`, from the well-founded
order of the library); that a recursive definition has a value at all is proved
for each from its first n turns (`TurnsTaken`, `TurnsAgree`).
`RecordsTypesCorrect` for the composite.

**Only model-checked.**  Liveness and `ENABLED` (`EventuallySettled`, `Settles`,
`CopiesConverge`, `TripAnswered`) are out of the prover's reach.  Every other
property of the passing runs is a theorem.  What the five runs that end in a
violation say is a counterexample, so there is nothing to prove of them.

## Findings

Five statements of the source, its tests or documents that the code does not
keep, each with a run whose counterexample shows it: a lapsed lock seals events
twice (`ledger_double_close`), every worker's playbook counts each deny into one
shared window, so that fewer denies than the threshold freeze an agent, two with
the image's four workers and the default threshold of five (`playbook_one_deny`;
`config.py:351-352`, `RESPONSE_PLAYBOOK.md:55-57` and
`response_playbook.py:214-215` speak of the denials of the agent), an executed
action is denied when the read-back of its sequence number fails
(`pipeline_denied_ran`), a wrong code in the last millisecond leaves a lock
without a TTL (`pipeline_eternal_lock`), and a refused approval has replaced the
approved record of an earlier one (`catalog_refused_approval`).

Seen while modelling and not given a run of their own:

- *Ledger.*  Index entries whose headers a crashed compaction has deleted stay
  for good.  Rotating an anchor file that lags drops its highest line.  A closer
  whose commit was refused as a duplicate still records its anchor line and
  trims (`worm_logger.py:1022`).  A compactor whose lock lapsed overwrites the
  checkpoint with an older one.  `proof_scope` says its skew is bounded by one
  epoch, which nothing ensures; `query_decisions` answers a failed first read
  with `next_cursor` None, as at the end of the data.
- *Export.*  The order of its reads is "the ONE order that cannot manufacture a
  false tamper" (`audit_export.py:334`), yet an epoch trimmed between two pages
  leaves some of its events and the export reports a Merkle failure
  (`audit_export.py:430`); `AlarmOnlyOnSplit` says that this is the only way.
- *Playbook.*  `stream_tail_id` answers "0" when the first poll fails, so that
  daemon replays the history, denies before its boot included (`AnchorFails`); a
  window whose EXPIRE is lost never ends, and counts denies however far apart.
- *Policy.*  Velocity counters are keyed by tenant and scope only: two rules on
  one scope share a counter, count each evaluation twice (`main.py:3297` says
  "counted exactly once"), and have the TTL of whichever counted first.
  `docs/integrate/ARCHITECTURE.md:537` says "caps per-identity"; the key has no
  agent.
- *Roster, catalog.*  A spent invite token comes back with a lost update.
  `_target_posture_conflict` (`main.py:6292`) says it fails closed on a storage
  error, which `list_for_tenant` swallows; two concurrent mints, on one worker
  or two, of targets that cover each other both pass it, and no property says
  otherwise (the floor is proved against what is shipped).  A stored row edited
  to have no source skips the pin of `_community_pin_valid` and resolves as an
  operator's; its comment names edits of target, risk and classification.  The
  hash of pending submissions is never pruned.
- *Authenticator.*  `begin` stores unconditionally what may replace an enrolment
  activated since its read, `confirm` may restore one removed since; an INCR
  without its EXPIRE after a crash locks out without end; a burnt step lives
  exactly as long as the code is acceptable, so a late burn or clocks that
  differ accept a code twice; `otp_reveal` spends before it records.
- *Desk.*  Some endpoints write before their record (`cloud_env` delete,
  reactivate, `enable_skill`, applying a workspace).
- *Cloud.*  "A dangling pointer is refused at write time" (`main.py:7736`) does
  not survive deleting a referenced secret.
- *Start-up.*  A worker that loses the creation of a key file may read it empty
  (`_load_or_create_text` says it "reads the winner's value"), a crash between
  creation and write leaves an empty file that fails later boots; `_lifespan`
  says it does not hard-fail on a transient Redis outage, which production does;
  `_load_authn_webhook_secret` says "Sandbox never consults this", yet its
  length check refuses a sandbox; a flag of the external PDP without URL is a
  boot error where a comment says absent; a refreshed licence lives in memory
  only.

## Limits

*Not modelled.*  Cryptography (digests and signatures are injective and
unforgeable), parsing and validation, pure gates (`Refuse`), wording of answers.
Redis is a single store that loses nothing: no failover to a replica, no quorum.
Between the two looks of a bounded instance at clock or disk nothing moves, see
above.  Read-only queries, rosters and listings.  The channels behind a delivery
are an outcome.  The plan of a workspace is a sequence of operations modelled
elsewhere.  The per-event file loses no part of a line and is one file for all
emitters.  The JWKS refresher is not started by the application.
`PROJECT.json` lists the components, what of each is left out, and the hazards
with the properties that cover them.

*Coarser than the code.*  Reads that follow each other under the ledger's lock
with nothing but `emit` able to move in between are one step; when locks lapse
two counters read in consecutive awaits are still read together.  The last
call of a compaction's trim stands for its three HDELs, and the rotation of an
anchor file for its read and its replacement (`CompactIndexes`,
`CompactAnchor`).  The records `delegation_revoked` (best effort, after the cut)
and `operator_user_remove` are left out: no property rests on them.  A velocity
window may end at any time, and `pipeline_live` has one slot and one step for an
evaluation: increments that interleave are in `CapsHold` (PolicyRules).  A
subject the playbook has frozen stays frozen, so `TripAnswered` speaks of its
first freeze.  An amount or argument rule is the set of arguments
it refuses.  One principal, one tenant.

## Plan

In order: that an export never cries tamper while nothing is trimmed, as a
theorem beside `AlarmOnlyOnSplit`; that the pipeline's abstraction of the policy
and the kill switches agrees with PolicyRules and ControlPlane; a failover action
of Redis under the ledger with what verification then reports; the application
of a workspace plan; the audit reads (`inclusion_proof` lookups, `proof_scope`,
`query_decisions`) against a moving ledger.

## Running it

    tlc -config records.cfg MCRecords        # any run of the table
    tlapm ResponsesProofs.tla                # any module of proofs

Runs take from seconds to a few minutes with two workers; the proofs of a
module from one to about fifteen minutes when nothing is cached.
