# A TLA+ model of mspsql

mspsql runs PostgreSQL across several Kubernetes clusters. A **hub** cluster
holds the custom resources and decides; an **agent** in every site's cluster
dials the hub, receives signed plans and directives over one gRPC stream, and
applies them. Patroni and etcd, not the hub, elect the PostgreSQL leader. What
is hard here is the distance between deciding and doing: plans are written,
streamed, cached, applied and reported by different processes, each of which
may stop between any two of those steps.

This directory models that path and the operations that run over it (SQL
declarations, backups, upgrades, restores, registration and deletion), checks
them with TLC and proves their central safety properties with TLAPS. `PROJECT.json` is the index: components, runs, the
source lines behind each definition, mutants, findings, hazards and theorems.

## 1. Inventory

| Part | State | Operations that change it | Talks to |
|---|---|---|---|
| Instance reconciler (`multisitepostgres_controller.go`) | status (activeRevision, planFingerprint, sites, conditions), plan ConfigMaps | Reconcile, reconcilePlan, updateInstanceStatus, finalize | control server, through ConfigMaps and status |
| Control server (`control/server.go`) | per-stream sent maps; writes site status | Connect, sendPlans, sendDirectives, record* | agent (stream), reconcilers (status, annotations) |
| Agent client (`control/client.go`, `directive_state.go`) | workers, directive state ConfigMap | Run, applyPlan, applyDirective | server, plan cache, site reconciler |
| Plan cache (`agent/cache.go`) | one ConfigMap per instance | Store | |
| Control loop (`cmd/site-agent/main.go`) | connection | runControlLoop, reconcilePeriodically, reconcileCached | client, site reconciler |
| Site reconciler (`agent/reconcile.go`, `render.go`, `ownership.go`) | the site's namespace and objects, one lock per instance | Apply, deleteInstance, pruneStaleObjects | site API server, cert-manager, MetalLB |
| Directives (`agent/directives.go`, `controller/directives.go`) | directive ConfigMaps, Jobs | issue, send, Execute, result | server, database, user, backup and upgrade controllers |
| Upgrade (`postgresupgrade_controller.go`, `agent/major_upgrade.go`) | upgrade status, instance annotations, snapshots, PVCs | the major phases and their rollback, minor member loop | instance reconciler, directives |
| Restore (`postgresrestore_controller.go`) | restore status, target instance | Bootstrap, Replicas, Verify, completion, deletion | instance reconciler |
| Credential rotation, address migration | plan fields, site conditions, Secrets | one step per signed revision | instance and site reconcilers |
| Registration (`registration/http.go`, `siteregistration_controller.go`, `bootstrap.go`) | tokens, cluster UID claims, registration status | bind, revoke, delete | WireGuard, identity |
| Identity rotation, WireGuard, lease gate | Secrets, Deployment, addresses, Lease | Request, Install; AuthorizePeer, RevokePeer; acquire, renew | |
| Webhooks, policy, telemetry, rendering text | none | | |

The behaviours that make it hard:

- the plan ConfigMaps are written *before* the status that owns their revision;
- the server forgets what it sent when a stream ends, and the agent reports a
  result once per stream; a report about a revision the status does not ask
  for is dropped;
- three goroutines of the agent apply plans, two of them from a list of the
  cache that may be out of date when the lock is theirs;
- a pass over a site can end after any API call, and the agent may be restarted
  with a plan cached that was never applied;
- a directive is executed at least once: its worker may be cancelled between
  any two of Job, durable state and result, and its last write may land after
  another worker has stored an outcome;
- long operations are phases in annotations that one controller moves and
  another turns into revisions, each from what it read some time ago, while
  Patroni moves the leader by itself;
- a bind request is six API calls that run beside other requests, revocation
  and deletion.

What should hold: Ready speaks for the contents it was computed for; what the
status records, a site has done; no site gets ahead of what the hub can
supersede; a site ends up as its newest plan wants it; a disconnected agent
only repairs; no success is reported that did not happen; nothing is dropped,
converted, served or removed before what it depends on is really there; and
every operation ends or waits for a person at a known place. The `hazards` of `PROJECT.json` give the lines.

## 2. Modules

### PlanDelivery: from the declared state to Ready

One instance, `N` sites. Everything the model leaves out of a plan is one
value of `Contents`, which is what `planFingerprint` tells apart; which fields
it hashes is data, and no property depends on it.

| State | In the code |
|---|---|
| `declared` | spec and lifecycle annotations of the instance |
| `active`, `fingerprint`, `ready` | `status.activeRevision`, `status.planFingerprint`, and the contents for which Ready=True was set |
| `desired`, `acknowledged`, `applied` | the revisions in `status.sites[]` |
| `planConfigMap` | the signed plan per site; `signed` counts signatures, as `GeneratedAt` makes every one different |
| `registration` | `SiteRegistration.status.phase` |
| `rec` | the reconcile in flight, with the status snapshot it started from |
| `sent`, `link`, `down`, `up` | the stream: what `sendPlans` has sent on it, whether it is up, messages in flight |
| `cache`, `worker` | the agent's cache entry and its `applyPlan` goroutine |
| `completed` | history: the plans whose Apply reached Ready at the site |

Actions carry the names of the functions they model. A reconcile is several
steps (`ReconcileStart`, one `reconcilePlan` per site, `updateInstanceStatus`)
because other processes run in between; `ReconcileAbort` is any failure between
the first plan write and the status update. `updateInstanceSite` is its
NotFound path, which ends the stream.

Abstractions: informer caches are read as if current (their lag widens the
window between plan and status that is modelled anyway); two leaders do not
reconcile at once; a cancelled worker's last message is not delayed past the
next plan's arrival; a report left over from an ended stream shares the queue
of the next one, so a NotFound it causes ends that next stream; each site has
a registration of its own, and no registration is named after another site.

### SiteApply: what an Apply does to a site

One instance at one site. A plan asks for a number of members or for deletion;
a managed object is its kind, its member and its `desired-revision` label.

| State | In the code |
|---|---|
| `issued` | the hub's plans, numbered by revision |
| `link` | `runControlLoop`: waiting, in the disconnected pass, dialing, online |
| `received`, `cache` | newest plan on this stream; revision in the plan cache |
| `lock`, `pass` | the instance mutex; the three callers of `Reconciler.Apply`, their stage and result |
| `namespace`, `objects`, `secrets` | what the site's API server holds |
| `drifts` | objects that others deleted: in all, and before the lock was last taken |

`EnsureNamespace`, `reconcileLoadBalancers`, `reconcileCertificates`,
`reconcileWorkloads`, `pruneStaleObjects` and `deleteInstance` are the stages
of a pass. `StageFails` is every other way a stage can end: an API error or
objects not ready, after any part of its writes. Environment actions (`Drift`,
`CertificateIssued`, `NamespaceGone`) stand for other programs.
`reconcilePeriodically` lists the cache. `Cache.List` returns the plan of an
instance once for every agent ConfigMap that carries its UID, the states of its
directives among them, so one list may apply a plan several times;
`applyListed` is the next entry of the list. In a
terminating namespace a pass fails; the objects it could still patch vanish
with the namespace. Address migration and credential rotation are left to their
own modules, major upgrades to the next one.

### MajorUpgrade: the phases of a major upgrade and its rollback

One upgrade of one instance whose sites each run one PostgreSQL member. The hub
half is `PostgresUpgradeReconciler` (phase and expected revision in the
instance's annotations) and the instance reconciler in two steps, read and
issue; the site half is what a pass does for the phase of its plan.

| State | In the code |
|---|---|
| `upgrade`, `deleting`, `forced` | the PostgresUpgrade's terminal phase, deletionTimestamp, force-abandon annotation |
| `phase`, `expected` | `upgrade-phase` and `upgrade-expected-revision` annotations; `None` when nothing owns the instance |
| `generation`, `major`, `active`, `planned`, `rec`, `plan` | spec, status and the reconcile in flight; `planned` is what `planFingerprint` hashes |
| `applied`, `blocked` | `status.sites[]`: applied revision, MajorUpgradeBlocked with a reason ending in Failed |
| `held`, `job` | the plan a site works on, the Job of its phase |
| `data`, `restored`, `artifact` | data PVC, its rollback-source mark, its snapshot or clone (`hot` if the member ran) |
| `image`, `running`, `writes` | StatefulSet, pod, Pgpool |

A site's steps follow the order of the code: `prepareMajorUpgrade` (capture,
Jobs, rollback) before `reconcileWorkloads` before the report.

Abstractions: a plan reaches a site and a report the status in one step, and a
reconcile issues plans and status together (PlanDelivery has the steps between);
the backups before and after are done; `TopologyReady` is the members' state
now, not an observation up to two minutes old; a StatefulSet that reports zero
ready pods has none running; a Job's success and failure are final while its
phase lasts; artifacts do not expire; the hub reads its own writes; the instance
has a synchronous standby count of at least one (`WritesReady`).

This module, MinorUpgrade and Restore let a site work on the last plan it
received and on no earlier one. In the code a pass over an older list of the
cache may still come after it (`SiteApply`): it applies the work of the phase
before once more, until the next pass. Such passes are left out of the three
modules, and what they show does not cover them.

### OperationLedger and Directives: one-off work at a site

`OperationLedger` is an abstract specification with three variables: a task
(an operation at a site) may be worked on more than once, is decided once and
durably, is reported only after it was decided, and no success is decided or
reported that did not happen. `Directives` is the machinery that has to keep
this promise: directive ConfigMap, stream, worker, durable state, Job, result.

| State | In the code |
|---|---|
| `directive` | directive ConfigMaps on the hub, by operation UID |
| `stream`, `sent`, `down`, `up` | the control stream, `sentDirectives`, directives and results in flight |
| `worker` | the goroutine of `applyDirective`, one per task |
| `store`, `late` | the agent's directive state ConfigMap; writes of cancelled workers that have not landed |
| `job` | the Job `Execute` creates and waits for |
| `done`, `reported` | history: Jobs that completed, results sent |

`ReceiveDirective` replays a stored outcome or starts a worker, `StartJob`,
`waitForJob` and `MarkTerminal` are the worker's steps, `BreakStream` cancels
workers at any of them. Which directives exist and what a recorded result
changes belongs to the two modules that extend this one.

The refinement mapping (`ImplementsLedger`, `INSTANCE OperationLedger WITH`)
takes the ledger's `decision` from `store`; the histories map to themselves.

### Declarations: PostgresDatabase and PostgresUser

| State | In the code |
|---|---|
| `object`, `status` | the two objects with generation, deletion, policy, force-orphan; phase, observedGeneration, conditions |
| `parent`, `primary` | the instance exists; the site of `status.primary`, where `sendDirectives` sends SQL |
| `leader` | the site where Patroni has its leader; `ObserveTopology` brings `primary` up to date |
| `catalog` | what PostgreSQL holds: database, role, user |
| `ran`, `moved` | history: operations whose SQL ran; the leader has moved |

`Reconcile`, `ReconcileDeletion`, `sendDirectives` (with its trust test) and
`recordDirectiveResult` are the hub's handlers; `RunSQLJob` is the Job. An
operation is declaration, generation and "deleting", as in the operation UID.
The script of the Job asks PostgreSQL whether it is in recovery and leaves by
`\quit 1` if so. psql ignores the argument of `\quit` and exits with 0, so on a
standby the Job completes without having run anything (`QuitsUnnoticed`). Only
the creation or change of a database is then found out, as `databaseMetadata`
misses the audit (`Audited`).

### BackupOperations: scheduled backups and those of a major upgrade

| State | In the code |
|---|---|
| `clock`, `instance` | cron occurrences; `status.backupSchedules`, BackupReady |
| `snapshot` | what a reconcile of the instance read before it writes the status |
| `upgrade` | the upgrade's stage and the reasons of its two backup conditions |
| `source` | the site backups are taken from |

`FinishReconcile` issues the due directive, then records it, and may stop in
between. `ensureFreshUpgradeBackup` and `ensurePostUpgradeBackup` (with `Retry`)
are the upgrade's gates; the conversion between them is one step. There is one
upgrade; another one's backups are other operations, as the operation UID
contains the UID of the upgrade.

### Registration: a cluster becomes a site, and stops being one

| State | In the code |
|---|---|
| `site`, `token`, `claim` | SiteRegistration, its token Secret, the ConfigMap that claims a cluster UID |
| `peer`, `allocation`, `rendered`, `gateway` | peer Secrets, reserved addresses, peers.conf, the gateway's Deployment |
| `handler`, `ctl`, `listed` | bind requests in flight, the controller's worker, the peers a RenderPeers has listed |
| `bundle`, `identity` | the manifest an operator applied to a cluster, the identity its agent installed |

The API calls of `bind` are steps: `Authorize` with the claim, `reserveAddress`,
`AuthorizePeer`, the list and the write of `RenderPeers`, `BindStatus`,
`ConsumeToken`, `Respond`. The HTTP server runs on every hub replica, so requests are concurrent;
the controller has one worker. A failed step undoes what the code undoes.

### MinorUpgrade: one member at a time

| State | In the code |
|---|---|
| `upgrade`, `ann` | PostgresUpgrade objects; owner, phase, member, members, switchover in the instance's annotations |
| `spec`, `status`, `plan`, `reading` | the instance, the newest plan, the reconcile in flight |
| `site`, `cluster` | the plan and report of each site; Patroni's leader, synchronous standby, pods and images |

The reconciler reads and issues in two steps. The upgrade controller reads,
patches the annotations and writes its status in one step whose last write may
be lost; it is the only writer of these annotations and has one worker. Upgrades
are numbered in the order of their creation. A site may act on its plan again
after the hub has issued another, and then its report is dropped. Patroni is
external: it keeps one synchronous standby and may choose another while the
first one's pod is replaced, it refuses a switchover to a member that is not the
synchronous standby (`Switchover`), and it may fail over by itself. Rollouts are
those of a changed image; direct edits of the image and other changes of the pod
template are outside the model, and so is a synchronous standby count of zero.

### Restore: a restore into a new instance, and the end of an instance

| State | In the code |
|---|---|
| `restore`, `source`, `target` | PostgresRestore objects, the source's health, the target with owner, phase, policy |
| `status`, `plan`, `reading` | the target's status with its sites' reports, the newest plan, the reconcile in flight |
| `site`, `patroni` | plan, namespace, member and Pgpool per site; leader and initialization per target |

It composes `PostgresRestoreReconciler`, the target's reconciler, its
`finalize` with `issueDeletionPlans`, and the sites. A target that is deleted
and created again is another object, and a namespace that was retained carries
the UID of the first. The recovery window is part of a "ready" source;
`DeletionAllowed` takes BackupReady to mean that an accepted target has been
backed up since; the annotation a completed drill leaves on the source is left
out. A reconcile of the target writes plans and status in one step (PlanDelivery
has the steps between), and the target has a synchronous standby count of at
least one.

## 3. Runs

| Run | Bounds | Shows |
|---|---|---|
| `sites` | 2 sites (data and witness), 1 change, 1 lost reconcile, 1 broken stream | types; Ready is honest while no reconcile is lost; caches are monotone, applied revisions are real, the hub can always supersede |
| `converge` | 1 site, 2 changes, 1 broken stream, fair | Ready keeps coming back for the declared state |
| `passes` | 2 members, 2 plans, 2 breaks, 1 drift, 1 failure, fair | a reported pass matches its plan; the cache is written first; a disconnected pass creates no namespace or Service; the site ends up as the newest plan wants it |
| `phases` | 3 sites, 2 failed Jobs, fair | nothing is converted or deleted without a cold artifact; a rollback serves only the source version; the upgrade ends or waits for a person |
| `cancel` | 2 sites, 1 edit, 1 deletion, force-abandon, 1 failed Job | writes only over recloned standbys; no rollback once the target version serves writes |
| `declare` | 2 sites, 2 declarations, 2 generations, 1 change, 1 fault, fair | the pipeline implements the ledger; an object to be dropped goes only after a Job of its DROP completed, and its SQL ran unless the leader has moved; a user waits for its role; a deletion ends |
| `backups` | 2 sites, 1 occurrence, 2 post-upgrade attempts, 1 fault, fair | no conversion without a fresh backup, no completion without a new one, no occurrence recorded without a directive; finalizing ends |
| `bind` | 2 registrations, 2 clusters, 2 requests at once, 2 addresses, a bundle applied to the wrong cluster, 1 disturbance, fair | installed identities are authorised; addresses are distinct; the gateway gets the right peers whichever list is written last; a deletion ends with token and peer gone |
| `minor` | 3 members on 2 sites, 2 upgrades, 1 disturbance, fair | verified members run the target; one member is down at a time and never the leader; completion is real; an upgrade that owns the instance ends, or its switchover has become impossible |
| `restore` | 2 restores, 2 sites, 2 targets, 2 disturbances, fair | no empty database; Pgpool only over recovered data; completion is real; a target that is gone left every site with its deletion plan; restores and cancellations end |
| `names` | site and registration named differently, fair | **violated**: the instance never becomes Ready |
| `gone` | 2 sites, 1 deletion | **violated**: every data PVC is deleted and there is no artifact to restore (only the pgBackRest repository, outside the model, is left) |

Bounds. Two contents let the declared state change and change back. One lost
reconcile and one further change are what it takes to use a revision twice; a
second loss repeats the first, as the revision is still counted from the
status. Two plans are what it takes for a stale pass to meet a newer one; two
members let a stage stop half way and let a plan shrink the site. `MaxQueue`
bounds messages in flight: a sender waits, as gRPC's flow control makes it.
For the major upgrade, two failures let a rollback's own Jobs fail too; three
sites give the phases two standbys that can be at different steps.

Two generations let the answer to an old operation arrive after a newer one,
and one fault is a broken stream, a failed or lost Job or a moved leader at
the worst moment. One occurrence beside both upgrade backups is what it takes
to mix their results up; the state in which all attempts of the post-upgrade
backup have failed takes two faults and is outside run `backups`. Two requests, one of them for the wrong registration,
meet at every step of each other; one disturbance is a revocation, a crash or a
failed call between any two. Three members are the fewest for which a switchover
has a choice and a failover can go to a third one. Two restores and two targets
let one restore find what another left behind. The theorems of section 5 hold
for every value of these bounds.

Deadlock is checked in every run of the first two modules. The operations of
the other modules end, so their models may stop; the liveness properties say
where. The type invariants of the modules other than PlanDelivery are stated
beside their variables and hold under the bounds of their runs; they are not
listed, as the properties above rest on them.

## 4. Fairness

`PlanDelivery`: the reconciler is triggered by every heartbeat and requeued
after an error, so a reconcile that can again and again start does
(`SF(ReconcileStart)`); the server polls every five seconds; the agent redials
for ever. Storing and applying a plan are assumed to succeed in the end,
and the topology to be healthy at some reconcile after every point. A stream at
rest is replaced sooner or later: agent certificates live 24 hours and
installing a new one rolls the agent's Deployment. That last assumption
matters: a result dropped because it overtook the status update is sent again
only on another stream.

`SiteApply`: goroutines run, a dial succeeds in the end, Go's mutex does not
starve the worker, a list of the cache ends and the next one is made
(`SF(reconcilePeriodically)`), cert-manager and the namespace controller do their
part. No failure, drift, break or new plan is ever required.

`MajorUpgrade`: each reconciler is triggered by the annotation and status
changes it waits for, and each site goes on with its pass (weak fairness of every
hub step and of each site as a whole). No failure, edit or deletion is required.

The other modules have one weak-fairness condition, on the disjunction of the
steps that need no user and no fault (`SystemStep`, `Progress`): as long as some
controller, stream, worker, Job or agent can move, one does. Events, requeues
after errors, the informers' resync, redialling and Job deadlines justify this.
It is weaker than fairness of each step. Late writes, breaks, failovers,
failures and operators' actions are never required; expiry of a registration
token is, as its time passes by itself.

## 5. Proofs

The theorems hold for every value of the constants, with two exceptions that
their statements name: four theorems of `MajorUpgradeProofs` fix two bounds, and
`RoleTheorem` one generation. They use the named `ASSUME`s of the modules: bounds are naturals, there is at least one site, `None` and
`NoContent` are not values, operations and bundles are of the stated form, an
instance has two or more members and every data site has one.

`PlanDeliveryProofs`:

- `TypeCorrect`: `Spec => []TypeOK`.
- `Supersedable`: `Spec => []HubCanSupersede`, from `RevisionInv`. The status
  asks every site for exactly `active`, a reconcile in flight works on `active`
  or its successor, and so nothing anywhere is more than one ahead. The
  channels and the worker have to be part of the invariant, as what is in
  flight will be cached.
- `CacheIsMonotone`: `Spec => CacheMonotone`. Only `StorePlan` touches a cache.
- `AppliedIsReal`: `Spec => []AppliedWasCompleted`, from `ReportInv`: a worker
  that applies, applies what is cached, and a report in flight is backed by the
  cache and, for a Result, by a completed Apply.
- `ReadyTheorem`: `Spec => []HonestUntilAbort`, from `HonestInv` with the
  two above. Every plan in a ConfigMap, a channel, a worker, a cache or the
  history is *faithful*: older than `active`, or equal to what `fingerprint`
  says, or the one that the reconcile in flight is about to make active. A lost
  reconcile is what breaks this (section 6).

`DirectivesProofs`:

- `Implements`: `DirectivesSpec => ImplementsLedger`, the refinement. `IInv` says
  that wherever a success is written down (Job, worker, store, late write,
  report) the work was done, and that what was reported is stored. Late writes
  have to be in it: they land after their worker is gone.
- `ResultsTheorem`: a result in flight was stored, and a success among them is of
  a completed Job.

`DeclarationsProofs`:

- `DeclarationsImplement`: every step of the controllers is a step of the
  machinery or leaves it alone, so `Spec => ImplementsLedger`.
- `DropTheorem`: `Spec => []DeletedWasDropped`, from `DInv` and `SqlInv`. `DInv`: a
  published deletion is the live object's own operation, so that an answer to it
  cannot be an answer to anything older. `SqlInv`: as long as the leader has not
  moved, SQL is sent to it and to no other site, so a Job that completed has run.
  With a failover a Job may complete on a standby (section 6).
- `RoleTheorem`: `Spec => []UserAfterRole`, when the database declares the role
  from its first generation on (`RoleGeneration = 1`), from `RoleInv`: a Ready
  database was created by a Job that also created the role, and dropping the
  database leaves the role. For a role that a later generation adds it does not
  hold: Ready may be of the generation before (`ReadyIsApplied`, section 6).

`RegistrationProofs`:

- `IdentityTheorem`, `AddressTheorem`: `IdentityIsAuthorized` and
  `LivePeersDistinct`. The invariant follows an address from the allocation to
  the request, from there to the peer and to the identity, for registrations
  that may connect; `BranchIsDue` says that the controller withdraws only what is
  revoked or being deleted. Without the restriction it does not hold: a request
  that is still running when its registration is revoked keeps an address that
  may by then be another's.

`RestoreProofs`:

- `NothingEmptyTheorem`: `Spec => []NothingIsEmpty`, from `RecoveryInv`: whatever
  lets a second site start PostgreSQL (a phase, a reading, a plan, a member that
  joins) comes after the recovered cluster was initialized.
- `GoneDeletedTheorem`: `Spec => []GoneIsDeleted`, from `DeletionInv`: the deletion
  plan of a target is one plan however often it is issued, and a site whose report
  is recorded holds that plan. Targets of one name come one after the other, so
  the plan that the sites hold is that of the target that is gone. What a site
  runs then is its next pass's business, which `Settles` is about.
- `ServedTheorem`, `AcceptedTheorem`: `Spec => ServedIsRecovered` and
  `Spec => CompletedIsAccepted`, from `JInv`, which adds `AcceptInv` about a target
  that is neither deleted nor orphaned. The controllers act on observations that
  sites made, hub and reconcile read, and time has passed over. `ViewsInv` says
  that an observation of this target stays true, as a member that has recovered
  stays; `PlansInv` and `HeldInv` that no plan, at the hub or still held by a
  site, brings up Pgpool before two such members exist; `AppliedInv` that a site
  that applied the newest revision is as that revision says, so that Ready means
  every site serves. `JInv` was first checked by TLC on three instances.

`SiteWorkProofs`, about `SiteApply` and about `BackupOperations`, which share no
constant and no variable. For `SiteApply`, from `ApplyInv`:

- `CachedTheorem`: `ApplySpec => []CachedBeforeApplied`: no goroutine works on a plan
  newer than the cache, so no object does (`CacheInv`).
- `ReportedTheorem`: `ApplySpec => ReportedPassMatches`. A pass writes in four stages,
  and Kubernetes, a restart or another goroutine may step in between. `LockInv`
  says that only the holder of the lock is inside `reconcile`; `StageInv` what holds
  at each stage (the namespace is there, what the earlier stages wrote is in
  place); `LabelInv` that a label is never on more objects than its plan asks for,
  so that after pruning nothing is left over. Objects that others deleted before
  the pass are back; only one that is deleted during the pass may be missing.
- `DisconnectedTheorem`: `ApplySpec => DisconnectedCreatesNothing`.

`ApplyInv` was first checked by TLC under `SiteApply_passes.cfg` and with three
plans, two drifts and two failures (31 million states). For `BackupOperations`, on top of the invariant of
`DirectivesProofs`:

- `FreshTheorem`, `CompletionTheorem`: `UpgradeNeedsFreshBackup` and
  `CompletionHasBackup`. The gates read conditions that the hub wrote from
  results; `GatesAreReal` says that a verified condition stands for a backup that
  was taken, because a success in flight is of a Job that completed.
- `IssuedTheorem`: `Spec => []IssuedBeforeRecorded`, from `IssuedIsKept`. A reconcile
  writes back the schedule it read, so what it read is part of the invariant.

`MinorUpgradeProofs`:

- `VerifiedTheorem`, `CompletedTheorem`: `Spec => []VerifiedRunsTarget` and
  `Spec => CompletedRunsTarget`. The controller waits for a revision *number*, and
  a reconcile that read the annotations before the controller's patch may take
  that number for the work before. `FreshInv` says why this does no harm: such
  a reconcile makes a new revision, at which no site has applied anything, so
  the instance is not Ready, and the next reconcile moves past it. `WorkInv` says
  that a revision is one piece of work and that where it is applied the members
  run it; `GenerationInv` that a generation has one image; `VerifiedInv` that no
  plan still on its way takes a verified member back. `IInv` was first checked by
  TLC (three members, two sites, two upgrades, one disturbance).
- `OneAtATimeTheorem`, `LeaderTheorem`: `Spec => []OneAtATime` and
  `Spec => []LeaderIsNotRolled`, from `OrderInv`. A member is *calm* when it is up and
  the annotations, the plan, its site and a reconcile in flight all want the image
  that it runs; `CalmInv` says that all members but one are, and all of them
  during a switchover. `SwitchInv` says that the switchover of the current plan
  goes to a verified member; `OldPlanInv` that one which a site still holds of an
  earlier plan is the same or has happened, so that acting on it again moves
  nobody; `LeaderInv` that the leader is calm, which rests on how old an observed
  primary can be (`SeenInv`). `OldPlanInv` was first checked by TLC under
  `MCMinorUpgrade_minor.cfg`.

`MajorUpgradeProofs`, over any number of sites and of failing Jobs:

- for an upgrade that nobody edits or deletes (`Undisturbed`: `MaxEdits = 0 /\
  MaxDeletes = 0`; section 6 says what breaks otherwise): `ColdTheorem`, `RecoverableTheorem`, `SurvivesTheorem`, `RolledBackTheorem`:
  `ArtifactsAreCold`, `ConversionIsRecoverable`, `DatabaseSurvives` and
  `RolledBackToSource`. `HubInv` keeps revisions in step with phases: a
  reconcile in flight is for the current phase, and as long as the plan is not
  yet that of the phase the expected revision is out of reach. `ReportInv` says
  that a site that applied the active revision stays as the phase left it, and
  cannot report a failure any more; it is what keeps a rollback from starting
  while a reconcile is in flight. `ForwardInv` and `BackwardInv` carry what each
  phase establishes at every site to the next. `IInv` was first checked by TLC
  under `MajorUpgrade_phases.cfg`.
- for any upgrade, edited, deleted, abandoned or not: `WritesTheorem` and
  `NoRollbackTheorem`, `Spec => []WritesNeedStandbys` and
  `Spec => NoRollbackAfterWrites`. An edit lets a reconcile in flight answer for a
  phase that it has not seen, so `IInv` does not hold. `GInv` does: `PaceInv` says
  how far behind the phase a plan can then be, and `EraInv` that the upgrade goes
  through three eras, in which no member is of the target version, Pgpool is
  down everywhere, or every PVC is of the target version, however far behind.

Only model-checked: liveness (`Converges`, `Settles`, `EndsOrIsHeld`,
`DeletionEnds`, `FinalizingEnds`, `GatewayConverges`, `RemovalEnds`, `UpgradeEnds`,
`CancelEnds`, `RestoreEnds`), as fairness and ENABLED are out of the prover's
reach. Every safety property that a passing run checks is proved.

## 6. What the code does not keep

Two runs are violated:

1. `names`: the server looks for the registration's name in `status.sites`,
   which holds the names of `spec.sites`. With the documented example the two
   differ and no report is ever recorded.
2. `gone`: deletion in Drain, Stop or Snapshot starts a rollback, which deletes
   the data PVCs before artifacts exist. The failure path refuses these phases.

Others are stated in the modules, and hold with the exception that the checked
property names. To see the counterexample, put the statement in place of the
properties of the cfg:

| Statement | Under | What happens |
|---|---|---|
| `ReadyIsHonest` | `MCPlanDelivery_sites.cfg` | a plan of revision n+1 is sent, the reconcile is lost, the declared state changes and n+1 is given to the new contents; the site refuses the second plan but has reported n+1 applied. The next change heals it |
| `DisconnectedRepairsOnly` | `SiteApply_passes.cfg` | the disconnected pass takes the cached plan as its own predecessor, so the coordinated-change gate never closes |
| `DisconnectedKeepsServices` | `SiteApply_passes.cfg` | the same pass prunes Services that still carry the label of the plan before |
| `ArtifactsAreCold` | `MajorUpgrade_cancel.cfg` | a phase counts as applied by revision number; an edit being reconciled while the hub advances takes the expected number with the old phase, and skipping Stop makes Snapshot capture running members |
| `DeletionEnds` (MajorUpgrade) | `MajorUpgrade_cancel.cfg`, FairSpec | a deleted upgrade is reconciled by the deletion path only, which does not advance the rollback it started |
| `ReadyIsApplied` | `MCDeclarations_declare.cfg` | the Succeeded condition of the generation before still stands when the new one is first observed |
| `DropReachedPostgreSQL` | `MCDeclarations_declare.cfg`, Spec | the leader moves after the DROP was sent; its Job meets a standby, leaves psql with status 0 and counts as done, and the declaration goes while PostgreSQL keeps the database ("PostgreSQL accepted the idempotent declaration", `directives.go:427`) |
| `DropIsFinal` | `MCDeclarations_declare.cfg`, Spec | directives run side by side, so a Job of the creation that is still running when the DROP has completed creates the database again |
| `SwitchoverFollows` | `MCMinorUpgrade_minor.cfg` | Patroni chooses another synchronous standby while the candidate's pod is replaced and refuses the switchover from then on; no fault is needed (`MaxDisturbances = 0`) |
| `ManualIsExhausted` | `MCBackupOperations_backups.cfg`, Spec, `MaxFaults = 2` | a replayed failure of an old attempt counts against the next |
| `BindingIsExclusive` | `MCRegistration_bind.cfg`, Spec, one cluster with a bundle for each of two established registrations, 3 attempts | a request that fails to authorise its peer releases the claim another request relies on |

Exceptions that the checked properties name: `DeletedWasDropped` asks for the SQL
only where the leader has not moved. `UpgradeEnds` excludes a switchover that can
never happen, after a failover to a third member (`Usurped`) or because the
candidate is not the synchronous standby any more (`Refused`); the agent then
reports an error at every pass. `CancelEnds` and `RestoreEnds` exclude a target whose retained
namespaces belong to an earlier one (`Foreign`) and a policy Delete without a
backup; `RestoreEnds` also excludes a second restore of the same target, as
preflight runs at every reconcile. `OneAtATime`, `NothingIsEmpty` and
`GoneIsDeleted` exclude what an operator abandoned or orphaned by force. In the
model as in the code, a cluster's claim outlives its registration, two upgrades
created before either owns the instance block each other, and annotations may
outlive a minor upgrade deleted between its two last writes.

## 7. What would come next

1. `CredentialRotation` and `AddressMigration`: one step per signed revision.
2. Identity rotation with its two slots.
3. Expiry of major-upgrade artifacts, which needs clocks.
4. An abstract ledger of revisions that PlanDelivery implements.

## 8. Not modelled

Credential rotation and address migration are protocols of their own inside
`prepareOperations`; identity rotation and the lease gate depend on wall clocks
and on client-go's leases; DCS quorum and replication lag enter the model only
as "topology ready". Left out as data: cryptography, certificates' contents,
SQL and shell text, pod templates, telemetry and events, the recovery window,
admission rules (they bound the inputs), the device plugin, generated code.
`PROJECT.json` lists every part and the reason.
