---------------------------- MODULE MajorUpgrade ----------------------------
(***************************************************************************)
(* A major PostgreSQL upgrade: the hub's phase machine, which writes one   *)
(* phase at a time into the instance's annotations; the instance           *)
(* reconciler, which turns annotations and spec into plan revisions; and   *)
(* the sites, which stop members, capture rollback storage, convert,       *)
(* reseed or roll back as the phase of their newest plan says.  Every site *)
(* is a data site with one PostgreSQL member.  How plans and reports       *)
(* travel is the subject of PlanDelivery; here a site takes the newest     *)
(* plan at some moment and a report is recorded when it is made.           *)
(***************************************************************************)
EXTENDS Naturals, FiniteSets

CONSTANTS
    Sites,          \* data sites, one PostgreSQL member each
    Primary,        \* the member that was primary when the upgrade began
    MaxEdits,       \* bound: edits of the instance's spec by its users
    MaxDeletes,     \* bound: deletions of the upgrade by its users
    MaxForced,      \* bound: force-abandon annotations
    MaxFailures     \* bound: maintenance Jobs that fail

ASSUME PrimaryAssumption == Primary \in Sites

ASSUME UpgradeBoundsAssumption ==
    MaxEdits \in Nat /\ MaxDeletes \in Nat /\ MaxForced \in Nat /\ MaxFailures \in Nat

VARIABLES
    upgrade,        \* the PostgresUpgrade: Active, Completed, Failed or Gone
    deleting,       \* its deletionTimestamp is set
    forced,         \* its force-abandon annotation is set
    phase,          \* upgrade-phase annotation of the instance, None if unowned
    expected,       \* upgrade-expected-revision annotation
    generation,     \* generation of the instance's spec
    major,          \* spec.postgres.majorVersion: source or target
    active,         \* status.activeRevision
    planned,        \* what status.planFingerprint stands for
    rec,            \* the instance reconcile in flight, with what it read
    plan,           \* newest plan in the sites' ConfigMaps
    applied,        \* status.sites[].appliedRevision
    blocked,        \* sites whose MajorUpgradeBlocked reason ends in Failed
    held,           \* the plan a site works on
    job,            \* maintenance Job of the site's phase: none, done, failed
    data,           \* contents of the member's data PVC
    restored,       \* sites whose data PVC carries the rollback-source mark
    artifact,       \* the member's snapshot or clone: none, or how it was taken
    image,          \* version the StatefulSet asks for, or stopped
    running,        \* version the member's pod runs, or stopped
    writes,         \* sites whose Pgpool is up
    edits, failures \* counters for the bounds

hubVars == <<upgrade, deleting, forced, phase, expected>>
specVars == <<generation, major>>
statusVars == <<active, planned, rec, plan>>
reportVars == <<applied, blocked>>
siteVars == <<held, job, data, restored, artifact, image, running, writes>>
vars == <<hubVars, specVars, statusVars, reportVars, siteVars, edits, failures>>

-----------------------------------------------------------------------------
\* The phases in the order the state machine takes them, and those of the
\* way back.
Forward == <<"MajorPreflight", "MajorDrain", "MajorStop", "MajorSnapshot",
             "MajorUpgradePrimary", "MajorStanzaUpgrade", "MajorStartPrimary",
             "MajorReplicas", "MajorRestoreWrites", "MajorFinalize">>

Backward == <<"MajorRollback", "MajorRollbackStart", "MajorRollbackRestoreWrites">>

RollbackPhases == {Backward[i] : i \in 1..3}
Phases == {Forward[i] : i \in 1..10} \cup RollbackPhases

\* Mutant: a deletion while writes are being restored rolls back.
DeletionRollsBackLate == {"MajorDrain", "MajorStop", "MajorSnapshot", "MajorUpgradePrimary",
                          "MajorStanzaUpgrade", "MajorStartPrimary", "MajorRestoreWrites"}

\* The phases of which a failure, and those of which a deletion, starts the
\* rollback.
FailureRollsBack == {"MajorUpgradePrimary", "MajorStanzaUpgrade", "MajorStartPrimary"}
DeletionRollsBack == {"MajorDrain", "MajorStop", "MajorSnapshot"} \cup FailureRollsBack

MajorPhase(p) == p \in Phases

\* What comes after a phase that every site has applied.
NextPhase(p) ==
    IF p \in RollbackPhases
    THEN Backward[1 + CHOOSE i \in 1..2 : Backward[i] = p]
    ELSE Forward[1 + CHOOSE i \in 1..9 : Forward[i] = p]

\* Phases in which every member is scaled to zero, and those in which every
\* member but the former primary is.
AllStopped == {"MajorStop", "MajorSnapshot", "MajorUpgradePrimary",
               "MajorStanzaUpgrade", "MajorRollback"}
PrimaryOnly == {"MajorStartPrimary", "MajorRollbackStart"}

\* Mutant: Stop does not stop the members.
MembersRunInStop(p, s) ==
    p.phase \in AllStopped \ {"MajorStop"} \/ (p.phase \in PrimaryOnly /\ s # Primary)

majorMemberStopped(p, s) == p.phase \in AllStopped \/ (p.phase \in PrimaryOnly /\ s # Primary)

\* Mutant: Pgpool comes back while the standbys are recloned.
WritesDuringReplicas(p) == p.phase \in AllStopped \cup PrimaryOnly \cup {"MajorDrain"}

majorWriteServiceStopped(p) ==
    p.phase \in AllStopped \cup PrimaryOnly \cup {"MajorDrain", "MajorReplicas"}

postgresMemberImage(p, s) ==
    IF \/ p.phase \in {"MajorReplicas", "MajorRestoreWrites", "MajorFinalize"}
       \/ p.phase = "MajorStartPrimary" /\ s = Primary
    THEN "target" ELSE p.major

\* What the rendered StatefulSet of the member asks for.
WantedImage(p, s) == IF majorMemberStopped(p, s) THEN "stopped" ELSE postgresMemberImage(p, s)

-----------------------------------------------------------------------------
allSitesApplied == \A s \in Sites : applied[s] = active

\* Mutant: the active revision must have passed the expected one.
AppliedBeyondExpected == active > expected /\ allSitesApplied

\* A phase counts as applied when every site has applied the active revision
\* and that revision is not below the one expected when the phase was set.
majorPhaseApplied == active >= expected /\ allSitesApplied

majorUpgradeFailed == blocked # {}

\* Data sites agree on a leader and the synchronous standbys replicate.
TopologyReady == \A s \in Sites : running[s] # "stopped" /\ running[s] = running[Primary]

Owned == phase # "None"

-----------------------------------------------------------------------------
Init ==
    /\ upgrade = "Active" /\ deleting = FALSE /\ forced = FALSE
    /\ phase = "None" /\ expected = 0
    /\ generation = 1 /\ major = "source"
    /\ active = 1
    /\ planned = [phase |-> "None", generation |-> 1]
    /\ rec = [on |-> FALSE, phase |-> "None", generation |-> 1, major |-> "source"]
    /\ plan = [revision |-> 1, phase |-> "None", major |-> "source"]
    /\ applied = [s \in Sites |-> 1] /\ blocked = {}
    /\ held = [s \in Sites |-> plan]
    /\ job = [s \in Sites |-> "none"]
    /\ data = [s \in Sites |-> "source"] /\ restored = {}
    /\ artifact = [s \in Sites |-> "none"]
    /\ image = [s \in Sites |-> "source"] /\ running = [s \in Sites |-> "source"]
    /\ writes = Sites
    /\ edits = 0 /\ failures = 0

-----------------------------------------------------------------------------
(* Users. *)

\* Any accepted change of the instance's spec: the webhook does not look at
\* operations under way.
EditInstance ==
    /\ edits < MaxEdits
    /\ edits' = edits + 1
    /\ generation' = generation + 1
    /\ UNCHANGED <<hubVars, major, statusVars, reportVars, siteVars, failures>>

DeleteUpgrade ==
    /\ MaxDeletes > 0 /\ upgrade # "Gone" /\ ~deleting
    /\ deleting' = TRUE
    /\ UNCHANGED <<upgrade, forced, phase, expected, specVars, statusVars, reportVars,
                   siteVars, edits, failures>>

ForceAbandon ==
    /\ MaxForced > 0 /\ deleting /\ upgrade # "Gone" /\ ~forced
    /\ forced' = TRUE
    /\ UNCHANGED <<upgrade, deleting, phase, expected, specVars, statusVars, reportVars,
                   siteVars, edits, failures>>

-----------------------------------------------------------------------------
(* The upgrade reconciler.  It reads the instance's status as it is and    *)
(* patches annotations; the upgrade's own status text is left out.         *)

\* The annotations of the next phase; the revision is counted from the
\* status just read.
advanceMajorPhase(next) ==
    /\ phase' = next
    /\ expected' = active + 1

\* The first annotations, once the instance is healthy and every site is on
\* the active revision.
BeginMajorUpgrade ==
    /\ upgrade = "Active" /\ ~deleting /\ ~Owned
    /\ major = "source" /\ allSitesApplied /\ TopologyReady
    /\ advanceMajorPhase("MajorPreflight")
    /\ UNCHANGED <<upgrade, deleting, forced, specVars, statusVars, reportVars, siteVars,
                   edits, failures>>

\* Mutant: the rollback only restarts the source version.
RollBackByRestart ==
    /\ upgrade = "Active" /\ ~deleting
    /\ phase \in FailureRollsBack /\ majorUpgradeFailed
    /\ advanceMajorPhase("MajorRollbackRestoreWrites")
    /\ UNCHANGED <<upgrade, deleting, forced, specVars, statusVars, reportVars, siteVars,
                   edits, failures>>

\* A failed Job starts the rollback in the phases that have a checkpoint.
RollBackFailure ==
    /\ upgrade = "Active" /\ ~deleting
    /\ phase \in FailureRollsBack /\ majorUpgradeFailed
    /\ advanceMajorPhase("MajorRollback")
    /\ UNCHANGED <<upgrade, deleting, forced, specVars, statusVars, reportVars, siteVars,
                   edits, failures>>

\* Every site has applied the phase: on to the next.  A failure holds the
\* machine except on its way back; Replicas also waits for the topology; the
\* step into Finalize writes the target version into the spec.
AdvancePhase ==
    /\ upgrade = "Active" /\ ~deleting
    /\ Owned /\ phase \notin {"MajorFinalize", "MajorRollbackRestoreWrites"}
    /\ majorUpgradeFailed => phase \in RollbackPhases
    /\ majorPhaseApplied
    /\ phase = "MajorReplicas" => TopologyReady
    /\ advanceMajorPhase(NextPhase(phase))
    /\ IF phase = "MajorRestoreWrites"
       THEN major' = "target" /\ generation' = generation + 1
       ELSE UNCHANGED specVars
    /\ UNCHANGED <<upgrade, deleting, forced, statusVars, reportVars, siteVars,
                   edits, failures>>

\* The last phase has been applied: Completed (after the backup that
\* Finalize requires) or, on the way back, Failed.  The annotations are
\* cleared by a second write.
FinishUpgrade ==
    /\ upgrade = "Active" /\ ~deleting /\ majorPhaseApplied
    /\ \/ phase = "MajorFinalize" /\ ~majorUpgradeFailed /\ upgrade' = "Completed"
       \/ phase = "MajorRollbackRestoreWrites" /\ upgrade' = "Failed"
    /\ UNCHANGED <<deleting, forced, phase, expected, specVars, statusVars, reportVars,
                   siteVars, edits, failures>>

\* A terminal upgrade gives up the annotations; this also finishes a
\* completion that was cut off between its two writes.
reconcileTerminalUpgrade ==
    /\ upgrade \in {"Completed", "Failed"} /\ ~deleting /\ Owned
    /\ phase' = "None" /\ expected' = 0
    /\ UNCHANGED <<upgrade, deleting, forced, specVars, statusVars, reportVars, siteVars,
                   edits, failures>>

\* A deleted upgrade: abandoned by force, released when it owns nothing or is
\* terminal, cancelled in Preflight, rolled back before writes.  In every other
\* phase, those of the rollback included, the annotations stay as they are.
reconcileUpgradeDeletion ==
    /\ deleting /\ upgrade # "Gone"
    /\ \/ /\ forced
          /\ upgrade' = "Gone" /\ phase' = "None" /\ expected' = 0
       \/ /\ ~forced /\ (~Owned \/ upgrade \in {"Completed", "Failed"})
          /\ upgrade' = "Gone" /\ UNCHANGED <<phase, expected>>
       \/ /\ ~forced /\ upgrade = "Active" /\ phase = "MajorPreflight"
          /\ upgrade' = "Gone" /\ phase' = "None" /\ expected' = 0
       \/ /\ ~forced /\ upgrade = "Active" /\ phase \in DeletionRollsBack
          /\ advanceMajorPhase("MajorRollback") /\ UNCHANGED upgrade
    /\ UNCHANGED <<deleting, forced, specVars, statusVars, reportVars, siteVars,
                   edits, failures>>

-----------------------------------------------------------------------------
(* The instance reconciler. *)

Wanted == [phase |-> phase, generation |-> generation]

\* It reads annotations and spec; an owner that no longer exists ends it
\* before it has issued anything.
ReconcileStart ==
    /\ ~rec.on /\ planned # Wanted
    /\ Owned => upgrade # "Gone"
    /\ rec' = [on |-> TRUE, phase |-> phase, generation |-> generation, major |-> major]
    /\ UNCHANGED <<hubVars, specVars, active, planned, plan, reportVars, siteVars,
                   edits, failures>>

\* It issues the next revision with what it read, whatever the annotations
\* have become since: the status update is retried on conflicts.
ReconcileFinish ==
    /\ rec.on
    /\ active' = active + 1
    /\ planned' = [phase |-> rec.phase, generation |-> rec.generation]
    /\ plan' = [revision |-> active + 1, phase |-> rec.phase, major |-> rec.major]
    /\ rec' = [rec EXCEPT !.on = FALSE]
    /\ UNCHANGED <<hubVars, specVars, reportVars, siteVars, edits, failures>>

-----------------------------------------------------------------------------
(* The site: one pass over the plan it holds, step by step. *)

ReceivePlan(s) ==
    /\ held[s].revision < plan.revision
    /\ held' = [held EXCEPT ![s] = plan]
    /\ job' = [job EXCEPT ![s] = IF held[s].phase = plan.phase THEN @ ELSE "none"]
    /\ UNCHANGED <<hubVars, specVars, statusVars, reportVars, data, restored, artifact,
                   image, running, writes, edits, failures>>

\* Snapshot: the artifact of the data PVC, taken once; whether the member
\* still ran is what makes it hot.
reconcileRollbackStorage(s) ==
    /\ held[s].phase = "MajorSnapshot" /\ artifact[s] = "none" /\ data[s] # "gone"
    /\ artifact' = [artifact EXCEPT ![s] = IF running[s] = "stopped" THEN "cold" ELSE "hot"]
    /\ UNCHANGED <<hubVars, specVars, statusVars, reportVars, held, job, data, restored,
                   image, running, writes, edits, failures>>

\* The Job a phase has at a site, and whether the pass has created it: the
\* acceptance Jobs and the preflight check come with the workloads, the others
\* before them, the DCS reset of a rollback once the PVC is restored.
JobOf(s) ==
    CASE held[s].phase = "MajorUpgradePrimary" /\ s = Primary -> "convert"
      [] held[s].phase = "MajorStanzaUpgrade" /\ s = Primary -> "stanza"
      [] held[s].phase \in {"MajorReplicas", "MajorRollbackStart"} /\ s # Primary -> "wipe"
      [] held[s].phase = "MajorRollback" -> "dcsReset"
      [] held[s].phase = "MajorPreflight" -> "check"
      [] held[s].phase \in {"MajorStartPrimary", "MajorRestoreWrites", "MajorRollbackStart"}
         /\ s = Primary -> "accept"
      [] OTHER -> "nothing"

JobCreated(s) ==
    /\ JobOf(s) # "nothing" /\ job[s] = "none" /\ data[s] # "gone"
    /\ JobOf(s) = "dcsReset" => s \in restored /\ image[s] = "stopped"
    /\ JobOf(s) \in {"accept", "check"} => image[s] = WantedImage(held[s], s)

JobSucceeds(s) ==
    /\ JobCreated(s)
    /\ JobOf(s) = "convert" => data[s] = "source"
    /\ JobOf(s) = "accept" => running[s] = image[s]
    /\ job' = [job EXCEPT ![s] = "done"]
    /\ data' = CASE JobOf(s) = "convert" -> [data EXCEPT ![s] = "target"]
                 [] JobOf(s) = "wipe" -> [data EXCEPT ![s] = "empty"]
                 [] OTHER -> data
    /\ UNCHANGED <<hubVars, specVars, statusVars, reportVars, held, restored, artifact,
                   image, running, writes, edits, failures>>

\* A Job fails for good, at its backoff limit or its deadline.  A conversion
\* may have moved files by then, or be complete and fail in its DCS reset; a
\* wipe may have removed some.
JobFails(s) ==
    /\ failures < MaxFailures /\ JobCreated(s)
    /\ failures' = failures + 1
    /\ job' = [job EXCEPT ![s] = "failed"]
    /\ \/ UNCHANGED data
       \/ JobOf(s) \in {"convert", "wipe"} /\ data' = [data EXCEPT ![s] = "broken"]
       \/ JobOf(s) = "convert" /\ data' = [data EXCEPT ![s] = "target"]
    /\ UNCHANGED <<hubVars, specVars, statusVars, reportVars, held, restored, artifact,
                   image, running, writes, edits>>

\* Rollback first scales the member and Pgpool to zero and waits for it.
ensureRollbackWorkloadsStopped(s) ==
    /\ held[s].phase = "MajorRollback"
    /\ image[s] # "stopped" \/ s \in writes
    /\ image' = [image EXCEPT ![s] = "stopped"]
    /\ writes' = writes \ {s}
    /\ UNCHANGED <<hubVars, specVars, statusVars, reportVars, held, job, data, restored,
                   artifact, running, edits, failures>>

\* Then it deletes the data PVC that does not carry this rollback's mark and,
\* once it is gone, creates it again with the artifact as its source.  The new
\* PVC binds only if there is such an artifact.
reconcileRollbackRestore(s) ==
    /\ held[s].phase = "MajorRollback"
    /\ image[s] = "stopped" /\ running[s] = "stopped" /\ s \notin writes
    /\ \/ s \notin restored /\ data[s] # "gone"
          /\ data' = [data EXCEPT ![s] = "gone"] /\ UNCHANGED restored
       \/ s \notin restored /\ data[s] = "gone"
          /\ restored' = restored \cup {s} /\ UNCHANGED data
       \/ s \in restored /\ data[s] = "gone" /\ artifact[s] # "none"
          /\ data' = [data EXCEPT ![s] = "source"] /\ UNCHANGED restored
    /\ UNCHANGED <<hubVars, specVars, statusVars, reportVars, held, job, artifact, image,
                   running, writes, edits, failures>>

\* Mutant: the pass does not wait for the artifacts.
PrepareWithoutArtifact(s) ==
    /\ JobOf(s) \in {"convert", "stanza", "wipe", "dcsReset"} => job[s] = "done"
    /\ held[s].phase = "MajorRollback" => s \in restored /\ data[s] # "gone"

\* The phase's own work at the site is done, so that the pass goes on to the
\* workloads.
prepareMajorUpgrade(s) ==
    /\ held[s].phase = "MajorSnapshot" => artifact[s] # "none"
    /\ JobOf(s) \in {"convert", "stanza", "wipe", "dcsReset"} => job[s] = "done"
    /\ held[s].phase = "MajorRollback" => s \in restored /\ data[s] # "gone"

\* StatefulSet and Pgpool Deployment as the plan renders them.
reconcileWorkloads(s) ==
    /\ prepareMajorUpgrade(s)
    /\ \/ image[s] # WantedImage(held[s], s)
       \/ (s \in writes) # ~majorWriteServiceStopped(held[s])
    /\ image' = [image EXCEPT ![s] = WantedImage(held[s], s)]
    /\ writes' = IF majorWriteServiceStopped(held[s]) THEN writes \ {s} ELSE writes \cup {s}
    /\ UNCHANGED <<hubVars, specVars, statusVars, reportVars, held, job, data, restored,
                   artifact, running, edits, failures>>

\* The pod follows its StatefulSet: it stops, or starts on data of its own
\* version, or clones an empty PVC from the former primary.
PodConverges(s) ==
    /\ running[s] # image[s]
    /\ \/ running[s] # "stopped"
          /\ running' = [running EXCEPT ![s] = "stopped"] /\ UNCHANGED data
       \/ running[s] = "stopped" /\ data[s] = image[s]
          /\ running' = [running EXCEPT ![s] = image[s]] /\ UNCHANGED data
       \/ /\ running[s] = "stopped" /\ data[s] = "empty"
          /\ running[Primary] = image[s]
          /\ running' = [running EXCEPT ![s] = image[s]]
          /\ data' = [data EXCEPT ![s] = image[s]]
    /\ UNCHANGED <<hubVars, specVars, statusVars, reportVars, held, job, restored, artifact,
                   image, writes, edits, failures>>

WorkloadsReady(s) ==
    /\ image[s] = WantedImage(held[s], s) /\ running[s] = image[s]
    /\ (s \in writes) = ~majorWriteServiceStopped(held[s])
    /\ JobOf(s) # "nothing" => job[s] = "done"

\* The workloads are as rendered and ready: the Result, which the server
\* records when it is about the active revision.
ReportResult(s) ==
    /\ prepareMajorUpgrade(s) /\ WorkloadsReady(s)
    /\ held[s].revision = active /\ applied[s] # active
    /\ applied' = [applied EXCEPT ![s] = active]
    /\ blocked' = IF MajorPhase(held[s].phase) THEN blocked \ {s} ELSE blocked
    /\ UNCHANGED <<hubVars, specVars, statusVars, siteVars, edits, failures>>

\* Progress with MajorUpgradeBlocked=True.  Its reason ends in Failed when a
\* Job other than the preflight check has failed, and in Pending while the pass
\* waits for a Job or for the workloads.
ReportBlocked(s) ==
    /\ MajorPhase(held[s].phase) /\ held[s].revision = active
    /\ \/ job[s] = "failed" /\ JobOf(s) # "check" /\ blocked' = blocked \cup {s}
       \/ job[s] # "failed" /\ ~WorkloadsReady(s) /\ blocked' = blocked \ {s}
    /\ blocked' # blocked
    /\ UNCHANGED <<hubVars, specVars, statusVars, applied, siteVars, edits, failures>>

-----------------------------------------------------------------------------
HubNext ==
    \/ BeginMajorUpgrade \/ RollBackFailure \/ AdvancePhase \/ FinishUpgrade
    \/ reconcileTerminalUpgrade \/ reconcileUpgradeDeletion
    \/ ReconcileStart \/ ReconcileFinish

SiteNext(s) ==
    \/ ReceivePlan(s) \/ reconcileRollbackStorage(s) \/ JobSucceeds(s) \/ JobFails(s)
    \/ ensureRollbackWorkloadsStopped(s) \/ reconcileRollbackRestore(s)
    \/ reconcileWorkloads(s) \/ PodConverges(s) \/ ReportResult(s) \/ ReportBlocked(s)

Next ==
    \/ EditInstance \/ DeleteUpgrade \/ ForceAbandon
    \/ HubNext
    \/ \E s \in Sites : SiteNext(s)

Spec == Init /\ [][Next]_vars

\* Reconcilers are requeued, sites hold a worker that retries, pods and Jobs
\* make progress; no failure, edit or deletion has to happen.
Fairness ==
    /\ WF_vars(BeginMajorUpgrade) /\ WF_vars(RollBackFailure) /\ WF_vars(AdvancePhase)
    /\ WF_vars(FinishUpgrade) /\ WF_vars(reconcileTerminalUpgrade)
    /\ WF_vars(reconcileUpgradeDeletion)
    /\ WF_vars(ReconcileStart) /\ WF_vars(ReconcileFinish)
    /\ \A s \in Sites : WF_vars(SiteNext(s) /\ failures' = failures)

FairSpec == Spec /\ Fairness

-----------------------------------------------------------------------------
Versions == {"source", "target"}
Plans == [revision : Nat, phase : Phases \cup {"None"}, major : Versions]

\* Every variable is of its type.
TypeOK ==
    /\ upgrade \in {"Active", "Completed", "Failed", "Gone"}
    /\ deleting \in BOOLEAN /\ forced \in BOOLEAN
    /\ phase \in Phases \cup {"None"} /\ expected \in Nat
    /\ generation \in Nat /\ major \in Versions /\ active \in Nat
    /\ planned \in [phase : Phases \cup {"None"}, generation : Nat]
    /\ rec \in [on : BOOLEAN, phase : Phases \cup {"None"}, generation : Nat, major : Versions]
    /\ plan \in Plans
    /\ applied \in [Sites -> Nat] /\ blocked \subseteq Sites
    /\ held \in [Sites -> Plans] /\ job \in [Sites -> {"none", "done", "failed"}]
    /\ data \in [Sites -> Versions \cup {"empty", "broken", "gone"}]
    /\ restored \subseteq Sites /\ artifact \in [Sites -> {"none", "cold", "hot"}]
    /\ image \in [Sites -> Versions \cup {"stopped"}]
    /\ running \in [Sites -> Versions \cup {"stopped"}]
    /\ writes \subseteq Sites /\ edits \in Nat /\ failures \in Nat

\* Some site's Pgpool forwards writes to members of the target version.
TargetServes == writes # {} /\ \E s \in Sites : running[s] = "target"

\* The operator snapshots or clones stopped PVCs only: no artifact was taken
\* of a PVC whose member ran, because prepareMajorUpgrade captures when the
\* plan says Snapshot, before the pass scales anything.
ArtifactsAreCold == \A s \in Sites : artifact[s] # "hot"

\* No conversion without a checkpoint: while the former primary's files are
\* those of the target version, or half of them, and rollback is still open,
\* every member has an artifact to be restored from.
ConversionIsRecoverable ==
    phase \in FailureRollsBack \cup {"MajorRollback"} /\ data[Primary] \in {"target", "broken"}
        => \A s \in Sites : artifact[s] = "cold"

\* The database exists in some data PVC or some rollback artifact at every
\* moment, whatever reconcileRollbackRestore deletes.
DatabaseSurvives ==
    \E s \in Sites : data[s] \in Versions \/ artifact[s] # "none"

\* Pgpool is restored on the target version only after every standby has been
\* recloned from the upgraded primary, unless the upgrade was abandoned by force.
WritesNeedStandbys == TargetServes /\ ~forced => \A s \in Sites : data[s] = "target"

\* After a rollback Pgpool is up only over data of the source version: every
\* PVC is restored or wiped first.
RolledBackToSource ==
    (\E s \in writes : held[s].phase = "MajorRollbackRestoreWrites")
        => data[Primary] = "source" /\ \A s \in Sites : data[s] \in {"source", "empty"}

\* Automatic rollback only before Pgpool is restored: no step turns to the
\* rollback while the target version serves writes.
NoRollbackAfterWrites == [][TargetServes => phase' \notin RollbackPhases]_vars

\* The upgrade waits for a person: a Job has failed in a phase that has no
\* automatic rollback.
HeldByFailure == \E s \in Sites : job[s] = "failed" /\ held[s].phase \notin FailureRollsBack

\* An upgrade that nobody deletes comes to an end, completed or rolled back,
\* or is held by a failure that needs repair.
EndsOrIsHeld == Owned ~> (~Owned \/ HeldByFailure)

\* A deletion during a rollback waits for the rollback, and so sees its end,
\* when every member has an artifact to be restored from.
DeletionEnds ==
    (deleting /\ phase \in RollbackPhases /\ \A s \in Sites : artifact[s] # "none")
        ~> (~Owned \/ HeldByFailure)
=============================================================================
