--------------------------- MODULE BackupOperations ---------------------------
(***************************************************************************)
(* Backups of one instance: the cron schedule of the instance controller,  *)
(* the full backup a major upgrade takes before it starts and the one it   *)
(* retries before it completes, all run through the directive machinery.   *)
(*                                                                         *)
(* Time is a count of schedule occurrences. An operation is                *)
(* <<"scheduled", occurrence>>, <<"preflight", 0>> or <<"post", attempt>>. *)
(* The conversion between the two upgrade backups is MajorUpgrade's        *)
(* subject and one step here.                                              *)
(***************************************************************************)
EXTENDS Directives

CONSTANTS
    MaxTime,                      \* bound on schedule occurrences
    maxPostUpgradeBackupAttempts

ASSUME BoundsAssumption == MaxTime \in Nat /\ maxPostUpgradeBackupAttempts \in Nat

VARIABLES
    clock,      \* occurrences of the schedule so far
    instance,   \* status: [next, last, terminal, backupReady]
    snapshot,   \* what a running reconcile of the instance read, or NoSnapshot
    upgrade,    \* [stage, requested, fresh, attempt, postRequested, post, waiting]
    source      \* site of the member backups are taken from

bhub == <<directive, clock, instance, snapshot, upgrade, source>>
vars == <<dvars, clock, instance, snapshot, upgrade, source>>

Times == 0..(MaxTime + 1)
Attempts == 0..maxPostUpgradeBackupAttempts
Preflight == <<"preflight", 0>>
Scheduled(n) == <<"scheduled", n>>
Post(k) == <<"post", k>>
BackupOps == {Preflight} \cup {Scheduled(n) : n \in Times} \cup {Post(k) : k \in Attempts}

ASSUME OpsAssumption == Ops = BackupOps

InstanceStatuses == [next : Times, last : Times, terminal : BOOLEAN,
                     backupReady : {"Unknown", "True", "False"}]
NoSnapshot == [canRun |-> FALSE, read |-> {}]

\* upgrade.fresh and upgrade.post are the reasons of the two conditions.
TypeOK ==
    /\ DirectivesTypeOK
    /\ clock \in 0..MaxTime
    /\ instance \in InstanceStatuses
    /\ snapshot \in [canRun : BOOLEAN, read : {{}} \cup {{i} : i \in InstanceStatuses}]
    /\ upgrade \in [stage : {"None", "Preflight", "Converting", "Finalizing", "Completed"},
                    requested : BOOLEAN,
                    fresh : {"None", "BackupRequested", "BackupVerified", "BackupFailed"},
                    attempt : Attempts, postRequested : BOOLEAN,
                    post : {"None", "BackupRequested", "BackupRetryRequested", "BackupVerified",
                            "BackupFailed", "ManualInterventionRequired"},
                    waiting : BOOLEAN]
    /\ source \in Sites

Init ==
    /\ directive = {}
    /\ PipelineInit
    /\ clock = 0
    /\ instance = [next |-> 1, last |-> 0, terminal |-> TRUE, backupReady |-> "Unknown"]
    /\ snapshot = NoSnapshot
    /\ upgrade = [stage |-> "None", requested |-> FALSE, fresh |-> "None", attempt |-> 0,
                  postRequested |-> FALSE, post |-> "None", waiting |-> FALSE]
    /\ source = CHOOSE s \in Sites : TRUE     \* the sites are interchangeable

Cost == faults < MaxFaults /\ faults' = faults + 1

Untouched == UNCHANGED <<stream, sent, down, worker, store, late, job, up, done, reported>>

-----------------------------------------------------------------------------
(* The world. *)

Tick ==
    /\ clock < MaxTime
    /\ clock' = clock + 1
    /\ UNCHANGED <<dvars, instance, snapshot, upgrade, source>>

CreateUpgrade ==
    /\ upgrade.stage = "None"
    /\ upgrade' = [upgrade EXCEPT !.stage = "Preflight"]
    /\ UNCHANGED <<dvars, clock, instance, snapshot, source>>

\* Patroni chooses another synchronous standby.
MoveSource(s) ==
    /\ s # source
    /\ Cost
    /\ source' = s
    /\ Untouched
    /\ UNCHANGED <<directive, clock, instance, snapshot, upgrade>>

-----------------------------------------------------------------------------
(* The schedule. The instance is read at the start of a reconcile and its  *)
(* schedule status is written back whole at the end.                       *)

lifecycleOperationActive == upgrade.stage \notin {"None", "Completed"}

\* The topology is taken to be settled.
BeginReconcile ==
    /\ snapshot = NoSnapshot
    /\ snapshot' = [canRun |-> ~lifecycleOperationActive, read |-> {instance}]
    /\ UNCHANGED <<dvars, clock, instance, upgrade, source>>

\* Occurrences that were missed are skipped: the last one is due.
reconcileBackupSchedules(i) == [i EXCEPT !.last = clock, !.next = clock + 1, !.terminal = FALSE]

\* Mutant: the status is persisted before the ConfigMap is created.
FinishStatusFirst ==
    \E i \in snapshot.read :
        /\ snapshot' = NoSnapshot
        /\ IF snapshot.canRun /\ i.next <= clock
           THEN LET updated == reconcileBackupSchedules(i) IN
                /\ instance' = updated
                /\ \/ directive' = directive \cup {Scheduled(updated.last)} /\ UNCHANGED faults
                   \/ Cost /\ UNCHANGED directive
           ELSE /\ instance' = i
                /\ UNCHANGED <<directive, faults>>
        /\ Untouched
        /\ UNCHANGED <<clock, upgrade, source>>

\* mergeReconciledStatus takes the schedules and the conditions of the
\* snapshot, whatever was recorded since.
FinishReconcile ==
    \E i \in snapshot.read :
        /\ snapshot' = NoSnapshot
        /\ IF snapshot.canRun /\ i.next <= clock
           THEN LET updated == reconcileBackupSchedules(i) IN
                /\ directive' = directive \cup {Scheduled(updated.last)}
                /\ \/ instance' = updated /\ UNCHANGED faults
                   \/ Cost /\ UNCHANGED instance
           ELSE /\ instance' = i
                /\ UNCHANGED <<directive, faults>>
        /\ Untouched
        /\ UNCHANGED <<clock, upgrade, source>>

-----------------------------------------------------------------------------
(* The upgrade controller. *)

\* Mutant: any answer to the request counts.
FreshBackupAnswered == upgrade.fresh \in {"BackupVerified", "BackupFailed"}

FreshBackupReady == upgrade.fresh = "BackupVerified"

\* A failed preflight backup blocks the upgrade: the first disjuncts do not
\* cover it.
ensureFreshUpgradeBackup ==
    /\ upgrade.stage = "Preflight"
    /\ \/ /\ FreshBackupReady
          /\ upgrade' = [upgrade EXCEPT !.stage = "Converting"]
          /\ UNCHANGED directive
       \/ /\ ~FreshBackupReady
          /\ upgrade.fresh # "BackupFailed" /\ ~upgrade.requested
          /\ upgrade' = [upgrade EXCEPT !.requested = TRUE, !.fresh = "BackupRequested"]
          /\ UNCHANGED directive
       \/ /\ upgrade.fresh = "BackupRequested" /\ upgrade.requested
          /\ Preflight \notin directive
          /\ directive' = directive \cup {Preflight}
          /\ UNCHANGED upgrade
    /\ Untouched
    /\ UNCHANGED <<faults, clock, instance, snapshot, source>>

Convert ==
    /\ upgrade.stage = "Converting"
    /\ upgrade' = [upgrade EXCEPT !.stage = "Finalizing"]
    /\ UNCHANGED <<dvars, clock, instance, snapshot, source>>

\* Mutant: the next attempt keeps the request of the last one.
RetryAlreadyRequested ==
    IF upgrade.attempt >= maxPostUpgradeBackupAttempts
    THEN [upgrade EXCEPT !.post = "ManualInterventionRequired"]
    ELSE [upgrade EXCEPT !.post = "BackupRetryRequested", !.waiting = TRUE]

\* The attempts are numbered from zero.
Retry ==
    IF upgrade.attempt >= maxPostUpgradeBackupAttempts
    THEN [upgrade EXCEPT !.post = "ManualInterventionRequired"]
    ELSE [upgrade EXCEPT !.attempt = @ + 1, !.postRequested = FALSE,
                         !.post = "BackupRetryRequested", !.waiting = TRUE]

\* Mutant: any answer to an attempt counts.
PostUpgradeBackupAnswered == upgrade.post \in {"BackupVerified", "BackupFailed"}

PostUpgradeBackupReady == upgrade.post = "BackupVerified"

ensurePostUpgradeBackup ==
    /\ upgrade.stage = "Finalizing"
    /\ \/ /\ PostUpgradeBackupReady
          /\ upgrade' = [upgrade EXCEPT !.stage = "Completed"]
          /\ UNCHANGED directive
       \/ /\ upgrade.post = "BackupFailed"
          /\ upgrade' = Retry
          /\ UNCHANGED directive
       \/ /\ upgrade.post \notin {"BackupVerified", "BackupFailed"}
          /\ ~(upgrade.post = "BackupRetryRequested" /\ upgrade.waiting)
          /\ ~upgrade.postRequested
          /\ upgrade' = [upgrade EXCEPT !.postRequested = TRUE, !.post = "BackupRequested"]
          /\ UNCHANGED directive
       \/ /\ upgrade.post \notin {"BackupVerified", "BackupFailed"}
          /\ ~(upgrade.post = "BackupRetryRequested" /\ upgrade.waiting)
          /\ upgrade.postRequested
          /\ Post(upgrade.attempt) \notin directive
          /\ directive' = directive \cup {Post(upgrade.attempt)}
          /\ UNCHANGED upgrade
    /\ Untouched
    /\ UNCHANGED <<faults, clock, instance, snapshot, source>>

\* NextRetryAt passes.
RetryDue ==
    /\ upgrade.waiting
    /\ upgrade' = [upgrade EXCEPT !.waiting = FALSE]
    /\ UNCHANGED <<dvars, clock, instance, snapshot, source>>

-----------------------------------------------------------------------------
(* Delivery. *)

BackupDirectiveTrusted(op) ==
    \/ op[1] = "scheduled" /\ op[2] = instance.last
    \/ op = Preflight /\ upgrade.requested
    \/ op[1] = "post" /\ upgrade.postRequested /\ op[2] = upgrade.attempt

sendDirectives(t) ==
    /\ t[1] = source
    /\ BackupDirectiveTrusted(t[2])
    /\ SendDirective(t)
    /\ UNCHANGED bhub

RunBackupJob(t) == (JobCompletes(t) \/ JobFails(t, 1)) /\ UNCHANGED bhub

Reason(o) == IF o = "Succeeded" THEN "BackupVerified" ELSE "BackupFailed"
Verified(o) == IF o = "Succeeded" THEN "True" ELSE "False"

\* The status of the upgrade takes any answer to any attempt.
recordBackupResult(x) ==
    LET op == x[1][2]
        o == x[2]
    IN
    /\ RecordResult(x)
    /\ \/ /\ op[1] = "scheduled"
          /\ instance' = [instance EXCEPT !.backupReady = Verified(o),
                                          !.terminal = @ \/ op[2] = instance.last]
          /\ UNCHANGED upgrade
       \/ /\ op[1] # "scheduled"
          /\ upgrade' = IF op = Preflight THEN [upgrade EXCEPT !.fresh = Reason(o)]
                        ELSE [upgrade EXCEPT !.post = Reason(o)]
          /\ instance' = IF o = "Succeeded" THEN [instance EXCEPT !.backupReady = "True"] ELSE instance
    /\ UNCHANGED <<directive, clock, snapshot, source>>

-----------------------------------------------------------------------------
Pipeline(t) == (AgentStep(t) \/ JobExpires(t)) /\ UNCHANGED bhub

\* The upgrade, the sweeps of the streams, the agents and the Jobs.
Progress ==
    \/ ensureFreshUpgradeBackup \/ Convert \/ ensurePostUpgradeBackup \/ RetryDue
    \/ \E s \in Sites : Connect(s) /\ UNCHANGED bhub
    \/ \E t \in Tasks : sendDirectives(t) \/ Pipeline(t) \/ RunBackupJob(t)
    \/ \E x \in Tasks \X Outcomes : recordBackupResult(x)

Next ==
    \/ Progress
    \/ BeginReconcile \/ FinishReconcile
    \/ Tick \/ CreateUpgrade
    \/ \E s \in Sites : MoveSource(s) \/ (BreakStream(s) /\ UNCHANGED bhub)
    \/ \E x \in Tasks \X Outcomes : LateWriteLands(x) /\ UNCHANGED bhub

Spec == Init /\ [][Next]_vars

\* Requeues, retry timers, redials and Job deadlines all come; the schedule's
\* own reconciles need not.
FairSpec == Spec /\ WF_vars(Progress)

-----------------------------------------------------------------------------
(* Properties. *)

Taken(op) == \E s \in Sites : <<s, op>> \in done

\* No conversion starts before a preflight backup of this upgrade was really
\* taken (ensureFreshUpgradeBackup, recordUpgradeBackupResult).
UpgradeNeedsFreshBackup == upgrade.stage \in {"Converting", "Finalizing", "Completed"} => Taken(Preflight)

\* An upgrade completes only with a post-upgrade backup in the repository, of
\* whichever attempt (ensurePostUpgradeBackup, recordUpgradeBackupResult).
CompletionHasBackup == upgrade.stage = "Completed" => \E k \in Attempts : Taken(Post(k))

\* An occurrence the status calls scheduled has its directive, over crashes
\* between the two writes: it is not lost (reconcileBackupSchedules).
IssuedBeforeRecorded == instance.last > 0 => Scheduled(instance.last) \in directive

\* The last stage of an upgrade ends: completed, or waiting for an operator.
\* Lost results are replayed, failed attempts are retried a bounded number of
\* times (ensurePostUpgradeBackup, applyDirective).
FinalizingEnds ==
    upgrade.stage = "Finalizing" ~>
        upgrade.stage = "Completed" \/ upgrade.post = "ManualInterventionRequired"

\* An operator is asked for only when every attempt has failed:
\* "Post-upgrade backup retry limit reached".
ManualIsExhausted ==
    upgrade.post = "ManualInterventionRequired" =>
        \A k \in Attempts : \E s \in Sites : <<<<s, Post(k)>>, "Failed">> \in reported
==============================================================================
