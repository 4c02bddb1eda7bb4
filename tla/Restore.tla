------------------------------ MODULE Restore -------------------------------
(***************************************************************************)
(* A point-in-time restore into a new instance, and the end of an instance.*)
(* The restore controller creates the target and moves its phase           *)
(* annotation, the instance reconciler turns the phase into revisions or,  *)
(* once the target is deleted, issues deletion plans and waits for every   *)
(* site; agents run what the plan of their site says.                      *)
(*                                                                         *)
(* Every restore has the same source and the same target name; a target    *)
(* that is created again is another object, told apart by its number.      *)
(* Every site has one PostgreSQL member.  Patroni is external: a member    *)
(* that starts in a cluster nobody initialized initializes it, any other   *)
(* one copies the leader.                                                  *)
(***************************************************************************)
EXTENDS Integers, FiniteSets

CONSTANTS
    Restores,         \* PostgresRestore objects
    Sites,            \* data sites of the target
    SeedSite,         \* the site selectRestoreSeed chooses
    Policies,         \* the source's deletionPolicy, which the target takes over
    None,
    MaxTargets,       \* how often the target is created
    MaxDisturbances   \* deletions, lost writes, late observations, a source that fails

ASSUME ConstantsAssumption ==
    /\ IsFiniteSet(Sites) /\ SeedSite \in Sites /\ Sites # {SeedSite}
    /\ Policies \subseteq {"Retain", "Delete"} /\ Policies # {}
    /\ None \notin Restores /\ None \notin Sites
    /\ MaxTargets \in Nat \ {0} /\ MaxDisturbances \in Nat

VARIABLES
    restore,        \* the PostgresRestore objects
    source,         \* the source instance: "ready", "down" or "gone"
    target,         \* the target instance and its annotations, or None
    targets,        \* how many targets there have been
    status,         \* the target's status
    plan,           \* its newest signed plan, or None
    reading,        \* what a reconcile of the target has read, or None
    site,           \* per site: plan, namespace, member, Pgpool
    patroni,        \* per target: its leader, and whether its cluster was initialized
    history,        \* whether an operation was abandoned by force
    disturbances

vars == <<restore, source, target, targets, status, plan, reading, site, patroni,
          history, disturbances>>
hub == <<restore, source, target, targets, history>>

Phases == {"Seed", "Replicas", "Verify", "Completed", "none"}
Targets == [id: 1..MaxTargets, owner: Restores \cup {None}, phase: Phases,
            policy: Policies, deleting: BOOLEAN]
Plans == [target: 1..MaxTargets, revision: Nat,
          kind: {"Seed", "Replicas", "Verify", "Plain", "Retain", "Delete"}]
Observations == [primary: Sites, standbys: SUBSET Sites]
NoStatus == [revision |-> 0, fingerprint |-> <<None, "new">>, primary |-> None, standbys |-> {},
             topology |-> FALSE, ready |-> FALSE, applied |-> [s \in Sites |-> 0],
             seen |-> [s \in Sites |-> None], deleted |-> {}]

ASSUME NoneAssumption == None \notin Targets /\ None \notin Plans

TypeOK ==
    /\ restore \in [Restores -> [phase: {"absent", "", "active", "Completed", "removed"},
                                 deleting: BOOLEAN]]
    /\ source \in {"ready", "down", "gone"}
    /\ target # None => target \in Targets /\ target.id <= targets
    /\ targets \in 0..MaxTargets
    /\ status.revision \in Nat /\ status.topology \in BOOLEAN /\ status.ready \in BOOLEAN
    /\ status.primary \in Sites \cup {None} /\ status.standbys \subseteq Sites
    /\ status.seen \in [Sites -> Observations \cup {None}]
    /\ status.deleted \subseteq Sites
    /\ plan \in Plans \cup {None}
    /\ site \in [Sites -> [plan: Plans \cup {None}, namespace: 0..MaxTargets, pgpool: BOOLEAN,
                           member: {"none", "recovering", "joining", "restored", "empty"}]]
    /\ \A id \in 1..MaxTargets :
          patroni[id].leader # None => site[patroni[id].leader].member \in {"restored", "empty"}
    /\ \A s \in Sites : site[s].member # "none" \/ site[s].pgpool => site[s].namespace # 0
    /\ disturbances \in 0..MaxDisturbances

Disturb ==
    /\ disturbances < MaxDisturbances
    /\ disturbances' = disturbances + 1

-----------------------------------------------------------------------------
(* The restore controller.                                                 *)

Unfinished(r) == restore[r].phase \in {"", "active"}
Owned(r) == target # None /\ target.owner = r

\* The source must be Ready and no other operation may name the target, at every
\* reconcile.
preflight(r) ==
    /\ source = "ready"
    /\ \A q \in Restores \ {r} : ~Unfinished(q)

\* The write of the restore's own status comes last and may be lost.
setRestorePhase(r, phase) ==
    \/ restore' = [restore EXCEPT ![r].phase = phase] /\ UNCHANGED disturbances
    \/ restore[r].phase # phase /\ UNCHANGED restore /\ Disturb

restoreBlocked(r) ==
    /\ restore[r].phase = ""
    /\ restore' = [restore EXCEPT ![r].phase = "active"]
    /\ UNCHANGED <<target, targets, status, disturbances>>

CreateTarget(r) ==
    /\ target = None /\ targets < MaxTargets
    /\ \E policy \in Policies :
          target' = [id |-> targets + 1, owner |-> r, phase |-> "Seed",
                     policy |-> policy, deleting |-> FALSE]
    /\ targets' = targets + 1
    /\ status' = NoStatus
    /\ setRestorePhase(r, "active")

setTargetPhase(r, phase) ==
    /\ target' = [target EXCEPT !.phase = phase]
    /\ setRestorePhase(r, IF phase = "Completed" THEN "Completed" ELSE "active")
    /\ UNCHANGED <<targets, status>>

\* The mutated form does not wait for the seed.
SeedStarted == target.phase = "Seed"
SeedPromoted == target.phase = "Seed" /\ status.primary = SeedSite /\ status.topology

ReplicationReady == target.phase = "Replicas" /\ status.topology /\ status.standbys # {}

AcceptancePassed == target.phase = "Verify" /\ status.ready /\ status.topology

ReconcileRestore(r) ==
    /\ Unfinished(r) /\ ~restore[r].deleting
    /\ \/ ~preflight(r) /\ restoreBlocked(r)
       \/ preflight(r) /\ CreateTarget(r)
       \/ /\ preflight(r) /\ target # None
          /\ \/ ~Owned(r) /\ restoreBlocked(r)
             \/ Owned(r) /\ SeedPromoted /\ setTargetPhase(r, "Replicas")
             \/ Owned(r) /\ ReplicationReady /\ setTargetPhase(r, "Verify")
             \/ Owned(r) /\ AcceptancePassed /\ setTargetPhase(r, "Completed")
             \/ /\ Owned(r) /\ target.phase = "Completed"
                /\ restore' = [restore EXCEPT ![r].phase = "Completed"]
                /\ UNCHANGED <<target, targets, status, disturbances>>
             \/ /\ Owned(r) /\ target.phase # "Completed"
                /\ ~SeedPromoted /\ ~ReplicationReady /\ ~AcceptancePassed
                /\ restoreBlocked(r)
    /\ UNCHANGED <<source, plan, reading, site, patroni, history>>

\* A deleted restore deletes its target and waits until it is gone.  One that is
\* Completed, or has no status yet, leaves the target alone.
\* The mutated form waits without deleting it.
reconcileRestoreDeletionWaits(r) ==
    /\ restore[r].deleting /\ restore[r].phase # "removed"
    /\ restore[r].phase \in {"Completed", ""} \/ ~Owned(r)
    /\ restore' = [restore EXCEPT ![r].phase = "removed"]
    /\ UNCHANGED <<source, target, targets, status, plan, reading, site, patroni, history,
                   disturbances>>

reconcileRestoreDeletion(r) ==
    /\ restore[r].deleting /\ restore[r].phase # "removed"
    /\ IF restore[r].phase \in {"Completed", ""} \/ ~Owned(r)
       THEN restore' = [restore EXCEPT ![r].phase = "removed"] /\ UNCHANGED target
       ELSE /\ ~target.deleting
            /\ target' = [target EXCEPT !.deleting = TRUE]
            /\ UNCHANGED restore
    /\ UNCHANGED <<source, targets, status, plan, reading, site, patroni, history, disturbances>>

\* The operator annotates the deleted restore: the target becomes an instance
\* like any other, whatever it had recovered.
ForceAbandon(r) ==
    /\ restore[r].deleting /\ restore[r].phase = "active" /\ Owned(r)
    /\ target' = [target EXCEPT !.owner = None, !.phase = "none"]
    /\ restore' = [restore EXCEPT ![r].phase = "removed"]
    /\ history' = [history EXCEPT !.abandoned = TRUE]
    /\ UNCHANGED <<source, targets, status, plan, reading, site, patroni, disturbances>>

-----------------------------------------------------------------------------
(* The reconciler of the target.                                           *)

Current ==
    [target |-> target, applied |-> status.applied, seen |-> status.seen,
     deleted |-> status.deleted,
     invalid |-> /\ target.owner # None /\ target.phase # "Completed"
                 /\ restore[target.owner].phase = "removed" \/ source = "gone"]

\* While the seed recovers its site is the only one to observe anything.  The
\* mutated form waits for all of them.
aggregateTopologyOfAll(r) ==
    LET leaders == {r.seen[s].primary : s \in {t \in Sites : r.seen[t] # None}} IN
    IF (\A s \in Sites : r.seen[s] # None) /\ Cardinality(leaders) = 1
    THEN [primary |-> CHOOSE p \in leaders : TRUE, topology |-> TRUE,
          standbys |-> {m \in Sites : \A s \in Sites : m \in r.seen[s].standbys}]
    ELSE [primary |-> None, standbys |-> {}, topology |-> FALSE]

aggregateTopology(r) ==
    LET seers == {s \in Sites : r.seen[s] # None}
        leaders == {r.seen[s].primary : s \in seers} IN
    IF /\ Cardinality(leaders) = 1
       /\ IF r.target.phase = "Seed" THEN Cardinality(seers) = 1 ELSE seers = Sites
    THEN [primary |-> CHOOSE p \in leaders : TRUE, topology |-> TRUE,
          standbys |-> {m \in Sites : \A s \in seers : m \in r.seen[s].standbys}]
    ELSE [primary |-> None, standbys |-> {}, topology |-> FALSE]

restorePlan(t) ==
    IF t.owner = None \/ t.phase = "Completed" THEN "Plain" ELSE t.phase

\* An instance that restores is not Ready before Verify.  The mutated form forgets.
ReadyWhenApplied(kind, top) == top.topology /\ top.standbys # {}

setAppliedInstanceReady(kind, top) ==
    kind \notin {"Seed", "Replicas"} /\ top.topology /\ top.standbys # {}

Reconciled(r) ==
    LET fingerprint == <<r.target.owner, r.target.phase>>
        revision == IF status.fingerprint = fingerprint THEN status.revision
                    ELSE status.revision + 1
        top == aggregateTopology(r) IN
    IF r.invalid THEN [status EXCEPT !.ready = FALSE]
    ELSE [status EXCEPT !.revision = revision, !.fingerprint = fingerprint,
            !.primary = top.primary, !.standbys = top.standbys, !.topology = top.topology,
            !.ready = /\ \A s \in Sites : r.applied[s] = revision
                      /\ setAppliedInstanceReady(restorePlan(r.target), top)]

\* A target that was accepted has taken a backup since; one that was not never has.
BackupReady(t) == t.phase = "Completed"

Issued == status.fingerprint = <<None, "deleting">>
DeletionAllowed(t) == t.policy = "Retain" \/ BackupReady(t)
DeletionPlan(t) == [target |-> t.id, revision |-> status.revision + 1, kind |-> t.policy]

\* The mutated form gives the target up once its deletion plans are issued.
AcknowledgedIssued(r) == Issued
Acknowledged(r) == Issued /\ r.deleted = Sites

ReadTarget ==
    /\ reading = None /\ target # None
    /\ IF target.deleting
       THEN (~Issued /\ DeletionAllowed(target)) \/ Acknowledged(Current)
       ELSE Reconciled(Current) # status
    /\ reading' = Current
    /\ UNCHANGED <<hub, status, plan, site, patroni, disturbances>>

WriteTarget ==
    /\ reading # None /\ ~reading.target.deleting
    /\ status' = Reconciled(reading)
    /\ plan' = IF reading.invalid THEN plan
               ELSE [target |-> reading.target.id, revision |-> status'.revision,
                     kind |-> restorePlan(reading.target)]
    /\ reading' = None
    /\ UNCHANGED <<hub, site, patroni, disturbances>>

\* finalize: plans are issued before the status that records them, which may be
\* lost; then every site must have reported that it is done.
issueDeletionPlans ==
    /\ reading # None /\ reading.target.deleting /\ ~Issued
    /\ plan' = DeletionPlan(reading.target)
    /\ \/ /\ status' = [status EXCEPT !.revision = @ + 1, !.fingerprint = <<None, "deleting">>]
          /\ UNCHANGED disturbances
       \/ UNCHANGED status /\ Disturb
    /\ reading' = None
    /\ UNCHANGED <<hub, site, patroni>>

FinishDeletion ==
    /\ reading # None /\ reading.target.deleting /\ Issued
    /\ target' = None /\ plan' = None /\ reading' = None
    /\ status' = NoStatus
    /\ UNCHANGED <<restore, source, targets, site, patroni, history, disturbances>>

\* The operator annotates a deleted target that cannot be cleaned up.
ForceOrphan ==
    /\ target # None /\ target.deleting /\ reading = None
    /\ Disturb
    /\ target' = None /\ plan' = None
    /\ status' = NoStatus
    /\ history' = [history EXCEPT !.orphaned = TRUE]
    /\ UNCHANGED <<restore, source, targets, reading, site, patroni>>

-----------------------------------------------------------------------------
(* The agents, and Patroni.                                                *)

Running(s) == site[s].member \in {"restored", "empty"}
EnsureNamespace(s, id) == site[s].namespace \in {0, id}

ReceivePlan(s) ==
    /\ plan # None /\ site[s].plan # plan
    /\ site' = [site EXCEPT ![s].plan = plan]
    /\ UNCHANGED <<hub, status, plan, reading, patroni, disturbances>>

\* restoreExpectsPostgres: while the seed recovers, the others run nothing.
ExpectsPostgres(p, s) == p.kind # "Seed" \/ s = SeedSite

\* Pgpool is rendered without a restore, or while it is verified.  The mutated
\* form renders it as soon as replicas are cloned.
PgpoolEarly(p) == p.kind # "Seed"
Pgpool(p) == p.kind \in {"Verify", "Plain"}

Rendered(p, s) ==
    [plan |-> p, namespace |-> p.target, pgpool |-> Pgpool(p),
     member |-> IF site[s].member # "none" \/ ~ExpectsPostgres(p, s) THEN site[s].member
                ELSE IF p.kind = "Seed" THEN "recovering" ELSE "joining"]

Deletes(p) == p.kind \in {"Retain", "Delete"}

\* One pass over the plan; another target's namespace is an error.
ApplyPlan(s) ==
    LET p == site[s].plan IN
    /\ p # None /\ ~Deletes(p) /\ EnsureNamespace(s, p.target)
    /\ Rendered(p, s) # site[s]
    /\ site' = [site EXCEPT ![s] = Rendered(p, s)]
    /\ patroni' = [patroni EXCEPT ![p.target].initialized = @ \/ site'[s].member = "recovering"]
    /\ UNCHANGED <<hub, status, plan, reading, disturbances>>

\* Workloads go and data stays, or the namespace goes with everything in it.
deleteInstance(s) ==
    LET p == site[s].plan
        cleared == [plan |-> p, namespace |-> IF p.kind = "Delete" THEN 0 ELSE p.target,
                    pgpool |-> FALSE, member |-> "none"] IN
    /\ p # None /\ Deletes(p) /\ site[s].namespace = p.target
    /\ site[s] # cleared
    /\ site' = [site EXCEPT ![s] = cleared]
    /\ patroni' = [patroni EXCEPT ![p.target].leader = IF @ = s THEN None ELSE @]
    /\ UNCHANGED <<hub, status, plan, reading, disturbances>>

Recover ==
    /\ site[SeedSite].member = "recovering"
    /\ site' = [site EXCEPT ![SeedSite].member = "restored"]
    /\ patroni' = [patroni EXCEPT ![site[SeedSite].namespace].leader = SeedSite]
    /\ UNCHANGED <<hub, status, plan, reading, disturbances>>

Join(s) ==
    LET id == site[s].namespace
        leader == patroni[id].leader IN
    /\ site[s].member = "joining"
    /\ \/ /\ leader # None
          /\ site' = [site EXCEPT ![s].member = site[leader].member]
          /\ UNCHANGED patroni
       \/ /\ leader = None /\ ~patroni[id].initialized
          /\ site' = [site EXCEPT ![s].member = "empty"]
          /\ patroni' = [patroni EXCEPT ![id] = [leader |-> s, initialized |-> TRUE]]
    /\ UNCHANGED <<hub, status, plan, reading, disturbances>>

Promote(s) ==
    /\ Running(s) /\ patroni[site[s].namespace].leader = None
    /\ patroni' = [patroni EXCEPT ![site[s].namespace].leader = s]
    /\ UNCHANGED <<hub, status, plan, reading, site, disturbances>>

Observed(id) ==
    [primary |-> patroni[id].leader,
     standbys |-> {s \in Sites \ {patroni[id].leader} : Running(s) /\ site[s].namespace = id}]

\* Progress and result of a pass that found everything as the plan says; one of
\* another revision or of an instance that is gone is dropped.
Report(s) ==
    LET p == site[s].plan IN
    /\ p # None /\ target # None
    /\ p.target = target.id /\ p.revision = status.revision
    /\ \/ /\ Deletes(p)
          /\ site[s].namespace = 0 \/ (p.kind = "Retain" /\ site[s].namespace = p.target)
          /\ site[s].member = "none" /\ ~site[s].pgpool
          /\ status' = [status EXCEPT !.deleted = @ \cup {s}]
       \/ /\ ~Deletes(p) /\ EnsureNamespace(s, p.target) /\ Rendered(p, s) = site[s]
          /\ IF ExpectsPostgres(p, s)
             THEN /\ Running(s) /\ patroni[p.target].leader # None
                  /\ status' = [status EXCEPT !.applied[s] = p.revision,
                                  !.seen[s] = Observed(p.target)]
             ELSE status' = [status EXCEPT !.applied[s] = p.revision]
    /\ status' # status
    /\ UNCHANGED <<hub, plan, reading, site, patroni, disturbances>>

Expire(s) ==
    /\ status.seen[s] # None
    /\ Disturb
    /\ status' = [status EXCEPT !.seen[s] = None]
    /\ UNCHANGED <<hub, plan, reading, site, patroni>>

-----------------------------------------------------------------------------
(* Users, and the source.                                                  *)

CreateRestore(r) ==
    /\ restore[r].phase = "absent"
    /\ restore' = [restore EXCEPT ![r].phase = ""]
    /\ UNCHANGED <<source, target, targets, history, status, plan, reading, site, patroni, disturbances>>

DeleteRestore(r) ==
    /\ restore[r].phase \notin {"absent", "removed"} /\ ~restore[r].deleting
    /\ Disturb
    /\ restore' = [restore EXCEPT ![r].deleting = TRUE]
    /\ UNCHANGED <<source, target, targets, history, status, plan, reading, site, patroni>>

DeleteTarget ==
    /\ target # None /\ ~target.deleting
    /\ Disturb
    /\ target' = [target EXCEPT !.deleting = TRUE]
    /\ UNCHANGED <<restore, source, targets, history, status, plan, reading, site, patroni>>

SourceFails ==
    /\ source = "ready"
    /\ Disturb
    /\ source' \in {"down", "gone"}
    /\ UNCHANGED <<restore, target, targets, history, status, plan, reading, site, patroni>>

SourceRecovers ==
    /\ source = "down"
    /\ source' = "ready"
    /\ UNCHANGED <<restore, target, targets, history, status, plan, reading, site, patroni, disturbances>>

Init ==
    /\ restore = [r \in Restores |-> [phase |-> "absent", deleting |-> FALSE]]
    /\ source = "ready"
    /\ target = None /\ targets = 0
    /\ status = NoStatus
    /\ plan = None /\ reading = None
    /\ site = [s \in Sites |-> [plan |-> None, namespace |-> 0, member |-> "none", pgpool |-> FALSE]]
    /\ patroni = [id \in 1..MaxTargets |-> [leader |-> None, initialized |-> FALSE]]
    /\ history = [abandoned |-> FALSE, orphaned |-> FALSE]
    /\ disturbances = 0

SystemStep ==
    \/ ReadTarget \/ WriteTarget \/ issueDeletionPlans \/ FinishDeletion
    \/ Recover \/ SourceRecovers
    \/ \E r \in Restores : ReconcileRestore(r) \/ reconcileRestoreDeletion(r)
    \/ \E s \in Sites : \/ ReceivePlan(s) \/ ApplyPlan(s) \/ deleteInstance(s)
                        \/ Join(s) \/ Promote(s) \/ Report(s)

UserStep ==
    \/ DeleteTarget \/ ForceOrphan
    \/ \E r \in Restores : CreateRestore(r) \/ DeleteRestore(r) \/ ForceAbandon(r)

Next == SystemStep \/ UserStep \/ SourceFails \/ \E s \in Sites : Expire(s)

Spec == Init /\ [][Next]_vars
FairSpec == Spec /\ WF_vars(SystemStep)

-----------------------------------------------------------------------------
\* No member of a restore target is ever initialized empty: the other sites start
\* PostgreSQL only when the recovered seed has been promoted.  An operation that
\* is abandoned by force is the operator's to review.
NothingIsEmpty ==
    \A s \in Sites : site[s].member = "empty" => history.abandoned

\* Pgpool is exposed only when the seed has recovered and a synchronous standby
\* has been cloned from it, in a target that is not on its way out.
ServedIsRecovered ==
    [][\A s \in Sites :
          ~site[s].pgpool /\ site'[s].pgpool =>
            \/ Cardinality({t \in Sites : site[t].member = "restored"}) > 1
            \/ history.abandoned \/ target = None
            \/ target.deleting \/ target.id # site'[s].namespace]_vars

\* "The target instance passed restore acceptance": when a restore completes,
\* every site runs the recovered data and serves it, unless the target is on its
\* way out.
CompletedIsAccepted ==
    [][\A r \in Restores :
          restore[r].phase # "Completed" /\ restore'[r].phase = "Completed" =>
            \/ \A s \in Sites : site[s].member = "restored" /\ site[s].pgpool
            \/ target.deleting]_vars

\* When a target is gone, the newest plan of every site is this target's deletion
\* plan, unless it was orphaned by force: no site is left behind with a plan to
\* run something, so that whatever a late pass over an earlier plan may bring
\* back, the site's next pass removes (finalize waits for every site's report;
\* SiteApply's Settles is about that next pass).
GoneIsDeleted ==
    target = None /\ targets > 0 =>
        \/ \A s \in Sites :
              /\ site[s].plan # None
              /\ site[s].plan.target = targets /\ Deletes(site[s].plan)
        \/ history.orphaned

\* A retained namespace still belongs to the target it was made for.
Foreign == target # None /\ \E s \in Sites : ~EnsureNamespace(s, target.id)

\* A deleted restore is removed in the end, unless its target may not be deleted
\* before a backup, or finds the namespaces of an earlier target in its place.
CancelEnds ==
    \A r \in Restores :
        restore[r].deleting ~>
            \/ restore[r].phase = "removed" \/ Foreign
            \/ (target # None /\ target.deleting /\ ~DeletionAllowed(target))

\* A restore that owns its target completes, unless it or the target is deleted,
\* the source is gone, another restore names the same target, or the namespaces
\* are those of an earlier one.
RestoreEnds ==
    \A r \in Restores :
        Owned(r) /\ Unfinished(r) ~>
            \/ restore[r].phase = "Completed" \/ restore[r].deleting
            \/ (target # None /\ target.deleting) \/ source = "gone" \/ Foreign
            \/ \E q \in Restores \ {r} : Unfinished(q)
=============================================================================
