---------------------------- MODULE MinorUpgrade ----------------------------
(***************************************************************************)
(* A minor upgrade of one instance: the upgrade controller moves the       *)
(* instance's annotations from member to member, the instance reconciler   *)
(* turns them into revisions and judges readiness from what the sites      *)
(* report, agents restart members and ask Patroni for the switchover.      *)
(*                                                                         *)
(* A reconcile of the instance reads at one step and writes at another, so *)
(* annotations and reports change in between.  Plans and status are        *)
(* written together: PlanDelivery has the behaviours in which they are not.*)
(* The upgrade controller reads, patches and writes its status in one step *)
(* (one worker, and nobody else writes the annotations), whose last write  *)
(* may be lost.                                                            *)
(***************************************************************************)
EXTENDS Integers, FiniteSets

CONSTANTS
    Members,          \* PostgreSQL members, numbered in the order of their names
    Sites,            \* data sites
    SiteOf,           \* the site of a member
    Upgrades,         \* PostgresUpgrade objects, numbered in the order they are created
    Target,           \* the image each of them asks for
    None,
    MaxDisturbances   \* edits, deletions, failovers, lost writes, late observations

ASSUME ConstantsAssumption ==
    /\ Members \subseteq Nat /\ IsFiniteSet(Members) /\ Cardinality(Members) > 1
    /\ SiteOf \in [Members -> Sites] /\ \A s \in Sites : \E m \in Members : SiteOf[m] = s
    /\ Upgrades \subseteq Nat /\ Target \in [Upgrades -> Nat \ {0}]
    /\ None \notin Members /\ None \notin Upgrades
    /\ MaxDisturbances \in Nat

VARIABLES
    upgrade,        \* the PostgresUpgrade objects
    ann,            \* the upgrade annotations of the instance
    spec,           \* the instance's image and generation
    status,         \* the instance's status
    plan,           \* the newest signed plan
    site,           \* per site: the plan it works on, and what it reported
    cluster,        \* Patroni's leader and synchronous standby, the members' pods
    reading,        \* what a reconcile of the instance has read, or None
    history,        \* whether Patroni failed over, or an upgrade was abandoned
    disturbances

vars == <<upgrade, ann, spec, status, plan, site, cluster, reading, history, disturbances>>
hub == <<upgrade, ann, spec>>

Images == {0} \cup {Target[u] : u \in Upgrades}
NoOwner == [owner |-> None, phase |-> "none", member |-> None, members |-> {},
            from |-> None, candidate |-> None, switched |-> FALSE, revision |-> 0]

Observations == [primary: Members, standbys: SUBSET Members]
Plans == [revision: Nat, image: Images, target: Images, targets: SUBSET Members,
          from: Members \cup {None}, candidate: Members \cup {None}]

MembersOf(s) == {m \in Members : SiteOf[m] = s}

TypeOK ==
    /\ upgrade \in [Upgrades -> [phase: {"absent", "", "active", "Completed", "removed"},
                                 deleting: BOOLEAN]]
    /\ ann \in [owner: Upgrades \cup {None}, phase: {"none", "Member", "Switchover", "Finalize"},
                member: Members \cup {None}, members: SUBSET Members,
                from: Members \cup {None}, candidate: Members \cup {None},
                switched: BOOLEAN, revision: Nat]
    /\ ann.owner # None <=> ann.member # None
    /\ ann.phase = "Switchover" => ann.from # None /\ ann.candidate # None
    /\ spec \in [image: Images, generation: Nat \ {0}]
    /\ status.revision \in Nat /\ status.observed \in 1..spec.generation
    /\ status.topology \in BOOLEAN /\ status.ready \in BOOLEAN
    /\ status.primary \in Members \cup {None} /\ status.standbys \subseteq Members
    /\ plan \in Plans
    /\ site \in [Sites -> [plan: Plans, applied: Nat, seen: Observations \cup {None}]]
    /\ cluster \in [leader: Members \cup {None}, sync: Members \cup {None},
                    up: SUBSET Members, image: [Members -> Images]]
    /\ cluster.leader # None => cluster.leader \in cluster.up /\ cluster.sync # cluster.leader
    /\ history \in [failover: BOOLEAN, abandoned: BOOLEAN]
    /\ disturbances \in 0..MaxDisturbances

Fingerprint(a, generation) ==
    [generation |-> generation, owner |-> a.owner, phase |-> a.phase,
     member |-> a.member, members |-> a.members]

Disturb ==
    /\ disturbances < MaxDisturbances
    /\ disturbances' = disturbances + 1

-----------------------------------------------------------------------------
(* The instance reconciler.                                                *)

\* Every data site must report, and all the same leader; a synchronous standby
\* is one every site reports.
aggregateTopology(seen) ==
    IF /\ \A s \in Sites : seen[s] # None
       /\ Cardinality({seen[s].primary : s \in Sites}) = 1
    THEN [primary |-> CHOOSE m \in Members : \A s \in Sites : seen[s].primary = m,
          standbys |-> {m \in Members : \A s \in Sites : m \in seen[s].standbys},
          topology |-> TRUE]
    ELSE [primary |-> None, standbys |-> {}, topology |-> FALSE]

\* The upgrade's part of a plan: which members get the target image, and the
\* switchover that is asked for.  The mutated form targets every standby.
upgradePlansStandbys(a, s, revision) ==
    [revision |-> revision, image |-> s.image,
     target |-> IF a.owner = None THEN s.image ELSE Target[a.owner],
     targets |-> IF a.owner = None THEN {} ELSE Members \ {status.primary},
     from |-> IF a.phase = "Switchover" THEN a.from ELSE None,
     candidate |-> IF a.phase = "Switchover" THEN a.candidate ELSE None]

upgradePlans(a, s, revision) ==
    [revision |-> revision, image |-> s.image,
     target |-> IF a.owner = None THEN s.image ELSE Target[a.owner],
     targets |-> a.members \cup ({a.member} \ {None}),
     from |-> IF a.phase = "Switchover" THEN a.from ELSE None,
     candidate |-> IF a.phase = "Switchover" THEN a.candidate ELSE None]

\* The status a reconcile computes from what it read.  An owner that no longer
\* exists is an invalid contract: no plan is issued.
Computed(r) ==
    LET fingerprint == Fingerprint(r.ann, r.spec.generation)
        revision == IF status.fingerprint = fingerprint THEN status.revision
                    ELSE status.revision + 1
        top == aggregateTopology([s \in Sites |-> r.site[s].seen]) IN
    IF r.orphan
    THEN [revision |-> status.revision, fingerprint |-> status.fingerprint,
          observed |-> r.spec.generation, primary |-> status.primary,
          standbys |-> status.standbys, topology |-> status.topology, ready |-> FALSE]
    ELSE [revision |-> revision, fingerprint |-> fingerprint, observed |-> r.spec.generation,
          primary |-> top.primary, standbys |-> top.standbys, topology |-> top.topology,
          ready |-> /\ \A s \in Sites : r.site[s].applied = revision
                    /\ top.topology /\ top.standbys # {}]

Current ==
    [ann |-> ann, spec |-> spec, site |-> [s \in Sites |->
       [applied |-> site[s].applied, seen |-> site[s].seen]],
     orphan |-> ann.owner # None /\ upgrade[ann.owner].phase = "removed"]

\* An event, a report or a requeue; a reconcile that would write what is there
\* changes nothing.
ReadInstance ==
    /\ reading = None
    /\ Computed(Current) # status
    /\ reading' = Current
    /\ UNCHANGED <<hub, status, plan, site, cluster, history, disturbances>>

WriteInstance ==
    /\ reading # None
    /\ status' = Computed(reading)
    /\ plan' = IF reading.orphan THEN plan
               ELSE upgradePlans(reading.ann, reading.spec, status'.revision)
    /\ reading' = None
    /\ UNCHANGED <<hub, site, cluster, history, disturbances>>

-----------------------------------------------------------------------------
(* The upgrade controller.                                                 *)

Owner(u) == ann.owner = u
Unfinished(u) == upgrade[u].phase \in {"", "active"}
Lowest(S) == CHOOSE m \in S : \A n \in S : m <= n

\* The first candidate is a synchronous standby, the others are any members but
\* the leader.  The mutated form takes the members in the order of their names.
selectUpgradeCandidateInOrder(upgraded) ==
    IF Members \ upgraded = {} THEN None ELSE Lowest(Members \ upgraded)

selectUpgradeCandidate(upgraded) ==
    LET candidates == (IF upgraded = {} THEN status.standbys ELSE Members \ upgraded)
                      \ {status.primary} IN
    IF candidates = {} THEN None ELSE Lowest(candidates)

allSitesApplied == \A s \in Sites : site[s].applied = status.revision

\* The mutated forms do not wait for the revision the last patch leads to, and
\* wait for the one after it.
instanceReadyForOperationNow ==
    /\ allSitesApplied
    /\ status.observed = spec.generation
    /\ status.ready /\ status.topology

instanceReadyForOperationLater ==
    /\ status.revision > ann.revision
    /\ allSitesApplied
    /\ status.observed = spec.generation
    /\ status.ready /\ status.topology

instanceReadyForOperation ==
    /\ status.revision >= ann.revision
    /\ allSitesApplied
    /\ status.observed = spec.generation
    /\ status.ready /\ status.topology

clearUpgradeAnnotations == NoOwner

\* Annotations are patched first; the write of the upgrade's own status may fail.
setUpgradePhase(u, phase) ==
    \/ upgrade' = [upgrade EXCEPT ![u].phase = phase] /\ UNCHANGED disturbances
    \/ upgrade[u].phase # phase /\ UNCHANGED upgrade /\ Disturb

Untouched == <<status, plan, site, cluster, reading, history>>

\* Preflight: the instance is Ready and no other upgrade of it is unfinished.
\* Backups are BackupOperations' business and are taken to be recent.
Preflight(u) ==
    /\ status.ready
    /\ \A v \in Upgrades \ {u} : ~Unfinished(v)

CompleteAtOnce(u) ==
    /\ Preflight(u) /\ ann.owner = None /\ spec.image = Target[u]
    /\ upgrade' = [upgrade EXCEPT ![u].phase = "Completed"]
    /\ UNCHANGED <<ann, spec, disturbances, Untouched>>

BeginUpgrade(u) ==
    /\ Preflight(u) /\ ann.owner = None /\ spec.image # Target[u]
    /\ selectUpgradeCandidate({}) # None
    /\ ann' = [NoOwner EXCEPT !.owner = u, !.phase = "Member",
                 !.member = selectUpgradeCandidate({}), !.revision = status.revision + 1]
    /\ setUpgradePhase(u, "active")
    /\ UNCHANGED <<spec, Untouched>>

\* The rolled member is verified: switch over to it the first time, and roll the
\* next one, or the stable plan when none is left, after that.
MemberVerified(u) ==
    LET upgraded == ann.members \cup {ann.member}
        next == selectUpgradeCandidate(upgraded) IN
    /\ Owner(u) /\ ann.phase = "Member" /\ instanceReadyForOperation
    /\ \/ /\ ~ann.switched
          /\ ann' = [ann EXCEPT !.phase = "Switchover", !.members = upgraded,
                       !.from = status.primary, !.candidate = ann.member,
                       !.revision = status.revision + 1]
          /\ UNCHANGED spec
       \/ /\ ann.switched /\ next # None
          /\ ann' = [ann EXCEPT !.member = next, !.members = upgraded,
                       !.revision = status.revision + 1]
          /\ UNCHANGED spec
       \/ /\ ann.switched /\ next = None
          /\ ann' = [ann EXCEPT !.phase = "Finalize", !.revision = status.revision + 1]
          /\ spec' = [image |-> Target[u], generation |-> spec.generation + 1]
    /\ setUpgradePhase(u, "active")
    /\ UNCHANGED Untouched

SwitchoverVerified(u) ==
    LET next == selectUpgradeCandidate(ann.members) IN
    /\ Owner(u) /\ ann.phase = "Switchover"
    /\ status.primary = ann.candidate /\ status.topology
    /\ next # None
    /\ ann' = [ann EXCEPT !.phase = "Member", !.member = next, !.switched = TRUE,
                 !.revision = status.revision + 1]
    /\ setUpgradePhase(u, "active")
    /\ UNCHANGED <<spec, Untouched>>

\* The status is written before the annotations are cleared; a crash in between
\* leaves them to the reconcile of a finished upgrade.  The mutated form has
\* the last member's rollout for the stable plan's.
FinalizeEarly(u) ==
    /\ Owner(u) /\ ann.phase = "Finalize"
    /\ upgrade' = [upgrade EXCEPT ![u].phase = "Completed"]
    /\ ann' = clearUpgradeAnnotations
    /\ UNCHANGED <<spec, disturbances, Untouched>>

Finalize(u) ==
    /\ Owner(u) /\ ann.phase = "Finalize" /\ instanceReadyForOperation
    /\ upgrade' = [upgrade EXCEPT ![u].phase = "Completed"]
    /\ \/ ann' = clearUpgradeAnnotations /\ UNCHANGED disturbances
       \/ UNCHANGED ann /\ Disturb
    /\ UNCHANGED <<spec, Untouched>>

\* Anything else is reported as blocked or progressing.
Wait(u) ==
    /\ upgrade[u].phase = ""
    /\ \/ Owner(u) /\ ann.phase \in {"Member", "Finalize"} /\ ~instanceReadyForOperation
       \/ ~Owner(u) /\ (~Preflight(u) \/ ann.owner # None
                          \/ (spec.image # Target[u] /\ selectUpgradeCandidate({}) = None))
    /\ upgrade' = [upgrade EXCEPT ![u].phase = "active"]
    /\ UNCHANGED <<ann, spec, disturbances, Untouched>>

ReconcileUpgrade(u) ==
    /\ Unfinished(u) /\ ~upgrade[u].deleting
    /\ \/ ~Owner(u) /\ (CompleteAtOnce(u) \/ BeginUpgrade(u))
       \/ MemberVerified(u)
       \/ SwitchoverVerified(u)
       \/ Finalize(u)
       \/ Wait(u)

\* A finished upgrade gives the instance back.
reconcileTerminalUpgrade(u) ==
    /\ upgrade[u].phase = "Completed" /\ ~upgrade[u].deleting /\ Owner(u)
    /\ ann' = clearUpgradeAnnotations
    /\ UNCHANGED <<upgrade, spec, disturbances, Untouched>>

\* A deleted upgrade that owns the instance waits for a forward repair nobody
\* makes; the finalizer of any other one is removed.
reconcileUpgradeDeletion(u) ==
    /\ upgrade[u].deleting /\ upgrade[u].phase # "removed"
    /\ ~Owner(u) \/ upgrade[u].phase \in {"", "Completed"}
    /\ upgrade' = [upgrade EXCEPT ![u] = [phase |-> "removed", deleting |-> TRUE]]
    /\ UNCHANGED <<ann, spec, disturbances, Untouched>>

\* The operator annotates the deleted upgrade, and the controller gives up.
ForceAbandon(u) ==
    /\ upgrade[u].deleting /\ upgrade[u].phase # "removed" /\ Owner(u)
    /\ ann' = clearUpgradeAnnotations
    /\ upgrade' = [upgrade EXCEPT ![u].phase = "removed"]
    /\ history' = [history EXCEPT !.abandoned = TRUE]
    /\ UNCHANGED <<spec, status, plan, site, cluster, reading, disturbances>>

CreateUpgrade(u) ==
    /\ upgrade[u].phase = "absent"
    /\ \A v \in Upgrades : v < u => upgrade[v].phase # "absent"
    /\ upgrade' = [upgrade EXCEPT ![u].phase = ""]
    /\ UNCHANGED <<ann, spec, disturbances, Untouched>>

DeleteUpgrade(u) ==
    /\ upgrade[u].phase \notin {"absent", "removed"} /\ ~upgrade[u].deleting
    /\ Disturb
    /\ upgrade' = [upgrade EXCEPT ![u].deleting = TRUE]
    /\ UNCHANGED <<ann, spec, Untouched>>

\* An edit of something else in the spec.
EditInstance ==
    /\ Disturb
    /\ spec' = [spec EXCEPT !.generation = @ + 1]
    /\ UNCHANGED <<upgrade, ann, Untouched>>

-----------------------------------------------------------------------------
(* The agents, and Patroni.                                                *)

postgresMemberImage(p, m) == IF m \in p.targets THEN p.target ELSE p.image

ReceivePlan(s) ==
    /\ site[s].plan # plan
    /\ site' = [site EXCEPT ![s].plan = plan]
    /\ UNCHANGED <<hub, status, plan, cluster, reading, history, disturbances>>

Standby(up, leader) == IF up \ {leader} = {} THEN {None} ELSE up \ {leader}

\* A changed image replaces the member's pod.  Patroni makes another standby the
\* synchronous one unless the pod is back before it looks; a leader's key expires.
RollDown(m) ==
    LET image == postgresMemberImage(site[SiteOf[m]].plan, m)
        up == cluster.up \ {m}
        leader == IF cluster.leader = m THEN None ELSE cluster.leader IN
    /\ m \in cluster.up /\ cluster.image[m] # image
    /\ \E sync \in {cluster.sync} \cup (IF cluster.sync = m THEN Standby(up, leader) ELSE {}) :
          cluster' = [leader |-> leader, sync |-> sync, up |-> up,
                      image |-> [cluster.image EXCEPT ![m] = image]]
    /\ UNCHANGED <<hub, status, plan, site, reading, history, disturbances>>

RollUp(m) ==
    /\ m \notin cluster.up
    /\ cluster' = [cluster EXCEPT !.up = @ \cup {m},
                     !.sync = IF @ = None /\ cluster.leader # None THEN m ELSE @]
    /\ UNCHANGED <<hub, status, plan, site, reading, history, disturbances>>

\* Patroni elects the synchronous standby when the leader is gone.
Promote ==
    /\ cluster.leader = None
    /\ \E m \in IF cluster.sync \in cluster.up THEN {cluster.sync} ELSE cluster.up :
         \E sync \in Standby(cluster.up, m) :
            cluster' = [cluster EXCEPT !.leader = m, !.sync = sync]
    /\ UNCHANGED <<hub, status, plan, site, reading, history, disturbances>>

\* A failover nobody asked for.
Failover ==
    /\ cluster.leader # None /\ cluster.sync \in cluster.up
    /\ Disturb
    /\ cluster' = [cluster EXCEPT !.leader = cluster.sync, !.sync = cluster.leader]
    /\ history' = [history EXCEPT !.failover = TRUE]
    /\ UNCHANGED <<hub, status, plan, site, reading>>

\* A synchronous standby counts while it runs.
Observed == [primary |-> cluster.leader, standbys |-> {cluster.sync} \cap cluster.up]

\* A StatefulSet has converged when its pod runs the image and is ready.
Converged(p, s) ==
    \A m \in MembersOf(s) :
        m \in cluster.up /\ cluster.image[m] = postgresMemberImage(p, m)

\* Patroni, in synchronous mode, refuses a candidate that is not the synchronous
\* standby, and the request returns an error.
Switchover(candidate) == candidate \in {cluster.sync} \cap cluster.up

\* A refused request, like a leader nobody expected, is an error.
reconcileUpgradeAction(p, s) ==
    IF p.candidate = None THEN "done"
    ELSE IF SiteOf[p.from] # s \/ cluster.leader = p.candidate THEN "done"
    ELSE IF cluster.leader # p.from \/ ~Switchover(p.candidate) THEN "error"
    ELSE "switch"

\* The site's pass over its plan, once its members run what the plan says: it
\* observes Patroni, asks for the switchover when the leader is its own, and
\* reports.  After an error only the observation is reported.  A report about a
\* revision that the status does not ask for is dropped.
ReconcileSite(s) ==
    LET p == site[s].plan
        outcome == reconcileUpgradeAction(p, s)
        applied == IF outcome = "error" THEN site[s].applied ELSE p.revision IN
    /\ cluster.leader # None
    /\ Converged(p, s)
    /\ site' = IF p.revision = status.revision
               THEN [site EXCEPT ![s].applied = applied, ![s].seen = Observed]
               ELSE site
    /\ IF outcome = "switch"
       THEN \E sync \in Standby(cluster.up, p.candidate) :
               cluster' = [cluster EXCEPT !.leader = p.candidate, !.sync = sync]
       ELSE UNCHANGED cluster
    /\ site' # site \/ outcome = "switch"
    /\ UNCHANGED <<hub, status, plan, reading, history, disturbances>>

\* A report that is two minutes old no longer counts.
Expire(s) ==
    /\ site[s].seen # None
    /\ Disturb
    /\ site' = [site EXCEPT ![s].seen = None]
    /\ UNCHANGED <<hub, status, plan, cluster, reading, history>>

-----------------------------------------------------------------------------
Init ==
    /\ upgrade = [u \in Upgrades |-> [phase |-> "absent", deleting |-> FALSE]]
    /\ ann = NoOwner
    /\ spec = [image |-> 0, generation |-> 1]
    /\ \E leader \in Members : \E sync \in Members \ {leader} :
         cluster = [leader |-> leader, sync |-> sync, up |-> Members,
                    image |-> [m \in Members |-> 0]]
    /\ plan = upgradePlans(NoOwner, spec, 1)
    /\ site = [s \in Sites |-> [plan |-> plan, applied |-> 1, seen |-> Observed]]
    /\ status = [revision |-> 1, fingerprint |-> Fingerprint(NoOwner, 1), observed |-> 1,
                 primary |-> cluster.leader, standbys |-> {cluster.sync},
                 topology |-> TRUE, ready |-> TRUE]
    /\ reading = None
    /\ history = [failover |-> FALSE, abandoned |-> FALSE]
    /\ disturbances = 0

SystemStep ==
    \/ ReadInstance \/ WriteInstance \/ Promote
    \/ \E u \in Upgrades :
          ReconcileUpgrade(u) \/ reconcileTerminalUpgrade(u) \/ reconcileUpgradeDeletion(u)
    \/ \E s \in Sites : ReceivePlan(s) \/ ReconcileSite(s)
    \/ \E m \in Members : RollDown(m) \/ RollUp(m)

UserStep ==
    \/ EditInstance
    \/ \E u \in Upgrades : CreateUpgrade(u) \/ DeleteUpgrade(u) \/ ForceAbandon(u)

Next == SystemStep \/ UserStep \/ Failover \/ \E s \in Sites : Expire(s)

Spec == Init /\ [][Next]_vars
FairSpec == Spec /\ WF_vars(SystemStep)

-----------------------------------------------------------------------------
\* A member recorded as upgraded runs the target image of the upgrade that owns
\* the instance: no member is verified on the strength of an older revision.
VerifiedRunsTarget ==
    \A m \in ann.members : cluster.image[m] = Target[ann.owner]

\* Minor upgrades roll one member at a time (README.md:171): two members are
\* down together only after an upgrade was abandoned by force.
OneAtATime ==
    Cardinality(Members \ cluster.up) > 1 => history.abandoned

\* The leader is replaced only after the switchover: as long as Patroni moves the
\* leader only when asked to, no rollout takes it down.
LeaderIsNotRolled ==
    cluster.leader = None => history.failover \/ history.abandoned

\* "All PostgreSQL members run the requested image" at the step that completes
\* an upgrade that owned the instance.
CompletedRunsTarget ==
    [][\A u \in Upgrades :
          Owner(u) /\ upgrade[u].phase # "Completed" /\ upgrade'[u].phase = "Completed"
            => \A m \in Members : cluster.image[m] = Target[u] /\ m \in cluster.up]_vars

\* A failover to a third member during the switchover is an error the agent
\* reports for ever.
Usurped ==
    ann.phase = "Switchover" /\ cluster.leader \notin {ann.from, ann.candidate}

\* So is a candidate that another standby replaced as the synchronous one while
\* its pod was.
Refused ==
    ann.phase = "Switchover" /\ cluster.leader = ann.from /\ cluster.sync # ann.candidate

\* An upgrade that owns the instance completes, unless it is deleted, or from some
\* point on its switchover can never happen: Patroni failed over to a third
\* member, or keeps another synchronous standby than the candidate
\* (reconcileMinorUpgrade waits for exactly this switchover).
UpgradeEnds ==
    \A u \in Upgrades :
        Owner(u) /\ ~upgrade[u].deleting ~>
            \/ upgrade[u].phase = "Completed" /\ ~Owner(u)
            \/ upgrade[u].deleting
            \/ [](Usurped \/ Refused)

\* "After its StatefulSet rollout is fully converged, the agent requests [a]
\* Patroni switchover and verifies the new primary" (README.md:172).  It does not
\* hold: the rollout is what makes Patroni choose another synchronous standby.
SwitchoverFollows ==
    \A u \in Upgrades :
        Owner(u) /\ ann.phase = "Switchover" /\ ~upgrade[u].deleting ~>
            \/ ann.switched \/ ~Owner(u) \/ upgrade[u].deleting \/ Usurped
=============================================================================
