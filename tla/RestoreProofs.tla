---------------------------- MODULE RestoreProofs ----------------------------
(***************************************************************************)
(* Four safety properties of Restore, for any number of restores, sites,   *)
(* targets and disturbances.  The first part: no member is                 *)
(* initialized empty, and a target that is gone left its deletion plan at  *)
(* every site.                                                             *)
(* The second: Pgpool comes up only on recovered data that a standby also  *)
(* holds, and a restore completes only when every site serves it.          *)
(*                                                                         *)
(* None is inductive.  The first rests on RecoveryInv: whatever lets a     *)
(* second site start PostgreSQL, be it a phase, a reading, a plan or a     *)
(* member that joins, comes after the recovered cluster was initialized.   *)
(* The second rests on DeletionInv: the deletion plan of a target is one   *)
(* plan however often it is issued, and a site that reported it done holds *)
(* that plan and nothing else.  The last two rest on AcceptInv: as long as *)
(* the target is being restored, everything that was reported, read or     *)
(* planned about it is either still true of the sites or behind the        *)
(* revision that the hub compares with.                                    *)
(***************************************************************************)
EXTENDS Restore, FiniteSetTheorems, TLAPS

Statuses == [revision: Nat,
             fingerprint: (Restores \cup {None}) \X (Phases \cup {"new", "deleting"}),
             primary: Sites \cup {None}, standbys: SUBSET Sites,
             topology: BOOLEAN, ready: BOOLEAN, applied: [Sites -> Nat],
             seen: [Sites -> Observations \cup {None}], deleted: SUBSET Sites]

Readings == [target: Targets, applied: [Sites -> Nat],
             seen: [Sites -> Observations \cup {None}], deleted: SUBSET Sites,
             invalid: BOOLEAN]

Members == {"none", "recovering", "joining", "restored", "empty"}

SiteStates == [plan: Plans \cup {None}, namespace: 0..MaxTargets, pgpool: BOOLEAN,
               member: Members]

Types ==
    /\ targets \in 0..MaxTargets
    /\ target = None \/ (target \in Targets /\ target.id <= targets)
    /\ target # None => (target.owner = None <=> target.phase = "none")
    /\ status \in Statuses
    /\ plan \in Plans \cup {None}
    /\ reading = None \/ reading \in Readings
    /\ site \in [Sites -> SiteStates]
    /\ \A s \in Sites : site[s].member # "none" => site[s].namespace # 0
    /\ patroni \in [1..MaxTargets -> [leader: Sites \cup {None}, initialized: BOOLEAN]]
    /\ history \in [abandoned: BOOLEAN, orphaned: BOOLEAN]

\* The cluster of a target is initialized, or an operator took over.
Begun(id) == patroni[id].initialized \/ history.abandoned

LetsJoin(p) == p.kind \in {"Replicas", "Verify", "Plain"}

RecoveryInv ==
    /\ \A id \in 1..MaxTargets : patroni[id].leader # None => patroni[id].initialized
    /\ \A s \in Sites : site[s].member \in {"recovering", "restored", "empty"} =>
          patroni[site[s].namespace].initialized
    /\ \A s \in Sites : site[s].member = "joining" => Begun(site[s].namespace)
    /\ \A s \in Sites : status.seen[s] # None => target # None /\ patroni[target.id].initialized
    /\ status.topology => target # None /\ patroni[target.id].initialized
    /\ target # None /\ target.phase # "Seed" => Begun(target.id)
    /\ reading # None =>
          /\ \A s \in Sites : reading.seen[s] # None => patroni[reading.target.id].initialized
          /\ reading.target.phase # "Seed" => Begun(reading.target.id)
          /\ (reading.target.owner = None <=> reading.target.phase = "none")
    /\ plan # None /\ LetsJoin(plan) => Begun(plan.target)
    /\ \A s \in Sites : site[s].plan # None /\ LetsJoin(site[s].plan) => Begun(site[s].plan.target)
    /\ NothingIsEmpty

Clean(s) == site[s].member = "none" /\ ~site[s].pgpool

\* The deletion plan of the current target, issued once or many times.
TheDeletionPlan ==
    [target |-> target.id, kind |-> target.policy,
     revision |-> IF Issued THEN status.revision ELSE status.revision + 1]

DeletionInv ==
    /\ target = None => plan = None /\ reading = None
    /\ target = None /\ ~history.orphaned =>
          \A s \in Sites :
             /\ Clean(s) /\ (site[s].plan = None \/ Deletes(site[s].plan))
             /\ targets > 0 => site[s].plan # None /\ site[s].plan.target = targets
    /\ target # None => target.id = targets
    /\ \A s \in Sites : site[s].plan # None => site[s].plan.target <= targets
    /\ reading # None => reading.target.id = target.id /\ reading.deleted \subseteq status.deleted
    /\ reading # None /\ reading.target.deleting => target.deleting
    /\ reading # None /\ reading.target.deleting => reading.target.policy = target.policy
    /\ reading # None /\ reading.target.deleting /\ Issued => reading.deleted = Sites
    /\ plan # None => plan.target = target.id
    /\ plan # None /\ Deletes(plan) =>
          /\ target.deleting
          /\ reading # None => reading.target.deleting
          /\ plan = TheDeletionPlan
    /\ \A s \in Sites :
          site[s].plan # None /\ Deletes(site[s].plan) /\ target # None
            /\ site[s].plan.target = target.id => plan # None /\ site[s].plan = plan
    /\ \A s \in status.deleted :
          /\ Clean(s) /\ Issued /\ target # None
          /\ plan # None /\ Deletes(plan) /\ site[s].plan = plan

IInv == Types /\ RecoveryInv /\ DeletionInv

-----------------------------------------------------------------------------
LEMMA SameLemma ==
    ASSUME IInv, UNCHANGED <<target, targets, status, plan, reading, site, patroni, history>>
    PROVE  IInv'
  BY DEF IInv, Types, RecoveryInv, DeletionInv, Begun, NothingIsEmpty, Clean, TheDeletionPlan,
         Issued

\* A step that changes the target and nothing the sites can see.
LEMMA TargetLemma ==
    ASSUME IInv, target # None, target' \in Targets,
           target'.id = target.id, target'.policy = target.policy,
           target.deleting => target'.deleting,
           target'.owner = None <=> target'.phase = "none",
           history' \in [abandoned: BOOLEAN, orphaned: BOOLEAN],
           history.abandoned => history'.abandoned, history'.orphaned = history.orphaned,
           target'.phase # "Seed" => patroni[target.id].initialized \/ history'.abandoned,
           UNCHANGED <<targets, status, plan, reading, site, patroni>>
    PROVE  IInv'
<1>1. Types'
  BY Zenon DEF IInv, Types
<1>2. RecoveryInv'
  BY NoneAssumption DEF IInv, Types, RecoveryInv, Begun, NothingIsEmpty
<1>3. DeletionInv'
  BY NoneAssumption DEF IInv, Types, DeletionInv, Clean, TheDeletionPlan, Issued
<1> QED BY <1>1, <1>2, <1>3 DEF IInv

LEMMA CreateLemma ==
    ASSUME IInv, NEW r \in Restores, CreateTarget(r),
           UNCHANGED <<plan, reading, site, patroni, history>>
    PROVE  IInv'
<1> PICK policy \in Policies :
          target' = [id |-> targets + 1, owner |-> r, phase |-> "Seed",
                     policy |-> policy, deleting |-> FALSE]
  BY Zenon DEF CreateTarget
<1>1. /\ target' \in Targets /\ target'.id = targets + 1 /\ target'.id <= targets'
      /\ target' # None /\ target'.phase = "Seed" /\ target'.owner # None
      /\ targets' \in 0..MaxTargets /\ targets' = targets + 1
  <2>1. targets \in 0..MaxTargets /\ targets < MaxTargets /\ targets' = targets + 1
    BY DEF CreateTarget, IInv, Types
  <2>2. targets + 1 \in 1..MaxTargets /\ targets' \in 0..MaxTargets
    BY <2>1, ConstantsAssumption
  <2>3. target' \in Targets
    BY <2>2 DEF Targets, Phases
  <2>4. target'.id = targets + 1 /\ target'.phase = "Seed" /\ target'.owner = r
    OBVIOUS
  <2>5. target' # None /\ r # None
    BY <2>3, ConstantsAssumption, NoneAssumption, Zenon
  <2> QED BY <2>1, <2>2, <2>3, <2>4, <2>5
<1>2. status' = NoStatus /\ NoStatus \in Statuses
  BY DEF CreateTarget, NoStatus, Statuses
<1>3. plan = None /\ reading = None
  BY DEF IInv, DeletionInv, CreateTarget
<1>4. Types'
  BY <1>1, <1>2, <1>3 DEF IInv, Types
<1>5. RecoveryInv'
  BY <1>1, <1>2, <1>3 DEF IInv, Types, RecoveryInv, Begun, NothingIsEmpty, NoStatus
<1>6. DeletionInv'
  <2>1. \A s \in Sites : site[s].plan # None => site[s].plan.target <= targets /\ site[s].plan \in Plans
    BY DEF IInv, Types, DeletionInv, SiteStates
  <2>2. \A s \in Sites : site[s].plan # None => site[s].plan.target # target'.id
    BY <1>1, <2>1 DEF IInv, Types, Plans
  <2> QED BY <1>1, <1>2, <1>3, <2>1, <2>2 DEF DeletionInv, NoStatus, IInv, Types, Plans
<1> QED BY <1>4, <1>5, <1>6 DEF IInv

LEMMA PhaseLemma ==
    ASSUME IInv, NEW r \in Restores, Owned(r), NEW phase \in {"Replicas", "Verify", "Completed"},
           status.topology, setTargetPhase(r, phase),
           UNCHANGED <<plan, reading, site, patroni, history>>
    PROVE  IInv'
<1>1. target # None /\ target \in Targets /\ target.owner # None /\ target.phase # "none"
  BY ConstantsAssumption DEF Owned, IInv, Types
<1>2. target' = [target EXCEPT !.phase = phase]
  BY DEF setTargetPhase
<1>3. /\ target' \in Targets /\ target'.id = target.id /\ target'.policy = target.policy
      /\ target'.deleting = target.deleting /\ target'.owner # None /\ target'.phase # "none"
  BY <1>1, <1>2 DEF Targets, Phases
<1>4. patroni[target.id].initialized
  BY <1>1 DEF IInv, RecoveryInv, Begun
<1> QED BY <1>1, <1>3, <1>4, TargetLemma DEF setTargetPhase, IInv, Types

LEMMA ReconcileRestoreLemma ==
    ASSUME IInv, NEW r \in Restores, ReconcileRestore(r)
    PROVE  IInv'
<1>1. CASE restoreBlocked(r)
  BY <1>1, SameLemma DEF restoreBlocked, ReconcileRestore
<1>2. CASE CreateTarget(r)
  BY <1>2, CreateLemma DEF ReconcileRestore
<1>3. CASE Owned(r) /\ SeedPromoted /\ setTargetPhase(r, "Replicas")
  BY <1>3, PhaseLemma DEF SeedPromoted, ReconcileRestore
<1>4. CASE Owned(r) /\ ReplicationReady /\ setTargetPhase(r, "Verify")
  BY <1>4, PhaseLemma DEF ReplicationReady, ReconcileRestore
<1>5. CASE Owned(r) /\ AcceptancePassed /\ setTargetPhase(r, "Completed")
  BY <1>5, PhaseLemma DEF AcceptancePassed, ReconcileRestore
<1>6. CASE UNCHANGED <<target, targets, status, disturbances>>
  BY <1>6, SameLemma DEF ReconcileRestore
<1> QED BY <1>1, <1>2, <1>3, <1>4, <1>5, <1>6 DEF ReconcileRestore

LEMMA DeletingLemma ==
    ASSUME IInv, target # None, target' = [target EXCEPT !.deleting = TRUE],
           UNCHANGED <<targets, status, plan, reading, site, patroni, history>>
    PROVE  IInv'
<1>1. target \in Targets
  BY DEF IInv, Types
<1>2. /\ target' \in Targets /\ target'.id = target.id /\ target'.policy = target.policy
      /\ target'.deleting /\ target'.owner = target.owner /\ target'.phase = target.phase
  BY <1>1, Zenon DEF Targets
<1>3. target'.phase # "Seed" => patroni[target.id].initialized \/ history'.abandoned
  BY <1>2 DEF IInv, RecoveryInv, Begun
<1> QED BY <1>1, <1>2, <1>3, TargetLemma DEF IInv, Types

LEMMA ForceAbandonLemma ==
    ASSUME IInv, NEW r \in Restores, ForceAbandon(r)
    PROVE  IInv'
<1>1. target # None /\ target \in Targets
  BY DEF ForceAbandon, Owned, IInv, Types
<1>2. /\ target' \in Targets /\ target'.id = target.id /\ target'.policy = target.policy
      /\ target'.deleting = target.deleting /\ target'.owner = None /\ target'.phase = "none"
  BY <1>1, Zenon DEF Targets, ForceAbandon, Phases
<1>3. /\ history' \in [abandoned: BOOLEAN, orphaned: BOOLEAN]
      /\ history'.abandoned /\ history'.orphaned = history.orphaned
  BY Zenon DEF ForceAbandon, IInv, Types
<1> QED BY <1>1, <1>2, <1>3, TargetLemma DEF ForceAbandon

-----------------------------------------------------------------------------
LEMMA ReadLemma ==
    ASSUME IInv, ReadTarget
    PROVE  IInv'
<1>1. target # None /\ target \in Targets /\ reading' = Current
  BY DEF ReadTarget, IInv, Types
<1>2. /\ reading' \in Readings /\ reading'.target = target /\ reading'.seen = status.seen
      /\ reading'.deleted = status.deleted
  BY <1>1 DEF Current, Readings, Statuses, IInv, Types
<1>3. UNCHANGED <<target, targets, status, plan, site, patroni, history>>
  BY DEF ReadTarget, hub
<1>4. target.deleting /\ Issued => status.deleted = Sites
  BY DEF ReadTarget, Acknowledged, Current
<1>5. Types'
  BY <1>2, <1>3 DEF IInv, Types
<1>6. RecoveryInv'
  BY <1>1, <1>2, <1>3 DEF IInv, Types, RecoveryInv, Begun, NothingIsEmpty
<1>7. DeletionInv'
  BY <1>1, <1>2, <1>3, <1>4 DEF IInv, DeletionInv, Clean, TheDeletionPlan, Issued
<1> QED BY <1>5, <1>6, <1>7 DEF IInv

\* What a reconcile may find: a topology only where some site observed one.
LEMMA TopologyLemma ==
    ASSUME NEW r \in Readings
    PROVE  /\ aggregateTopology(r).primary \in Sites \cup {None}
           /\ aggregateTopology(r).standbys \subseteq Sites
           /\ aggregateTopology(r).topology \in BOOLEAN
           /\ aggregateTopology(r).topology => \E s \in Sites : r.seen[s] # None
<1> DEFINE seers == {s \in Sites : r.seen[s] # None}
           leaders == {r.seen[s].primary : s \in seers}
           one == /\ Cardinality(leaders) = 1
                  /\ IF r.target.phase = "Seed" THEN Cardinality(seers) = 1 ELSE seers = Sites
           found == [primary |-> CHOOSE p \in leaders : TRUE, topology |-> TRUE,
                     standbys |-> {m \in Sites : \A s \in seers : m \in r.seen[s].standbys}]
<1>1. leaders \subseteq Sites
  BY DEF Readings, Observations
<1>2. one => \E p \in leaders : TRUE
  BY FS_EmptySet
<1>3. aggregateTopology(r) = IF one THEN found
                             ELSE [primary |-> None, standbys |-> {}, topology |-> FALSE]
  BY DEF aggregateTopology
<1>4. CASE one
  <2>1. (CHOOSE p \in leaders : TRUE) \in Sites
    BY <1>1, <1>2, <1>4, Zenon
  <2>2. \E s \in Sites : r.seen[s] # None
    BY <1>2, <1>4
  <2> QED BY <1>3, <1>4, <2>1, <2>2
<1>5. CASE ~one
  BY <1>3, <1>5
<1> QED BY <1>4, <1>5

LEMMA ReconciledLemma ==
    ASSUME IInv, reading # None, ~reading.invalid
    PROVE  /\ Reconciled(reading) \in Statuses
           /\ Reconciled(reading).seen = status.seen
           /\ Reconciled(reading).deleted = status.deleted
           /\ Reconciled(reading).topology =>
                 \E s \in Sites : reading.seen[s] # None
<1> DEFINE top == aggregateTopology(reading)
           fingerprint == <<reading.target.owner, reading.target.phase>>
           revision == IF status.fingerprint = fingerprint THEN status.revision
                       ELSE status.revision + 1
           ready == /\ \A s \in Sites : reading.applied[s] = revision
                    /\ setAppliedInstanceReady(restorePlan(reading.target), top)
           new == [status EXCEPT !.revision = revision, !.fingerprint = fingerprint,
                     !.primary = top.primary, !.standbys = top.standbys,
                     !.topology = top.topology, !.ready = ready]
<1>1. reading \in Readings /\ status \in Statuses
  BY DEF IInv, Types
<1>2. Reconciled(reading) = new
  BY DEF Reconciled
<1>3. /\ top.primary \in Sites \cup {None} /\ top.standbys \subseteq Sites
      /\ top.topology \in BOOLEAN
      /\ top.topology => \E s \in Sites : reading.seen[s] # None
  BY <1>1, TopologyLemma
<1>4. fingerprint \in (Restores \cup {None}) \X (Phases \cup {"new", "deleting"})
  BY <1>1 DEF Readings, Targets
<1>5. revision \in Nat
  BY <1>1 DEF Statuses
<1>6. ready \in BOOLEAN
  OBVIOUS
<1> HIDE DEF top, fingerprint, revision, ready
<1>7. new \in Statuses /\ new.seen = status.seen /\ new.deleted = status.deleted
  BY <1>1, <1>3, <1>4, <1>5, <1>6, Zenon DEF Statuses
<1>8. new.topology = top.topology
  BY <1>1 DEF Statuses
<1> QED BY <1>2, <1>3, <1>7, <1>8

LEMMA WriteLemma ==
    ASSUME IInv, WriteTarget
    PROVE  IInv'
<1>0. /\ reading # None /\ reading \in Readings /\ target # None /\ target \in Targets
      /\ status \in Statuses /\ reading.target.id = target.id /\ reading' = None
      /\ UNCHANGED <<target, targets, site, patroni, history>>
  BY DEF IInv, Types, DeletionInv, WriteTarget, hub
<1>1. ~(plan # None /\ Deletes(plan)) /\ status.deleted = {}
  BY <1>0 DEF IInv, DeletionInv, WriteTarget, Statuses
<1>2. CASE reading.invalid
  <2>1. plan' = plan /\ status' = [status EXCEPT !.ready = FALSE]
    BY <1>2 DEF WriteTarget, Reconciled
  <2>2. /\ status' \in Statuses /\ status'.seen = status.seen
        /\ status'.deleted = status.deleted /\ status'.topology = status.topology
    BY <1>0, <2>1, Zenon DEF Statuses
  <2>3. Types'
    BY <1>0, <2>1, <2>2 DEF IInv, Types
  <2>4. RecoveryInv'
    BY <1>0, <2>1, <2>2 DEF IInv, Types, RecoveryInv, Begun, NothingIsEmpty
  <2>5. DeletionInv'
    BY <1>0, <1>1, <2>1, <2>2 DEF IInv, DeletionInv, Clean
  <2> QED BY <2>3, <2>4, <2>5 DEF IInv
<1>3. CASE ~reading.invalid
  <2> DEFINE kind == restorePlan(reading.target)
  <2>1. /\ status' \in Statuses /\ status'.seen = status.seen /\ status'.deleted = {}
        /\ status'.topology => \E s \in Sites : reading.seen[s] # None
    BY <1>0, <1>1, <1>3, ReconciledLemma DEF WriteTarget
  <2>2. plan' = [target |-> target.id, revision |-> status'.revision, kind |-> kind]
    BY <1>0, <1>3 DEF WriteTarget
  <2>3. /\ kind \in {"Seed", "Replicas", "Verify", "Plain"}
        /\ kind # "Seed" => reading.target.phase # "Seed"
    BY <1>0, Zenon DEF restorePlan, IInv, RecoveryInv, Readings, Targets, Phases
  <2> HIDE DEF kind
  <2>4. /\ plan' \in Plans /\ ~Deletes(plan') /\ plan'.target = target.id
        /\ LetsJoin(plan') => Begun(target.id)
    BY <1>0, <2>1, <2>2, <2>3, Zenon
    DEF Plans, Statuses, Targets, Deletes, LetsJoin, IInv, RecoveryInv
  <2>5. Types'
    BY <1>0, <2>1, <2>4, Zenon DEF IInv, Types
  <2>6. RecoveryInv'
    BY <1>0, <2>1, <2>4, Zenon DEF IInv, Types, RecoveryInv, Begun, NothingIsEmpty
  <2>7. DeletionInv'
    BY <1>0, <1>1, <2>1, <2>4 DEF IInv, DeletionInv, Clean
  <2> QED BY <2>5, <2>6, <2>7 DEF IInv
<1> QED BY <1>2, <1>3

LEMMA IssueLemma ==
    ASSUME IInv, issueDeletionPlans
    PROVE  IInv'
<1>0. /\ reading # None /\ reading \in Readings /\ target # None /\ target \in Targets
      /\ status \in Statuses /\ reading.target.id = target.id /\ reading' = None
      /\ target.deleting /\ reading.target.policy = target.policy /\ ~Issued
      /\ UNCHANGED <<target, targets, site, patroni, history>>
  BY DEF IInv, Types, DeletionInv, issueDeletionPlans, hub
<1>1. status.deleted = {}
  BY <1>0 DEF IInv, DeletionInv, Statuses
<1>2. plan' = [target |-> target.id, revision |-> status.revision + 1, kind |-> target.policy]
  BY <1>0 DEF issueDeletionPlans, DeletionPlan
<1>3. /\ plan' \in Plans /\ Deletes(plan') /\ ~LetsJoin(plan') /\ plan'.target = target.id
      /\ plan' # None
  <2>1. /\ target.id \in 1..MaxTargets /\ status.revision + 1 \in Nat
        /\ target.policy \in {"Retain", "Delete"}
    <3>1. target.id \in 1..MaxTargets /\ target.policy \in Policies
      BY <1>0 DEF Targets
    <3>2. status.revision + 1 \in Nat
      BY <1>0 DEF Statuses
    <3> QED BY <3>1, <3>2, ConstantsAssumption
  <2>2. plan' \in Plans /\ plan'.kind = target.policy /\ plan'.target = target.id
    BY <1>2, <2>1 DEF Plans
  <2> QED BY <2>1, <2>2, NoneAssumption DEF Deletes, LetsJoin
<1>4. /\ status' \in Statuses /\ status'.seen = status.seen /\ status'.deleted = {}
      /\ status'.topology = status.topology
      /\ (IF Issued' THEN status'.revision ELSE status'.revision + 1) = status.revision + 1
  <2>1. CASE status' = status
    BY <1>0, <1>1, <2>1 DEF Issued
  <2>2. CASE status' = [status EXCEPT !.revision = @ + 1, !.fingerprint = <<None, "deleting">>]
    <3>1. status' \in Statuses
      <4>1. <<None, "deleting">> \in (Restores \cup {None}) \X (Phases \cup {"new", "deleting"})
        OBVIOUS
      <4>2. status.revision + 1 \in Nat
        BY <1>0 DEF Statuses
      <4> QED BY <1>0, <2>2, <4>1, <4>2 DEF Statuses
    <3>2. /\ status'.revision = status.revision + 1 /\ status'.fingerprint = <<None, "deleting">>
          /\ status'.seen = status.seen /\ status'.deleted = status.deleted
          /\ status'.topology = status.topology
      BY <1>0, <2>2 DEF Statuses
    <3> QED BY <1>1, <3>1, <3>2 DEF Issued
  <2> QED BY <2>1, <2>2 DEF issueDeletionPlans
<1>5. plan' = TheDeletionPlan'
  BY <1>0, <1>2, <1>4 DEF TheDeletionPlan
<1>6. plan # None /\ Deletes(plan) => plan' = plan
  BY <1>0, <1>2 DEF IInv, DeletionInv, TheDeletionPlan
<1>7. Types'
  BY <1>0, <1>3, <1>4, Zenon DEF IInv, Types
<1>8. RecoveryInv'
  BY <1>0, <1>3, <1>4, Zenon DEF IInv, Types, RecoveryInv, Begun, NothingIsEmpty
<1>9. DeletionInv'
  BY <1>0, <1>3, <1>4, <1>5, <1>6 DEF IInv, DeletionInv, Clean
<1> QED BY <1>7, <1>8, <1>9 DEF IInv

\* The target is gone: every site reported, or the operator gave it up.
LEMMA GoneLemma ==
    ASSUME IInv, target' = None, plan' = None, reading' = None, status' = NoStatus,
           UNCHANGED <<targets, site, patroni>>,
           history' \in [abandoned: BOOLEAN, orphaned: BOOLEAN],
           history'.abandoned = history.abandoned,
           history'.orphaned \/ status.deleted = Sites
    PROVE  IInv'
<1>1. NoStatus \in Statuses
  BY DEF NoStatus, Statuses
<1>2. Types'
  BY <1>1, Zenon DEF IInv, Types
<1>3. RecoveryInv'
  BY Zenon DEF IInv, Types, RecoveryInv, Begun, NothingIsEmpty, NoStatus
<1>4. DeletionInv'
  BY DEF IInv, DeletionInv, Clean, NoStatus
<1> QED BY <1>2, <1>3, <1>4 DEF IInv

LEMMA EndLemma ==
    ASSUME IInv, FinishDeletion \/ ForceOrphan
    PROVE  IInv'
<1>1. CASE FinishDeletion
  <2>1. status.deleted = Sites
    BY <1>1, Zenon DEF FinishDeletion, IInv, DeletionInv, Types, Statuses
  <2> QED BY <1>1, <2>1, GoneLemma DEF FinishDeletion, IInv, Types
<1>2. CASE ForceOrphan
  <2>1. /\ history' \in [abandoned: BOOLEAN, orphaned: BOOLEAN]
        /\ history'.abandoned = history.abandoned /\ history'.orphaned
    BY <1>2, Zenon DEF ForceOrphan, IInv, Types
  <2> QED BY <1>2, <2>1, GoneLemma DEF ForceOrphan
<1> QED BY <1>1, <1>2

-----------------------------------------------------------------------------
LEMMA ReceiveLemma ==
    ASSUME IInv, NEW s \in Sites, ReceivePlan(s)
    PROVE  IInv'
<1>0. /\ plan # None /\ plan \in Plans /\ site \in [Sites -> SiteStates]
      /\ target # None /\ target \in Targets /\ target.id <= targets /\ plan.target = target.id
      /\ UNCHANGED <<target, targets, status, plan, reading, patroni, history>>
  BY DEF IInv, Types, DeletionInv, ReceivePlan, hub
<1>1. /\ site' \in [Sites -> SiteStates]
      /\ \A t \in Sites : /\ site'[t].namespace = site[t].namespace
                          /\ site'[t].member = site[t].member
                          /\ site'[t].pgpool = site[t].pgpool
                          /\ site'[t].plan = IF t = s THEN plan ELSE site[t].plan
  BY <1>0 DEF ReceivePlan, SiteStates
<1>2. Types'
  BY <1>0, <1>1 DEF IInv, Types
<1>3. RecoveryInv'
  BY <1>0, <1>1 DEF IInv, Types, RecoveryInv, Begun, NothingIsEmpty
<1>4. DeletionInv'
  <2>1. \A t \in Sites : Clean(t) => Clean(t)'
    BY <1>1, Zenon DEF Clean
  <2>2. /\ \A t \in status.deleted : t \in Sites
        /\ TheDeletionPlan' = TheDeletionPlan /\ Issued' = Issued
    BY <1>0, Zenon DEF IInv, Types, Statuses, TheDeletionPlan, Issued
  <2> QED BY <1>0, <1>1, <2>1, <2>2 DEF IInv, DeletionInv
<1> QED BY <1>2, <1>3, <1>4 DEF IInv

\* A step of a site that keeps the plans, and Patroni's initialize keys.
LEMMA SiteLemma ==
    ASSUME IInv, NEW s \in Sites, NEW new \in SiteStates,
           site' = [site EXCEPT ![s] = new], new.plan = site[s].plan,
           UNCHANGED <<target, targets, status, plan, reading, history>>,
           patroni' \in [1..MaxTargets -> [leader: Sites \cup {None}, initialized: BOOLEAN]],
           \A id \in 1..MaxTargets :
              /\ patroni[id].initialized => patroni'[id].initialized
              /\ patroni'[id].leader # None => patroni'[id].initialized,
           new.member # "none" => new.namespace # 0,
           new.member \in {"recovering", "restored", "empty"} => patroni'[new.namespace].initialized,
           new.member = "joining" => patroni'[new.namespace].initialized \/ history.abandoned,
           new.member = "empty" => history.abandoned,
           \/ new.member = "none" /\ ~new.pgpool
           \/ new.plan # None /\ ~Deletes(new.plan)
           \/ site[s].member # "none"
    PROVE  IInv'
<1>0. /\ site \in [Sites -> SiteStates] /\ site' \in [Sites -> SiteStates]
      /\ \A t \in Sites : site'[t] = IF t = s THEN new ELSE site[t]
      /\ \A t \in Sites : site'[t].plan = site[t].plan
  BY Zenon DEF IInv, Types
<1>1. Types'
  BY <1>0, Zenon DEF IInv, Types
<1>2. RecoveryInv'
  <2>1. target # None => target.id \in 1..MaxTargets
    BY Zenon DEF IInv, Types, Targets
  <2>2. reading # None => reading.target.id \in 1..MaxTargets
    BY Zenon DEF IInv, Types, Targets, Readings
  <2>3. plan # None => plan.target \in 1..MaxTargets
    BY DEF IInv, Types, Plans
  <2>4. \A t \in Sites : site[t].plan # None => site[t].plan.target \in 1..MaxTargets
    BY <1>0, Zenon DEF SiteStates, Plans
  <2>5. \A t \in Sites : site[t].member # "none" => site[t].namespace \in 1..MaxTargets
    BY <1>0 DEF IInv, Types, SiteStates
  <2> QED BY <1>0, <2>1, <2>2, <2>3, <2>4, <2>5 DEF IInv, Types, RecoveryInv, Begun, NothingIsEmpty
<1>3. DeletionInv'
  <2>1. \A t \in Sites : Clean(t) /\ (site[t].plan = None \/ Deletes(site[t].plan)) => Clean(t)'
    BY <1>0, Zenon DEF Clean
  <2>2. /\ \A t \in status.deleted : t \in Sites
        /\ TheDeletionPlan' = TheDeletionPlan /\ Issued' = Issued
    BY Zenon DEF IInv, Types, Statuses, TheDeletionPlan, Issued
  <2> QED BY <1>0, <2>1, <2>2 DEF IInv, DeletionInv
<1> QED BY <1>1, <1>2, <1>3 DEF IInv

LEMMA ApplyLemma ==
    ASSUME IInv, NEW s \in Sites, ApplyPlan(s)
    PROVE  IInv'
<1> DEFINE p == site[s].plan
           new == Rendered(p, s)
<1>0. /\ p # None /\ p \in Plans /\ ~Deletes(p) /\ EnsureNamespace(s, p.target)
      /\ site \in [Sites -> SiteStates] /\ site[s] \in SiteStates
      /\ UNCHANGED <<target, targets, status, plan, reading, history>>
      /\ site' = [site EXCEPT ![s] = new] /\ site'[s] = new
  BY DEF IInv, Types, ApplyPlan, hub, SiteStates
<1>1. p.target \in 1..MaxTargets
  BY <1>0 DEF Plans
<1>2. /\ new \in SiteStates /\ new.plan = p /\ new.namespace = p.target
      /\ new.member = IF site[s].member # "none" \/ ~ExpectsPostgres(p, s) THEN site[s].member
                      ELSE IF p.kind = "Seed" THEN "recovering" ELSE "joining"
  <2>1. site[s].member \in Members /\ Pgpool(p) \in BOOLEAN /\ p.target \in 0..MaxTargets
    BY <1>0, <1>1 DEF SiteStates, Pgpool
  <2> QED BY <1>0, <2>1 DEF Rendered, SiteStates, Members
<1> HIDE DEF new, p
<1>3. patroni' = [patroni EXCEPT ![p.target].initialized = @ \/ new.member = "recovering"]
  BY <1>0, Zenon DEF ApplyPlan, p
<1>4. /\ patroni' \in [1..MaxTargets -> [leader: Sites \cup {None}, initialized: BOOLEAN]]
      /\ \A id \in 1..MaxTargets :
            /\ patroni'[id].leader = patroni[id].leader
            /\ patroni[id].initialized => patroni'[id].initialized
      /\ new.member = "recovering" => patroni'[p.target].initialized
  BY <1>1, <1>3 DEF IInv, Types
<1>5. /\ new.member # "none" => new.namespace # 0
      /\ site[s].member # "none" => site[s].namespace = p.target
  BY <1>0, <1>1, <1>2 DEF EnsureNamespace, IInv, Types
<1>6. /\ new.member \in {"recovering", "restored", "empty"} => patroni'[p.target].initialized
      /\ new.member = "joining" => patroni'[p.target].initialized \/ history.abandoned
      /\ new.member = "empty" => history.abandoned
  <2>1. CASE new.member = site[s].member
    BY <1>0, <1>1, <1>4, <1>5, <2>1, Zenon DEF IInv, RecoveryInv, Begun, NothingIsEmpty
  <2>2. CASE new.member = "recovering"
    BY <1>4, <2>2, Zenon
  <2>3. CASE new.member = "joining" /\ p.kind # "Seed"
    <3>1. LetsJoin(p)
      BY <1>0, <2>3, Zenon DEF Plans, LetsJoin, Deletes
    <3> QED BY <1>0, <1>1, <1>4, <2>3, <3>1 DEF IInv, RecoveryInv, Begun, p
  <2> QED BY <1>2, <2>1, <2>2, <2>3
<1>7. \A id \in 1..MaxTargets : patroni'[id].leader # None => patroni'[id].initialized
  BY <1>4 DEF IInv, RecoveryInv
<1> QED BY <1>0, <1>2, <1>4, <1>5, <1>6, <1>7, SiteLemma DEF p

LEMMA DeleteLemma ==
    ASSUME IInv, NEW s \in Sites, deleteInstance(s)
    PROVE  IInv'
<1> DEFINE p == site[s].plan
           new == [plan |-> p, namespace |-> IF p.kind = "Delete" THEN 0 ELSE p.target,
                   pgpool |-> FALSE, member |-> "none"]
<1>0. /\ p # None /\ p \in Plans
      /\ UNCHANGED <<target, targets, status, plan, reading, history>>
      /\ site' = [site EXCEPT ![s] = new]
      /\ patroni' = [patroni EXCEPT ![p.target].leader = IF @ = s THEN None ELSE @]
  BY DEF IInv, Types, deleteInstance, hub, SiteStates
<1>1. p.target \in 1..MaxTargets
  BY <1>0, Zenon DEF Plans
<1>2. new \in SiteStates /\ new.plan = p /\ new.member = "none" /\ ~new.pgpool
  <2> DEFINE n == IF p.kind = "Delete" THEN 0 ELSE p.target
  <2>1. n \in 0..MaxTargets
    BY <1>1, ConstantsAssumption
  <2> HIDE DEF n
  <2>2. new = [plan |-> p, namespace |-> n, pgpool |-> FALSE, member |-> "none"]
    BY DEF n
  <2> QED BY <1>0, <2>1, <2>2 DEF SiteStates, Members
<1> HIDE DEF new
<1>3. /\ patroni' \in [1..MaxTargets -> [leader: Sites \cup {None}, initialized: BOOLEAN]]
      /\ \A id \in 1..MaxTargets :
            /\ patroni'[id].leader \in {None, patroni[id].leader}
            /\ patroni[id].initialized = patroni'[id].initialized
  <2> DEFINE l == IF patroni[p.target].leader = s THEN None ELSE patroni[p.target].leader
  <2>1. patroni' = [patroni EXCEPT ![p.target].leader = l]
    BY <1>0, Zenon
  <2>2. l \in Sites \cup {None} /\ l \in {None, patroni[p.target].leader}
    BY <1>1, Zenon DEF IInv, Types
  <2> HIDE DEF l, p
  <2> QED BY <1>1, <2>1, <2>2 DEF IInv, Types
<1>4. \A id \in 1..MaxTargets : patroni'[id].leader # None => patroni'[id].initialized
  BY <1>3, Zenon DEF IInv, RecoveryInv
<1> QED BY <1>0, <1>2, <1>3, <1>4, SiteLemma

\* A step in which one member starts or changes its state.
LEMMA MemberLemma ==
    ASSUME IInv, NEW s \in Sites, site[s].member # "none",
           NEW m \in Members, site' = [site EXCEPT ![s].member = m],
           patroni' \in [1..MaxTargets -> [leader: Sites \cup {None}, initialized: BOOLEAN]],
           \A id \in 1..MaxTargets :
              /\ patroni[id].initialized => patroni'[id].initialized
              /\ patroni'[id].leader # None => patroni'[id].initialized,
           patroni'[site[s].namespace].initialized,
           m = "empty" => history.abandoned,
           UNCHANGED <<target, targets, status, plan, reading, history>>
    PROVE  IInv'
<1> DEFINE new == [site[s] EXCEPT !.member = m]
<1>1. site[s] \in SiteStates /\ site' = [site EXCEPT ![s] = new]
  BY DEF IInv, Types
<1>2. /\ new \in SiteStates /\ new.plan = site[s].plan /\ new.member = m
      /\ new.namespace = site[s].namespace
  BY <1>1 DEF SiteStates, Members
<1>3. site[s].namespace # 0
  BY DEF IInv, Types
<1> HIDE DEF new
<1> QED BY <1>1, <1>2, <1>3, SiteLemma

LEMMA RecoverLemma ==
    ASSUME IInv, Recover
    PROVE  IInv'
<1> DEFINE n == site[SeedSite].namespace
<1>1. SeedSite \in Sites /\ n \in 1..MaxTargets /\ patroni[n].initialized
  BY ConstantsAssumption DEF IInv, Types, RecoveryInv, Recover, SiteStates
<1>2. patroni' = [patroni EXCEPT ![n].leader = SeedSite]
  BY DEF Recover
<1>3. /\ patroni' \in [1..MaxTargets -> [leader: Sites \cup {None}, initialized: BOOLEAN]]
      /\ \A id \in 1..MaxTargets :
            /\ patroni[id].initialized = patroni'[id].initialized
            /\ id # n => patroni'[id].leader = patroni[id].leader
  BY <1>1, <1>2, Zenon DEF IInv, Types
<1> HIDE DEF n
<1>4. \A id \in 1..MaxTargets : patroni'[id].leader # None => patroni'[id].initialized
  BY <1>1, <1>3, Zenon DEF IInv, RecoveryInv
<1> QED BY <1>1, <1>3, <1>4, MemberLemma DEF Recover, hub, n, Members

LEMMA JoinLemma ==
    ASSUME IInv, NEW s \in Sites, Join(s)
    PROVE  IInv'
<1> DEFINE n == site[s].namespace
           leader == patroni[n].leader
<1>1. /\ site[s].member = "joining" /\ n \in 1..MaxTargets /\ Begun(n)
      /\ leader \in Sites \cup {None}
      /\ UNCHANGED <<target, targets, status, plan, reading, history>>
  BY DEF IInv, Types, RecoveryInv, Join, SiteStates, hub
<1>2. CASE leader # None /\ site' = [site EXCEPT ![s].member = site[leader].member]
           /\ UNCHANGED patroni
  <2>1. leader \in Sites /\ patroni[n].initialized
    BY <1>1, <1>2, Zenon DEF IInv, RecoveryInv
  <2>2. /\ site[leader].member \in Members
        /\ site[leader].member = "empty" => history.abandoned
    BY <2>1, Zenon DEF IInv, Types, SiteStates, RecoveryInv, NothingIsEmpty
  <2>3. \A id \in 1..MaxTargets : patroni[id].leader # None => patroni[id].initialized
    BY DEF IInv, RecoveryInv
  <2> QED BY <1>1, <1>2, <2>1, <2>2, <2>3, MemberLemma DEF IInv, Types
<1>3. CASE /\ leader = None /\ ~patroni[n].initialized
           /\ site' = [site EXCEPT ![s].member = "empty"]
           /\ patroni' = [patroni EXCEPT ![n] = [leader |-> s, initialized |-> TRUE]]
  <2>1. history.abandoned
    BY <1>1, <1>3 DEF Begun
  <2>2. /\ patroni' \in [1..MaxTargets -> [leader: Sites \cup {None}, initialized: BOOLEAN]]
        /\ patroni'[n].initialized
        /\ \A id \in 1..MaxTargets : id # n => patroni'[id] = patroni[id]
    BY <1>1, <1>3 DEF IInv, Types
  <2>3. \A id \in 1..MaxTargets :
            /\ patroni[id].initialized => patroni'[id].initialized
            /\ patroni'[id].leader # None => patroni'[id].initialized
    BY <2>2 DEF IInv, RecoveryInv
  <2> QED BY <1>1, <1>3, <2>1, <2>2, <2>3, MemberLemma DEF Members
<1> QED BY <1>2, <1>3 DEF Join

LEMMA PromoteLemma ==
    ASSUME IInv, NEW s \in Sites, Promote(s)
    PROVE  IInv'
<1> DEFINE n == site[s].namespace
           m == site[s].member
<1>1. /\ m \in Members /\ m # "none" /\ n \in 1..MaxTargets /\ patroni[n].initialized
      /\ m = "empty" => history.abandoned
  BY DEF Promote, Running, IInv, Types, SiteStates, RecoveryInv, NothingIsEmpty
<1>2. patroni' = [patroni EXCEPT ![n].leader = s]
  BY DEF Promote
<1>3. /\ patroni' \in [1..MaxTargets -> [leader: Sites \cup {None}, initialized: BOOLEAN]]
      /\ \A id \in 1..MaxTargets :
            /\ patroni[id].initialized = patroni'[id].initialized
            /\ id # n => patroni'[id].leader = patroni[id].leader
  BY <1>1, <1>2 DEF IInv, Types
<1>4. site' = [site EXCEPT ![s].member = m]
  BY DEF Promote, IInv, Types, SiteStates
<1> HIDE DEF n, m
<1>5. \A id \in 1..MaxTargets : patroni'[id].leader # None => patroni'[id].initialized
  BY <1>1, <1>3 DEF IInv, RecoveryInv
<1> QED BY <1>1, <1>3, <1>4, <1>5, MemberLemma DEF Promote, hub, n, m

\* A report changes what the status has seen and which sites are done.
LEMMA StatusLemma ==
    ASSUME IInv, status' \in Statuses, target # None,
           status'.revision = status.revision, status'.fingerprint = status.fingerprint,
           status'.topology = status.topology,
           \A t \in Sites : status'.seen[t] # None =>
              status.seen[t] # None \/ patroni[target.id].initialized,
           status.deleted \subseteq status'.deleted,
           \A t \in status'.deleted \ status.deleted :
              /\ Clean(t) /\ Issued /\ plan # None /\ Deletes(plan) /\ site[t].plan = plan,
           UNCHANGED <<target, targets, plan, reading, site, patroni, history>>
    PROVE  IInv'
<1>1. Types'
  BY Zenon DEF IInv, Types
<1>2. RecoveryInv'
  BY Zenon DEF IInv, Types, RecoveryInv, Begun, NothingIsEmpty
<1>3. DeletionInv'
  BY DEF IInv, DeletionInv, Clean, TheDeletionPlan, Issued
<1> QED BY <1>1, <1>2, <1>3 DEF IInv

LEMMA ReportLemma ==
    ASSUME IInv, NEW s \in Sites, Report(s)
    PROVE  IInv'
<1> DEFINE p == site[s].plan
<1>0. /\ p # None /\ p \in Plans /\ target # None /\ target \in Targets /\ status \in Statuses
      /\ p.target = target.id /\ p.revision = status.revision
      /\ UNCHANGED <<target, targets, plan, reading, site, patroni, history>>
  BY DEF Report, hub, IInv, Types, SiteStates
<1>1. CASE /\ Deletes(p) /\ site[s].member = "none" /\ ~site[s].pgpool
           /\ status' = [status EXCEPT !.deleted = @ \cup {s}]
  <2>1. plan # None /\ p = plan
    BY <1>0, <1>1, Zenon DEF IInv, DeletionInv
  <2>2. Issued
    <3>1. plan = TheDeletionPlan
      BY <1>1, <2>1 DEF IInv, DeletionInv
    <3>2. plan.revision = IF Issued THEN status.revision ELSE status.revision + 1
      BY <3>1 DEF TheDeletionPlan
    <3> QED BY <1>0, <2>1, <3>2 DEF Statuses
  <2>3. /\ status' \in Statuses /\ status'.deleted = status.deleted \cup {s}
        /\ status'.revision = status.revision /\ status'.fingerprint = status.fingerprint
        /\ status'.topology = status.topology /\ status'.seen = status.seen
    BY <1>0, <1>1, Zenon DEF Statuses
  <2> QED BY <1>0, <1>1, <2>1, <2>2, <2>3, StatusLemma DEF Clean
<1>2. CASE /\ patroni[p.target].leader # None
           /\ status' = [status EXCEPT !.applied[s] = p.revision, !.seen[s] = Observed(p.target)]
  <2> DEFINE seen == [status.seen EXCEPT ![s] = Observed(p.target)]
             applied == [status.applied EXCEPT ![s] = p.revision]
  <2>1. p.target \in 1..MaxTargets /\ p.revision \in Nat
    BY <1>0, Zenon DEF Plans
  <2>2. Observed(p.target) \in Observations
    BY <1>2, <2>1, Zenon DEF Observed, Observations, IInv, Types
  <2>3. /\ seen \in [Sites -> Observations \cup {None}] /\ applied \in [Sites -> Nat]
        /\ \A t \in Sites \ {s} : seen[t] = status.seen[t]
    BY <1>0, <2>1, <2>2 DEF Statuses
  <2>4. status' = [status EXCEPT !.applied = applied, !.seen = seen]
    BY <1>0, <1>2 DEF Statuses
  <2> HIDE DEF seen, applied
  <2>5. /\ status' \in Statuses /\ status'.deleted = status.deleted
        /\ status'.revision = status.revision /\ status'.fingerprint = status.fingerprint
        /\ status'.topology = status.topology /\ status'.seen = seen
    BY <1>0, <2>3, <2>4, Zenon DEF Statuses
  <2>6. patroni[target.id].initialized
    BY <1>0, <1>2, <2>1 DEF IInv, RecoveryInv
  <2> QED BY <1>0, <2>3, <2>5, <2>6, StatusLemma
<1>3. CASE status' = [status EXCEPT !.applied[s] = p.revision]
  <2> DEFINE applied == [status.applied EXCEPT ![s] = p.revision]
  <2>1. applied \in [Sites -> Nat]
    BY <1>0 DEF Statuses, Plans
  <2>2. status' = [status EXCEPT !.applied = applied]
    BY <1>0, <1>3 DEF Statuses
  <2> HIDE DEF applied
  <2>3. /\ status' \in Statuses /\ status'.deleted = status.deleted
        /\ status'.revision = status.revision /\ status'.fingerprint = status.fingerprint
        /\ status'.topology = status.topology /\ status'.seen = status.seen
    BY <1>0, <2>1, <2>2, Zenon DEF Statuses
  <2> QED BY <1>0, <2>3, StatusLemma
<1> QED BY <1>1, <1>2, <1>3 DEF Report

LEMMA ExpireLemma ==
    ASSUME IInv, NEW s \in Sites, Expire(s)
    PROVE  IInv'
<1> DEFINE seen == [status.seen EXCEPT ![s] = None]
<1>1. /\ status \in Statuses /\ target # None
      /\ UNCHANGED <<target, targets, plan, reading, site, patroni, history>>
  BY Zenon DEF Expire, hub, IInv, Types, RecoveryInv
<1>2. /\ seen \in [Sites -> Observations \cup {None}]
      /\ \A t \in Sites : seen[t] # None => status.seen[t] # None
  BY <1>1, Zenon DEF Statuses
<1>3. status' = [status EXCEPT !.seen = seen]
  BY <1>1 DEF Expire, Statuses
<1> HIDE DEF seen
<1>4. /\ status' \in Statuses /\ status'.deleted = status.deleted
      /\ status'.revision = status.revision /\ status'.fingerprint = status.fingerprint
      /\ status'.topology = status.topology /\ status'.seen = seen
  BY <1>1, <1>2, <1>3, Zenon DEF Statuses
<1> QED BY <1>1, <1>2, <1>4, StatusLemma

-----------------------------------------------------------------------------
LEMMA InitLemma == Init => IInv
<1> SUFFICES ASSUME Init PROVE IInv
  OBVIOUS
<1>1. NoStatus \in Statuses
  BY Zenon DEF NoStatus, Statuses
<1>2. Types
  BY <1>1, ConstantsAssumption DEF Init, Types, SiteStates, Members
<1>3. RecoveryInv
  BY Zenon DEF Init, RecoveryInv, NoStatus, NothingIsEmpty
<1>4. DeletionInv
  BY DEF Init, DeletionInv, NoStatus, Clean
<1> QED BY <1>2, <1>3, <1>4 DEF IInv

LEMMA NextLemma == IInv /\ [Next]_vars => IInv'
<1> SUFFICES ASSUME IInv, [Next]_vars PROVE IInv'
  OBVIOUS
<1>1. CASE UNCHANGED vars
  BY <1>1, SameLemma, Zenon DEF vars
<1>2. ASSUME NEW r \in Restores, reconcileRestoreDeletion(r) PROVE IInv'
  <2>1. CASE target' = target
    BY <1>2, <2>1, SameLemma DEF reconcileRestoreDeletion
  <2>2. CASE target # None /\ target' = [target EXCEPT !.deleting = TRUE]
    BY <1>2, <2>2, DeletingLemma DEF reconcileRestoreDeletion
  <2> QED BY <1>2, <2>1, <2>2 DEF reconcileRestoreDeletion, Owned
<1>3. ASSUME NEW r \in Restores, CreateRestore(r) \/ DeleteRestore(r) PROVE IInv'
  BY <1>3, SameLemma DEF CreateRestore, DeleteRestore
<1>4. CASE DeleteTarget
  BY <1>4, DeletingLemma DEF DeleteTarget
<1>5. CASE SourceFails \/ SourceRecovers
  BY <1>5, SameLemma DEF SourceFails, SourceRecovers
<1>6. CASE SystemStep
  BY <1>2, <1>5, <1>6, ReadLemma, WriteLemma, IssueLemma, EndLemma, RecoverLemma,
     ReconcileRestoreLemma, ReceiveLemma, ApplyLemma, DeleteLemma, JoinLemma, PromoteLemma,
     ReportLemma, Zenon DEF SystemStep
<1>7. CASE UserStep
  BY <1>3, <1>4, <1>7, EndLemma, ForceAbandonLemma DEF UserStep
<1> QED BY <1>1, <1>5, <1>6, <1>7, ExpireLemma DEF Next

LEMMA InductiveLemma == Spec => []IInv
  BY InitLemma, NextLemma, PTL DEF Spec

\* No member of a restore target is initialized empty unless an operator abandoned
\* the restore, whatever is deleted, lost or read late while the seed recovers
\* (reconcileRestore, restorePlan, restoreExpectsPostgres).
THEOREM NothingEmptyTheorem == Spec => []NothingIsEmpty
<1>1. IInv => NothingIsEmpty
  BY Zenon DEF IInv, RecoveryInv
<1> QED BY <1>1, InductiveLemma, PTL

\* A target is removed only when its deletion plan is the newest plan of every
\* site, unless it was orphaned, although the deletion plans may be issued several
\* times and reports come in while the reconciler works (finalize,
\* issueDeletionPlans, recordResult).
THEOREM GoneDeletedTheorem == Spec => []GoneIsDeleted
<1>1. IInv => GoneIsDeleted
  BY Zenon DEF IInv, DeletionInv, GoneIsDeleted
<1> QED BY <1>1, InductiveLemma, PTL

-----------------------------------------------------------------------------
(* Served and accepted: the inductive invariant.                           *)

\* The target is being restored: it has an owner and is not on its way out.
Live == target # None /\ target.owner # None /\ ~target.deleting

\* The sites that run the recovered data in the target's namespace, and the
\* observations that are still true of them.
Recovered == {t \in Sites : site[t].member = "restored" /\ site[t].namespace = target.id}
Two == \E t, u \in Recovered : t # u
GoodViews == {o \in Observations : /\ o.primary \in Recovered /\ o.standbys \subseteq Recovered
                                   /\ o.primary \notin o.standbys}
Late == {"Verify", "Completed"}

\* Every site runs the recovered data and serves it, and no plan says otherwise.
Serving ==
    /\ plan # None /\ Pgpool(plan) /\ Recovered = Sites
    /\ \A s \in Sites : /\ site[s].pgpool /\ site[s].plan # None
                        /\ site[s].plan.target = target.id /\ Pgpool(site[s].plan)

\* A target that does not exist yet has left no trace.
FreshInv ==
    /\ \A id \in 1..MaxTargets : id > targets => patroni[id].leader = None
    /\ \A s \in Sites : site[s].namespace <= targets
    /\ target # None /\ target.owner = None => history.abandoned

\* The members in the target's namespaces descend from the seed.
MembersInv ==
    /\ \A s \in Sites : site[s].namespace = target.id =>
          /\ site[s].member # "empty"
          /\ site[s].member = "joining" => patroni[target.id].initialized
    /\ patroni[target.id].leader # None => patroni[target.id].leader \in Recovered

\* What was observed, and what a phase rests on, is still so.
ViewsInv ==
    /\ \A s \in Sites : status.seen[s] # None => status.seen[s] \in GoodViews
    /\ reading # None => \A s \in Sites : reading.seen[s] # None => reading.seen[s] \in GoodViews
    /\ status.topology /\ status.standbys # {} => Two
    /\ target.phase # "Seed" => patroni[target.id].initialized
    /\ target.phase \in Late => Two

\* Plans and readings follow the phases of the target.
KindOf(phase) == IF phase = "Completed" THEN "Plain" ELSE phase

PlansInv ==
    /\ reading # None => /\ reading.target.owner = target.owner
                         /\ reading.target.phase # "Seed" => patroni[target.id].initialized
                         /\ reading.target.phase \in Late => target.phase \in Late
    /\ plan = None => status.fingerprint = <<None, "new">>
    /\ plan # None => /\ plan.revision = status.revision
                      /\ plan.kind = KindOf(status.fingerprint[2])
                      /\ LetsJoin(plan) => patroni[target.id].initialized
    /\ plan # None /\ Pgpool(plan) =>
          target.phase \in Late /\ (reading # None => reading.target.phase \in Late)

\* So do the plans that the sites hold.
HeldInv ==
    \A s \in Sites : site[s].plan # None /\ site[s].plan.target = target.id =>
        /\ plan # None /\ site[s].plan.revision <= plan.revision
        /\ site[s].plan.revision = plan.revision => site[s].plan = plan
        /\ LetsJoin(site[s].plan) => patroni[target.id].initialized
        /\ Pgpool(site[s].plan) => Two

\* A site that applied the newest revision is as that revision says.
AppliedInv ==
    /\ \A s \in Sites :
          /\ status.applied[s] <= status.revision
          /\ plan # None /\ status.applied[s] = status.revision =>
                /\ site[s].plan = plan
                /\ Pgpool(plan) => s \in Recovered /\ site[s].pgpool
          /\ reading # None => /\ reading.applied[s] <= status.revision
                               /\ reading.applied[s] = status.revision =>
                                     status.applied[s] = status.revision
    /\ status.ready \/ target.phase = "Completed" => Serving

AcceptInv == Live => MembersInv /\ ViewsInv /\ PlansInv /\ HeldInv /\ AppliedInv
JInv == IInv /\ FreshInv /\ AcceptInv

\* A target that is not on its way out has no deletion plan.
LEMMA LiveFacts ==
    ASSUME IInv, Live
    PROVE  /\ target \in Targets /\ target.id \in 1..MaxTargets /\ target.id <= targets
           /\ target.owner \in Restores /\ target.phase # "none" /\ target.phase \in Phases
           /\ plan # None => plan \in Plans /\ plan.target = target.id /\ ~Deletes(plan)
           /\ reading # None => reading \in Readings /\ reading.target.id = target.id
           /\ reading # None => ~reading.target.deleting
           /\ \A s \in Sites : site[s].plan # None /\ site[s].plan.target = target.id =>
                 ~Deletes(site[s].plan)
  <1>1. target # None /\ target \in Targets /\ target.id <= targets
    BY Zenon DEF IInv, Types, Live
  <1>2. /\ target.id \in 1..MaxTargets /\ target.owner \in Restores /\ target.phase \in Phases
    BY <1>1 DEF Targets, Live
  <1>3. target.phase # "none"
    BY <1>1, Zenon DEF IInv, Types, Live
  <1>4. plan # None => plan \in Plans /\ plan.target = target.id /\ ~Deletes(plan)
    BY Zenon DEF IInv, Types, DeletionInv, Live
  <1>5. reading # None => reading \in Readings /\ reading.target.id = target.id
                          /\ ~reading.target.deleting
    BY Zenon DEF IInv, Types, DeletionInv, Live
  <1>6. \A s \in Sites : site[s].plan # None /\ site[s].plan.target = target.id =>
                 ~Deletes(site[s].plan)
    BY <1>4 DEF IInv, DeletionInv, Live
  <1>. QED
    BY <1>1, <1>2, <1>3, <1>4, <1>5, <1>6, Zenon

\* While the recovered sites stay, so do the views of them.
LEMMA Carry ==
    ASSUME Recovered \subseteq Recovered'
    PROVE  (Two => Two') /\ GoodViews \subseteq GoodViews'
  BY Zenon DEF Two, GoodViews

LEMMA AcceptSame ==
    ASSUME JInv, UNCHANGED <<target, targets, status, plan, reading, site, patroni, history>>
    PROVE  FreshInv' /\ AcceptInv'
  <1>1. Recovered' = Recovered
    BY Zenon DEF Recovered
  <1>2. Two' = Two /\ GoodViews' = GoodViews
    BY <1>1 DEF Two, GoodViews
  <1>3. FreshInv'
    BY Zenon DEF JInv, FreshInv
  <1>4. MembersInv => MembersInv'
    BY <1>1, Zenon DEF MembersInv
  <1>5. ViewsInv => ViewsInv'
    BY <1>2, Zenon DEF ViewsInv
  <1>6. PlansInv /\ HeldInv => PlansInv' /\ HeldInv'
    BY <1>2, Zenon DEF PlansInv, HeldInv
  <1>7. AppliedInv => AppliedInv'
    BY <1>1, Zenon DEF AppliedInv, Serving
  <1>. QED
    BY <1>3, <1>4, <1>5, <1>6, <1>7, Zenon DEF JInv, AcceptInv, Live

\* A step of a site, or of Patroni at it.
LEMMA AcceptSite ==
    ASSUME JInv, NEW s \in Sites, NEW new \in SiteStates,
           site' = [site EXCEPT ![s] = new], new.plan = site[s].plan,
           UNCHANGED <<target, targets, status, plan, reading, history>>,
           new.namespace <= targets,
           \A id \in 1..MaxTargets : id > targets => patroni'[id].leader = None,
           Live /\ patroni[target.id].initialized => patroni'[target.id].initialized,
           Live /\ s \in Recovered => new.member = "restored" /\ new.namespace = target.id,
           Live /\ new.namespace = target.id =>
              /\ new.member # "empty"
              /\ new.member = "joining" => patroni'[target.id].initialized,
           Live /\ site[s].pgpool /\ site[s].plan # None /\ Pgpool(site[s].plan)
                /\ site[s].plan.target = target.id => new.pgpool,
           Live /\ patroni'[target.id].leader # None => patroni'[target.id].leader \in Recovered'
    PROVE  FreshInv' /\ AcceptInv'
  <1>0. \A t \in Sites : /\ site'[t] = IF t = s THEN new ELSE site[t]
                         /\ site'[t].plan = site[t].plan
    BY Zenon DEF JInv, IInv, Types
  <1>1. FreshInv'
    BY <1>0, Zenon DEF JInv, FreshInv
  <1>. SUFFICES ASSUME Live PROVE AcceptInv'
    BY <1>1, Zenon DEF AcceptInv, Live
  <1>2. MembersInv /\ ViewsInv /\ PlansInv /\ HeldInv /\ AppliedInv
    BY Zenon DEF JInv, AcceptInv
  <1>3. Recovered \subseteq Recovered' /\ Recovered' \subseteq Sites
    BY <1>0 DEF Recovered
  <1>4. (Two => Two') /\ GoodViews \subseteq GoodViews'
    BY <1>3, Carry, Zenon
  <1>5. MembersInv'
    BY <1>0, <1>2 DEF MembersInv
  <1>6. ViewsInv'
    BY <1>2, <1>4, Zenon DEF ViewsInv
  <1>7. PlansInv'
    BY <1>2, Zenon DEF PlansInv
  <1>8. HeldInv'
    BY <1>0, <1>2, <1>4, Zenon DEF HeldInv
  <1>9. AppliedInv'
    <2>0. \A t \in Sites : site[t].pgpool /\ site[t].plan # None /\ Pgpool(site[t].plan)
                           /\ site[t].plan.target = target.id => site'[t].pgpool
      BY <1>0, Zenon
    <2>1. Serving => Serving'
      BY <1>0, <1>3, <2>0, Zenon DEF Serving
    <2>2. plan # None => plan.target = target.id
      BY LiveFacts DEF JInv
    <2>. QED
      BY <1>0, <1>2, <1>3, <2>0, <2>1, <2>2 DEF AppliedInv
  <1>. QED
    BY <1>5, <1>6, <1>7, <1>8, <1>9, Zenon DEF AcceptInv

LEMMA AcceptReceive ==
    ASSUME JInv, NEW s \in Sites, ReceivePlan(s)
    PROVE  FreshInv' /\ AcceptInv'
  <1>0. /\ plan # None /\ site \in [Sites -> SiteStates]
        /\ UNCHANGED <<target, targets, status, plan, reading, patroni, history>>
    BY DEF JInv, IInv, Types, ReceivePlan, hub
  <1>1. \A t \in Sites : /\ site'[t].namespace = site[t].namespace
                         /\ site'[t].member = site[t].member
                         /\ site'[t].pgpool = site[t].pgpool
                         /\ site'[t].plan = IF t = s THEN plan ELSE site[t].plan
    BY <1>0, Zenon DEF ReceivePlan, SiteStates
  <1>2. FreshInv'
    BY <1>0, <1>1, Zenon DEF JInv, FreshInv
  <1>. SUFFICES ASSUME Live PROVE AcceptInv'
    BY <1>0, <1>2 DEF AcceptInv, Live
  <1>3. MembersInv /\ ViewsInv /\ PlansInv /\ HeldInv /\ AppliedInv
    BY Zenon DEF JInv, AcceptInv
  <1>4. Recovered' = Recovered
    BY <1>0, <1>1, Zenon DEF Recovered
  <1>5. Two' = Two /\ GoodViews' = GoodViews
    BY <1>4, Zenon DEF Two, GoodViews
  <1>6. plan.target = target.id /\ plan \in Plans
    BY <1>0, LiveFacts, Zenon DEF JInv
  <1>7. MembersInv' /\ ViewsInv' /\ PlansInv'
    BY <1>0, <1>1, <1>3, <1>4, <1>5, Zenon DEF MembersInv, ViewsInv, PlansInv
  <1>8. HeldInv'
    <2>1. /\ plan.revision <= plan.revision
          /\ LetsJoin(plan) => patroni[target.id].initialized
          /\ Pgpool(plan) => Two
      BY <1>0, <1>3, <1>6 DEF PlansInv, ViewsInv, Plans
    <2>. QED
      BY <1>0, <1>1, <1>3, <1>5, <2>1, Zenon DEF HeldInv
  <1>9. AppliedInv'
    BY <1>0, <1>1, <1>3, <1>4, <1>6 DEF AppliedInv, Serving
  <1>. QED
    BY <1>7, <1>8, <1>9 DEF AcceptInv

LEMMA AcceptApply ==
    ASSUME JInv, NEW s \in Sites, ApplyPlan(s)
    PROVE  FreshInv' /\ AcceptInv'
<1> DEFINE p == site[s].plan
           new == Rendered(p, s)
<1>0. /\ p # None /\ p \in Plans /\ ~Deletes(p) /\ EnsureNamespace(s, p.target)
      /\ site \in [Sites -> SiteStates] /\ site[s] \in SiteStates
      /\ UNCHANGED <<target, targets, status, plan, reading, history>>
      /\ site' = [site EXCEPT ![s] = new] /\ site'[s] = new
  BY Zenon DEF JInv, IInv, Types, ApplyPlan, hub, SiteStates
<1>1. p.target \in 1..MaxTargets /\ p.target <= targets
  BY <1>0, Zenon DEF Plans, JInv, IInv, DeletionInv
<1>2. /\ new \in SiteStates /\ new.plan = p /\ new.namespace = p.target /\ new.pgpool = Pgpool(p)
      /\ new.member = IF site[s].member # "none" \/ ~ExpectsPostgres(p, s) THEN site[s].member
                      ELSE IF p.kind = "Seed" THEN "recovering" ELSE "joining"
  <2>1. site[s].member \in Members /\ Pgpool(p) \in BOOLEAN /\ p.target \in 0..MaxTargets
    BY <1>0, <1>1 DEF SiteStates, Pgpool
  <2> QED BY <1>0, <2>1 DEF Rendered, SiteStates, Members
<1> HIDE DEF new, p
<1>3. patroni' = [patroni EXCEPT ![p.target].initialized = @ \/ new.member = "recovering"]
  BY <1>0 DEF ApplyPlan, p
<1>4. \A id \in 1..MaxTargets :
            /\ patroni'[id].leader = patroni[id].leader
            /\ patroni[id].initialized => patroni'[id].initialized
  BY <1>1, <1>3, Zenon DEF JInv, IInv, Types
<1>5. site[s].member # "none" => site[s].namespace = p.target
  BY <1>0, <1>1, Zenon DEF EnsureNamespace, JInv, IInv, Types
<1>6. \A id \in 1..MaxTargets : id > targets => patroni'[id].leader = None
  BY <1>4, Zenon DEF JInv, FreshInv
<1>7. CASE ~Live
  BY <1>0, <1>1, <1>2, <1>6, <1>7, AcceptSite, Zenon DEF p
<1>8. CASE Live
  <2>1. target.id \in 1..MaxTargets
    BY <1>8, LiveFacts DEF JInv
  <2>2. MembersInv /\ HeldInv
    BY <1>8 DEF JInv, AcceptInv
  <2>3. s \in Recovered => new.member = "restored" /\ new.namespace = target.id
    BY <1>2, <1>5 DEF Recovered
  <2>4. new.namespace = target.id =>
              /\ new.member # "empty"
              /\ new.member = "joining" => patroni'[target.id].initialized
    <3>1. CASE new.member = site[s].member
      BY <1>2, <1>4, <1>5, <2>1, <2>2, <3>1 DEF MembersInv
    <3>2. CASE new.member = "recovering"
      BY <3>2, Zenon
    <3>3. CASE new.member = "joining" /\ p.kind # "Seed"
      <4>1. LetsJoin(p)
        BY <1>0, <3>3 DEF Plans, LetsJoin, Deletes
      <4> QED BY <1>0, <1>2, <1>4, <2>1, <2>2, <3>3, <4>1 DEF HeldInv, p
    <3> QED BY <1>2, <3>1, <3>2, <3>3
  <2>5. patroni'[target.id].leader # None => patroni'[target.id].leader \in Recovered'
    <3>1. Recovered \subseteq Recovered'
      BY <1>0, <2>3 DEF Recovered
    <3> QED BY <1>4, <2>1, <2>2, <3>1 DEF MembersInv
  <2>6. Pgpool(site[s].plan) => new.pgpool
    BY <1>2, Zenon DEF p
  <2> QED BY <1>0, <1>1, <1>2, <1>4, <1>6, <2>1, <2>3, <2>4, <2>5, <2>6, AcceptSite DEF p
<1> QED BY <1>7, <1>8

LEMMA AcceptDelete ==
    ASSUME JInv, NEW s \in Sites, deleteInstance(s)
    PROVE  FreshInv' /\ AcceptInv'
<1> DEFINE p == site[s].plan
           new == [plan |-> p, namespace |-> IF p.kind = "Delete" THEN 0 ELSE p.target,
                   pgpool |-> FALSE, member |-> "none"]
<1>0. /\ p # None /\ p \in Plans /\ Deletes(p) /\ site[s].namespace = p.target
      /\ UNCHANGED <<target, targets, status, plan, reading, history>>
      /\ site \in [Sites -> SiteStates] /\ site' = [site EXCEPT ![s] = new]
      /\ patroni' = [patroni EXCEPT ![p.target].leader = IF @ = s THEN None ELSE @]
  BY Zenon DEF JInv, IInv, Types, deleteInstance, hub, SiteStates
<1>1. p.target \in 1..MaxTargets /\ p.target <= targets /\ targets \in Nat
  BY <1>0 DEF Plans, JInv, IInv, Types, DeletionInv
<1>2. /\ new \in SiteStates /\ new.plan = p /\ new.member = "none"
      /\ new.namespace \in {0, p.target} /\ new.namespace <= targets
  <2> DEFINE n == IF p.kind = "Delete" THEN 0 ELSE p.target
  <2>1. n \in 0..MaxTargets /\ n \in {0, p.target} /\ n <= targets
    BY <1>1, ConstantsAssumption
  <2> HIDE DEF n
  <2>2. new = [plan |-> p, namespace |-> n, pgpool |-> FALSE, member |-> "none"]
    BY DEF n
  <2> QED BY <1>0, <2>1, <2>2 DEF SiteStates, Members
<1> HIDE DEF new
<1>3. \A id \in 1..MaxTargets :
            /\ patroni'[id].leader \in {None, patroni[id].leader}
            /\ patroni[id].initialized = patroni'[id].initialized
  <2> DEFINE l == IF patroni[p.target].leader = s THEN None ELSE patroni[p.target].leader
  <2>1. patroni' = [patroni EXCEPT ![p.target].leader = l]
    BY <1>0
  <2>2. l \in {None, patroni[p.target].leader}
    OBVIOUS
  <2> HIDE DEF l, p
  <2> QED BY <1>1, <2>1, <2>2 DEF JInv, IInv, Types
<1>4. \A id \in 1..MaxTargets : id > targets => patroni'[id].leader = None
  BY <1>3, Zenon DEF JInv, FreshInv
<1>5. CASE ~Live
  BY <1>0, <1>1, <1>2, <1>4, <1>5, AcceptSite DEF p
<1>6. CASE Live
  <2>1. target.id \in 1..MaxTargets /\ target.id # 0 /\ p.target # target.id
    BY <1>0, <1>6, LiveFacts DEF JInv
  <2>2. MembersInv
    BY <1>6 DEF JInv, AcceptInv
  <2>3. s \notin Recovered /\ new.namespace # target.id
    BY <1>0, <1>2, <2>1, Zenon DEF Recovered
  <2>4. Recovered \subseteq Recovered'
    BY <1>0, <2>3, Zenon DEF Recovered
  <2>5. patroni'[target.id].leader # None => patroni'[target.id].leader \in Recovered'
    BY <1>3, <2>1, <2>2, <2>4, Zenon DEF MembersInv
  <2> QED BY <1>0, <1>1, <1>2, <1>3, <1>4, <2>1, <2>3, <2>5, AcceptSite DEF p
<1> QED BY <1>5, <1>6

\* A step in which one member starts or changes its state, or leads.
LEMMA AcceptMember ==
    ASSUME JInv, NEW s \in Sites, NEW m \in Members,
           site' = [site EXCEPT ![s].member = m],
           \A id \in 1..MaxTargets :
              /\ patroni[id].initialized => patroni'[id].initialized
              /\ patroni'[id].leader = patroni[id].leader \/ id = site[s].namespace,
           Live /\ s \in Recovered => m = "restored",
           Live /\ site[s].namespace = target.id =>
              /\ m = "restored"
              /\ patroni'[target.id].leader \in {s, patroni[target.id].leader},
           UNCHANGED <<target, targets, status, plan, reading, history>>
    PROVE  FreshInv' /\ AcceptInv'
<1> DEFINE new == [site[s] EXCEPT !.member = m]
<1>1. site[s] \in SiteStates /\ site' = [site EXCEPT ![s] = new] /\ site \in [Sites -> SiteStates]
  BY DEF JInv, IInv, Types
<1>2. /\ new \in SiteStates /\ new.plan = site[s].plan /\ new.member = m
      /\ new.namespace = site[s].namespace /\ new.pgpool = site[s].pgpool
  BY <1>1 DEF SiteStates, Members
<1> HIDE DEF new
<1>3. new.namespace <= targets
  BY <1>2 DEF JInv, FreshInv
<1>4. \A id \in 1..MaxTargets : id > targets => patroni'[id].leader = None
  BY <1>2, <1>3 DEF JInv, IInv, Types, FreshInv
<1>5. CASE ~Live
  BY <1>1, <1>2, <1>3, <1>4, <1>5, AcceptSite, Zenon
<1>6. CASE Live
  <2>1. target.id \in 1..MaxTargets
    BY <1>6, LiveFacts DEF JInv
  <2>2. MembersInv
    BY <1>6 DEF JInv, AcceptInv
  <2>3. s \in Recovered => new.member = "restored" /\ new.namespace = target.id
    BY <1>2, <1>6 DEF Recovered
  <2>4. /\ Recovered \subseteq Recovered'
        /\ site[s].namespace = target.id => s \in Recovered'
    BY <1>1, <1>2, <1>6, <2>3, Zenon DEF Recovered
  <2>5. patroni'[target.id].leader # None => patroni'[target.id].leader \in Recovered'
    BY <1>6, <2>1, <2>2, <2>4 DEF MembersInv
  <2> QED BY <1>1, <1>2, <1>3, <1>4, <1>6, <2>1, <2>3, <2>5, AcceptSite
<1> QED BY <1>5, <1>6

LEMMA AcceptRecover ==
    ASSUME JInv, Recover
    PROVE  FreshInv' /\ AcceptInv'
<1> DEFINE n == site[SeedSite].namespace
<1>1. SeedSite \in Sites /\ n \in 1..MaxTargets
  BY ConstantsAssumption DEF JInv, IInv, Types, RecoveryInv, Recover, SiteStates
<1>2. patroni' = [patroni EXCEPT ![n].leader = SeedSite]
  BY DEF Recover
<1>3. /\ patroni'[n].leader = SeedSite
      /\ \A id \in 1..MaxTargets :
            /\ patroni[id].initialized = patroni'[id].initialized
            /\ id # n => patroni'[id].leader = patroni[id].leader
  BY <1>1, <1>2 DEF JInv, IInv, Types
<1> HIDE DEF n
<1> QED BY <1>1, <1>3, AcceptMember DEF Recover, hub, n, Members

LEMMA AcceptJoin ==
    ASSUME JInv, NEW s \in Sites, Join(s)
    PROVE  FreshInv' /\ AcceptInv'
<1> DEFINE n == site[s].namespace
           leader == patroni[n].leader
<1>1. /\ site[s].member = "joining" /\ n \in 1..MaxTargets /\ s \notin Recovered
      /\ leader \in Sites \cup {None}
      /\ UNCHANGED <<target, targets, status, plan, reading, history>>
  BY DEF JInv, IInv, Types, RecoveryInv, Join, SiteStates, hub, Recovered
<1>2. Live => MembersInv
  BY DEF JInv, AcceptInv
<1>3. CASE leader # None /\ site' = [site EXCEPT ![s].member = site[leader].member]
           /\ UNCHANGED patroni
  <2>1. leader \in Sites /\ site[leader].member \in Members
    BY <1>1, <1>3 DEF JInv, IInv, Types, SiteStates
  <2>2. Live /\ n = target.id => site[leader].member = "restored"
    BY <1>2, <1>3 DEF MembersInv, Recovered
  <2> QED BY <1>1, <1>3, <2>1, <2>2, AcceptMember
<1>4. CASE /\ leader = None /\ ~patroni[n].initialized
           /\ site' = [site EXCEPT ![s].member = "empty"]
           /\ patroni' = [patroni EXCEPT ![n] = [leader |-> s, initialized |-> TRUE]]
  <2>1. Live => n # target.id
    BY <1>1, <1>2, <1>4 DEF MembersInv
  <2>2. \A id \in 1..MaxTargets :
              /\ patroni[id].initialized => patroni'[id].initialized
              /\ patroni'[id].leader = patroni[id].leader \/ id = n
    BY <1>1, <1>4 DEF JInv, IInv, Types
  <2> QED BY <1>1, <1>4, <2>1, <2>2, AcceptMember DEF Members
<1> QED BY <1>3, <1>4 DEF Join

LEMMA AcceptPromote ==
    ASSUME JInv, NEW s \in Sites, Promote(s)
    PROVE  FreshInv' /\ AcceptInv'
<1> DEFINE n == site[s].namespace
           m == site[s].member
<1>1. m \in Members /\ m \in {"restored", "empty"} /\ n \in 1..MaxTargets
  BY DEF Promote, Running, JInv, IInv, Types, SiteStates
<1>2. patroni' = [patroni EXCEPT ![n].leader = s]
  BY DEF Promote
<1>3. /\ patroni'[n].leader = s
      /\ \A id \in 1..MaxTargets :
            /\ patroni[id].initialized = patroni'[id].initialized
            /\ id # n => patroni'[id].leader = patroni[id].leader
  BY <1>1, <1>2 DEF JInv, IInv, Types
<1>4. site' = [site EXCEPT ![s].member = m]
  BY DEF Promote, JInv, IInv, Types, SiteStates
<1>5. /\ Live /\ s \in Recovered => m = "restored"
      /\ Live /\ n = target.id => m = "restored"
  BY <1>1 DEF JInv, AcceptInv, MembersInv, Recovered
<1> HIDE DEF n, m
<1> QED BY <1>1, <1>3, <1>4, <1>5, AcceptMember DEF Promote, hub, n

-----------------------------------------------------------------------------
\* A step after which the target is not being restored any more.
LEMMA AcceptOver ==
    ASSUME JInv, ~Live', UNCHANGED <<targets, site, patroni>>,
           target' # None /\ target'.owner = None => history'.abandoned
    PROVE  FreshInv' /\ AcceptInv'
  BY DEF JInv, FreshInv, AcceptInv

LEMMA AcceptCreate ==
    ASSUME JInv, NEW r \in Restores, CreateTarget(r),
           UNCHANGED <<plan, reading, site, patroni, history>>
    PROVE  FreshInv' /\ AcceptInv'
<1> PICK policy \in Policies :
          target' = [id |-> targets + 1, owner |-> r, phase |-> "Seed",
                     policy |-> policy, deleting |-> FALSE]
  BY DEF CreateTarget
<1>1. /\ target'.id = targets + 1 /\ target'.phase = "Seed" /\ target'.owner = r
      /\ targets' = targets + 1 /\ r # None /\ targets \in Nat /\ targets + 1 \in 1..MaxTargets
  BY ConstantsAssumption DEF CreateTarget, JInv, IInv, Types
<1>2. plan = None /\ reading = None /\ status' = NoStatus
  BY Zenon DEF JInv, IInv, DeletionInv, CreateTarget
<1>3. /\ \A s \in Sites : site[s].namespace # targets + 1
      /\ patroni[targets + 1].leader = None
  BY <1>1 DEF JInv, IInv, Types, SiteStates, FreshInv
<1>4. \A s \in Sites : site[s].plan # None => site[s].plan.target # targets + 1
  <2>1. \A s \in Sites : site[s].plan # None => site[s].plan.target <= targets /\ site[s].plan \in Plans
    BY Zenon DEF JInv, IInv, Types, DeletionInv, SiteStates
  <2> QED BY <1>1, <2>1 DEF Plans
<1>5. FreshInv'
  <2>1. \A id \in 1..MaxTargets : id > targets + 1 => patroni[id].leader = None
    BY <1>1 DEF JInv, FreshInv
  <2>2. \A s \in Sites : site[s].namespace <= targets + 1
    BY <1>1 DEF JInv, FreshInv, IInv, Types, SiteStates
  <2> QED BY <1>1, <2>1, <2>2 DEF FreshInv
<1>6. MembersInv'
  BY <1>1, <1>3, Zenon DEF MembersInv
<1>7. ViewsInv'
  BY <1>1, <1>2, Zenon DEF ViewsInv, NoStatus, Late
<1>8. PlansInv' /\ HeldInv'
  BY <1>1, <1>2, <1>4, Zenon DEF PlansInv, HeldInv, NoStatus
<1>9. AppliedInv'
  BY <1>1, <1>2 DEF AppliedInv, NoStatus
<1> QED BY <1>5, <1>6, <1>7, <1>8, <1>9 DEF AcceptInv

LEMMA AcceptPhase ==
    ASSUME JInv, NEW r \in Restores, Owned(r), NEW phase \in {"Replicas", "Verify", "Completed"},
           \/ phase = "Replicas" /\ SeedPromoted
           \/ phase = "Verify" /\ ReplicationReady
           \/ phase = "Completed" /\ AcceptancePassed,
           setTargetPhase(r, phase),
           UNCHANGED <<plan, reading, site, patroni, history>>
    PROVE  FreshInv' /\ AcceptInv'
<1>1. target # None /\ target \in Targets /\ target.owner # None
  BY ConstantsAssumption DEF Owned, JInv, IInv, Types
<1>2. /\ target' = [target EXCEPT !.phase = phase]
      /\ UNCHANGED <<targets, status>>
  BY DEF setTargetPhase
<1>3. /\ target'.id = target.id /\ target'.deleting = target.deleting
      /\ target'.owner = target.owner /\ target'.phase = phase /\ target' \in Targets
  BY <1>1, <1>2 DEF Targets, Phases
<1>4. FreshInv'
  BY <1>1, <1>2, <1>3, Zenon DEF JInv, FreshInv
<1> SUFFICES ASSUME Live PROVE AcceptInv'
  BY <1>1, <1>3, <1>4, Zenon DEF AcceptInv, Live
<1>5. MembersInv /\ ViewsInv /\ PlansInv /\ HeldInv /\ AppliedInv
  BY Zenon DEF JInv, AcceptInv
<1>6. Recovered' = Recovered
  BY <1>3, Zenon DEF Recovered
<1>7. Two' = Two /\ GoodViews' = GoodViews
  BY <1>6, Zenon DEF Two, GoodViews
<1>8. status.topology /\ patroni[target.id].initialized
  BY DEF SeedPromoted, ReplicationReady, AcceptancePassed, JInv, IInv, RecoveryInv
<1>9. MembersInv' /\ HeldInv'
  BY <1>2, <1>3, <1>5, <1>6, <1>7 DEF MembersInv, HeldInv
<1>10. phase \in Late => Two
  BY <1>5 DEF ViewsInv, ReplicationReady, AcceptancePassed, Late
<1>11. ViewsInv'
  BY <1>2, <1>3, <1>5, <1>7, <1>8, <1>10, Zenon DEF ViewsInv
<1>12. target.phase \in Late => phase \in Late
  BY DEF SeedPromoted, ReplicationReady, Late
<1>13. PlansInv'
  BY <1>2, <1>3, <1>5, <1>12, Zenon DEF PlansInv
<1>14. phase = "Completed" => Serving
  BY <1>5, Zenon DEF AppliedInv, AcceptancePassed
<1>15. Serving => Serving'
  BY <1>3, <1>6 DEF Serving
<1>16. AppliedInv'
  BY <1>2, <1>3, <1>5, <1>6, <1>14, <1>15, Zenon DEF AppliedInv
<1> QED BY <1>9, <1>11, <1>13, <1>16 DEF AcceptInv

LEMMA AcceptReconcileRestore ==
    ASSUME JInv, NEW r \in Restores, ReconcileRestore(r)
    PROVE  FreshInv' /\ AcceptInv'
<1>0. UNCHANGED <<plan, reading, site, patroni, history>>
  BY DEF ReconcileRestore
<1>1. CASE restoreBlocked(r)
  BY <1>0, <1>1, AcceptSame, Zenon DEF restoreBlocked
<1>2. CASE CreateTarget(r)
  BY <1>0, <1>2, AcceptCreate, Zenon
<1>3. CASE Owned(r) /\ SeedPromoted /\ setTargetPhase(r, "Replicas")
  BY <1>0, <1>3, AcceptPhase, Zenon
<1>4. CASE Owned(r) /\ ReplicationReady /\ setTargetPhase(r, "Verify")
  BY <1>0, <1>4, AcceptPhase, Zenon
<1>5. CASE Owned(r) /\ AcceptancePassed /\ setTargetPhase(r, "Completed")
  BY <1>0, <1>5, AcceptPhase, Zenon
<1>6. CASE UNCHANGED <<target, targets, status, disturbances>>
  BY <1>0, <1>6, AcceptSame, Zenon
<1> QED BY <1>1, <1>2, <1>3, <1>4, <1>5, <1>6 DEF ReconcileRestore

-----------------------------------------------------------------------------
LEMMA AcceptRead ==
    ASSUME JInv, ReadTarget
    PROVE  FreshInv' /\ AcceptInv'
<1>1. target # None /\ target \in Targets /\ reading' = Current
  BY Zenon DEF ReadTarget, JInv, IInv, Types
<1>2. /\ reading'.target = target /\ reading'.seen = status.seen
      /\ reading'.applied = status.applied
  BY <1>1, Zenon DEF Current
<1>3. UNCHANGED <<target, targets, status, plan, site, patroni, history>>
  BY DEF ReadTarget, hub
<1>4. FreshInv'
  BY <1>3, Zenon DEF JInv, FreshInv
<1> SUFFICES ASSUME Live PROVE AcceptInv'
  BY <1>3, <1>4 DEF AcceptInv, Live
<1>5. MembersInv /\ ViewsInv /\ PlansInv /\ HeldInv /\ AppliedInv
  BY DEF JInv, AcceptInv
<1>6. Recovered' = Recovered
  BY <1>3 DEF Recovered
<1>7. Two' = Two /\ GoodViews' = GoodViews
  BY <1>6, Zenon DEF Two, GoodViews
<1>8. MembersInv' /\ HeldInv'
  BY <1>3, <1>5, <1>6, <1>7, Zenon DEF MembersInv, HeldInv
<1>9. ViewsInv'
  BY <1>2, <1>3, <1>5, <1>7, Zenon DEF ViewsInv
<1>10. PlansInv'
  BY <1>2, <1>3, <1>5, Zenon DEF PlansInv, ViewsInv
<1>11. AppliedInv'
  BY <1>2, <1>3, <1>5, <1>6, Zenon DEF AppliedInv, Serving
<1> QED BY <1>8, <1>9, <1>10, <1>11 DEF AcceptInv

\* A synchronous standby is one that some site observed.
LEMMA StandbyLemma ==
    ASSUME NEW r \in Readings, aggregateTopology(r).topology, aggregateTopology(r).standbys # {}
    PROVE  \E s \in Sites : r.seen[s] # None /\ r.seen[s].standbys # {}
<1> DEFINE seers == {s \in Sites : r.seen[s] # None}
           leaders == {r.seen[s].primary : s \in seers}
           one == /\ Cardinality(leaders) = 1
                  /\ IF r.target.phase = "Seed" THEN Cardinality(seers) = 1 ELSE seers = Sites
           found == [primary |-> CHOOSE p \in leaders : TRUE, topology |-> TRUE,
                     standbys |-> {m \in Sites : \A s \in seers : m \in r.seen[s].standbys}]
<1>1. aggregateTopology(r) = IF one THEN found
                             ELSE [primary |-> None, standbys |-> {}, topology |-> FALSE]
  BY Zenon DEF aggregateTopology
<1>2. one
  BY <1>1
<1>3. \E s \in seers : TRUE
  BY <1>2, FS_EmptySet
<1>4. \E m \in Sites : \A s \in seers : m \in r.seen[s].standbys
  BY <1>1, <1>2
<1> QED BY <1>3, <1>4

LEMMA AcceptWrite ==
    ASSUME JInv, WriteTarget
    PROVE  FreshInv' /\ AcceptInv'
<1>0. /\ reading # None /\ reading' = None
      /\ UNCHANGED <<target, targets, site, patroni, history>>
  BY Zenon DEF WriteTarget, hub
<1>1. FreshInv'
  BY <1>0, Zenon DEF JInv, FreshInv
<1> SUFFICES ASSUME Live PROVE AcceptInv'
  BY <1>0, <1>1, Zenon DEF AcceptInv, Live
<1>2. MembersInv /\ ViewsInv /\ PlansInv /\ HeldInv /\ AppliedInv
  BY DEF JInv, AcceptInv
<1>3. Recovered' = Recovered
  BY <1>0, Zenon DEF Recovered
<1>4. Two' = Two /\ GoodViews' = GoodViews
  BY <1>3 DEF Two, GoodViews
<1>5. /\ reading \in Readings /\ target \in Targets /\ reading.target.id = target.id
      /\ status \in Statuses /\ status.revision \in Nat
      /\ plan # None => plan \in Plans /\ plan.target = target.id
  BY <1>0, LiveFacts, Zenon DEF JInv, IInv, Types, Statuses
<1>6. MembersInv'
  BY <1>0, <1>2, <1>3, Zenon DEF MembersInv
<1>7. CASE reading.invalid
  <2>1. plan' = plan /\ status' = [status EXCEPT !.ready = FALSE]
    BY <1>7 DEF WriteTarget, Reconciled
  <2>2. /\ status'.seen = status.seen /\ status'.applied = status.applied
        /\ status'.topology = status.topology /\ status'.standbys = status.standbys
        /\ status'.revision = status.revision /\ status'.fingerprint = status.fingerprint
        /\ ~status'.ready
    BY <1>5, <2>1, Zenon DEF Statuses
  <2>3. ViewsInv'
    BY <1>0, <1>2, <1>4, <2>2, Zenon DEF ViewsInv
  <2>4. PlansInv' /\ HeldInv'
    BY <1>0, <1>2, <1>4, <2>1, <2>2, Zenon DEF PlansInv, HeldInv
  <2>5. AppliedInv'
    BY <1>0, <1>2, <1>3, <2>1, <2>2, Zenon DEF AppliedInv, Serving
  <2> QED BY <1>6, <2>3, <2>4, <2>5 DEF AcceptInv
<1>8. CASE ~reading.invalid
  <2> DEFINE ph == reading.target.phase
             fp == <<reading.target.owner, ph>>
             rev == IF status.fingerprint = fp THEN status.revision ELSE status.revision + 1
             top == aggregateTopology(reading)
             ready == /\ \A s \in Sites : reading.applied[s] = rev
                      /\ setAppliedInstanceReady(restorePlan(reading.target), top)
  <2>1. status' = [status EXCEPT !.revision = rev, !.fingerprint = fp, !.primary = top.primary,
                     !.standbys = top.standbys, !.topology = top.topology, !.ready = ready]
    BY <1>8, Zenon DEF WriteTarget, Reconciled
  <2>2. reading.target.owner = target.owner /\ target.owner # None /\ ph # "none" /\ ph \in Phases
    BY <1>0, <1>2, <1>5, Zenon DEF PlansInv, Live, JInv, IInv, RecoveryInv, Readings, Targets
  <2>3. restorePlan(reading.target) = KindOf(ph)
    BY <2>2, Zenon DEF restorePlan, KindOf
  <2>4. /\ KindOf(ph) \in {"Seed", "Replicas", "Verify", "Plain"}
        /\ KindOf(ph) \in {"Verify", "Plain"} <=> ph \in Late
        /\ KindOf(ph) # "Seed" => ph # "Seed"
    BY <2>2 DEF KindOf, Phases, Late
  <2>5. status'.revision = rev
    BY <1>5, <2>1, Zenon DEF Statuses
  <2>6. plan' = [target |-> target.id, revision |-> rev, kind |-> KindOf(ph)]
    BY <1>5, <1>8, <2>3, <2>5, Zenon DEF WriteTarget
  <2>7. fp[2] = ph /\ (status.fingerprint = fp => plan # None)
    BY <1>2, <2>2 DEF PlansInv
  <2>8. /\ rev \in Nat /\ status.revision <= rev
        /\ status.fingerprint # fp => status.revision < rev
        /\ status.fingerprint = fp => rev = status.revision
    BY <1>5
  <2>9. top.topology /\ top.standbys # {} => Two
    <3>1. SUFFICES ASSUME top.topology, top.standbys # {} PROVE Two
      OBVIOUS
    <3>2. PICK s \in Sites : reading.seen[s] # None /\ reading.seen[s].standbys # {}
      BY <1>5, <3>1, StandbyLemma, Zenon
    <3>3. reading.seen[s] \in GoodViews
      BY <1>0, <1>2, <3>2, Zenon DEF ViewsInv
    <3> QED BY <3>2, <3>3 DEF GoodViews, Two
  <2>10. ready => (\A s \in Sites : reading.applied[s] = rev) /\ KindOf(ph) \in {"Verify", "Plain"}
    BY <2>3, <2>4 DEF setAppliedInstanceReady
  <2> HIDE DEF fp, rev, top, ready
  <2>11. /\ status'.seen = status.seen /\ status'.applied = status.applied
         /\ status'.topology = top.topology /\ status'.standbys = top.standbys
         /\ status'.fingerprint = fp /\ status'.ready = ready
    BY <1>5, <2>1, Zenon DEF Statuses
  <2> HIDE DEF ph
  <2>12. /\ plan' # None /\ plan'.target = target.id /\ plan'.revision = rev
         /\ plan'.kind = KindOf(ph) /\ (Pgpool(plan') <=> ph \in Late)
         /\ LetsJoin(plan') => ph # "Seed"
    <3>1. plan' \in Plans
      BY <1>5, <2>4, <2>6, <2>8, Zenon DEF Plans, Targets
    <3> QED BY <2>4, <2>6, <3>1, NoneAssumption DEF Pgpool, LetsJoin
  <2>13. status.fingerprint = fp => plan' = plan
    <3>1. SUFFICES ASSUME status.fingerprint = fp PROVE plan' = plan
      OBVIOUS
    <3>2. /\ plan # None /\ plan \in Plans /\ plan.target = target.id /\ plan.revision = rev
          /\ plan.kind = KindOf(ph)
      BY <1>2, <1>5, <2>7, <2>8, <3>1, Zenon DEF PlansInv
    <3> QED BY <2>6, <3>2 DEF Plans
  <2>14. ViewsInv'
    BY <1>0, <1>2, <1>4, <2>9, <2>11, Zenon DEF ViewsInv
  <2>15. /\ ph # "Seed" => patroni[target.id].initialized
         /\ ph \in Late => target.phase \in Late
    BY <1>0, <1>2, Zenon DEF PlansInv, ph
  <2>16. PlansInv'
    BY <1>0, <2>5, <2>7, <2>11, <2>12, <2>15, Zenon DEF PlansInv
  <2>17. HeldInv'
    <3>1. CASE status.fingerprint = fp
      BY <1>0, <1>2, <1>4, <2>13, <3>1, Zenon DEF HeldInv
    <3>2. CASE status.fingerprint # fp
      <4>1. ASSUME NEW s \in Sites, site[s].plan # None, site[s].plan.target = target.id
            PROVE  /\ site[s].plan.revision < rev
                   /\ LetsJoin(site[s].plan) => patroni[target.id].initialized
                   /\ Pgpool(site[s].plan) => Two
        <5>1. site[s].plan \in Plans /\ site[s].plan.revision \in Nat
          BY <4>1, Zenon DEF JInv, IInv, Types, SiteStates, Plans
        <5>2. plan # None /\ site[s].plan.revision <= plan.revision /\ plan.revision = status.revision
          BY <1>2, <4>1, Zenon DEF HeldInv, PlansInv
        <5>3. site[s].plan.revision < rev
          BY <1>5, <2>8, <3>2, <5>1, <5>2
        <5> QED BY <1>2, <4>1, <5>3 DEF HeldInv
      <4>2. \A s \in Sites : site[s].plan # None => site[s].plan.revision \in Nat
        BY Zenon DEF JInv, IInv, Types, SiteStates, Plans
      <4> QED BY <1>0, <1>4, <2>8, <2>12, <4>1, <4>2 DEF HeldInv
    <3> QED BY <3>1, <3>2
  <2>18. AppliedInv'
    <3>0. \A s \in Sites : status.applied[s] \in Nat /\ reading.applied[s] \in Nat
      BY <1>5, Zenon DEF Statuses, Readings
    <3>1. \A s \in Sites : status.applied[s] <= status.revision /\ reading.applied[s] <= status.revision
      BY <1>0, <1>2, Zenon DEF AppliedInv
    <3>2. Serving => Serving'
      <4>1. Serving => Pgpool(plan')
        BY <1>0, <1>2, <2>12, Zenon DEF Serving, PlansInv, ph
      <4> QED BY <1>0, <1>3, <2>12, <4>1 DEF Serving
    <3>3. CASE status.fingerprint = fp
      <4>1. plan' = plan /\ plan # None /\ rev = status.revision
        BY <2>7, <2>8, <2>13, <3>3, Zenon
      <4>2. ready => Serving
        <5>1. SUFFICES ASSUME ready PROVE Serving
          OBVIOUS
        <5>2. Pgpool(plan) /\ \A s \in Sites : status.applied[s] = status.revision
          BY <1>0, <1>2, <2>4, <2>10, <2>12, <4>1, <5>1, Zenon DEF AppliedInv
        <5>3. \A s \in Sites : site[s].plan = plan /\ s \in Recovered /\ site[s].pgpool
          BY <1>2, <4>1, <5>2, Zenon DEF AppliedInv
        <5> QED BY <1>5, <4>1, <5>2, <5>3 DEF Serving, Recovered
      <4> QED BY <1>0, <1>2, <1>3, <2>5, <2>11, <3>2, <4>1, <4>2 DEF AppliedInv
    <3>4. CASE status.fingerprint # fp
      <4>1. \A s \in Sites : /\ status.applied[s] <= rev /\ status.applied[s] # rev
                             /\ reading.applied[s] # rev
        BY <1>5, <2>8, <3>0, <3>1, <3>4
      <4>2. ~ready
        BY <2>10, <4>1, ConstantsAssumption, Zenon
      <4> QED BY <1>0, <1>2, <2>5, <2>11, <3>2, <4>1, <4>2 DEF AppliedInv
    <3> QED BY <3>3, <3>4
  <2> QED BY <1>6, <2>14, <2>16, <2>17, <2>18 DEF AcceptInv
<1> QED BY <1>7, <1>8

\* A report, or one that has become too old, changes what was applied and seen.
LEMMA AcceptStatus ==
    ASSUME JInv, Live, status'.revision = status.revision,
           status'.fingerprint = status.fingerprint, status'.topology = status.topology,
           status'.standbys = status.standbys, status'.ready = status.ready,
           \A t \in Sites : /\ status'.seen[t] # None =>
                                  status'.seen[t] \in GoodViews \/ status'.seen[t] = status.seen[t]
                            /\ status'.applied[t] # status.applied[t] =>
                                  /\ status'.applied[t] = status.revision /\ site[t].plan = plan
                                  /\ Pgpool(plan) => t \in Recovered /\ site[t].pgpool,
           UNCHANGED <<target, targets, plan, reading, site, patroni, history>>
    PROVE  FreshInv' /\ AcceptInv'
<1>1. FreshInv'
  BY Zenon DEF JInv, FreshInv
<1>2. MembersInv /\ ViewsInv /\ PlansInv /\ HeldInv /\ AppliedInv
  BY Zenon DEF JInv, AcceptInv
<1>3. Recovered' = Recovered /\ status.revision \in Nat
  BY Zenon DEF Recovered, JInv, IInv, Types, Statuses
<1>4. Two' = Two /\ GoodViews' = GoodViews
  BY <1>3, Zenon DEF Two, GoodViews
<1>5. MembersInv' /\ PlansInv' /\ HeldInv'
  BY <1>2, <1>3, <1>4, Zenon DEF MembersInv, PlansInv, HeldInv
<1>6. ViewsInv'
  BY <1>2, <1>4, Zenon DEF ViewsInv
<1>7. AppliedInv'
  <2>1. Serving' = Serving
    BY <1>3, Zenon DEF Serving
  <2>2. ASSUME NEW t \in Sites
        PROVE  /\ status'.applied[t] <= status.revision
               /\ plan # None /\ status'.applied[t] = status.revision =>
                     /\ site[t].plan = plan
                     /\ Pgpool(plan) => t \in Recovered /\ site[t].pgpool
               /\ status.applied[t] = status.revision => status'.applied[t] = status.revision
    BY <1>2, <1>3, <2>2 DEF AppliedInv
  <2> QED BY <1>2, <1>3, <2>1, <2>2 DEF AppliedInv
<1> QED BY <1>1, <1>5, <1>6, <1>7 DEF AcceptInv

LEMMA AcceptReport ==
    ASSUME JInv, NEW s \in Sites, Report(s)
    PROVE  FreshInv' /\ AcceptInv'
<1> DEFINE p == site[s].plan
<1>0. /\ p # None /\ p \in Plans /\ status \in Statuses /\ site[s] \in SiteStates
      /\ p.target = target.id /\ p.revision = status.revision
      /\ UNCHANGED <<target, targets, plan, reading, site, patroni, history>>
  BY Zenon DEF Report, hub, JInv, IInv, Types, SiteStates
<1>1. CASE ~Live
  BY <1>0, <1>1, AcceptOver, Zenon DEF Live, JInv, FreshInv
<1>2. CASE Live
  <2>1. MembersInv /\ PlansInv /\ HeldInv
    BY <1>2, Zenon DEF JInv, AcceptInv
  <2>2. ~Deletes(p) /\ target.id \in 1..MaxTargets
    BY <1>0, <1>2, LiveFacts, Zenon DEF JInv
  <2>3. plan # None /\ p = plan
    BY <1>0, <2>1, Zenon DEF HeldInv, PlansInv
  <2>4. /\ Rendered(p, s) = site[s]
        /\ \/ /\ Running(s) /\ patroni[p.target].leader # None
              /\ status' = [status EXCEPT !.applied[s] = p.revision, !.seen[s] = Observed(p.target)]
           \/ /\ ~ExpectsPostgres(p, s)
              /\ status' = [status EXCEPT !.applied[s] = p.revision]
    BY <2>2 DEF Report
  <2>5. site[s].namespace = target.id /\ site[s].pgpool = Pgpool(p)
    BY <1>0, <2>4 DEF Rendered
  <2>6. Running(s) => s \in Recovered
    BY <2>1, <2>5, Zenon DEF Running, MembersInv, Recovered
  <2>7. /\ status'.revision = status.revision /\ status'.fingerprint = status.fingerprint
        /\ status'.topology = status.topology /\ status'.standbys = status.standbys
        /\ status'.ready = status.ready
        /\ status'.applied = [status.applied EXCEPT ![s] = p.revision]
        /\ \/ status'.seen = [status.seen EXCEPT ![s] = Observed(p.target)] /\ Running(s)
              /\ patroni[p.target].leader # None
           \/ status'.seen = status.seen /\ ~ExpectsPostgres(p, s)
    BY <1>0, <2>4, Zenon DEF Statuses
  <2>8. patroni[p.target].leader # None => Observed(p.target) \in GoodViews
    <3>1. SUFFICES ASSUME patroni[p.target].leader # None PROVE Observed(p.target) \in GoodViews
      OBVIOUS
    <3>2. patroni[p.target].leader \in Recovered /\ Recovered \subseteq Sites
      BY <1>0, <2>1, <3>1 DEF MembersInv, Recovered
    <3>3. {t \in Sites \ {patroni[p.target].leader} :
              Running(t) /\ site[t].namespace = p.target} \subseteq Recovered
      BY <1>0, <2>1, Zenon DEF MembersInv, Recovered, Running
    <3> QED BY <3>2, <3>3 DEF Observed, GoodViews, Observations
  <2>9. Pgpool(plan) => Running(s) /\ site[s].pgpool
    BY <2>3, <2>5, <2>7, Zenon DEF Pgpool, ExpectsPostgres
  <2>10. \A t \in Sites :
            /\ status'.seen[t] # None => status'.seen[t] \in GoodViews \/ status'.seen[t] = status.seen[t]
            /\ status'.applied[t] # status.applied[t] => t = s /\ status'.applied[t] = status.revision
    BY <1>0, <2>7, <2>8 DEF Statuses
  <2> QED BY <1>0, <1>2, <2>3, <2>6, <2>7, <2>9, <2>10, AcceptStatus
<1> QED BY <1>1, <1>2

LEMMA AcceptExpire ==
    ASSUME JInv, NEW s \in Sites, Expire(s)
    PROVE  FreshInv' /\ AcceptInv'
<1>1. /\ status \in Statuses /\ status' = [status EXCEPT !.seen[s] = None]
      /\ UNCHANGED <<target, targets, plan, reading, site, patroni, history>>
  BY DEF Expire, hub, JInv, IInv, Types
<1>2. /\ status'.revision = status.revision /\ status'.fingerprint = status.fingerprint
      /\ status'.topology = status.topology /\ status'.standbys = status.standbys
      /\ status'.ready = status.ready /\ status'.applied = status.applied
      /\ status'.seen = [status.seen EXCEPT ![s] = None]
  BY <1>1 DEF Statuses
<1>3. \A t \in Sites : status'.seen[t] # None => status'.seen[t] = status.seen[t]
  BY <1>1, <1>2 DEF Statuses
<1>4. CASE Live
  BY <1>1, <1>2, <1>3, <1>4, AcceptStatus, Zenon
<1>5. CASE ~Live
  BY <1>1, <1>5, AcceptOver, Zenon DEF Live, JInv, FreshInv
<1> QED BY <1>4, <1>5

\* Deletion, abandonment and the end of a target.
LEMMA AcceptEnd ==
    ASSUME JInv, \/ DeleteTarget \/ issueDeletionPlans \/ FinishDeletion \/ ForceOrphan
                 \/ \E r \in Restores : reconcileRestoreDeletion(r) \/ ForceAbandon(r)
    PROVE  FreshInv' /\ AcceptInv'
<1>0. /\ target # None => target \in Targets
      /\ target # None /\ target.owner = None => history.abandoned
      /\ history \in [abandoned: BOOLEAN, orphaned: BOOLEAN]
  BY DEF JInv, IInv, Types, FreshInv
<1>1. CASE /\ target # None /\ target' = [target EXCEPT !.deleting = TRUE]
           /\ UNCHANGED <<targets, site, patroni, history>>
  <2>1. target'.deleting /\ target'.owner = target.owner
    BY <1>0, <1>1, Zenon DEF Targets
  <2> QED BY <1>0, <1>1, <2>1, AcceptOver DEF Live
<1>2. CASE issueDeletionPlans
  <2>1. target.deleting /\ UNCHANGED <<target, targets, site, patroni, history>>
    BY <1>2 DEF issueDeletionPlans, hub, JInv, IInv, DeletionInv
  <2> QED BY <1>0, <2>1, AcceptOver DEF Live
<1>3. CASE FinishDeletion \/ ForceOrphan
  BY <1>3, AcceptOver DEF FinishDeletion, ForceOrphan, Live
<1>4. ASSUME NEW r \in Restores, ForceAbandon(r) PROVE FreshInv' /\ AcceptInv'
  <2>1. target # None /\ target'.owner = None /\ history'.abandoned
    BY <1>0, <1>4 DEF ForceAbandon, Owned, Targets
  <2> QED BY <1>4, <2>1, AcceptOver DEF Live, ForceAbandon
<1>5. CASE DeleteTarget
  BY <1>1, <1>5, Zenon DEF DeleteTarget
<1>6. ASSUME NEW r \in Restores, reconcileRestoreDeletion(r) PROVE FreshInv' /\ AcceptInv'
  <2>1. CASE target' = target
    BY <1>6, <2>1, AcceptSame, Zenon DEF reconcileRestoreDeletion
  <2> QED BY <1>1, <1>6, <2>1 DEF reconcileRestoreDeletion, Owned
<1> QED BY <1>2, <1>3, <1>4, <1>5, <1>6

-----------------------------------------------------------------------------
LEMMA AcceptInit == Init => JInv
<1> SUFFICES ASSUME Init PROVE JInv
  OBVIOUS
<1>1. FreshInv
  BY DEF Init, FreshInv
<1>2. AcceptInv
  BY DEF Init, AcceptInv, Live
<1> QED BY <1>1, <1>2, InitLemma DEF JInv

LEMMA AcceptNext == JInv /\ [Next]_vars => JInv'
<1>1. JInv /\ [Next]_vars => IInv'
  BY NextLemma DEF JInv
<1> SUFFICES ASSUME JInv, [Next]_vars PROVE FreshInv' /\ AcceptInv'
  BY <1>1, Zenon DEF JInv
<1>2. CASE UNCHANGED vars
  BY <1>2, AcceptSame DEF vars
<1>3. ASSUME NEW r \in Restores, CreateRestore(r) \/ DeleteRestore(r) PROVE FreshInv' /\ AcceptInv'
  BY <1>3, AcceptSame, Zenon DEF CreateRestore, DeleteRestore
<1>4. CASE SourceFails \/ SourceRecovers
  BY <1>4, AcceptSame, Zenon DEF SourceFails, SourceRecovers
<1>5. CASE SystemStep
  <2>1. ASSUME NEW r \in Restores, ReconcileRestore(r) \/ reconcileRestoreDeletion(r)
        PROVE  FreshInv' /\ AcceptInv'
    BY <2>1, AcceptReconcileRestore, AcceptEnd, Zenon
  <2>2. ASSUME NEW s \in Sites, \/ ReceivePlan(s) \/ ApplyPlan(s) \/ deleteInstance(s)
                                \/ Join(s) \/ Promote(s) \/ Report(s)
        PROVE  FreshInv' /\ AcceptInv'
    BY <2>2, AcceptReceive, AcceptApply, AcceptDelete, AcceptJoin, AcceptPromote, AcceptReport, Zenon
  <2> QED BY <1>4, <1>5, <2>1, <2>2, AcceptRead, AcceptWrite, AcceptEnd, AcceptRecover DEF SystemStep
<1>6. CASE UserStep
  BY <1>3, <1>6, AcceptEnd, Zenon DEF UserStep
<1> QED BY <1>2, <1>4, <1>5, <1>6, AcceptExpire DEF Next

LEMMA AcceptInvariant == Spec => []JInv
  BY AcceptInit, AcceptNext, PTL DEF Spec

LEMMA TwoMembers ==
    ASSUME Two
    PROVE  Cardinality({t \in Sites : site[t].member = "restored"}) > 1
<1> DEFINE R == {t \in Sites : site[t].member = "restored"}
<1>1. PICK t \in Recovered, u \in Recovered : t # u
  BY Zenon DEF Two
<1>2. {t, u} \subseteq R
  BY Zenon DEF Recovered
<1>3. IsFiniteSet(R)
  BY ConstantsAssumption, FS_Subset, Zenon
<1>4. Cardinality({t, u}) = 2
  <2>1. Cardinality({t}) = 1 /\ IsFiniteSet({t})
    BY FS_Singleton, Zenon
  <2>2. Cardinality({t} \cup {u}) = Cardinality({t}) + 1
    BY <1>1, <2>1, FS_AddElement
  <2>3. {t} \cup {u} = {t, u}
    OBVIOUS
  <2> QED BY <2>1, <2>2, <2>3
<1>5. Cardinality({t, u}) <= Cardinality(R) /\ Cardinality(R) \in Nat
  BY <1>2, <1>3, FS_Subset, FS_CardinalityType
<1> QED BY <1>4, <1>5

\* Pgpool comes up at a site only when the seed and a synchronous standby both
\* run the recovered data, unless the restore was abandoned or the target is on
\* its way out: Verify waits for a standby that some site observed, and neither
\* a late report nor a stale reading brings the plan forward (reconcileRestore,
\* restorePlan).
THEOREM ServedTheorem == Spec => ServedIsRecovered
<1> DEFINE A == \A s \in Sites :
          ~site[s].pgpool /\ site'[s].pgpool =>
            \/ Cardinality({t \in Sites : site[t].member = "restored"}) > 1
            \/ history.abandoned \/ target = None
            \/ target.deleting \/ target.id # site'[s].namespace
<1>1. JInv /\ [Next]_vars => [A]_vars
  <2> SUFFICES ASSUME JInv, Next, NEW s \in Sites, ~site[s].pgpool, site'[s].pgpool,
                      ~history.abandoned, target # None, ~target.deleting,
                      target.id = site'[s].namespace
               PROVE  Cardinality({t \in Sites : site[t].member = "restored"}) > 1
    OBVIOUS
  <2>0. site \in [Sites -> SiteStates]
    BY Zenon DEF JInv, IInv, Types
  <2>1. site' # site
    OBVIOUS
  <2>2. PICK t \in Sites : ApplyPlan(t) \/ ReceivePlan(t) \/ deleteInstance(t) \/ Join(t) \/ Recover
    BY <2>1, ConstantsAssumption, Zenon
    DEF Next, SystemStep, UserStep, ReadTarget, WriteTarget, issueDeletionPlans, FinishDeletion,
        SourceRecovers, ReconcileRestore, reconcileRestoreDeletion, Promote, Report, DeleteTarget,
        ForceOrphan, CreateRestore, DeleteRestore, ForceAbandon, SourceFails, Expire
  <2>3. ~ReceivePlan(t)
    BY <2>0, Zenon DEF ReceivePlan, SiteStates
  <2>4. ~deleteInstance(t)
    BY <2>0 DEF deleteInstance
  <2>5. ~Join(t)
    BY <2>0 DEF Join, SiteStates
  <2>6. ~Recover
    BY <2>0, ConstantsAssumption DEF Recover, SiteStates
  <2>7. ApplyPlan(t) /\ t = s
    BY <2>0, <2>2, <2>3, <2>4, <2>5, <2>6, Zenon DEF ApplyPlan
  <2>8. /\ site[s].plan # None /\ site'[s].pgpool = Pgpool(site[s].plan)
        /\ site'[s].namespace = site[s].plan.target
    BY <2>0, <2>7, Zenon DEF ApplyPlan, Rendered
  <2>9. Live
    BY DEF Live, JInv, FreshInv
  <2>10. Two
    BY <2>8, <2>9 DEF JInv, AcceptInv, HeldInv
  <2> QED BY <2>10, TwoMembers
<1> QED BY <1>1, AcceptInvariant, PTL DEF Spec, ServedIsRecovered

\* The phases a restore can be in.
RestoreObjects ==
    restore \in [Restores -> [phase: {"absent", "", "active", "Completed", "removed"},
                              deleting: BOOLEAN]]

LEMMA RestoreObjectsNext == RestoreObjects /\ [Next]_vars => RestoreObjects'
<1> SUFFICES ASSUME RestoreObjects, Next PROVE RestoreObjects'
  BY DEF RestoreObjects, vars
<1>1. CASE restore' = restore
  BY <1>1 DEF RestoreObjects
<1>2. ASSUME NEW r \in Restores, \/ CreateRestore(r) \/ DeleteRestore(r) \/ ForceAbandon(r)
                                 \/ reconcileRestoreDeletion(r)
      PROVE  RestoreObjects'
  BY <1>2 DEF RestoreObjects, CreateRestore, DeleteRestore, ForceAbandon, reconcileRestoreDeletion
<1>3. ASSUME NEW r \in Restores, ReconcileRestore(r) PROVE RestoreObjects'
  <2>1. \/ UNCHANGED restore
        \/ \E phase \in {"active", "Completed"} : restore' = [restore EXCEPT ![r].phase = phase]
    BY <1>3 DEF ReconcileRestore, restoreBlocked, CreateTarget, setTargetPhase, setRestorePhase
  <2> QED BY <2>1 DEF RestoreObjects
<1> QED BY <1>1, <1>2, <1>3
    DEF Next, SystemStep, UserStep, ReadTarget, WriteTarget, issueDeletionPlans, FinishDeletion,
        Recover, SourceRecovers, ReceivePlan, ApplyPlan, deleteInstance, Join, Promote, Report,
        DeleteTarget, ForceOrphan, SourceFails, Expire, hub

LEMMA RestoreObjectsInvariant == Spec => []RestoreObjects
<1>1. Init => RestoreObjects
  BY DEF Init, RestoreObjects
<1> QED BY <1>1, RestoreObjectsNext, PTL DEF Spec

\* A restore is Completed only when every site runs the recovered data and
\* serves it, unless the target is on its way out: Ready was computed for the
\* revision of Verify, from reports that every site made about that revision
\* (reconcileRestore, setAppliedInstanceReady).
THEOREM AcceptedTheorem == Spec => CompletedIsAccepted
<1> DEFINE A == \A r \in Restores :
          restore[r].phase # "Completed" /\ restore'[r].phase = "Completed" =>
            \/ \A s \in Sites : site[s].member = "restored" /\ site[s].pgpool
            \/ target.deleting
<1>1. JInv /\ RestoreObjects /\ [Next]_vars => [A]_vars
  <2> SUFFICES ASSUME JInv, RestoreObjects, Next, NEW r \in Restores, restore[r].phase # "Completed",
                      restore'[r].phase = "Completed", ~target.deleting
               PROVE  \A s \in Sites : site[s].member = "restored" /\ site[s].pgpool
    OBVIOUS
  <2>1. PICK q \in Restores : \/ ReconcileRestore(q) \/ reconcileRestoreDeletion(q) \/ CreateRestore(q)
                              \/ DeleteRestore(q) \/ ForceAbandon(q)
    <3>1. restore' # restore
      OBVIOUS
    <3> QED BY <3>1 DEF Next, SystemStep, UserStep, ReadTarget, WriteTarget, issueDeletionPlans,
        FinishDeletion, Recover, SourceRecovers, ReceivePlan, ApplyPlan, deleteInstance, Join,
        Promote, Report, DeleteTarget, ForceOrphan, SourceFails, Expire, hub
  <2>2. ~reconcileRestoreDeletion(q) /\ ~CreateRestore(q) /\ ~DeleteRestore(q) /\ ~ForceAbandon(q)
    <3>1. /\ restore' # restore
          /\ \A phase \in {"", "removed"} : restore' # [restore EXCEPT ![q].phase = phase]
          /\ restore' # [restore EXCEPT ![q].deleting = TRUE]
      <4>1. \A phase \in {"", "removed"} :
                [restore EXCEPT ![q].phase = phase][r].phase \in {restore[r].phase, phase}
        BY Zenon DEF RestoreObjects
      <4>2. [restore EXCEPT ![q].deleting = TRUE][r].phase = restore[r].phase
        BY Zenon DEF RestoreObjects
      <4> QED BY <4>1, <4>2
    <3> QED BY <3>1 DEF reconcileRestoreDeletion, CreateRestore, DeleteRestore, ForceAbandon
  <2>3. ReconcileRestore(q)
    BY <2>1, <2>2
  <2>4. ~restoreBlocked(q) /\ ~CreateTarget(q) /\ ~setTargetPhase(q, "Replicas")
        /\ ~setTargetPhase(q, "Verify")
    BY DEF RestoreObjects, restoreBlocked, CreateTarget, setTargetPhase, setRestorePhase
  <2>5. Owned(q) /\ (AcceptancePassed \/ target.phase = "Completed")
    BY <2>3, <2>4 DEF ReconcileRestore
  <2>6. Live
    BY <2>5, ConstantsAssumption DEF Live, Owned
  <2>7. Serving
    BY <2>5, <2>6 DEF JInv, AcceptInv, AppliedInv, AcceptancePassed
  <2> QED BY <2>7 DEF Serving, Recovered
<1> QED BY <1>1, AcceptInvariant, RestoreObjectsInvariant, PTL DEF Spec, CompletedIsAccepted
=============================================================================
