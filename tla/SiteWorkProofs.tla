--------------------------- MODULE SiteWorkProofs ---------------------------
(***************************************************************************)
(* What a site does on the hub's behalf: it applies plans (SiteApply), and *)
(* it takes backups that reach it as directives (BackupOperations).  The   *)
(* two specifications share no constant and no variable.                   *)
(*                                                                         *)
(* SiteApply, for any number of members, plans, broken streams, failing    *)
(* stages and drifting objects: the cache comes before the objects, a pass *)
(* that reports its end leaves the site as its plan wants it, and an agent *)
(* without its stream creates nothing.  A pass that reports Ready has made *)
(* its writes in four stages, and other goroutines, restarts and           *)
(* Kubernetes itself step in between.  StageInv says what holds at each    *)
(* stage: the namespace is there and stays, and what the earlier stages    *)
(* wrote is still in place, as nobody else writes under the lock.          *)
(* LabelInv says that a label is never found on more objects than its plan *)
(* asks for, so that pruning leaves nothing over.                          *)
(*                                                                         *)
(* BackupOperations, the gates of a major upgrade and the schedule's       *)
(* bookkeeping, for any sites, occurrences, attempts and faults.  The gates*)
(* read conditions that the hub wrote from results, so they are as good as *)
(* the results are: the invariant of the directive machinery says that a   *)
(* success is of a Job that completed.                                     *)
(***************************************************************************)
EXTENDS SiteApply, BackupOperations, DirectivesProofs

-----------------------------------------------------------------------------
(* SiteApply: the inductive invariant.                                     *)

Past == [services |-> {}, certificates |-> {"services"},
         workloads |-> {"services", "certificates"}, prune |-> Kinds]
Inside == {"services", "certificates", "workloads", "prune"}

\* No pass, and no object, is ahead of the cache.
CacheInv ==
    /\ \A r \in Runners : pass[r].rev <= cache
    /\ CachedBeforeApplied

\* Who may be at work: the stream's goroutines only while it is up, and inside
\* Reconciler.reconcile only the holder of the lock.
LockInv ==
    /\ link # "online" => pass["worker"] = NoPass /\ pass["periodic"] = NoPass
    /\ pass["offline"].pc # "idle" => link = "reconciling"
    /\ \A r \in Runners : pass[r].pc # "idle" => pass[r].rev > 0 /\ pass[r].result = ""
    /\ \A r \in Runners : lock = r <=> pass[r].pc \in Stages

\* An object's label stands for a plan that asks for the object, and without a
\* namespace there is none.
LabelInv ==
    /\ \A k \in Kinds, m \in Members : objects[k][m] > 0 => m <= issued[objects[k][m]].replicas
    /\ namespace = "absent" => objects = NoObjects

\* How far the pass under way has come.
StageAt(r) ==
    /\ pass[r].pc \in Inside \cup {"namespace"} => Plan(r).deletion = "None"
    /\ pass[r].pc = "delete" => Plan(r).deletion # "None"
    /\ pass[r].pc \in Inside => namespace = "active"
    /\ pass[r].pc \in Inside /\ connected(r) /\ drifts.all = drifts.before =>
          \A k \in Past[pass[r].pc], m \in 1..Plan(r).replicas : objects[k][m] = pass[r].rev

StageInv == \A r \in Runners : StageAt(r)

ApplyInv == ApplyTypeOK /\ CacheInv /\ LockInv /\ LabelInv /\ StageInv

PassRecords == [pc : Stages \cup {"idle", "lock"}, rev : 0..Len(issued), result : PassResults]

-----------------------------------------------------------------------------
(* Lemmas about the plans, and about what a stage does to the objects.     *)

\* A plan that was issued stays what it is.
LEMMA Issuing ==
    ASSUME ApplyTypeOK, IssuePlan
    PROVE  /\ issued' \in Seq(Plans) /\ Len(issued') = Len(issued) + 1 /\ Len(issued') <= MaxRevision
           /\ \A i \in 1..Len(issued) : issued'[i] = issued[i]
<1>1. PICK p \in Plans : issued' = Append(issued, p)
  BY DEF IssuePlan
<1>2. issued \in Seq(Plans) /\ Len(issued) < MaxRevision /\ MaxRevision \in Nat
  BY SiteApplyAssumption DEF ApplyTypeOK, IssuePlan
<1> QED BY <1>1, <1>2

\* A pass under way has a plan, and its members are members of the site.
LEMMA PlanType ==
    ASSUME ApplyTypeOK, LockInv, NEW r \in Runners, pass[r].pc # "idle"
    PROVE  /\ pass[r] \in PassRecords /\ pass[r].rev \in 1..Len(issued) /\ Plan(r) \in Plans
           /\ Plan(r).replicas \in Members /\ Plan(r).replicas \in Nat
           /\ 1..Plan(r).replicas \subseteq Members
<1>1. pass[r] \in PassRecords /\ pass[r].rev \in 1..Len(issued)
  <2>1. pass[r] \in PassRecords
    BY DEF ApplyTypeOK, PassRecords
  <2>2. pass[r].rev > 0
    BY DEF LockInv
  <2>3. Len(issued) \in Nat /\ pass[r].rev \in 0..Len(issued)
    BY <2>1 DEF PassRecords, ApplyTypeOK
  <2> QED BY <2>1, <2>2, <2>3
<1>2. Plan(r) \in Plans
  BY <1>1 DEF ApplyTypeOK, Plan
<1>3. Plan(r).replicas \in Members
  BY <1>2, SiteApplyAssumption DEF Plans, Members
<1> QED BY <1>1, <1>2, <1>3, SiteApplyAssumption DEF Members

LEMMA AppliedLemma ==
    ASSUME ApplyTypeOK, NEW k \in Kinds, NEW n \in Nat, NEW rev \in 0..Len(issued)
    PROVE  Applied(k, n, rev) \in [Kinds -> [Members -> 0..Len(issued)]]
  BY DEF ApplyTypeOK, Applied

\* Without takes objects away and changes nothing else.
LEMMA WithoutLemma ==
    ASSUME ApplyTypeOK, NEW gone
    PROVE  /\ Without(gone) \in [Kinds -> [Members -> 0..Len(issued)]]
           /\ \A j \in Kinds, m \in Members :
                 Without(gone)[j][m] = IF <<j, m>> \in gone THEN 0 ELSE objects[j][m]
  BY DEF ApplyTypeOK, Without

\* What the stage that r is at may do to the objects, whether it gets to its end
\* or not: label those of its own kind, or take some away.
Written(r) ==
    \/ UNCHANGED objects
    \/ /\ pass[r].pc \in Kinds /\ (connected(r) \/ pass[r].pc = "workloads")
       /\ \E n \in 1..Plan(r).replicas : objects' = Applied(pass[r].pc, n, pass[r].rev)
    \/ /\ pass[r].pc \in {"prune", "delete"}
       /\ \E gone : objects' = Without(gone)

LEMMA WrittenLemma ==
    ASSUME ApplyTypeOK, LockInv, NEW r \in Runners, Reconcile(r) \/ StageFails(r)
    PROVE  Written(r) /\ pass[r].pc # "idle"
<1>1. pass[r].pc # "idle"
  BY DEF Reconcile, StageFails, lockInstance, EnsureNamespace, reconcileLoadBalancers, Stages,
         reconcileCertificates, reconcileWorkloads, pruneStaleObjects, deleteInstance, At
<1>2. Plan(r).replicas \in 1..Plan(r).replicas
  BY <1>1, PlanType DEF Members
<1>3. CASE lockInstance(r) \/ EnsureNamespace(r)
  BY <1>1, <1>3 DEF lockInstance, EnsureNamespace, Written, siteVars
<1>4. CASE reconcileLoadBalancers(r)
  BY <1>2, <1>4 DEF reconcileLoadBalancers, Written, At, Kinds
<1>5. CASE reconcileCertificates(r) \/ reconcileWorkloads(r)
  BY <1>2, <1>5 DEF reconcileCertificates, reconcileWorkloads, Written, At, Kinds
<1>6. CASE pruneStaleObjects(r) \/ deleteInstance(r)
  BY <1>6, Zenon DEF pruneStaleObjects, deleteInstance, Written, At
<1>7. CASE StageFails(r)
  BY <1>1, <1>7, Zenon DEF StageFails, Written
<1> QED BY <1>1, <1>3, <1>4, <1>5, <1>6, <1>7 DEF Reconcile

\* The effect of every stage on the rest: r moves on to the next stage, or
\* returns and releases the lock.
Moved(r) ==
    \/ \E stage \in Stages : /\ pass' = [pass EXCEPT ![r].pc = stage] /\ lock' = r /\ UNCHANGED link
    \/ \E result \in PassResults : Returns(r, result)

LEMMA MovedLemma ==
    ASSUME ApplyTypeOK, NEW r \in Runners, Reconcile(r) \/ StageFails(r)
    PROVE  /\ Moved(r) /\ lock \in {"none", r} /\ UNCHANGED rest
           /\ lockInstance(r) \/ UNCHANGED drifts
           /\ failures' \in 0..MaxFailures /\ secrets' = secrets
           /\ namespace' \in {"absent", "active", "terminating"}
<1> USE DEF At, Goto, Moved, PassResults, Stages
<1>0. failures \in 0..MaxFailures /\ namespace \in {"absent", "active", "terminating"}
      /\ MaxFailures \in Nat
  BY SiteApplyAssumption DEF ApplyTypeOK
<1>1. CASE lockInstance(r)
  BY <1>0, <1>1 DEF lockInstance, siteVars
<1>2. CASE EnsureNamespace(r)
  BY <1>0, <1>2 DEF EnsureNamespace
<1>3. CASE reconcileLoadBalancers(r)
  BY <1>0, <1>3 DEF reconcileLoadBalancers
<1>4. CASE reconcileCertificates(r)
  BY <1>0, <1>4 DEF reconcileCertificates
<1>5. CASE reconcileWorkloads(r)
  BY <1>0, <1>5 DEF reconcileWorkloads
<1>6. CASE pruneStaleObjects(r)
  BY <1>0, <1>6 DEF pruneStaleObjects
<1>7. CASE deleteInstance(r)
  BY <1>0, <1>7 DEF deleteInstance
<1>8. CASE StageFails(r)
  <2>1. failures' \in 0..MaxFailures
    BY <1>0, <1>8 DEF StageFails
  <2> QED BY <1>0, <1>8, <2>1 DEF StageFails
<1> QED BY <1>1, <1>2, <1>3, <1>4, <1>5, <1>6, <1>7, <1>8 DEF Reconcile

\* What that means for the pass of r, and for the others.
LEMMA MovedFacts ==
    ASSUME ApplyTypeOK, NEW r \in Runners, Moved(r)
    PROVE  /\ pass' \in [Runners -> PassRecords] /\ lock' \in {"none", r}
           /\ \A q \in Runners \ {r} : pass'[q] = pass[q]
           /\ pass'[r].rev = pass[r].rev
           /\ \/ /\ pass'[r].pc \in Stages /\ pass'[r].result = pass[r].result
                 /\ lock' = r /\ link' = link
              \/ /\ pass'[r].pc = "idle" /\ lock' = "none"
                 /\ link' = IF r = "offline" THEN "dialing" ELSE link
<1>0. pass \in [Runners -> PassRecords]
  BY DEF ApplyTypeOK, PassRecords
<1>1. ASSUME NEW stage \in Stages, pass' = [pass EXCEPT ![r].pc = stage], lock' = r, UNCHANGED link
      PROVE  /\ pass' \in [Runners -> PassRecords]
             /\ \A q \in Runners \ {r} : pass'[q] = pass[q]
             /\ pass'[r].rev = pass[r].rev
             /\ pass'[r].pc \in Stages /\ pass'[r].result = pass[r].result
  BY <1>0, <1>1 DEF PassRecords
<1>2. ASSUME NEW result \in PassResults, Returns(r, result)
      PROVE  /\ pass' \in [Runners -> PassRecords]
             /\ \A q \in Runners \ {r} : pass'[q] = pass[q]
             /\ pass'[r].rev = pass[r].rev /\ pass'[r].pc = "idle"
             /\ lock' = "none" /\ link' = IF r = "offline" THEN "dialing" ELSE link
  BY <1>0, <1>2, Zenon DEF PassRecords, Returns
<1> QED BY <1>1, <1>2 DEF Moved

LEMMA WrittenType ==
    ASSUME ApplyTypeOK, LockInv, NEW r \in Runners, Written(r), pass[r].pc # "idle"
    PROVE  objects' \in [Kinds -> [Members -> 0..Len(issued)]]
<1>1. CASE UNCHANGED objects
  BY <1>1 DEF ApplyTypeOK
<1>2. ASSUME NEW n \in 1..Plan(r).replicas, pass[r].pc \in Kinds,
             objects' = Applied(pass[r].pc, n, pass[r].rev)
      PROVE  objects' \in [Kinds -> [Members -> 0..Len(issued)]]
  <2>1. n \in Nat /\ pass[r].rev \in 0..Len(issued)
    BY PlanType DEF ApplyTypeOK
  <2> QED BY <1>2, <2>1, AppliedLemma
<1> QED BY <1>1, <1>2, WithoutLemma DEF Written

\* A goroutine starts a call of Apply: nothing else about the site changes.
Started(r, rev) ==
    /\ pass' \in [Runners -> PassRecords]
    /\ pass'[r].pc = "lock" /\ pass'[r].rev = rev /\ pass'[r].result = ""
    /\ \A q \in Runners \ {r} : pass'[q] = pass[q]
    /\ UNCHANGED <<issued, siteVars, breaks, drifts, failures>>

LEMMA StartedLemma ==
    ASSUME ApplyTypeOK, NEW r \in Runners, NEW rev \in 0..Len(issued),
           pass' = [pass EXCEPT ![r] = [pc |-> "lock", rev |-> rev, result |-> ""]],
           UNCHANGED <<issued, siteVars, breaks, drifts, failures>>
    PROVE  Started(r, rev)
<1>0. pass \in [Runners -> PassRecords]
  BY DEF ApplyTypeOK, PassRecords
<1>1. [pc |-> "lock", rev |-> rev, result |-> ""] \in PassRecords
  BY DEF PassRecords, PassResults
<1> QED BY <1>0, <1>1 DEF Started

Starts(r, rev) ==
    /\ Started(r, rev)
    /\ rev <= cache' /\ cache' >= cache /\ cache' \in 0..Len(issued)
    /\ received' \in 0..Len(issued)
    /\ lock' = IF lock = r THEN "none" ELSE lock
    /\ IF r = "offline"
       THEN link = "backoff" /\ link' = "reconciling"
       ELSE link = "online" /\ link' = link

\* The five ways to start one.
LEMMA Starting ==
    ASSUME ApplyTypeOK, CacheInv, LockInv,
           \/ reconcileCached /\ cache # 0
           \/ applyPlan \/ applyAgain \/ reconcilePeriodically \/ applyListed
    PROVE  \E r \in Runners : \E rev \in 1..Len(issued) : Starts(r, rev)
<1>0. /\ issued \in Seq(Plans) /\ DOMAIN issued = 1..Len(issued) /\ Len(issued) \in Nat
      /\ cache \in 0..Len(issued) /\ received \in 0..Len(issued)
      /\ pass \in [Runners -> PassRecords] /\ lock \in Runners \cup {"none"}
  BY DEF ApplyTypeOK, PassRecords
<1>1. CASE reconcileCached /\ cache # 0
  <2>1. lock # "offline"
    BY <1>0, <1>1 DEF LockInv, reconcileCached, Runners, Stages
  <2>2. /\ cache' = cache /\ received' = received /\ lock' = lock
        /\ link = "backoff" /\ link' = "reconciling" /\ cache # 0
    BY <1>1, Zenon DEF reconcileCached
  <2>3. cache \in 1..Len(issued)
    BY <1>0, <2>2
  <2>4. Started("offline", cache)
    <3>1. /\ pass' = [pass EXCEPT !["offline"] = [pc |-> "lock", rev |-> cache, result |-> ""]]
          /\ UNCHANGED <<issued, siteVars, breaks, drifts, failures>>
      BY <1>1, Zenon DEF reconcileCached
    <3> QED BY <1>0, <3>1, StartedLemma, Zenon DEF Runners
  <2>5. Starts("offline", cache)
    BY <1>0, <2>1, <2>2, <2>3, <2>4 DEF Starts
  <2> QED BY <2>3, <2>5 DEF Runners
<1>2. CASE applyPlan
  <2>1. PICK rev \in DOMAIN issued :
          /\ rev >= cache /\ received' = rev /\ cache' = rev
          /\ pass' = [pass EXCEPT !["worker"] = [pc |-> "lock", rev |-> rev, result |-> ""]]
    BY <1>2 DEF applyPlan
  <2>2. /\ link = "online" /\ link' = link /\ lock' = IF lock = "worker" THEN "none" ELSE lock
        /\ UNCHANGED <<issued, siteVars, breaks, drifts, failures>>
    BY <1>2, Zenon DEF applyPlan
  <2>3. rev \in 1..Len(issued) /\ rev \in 0..Len(issued) /\ rev <= rev
    BY <1>0
  <2>4. Started("worker", rev)
    BY <2>1, <2>2, <2>3, StartedLemma DEF Runners
  <2>5. Starts("worker", rev)
    BY <2>1, <2>2, <2>3, <2>4, Zenon DEF Starts
  <2> QED BY <2>3, <2>5 DEF Runners
<1>3. CASE applyAgain
  <2> DEFINE w == pass["worker"]
  <2>1. w \in PassRecords /\ w.rev \in 1..Len(issued) /\ w.rev <= cache /\ link = "online"
        /\ lock # "worker"
    <3>1. w \in PassRecords /\ w.rev > 0 /\ w.rev <= cache /\ w.pc = "idle"
      BY <1>0, <1>3 DEF applyAgain, CacheInv, Runners
    <3>2. link = "online"
      <4>1. NoPass.rev = 0 /\ ~(0 > 0)
        BY DEF NoPass
      <4> QED BY <3>1, <4>1, Zenon DEF LockInv
    <3>3. lock # "worker"
      BY <1>3 DEF LockInv, applyAgain, Runners, Stages
    <3>4. w.rev \in 0..Len(issued)
      BY <3>1 DEF PassRecords
    <3> QED BY <1>0, <3>1, <3>2, <3>3, <3>4
  <2>2. Started("worker", w.rev)
    <3>1. /\ pass' = [pass EXCEPT !["worker"].pc = "lock", !["worker"].result = ""]
          /\ UNCHANGED <<issued, siteVars, breaks, drifts, failures>>
      BY <1>3 DEF applyAgain
    <3>2. /\ pass' \in [Runners -> PassRecords]
          /\ pass'["worker"].pc = "lock" /\ pass'["worker"].rev = w.rev
          /\ pass'["worker"].result = ""
          /\ \A q \in Runners \ {"worker"} : pass'[q] = pass[q]
      BY <1>0, <3>1, Zenon DEF PassRecords, Runners, PassResults
    <3> QED BY <3>1, <3>2, Zenon DEF Started
  <2>3. cache' = cache /\ received' = received /\ lock' = lock /\ link' = link
    BY <1>3, Zenon DEF applyAgain
  <2> HIDE DEF w
  <2>4. Starts("worker", w.rev)
    BY <1>0, <2>1, <2>2, <2>3 DEF Starts
  <2> QED BY <2>1, <2>4 DEF Runners
<1>4. CASE reconcilePeriodically
  <2>1. lock # "periodic"
    BY <1>4 DEF LockInv, reconcilePeriodically, Runners, Stages
  <2>2. /\ cache' = cache /\ received' = received /\ lock' = lock
        /\ link = "online" /\ link' = link /\ cache > 0
    BY <1>4, Zenon DEF reconcilePeriodically
  <2>3. cache \in 1..Len(issued)
    BY <1>0, <2>2
  <2>4. Started("periodic", cache)
    <3>1. /\ pass' = [pass EXCEPT !["periodic"] = [pc |-> "lock", rev |-> cache, result |-> ""]]
          /\ UNCHANGED <<issued, siteVars, breaks, drifts, failures>>
      BY <1>4, Zenon DEF reconcilePeriodically
    <3> QED BY <1>0, <3>1, StartedLemma, Zenon DEF Runners
  <2>5. Starts("periodic", cache)
    BY <1>0, <2>1, <2>2, <2>3, <2>4 DEF Starts
  <2> QED BY <2>3, <2>5 DEF Runners
<1>5. CASE applyListed
  <2>1. lock # "periodic"
    BY <1>5 DEF LockInv, applyListed, Runners, Stages
  <2>2. /\ cache' = cache /\ received' = received /\ lock' = lock
        /\ link = "online" /\ link' = link /\ pass["periodic"].rev > 0
    BY <1>5, Zenon DEF applyListed
  <2>3. PICK rev \in pass["periodic"].rev..cache :
          pass' = [pass EXCEPT !["periodic"] = [pc |-> "lock", rev |-> rev, result |-> ""]]
    BY <1>5, Zenon DEF applyListed
  <2>4. rev \in 1..Len(issued) /\ rev <= cache
    <3>1. pass["periodic"].rev \in 0..Len(issued)
      BY <1>0 DEF PassRecords, Runners
    <3> QED BY <1>0, <2>2, <3>1
  <2>5. Started("periodic", rev)
    <3>1. UNCHANGED <<issued, siteVars, breaks, drifts, failures>>
      BY <1>5, Zenon DEF applyListed
    <3>2. rev \in 0..Len(issued)
      BY <1>0, <2>4
    <3> QED BY <2>3, <3>1, <3>2, StartedLemma DEF Runners
  <2>6. Starts("periodic", rev)
    BY <1>0, <2>1, <2>2, <2>4, <2>5 DEF Starts
  <2> QED BY <2>4, <2>6 DEF Runners
<1> QED BY <1>1, <1>2, <1>3, <1>4, <1>5

-----------------------------------------------------------------------------
(* One lemma for each kind of step.                                        *)

LEMMA InitStep == ApplyInit => ApplyInv
<1> SUFFICES ASSUME ApplyInit PROVE ApplyInv
  OBVIOUS
<1>1. NoObjects \in [Kinds -> [Members -> 0..0]] /\ \A k \in Kinds, m \in Members : NoObjects[k][m] = 0
  BY DEF NoObjects
<1>2. \A r \in Runners : pass[r].pc = "idle" /\ pass[r].rev = 0 /\ pass[r].result = ""
  BY DEF ApplyInit, NoPass
<1>3. Len(issued) = 0 /\ issued \in Seq(Plans)
  BY DEF ApplyInit
<1>4. pass \in [Runners -> [pc : Stages \cup {"idle", "lock"}, rev : 0..Len(issued), result : PassResults]]
  <2>1. NoPass \in [pc : Stages \cup {"idle", "lock"}, rev : 0..Len(issued), result : PassResults]
    BY <1>3 DEF NoPass, PassResults
  <2> QED BY <2>1 DEF ApplyInit
<1>5. ApplyTypeOK
  BY <1>1, <1>3, <1>4, SiteApplyAssumption DEF ApplyInit, ApplyTypeOK
<1>6. CacheInv
  <2>1. cache = 0 /\ objects = NoObjects /\ 0 <= 0
    BY DEF ApplyInit
  <2> QED BY <1>1, <1>2, <2>1, Zenon DEF CacheInv, CachedBeforeApplied
<1>7. LockInv
  BY <1>2 DEF ApplyInit, LockInv, Runners, Stages
<1>8. LabelInv
  BY <1>1 DEF ApplyInit, LabelInv
<1>9. StageInv
  BY <1>2 DEF StageInv, StageAt, Inside
<1> QED BY <1>5, <1>6, <1>7, <1>8, <1>9 DEF ApplyInv

LEMMA IssueStep ==
    ASSUME ApplyInv, IssuePlan
    PROVE  ApplyInv'
<1>0. ApplyTypeOK /\ CacheInv /\ LockInv /\ LabelInv /\ StageInv
  BY DEF ApplyInv
<1>1. UNCHANGED <<link, received, cache, lock, pass, namespace, objects, secrets, breaks, drifts, failures>>
  BY DEF IssuePlan, siteVars
<1>2. /\ issued' \in Seq(Plans) /\ Len(issued') = Len(issued) + 1 /\ Len(issued') <= MaxRevision
      /\ \A i \in 1..Len(issued) : issued'[i] = issued[i]
  BY <1>0, Issuing
<1>3. Len(issued) \in Nat /\ 0..Len(issued) \subseteq 0..Len(issued')
  BY <1>0, <1>2 DEF ApplyTypeOK
<1>4. ApplyTypeOK'
  <2>1. pass \in [Runners -> [pc : Stages \cup {"idle", "lock"}, rev : 0..Len(issued'), result : PassResults]]
    BY <1>0, <1>3 DEF ApplyTypeOK
  <2>2. objects \in [Kinds -> [Members -> 0..Len(issued')]]
    BY <1>0, <1>3 DEF ApplyTypeOK
  <2>3. received \in 0..Len(issued') /\ cache \in 0..Len(issued')
    BY <1>0, <1>3 DEF ApplyTypeOK
  <2> QED BY <1>0, <1>1, <1>2, <2>1, <2>2, <2>3, Zenon DEF ApplyTypeOK
<1>5. CacheInv' /\ LockInv'
  BY <1>0, <1>1 DEF CacheInv, CachedBeforeApplied, LockInv
<1>6. LabelInv'
  <2>1. ASSUME NEW k \in Kinds, NEW m \in Members, objects[k][m] > 0
        PROVE  m <= issued'[objects[k][m]].replicas
    <3>1. objects[k][m] \in 1..Len(issued)
      BY <1>0, <1>3, <2>1 DEF ApplyTypeOK
    <3> QED BY <1>0, <1>2, <2>1, <3>1 DEF LabelInv
  <2> QED BY <1>0, <1>1, <2>1 DEF LabelInv
<1>7. StageInv'
  <2>1. ASSUME NEW r \in Runners, pass[r].pc # "idle"
        PROVE  issued'[pass[r].rev] = issued[pass[r].rev]
    BY <1>0, <1>2, <2>1, PlanType
  <2> QED BY <1>0, <1>1, <2>1 DEF StageInv, StageAt, Plan, Inside
<1> QED BY <1>4, <1>5, <1>6, <1>7 DEF ApplyInv

LEMMA QuietStep ==
    ASSUME ApplyInv, CertificateIssued \/ Dial \/ DialFails \/ (reconcileCached /\ cache = 0)
                 \/ UNCHANGED applyVars
    PROVE  ApplyInv'
<1>0. ApplyTypeOK /\ CacheInv /\ LockInv /\ LabelInv /\ StageInv
  BY Zenon DEF ApplyInv
<1>1. UNCHANGED <<issued, cache, lock, pass, namespace, objects, breaks, drifts, failures>>
  BY Zenon DEF CertificateIssued, Dial, DialFails, reconcileCached, applyVars, siteVars
<1>2. /\ link' # link => link \in {"dialing", "backoff"}
      /\ link' \in {"backoff", "reconciling", "dialing", "online"}
      /\ received' \in 0..Len(issued) /\ secrets' \subseteq Members
  <2>1. /\ link \in {"backoff", "reconciling", "dialing", "online"}
        /\ received \in 0..Len(issued) /\ 0 \in 0..Len(issued) /\ secrets \subseteq Members
    BY <1>0 DEF ApplyTypeOK
  <2> QED BY <2>1 DEF CertificateIssued, Dial, DialFails, reconcileCached, applyVars, siteVars
<1>3. ApplyTypeOK'
  BY <1>0, <1>1, <1>2, Zenon DEF ApplyTypeOK
<1>4. CacheInv' /\ LabelInv'
  BY <1>0, <1>1 DEF CacheInv, CachedBeforeApplied, LabelInv
<1>5. LockInv'
  BY <1>0, <1>1, <1>2, Zenon DEF LockInv
<1>6. StageInv'
  BY <1>0, <1>1 DEF StageInv, StageAt, Plan
<1> QED BY <1>3, <1>4, <1>5, <1>6 DEF ApplyInv

LEMMA DriftStep ==
    ASSUME ApplyInv, Drift
    PROVE  ApplyInv'
<1>0. ApplyTypeOK /\ CacheInv /\ LockInv /\ LabelInv /\ StageInv
  BY DEF ApplyInv
<1>1. UNCHANGED <<issued, link, received, cache, lock, pass, namespace, secrets, breaks, failures>>
  BY DEF Drift
<1>2. PICK j \in Kinds, n \in Members : objects[j][n] # 0 /\ objects' = [objects EXCEPT ![j][n] = 0]
  BY Zenon DEF Drift
<1>3. /\ objects' \in [Kinds -> [Members -> 0..Len(issued)]]
      /\ \A k \in Kinds, m \in Members : objects'[k][m] = objects[k][m] \/ objects'[k][m] = 0
  BY <1>0, <1>2 DEF ApplyTypeOK
<1>4. /\ drifts' \in [all : 0..MaxDrifts, before : 0..MaxDrifts]
      /\ drifts'.before <= drifts'.all /\ drifts'.all # drifts'.before
  <2>1. /\ drifts \in [all : 0..MaxDrifts, before : 0..MaxDrifts] /\ drifts.before <= drifts.all
        /\ drifts.all < MaxDrifts /\ drifts' = [drifts EXCEPT !.all = @ + 1]
    BY <1>0, Zenon DEF Drift, ApplyTypeOK
  <2>2. drifts.all \in 0..MaxDrifts /\ drifts.before \in 0..MaxDrifts
    BY <2>1, Zenon
  <2>3. drifts'.all = drifts.all + 1 /\ drifts'.before = drifts.before
    BY <2>1, Zenon
  <2>4. drifts.all + 1 \in 0..MaxDrifts
    BY <2>1, <2>2, SiteApplyAssumption
  <2>5. drifts' \in [all : 0..MaxDrifts, before : 0..MaxDrifts]
    BY <2>1, <2>4, Zenon
  <2> QED BY <2>1, <2>2, <2>3, <2>5, SiteApplyAssumption
<1>5. namespace # "absent"
  BY <1>0, <1>2 DEF LabelInv, NoObjects
<1>6. ApplyTypeOK'
  BY <1>0, <1>1, <1>3, <1>4, Zenon DEF ApplyTypeOK
<1>7. CacheInv'
  <2>1. cache >= 0
    BY <1>0 DEF ApplyTypeOK
  <2> QED BY <1>0, <1>1, <1>3, <2>1 DEF CacheInv, CachedBeforeApplied
<1>8. LockInv'
  BY <1>0, <1>1, Zenon DEF LockInv
<1>10. LabelInv'
  <2>1. ~(0 > 0)
    OBVIOUS
  <2>2. ASSUME NEW k \in Kinds, NEW m \in Members, objects'[k][m] > 0
        PROVE  objects'[k][m] = objects[k][m]
    BY <1>3, <2>1, <2>2, Zenon
  <2> QED BY <1>0, <1>1, <1>5, <2>2, Zenon DEF LabelInv
<1>9. StageInv'
  BY <1>0, <1>1, <1>4 DEF StageInv, StageAt, Plan
<1> QED BY <1>6, <1>7, <1>8, <1>9, <1>10 DEF ApplyInv

LEMMA GoneStep ==
    ASSUME ApplyInv, NamespaceGone
    PROVE  ApplyInv'
<1>0. ApplyTypeOK /\ CacheInv /\ LockInv /\ LabelInv /\ StageInv
  BY DEF ApplyInv
<1>1. /\ UNCHANGED <<issued, link, received, cache, lock, pass, breaks, drifts, failures>>
      /\ namespace = "terminating" /\ namespace' = "absent" /\ objects' = NoObjects /\ secrets' = {}
  BY DEF NamespaceGone
<1>2. /\ NoObjects \in [Kinds -> [Members -> 0..Len(issued)]]
      /\ \A k \in Kinds, m \in Members : NoObjects[k][m] = 0
  BY <1>0 DEF NoObjects, ApplyTypeOK
<1>3. ApplyTypeOK'
  BY <1>0, <1>1, <1>2 DEF ApplyTypeOK
<1>4. CacheInv'
  BY <1>0, <1>1, <1>2 DEF CacheInv, CachedBeforeApplied, ApplyTypeOK
<1>5. LockInv'
  BY <1>0, <1>1, Zenon DEF LockInv
<1>7. LabelInv'
  <2>1. ~(0 > 0)
    OBVIOUS
  <2> QED BY <1>1, <1>2, <2>1, Zenon DEF LabelInv
<1>6. StageInv'
  BY <1>0, <1>1 DEF StageInv, StageAt, Plan
<1> QED BY <1>3, <1>4, <1>5, <1>6, <1>7 DEF ApplyInv

LEMMA StartStep ==
    ASSUME ApplyInv, NEW r \in Runners, NEW rev \in 1..Len(issued), Starts(r, rev)
    PROVE  ApplyInv'
<1>0. ApplyTypeOK /\ CacheInv /\ LockInv /\ LabelInv /\ StageInv
  BY DEF ApplyInv
<1>1. /\ UNCHANGED <<issued, namespace, objects, secrets, breaks, drifts, failures>>
      /\ pass' \in [Runners -> PassRecords]
      /\ pass'[r].pc = "lock" /\ pass'[r].rev = rev /\ pass'[r].result = ""
      /\ \A q \in Runners \ {r} : pass'[q] = pass[q]
  BY DEF Starts, Started, siteVars
<1>2. /\ rev <= cache' /\ cache' >= cache /\ cache' \in 0..Len(issued)
      /\ received' \in 0..Len(issued) /\ lock' = IF lock = r THEN "none" ELSE lock
      /\ IF r = "offline" THEN link = "backoff" /\ link' = "reconciling"
                          ELSE link = "online" /\ link' = link
  BY DEF Starts
<1>3. ApplyTypeOK'
  <2>1. lock' \in Runners \cup {"none"} /\ link' \in {"backoff", "reconciling", "dialing", "online"}
    BY <1>0, <1>2 DEF ApplyTypeOK
  <2> QED BY <1>0, <1>1, <1>2, <2>1, Zenon DEF ApplyTypeOK, PassRecords
<1>4. CacheInv'
  <2>1. cache \in Nat /\ cache' \in Nat
    BY <1>0, <1>2 DEF ApplyTypeOK
  <2>2. ASSUME NEW q \in Runners PROVE pass'[q].rev <= cache'
    <3>1. pass[q].rev \in Nat /\ pass[q].rev <= cache
      BY <1>0 DEF ApplyTypeOK, CacheInv
    <3>2. CASE q = r
      BY <1>1, <1>2, <3>2
    <3>3. CASE q # r
      <4>1. pass'[q].rev = pass[q].rev
        BY <1>1, <3>3, Zenon
      <4> QED BY <1>2, <2>1, <3>1, <4>1
    <3> QED BY <3>2, <3>3
  <2>3. ASSUME NEW k \in Kinds, NEW m \in Members PROVE objects[k][m] <= cache'
    <3>1. objects[k][m] \in Nat /\ objects[k][m] <= cache
      BY <1>0 DEF ApplyTypeOK, CacheInv, CachedBeforeApplied
    <3> QED BY <1>2, <2>1, <3>1
  <2> QED BY <1>1, <2>2, <2>3, Zenon DEF CacheInv, CachedBeforeApplied
<1>5. LockInv'
  <2>1. link' # "online" => r = "offline" /\ link # "online"
    BY <1>2, Zenon
  <2>2. link' # "online" => pass'["worker"] = NoPass /\ pass'["periodic"] = NoPass
    BY <1>0, <1>1, <2>1, Zenon DEF LockInv, Runners
  <2>3. pass'["offline"].pc # "idle" => link' = "reconciling"
    BY <1>0, <1>1, <1>2 DEF LockInv, Runners
  <2>4. rev > 0
    BY <1>0 DEF ApplyTypeOK
  <2>5. \A q \in Runners : pass'[q].pc # "idle" => pass'[q].rev > 0 /\ pass'[q].result = ""
    BY <1>0, <1>1, <2>4, Zenon DEF LockInv
  <2>6. \A q \in Runners : lock' = q <=> pass'[q].pc \in Stages
    BY <1>0, <1>1, <1>2, Zenon DEF LockInv, Stages, Runners
  <2> QED BY <2>2, <2>3, <2>5, <2>6 DEF LockInv
<1>6. LabelInv'
  BY <1>0, <1>1, Zenon DEF LabelInv
<1>7. StageInv'
  <2>1. StageAt(r)'
    BY <1>1, Zenon DEF StageAt, Inside
  <2>2. ASSUME NEW q \in Runners \ {r} PROVE StageAt(q)'
    <3>1. StageAt(q) /\ pass'[q] = pass[q]
      BY <1>0, <1>1 DEF StageInv
    <3> QED BY <1>1, <3>1 DEF StageAt, Plan
  <2> QED BY <2>1, <2>2 DEF StageInv
<1> QED BY <1>3, <1>4, <1>5, <1>6, <1>7 DEF ApplyInv

LEMMA BreakStep ==
    ASSUME ApplyInv, StreamBreaks \/ AgentRestarts
    PROVE  ApplyInv'
<1>0. ApplyTypeOK /\ CacheInv /\ LockInv /\ LabelInv /\ StageInv
  BY DEF ApplyInv
<1>1. /\ UNCHANGED <<issued, received, cache, namespace, objects, secrets, drifts, failures>>
      /\ link' = "backoff" /\ lock' = "none"
  BY DEF StreamBreaks, AgentRestarts, siteVars
<1>2. breaks' \in 0..MaxBreaks
  <2>1. breaks \in 0..MaxBreaks /\ MaxBreaks \in Nat
    BY <1>0, SiteApplyAssumption DEF ApplyTypeOK
  <2> QED BY <2>1 DEF StreamBreaks, AgentRestarts
<1>3. \A r \in Runners : pass'[r] = NoPass \/ (pass'[r] = pass[r] /\ r = "offline" /\ link = "online")
  <2>1. CASE AgentRestarts
    BY <2>1 DEF AgentRestarts
  <2>2. CASE StreamBreaks
    <3>1. pass' = [pass EXCEPT !["worker"] = NoPass, !["periodic"] = NoPass] /\ link = "online"
      BY <2>2 DEF StreamBreaks
    <3>2. pass \in [Runners -> PassRecords]
      BY <1>0 DEF ApplyTypeOK, PassRecords
    <3> QED BY <3>1, <3>2 DEF Runners
  <2> QED BY <2>1, <2>2
<1>4. NoPass \in PassRecords /\ NoPass.pc = "idle" /\ NoPass.rev = 0
  <2>1. 0 \in 0..Len(issued)
    BY <1>0 DEF ApplyTypeOK
  <2> QED BY <2>1 DEF NoPass, PassRecords, PassResults
<1>5. \A r \in Runners : pass'[r] \in PassRecords /\ pass'[r].pc = "idle"
  BY <1>0, <1>3, <1>4, Zenon DEF ApplyTypeOK, PassRecords, LockInv
<1>6. pass' \in [Runners -> PassRecords]
  <2>1. pass \in [Runners -> PassRecords]
    BY <1>0 DEF ApplyTypeOK, PassRecords
  <2> QED BY <1>4, <2>1 DEF StreamBreaks, AgentRestarts
<1>7. ApplyTypeOK'
  BY <1>0, <1>1, <1>2, <1>6, Zenon DEF ApplyTypeOK, PassRecords
<1>8. CacheInv'
  <2>1. 0 <= cache
    BY <1>0 DEF ApplyTypeOK
  <2> QED BY <1>0, <1>1, <1>3, <1>4, <2>1, Zenon DEF CacheInv, CachedBeforeApplied
<1>9. LockInv'
  BY <1>1, <1>3, <1>5 DEF LockInv, Stages, Runners
<1>10. LabelInv'
  BY <1>0, <1>1, Zenon DEF LabelInv
<1>11. StageInv'
  BY <1>5, Zenon DEF StageInv, StageAt, Inside
<1> QED BY <1>7, <1>8, <1>9, <1>10, <1>11 DEF ApplyInv

\* The namespace goes away only through Kubernetes, and stays while a pass works
\* in it.
LEMMA NamespaceFacts ==
    ASSUME NEW r \in Runners, Reconcile(r) \/ StageFails(r)
    PROVE  /\ namespace' = "absent" => namespace = "absent"
           /\ pass[r].pc \in Inside => namespace' = namespace
<1> USE DEF At, Inside
<1>1. CASE lockInstance(r) \/ StageFails(r)
  BY <1>1, Zenon DEF lockInstance, StageFails, siteVars
<1>2. CASE EnsureNamespace(r)
  BY <1>2 DEF EnsureNamespace
<1>3. CASE reconcileLoadBalancers(r) \/ reconcileCertificates(r) \/ reconcileWorkloads(r)
           \/ pruneStaleObjects(r)
  BY <1>3, Zenon DEF reconcileLoadBalancers, reconcileCertificates, reconcileWorkloads, pruneStaleObjects
<1>4. CASE deleteInstance(r)
  BY <1>4, Zenon DEF deleteInstance
<1> QED BY <1>1, <1>2, <1>3, <1>4 DEF Reconcile

\* What an object's label can have become.
LEMMA LabelFacts ==
    ASSUME ApplyTypeOK, LockInv, NEW r \in Runners, Written(r), pass[r].pc # "idle"
    PROVE  \A k \in Kinds, m \in Members :
              \/ objects'[k][m] \in {0, objects[k][m]}
              \/ /\ objects'[k][m] = pass[r].rev /\ m <= Plan(r).replicas
                 /\ pass[r].pc = k /\ (connected(r) \/ k = "workloads")
<1>1. ASSUME NEW n \in 1..Plan(r).replicas, pass[r].pc \in Kinds,
             connected(r) \/ pass[r].pc = "workloads",
             objects' = Applied(pass[r].pc, n, pass[r].rev), NEW k \in Kinds, NEW m \in Members
      PROVE  \/ objects'[k][m] = objects[k][m]
             \/ /\ objects'[k][m] = pass[r].rev /\ m <= Plan(r).replicas
                /\ pass[r].pc = k /\ (connected(r) \/ k = "workloads")
  <2>1. n \in Nat /\ pass[r].rev \in 0..Len(issued) /\ Plan(r).replicas \in Nat /\ n <= Plan(r).replicas
    BY PlanType DEF ApplyTypeOK
  <2>2. objects'[k][m] = IF k = pass[r].pc /\ m <= n THEN pass[r].rev ELSE objects[k][m]
    <3>1. Applied(pass[r].pc, n, pass[r].rev)[k][m]
             = IF k = pass[r].pc /\ m <= n THEN pass[r].rev ELSE objects[k][m]
      BY <1>1, Zenon DEF Applied, ApplyTypeOK
    <3> QED BY <1>1, <3>1
  <2>3. m <= n => m <= Plan(r).replicas
    BY <2>1, SiteApplyAssumption DEF Members
  <2> QED BY <1>1, <2>2, <2>3
<1>2. ASSUME NEW gone, objects' = Without(gone), NEW k \in Kinds, NEW m \in Members
      PROVE  objects'[k][m] \in {0, objects[k][m]}
  <2>1. Without(gone)[k][m] = IF <<k, m>> \in gone THEN 0 ELSE objects[k][m]
    BY WithoutLemma
  <2>2. objects'[k][m] = Without(gone)[k][m]
    BY <1>2
  <2> QED BY <2>1, <2>2
<1> QED BY <1>1, <1>2 DEF Written

LEMMA StageNext ==
    ASSUME ApplyInv, NEW r \in Runners, Reconcile(r) \/ StageFails(r), lock = r
    PROVE  StageAt(r)'
<1>0. /\ ApplyTypeOK /\ LockInv /\ StageAt(r) /\ pass[r].pc \in Stages
      /\ issued' = issued /\ drifts' = drifts /\ pass \in [Runners -> PassRecords]
  <2>1. ApplyTypeOK /\ LockInv /\ StageInv
    BY DEF ApplyInv
  <2>2. UNCHANGED rest /\ UNCHANGED drifts
    <3>1. ~lockInstance(r)
      BY Zenon DEF lockInstance, Runners
    <3> QED BY <2>1, <3>1, MovedLemma, Zenon
  <2> QED BY <2>1, <2>2 DEF LockInv, StageInv, rest, ApplyTypeOK, PassRecords
<1>1. /\ pass[r].pc # "idle" /\ Plan(r).replicas \in Nat /\ 1..Plan(r).replicas \subseteq Members
      /\ pass[r].rev \in 0..Len(issued)
  BY <1>0, PlanType, Zenon DEF Stages, ApplyTypeOK
<1>2. pass'[r].rev = pass[r].rev
  BY <1>0, MovedLemma, MovedFacts
<1>3. Plan(r)' = Plan(r)
  BY <1>0, <1>2 DEF Plan
<1>4. ASSUME NEW stage, Goto(r, stage) PROVE pass'[r].pc = stage
  BY <1>0, <1>4, Zenon DEF Goto, PassRecords
<1>5. ASSUME NEW result, Returns(r, result) PROVE StageAt(r)'
  <2>1. pass'[r].pc = "idle"
    BY <1>0, <1>5 DEF Returns, PassRecords
  <2> QED BY <2>1 DEF StageAt, Inside
<1>6. CASE EnsureNamespace(r)
  <2>1. CASE Goto(r, "services") /\ namespace' = "active"
    <3>1. pass'[r].pc = "services" /\ pass[r].pc = "namespace"
      BY <1>4, <1>6, <2>1, Zenon DEF EnsureNamespace, At
    <3> QED BY <1>0, <1>3, <2>1, <3>1 DEF StageAt, Inside, Past
  <2> QED BY <1>5, <1>6, <2>1 DEF EnsureNamespace
<1>7. ASSUME pass[r].pc \in {"services", "certificates", "workloads"},
             NEW next \in {"certificates", "workloads", "prune"},
             Goto(r, next), Past[next] = Past[pass[r].pc] \cup {pass[r].pc},
             connected(r) => objects' = Applied(pass[r].pc, Plan(r).replicas, pass[r].rev)
      PROVE  StageAt(r)'
  <2>1. pass'[r].pc = next /\ namespace' = "active" /\ Plan(r).deletion = "None"
    BY <1>0, <1>4, <1>7, NamespaceFacts, Zenon DEF StageAt, Inside
  <2>2. ASSUME connected(r), drifts.all = drifts.before, NEW k \in Past[next], NEW m \in 1..Plan(r).replicas
        PROVE  objects'[k][m] = pass[r].rev
    <3>1. k \in Kinds /\ m \in Members /\ m <= Plan(r).replicas /\ pass[r].pc \in Kinds
      <4>1. k \in Kinds /\ pass[r].pc \in Kinds
        BY <1>7, <2>2 DEF Past, Kinds
      <4>2. m \in Members
        BY <1>1, <2>2
      <4>3. m <= Plan(r).replicas
        BY <1>1, <2>2
      <4> QED BY <4>1, <4>2, <4>3
    <3>2. objects'[k][m] = IF k = pass[r].pc /\ m <= Plan(r).replicas THEN pass[r].rev ELSE objects[k][m]
      <4>1. Applied(pass[r].pc, Plan(r).replicas, pass[r].rev)[k][m]
               = IF k = pass[r].pc /\ m <= Plan(r).replicas THEN pass[r].rev ELSE objects[k][m]
        BY <1>0, <3>1, Zenon DEF Applied, ApplyTypeOK
      <4> QED BY <1>7, <2>2, <4>1
    <3>3. k # pass[r].pc => objects[k][m] = pass[r].rev
      BY <1>0, <1>7, <2>2, Zenon DEF StageAt, Inside
    <3> QED BY <3>1, <3>2, <3>3
  <2> QED BY <1>0, <1>2, <1>3, <1>7, <2>1, <2>2 DEF StageAt, Inside
<1>8. CASE reconcileLoadBalancers(r)
  <2>1. pass[r].pc = "services" /\ Past["certificates"] = Past["services"] \cup {"services"}
    BY <1>8, Zenon DEF reconcileLoadBalancers, At, Past
  <2> QED BY <1>5, <1>7, <1>8, <2>1 DEF reconcileLoadBalancers
<1>9. CASE reconcileCertificates(r)
  <2>1. pass[r].pc = "certificates" /\ Past["workloads"] = Past["certificates"] \cup {"certificates"}
    BY <1>9, Zenon DEF reconcileCertificates, At, Past
  <2> QED BY <1>5, <1>7, <1>9, <2>1 DEF reconcileCertificates
<1>10. CASE reconcileWorkloads(r)
  <2>1. pass[r].pc = "workloads" /\ Past["prune"] = Past["workloads"] \cup {"workloads"}
    BY <1>10, Zenon DEF reconcileWorkloads, At, Past, Kinds
  <2> QED BY <1>7, <1>10, <2>1 DEF reconcileWorkloads
<1>11. CASE pruneStaleObjects(r) \/ deleteInstance(r) \/ StageFails(r)
  BY <1>5, <1>11 DEF pruneStaleObjects, deleteInstance, StageFails
<1>12. CASE lockInstance(r)
  BY <1>12, Zenon DEF lockInstance, Runners
<1> QED BY <1>6, <1>8, <1>9, <1>10, <1>11, <1>12 DEF Reconcile

LEMMA StageLock ==
    ASSUME ApplyTypeOK, LockInv, NEW r \in Runners, lockInstance(r)
    PROVE  StageAt(r)'
<1>0. pass \in [Runners -> PassRecords]
  BY DEF ApplyTypeOK, PassRecords
<1>1. pass' = [pass EXCEPT ![r].pc = IF Plan(r).deletion = "None" THEN "namespace" ELSE "delete"]
      /\ issued' = issued
  BY DEF lockInstance, rest
<1>2. /\ pass'[r].pc = IF Plan(r).deletion = "None" THEN "namespace" ELSE "delete"
      /\ pass'[r].rev = pass[r].rev
  BY <1>0, <1>1 DEF PassRecords
<1>3. Plan(r)' = Plan(r)
  BY <1>1, <1>2 DEF Plan
<1> QED BY <1>2, <1>3 DEF StageAt, Inside

LEMMA StageStep ==
    ASSUME ApplyInv, NEW r \in Runners, Reconcile(r) \/ StageFails(r)
    PROVE  ApplyInv'
<1>0. ApplyTypeOK /\ CacheInv /\ LockInv /\ LabelInv /\ StageInv
  BY DEF ApplyInv
<1>1. /\ Moved(r) /\ lock \in {"none", r} /\ failures' \in 0..MaxFailures /\ secrets' = secrets
      /\ namespace' \in {"absent", "active", "terminating"}
      /\ UNCHANGED <<issued, received, cache, breaks>>
  BY <1>0, MovedLemma, Zenon DEF rest
<1>a. /\ drifts' \in [all : 0..MaxDrifts, before : 0..MaxDrifts]
      /\ drifts'.before <= drifts'.all
  <2>1. CASE lockInstance(r)
    <3>1. /\ drifts \in [all : 0..MaxDrifts, before : 0..MaxDrifts]
          /\ drifts' = [drifts EXCEPT !.before = drifts.all]
      BY <1>0, <2>1, Zenon DEF lockInstance, ApplyTypeOK
    <3>2. drifts.all \in 0..MaxDrifts /\ drifts'.all = drifts.all /\ drifts'.before = drifts.all
      BY <3>1, Zenon
    <3>3. drifts' \in [all : 0..MaxDrifts, before : 0..MaxDrifts]
      BY <3>1, <3>2, Zenon
    <3> QED BY <3>2, <3>3, SiteApplyAssumption
  <2>2. CASE UNCHANGED drifts
    BY <1>0, <2>2, Zenon DEF ApplyTypeOK
  <2> QED BY <1>0, <2>1, <2>2, MovedLemma, Zenon
<1>2. /\ pass' \in [Runners -> PassRecords] /\ lock' \in {"none", r}
      /\ \A q \in Runners \ {r} : pass'[q] = pass[q]
      /\ pass'[r].rev = pass[r].rev
      /\ \/ /\ pass'[r].pc \in Stages /\ pass'[r].result = pass[r].result
            /\ lock' = r /\ link' = link
         \/ /\ pass'[r].pc = "idle" /\ lock' = "none"
            /\ link' = IF r = "offline" THEN "dialing" ELSE link
  BY <1>0, <1>1, MovedFacts
<1>3. Written(r) /\ pass[r].pc # "idle"
  BY <1>0, WrittenLemma
<1>4. objects' \in [Kinds -> [Members -> 0..Len(issued)]]
  BY <1>0, <1>3, WrittenType, Zenon
<1>5. \A k \in Kinds, m \in Members :
          \/ objects'[k][m] \in {0, objects[k][m]}
          \/ objects'[k][m] = pass[r].rev /\ m <= Plan(r).replicas
  BY <1>0, <1>3, LabelFacts
<1>6. ApplyTypeOK'
  <2>1. link' \in {"backoff", "reconciling", "dialing", "online"} /\ lock' \in Runners \cup {"none"}
    BY <1>0, <1>2, Zenon DEF ApplyTypeOK
  <2> QED BY <1>0, <1>1, <1>2, <1>a, <1>4, <2>1, Zenon DEF ApplyTypeOK, PassRecords
<1>7. CacheInv'
  <2>1. 0 <= cache
    BY <1>0 DEF ApplyTypeOK
  <2>2. \A k \in Kinds, m \in Members : objects'[k][m] <= cache
    BY <1>0, <1>5, <2>1 DEF CacheInv, CachedBeforeApplied
  <2>3. \A q \in Runners : pass'[q].rev <= cache
    BY <1>0, <1>2, Zenon DEF CacheInv
  <2> QED BY <1>1, <2>2, <2>3, Zenon DEF CacheInv, CachedBeforeApplied
<1>8. LockInv'
  <2>1. r = "offline" \/ link = "online"
    <3>1. NoPass.pc = "idle"
      BY Zenon DEF NoPass
    <3> QED BY <1>0, <1>3, <3>1 DEF LockInv, Runners
  <2>2. r = "offline" => link = "reconciling"
    BY <1>0, <1>3, Zenon DEF LockInv
  <2>3. link' # "online" => pass'["worker"] = NoPass /\ pass'["periodic"] = NoPass
    BY <1>0, <1>2, <2>1, <2>2, Zenon DEF LockInv, Runners
  <2>4. pass'["offline"].pc # "idle" => link' = "reconciling"
    BY <1>0, <1>2, <2>1, <2>2 DEF LockInv, Runners
  <2>5. \A q \in Runners : pass'[q].pc # "idle" => pass'[q].rev > 0 /\ pass'[q].result = ""
    BY <1>0, <1>2, <1>3, Zenon DEF LockInv
  <2>6. \A q \in Runners : lock' = q <=> pass'[q].pc \in Stages
    BY <1>0, <1>1, <1>2, Zenon DEF LockInv, Stages, Runners
  <2> QED BY <2>3, <2>4, <2>5, <2>6 DEF LockInv
<1>9. LabelInv'
  <2>1. ASSUME NEW k \in Kinds, NEW m \in Members, objects'[k][m] > 0
        PROVE  m <= issued[objects'[k][m]].replicas
    BY <1>0, <1>5, <2>1 DEF LabelInv, Plan
  <2>2. ASSUME namespace' = "absent" PROVE objects' = NoObjects
    <3>1. namespace = "absent" /\ objects = NoObjects
      BY <1>0, <2>2, NamespaceFacts, Zenon DEF LabelInv
    <3>2. pass[r].pc \notin Kinds
      BY <1>0, <3>1 DEF StageInv, StageAt, Inside, Kinds
    <3>3. ASSUME NEW gone, objects' = Without(gone) PROVE objects' = NoObjects
      BY <3>1, <3>3 DEF Without, NoObjects
    <3> QED BY <1>3, <3>1, <3>2, <3>3 DEF Written
  <2> QED BY <1>1, <2>1, <2>2, Zenon DEF LabelInv
<1>10. StageInv'
  <2>1. StageAt(r)'
    <3>1. CASE lockInstance(r)
      BY <1>0, <3>1, StageLock
    <3>2. CASE ~lockInstance(r)
      <4>1. lock = r
        BY <3>2, Zenon DEF Reconcile, StageFails, EnsureNamespace, reconcileLoadBalancers,
           reconcileCertificates, reconcileWorkloads, pruneStaleObjects, deleteInstance, At
      <4> QED BY <4>1, StageNext
    <3> QED BY <3>1, <3>2
  <2>2. ASSUME NEW q \in Runners \ {r} PROVE StageAt(q)'
    <3>1. pass'[q].pc \notin Stages
      BY <1>0, <1>1, <1>2 DEF LockInv, Runners
    <3> QED BY <3>1 DEF StageAt, Inside, Stages
  <2> QED BY <2>1, <2>2 DEF StageInv
<1> QED BY <1>6, <1>7, <1>8, <1>9, <1>10 DEF ApplyInv

LEMMA NextStep == ApplyInv /\ [ApplyNext]_applyVars => ApplyInv'
<1> SUFFICES ASSUME ApplyInv, [ApplyNext]_applyVars PROVE ApplyInv'
  OBVIOUS
<1>1. CASE reconcileCached \/ applyPlan \/ applyAgain \/ reconcilePeriodically \/ applyListed
  <2>1. CASE reconcileCached /\ cache = 0
    BY <2>1, QuietStep
  <2> QED BY <1>1, <2>1, Starting, StartStep DEF ApplyInv
<1> QED BY <1>1, IssueStep, QuietStep, DriftStep, GoneStep, BreakStep, StageStep DEF ApplyNext

LEMMA ApplyInvariant == ApplySpec => []ApplyInv
  BY InitStep, NextStep, PTL DEF ApplySpec

\* Whatever is found at the site stems from the cached plan or an older one:
\* applyPlan stores a plan before its worker calls Apply, and no goroutine works
\* on a plan that it did not get from there (applyPlan, reconcileCached).
THEOREM CachedTheorem == ApplySpec => []CachedBeforeApplied
<1>1. ApplyInv => CachedBeforeApplied
  BY DEF ApplyInv, CacheInv
<1> QED BY <1>1, ApplyInvariant, PTL

\* A connected pass that reports Ready or Deleted leaves the site exactly as its
\* plan wants it, whichever goroutines, crashes, broken streams, half-made stages
\* and deletions by others came before it, and whichever goroutines stepped in
\* between (Reconciler.reconcile, pruneStaleObjects, deleteInstance).
THEOREM ReportedTheorem == ApplySpec => ReportedPassMatches
<1> DEFINE A == \A r \in Runners :
         /\ drifts.all = drifts.before /\ connected(r) /\ lock = r
         /\ pass'[r].result \in {"Ready", "Deleted"}
         => Matches(pass[r].rev)'
<1>1. ApplyInv /\ [ApplyNext]_applyVars => [A]_applyVars
  <2> SUFFICES ASSUME ApplyInv, ApplyNext, NEW r \in Runners, drifts.all = drifts.before, connected(r), lock = r,
                      pass'[r].result \in {"Ready", "Deleted"}
               PROVE  Matches(pass[r].rev)'
    OBVIOUS
  <2>0. ApplyTypeOK /\ CacheInv /\ LockInv /\ LabelInv /\ StageAt(r) /\ pass[r].pc \in Stages
    BY Zenon DEF ApplyInv, LockInv, StageInv
  <2>1. /\ pass \in [Runners -> PassRecords] /\ pass[r].result = "" /\ pass[r].pc # "idle"
        /\ pass[r].rev \in 1..Len(issued) /\ Plan(r) \in Plans
    BY <2>0, PlanType DEF LockInv, Stages, ApplyTypeOK, PassRecords
  <2>2. ASSUME NEW q \in Runners, Reconcile(q) \/ StageFails(q) PROVE q = r
    BY <2>2, Zenon DEF Reconcile, StageFails, lockInstance, EnsureNamespace, reconcileLoadBalancers,
       reconcileCertificates, reconcileWorkloads, pruneStaleObjects, deleteInstance, At, Runners
  <2>3. ASSUME NEW q \in Runners, NEW rev \in 1..Len(issued), Starts(q, rev) PROVE FALSE
    <3>1. pass'[r].result = "" \/ pass'[r] = pass[r]
      BY <2>3, Zenon DEF Starts, Started
    <3> QED BY <2>1, <3>1
  <2>4. ~(reconcileCached \/ applyPlan \/ applyAgain \/ reconcilePeriodically \/ applyListed)
    <3>1. ~(reconcileCached /\ cache = 0)
      BY <2>1, Zenon DEF reconcileCached
    <3> QED BY <2>0, <2>3, <3>1, Starting
  <2>5. ~StreamBreaks /\ ~AgentRestarts
    <3>1. NoPass.result = ""
      BY Zenon DEF NoPass
    <3>2. StreamBreaks \/ AgentRestarts => pass'[r] \in {NoPass, pass[r]}
      BY <2>1, Zenon DEF StreamBreaks, AgentRestarts
    <3> QED BY <2>1, <3>1, <3>2
  <2>6. Reconcile(r) \/ StageFails(r)
    BY <2>1, <2>2, <2>4, <2>5
    DEF ApplyNext, IssuePlan, Drift, CertificateIssued, NamespaceGone, Dial, DialFails
  <2>7. ASSUME NEW stage PROVE ~Goto(r, stage)
    BY <2>1 DEF Goto, PassRecords
  <2>8. ASSUME NEW result, Returns(r, result) PROVE result \in {"Ready", "Deleted"}
    <3>1. pass'[r].result = result
      BY <2>1, <2>8 DEF Returns, PassRecords
    <3> QED BY <3>1
  <2>9. ~Returns(r, "Failed") /\ ~Returns(r, "WaitingForHub") /\ ~Returns(r, "Deleting")
    BY <2>8
  <2>10. pruneStaleObjects(r) \/ deleteInstance(r)
    <3>1. ~lockInstance(r)
      BY Zenon DEF lockInstance, Runners
    <3> QED BY <2>6, <2>7, <2>9, <3>1, Zenon
        DEF Reconcile, StageFails, EnsureNamespace, reconcileLoadBalancers, reconcileCertificates,
            reconcileWorkloads
  <2>11. pass'[r].rev = pass[r].rev /\ pass'[r].rev # 0 /\ issued'[pass'[r].rev] = Plan(r)
    <3>1. pass'[r].rev = pass[r].rev /\ issued' = issued
      BY <2>0, <2>6, MovedLemma, MovedFacts DEF rest
    <3>2. pass[r].rev > 0
      BY <2>0, <2>1, Zenon DEF LockInv
    <3> QED BY <3>1, <3>2 DEF Plan
  <2>12. CASE pruneStaleObjects(r)
    <3>1. /\ Plan(r).deletion = "None" /\ pass[r].pc = "prune"
          /\ \A k \in Kinds, m \in 1..Plan(r).replicas : objects[k][m] = pass[r].rev
      <4>1. pass[r].pc = "prune"
        BY <2>12, Zenon DEF pruneStaleObjects, At
      <4>2. pass[r].pc \in Inside /\ Past[pass[r].pc] = Kinds
        BY <4>1 DEF Inside, Past
      <4>3. StageAt(r) /\ connected(r) /\ drifts.all = drifts.before
        BY <2>0, Zenon
      <4> QED BY <4>1, <4>2, <4>3, Zenon DEF StageAt
    <3>2. ASSUME NEW k \in Kinds, NEW m \in Members
          PROVE  objects'[k][m] = IF m <= Plan(r).replicas THEN pass[r].rev ELSE 0
      <4>1. objects'[k][m] = IF <<k, m>> \in Stale(pass[r].rev) THEN 0 ELSE objects[k][m]
        BY <2>12 DEF pruneStaleObjects, Without
      <4>2. <<k, m>> \in Stale(pass[r].rev) <=> objects[k][m] \notin {0, pass[r].rev}
        BY DEF Stale
      <4>3. CASE m <= Plan(r).replicas
        <5>1. m \in 1..Plan(r).replicas
          <6>1. Plan(r).replicas \in Nat /\ MaxReplicas \in Nat
            BY <2>0, <2>1, PlanType, SiteApplyAssumption, Zenon
          <6> QED BY <4>3, <6>1 DEF Members
        <5> QED BY <3>1, <4>1, <4>2, <4>3, <5>1
      <4>4. CASE ~(m <= Plan(r).replicas)
        <5>1. objects[k][m] # pass[r].rev
          <6>1. pass[r].rev > 0
            BY <2>0, <2>1, Zenon DEF LockInv
          <6> QED BY <2>0, <4>4, <6>1, Zenon DEF LabelInv, Plan
        <5> QED BY <4>1, <4>2, <4>4, <5>1
      <4> QED BY <4>3, <4>4
    <3>3. Plan(r).deletion # "Delete" /\ Plan(r).deletion # "Retain"
      BY <3>1, Zenon
    <3> QED BY <2>11, <3>2, <3>3, Zenon DEF Matches
  <2>13. CASE deleteInstance(r)
    <3>1. Plan(r).deletion \in {"Retain", "Delete"}
      BY <2>0, <2>1, <2>13 DEF StageAt, deleteInstance, At, Plans
    <3>2. \/ namespace = "absent" /\ namespace' = "absent" /\ objects' = objects
          \/ Plan(r).deletion = "Retain" /\ objects' = Without(Stale(0))
      BY <2>13, <2>9, Zenon DEF deleteInstance
    <3>3. CASE namespace = "absent" /\ namespace' = "absent" /\ objects' = objects
      <4>1. objects' = NoObjects
        BY <2>0, <3>3 DEF LabelInv
      <4>2. CASE Plan(r).deletion = "Delete"
        BY <2>11, <3>3, <4>2 DEF Matches
      <4>3. CASE Plan(r).deletion = "Retain"
        BY <2>11, <4>1, <4>3 DEF Matches
      <4> QED BY <3>1, <4>2, <4>3
    <3>4. CASE Plan(r).deletion = "Retain" /\ objects' = Without(Stale(0))
      <4>1. \A k \in Kinds, m \in Members : <<k, m>> \in Stale(0) \/ objects[k][m] = 0
        BY Zenon DEF Stale
      <4>2. objects' = NoObjects
        BY <3>4, <4>1 DEF Without, NoObjects
      <4> QED BY <2>11, <3>4, <4>2 DEF Matches
    <3> QED BY <3>2, <3>3, <3>4
  <2> QED BY <2>10, <2>12, <2>13
<1> QED BY <1>1, ApplyInvariant, PTL DEF ApplySpec, ReportedPassMatches

\* Without its stream an agent creates no namespace and no LoadBalancer Service,
\* and starts no deletion: only the disconnected pass is at work, and it leaves
\* these to the hub (EnsureNamespace, reconcileLoadBalancers, deleteInstance).
THEOREM DisconnectedTheorem == ApplySpec => DisconnectedCreatesNothing
<1> DEFINE A == link # "online" =>
         /\ namespace = "absent" => namespace' = "absent"
         /\ namespace' = "terminating" => namespace = "terminating"
         /\ \A m \in Members :
              objects["services"][m] = 0 => objects'["services"][m] = 0
<1>1. ApplyInv /\ [ApplyNext]_applyVars => [A]_applyVars
  <2> SUFFICES ASSUME ApplyInv, ApplyNext, link # "online" PROVE A
    OBVIOUS
  <2> HIDE DEF A
  <2>0. ApplyTypeOK /\ LockInv
    BY DEF ApplyInv
  <2>1. CASE UNCHANGED <<namespace, objects>>
    BY <2>1, Zenon DEF A
  <2>2. CASE Drift
    BY <2>0, <2>2 DEF A, Drift, ApplyTypeOK, Kinds
  <2>3. CASE NamespaceGone
    <3>1. \A m \in Members : NoObjects["services"][m] = 0
      BY Zenon DEF NoObjects, Kinds
    <3> QED BY <2>3, <3>1 DEF A, NamespaceGone
  <2>4. ASSUME NEW r \in Runners, Reconcile(r) \/ StageFails(r) PROVE A
    <3>1. r = "offline"
      <4>1. NoPass.pc = "idle"
        BY Zenon DEF NoPass
      <4> QED BY <2>0, <2>4, <4>1, WrittenLemma DEF LockInv, Runners
    <3>2. \A m \in Members : objects["services"][m] = 0 => objects'["services"][m] = 0
      <4>1. "services" \in Kinds /\ ~connected(r) /\ "services" # "workloads"
        BY <3>1 DEF Kinds, connected
      <4> QED BY <2>0, <2>4, <4>1, WrittenLemma, LabelFacts
    <3>3. namespace' = namespace
      BY <2>4, <3>1, Zenon DEF Reconcile, StageFails, lockInstance, EnsureNamespace, siteVars,
         reconcileLoadBalancers, reconcileCertificates, reconcileWorkloads, pruneStaleObjects,
         deleteInstance, connected
    <3> QED BY <3>2, <3>3 DEF A
  <2> QED BY <2>1, <2>2, <2>3, <2>4
      DEF ApplyNext, IssuePlan, CertificateIssued, reconcileCached, Dial, DialFails, StreamBreaks,
          AgentRestarts, applyPlan, applyAgain, reconcilePeriodically, applyListed, siteVars
<1> QED BY <1>1, ApplyInvariant, PTL DEF ApplySpec, DisconnectedCreatesNothing

-----------------------------------------------------------------------------
(* BackupOperations: the inductive invariant.                              *)

UpgradeStatuses ==
    [stage : {"None", "Preflight", "Converting", "Finalizing", "Completed"},
     requested : BOOLEAN,
     fresh : {"None", "BackupRequested", "BackupVerified", "BackupFailed"},
     attempt : Attempts, postRequested : BOOLEAN,
     post : {"None", "BackupRequested", "BackupRetryRequested", "BackupVerified",
             "BackupFailed", "ManualInterventionRequired"},
     waiting : BOOLEAN]

Types ==
    /\ clock \in 0..MaxTime
    /\ instance \in InstanceStatuses
    /\ snapshot \in [canRun : BOOLEAN, read : SUBSET InstanceStatuses]
    /\ upgrade \in UpgradeStatuses

\* What the two conditions say was done, and what was decided from them.
GatesAreReal ==
    /\ upgrade.fresh = "BackupVerified" => Taken(Preflight)
    /\ upgrade.post = "BackupVerified" => \E k \in Attempts : Taken(Post(k))
    /\ UpgradeNeedsFreshBackup
    /\ CompletionHasBackup

\* A reconcile writes back what it read, so the snapshot has to be covered too.
IssuedIsKept ==
    /\ IssuedBeforeRecorded
    /\ \A i \in snapshot.read : i.last > 0 => Scheduled(i.last) \in directive

BInv == Types /\ GatesAreReal /\ IssuedIsKept

LEMMA BInit == Init => BInv
  <1>. SUFFICES ASSUME Init PROVE BInv
    OBVIOUS
  <1>1. Types
    BY BoundsAssumption DEF Init, Types, InstanceStatuses, UpgradeStatuses, NoSnapshot, Times, Attempts
  <1>. QED
    BY <1>1 DEF Init, BInv, GatesAreReal, IssuedIsKept, UpgradeNeedsFreshBackup,
                CompletionHasBackup, IssuedBeforeRecorded, NoSnapshot

\* Work that took effect stays done.
LEMMA DoneGrows ==
    ASSUME [DirectivesNext]_dvars
    PROVE  done \subseteq done'
  BY DEF DirectivesNext, dvars, pipeline, Publish, Connect, BreakStream, Disconnect, SendDirective,
         AgentStep, ReceiveDirective, StartJob, ExecuteFails, waitForJob, MarkTerminal,
         JobStep, JobCompletes, JobFails, JobExpires, LateWriteLands, RecordResult, RefuseResult

LEMMA TakenStays ==
    ASSUME NEW op, done \subseteq done', Taken(op)
    PROVE  Taken(op)'
  BY DEF Taken

LEMMA GatesStay ==
    ASSUME GatesAreReal, done \subseteq done', UNCHANGED upgrade
    PROVE  GatesAreReal'
  BY TakenStays, Zenon DEF GatesAreReal, UpgradeNeedsFreshBackup, CompletionHasBackup, Taken

LEMMA IssuedStays ==
    ASSUME IssuedIsKept, directive \subseteq directive', UNCHANGED <<instance, snapshot>>
    PROVE  IssuedIsKept'
  BY DEF IssuedIsKept, IssuedBeforeRecorded

-----------------------------------------------------------------------------
(* Every step is a step of the machinery or leaves it alone. *)

LEMMA OpsAreOps ==
    /\ Preflight \in Ops
    /\ \A n \in Times : Scheduled(n) \in Ops
    /\ \A k \in Attempts : Post(k) \in Ops
  BY OpsAssumption DEF BackupOps

LEMMA HubIsPublish ==
    ASSUME IInv, Types,
           ensureFreshUpgradeBackup \/ ensurePostUpgradeBackup \/ FinishReconcile
               \/ \E s \in Sites : MoveSource(s)
    PROVE  Publish
  <1>0. directive \subseteq Ops
    BY DEF IInv, DirectivesTypeOK
  <1>1. directive' \subseteq Ops
    <2>1. CASE FinishReconcile
      <3>1. PICK i \in snapshot.read :
              \/ directive' = directive \cup {Scheduled(reconcileBackupSchedules(i).last)}
              \/ directive' = directive
        BY <2>1 DEF FinishReconcile
      <3>2. reconcileBackupSchedules(i).last = clock /\ clock \in Times
        BY BoundsAssumption DEF Types, InstanceStatuses, reconcileBackupSchedules, Times
      <3>. QED
        BY <1>0, <3>1, <3>2, OpsAreOps
    <2>2. CASE ensureFreshUpgradeBackup \/ \E s \in Sites : MoveSource(s)
      BY <1>0, <2>2, OpsAreOps DEF ensureFreshUpgradeBackup, MoveSource
    <2>3. CASE ensurePostUpgradeBackup
      <3>1. upgrade.attempt \in Attempts
        BY DEF Types, UpgradeStatuses
      <3>. QED
        BY <1>0, <2>3, <3>1, OpsAreOps DEF ensurePostUpgradeBackup
    <2>. QED
      BY <2>1, <2>2, <2>3
  <1>2. faults' \in faults..MaxFaults
    BY FaultsAssumption
       DEF IInv, DirectivesTypeOK, ensureFreshUpgradeBackup, ensurePostUpgradeBackup,
           FinishReconcile, MoveSource, Cost
  <1>3. UNCHANGED <<stream, sent, down, worker, store, late, job, up, done, reported>>
    BY DEF ensureFreshUpgradeBackup, ensurePostUpgradeBackup, FinishReconcile, MoveSource, Untouched
  <1>. QED
    BY <1>1, <1>2, <1>3 DEF Publish

LEMMA StepUsesDirectives == IInv /\ Types /\ [Next]_vars => [DirectivesNext]_dvars
  <1>. SUFFICES ASSUME IInv, Types, [Next]_vars PROVE [DirectivesNext]_dvars
    OBVIOUS
  <1>1. CASE ensureFreshUpgradeBackup \/ ensurePostUpgradeBackup \/ FinishReconcile
                 \/ \E s \in Sites : MoveSource(s)
    BY <1>1, HubIsPublish DEF DirectivesNext
  <1>2. CASE Convert \/ RetryDue \/ BeginReconcile \/ Tick \/ CreateUpgrade \/ UNCHANGED vars
    BY <1>2 DEF Convert, RetryDue, BeginReconcile, Tick, CreateUpgrade, vars
  <1>3. CASE \E s \in Sites : (Connect(s) \/ BreakStream(s)) /\ UNCHANGED bhub
    BY <1>3 DEF DirectivesNext, bhub
  <1>4. ASSUME NEW t \in Tasks, sendDirectives(t) \/ Pipeline(t) \/ RunBackupJob(t)
        PROVE  DirectivesNext
    <2>1. UNCHANGED directive
      BY <1>4 DEF sendDirectives, Pipeline, RunBackupJob, bhub
    <2>2. SendDirective(t) \/ AgentStep(t) \/ JobStep(t)
      BY <1>4 DEF sendDirectives, Pipeline, RunBackupJob, JobStep
    <2>. QED
      BY <2>1, <2>2 DEF DirectivesNext
  <1>5. ASSUME NEW x \in Tasks \X Outcomes,
               recordBackupResult(x) \/ (LateWriteLands(x) /\ UNCHANGED bhub)
        PROVE  DirectivesNext
    BY <1>5 DEF DirectivesNext, recordBackupResult, bhub
  <1>. QED
    BY <1>1, <1>2, <1>3, <1>4, <1>5 DEF Next, Progress

-----------------------------------------------------------------------------
(* The invariant, action by action. *)

LEMMA RecordTypes ==
    ASSUME NEW x \in Tasks \X Outcomes, Types, recordBackupResult(x)
    PROVE  Types'
  <1>1. UNCHANGED <<clock, snapshot>>
    BY DEF recordBackupResult
  <1>2. instance' \in InstanceStatuses
    BY Zenon DEF recordBackupResult, Types, InstanceStatuses, Verified
  <1>3. upgrade' \in UpgradeStatuses
    BY DEF recordBackupResult, Types, UpgradeStatuses, Reason
  <1>. QED
    BY <1>1, <1>2, <1>3 DEF Types

\* A condition that says Verified was written from a success, and a success is
\* of a backup that was taken.
LEMMA RecordBInv ==
    ASSUME NEW x \in Tasks \X Outcomes, IInv, BInv, recordBackupResult(x)
    PROVE  BInv'
  <1>1. PICK s \in Sites, op \in Ops, o \in Outcomes : x = <<<<s, op>>, o>>
    BY DEF Tasks
  <1>2. UNCHANGED <<directive, done, snapshot>> /\ x \in up
    BY DEF recordBackupResult, RecordResult
  <1>3. o = "Succeeded" => Taken(op)
    BY <1>1, <1>2 DEF IInv, SuccessIsDone, ReportedIsDecided, Taken, Tasks
  <1>4. \/ op[1] = "scheduled" /\ UNCHANGED upgrade
        \/ op = Preflight /\ upgrade' = [upgrade EXCEPT !.fresh = Reason(o)]
        \/ /\ \E k \in Attempts : op = Post(k)
           /\ upgrade' = [upgrade EXCEPT !.post = Reason(o)]
    BY <1>1, OpsAssumption DEF recordBackupResult, BackupOps, Preflight, Post, Scheduled
  <1>5. GatesAreReal'
    <2>1. \A p \in Ops : Taken(p)' <=> Taken(p)
      BY <1>2 DEF Taken
    <2>2. CASE UNCHANGED upgrade
      BY <1>2, <2>2, GatesStay DEF BInv
    <2>3. CASE op = Preflight /\ upgrade' = [upgrade EXCEPT !.fresh = Reason(o)]
      <3>1. upgrade'.fresh = Reason(o) /\ upgrade'.post = upgrade.post /\ upgrade'.stage = upgrade.stage
        BY <2>3 DEF BInv, Types, UpgradeStatuses
      <3>2. Reason(o) = "BackupVerified" => Taken(Preflight)
        BY <1>3, <2>3 DEF Reason
      <3>. QED
        BY <2>1, <3>1, <3>2, OpsAreOps
           DEF BInv, GatesAreReal, UpgradeNeedsFreshBackup, CompletionHasBackup
    <2>4. CASE /\ \E k \in Attempts : op = Post(k)
               /\ upgrade' = [upgrade EXCEPT !.post = Reason(o)]
      <3>1. upgrade'.post = Reason(o) /\ upgrade'.fresh = upgrade.fresh /\ upgrade'.stage = upgrade.stage
        BY <2>4 DEF BInv, Types, UpgradeStatuses
      <3>2. Reason(o) = "BackupVerified" => \E k \in Attempts : Taken(Post(k))
        BY <1>3, <2>4 DEF Reason
      <3>. QED
        BY <2>1, <3>1, <3>2, OpsAreOps
           DEF BInv, GatesAreReal, UpgradeNeedsFreshBackup, CompletionHasBackup
    <2>. QED
      BY <1>4, <2>2, <2>3, <2>4
  <1>6. instance'.last = instance.last
    BY Zenon DEF recordBackupResult, BInv, Types, InstanceStatuses
  <1>7. IssuedIsKept'
    BY <1>2, <1>6 DEF BInv, IssuedIsKept, IssuedBeforeRecorded
  <1>. QED
    BY <1>5, <1>7, RecordTypes DEF BInv

\* The upgrade controller moves on from what the conditions say.
LEMMA UpgradeBInv ==
    ASSUME BInv, done' = done, UNCHANGED <<clock, instance, snapshot>>,
           ensureFreshUpgradeBackup \/ ensurePostUpgradeBackup \/ Convert \/ RetryDue \/ CreateUpgrade
    PROVE  BInv'
  <1>1. directive \subseteq directive'
    BY DEF ensureFreshUpgradeBackup, ensurePostUpgradeBackup, Convert, RetryDue, CreateUpgrade, dvars
  <1>2. upgrade' \in UpgradeStatuses
    <2>1. CASE ensureFreshUpgradeBackup
      BY <2>1, Zenon DEF BInv, Types, UpgradeStatuses, ensureFreshUpgradeBackup
    <2>2. CASE ensurePostUpgradeBackup
      <3>1. Retry \in UpgradeStatuses
        <4>1. upgrade.attempt < maxPostUpgradeBackupAttempts => upgrade.attempt + 1 \in Attempts
          BY BoundsAssumption DEF BInv, Types, UpgradeStatuses, Attempts
        <4>2. upgrade.attempt >= maxPostUpgradeBackupAttempts \/ upgrade.attempt < maxPostUpgradeBackupAttempts
          BY BoundsAssumption DEF BInv, Types, UpgradeStatuses, Attempts
        <4>3. CASE upgrade.attempt >= maxPostUpgradeBackupAttempts
          BY <4>3 DEF BInv, Types, UpgradeStatuses, Retry
        <4>4. CASE ~(upgrade.attempt >= maxPostUpgradeBackupAttempts)
          <5>1. Retry = [upgrade EXCEPT !.attempt = upgrade.attempt + 1, !.postRequested = FALSE,
                                        !.post = "BackupRetryRequested", !.waiting = TRUE]
            BY <4>4 DEF BInv, Types, UpgradeStatuses, Retry
          <5>. QED
            BY <4>1, <4>2, <4>4, <5>1, Zenon DEF BInv, Types, UpgradeStatuses
        <4>. QED
          BY <4>3, <4>4
      <3>2. /\ [upgrade EXCEPT !.stage = "Completed"] \in UpgradeStatuses
            /\ [upgrade EXCEPT !.postRequested = TRUE, !.post = "BackupRequested"] \in UpgradeStatuses
            /\ upgrade \in UpgradeStatuses
        BY Zenon DEF BInv, Types, UpgradeStatuses
      <3>. QED
        BY <2>2, <3>1, <3>2 DEF ensurePostUpgradeBackup
    <2>3. CASE Convert \/ RetryDue \/ CreateUpgrade
      BY <2>3, Zenon DEF BInv, Types, UpgradeStatuses, Convert, RetryDue, CreateUpgrade
    <2>. QED
      BY <2>1, <2>2, <2>3
  <1>3. /\ upgrade'.fresh = "BackupVerified" => upgrade.fresh = "BackupVerified"
        /\ upgrade'.post = "BackupVerified" => upgrade.post = "BackupVerified"
    BY Zenon DEF BInv, Types, UpgradeStatuses, ensureFreshUpgradeBackup, ensurePostUpgradeBackup, Retry,
           Convert, RetryDue, CreateUpgrade
  <1>4. /\ upgrade'.stage \in {"Converting", "Finalizing", "Completed"} =>
              upgrade.stage \in {"Converting", "Finalizing", "Completed"} \/ FreshBackupReady
        /\ upgrade'.stage = "Completed" => upgrade.stage = "Completed" \/ PostUpgradeBackupReady
    BY Zenon DEF BInv, Types, UpgradeStatuses, ensureFreshUpgradeBackup, ensurePostUpgradeBackup, Retry,
           Convert, RetryDue, CreateUpgrade
  <1>5. \A op \in Ops : Taken(op)' <=> Taken(op)
    BY DEF Taken
  <1>6. GatesAreReal'
    BY <1>3, <1>4, <1>5, OpsAreOps
       DEF BInv, GatesAreReal, UpgradeNeedsFreshBackup, CompletionHasBackup, FreshBackupReady,
           PostUpgradeBackupReady
  <1>. QED
    BY <1>1, <1>2, <1>6, IssuedStays DEF BInv, Types

\* The directive is created before the status names it, and a snapshot names
\* only what the status named.
LEMMA ScheduleBInv ==
    ASSUME BInv, done' = done, BeginReconcile \/ FinishReconcile \/ Tick
    PROVE  BInv'
  <1>0. UNCHANGED upgrade
    BY DEF BeginReconcile, FinishReconcile, Tick
  <1>1. CASE Tick
    <2>1. Types'
      BY <1>1, BoundsAssumption DEF Tick, BInv, Types
    <2>. QED
      BY <1>0, <1>1, <2>1, GatesStay, IssuedStays DEF Tick, BInv, dvars
  <1>2. CASE BeginReconcile
    <2>1. Types'
      BY <1>2, Zenon DEF BeginReconcile, BInv, Types
    <2>2. IssuedIsKept'
      BY <1>2 DEF BeginReconcile, BInv, IssuedIsKept, IssuedBeforeRecorded, dvars
    <2>. QED
      BY <1>0, <2>1, <2>2, GatesStay, Zenon DEF BInv
  <1>3. CASE FinishReconcile
    <2>1. PICK i \in snapshot.read :
            /\ snapshot' = NoSnapshot
            /\ IF snapshot.canRun /\ i.next <= clock
               THEN LET updated == reconcileBackupSchedules(i) IN
                    /\ directive' = directive \cup {Scheduled(updated.last)}
                    /\ instance' = updated \/ UNCHANGED instance
               ELSE /\ instance' = i
                    /\ UNCHANGED directive
            /\ UNCHANGED clock
      BY <1>3 DEF FinishReconcile
    <2>2. i \in InstanceStatuses
      BY DEF BInv, Types
    <2>3. reconcileBackupSchedules(i) \in InstanceStatuses /\ reconcileBackupSchedules(i).last = clock
      <3>1. clock \in Times /\ clock + 1 \in Times
        BY BoundsAssumption DEF BInv, Types, Times
      <3>. QED
        BY <2>2, <3>1, Zenon DEF InstanceStatuses, reconcileBackupSchedules
    <2>4. Types'
      BY <1>0, <2>1, <2>2, <2>3 DEF BInv, Types, NoSnapshot
    <2>5. IssuedIsKept'
      BY <2>1, <2>3 DEF BInv, IssuedIsKept, IssuedBeforeRecorded, NoSnapshot
    <2>. QED
      BY <1>0, <2>4, <2>5, GatesStay, Zenon DEF BInv
  <1>. QED
    BY <1>1, <1>2, <1>3

LEMMA NextBInv == IInv /\ BInv /\ [Next]_vars => BInv'
  <1>. SUFFICES ASSUME IInv, BInv, [Next]_vars PROVE BInv'
    OBVIOUS
  <1>1. done \subseteq done'
    BY StepUsesDirectives, DoneGrows DEF BInv
  <1>2. CASE ensureFreshUpgradeBackup \/ ensurePostUpgradeBackup \/ Convert \/ RetryDue \/ CreateUpgrade
    <2>1. done' = done /\ UNCHANGED <<clock, instance, snapshot>>
      BY <1>2 DEF ensureFreshUpgradeBackup, ensurePostUpgradeBackup, Convert, RetryDue, CreateUpgrade,
                  Untouched, dvars, pipeline
    <2>. QED
      BY <1>2, <2>1, UpgradeBInv
  <1>3. CASE BeginReconcile \/ FinishReconcile \/ Tick
    <2>1. done' = done
      BY <1>3 DEF BeginReconcile, FinishReconcile, Tick, Untouched, dvars, pipeline
    <2>. QED
      BY <1>3, <2>1, ScheduleBInv, Zenon
  <1>4. CASE \E x \in Tasks \X Outcomes : recordBackupResult(x)
    BY <1>4, RecordBInv
  <1>5. CASE UNCHANGED <<directive, clock, instance, snapshot, upgrade>>
    BY <1>1, <1>5, GatesStay, IssuedStays, Zenon DEF BInv, Types
  <1>6. CASE (\E s \in Sites : MoveSource(s) \/ ((Connect(s) \/ BreakStream(s)) /\ UNCHANGED bhub))
              \/ (\E t \in Tasks : sendDirectives(t) \/ Pipeline(t) \/ RunBackupJob(t))
              \/ (\E x \in Tasks \X Outcomes : LateWriteLands(x) /\ UNCHANGED bhub)
              \/ UNCHANGED vars
    BY <1>5, <1>6 DEF MoveSource, sendDirectives, Pipeline, RunBackupJob, bhub, vars, dvars
  <1>. QED
    BY <1>2, <1>3, <1>4, <1>6 DEF Next, Progress

LEMMA Inductive == Spec => [](IInv /\ BInv)
  <1>1. Init => IInv /\ BInv
    BY InitIInv, BInit DEF Init
  <1>2. IInv /\ BInv /\ [Next]_vars => (IInv /\ BInv)'
    <2>. SUFFICES ASSUME IInv, BInv, [Next]_vars PROVE IInv' /\ BInv'
      OBVIOUS
    <2>1. IInv'
      BY StepUsesDirectives, NextIInv DEF BInv
    <2>. QED
      BY <2>1, NextBInv
  <1>. QED
    BY <1>1, <1>2, PTL DEF Spec

\* No major upgrade converts before a backup of its own was taken, however
\* results are lost, replayed or late (ensureFreshUpgradeBackup,
\* recordUpgradeBackupResult).
THEOREM FreshTheorem == Spec => []UpgradeNeedsFreshBackup
  <1>1. BInv => UpgradeNeedsFreshBackup
    BY DEF BInv, GatesAreReal
  <1>. QED
    BY <1>1, Inductive, PTL

\* No major upgrade completes before a backup was taken after the conversion was
\* asked for, in whichever attempt (ensurePostUpgradeBackup).
THEOREM CompletionTheorem == Spec => []CompletionHasBackup
  <1>1. BInv => CompletionHasBackup
    BY DEF BInv, GatesAreReal
  <1>. QED
    BY <1>1, Inductive, PTL

\* The status never names an occurrence without its directive, although a
\* reconcile writes back the whole schedule it read before
\* (reconcileBackupSchedules, mergeReconciledStatus).
THEOREM IssuedTheorem == Spec => []IssuedBeforeRecorded
  <1>1. BInv => IssuedBeforeRecorded
    BY DEF BInv, IssuedIsKept
  <1>. QED
    BY <1>1, Inductive, PTL
=============================================================================
