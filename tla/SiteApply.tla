------------------------------ MODULE SiteApply ------------------------------
(***************************************************************************)
(* What the agent does with the plans of one instance at one site.         *)
(*                                                                         *)
(* Three goroutines apply plans: the stream's worker, which stores a plan  *)
(* in the cache and then applies it again and again; the periodic pass,    *)
(* which lists the cache every two minutes while the stream is up; and the *)
(* pass the control loop makes over the cache, disconnected, before every  *)
(* dial.  Each pass runs under the instance's lock and goes through the    *)
(* namespace, the LoadBalancer Services, the certificates and the          *)
(* workloads; every object it writes is labelled with the plan's revision, *)
(* and a pass that gets to its end deletes the objects that carry another. *)
(*                                                                         *)
(* Plans reach the agent in the order PlanDelivery describes; here a plan  *)
(* is its revision, and issued[r] what it asks for.                        *)
(***************************************************************************)
EXTENDS Naturals, Sequences

CONSTANTS
    MaxReplicas,  \* bound: members of the site, numbered by their ordinal
    MaxRevision,  \* bound: plans the hub issues
    MaxBreaks,    \* bound: how often a stream breaks
    MaxDrifts,    \* bound: objects somebody else deletes
    MaxFailures   \* bound: stages that fail or find their objects not ready

ASSUME SiteApplyAssumption ==
    /\ MaxReplicas \in Nat \ {0}
    /\ MaxRevision \in Nat /\ MaxBreaks \in Nat
    /\ MaxDrifts \in Nat /\ MaxFailures \in Nat

VARIABLES
    issued,     \* the hub's plans: issued[r] has revision r
    link,       \* the control loop: backoff, reconciling, dialing, online
    received,   \* the newest revision delivered on this stream
    cache,      \* the revision in the plan cache
    lock,       \* who holds the instance's lock
    pass,       \* the three goroutines' calls of Reconciler.Apply
    namespace,  \* the site's namespace: absent, active, terminating
    objects,    \* the revision label of each managed object (0: no object)
    secrets,    \* the members whose certificate Secrets were issued
    drifts,     \* deletions by somebody else: all, and those before the lock was last taken
    breaks, failures

applyVars == <<issued, link, received, cache, lock, pass, namespace, objects, secrets, breaks, drifts, failures>>

siteVars == <<namespace, objects, secrets>>

Members == 1..MaxReplicas
Kinds == {"services", "certificates", "workloads"}
Runners == {"worker", "periodic", "offline"}
Stages == {"namespace", "services", "certificates", "workloads", "prune", "delete"}
PassResults == {"", "Failed", "WaitingForHub", "Deleting", "Deleted", "Ready"}

Plans == [replicas : Members, deletion : {"None"}]
           \cup [replicas : {1}, deletion : {"Retain", "Delete"}]

NoObjects == [k \in Kinds |-> [m \in Members |-> 0]]

NoPass == [pc |-> "idle", rev |-> 0, result |-> ""]

connected(r) == r # "offline"

ApplyInit ==
    /\ issued = << >>
    /\ link = "backoff"
    /\ received = 0
    /\ cache = 0
    /\ lock = "none"
    /\ pass = [r \in Runners |-> NoPass]
    /\ namespace = "absent"
    /\ objects = NoObjects
    /\ secrets = {}
    /\ breaks = 0
    /\ drifts = [all |-> 0, before |-> 0]
    /\ failures = 0

-----------------------------------------------------------------------------
(* The hub, and what else happens to the site.                             *)

\* The hub signs another plan; a deletion plan is its last.
IssuePlan ==
    /\ Len(issued) < MaxRevision
    /\ \A r \in DOMAIN issued : issued[r].deletion = "None"
    /\ \E p \in Plans : issued' = Append(issued, p)
    /\ UNCHANGED <<link, received, cache, lock, pass, siteVars, breaks, drifts, failures>>

\* Somebody deletes a managed object.
Drift ==
    /\ drifts.all < MaxDrifts
    /\ drifts' = [drifts EXCEPT !.all = @ + 1]
    /\ \E k \in Kinds, m \in Members :
         /\ objects[k][m] # 0
         /\ objects' = [objects EXCEPT ![k][m] = 0]
    /\ UNCHANGED <<issued, link, received, cache, lock, pass, namespace, secrets, breaks, failures>>

\* cert-manager issues a member's certificate into its Secret.
CertificateIssued ==
    /\ \E m \in Members \ secrets :
         /\ objects["certificates"][m] # 0
         /\ secrets' = secrets \cup {m}
    /\ UNCHANGED <<issued, link, received, cache, lock, pass, namespace, objects, breaks, drifts, failures>>

\* Kubernetes finishes removing a deleted namespace and all it holds.
NamespaceGone ==
    /\ namespace = "terminating"
    /\ namespace' = "absent"
    /\ objects' = NoObjects
    /\ secrets' = {}
    /\ UNCHANGED <<issued, link, received, cache, lock, pass, breaks, drifts, failures>>

-----------------------------------------------------------------------------
(* The control loop and the goroutines it starts.                          *)

\* reconcileCached before a dial: list the cache, apply what it holds.
reconcileCached ==
    /\ link = "backoff"
    /\ IF cache = 0
       THEN /\ link' = "dialing"
            /\ UNCHANGED pass
       ELSE /\ link' = "reconciling"
            /\ pass' = [pass EXCEPT !["offline"] = [pc |-> "lock", rev |-> cache, result |-> ""]]
    /\ UNCHANGED <<issued, received, cache, lock, siteVars, breaks, drifts, failures>>

Dial ==
    /\ link = "dialing"
    /\ link' = "online"
    /\ received' = 0
    /\ UNCHANGED <<issued, cache, lock, pass, siteVars, breaks, drifts, failures>>

DialFails ==
    /\ link = "dialing"
    /\ link' = "backoff"
    /\ UNCHANGED <<issued, received, cache, lock, pass, siteVars, breaks, drifts, failures>>

\* The stream ends and the connection's context with it: a call that waits
\* for the lock or is under way makes no further change to the site.
StreamBreaks ==
    /\ link = "online"
    /\ breaks < MaxBreaks
    /\ breaks' = breaks + 1
    /\ link' = "backoff"
    /\ pass' = [pass EXCEPT !["worker"] = NoPass, !["periodic"] = NoPass]
    /\ lock' = "none"
    /\ UNCHANGED <<issued, received, cache, siteVars, drifts, failures>>

\* The agent's process ends, and another starts with nothing in memory.
AgentRestarts ==
    /\ link # "online"
    /\ breaks < MaxBreaks
    /\ breaks' = breaks + 1
    /\ link' = "backoff"
    /\ pass' = [r \in Runners |-> NoPass]
    /\ lock' = "none"
    /\ UNCHANGED <<issued, received, cache, siteVars, drifts, failures>>

\* Mutant of applyPlan: the plan is applied without being stored first.
ApplyWithoutStore ==
    /\ link = "online"
    /\ \E r \in DOMAIN issued :
         /\ r > received
         /\ r >= cache
         /\ received' = r
         /\ pass' = [pass EXCEPT !["worker"] = [pc |-> "lock", rev |-> r, result |-> ""]]
    /\ lock' = IF lock = "worker" THEN "none" ELSE lock
    /\ UNCHANGED <<issued, link, cache, siteVars, breaks, drifts, failures>>

\* A plan arrives: the worker of an older one is cancelled, the plan stored,
\* and the new worker calls Apply.
applyPlan ==
    /\ link = "online"
    /\ \E r \in DOMAIN issued :
         /\ r > received
         /\ r >= cache
         /\ received' = r
         /\ cache' = r
         /\ pass' = [pass EXCEPT !["worker"] = [pc |-> "lock", rev |-> r, result |-> ""]]
    /\ lock' = IF lock = "worker" THEN "none" ELSE lock
    /\ UNCHANGED <<issued, link, siteVars, breaks, drifts, failures>>

\* The worker's loop: Apply again, after a delay, until the instance is gone.
applyAgain ==
    /\ pass["worker"].pc = "idle"
    /\ pass["worker"].rev > 0
    /\ pass["worker"].result # "Deleted"
    /\ pass' = [pass EXCEPT !["worker"].pc = "lock", !["worker"].result = ""]
    /\ UNCHANGED <<issued, link, received, cache, lock, siteVars, breaks, drifts, failures>>

\* Mutant of reconcilePeriodically: the cache is listed once per stream.
ListOnce ==
    /\ link = "online"
    /\ cache > 0
    /\ pass["periodic"].pc = "idle"
    /\ pass' = [pass EXCEPT !["periodic"] =
                   [pc |-> "lock", rev |-> IF @.rev = 0 THEN cache ELSE @.rev, result |-> ""]]
    /\ UNCHANGED <<issued, link, received, cache, lock, siteVars, breaks, drifts, failures>>

\* reconcilePeriodically: list the cache now, apply what it held when the
\* lock, and the passes over other instances, allow.
reconcilePeriodically ==
    /\ link = "online"
    /\ cache > 0
    /\ pass["periodic"].pc = "idle"
    /\ pass' = [pass EXCEPT !["periodic"] = [pc |-> "lock", rev |-> cache, result |-> ""]]
    /\ UNCHANGED <<issued, link, received, cache, lock, siteVars, breaks, drifts, failures>>

\* The list holds an instance's plan once for each of its ConfigMaps, and a
\* directive's is one of them: the next entry is applied, which was loaded after
\* this one and may be as old.
applyListed ==
    /\ link = "online"
    /\ pass["periodic"].pc = "idle"
    /\ pass["periodic"].rev > 0
    /\ \E r \in pass["periodic"].rev..cache :
         pass' = [pass EXCEPT !["periodic"] = [pc |-> "lock", rev |-> r, result |-> ""]]
    /\ UNCHANGED <<issued, link, received, cache, lock, siteVars, breaks, drifts, failures>>

-----------------------------------------------------------------------------
(* Reconciler.reconcile, run by r under the lock of the instance.          *)

Plan(r) == issued[pass[r].rev]

At(r, stage) == lock = r /\ pass[r].pc = stage

Goto(r, stage) ==
    /\ pass' = [pass EXCEPT ![r].pc = stage]
    /\ UNCHANGED <<lock, link>>

\* The call returns and releases the lock; the control loop then dials.
Returns(r, result) ==
    /\ pass' = [pass EXCEPT ![r].pc = "idle", ![r].result = result]
    /\ lock' = "none"
    /\ link' = IF r = "offline" THEN "dialing" ELSE link

rest == <<issued, received, cache, breaks>>

\* The first n members' objects of a kind, applied with the plan's label.
Applied(k, n, rev) ==
    [objects EXCEPT ![k] = [m \in Members |-> IF m <= n THEN rev ELSE objects[k][m]]]

lockInstance(r) ==
    /\ pass[r].pc = "lock"
    /\ lock = "none"
    /\ lock' = r
    /\ pass' = [pass EXCEPT ![r].pc = IF Plan(r).deletion = "None" THEN "namespace" ELSE "delete"]
    /\ drifts' = [drifts EXCEPT !.before = drifts.all]
    /\ UNCHANGED <<link, siteVars, rest, failures>>

\* Mutant of EnsureNamespace: a disconnected agent creates it as well.
EnsureNamespaceAlways(r) ==
    /\ At(r, "namespace")
    /\ IF namespace # "terminating"
       THEN namespace' = "active" /\ Goto(r, "services")
       ELSE Returns(r, "Failed") /\ UNCHANGED namespace
    /\ UNCHANGED <<objects, secrets, rest, drifts, failures>>

\* Only a connected agent creates the namespace; nothing can be created in
\* one that terminates.
EnsureNamespace(r) ==
    /\ At(r, "namespace")
    /\ IF namespace = "active" \/ (namespace = "absent" /\ connected(r))
       THEN namespace' = "active" /\ Goto(r, "services")
       ELSE Returns(r, "Failed") /\ UNCHANGED namespace
    /\ UNCHANGED <<objects, secrets, rest, drifts, failures>>

Classify(previous, next) ==
    IF previous = 0 \/ issued[previous] # issued[next] THEN "Coordinated" ELSE "Safe"

\* Connected, every Service is applied; disconnected, each must exist.  The
\* coordinated-change gate compares the plan with previous, which is the
\* cached plan itself when the agent is disconnected.
reconcileLoadBalancers(r) ==
    /\ At(r, "services")
    /\ \/ /\ connected(r)
          /\ objects' = Applied("services", Plan(r).replicas, pass[r].rev)
          /\ Goto(r, "certificates")
       \/ /\ ~connected(r)
          /\ LET previous == pass[r].rev IN
             IF \E m \in 1..Plan(r).replicas : objects["services"][m] = 0
             THEN Returns(r, "Failed")
             ELSE IF Classify(previous, pass[r].rev) = "Coordinated"
             THEN Returns(r, "WaitingForHub")
             ELSE Goto(r, "certificates")
          /\ UNCHANGED objects
    /\ UNCHANGED <<namespace, secrets, rest, drifts, failures>>

\* Connected, the certificates are applied; disconnected, they are left
\* alone.  Either way every member's Secret must have been issued.
reconcileCertificates(r) ==
    /\ At(r, "certificates")
    /\ objects' = IF connected(r)
                  THEN Applied("certificates", Plan(r).replicas, pass[r].rev)
                  ELSE objects
    /\ IF 1..Plan(r).replicas \subseteq secrets
       THEN Goto(r, "workloads")
       ELSE Returns(r, "Failed")
    /\ UNCHANGED <<namespace, secrets, rest, drifts, failures>>

reconcileWorkloads(r) ==
    /\ At(r, "workloads")
    /\ objects' = Applied("workloads", Plan(r).replicas, pass[r].rev)
    /\ Goto(r, "prune")
    /\ UNCHANGED <<namespace, secrets, rest, drifts, failures>>

\* The managed objects whose label is not keepRevision.
Stale(keepRevision) ==
    {o \in Kinds \X Members : objects[o[1]][o[2]] \notin {0, keepRevision}}

Without(gone) ==
    [k \in Kinds |-> [m \in Members |-> IF <<k, m>> \in gone THEN 0 ELSE objects[k][m]]]

\* Mutant of pruneStaleObjects: certificates are not among the lists.
PruneKeepsCertificates(r) ==
    /\ At(r, "prune")
    /\ objects' = Without({o \in Stale(pass[r].rev) : o[1] # "certificates"})
    /\ Returns(r, "Ready")
    /\ UNCHANGED <<namespace, secrets, rest, drifts, failures>>

pruneStaleObjects(r) ==
    /\ At(r, "prune")
    /\ objects' = Without(Stale(pass[r].rev))
    /\ Returns(r, "Ready")
    /\ UNCHANGED <<namespace, secrets, rest, drifts, failures>>

\* Delete removes the namespace and waits for it to be gone; Retain removes
\* the managed objects and keeps the namespace and its volumes.
deleteInstance(r) ==
    /\ At(r, "delete")
    /\ \/ /\ ~connected(r)
          /\ Returns(r, "WaitingForHub")
          /\ UNCHANGED <<namespace, objects>>
       \/ /\ connected(r)
          /\ namespace = "absent"
          /\ Returns(r, "Deleted")
          /\ UNCHANGED <<namespace, objects>>
       \/ /\ connected(r)
          /\ namespace # "absent"
          /\ Plan(r).deletion = "Delete"
          /\ namespace' = "terminating"
          /\ Returns(r, "Deleting")
          /\ UNCHANGED objects
       \/ /\ connected(r)
          /\ namespace # "absent"
          /\ Plan(r).deletion = "Retain"
          /\ objects' = Without(Stale(0))
          /\ Returns(r, "Deleted")
          /\ UNCHANGED namespace
    /\ UNCHANGED <<secrets, rest, drifts, failures>>

\* A stage does not get to its end: an API call fails, or what was applied is
\* not ready yet.  Some of the stage's writes may have been made.
StageFails(r) ==
    /\ lock = r
    /\ pass[r].pc \in Stages
    /\ failures < MaxFailures
    /\ failures' = failures + 1
    /\ \/ UNCHANGED objects
       \/ /\ pass[r].pc \in Kinds
          /\ connected(r) \/ pass[r].pc = "workloads"
          /\ \E n \in 1..Plan(r).replicas : objects' = Applied(pass[r].pc, n, pass[r].rev)
       \/ /\ pass[r].pc = "prune"
          /\ \E gone \in SUBSET Stale(pass[r].rev) : objects' = Without(gone)
       \/ /\ pass[r].pc = "delete" /\ Plan(r).deletion = "Retain" /\ connected(r)
          /\ \E gone \in SUBSET Stale(0) : objects' = Without(gone)
    /\ Returns(r, "Failed")
    /\ UNCHANGED <<namespace, secrets, rest, drifts>>

-----------------------------------------------------------------------------
Reconcile(r) ==
    \/ lockInstance(r)
    \/ EnsureNamespace(r)
    \/ reconcileLoadBalancers(r)
    \/ reconcileCertificates(r)
    \/ reconcileWorkloads(r)
    \/ pruneStaleObjects(r)
    \/ deleteInstance(r)

ApplyNext ==
    \/ IssuePlan
    \/ Drift
    \/ CertificateIssued
    \/ NamespaceGone
    \/ reconcileCached
    \/ Dial
    \/ DialFails
    \/ StreamBreaks
    \/ AgentRestarts
    \/ applyPlan
    \/ applyAgain
    \/ reconcilePeriodically
    \/ applyListed
    \/ \E r \in Runners : Reconcile(r) \/ StageFails(r)

ApplySpec == ApplyInit /\ [][ApplyNext]_applyVars

\* The goroutines run, the agent redials for ever and is accepted sooner or
\* later, the hub delivers its newest plan, Kubernetes and cert-manager do
\* their part, Go's mutex does not starve the worker, and a list of the cache is
\* finite.  Nobody has to issue a plan, fail, or break a stream.
ApplyFairness ==
    /\ WF_applyVars(CertificateIssued)
    /\ WF_applyVars(NamespaceGone)
    /\ WF_applyVars(reconcileCached)
    /\ SF_applyVars(Dial)
    /\ WF_applyVars(applyPlan)
    /\ WF_applyVars(applyAgain)
    /\ SF_applyVars(reconcilePeriodically)
    /\ SF_applyVars(lockInstance("worker"))
    /\ \A r \in Runners : WF_applyVars(Reconcile(r))

ApplyFairSpec == ApplySpec /\ ApplyFairness

-----------------------------------------------------------------------------
ApplyTypeOK ==
    /\ issued \in Seq(Plans) /\ Len(issued) <= MaxRevision
    /\ link \in {"backoff", "reconciling", "dialing", "online"}
    /\ received \in 0..Len(issued)
    /\ cache \in 0..Len(issued)
    /\ lock \in Runners \cup {"none"}
    /\ pass \in [Runners -> [pc : Stages \cup {"idle", "lock"}, rev : 0..Len(issued),
                              result : PassResults]]
    /\ namespace \in {"absent", "active", "terminating"}
    /\ objects \in [Kinds -> [Members -> 0..Len(issued)]]
    /\ secrets \subseteq Members
    /\ breaks \in 0..MaxBreaks
    /\ drifts \in [all : 0..MaxDrifts, before : 0..MaxDrifts] /\ drifts.before <= drifts.all
    /\ failures \in 0..MaxFailures

\* The site is as a plan wants it: exactly the objects it renders, all with
\* its label, or nothing left of a deleted instance.
Matches(rev) ==
    IF rev = 0 THEN objects = NoObjects
    ELSE CASE issued[rev].deletion = "Delete" -> namespace = "absent"
           [] issued[rev].deletion = "Retain" -> objects = NoObjects
           [] OTHER ->
                \A k \in Kinds, m \in Members :
                  objects[k][m] = IF m <= issued[rev].replicas THEN rev ELSE 0

\* A connected pass that reports Ready ("All locally managed resources match
\* the signed plan") or Deleted leaves the site as its plan wants it, with no
\* object of any other plan, whatever the other goroutines, interrupted passes
\* and other programs have done before, and the goroutines meanwhile.  Only an
\* object that somebody deletes during the pass may be missing.
ReportedPassMatches ==
    [][\A r \in Runners :
         /\ drifts.all = drifts.before /\ connected(r) /\ lock = r
         /\ pass'[r].result \in {"Ready", "Deleted"}
         => Matches(pass[r].rev)']_applyVars

\* The cache is written before anything of a plan is: whatever is found at
\* the site after a crash stems from the cached plan or an older one.
CachedBeforeApplied ==
    \A k \in Kinds, m \in Members : objects[k][m] <= cache

\* Without its stream an agent creates no namespace and no LoadBalancer
\* Service, and starts no deletion.
DisconnectedCreatesNothing ==
    [][link # "online" =>
         /\ namespace = "absent" => namespace' = "absent"
         /\ namespace' = "terminating" => namespace = "terminating"
         /\ \A m \in Members :
              objects["services"][m] = 0 => objects'["services"][m] = 0]_applyVars

\* Left alone, the site ends up as the newest plan wants it and stays so,
\* whichever stale passes, lost streams and drift came before: a pass over
\* an older cache entry that undoes a newer plan, even a deletion, is itself
\* undone.
Settles == <>[](cache = Len(issued) /\ Matches(cache))

\* A step of the disconnected pass.
DisconnectedStep == lock = "offline" /\ pass' # pass

\* "Disconnected agents do not ... apply coordinated changes": a workload
\* written by the disconnected pass belongs to the plan its Service was last
\* reconciled for, or to one that differs from that only in safe ways.
DisconnectedRepairsOnly ==
    [][DisconnectedStep /\ objects'["workloads"] # objects["workloads"] =>
         objects["services"][1] = cache \/ Classify(objects["services"][1], cache) = "Safe"]_applyVars

\* "LoadBalancer address changes ... require hub connectivity": the
\* disconnected pass takes no LoadBalancer Service away.
DisconnectedKeepsServices ==
    [][DisconnectedStep =>
         \A m \in Members :
           objects["services"][m] # 0 => objects'["services"][m] # 0]_applyVars
=============================================================================
