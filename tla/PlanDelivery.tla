---------------------------- MODULE PlanDelivery ----------------------------
(***************************************************************************)
(* How one MultiSitePostgres instance's desired state reaches its sites.    *)
(*                                                                         *)
(* The hub's leader reconciles the instance: it derives a revision from    *)
(* the declared state, writes one signed plan ConfigMap per site, and only *)
(* then persists the revision in the instance's status.  A control server  *)
(* streams each site's ConfigMap to that site's agent.  The agent caches   *)
(* the plan, applies it, and reports an acknowledgement and a result which *)
(* the server records in the instance's status.  Streams break, reconciles *)
(* fail half way, and the two orders meet in the status the hub reports.   *)
(* What an Apply does to the site is the subject of SiteApply.             *)
(*                                                                         *)
(* Instances do not share any of this state (plans, the server's sent map, *)
(* the agent's workers, cache entries and locks are all keyed by instance  *)
(* UID), so the module follows a single one.                               *)
(***************************************************************************)
EXTENDS Naturals, Sequences, Functions

CONSTANTS
    N,           \* number of sites in spec.sites, numbered in that order
    DataSites,   \* the sites whose role is data; the others are witnesses
    Namesakes,   \* the sites named like the SiteRegistration they refer to
    Contents,    \* what planFingerprint tells apart: spec generation,
                 \* addresses and the lifecycle annotations
    NoContent,
    MaxChanges,  \* bound: how often the declared state changes
    MaxAborts,   \* bound: how many reconciles fail after their first write
    MaxBreaks,   \* bound: how many streams break with work in progress
    MaxQueue     \* bound: messages in flight towards the hub, per site

ASSUME NAssumption == N \in Nat \ {0}

ASSUME SitesAssumption == DataSites \subseteq 1..N /\ Namesakes \subseteq 1..N

ASSUME ContentsAssumption == NoContent \notin Contents

ASSUME BoundsAssumption ==
    MaxChanges \in Nat /\ MaxAborts \in Nat /\ MaxBreaks \in Nat /\ MaxQueue \in Nat

Sites == 1..N

VARIABLES
    \* Kubernetes objects of the hub
    declared,       \* the declared state of the instance
    active,         \* status.activeRevision
    fingerprint,    \* status.planFingerprint
    ready,          \* the content for which Ready=True was computed, if it is
    desired,        \* status.sites[].desiredRevision,
    acknowledged,   \*                acknowledgedRevision and
    applied,        \*                appliedRevision
    planConfigMap,  \* the signed plan stored for each site
    registration,   \* SiteRegistration status.phase
    \* hub processes
    rec,            \* the instance reconcile in flight
    sent,           \* the stream's last sent revision (0: none)
    \* the stream and the agent
    link,           \* the agent's control stream: offline or online
    down, up,       \* messages in flight, hub to agent and agent to hub
    cache,          \* the agent's plan cache ConfigMap
    worker,         \* the agent's applyPlan goroutine
    \* history and bounds
    completed,      \* the plans whose Apply has reported Ready at the site
    changes, aborts, breaks

statusVars == <<desired, acknowledged, applied>>
hubVars == <<declared, active, fingerprint, ready, statusVars, planConfigMap, rec, changes, aborts>>
agentVars == <<cache, worker, completed>>
linkVars == <<registration, sent, link, down, up, breaks>>
vars == <<hubVars, agentVars, linkVars>>

-----------------------------------------------------------------------------
Plan == [revision : Nat, content : Contents \cup {NoContent}, signed : Nat]

NoPlan == [revision |-> 0, content |-> NoContent, signed |-> 0]

Reports == [kind : {"Ack", "Nack", "Result"}, revision : Nat]

Idle == [pc |-> "idle", revision |-> 0, content |-> NoContent, next |-> 1, allApplied |-> FALSE]

NoWorker == [state |-> "none", plan |-> NoPlan, reported |-> FALSE]

Init ==
    /\ declared \in Contents
    /\ active = 0
    /\ fingerprint = NoContent
    /\ ready = NoContent
    /\ desired = [s \in Sites |-> 0]
    /\ acknowledged = [s \in Sites |-> 0]
    /\ applied = [s \in Sites |-> 0]
    /\ planConfigMap = [s \in Sites |-> NoPlan]
    /\ registration = [s \in Sites |-> "Disconnected"]
    /\ rec = Idle
    /\ sent = [s \in Sites |-> 0]
    /\ link = [s \in Sites |-> "offline"]
    /\ down = [s \in Sites |-> << >>]
    /\ up = [s \in Sites |-> << >>]
    /\ cache = [s \in Sites |-> NoPlan]
    /\ worker = [s \in Sites |-> NoWorker]
    /\ completed = [s \in Sites |-> {}]
    /\ changes = 0
    /\ aborts = 0
    /\ breaks = 0

-----------------------------------------------------------------------------
(* The hub's leader: MultiSitePostgresReconciler.Reconcile.                *)

\* A user edits the spec, or a lifecycle controller sets or clears an
\* annotation that planFingerprint covers.
ChangeDeclared ==
    /\ changes < MaxChanges
    /\ declared' \in Contents \ {declared}
    /\ changes' = changes + 1
    /\ UNCHANGED <<active, fingerprint, ready, statusVars, planConfigMap, rec, aborts,
                   agentVars, linkVars>>

DataSitesConnected == \A s \in DataSites : registration[s] = "Connected"

\* Mutant of NextRevision: the first revision is never left.
FirstRevisionOnly == IF active = 0 THEN 1 ELSE active

\* Mutant of NextRevision: counted from the stored plan, not from the status.
RevisionFromPlan == IF fingerprint # declared THEN planConfigMap[1].revision + 1 ELSE active

\* The revision a reconcile works on: a new one when the fingerprint moved.
NextRevision == IF fingerprint # declared THEN active + 1 ELSE active

allSitesApplied(revision) == \A s \in Sites : applied[s] = revision

\* Mutant of ReconcileStart: the loop over the sites starts one too low.
StartBelowFirstSite ==
    /\ rec.pc = "idle"
    /\ DataSitesConnected
    /\ rec' = [pc |-> "write", revision |-> NextRevision, content |-> declared, next |-> 0,
               allApplied |-> allSitesApplied(NextRevision)]
    /\ UNCHANGED <<declared, active, fingerprint, ready, statusVars, planConfigMap, changes, aborts,
                   agentVars, linkVars>>

\* Get the instance, decide the revision and take the status snapshot from
\* which Ready will be decided.
ReconcileStart ==
    /\ rec.pc = "idle"
    /\ DataSitesConnected
    /\ rec' = [pc         |-> "write",
               revision   |-> NextRevision,
               content    |-> declared,
               next       |-> 1,
               allApplied |-> allSitesApplied(NextRevision)]
    /\ UNCHANGED <<declared, active, fingerprint, ready, statusVars, planConfigMap, changes, aborts,
                   agentVars, linkVars>>

\* A disconnected data site, or another early return: a missing registration,
\* a refused policy, a conflicting claim, an invalid restore or upgrade
\* contract, a missing capability.  No plan is issued, Ready becomes False.
ReconcileBlocked ==
    /\ rec.pc = "idle"
    /\ ready' = NoContent
    /\ UNCHANGED <<declared, active, fingerprint, statusVars, planConfigMap, rec, changes, aborts,
                   agentVars, linkVars>>

planEnvelopeEqual(current, revision, content) ==
    current.revision = revision /\ current.content = content

\* reconcilePlan for the next site of spec.sites.  An equal plan is left
\* alone; a different one is signed afresh (GeneratedAt is signed too).
reconcilePlan ==
    /\ rec.pc = "write"
    /\ rec.next \in Sites
    /\ LET s == rec.next IN
         planConfigMap' =
           IF planEnvelopeEqual(planConfigMap[s], rec.revision, rec.content)
           THEN planConfigMap
           ELSE [planConfigMap EXCEPT ![s] = [revision |-> rec.revision,
                                              content  |-> rec.content,
                                              signed   |-> planConfigMap[s].signed + 1]]
    /\ rec' = [rec EXCEPT !.next = rec.next + 1]
    /\ UNCHANGED <<declared, active, fingerprint, ready, statusVars, changes, aborts,
                   agentVars, linkVars>>

\* updateInstanceStatus: re-read the instance and merge what this reconcile
\* owns into it; acknowledged and applied revisions belong to the server.
\* With all sites applied, Ready still depends on the topology they observe
\* and on the operation in progress.
updateInstanceStatus ==
    /\ rec.pc = "write"
    /\ rec.next = N + 1
    /\ active' = IF rec.revision > active THEN rec.revision ELSE active
    /\ fingerprint' = rec.content
    /\ desired' = [s \in Sites |-> rec.revision]
    /\ ready' \in {NoContent} \cup {c \in {rec.content} : rec.allApplied}
    /\ rec' = Idle
    /\ UNCHANGED <<declared, acknowledged, applied, planConfigMap, changes, aborts,
                   agentVars, linkVars>>

\* The process dies, loses its lease, or one of the API calls between the
\* first plan write and the status update fails: the request is requeued and
\* nothing of this reconcile but the written ConfigMaps remains.
ReconcileAbort ==
    /\ rec.pc = "write"
    /\ aborts < MaxAborts
    /\ rec' = Idle
    /\ aborts' = aborts + 1
    /\ UNCHANGED <<declared, active, fingerprint, ready, statusVars, planConfigMap, changes,
                   agentVars, linkVars>>

-----------------------------------------------------------------------------
(* The control server: one stream per site.                                *)

\* sendPlans: one look at the site's ConfigMap.
sendPlans(s) ==
    /\ link[s] = "online"
    /\ sent[s] < planConfigMap[s].revision
    /\ down' = [down EXCEPT ![s] = Append(@, planConfigMap[s])]
    /\ sent' = [sent EXCEPT ![s] = planConfigMap[s].revision]
    /\ UNCHANGED <<hubVars, agentVars, registration, link, up, breaks>>

\* The server looks in status.sites for the name of the stream's registration;
\* the entries carry the names of spec.sites, and exist once a reconcile has
\* persisted them.
StatusFound(s) == desired[s] > 0 /\ s \in Namesakes

\* Mutant of recordAcknowledgement: an accepted plan counts as applied.
AcceptedIsApplied(s) ==
    /\ up[s] # << >>
    /\ StatusFound(s)
    /\ Head(up[s]).kind \in {"Ack", "Nack"}
    /\ IF Head(up[s]).kind = "Ack" /\ Head(up[s]).revision = desired[s]
       THEN /\ acknowledged' = [acknowledged EXCEPT ![s] = Head(up[s]).revision]
            /\ applied' = [applied EXCEPT ![s] = Head(up[s]).revision]
       ELSE UNCHANGED <<acknowledged, applied>>
    /\ up' = [up EXCEPT ![s] = Tail(@)]
    /\ UNCHANGED <<declared, active, fingerprint, ready, desired, planConfigMap, rec,
                   changes, aborts, agentVars, registration, sent, link, down, breaks>>

\* recordAcknowledgement: only for the revision the status asks for, and a
\* rejection changes no revision.
recordAcknowledgement(s) ==
    /\ up[s] # << >>
    /\ StatusFound(s)
    /\ Head(up[s]).kind \in {"Ack", "Nack"}
    /\ acknowledged' = IF Head(up[s]).kind = "Ack" /\ Head(up[s]).revision = desired[s]
                       THEN [acknowledged EXCEPT ![s] = Head(up[s]).revision]
                       ELSE acknowledged
    /\ up' = [up EXCEPT ![s] = Tail(@)]
    /\ UNCHANGED <<declared, active, fingerprint, ready, desired, applied, planConfigMap, rec,
                   changes, aborts, agentVars, registration, sent, link, down, breaks>>

\* recordResult: a result for any other revision is dropped without a trace.
recordResult(s) ==
    /\ up[s] # << >>
    /\ StatusFound(s)
    /\ Head(up[s]).kind = "Result"
    /\ applied' = IF Head(up[s]).revision = desired[s]
                  THEN [applied EXCEPT ![s] = Head(up[s]).revision]
                  ELSE applied
    /\ up' = [up EXCEPT ![s] = Tail(@)]
    /\ UNCHANGED <<declared, active, fingerprint, ready, desired, acknowledged, planConfigMap, rec,
                   changes, aborts, agentVars, registration, sent, link, down, breaks>>

\* updateInstanceSite finds no status for the site: NotFound ends the stream
\* and all that was under way on it.
updateInstanceSite(s) ==
    /\ up[s] # << >>
    /\ ~StatusFound(s)
    /\ link' = [link EXCEPT ![s] = "offline"]
    /\ down' = [down EXCEPT ![s] = << >>]
    /\ up' = [up EXCEPT ![s] = << >>]
    /\ worker' = [worker EXCEPT ![s] = NoWorker]
    /\ UNCHANGED <<hubVars, cache, completed, registration, sent, breaks>>

\* refreshRegistrationHealth: the heartbeat of an absent agent times out.
HeartbeatTimeout(s) ==
    /\ link[s] # "online"
    /\ registration[s] = "Connected"
    /\ registration' = [registration EXCEPT ![s] = "Disconnected"]
    /\ UNCHANGED <<hubVars, agentVars, sent, link, down, up, breaks>>

-----------------------------------------------------------------------------
(* The agent's control loop and its stream.                                *)

\* Mutant of Connect: what was sent on the last stream is not sent again.
ConnectKeepsSent(s) ==
    /\ link[s] = "offline"
    /\ link' = [link EXCEPT ![s] = "online"]
    /\ registration' = [registration EXCEPT ![s] = "Connected"]
    /\ UNCHANGED <<hubVars, agentVars, sent, down, up, breaks>>

\* Connect and bindSite: a fresh stream with nothing sent on it.
Connect(s) ==
    /\ link[s] = "offline"
    /\ link' = [link EXCEPT ![s] = "online"]
    /\ registration' = [registration EXCEPT ![s] = "Connected"]
    /\ sent' = [sent EXCEPT ![s] = 0]
    /\ UNCHANGED <<hubVars, agentVars, down, up, breaks>>

\* Nothing is under way on the site's stream: what an identity rotation, a
\* day after the last, normally finds.
Settled(s) ==
    /\ sent[s] >= planConfigMap[s].revision
    /\ down[s] = << >>
    /\ up[s] = << >>
    /\ worker[s].state = "none" \/ worker[s].reported

\* The stream ends: network, either process restarting, or any handler of
\* either side returning an error.  The agent cancels its workers; what the
\* server had already received of this stream may still be recorded.
StreamBreaks(s) ==
    /\ link[s] = "online"
    /\ Settled(s) \/ breaks < MaxBreaks
    /\ breaks' = IF Settled(s) THEN breaks ELSE breaks + 1
    /\ link' = [link EXCEPT ![s] = "offline"]
    /\ down' = [down EXCEPT ![s] = << >>]
    /\ up' \in {up, [up EXCEPT ![s] = << >>]}
    /\ worker' = [worker EXCEPT ![s] = NoWorker]
    /\ UNCHANGED <<hubVars, cache, completed, registration, sent>>

\* Run receives a plan: a worker at least as new wins, an older one is
\* cancelled and replaced.
ReceivePlan(s) ==
    /\ link[s] = "online"
    /\ down[s] # << >>
    /\ down' = [down EXCEPT ![s] = Tail(@)]
    /\ worker' = IF worker[s].plan.revision >= Head(down[s]).revision
                 THEN worker
                 ELSE [worker EXCEPT ![s] = [state    |-> "store",
                                             plan     |-> Head(down[s]),
                                             reported |-> FALSE]]
    /\ UNCHANGED <<hubVars, cache, completed, registration, sent, link, up, breaks>>

\* Mutant of Acceptable: every signed plan is stored.
AcceptEverything(s, plan) == plan.revision > 0 /\ cache[s].revision >= 0

\* Cache.Store: Verify refuses an older revision, and the same revision is
\* accepted only when it is the same signed plan.
Acceptable(s, plan) ==
    /\ plan.revision >= cache[s].revision
    /\ plan.revision = cache[s].revision => plan = cache[s]

\* applyPlan up to its acknowledgement.
StorePlan(s) ==
    /\ worker[s].state = "store"
    /\ Len(up[s]) < MaxQueue
    /\ Acceptable(s, worker[s].plan)
    /\ cache' = [cache EXCEPT ![s] = worker[s].plan]
    /\ worker' = [worker EXCEPT ![s].state = "apply"]
    /\ up' = [up EXCEPT ![s] = Append(@, [kind |-> "Ack", revision |-> worker[s].plan.revision])]
    /\ UNCHANGED <<hubVars, completed, registration, sent, link, down, breaks>>

\* reject: the plan is refused, or a transient API error kept it from being
\* stored.  Either way the worker is gone and nothing retries on this stream.
RejectPlan(s) ==
    /\ worker[s].state = "store"
    /\ Len(up[s]) < MaxQueue
    /\ worker' = [worker EXCEPT ![s] = NoWorker]
    /\ up' = [up EXCEPT ![s] = Append(@, [kind |-> "Nack", revision |-> worker[s].plan.revision])]
    /\ UNCHANGED <<hubVars, cache, completed, registration, sent, link, down, breaks>>

\* A pass that reaches Ready.  The first one sends the plan's only Result;
\* later ones, every 30 seconds, only repair drift.
ApplyReady(s) ==
    /\ worker[s].state = "apply"
    /\ completed' = [completed EXCEPT ![s] =
                       @ \cup {[revision |-> worker[s].plan.revision,
                                content  |-> worker[s].plan.content]}]
    /\ \/ /\ worker[s].reported
          /\ UNCHANGED <<worker, up>>
       \/ /\ ~worker[s].reported
          /\ Len(up[s]) < MaxQueue
          /\ worker' = [worker EXCEPT ![s].reported = TRUE]
          /\ up' = [up EXCEPT ![s] =
                      Append(@, [kind |-> "Result", revision |-> worker[s].plan.revision])]
    /\ UNCHANGED <<hubVars, cache, registration, sent, link, down, breaks>>

-----------------------------------------------------------------------------
HubNext ==
    \/ ChangeDeclared
    \/ ReconcileStart
    \/ ReconcileBlocked
    \/ reconcilePlan
    \/ updateInstanceStatus
    \/ ReconcileAbort

ServerNext(s) ==
    \/ sendPlans(s)
    \/ recordAcknowledgement(s)
    \/ recordResult(s)
    \/ updateInstanceSite(s)
    \/ HeartbeatTimeout(s)

AgentNext(s) ==
    \/ Connect(s)
    \/ StreamBreaks(s)
    \/ ReceivePlan(s)
    \/ StorePlan(s)
    \/ RejectPlan(s)
    \/ ApplyReady(s)

Next == HubNext \/ \E s \in Sites : ServerNext(s) \/ AgentNext(s)

Spec == Init /\ [][Next]_vars

\* Fairness the code's scheduling gives.  The reconciler is triggered again
\* by every heartbeat of a registered site and requeued after an error; the
\* server polls every five seconds; a stream's goroutines run until it ends;
\* the agent redials for ever.  Storing and applying a plan are retried by the
\* next stream or the next pass, and are assumed to succeed in the end, as is
\* the topology assumed to be healthy at one reconcile after another.  Agent
\* certificates live 24 hours and renewing one rolls the agent's Deployment,
\* so even a stream at rest is replaced sooner or later.
Fairness ==
    /\ SF_vars(ReconcileStart)
    /\ WF_vars(reconcilePlan)
    /\ WF_vars(updateInstanceStatus)
    /\ SF_vars(updateInstanceStatus /\ ready' # NoContent)
    /\ \A s \in Sites :
         /\ WF_vars(sendPlans(s))
         /\ WF_vars(recordAcknowledgement(s))
         /\ WF_vars(recordResult(s))
         /\ WF_vars(updateInstanceSite(s))
         /\ WF_vars(Connect(s))
         /\ WF_vars(ReceivePlan(s))
         /\ SF_vars(StorePlan(s))
         /\ WF_vars(ApplyReady(s))
         /\ WF_vars(StreamBreaks(s) /\ Settled(s))

FairSpec == Spec /\ Fairness

-----------------------------------------------------------------------------
TypeOK ==
    /\ declared \in Contents
    /\ active \in Nat
    /\ fingerprint \in Contents \cup {NoContent}
    /\ ready \in Contents \cup {NoContent}
    /\ desired \in [Sites -> Nat]
    /\ acknowledged \in [Sites -> Nat]
    /\ applied \in [Sites -> Nat]
    /\ planConfigMap \in [Sites -> Plan]
    /\ registration \in [Sites -> {"Connected", "Disconnected"}]
    /\ rec \in [pc : {"idle", "write"}, revision : Nat, content : Contents \cup {NoContent},
                next : 1..(N + 1), allApplied : BOOLEAN]
    /\ sent \in [Sites -> Nat]
    /\ link \in [Sites -> {"offline", "online"}]
    /\ down \in [Sites -> Seq(Plan)]
    /\ up \in [Sites -> Seq(Reports)]
    /\ cache \in [Sites -> Plan]
    /\ worker \in [Sites -> [state : {"none", "store", "apply"}, plan : Plan, reported : BOOLEAN]]
    /\ completed \in [Sites -> SUBSET [revision : Nat, content : Contents \cup {NoContent}]]
    /\ changes \in Nat
    /\ aborts \in Nat
    /\ breaks \in Nat

\* Ready=True is what users wait for, and its message is "All sites applied
\* the active revision": every site has finished applying the plan that
\* carries the active revision and the content Ready was computed for, and,
\* unless a reconcile is under way, that is the plan it keeps in its cache.
ReadyIsHonest ==
    ready # NoContent =>
      \A s \in Sites :
        /\ [revision |-> active, content |-> ready] \in completed[s]
        /\ rec.pc = "idle" => cache[s].revision = active /\ cache[s].content = ready

\* As long as every reconcile that wrote a plan also persisted its status,
\* Ready is honest: whatever streams, workers and late reports do, one
\* revision number never stands for two contents.
HonestUntilAbort == aborts = 0 => ReadyIsHonest

\* No site ever holds a revision the hub could not supersede: what an agent
\* has been sent or has cached is at most one ahead of the persisted active
\* revision, however many reconciles were lost after writing their plans.  So
\* the second change after a lost reconcile is accepted everywhere.
HubCanSupersede ==
    \A s \in Sites :
      /\ planConfigMap[s].revision <= active + 1
      /\ cache[s].revision <= active + 1

\* The applied revision recorded for a site is one the site itself finished
\* applying and acknowledged into its cache: it is never ahead of the cache,
\* and no reconcile, late report or replaced stream invents one.
AppliedWasCompleted ==
    \A s \in Sites :
      /\ applied[s] > 0 => \E p \in completed[s] : p.revision = applied[s]
      /\ applied[s] <= cache[s].revision
      /\ acknowledged[s] <= cache[s].revision

\* "Plan caches accept only ... non-decreasing revisions", and a revision
\* once cached is never replaced by other contents under the same number.
CacheMonotone ==
    [][\A s \in Sites :
         /\ cache'[s].revision >= cache[s].revision
         /\ cache'[s].revision = cache[s].revision => cache'[s] = cache[s]]_vars

\* Once the declared state stops changing, and unless a reconcile was lost
\* half way, Ready comes back for exactly that state, and does so again after
\* every lost stream, dropped report and failed attempt to store the plan.
Converges == []<>(ready = declared \/ aborts > 0)

\* An instance created from docs/examples/multisite-postgres.yaml becomes
\* Ready, as the wait that docs/install.html tells the user to run expects.
BecomesReady == <>(ready # NoContent)

-----------------------------------------------------------------------------
(* The strengthenings under which the invariants above are inductive.      *)

\* Status asks every site for the active revision, and no plan anywhere is
\* more than one revision ahead of it.
RevisionInv ==
    /\ active = 0 => fingerprint = NoContent
    /\ rec.pc = "write" => rec.revision \in {active, active + 1} \ {0}
    /\ \A s \in Sites :
         /\ desired[s] = active
         /\ planConfigMap[s].revision <= active + 1
         /\ worker[s].plan.revision <= active + 1
         /\ cache[s].revision <= active + 1
         /\ \A p \in Range(down[s]) : p.revision <= active + 1

\* What a site reports, it has cached and finished.
ReportInv ==
    \A s \in Sites :
      /\ worker[s].state = "apply" => worker[s].plan = cache[s]
      /\ \A p \in completed[s] : p.revision <= cache[s].revision
      /\ \A m \in Range(up[s]) :
           /\ m.kind # "Nack" => m.revision <= cache[s].revision
           /\ m.kind = "Result" => \E p \in completed[s] : p.revision = m.revision

\* A plan that says what the hub's status, or the reconcile about to update
\* it, says its revision stands for.
Faithful(p) ==
    \/ p.revision < active
    \/ p.revision = active /\ p.content = fingerprint
    \/ /\ rec.pc = "write"
       /\ rec.revision = active + 1
       /\ p.revision = rec.revision
       /\ p.content = rec.content

\* While no reconcile was lost, all plans are faithful, and Ready, or a
\* reconcile about to set it, rests on every site's applied revision.
HonestInv ==
    aborts = 0 =>
      /\ rec.pc = "write" /\ rec.revision = active => rec.content = fingerprint
      /\ rec.pc = "write" /\ rec.allApplied => rec.revision = active /\ active > 0
      /\ (rec.pc = "write" /\ rec.allApplied) \/ ready # NoContent =>
           \A s \in Sites : applied[s] = active
      /\ ready # NoContent => ready = fingerprint
      /\ \A s \in Sites :
           /\ Faithful(planConfigMap[s])
           /\ Faithful(worker[s].plan)
           /\ Faithful(cache[s])
           /\ \A p \in Range(down[s]) : Faithful(p)
           /\ \A p \in completed[s] : Faithful(p)
=============================================================================
