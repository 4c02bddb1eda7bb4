-------------------------- MODULE PlanDeliveryProofs -------------------------
(* Proofs about PlanDelivery, for any number of sites, contents and bounds. *)
EXTENDS PlanDelivery, TLAPS

\* The initial state is well typed.
LEMMA InitTypeOK == Init => TypeOK
BY NAssumption, ContentsAssumption
   DEF Init, TypeOK, Plan, NoPlan, Reports, Idle, NoWorker, Sites

\* Between reconciles, the reconciler's record is well typed.
LEMMA IdleTypeOK ==
  Idle \in [pc : {"idle", "write"}, revision : Nat, content : Contents \cup {NoContent},
            next : 1..(N + 1), allApplied : BOOLEAN]
BY NAssumption DEF Idle

\* A site without an applyPlan goroutine is well typed.
LEMMA NoWorkerTypeOK ==
  /\ NoPlan \in Plan
  /\ NoWorker \in [state : {"none", "store", "apply"}, plan : Plan, reported : BOOLEAN]
BY DEF NoPlan, Plan, NoWorker

\* What is left of a channel after its head was taken, and a channel with one
\* more message, still hold messages.
LEMMA ChannelTypeOK ==
  ASSUME NEW S, NEW q \in Seq(S)
  PROVE  /\ q # << >> => Head(q) \in S /\ Tail(q) \in Seq(S)
         /\ \A m \in S : Append(q, m) \in Seq(S)
OBVIOUS

\* The messages of a channel: taking its head leaves some of the messages,
\* appending adds one.
LEMMA ChannelRange ==
  ASSUME NEW S, NEW q \in Seq(S)
  PROVE  /\ q # << >> => Head(q) \in Range(q) /\ Range(Tail(q)) \subseteq Range(q)
         /\ \A m \in S : Range(Append(q, m)) \subseteq Range(q) \cup {m}
         /\ Range(q) \subseteq S
BY DEF Range

\* A channel just reset by a broken stream holds no message.
LEMMA EmptyChannel == Range(<< >>) = {}
BY DEF Range

\* Every step of the instance reconciler keeps the types.
LEMMA HubTypeOK == TypeOK /\ HubNext => TypeOK'
<1> SUFFICES ASSUME TypeOK, HubNext PROVE TypeOK'
  OBVIOUS
<1> USE DEF TypeOK
<1>1. CASE ChangeDeclared
  BY <1>1 DEF ChangeDeclared, agentVars, linkVars, statusVars
<1>2. CASE ReconcileStart
  BY <1>2, NAssumption DEF ReconcileStart, NextRevision, allSitesApplied, agentVars, linkVars, statusVars
<1>3. CASE ReconcileBlocked
  BY <1>3 DEF ReconcileBlocked, agentVars, linkVars, statusVars
<1>4. CASE reconcilePlan
  <2>1. rec.next + 1 \in 1..(N + 1)
    BY <1>4, NAssumption DEF reconcilePlan, Sites
  <2>2. planConfigMap' \in [Sites -> Plan]
    <3> DEFINE new == [revision |-> rec.revision, content |-> rec.content,
                       signed |-> planConfigMap[rec.next].signed + 1]
    <3>1. new \in Plan
      BY <1>4 DEF reconcilePlan, Plan
    <3>2. planConfigMap' \in {planConfigMap, [planConfigMap EXCEPT ![rec.next] = new]}
      BY <1>4 DEF reconcilePlan
    <3> HIDE DEF new
    <3> QED BY <3>1, <3>2
  <2> QED BY <1>4, <2>1, <2>2 DEF reconcilePlan, agentVars, linkVars, statusVars
<1>5. CASE updateInstanceStatus
  <2>1. desired' \in [Sites -> Nat]
    BY <1>5 DEF updateInstanceStatus
  <2>2. active' \in Nat /\ fingerprint' \in Contents \cup {NoContent}
                      /\ ready' \in Contents \cup {NoContent}
    BY <1>5 DEF updateInstanceStatus
  <2> QED BY <1>5, <2>1, <2>2, IdleTypeOK DEF updateInstanceStatus, agentVars, linkVars, statusVars
<1>6. CASE ReconcileAbort
  BY <1>6, IdleTypeOK DEF ReconcileAbort, agentVars, linkVars, statusVars
<1> QED BY <1>1, <1>2, <1>3, <1>4, <1>5, <1>6 DEF HubNext

\* Every step of a site's stream, server side or agent, keeps the types.
LEMMA SiteTypeOK ==
  ASSUME TypeOK, NEW s \in Sites, ServerNext(s) \/ AgentNext(s)
  PROVE  TypeOK'
<1> USE DEF TypeOK
<1>1. CASE sendPlans(s)
  <2>1. planConfigMap[s] \in Plan /\ planConfigMap[s].revision \in Nat
    BY DEF Plan
  <2>2. down' \in [Sites -> Seq(Plan)]
    BY <1>1, <2>1, ChannelTypeOK DEF sendPlans
  <2> QED BY <1>1, <2>1, <2>2 DEF sendPlans, hubVars, statusVars, agentVars
<1>2. CASE recordAcknowledgement(s)
  <2>1. up' \in [Sites -> Seq(Reports)] /\ Head(up[s]).revision \in Nat
    <3>1. up[s] \in Seq(Reports) /\ up[s] # << >>
      BY <1>2 DEF recordAcknowledgement
    <3>2. Head(up[s]) \in Reports /\ Tail(up[s]) \in Seq(Reports)
      BY <3>1
    <3> QED BY <1>2, <3>2 DEF recordAcknowledgement, Reports
  <2>2. acknowledged' \in [Sites -> Nat]
    BY <1>2, <2>1 DEF recordAcknowledgement
  <2> QED BY <1>2, <2>1, <2>2 DEF recordAcknowledgement, agentVars
<1>3. CASE recordResult(s)
  <2>1. up' \in [Sites -> Seq(Reports)] /\ Head(up[s]).revision \in Nat
    <3>1. up[s] \in Seq(Reports) /\ up[s] # << >>
      BY <1>3 DEF recordResult
    <3>2. Head(up[s]) \in Reports /\ Tail(up[s]) \in Seq(Reports)
      BY <3>1
    <3> QED BY <1>3, <3>2 DEF recordResult, Reports
  <2>2. applied' \in [Sites -> Nat]
    BY <1>3, <2>1 DEF recordResult
  <2> QED BY <1>3, <2>1, <2>2 DEF recordResult, agentVars
<1>4. CASE HeartbeatTimeout(s)
  BY <1>4 DEF HeartbeatTimeout, hubVars, statusVars, agentVars
<1>5. CASE Connect(s)
  BY <1>5 DEF Connect, hubVars, statusVars, agentVars
<1>6. CASE StreamBreaks(s)
  <2>1. up' \in [Sites -> Seq(Reports)]
    <3>1. CASE up' = up
      BY <3>1
    <3>2. CASE up' = [up EXCEPT ![s] = << >>]
      BY <3>2
    <3> QED BY <1>6, <3>1, <3>2 DEF StreamBreaks
  <2>2. breaks' \in Nat /\ down' \in [Sites -> Seq(Plan)]
    BY <1>6 DEF StreamBreaks
  <2> QED BY <1>6, <2>1, <2>2, NoWorkerTypeOK DEF StreamBreaks, hubVars, statusVars
<1>7. CASE ReceivePlan(s)
  <2>1. down[s] \in Seq(Plan) /\ down[s] # << >>
    BY <1>7 DEF ReceivePlan
  <2>2. Head(down[s]) \in Plan /\ Tail(down[s]) \in Seq(Plan)
    BY <2>1
  <2> QED BY <1>7, <2>2 DEF ReceivePlan, hubVars, statusVars
<1>8. CASE StorePlan(s)
  <2>1. [kind |-> "Ack", revision |-> worker[s].plan.revision] \in Reports
    BY DEF Reports, Plan
  <2>2. up' \in [Sites -> Seq(Reports)]
    BY <1>8, <2>1, ChannelTypeOK DEF StorePlan
  <2> QED BY <1>8, <2>2 DEF StorePlan, hubVars, statusVars
<1>9. CASE RejectPlan(s)
  <2>1. [kind |-> "Nack", revision |-> worker[s].plan.revision] \in Reports
    BY DEF Reports, Plan
  <2>2. up' \in [Sites -> Seq(Reports)]
    BY <1>9, <2>1, ChannelTypeOK DEF RejectPlan
  <2> QED BY <1>9, <2>2, NoWorkerTypeOK DEF RejectPlan, hubVars, statusVars
<1>10. CASE ApplyReady(s)
  <2>1. [kind |-> "Result", revision |-> worker[s].plan.revision] \in Reports
    BY DEF Reports, Plan
  <2>2. up' \in [Sites -> Seq(Reports)]
    <3> DEFINE more == Append(up[s], [kind |-> "Result", revision |-> worker[s].plan.revision])
    <3>1. more \in Seq(Reports)
      BY <2>1, ChannelTypeOK
    <3>2. up' = up \/ up' = [up EXCEPT ![s] = more]
      BY <1>10 DEF ApplyReady
    <3> HIDE DEF more
    <3> QED BY <3>1, <3>2
  <2>3. completed' \in [Sites -> SUBSET [revision : Nat, content : Contents \cup {NoContent}]]
    <3> DEFINE done == [revision |-> worker[s].plan.revision, content |-> worker[s].plan.content]
    <3>1. done \in [revision : Nat, content : Contents \cup {NoContent}]
      BY DEF Plan
    <3>2. completed' = [completed EXCEPT ![s] = @ \cup {done}]
      BY <1>10 DEF ApplyReady
    <3> HIDE DEF done
    <3> QED BY <3>1, <3>2
  <2>4. worker' \in [Sites -> [state : {"none", "store", "apply"}, plan : Plan, reported : BOOLEAN]]
    <3>1. CASE worker' = worker
      BY <3>1
    <3>2. CASE worker' = [worker EXCEPT ![s].reported = TRUE]
      BY <3>2
    <3> QED BY <1>10, <3>1, <3>2 DEF ApplyReady
  <2> QED BY <1>10, <2>2, <2>3, <2>4 DEF ApplyReady, hubVars, statusVars
<1>11. CASE updateInstanceSite(s)
  BY <1>11, NoWorkerTypeOK DEF updateInstanceSite, hubVars, statusVars
<1> QED
  BY <1>1, <1>2, <1>3, <1>4, <1>5, <1>6, <1>7, <1>8, <1>9, <1>10, <1>11 DEF ServerNext, AgentNext

\* Every step keeps the types.
LEMMA StepTypeOK == TypeOK /\ [Next]_vars => TypeOK'
<1>1. TypeOK /\ UNCHANGED vars => TypeOK'
  BY DEF TypeOK, vars, hubVars, statusVars, agentVars, linkVars
<1> QED BY <1>1, HubTypeOK, SiteTypeOK DEF Next

\* Every state the hub, the streams and the agents reach is well typed: the
\* loop over spec.sites stays in range and every revision is a natural number.
THEOREM TypeCorrect == Spec => []TypeOK
BY InitTypeOK, StepTypeOK, PTL DEF Spec

-----------------------------------------------------------------------------
(* Revisions: nothing anywhere is more than one ahead of the status.       *)

\* No plan exists yet, so none is ahead of the status.
LEMMA InitRevisionInv == Init => RevisionInv
<1> SUFFICES ASSUME Init PROVE RevisionInv
  OBVIOUS
<1>1. \A s \in Sites : Range(down[s]) = {}
  BY EmptyChannel DEF Init
<1> QED BY <1>1 DEF Init, RevisionInv, NoPlan, NoWorker, Idle

\* The reconciler works on the active revision or its successor, so the plans
\* it writes are at most one ahead, also when its status update is lost.
LEMMA HubRevisionInv == TypeOK /\ RevisionInv /\ HubNext => RevisionInv'
<1> SUFFICES ASSUME TypeOK, RevisionInv, HubNext PROVE RevisionInv'
  OBVIOUS
<1> USE DEF RevisionInv
<1>1. CASE ChangeDeclared
  BY <1>1 DEF ChangeDeclared, agentVars, linkVars, statusVars
<1>2. CASE ReconcileStart
  <2>1. NextRevision \in {active, active + 1} \ {0}
    BY ContentsAssumption DEF NextRevision, TypeOK
  <2> QED BY <1>2, <2>1 DEF ReconcileStart, agentVars, linkVars, statusVars
<1>3. CASE ReconcileBlocked
  BY <1>3 DEF ReconcileBlocked, agentVars, linkVars, statusVars
<1>4. CASE reconcilePlan
  <2>1. rec'.pc = rec.pc /\ rec'.revision = rec.revision
    BY <1>4 DEF reconcilePlan, TypeOK
  <2>2. ASSUME NEW s \in Sites PROVE planConfigMap'[s].revision <= active + 1
    <3>1. CASE planConfigMap'[s] = planConfigMap[s]
      BY <3>1
    <3>2. CASE planConfigMap'[s].revision = rec.revision
      BY <1>4, <3>2 DEF reconcilePlan, TypeOK
    <3> QED BY <1>4, <3>1, <3>2 DEF reconcilePlan, TypeOK
  <2> QED BY <1>4, <2>1, <2>2 DEF reconcilePlan, agentVars, linkVars, statusVars
<1>5. CASE updateInstanceStatus
  <2>1. active' = rec.revision /\ active' > 0 /\ active <= active' /\ active \in Nat /\ active' \in Nat
    BY <1>5 DEF updateInstanceStatus, TypeOK
  <2>2. rec'.pc = "idle"
    BY <1>5 DEF updateInstanceStatus, Idle
  <2>3. ASSUME NEW s \in Sites
        PROVE  /\ planConfigMap[s].revision <= active' + 1
               /\ worker[s].plan.revision <= active' + 1
               /\ cache[s].revision <= active' + 1
               /\ \A p \in Range(down[s]) : p.revision <= active' + 1
    <3>1. /\ planConfigMap[s].revision \in Nat
          /\ worker[s].plan.revision \in Nat
          /\ cache[s].revision \in Nat
      BY DEF TypeOK, Plan
    <3>2. \A p \in Range(down[s]) : p.revision \in Nat
      <4>1. down[s] \in Seq(Plan)
        BY DEF TypeOK
      <4>2. Range(down[s]) \subseteq Plan
        BY <4>1, ChannelRange
      <4> QED BY <4>2 DEF Plan
    <3> QED BY <2>1, <3>1, <3>2
  <2> QED BY <1>5, <2>1, <2>2, <2>3 DEF updateInstanceStatus, agentVars, linkVars
<1>6. CASE ReconcileAbort
  BY <1>6 DEF ReconcileAbort, Idle, agentVars, linkVars, statusVars
<1> QED BY <1>1, <1>2, <1>3, <1>4, <1>5, <1>6 DEF HubNext

\* Streams and agents only pass on revisions that the ConfigMap had.
LEMMA SiteRevisionInv ==
  ASSUME TypeOK, RevisionInv, NEW s \in Sites, ServerNext(s) \/ AgentNext(s)
  PROVE  RevisionInv'
<1> USE DEF RevisionInv
<1> DEFINE Ahead(p) == p.revision <= active + 1
<1>0. SUFFICES
        /\ UNCHANGED <<active, fingerprint, rec, desired, planConfigMap>>
        /\ \A t \in Sites : /\ Ahead(worker'[t].plan)
                            /\ Ahead(cache'[t])
                            /\ \A p \in Range(down'[t]) : Ahead(p)
  OBVIOUS
<1>1. CASE sendPlans(s)
  <2>1. \A p \in Range(down'[s]) : Ahead(p)
    <3>1. down[s] \in Seq(Plan) /\ planConfigMap[s] \in Plan
      BY DEF TypeOK
    <3>2. down'[s] = Append(down[s], planConfigMap[s])
      BY <1>1 DEF sendPlans, TypeOK
    <3> QED BY <3>1, <3>2, ChannelRange
  <2>2. \A t \in Sites \ {s} : down'[t] = down[t]
    BY <1>1 DEF sendPlans, TypeOK
  <2> QED BY <1>1, <2>1, <2>2 DEF sendPlans, hubVars, agentVars, statusVars
<1>2. CASE recordAcknowledgement(s) \/ recordResult(s)
  BY <1>2 DEF recordAcknowledgement, recordResult, agentVars
<1>3. CASE HeartbeatTimeout(s) \/ Connect(s)
  BY <1>3 DEF HeartbeatTimeout, Connect, hubVars, agentVars, statusVars
<1>4. CASE StreamBreaks(s) \/ updateInstanceSite(s)
  <2>1. \A t \in Sites : worker'[t].plan \in {worker[t].plan, NoPlan}
    <3>1. worker' = [worker EXCEPT ![s] = NoWorker]
      BY <1>4 DEF StreamBreaks, updateInstanceSite
    <3> QED BY <3>1 DEF TypeOK, NoWorker
  <2>2. \A t \in Sites : down'[t] \in {down[t], << >>}
    BY <1>4 DEF StreamBreaks, updateInstanceSite, TypeOK
  <2>3. Ahead(NoPlan)
    BY DEF NoPlan, TypeOK
  <2>4. UNCHANGED <<hubVars, cache>>
    BY <1>4 DEF StreamBreaks, updateInstanceSite
  <2> QED BY <2>1, <2>2, <2>3, <2>4, EmptyChannel DEF hubVars, statusVars
<1>5. CASE ReceivePlan(s)
  <2>1. /\ down[s] \in Seq(Plan) /\ down[s] # << >>
        /\ down'[s] = Tail(down[s])
        /\ \A t \in Sites \ {s} : down'[t] = down[t]
    BY <1>5 DEF ReceivePlan, TypeOK
  <2>2. Head(down[s]) \in Range(down[s]) /\ Range(Tail(down[s])) \subseteq Range(down[s])
    BY <2>1, ChannelRange
  <2>3. \A t \in Sites : worker'[t].plan \in {worker[t].plan} \cup Range(down[t])
    BY <1>5, <2>2 DEF ReceivePlan, TypeOK
  <2> QED BY <1>5, <2>1, <2>2, <2>3 DEF ReceivePlan, hubVars, statusVars
<1>6. CASE StorePlan(s)
  <2>1. \A t \in Sites : /\ worker'[t].plan = worker[t].plan
                        /\ cache'[t] \in {cache[t], worker[t].plan}
    BY <1>6 DEF StorePlan, TypeOK
  <2> QED BY <1>6, <2>1 DEF StorePlan, hubVars, statusVars
<1>7. CASE RejectPlan(s)
  <2>1. \A t \in Sites : worker'[t].plan \in {worker[t].plan, NoPlan}
    BY <1>7 DEF RejectPlan, TypeOK, NoWorker
  <2>2. Ahead(NoPlan)
    BY DEF NoPlan, TypeOK
  <2> QED BY <1>7, <2>1, <2>2 DEF RejectPlan, hubVars, statusVars
<1>8. CASE ApplyReady(s)
  <2>1. \A t \in Sites : worker'[t].plan = worker[t].plan
    <3>1. CASE worker' = worker
      BY <3>1
    <3>2. CASE worker' = [worker EXCEPT ![s].reported = TRUE]
      BY <3>2 DEF TypeOK
    <3> QED BY <1>8, <3>1, <3>2 DEF ApplyReady
  <2> QED BY <1>8, <2>1 DEF ApplyReady, hubVars, statusVars
<1> QED BY <1>1, <1>2, <1>3, <1>4, <1>5, <1>6, <1>7, <1>8 DEF ServerNext, AgentNext

\* Every step keeps all revisions within one of the active one.
LEMMA StepRevisionInv == TypeOK /\ RevisionInv /\ [Next]_vars => RevisionInv'
<1>1. RevisionInv /\ UNCHANGED vars => RevisionInv'
  BY DEF RevisionInv, vars, hubVars, statusVars, agentVars, linkVars
<1> QED BY <1>1, HubRevisionInv, SiteRevisionInv DEF Next

\* Every plan a site has been given or has cached can be superseded by the
\* next change the hub persists, for any number of lost reconciles.
THEOREM Supersedable == Spec => []HubCanSupersede
<1>1. RevisionInv => HubCanSupersede
  BY DEF RevisionInv, HubCanSupersede
<1> QED BY <1>1, InitTypeOK, StepTypeOK, InitRevisionInv, StepRevisionInv, PTL DEF Spec

-----------------------------------------------------------------------------
(* Reports: what the status records about a site, the site has done.       *)

\* A step of one site's stream or agent leaves the other sites and the
\* reconciler alone.
LEMMA OtherSites ==
  ASSUME TypeOK, NEW s \in Sites, ServerNext(s) \/ AgentNext(s)
  PROVE  /\ UNCHANGED <<declared, active, fingerprint, ready, desired, planConfigMap, rec, aborts>>
         /\ \A t \in Sites \ {s} :
              /\ cache'[t] = cache[t] /\ worker'[t] = worker[t] /\ completed'[t] = completed[t]
              /\ up'[t] = up[t] /\ down'[t] = down[t]
              /\ applied'[t] = applied[t] /\ acknowledged'[t] = acknowledged[t]
<1> USE DEF TypeOK
<1>1. CASE sendPlans(s)
  BY <1>1 DEF sendPlans, hubVars, statusVars, agentVars
<1>2. CASE recordAcknowledgement(s)
  BY <1>2 DEF recordAcknowledgement, agentVars
<1>3. CASE recordResult(s)
  BY <1>3 DEF recordResult, agentVars
<1>4. CASE HeartbeatTimeout(s) \/ Connect(s)
  BY <1>4 DEF HeartbeatTimeout, Connect, hubVars, statusVars, agentVars
<1>5. CASE StreamBreaks(s)
  <2>1. \A t \in Sites \ {s} : up'[t] = up[t]
    BY <1>5 DEF StreamBreaks
  <2> QED BY <1>5, <2>1 DEF StreamBreaks, hubVars, statusVars
<1>6. CASE ReceivePlan(s)
  BY <1>6 DEF ReceivePlan, hubVars, statusVars
<1>7. CASE StorePlan(s)
  BY <1>7 DEF StorePlan, hubVars, statusVars
<1>8. CASE RejectPlan(s)
  BY <1>8 DEF RejectPlan, hubVars, statusVars
<1>9. CASE ApplyReady(s)
  <2>1. \A t \in Sites \ {s} : up'[t] = up[t] /\ worker'[t] = worker[t]
    BY <1>9 DEF ApplyReady
  <2> QED BY <1>9, <2>1 DEF ApplyReady, hubVars, statusVars
<1>10. CASE updateInstanceSite(s)
  BY <1>10 DEF updateInstanceSite, hubVars, statusVars
<1> QED
  BY <1>1, <1>2, <1>3, <1>4, <1>5, <1>6, <1>7, <1>8, <1>9, <1>10 DEF ServerNext, AgentNext

\* What one site's step does to its cache: nothing, or StorePlan's update.
LEMMA CacheStep ==
  ASSUME TypeOK, NEW s \in Sites, ServerNext(s) \/ AgentNext(s)
  PROVE  \/ cache'[s] = cache[s]
         \/ StorePlan(s) /\ cache'[s] = worker[s].plan /\ Acceptable(s, worker[s].plan)
BY DEF TypeOK, ServerNext, AgentNext, sendPlans, recordAcknowledgement, recordResult,
       updateInstanceSite, HeartbeatTimeout, Connect, StreamBreaks, ReceivePlan, StorePlan, RejectPlan, ApplyReady,
       agentVars

\* The reconciler never touches what a site has cached, reported or finished.
LEMMA HubLeavesAgents ==
  HubNext => UNCHANGED <<agentVars, down, up, applied, acknowledged>>
BY DEF HubNext, ChangeDeclared, ReconcileStart, ReconcileBlocked, reconcilePlan,
       updateInstanceStatus, ReconcileAbort, linkVars, statusVars

\* README.md:199, "Plan caches accept only ... non-decreasing revisions":
\* no step of hub, server or agent replaces a cached plan by an older one, or
\* by another plan of the same revision.
THEOREM CacheIsMonotone == Spec => CacheMonotone
<1> DEFINE Grows == \A s \in Sites :
              /\ cache'[s].revision >= cache[s].revision
              /\ cache'[s].revision = cache[s].revision => cache'[s] = cache[s]
<1>1. ASSUME TypeOK, [Next]_vars PROVE Grows
  <2>0. \A s \in Sites : cache[s].revision \in Nat
    BY <1>1 DEF TypeOK, Plan
  <2>1. CASE HubNext \/ UNCHANGED vars
    BY <2>0, <2>1, HubLeavesAgents DEF agentVars, vars
  <2>2. ASSUME NEW s \in Sites, ServerNext(s) \/ AgentNext(s) PROVE Grows
    BY <1>1, <2>0, <2>2, OtherSites, CacheStep DEF Acceptable
  <2> QED BY <1>1, <2>1, <2>2 DEF Next
<1> QED BY <1>1, InitTypeOK, StepTypeOK, PTL DEF Spec, CacheMonotone

\* Nothing has been reported or recorded yet.
LEMMA InitReportInv == Init => ReportInv /\ AppliedWasCompleted
<1> SUFFICES ASSUME Init PROVE ReportInv /\ AppliedWasCompleted
  OBVIOUS
<1>1. \A s \in Sites : Range(up[s]) = {}
  BY EmptyChannel DEF Init
<1> QED BY <1>1 DEF Init, ReportInv, AppliedWasCompleted, NoPlan, NoWorker

\* A report is sent only for a cached plan, a Result only for a finished one,
\* and the server records nothing but what a report says.
LEMMA SiteReportInv ==
  ASSUME TypeOK, ReportInv, AppliedWasCompleted, NEW s \in Sites, ServerNext(s) \/ AgentNext(s)
  PROVE  ReportInv' /\ AppliedWasCompleted'
<1> DEFINE Backed(m, done, rev) ==
             /\ m.kind # "Nack" => m.revision <= rev
             /\ m.kind = "Result" => \E p \in done : p.revision = m.revision
           Rest == /\ applied[s] > 0 => \E p \in completed[s] : p.revision = applied[s]
                   /\ applied[s] <= cache[s].revision
                   /\ acknowledged[s] <= cache[s].revision
                   /\ \A p \in completed[s] : p.revision <= cache[s].revision
<1>0. /\ cache[s] \in Plan /\ cache[s].revision \in Nat
      /\ worker[s].plan \in Plan /\ worker[s].plan.revision \in Nat
      /\ up[s] \in Seq(Reports)
      /\ applied[s] \in Nat /\ acknowledged[s] \in Nat
      /\ \A p \in completed[s] : p.revision \in Nat
      /\ \A m \in Range(up[s]) : m.revision \in Nat
  <2>1. up[s] \in Seq(Reports)
    BY DEF TypeOK
  <2>2. Range(up[s]) \subseteq Reports
    BY <2>1, ChannelRange
  <2> QED BY <2>1, <2>2 DEF TypeOK, Plan, Reports
<1>a. /\ worker[s].state = "apply" => worker[s].plan = cache[s]
      /\ \A m \in Range(up[s]) : Backed(m, completed[s], cache[s].revision)
      /\ Rest
  BY DEF ReportInv, AppliedWasCompleted
<1>b. SUFFICES
        /\ worker'[s].state = "apply" => worker'[s].plan = cache'[s]
        /\ \A m \in Range(up'[s]) : Backed(m, completed'[s], cache'[s].revision)
        /\ Rest'
  BY OtherSites DEF ReportInv, AppliedWasCompleted
<1>1. CASE sendPlans(s) \/ HeartbeatTimeout(s) \/ Connect(s)
  BY <1>1, <1>a DEF sendPlans, HeartbeatTimeout, Connect, hubVars, statusVars, agentVars
<1>2. CASE recordAcknowledgement(s) \/ recordResult(s)
  <2>1. /\ up[s] # << >> /\ up'[s] = Tail(up[s]) /\ UNCHANGED agentVars
        /\ \/ /\ Head(up[s]).kind \in {"Ack", "Nack"} /\ applied' = applied
              /\ \/ acknowledged'[s] = acknowledged[s]
                 \/ Head(up[s]).kind = "Ack" /\ acknowledged'[s] = Head(up[s]).revision
           \/ /\ Head(up[s]).kind = "Result" /\ acknowledged' = acknowledged
              /\ applied'[s] \in {applied[s], Head(up[s]).revision}
    BY <1>2 DEF recordAcknowledgement, recordResult, TypeOK
  <2>2. Backed(Head(up[s]), completed[s], cache[s].revision)
    BY <1>0, <1>a, <2>1, ChannelRange
  <2>3. \A m \in Range(up'[s]) : Backed(m, completed[s], cache[s].revision)
    BY <1>0, <1>a, <2>1, ChannelRange
  <2> QED BY <1>a, <2>1, <2>2, <2>3 DEF agentVars
<1>3. CASE StreamBreaks(s) \/ updateInstanceSite(s)
  <2>1. up'[s] \in {up[s], << >>} /\ worker'[s].state = "none"
    BY <1>3 DEF StreamBreaks, updateInstanceSite, TypeOK, NoWorker
  <2>2. UNCHANGED <<hubVars, cache, completed>>
    BY <1>3 DEF StreamBreaks, updateInstanceSite
  <2> QED BY <1>a, <2>1, <2>2, EmptyChannel DEF hubVars, statusVars
<1>4. CASE ReceivePlan(s)
  <2>1. worker'[s] = worker[s] \/ worker'[s].state = "store"
    BY <1>4 DEF ReceivePlan, TypeOK
  <2> QED BY <1>4, <1>a, <2>1 DEF ReceivePlan, hubVars, statusVars
<1>5. CASE StorePlan(s)
  <2> DEFINE ack == [kind |-> "Ack", revision |-> worker[s].plan.revision]
  <2>1. cache'[s] = worker[s].plan /\ worker'[s].plan = worker[s].plan
    BY <1>5 DEF StorePlan, TypeOK
  <2>2. cache'[s].revision >= cache[s].revision /\ cache'[s].revision \in Nat
    BY <1>0, <1>5, <2>1 DEF StorePlan, Acceptable
  <2>3. up'[s] = Append(up[s], ack) /\ ack \in Reports
    BY <1>0, <1>5 DEF StorePlan, TypeOK, Reports
  <2>4. Range(up'[s]) \subseteq Range(up[s]) \cup {ack}
    BY <1>0, <2>3, ChannelRange
  <2>5. \A m \in Range(up'[s]) : Backed(m, completed[s], cache'[s].revision)
    BY <1>0, <1>a, <2>1, <2>2, <2>4
  <2>6. completed' = completed /\ applied' = applied /\ acknowledged' = acknowledged
    BY <1>5 DEF StorePlan, hubVars, statusVars
  <2> QED BY <1>0, <1>a, <2>1, <2>2, <2>5, <2>6
<1>6. CASE RejectPlan(s)
  <2> DEFINE nack == [kind |-> "Nack", revision |-> worker[s].plan.revision]
  <2>1. up'[s] = Append(up[s], nack) /\ nack \in Reports /\ worker'[s].state = "none"
    BY <1>0, <1>6 DEF RejectPlan, TypeOK, Reports, NoWorker
  <2>2. Range(up'[s]) \subseteq Range(up[s]) \cup {nack}
    BY <1>0, <2>1, ChannelRange
  <2> QED BY <1>6, <1>a, <2>1, <2>2 DEF RejectPlan, hubVars, statusVars
<1>7. CASE ApplyReady(s)
  <2> DEFINE done == [revision |-> worker[s].plan.revision, content |-> worker[s].plan.content]
             result == [kind |-> "Result", revision |-> worker[s].plan.revision]
  <2>1. completed'[s] = completed[s] \cup {done} /\ worker[s].plan = cache[s]
    BY <1>7, <1>a DEF ApplyReady, TypeOK
  <2>2. worker'[s].plan = worker[s].plan
    <3>1. CASE worker' = worker
      BY <3>1
    <3>2. CASE worker' = [worker EXCEPT ![s].reported = TRUE]
      BY <3>2 DEF TypeOK
    <3> QED BY <1>7, <3>1, <3>2 DEF ApplyReady
  <2>3. Range(up'[s]) \subseteq Range(up[s]) \cup {result}
    <3>1. result \in Reports
      BY <1>0 DEF Reports
    <3>2. Range(Append(up[s], result)) \subseteq Range(up[s]) \cup {result}
      BY <1>0, <3>1, ChannelRange
    <3>3. up'[s] = up[s] \/ up'[s] = Append(up[s], result)
      BY <1>7 DEF ApplyReady, TypeOK
    <3> HIDE DEF result
    <3> QED BY <3>2, <3>3
  <2>4. \A m \in Range(up'[s]) : Backed(m, completed'[s], cache[s].revision)
    <3>1. \A m \in Range(up[s]) : Backed(m, completed'[s], cache[s].revision)
      <4>1. completed[s] \subseteq completed'[s]
        BY <2>1
      <4> QED BY <1>a, <4>1
    <3>2. Backed(result, completed'[s], cache[s].revision)
      <4>1. done \in completed'[s] /\ done.revision = result.revision
        BY <2>1
      <4>2. result.revision <= cache[s].revision
        BY <1>0, <2>1
      <4> HIDE DEF done, result
      <4> QED BY <4>1, <4>2
    <3> HIDE DEF Backed, result
    <3> QED BY <2>3, <3>1, <3>2
  <2>5. cache' = cache /\ applied' = applied /\ acknowledged' = acknowledged
    BY <1>7 DEF ApplyReady, hubVars, statusVars
  <2> QED BY <1>0, <1>a, <2>1, <2>2, <2>4, <2>5
<1> QED BY <1>1, <1>2, <1>3, <1>4, <1>5, <1>6, <1>7 DEF ServerNext, AgentNext

\* Every step keeps reports and records behind the site's cache.
LEMMA StepReportInv ==
  TypeOK /\ ReportInv /\ AppliedWasCompleted /\ [Next]_vars => ReportInv' /\ AppliedWasCompleted'
<1>1. ReportInv /\ AppliedWasCompleted /\ (HubNext \/ UNCHANGED vars)
        => ReportInv' /\ AppliedWasCompleted'
  BY HubLeavesAgents
     DEF ReportInv, AppliedWasCompleted, vars, hubVars, statusVars, agentVars, linkVars
<1> QED BY <1>1, SiteReportInv DEF Next

\* The applied revision the status shows for a site is one that site has
\* completed and still holds, or has superseded, in its cache.
THEOREM AppliedIsReal == Spec => []AppliedWasCompleted
BY InitTypeOK, StepTypeOK, InitReportInv, StepReportInv, PTL DEF Spec

-----------------------------------------------------------------------------
(* Ready: while no reconcile is lost, a revision has one content.          *)

\* Ready is not set, and there is no plan that could be unfaithful.
LEMMA InitHonestInv == Init => HonestInv
<1> SUFFICES ASSUME Init PROVE HonestInv
  OBVIOUS
<1>1. \A s \in Sites : Range(down[s]) = {} /\ completed[s] = {}
  BY EmptyChannel DEF Init
<1> QED BY <1>1 DEF Init, HonestInv, Faithful, NoPlan, NoWorker, Idle

\* The absence of a plan claims nothing.
LEMMA NoPlanFaithful == RevisionInv /\ active \in Nat => Faithful(NoPlan)
BY DEF RevisionInv, Faithful, NoPlan

\* The sites hold faithful plans only.
LEMMA HonestSites ==
  ASSUME HonestInv, aborts = 0, NEW s \in Sites
  PROVE  /\ Faithful(planConfigMap[s]) /\ Faithful(worker[s].plan) /\ Faithful(cache[s])
         /\ \A p \in Range(down[s]) \cup completed[s] : Faithful(p)
BY DEF HonestInv

\* A reconcile that starts finds all plans faithful; it may set Ready only if
\* it did not bump the revision.
LEMMA StartHonest ==
  ASSUME TypeOK, RevisionInv, AppliedWasCompleted, HonestInv, ReconcileStart, aborts = 0
  PROVE  HonestInv'
<1> USE DEF TypeOK
<1>1. /\ rec' = [pc |-> "write", revision |-> NextRevision, content |-> declared,
                 next |-> 1, allApplied |-> allSitesApplied(NextRevision)]
      /\ rec.pc = "idle"
      /\ UNCHANGED <<active, fingerprint, ready, applied, planConfigMap, aborts>>
      /\ UNCHANGED <<worker, cache, completed, down>>
  BY DEF ReconcileStart, agentVars, linkVars, statusVars
<1>2. NextRevision = active => declared = fingerprint /\ active > 0
  BY ContentsAssumption DEF NextRevision, RevisionInv
<1>3. allSitesApplied(NextRevision) => NextRevision = active
  <2> SUFFICES ASSUME allSitesApplied(active + 1) PROVE FALSE
    BY DEF NextRevision
  <2>1. 1 \in Sites
    BY NAssumption DEF Sites
  <2>2. applied[1] = active + 1 /\ applied[1] <= cache[1].revision /\ cache[1].revision \in Nat
    BY <2>1 DEF allSitesApplied, AppliedWasCompleted, Plan
  <2>3. Faithful(cache[1])
    BY <2>1, HonestSites
  <2> QED BY <1>1, <2>2, <2>3 DEF Faithful
<1>4. \A p : Faithful(p) => Faithful(p)'
  BY <1>1 DEF Faithful
<1>5. /\ rec'.pc = "write" /\ rec'.revision = active => rec'.content = fingerprint
      /\ rec'.pc = "write" /\ rec'.allApplied => rec'.revision = active /\ active > 0
      /\ rec'.allApplied => \A s \in Sites : applied[s] = active
  BY <1>1, <1>2, <1>3 DEF allSitesApplied
<1> QED BY <1>1, <1>4, <1>5 DEF HonestInv

\* The plan reconcilePlan writes is the one the reconcile stands for.
LEMMA WriteHonest ==
  ASSUME TypeOK, RevisionInv, HonestInv, reconcilePlan, aborts = 0
  PROVE  HonestInv'
<1>1. /\ rec.pc = "write"
      /\ rec'.pc = rec.pc /\ rec'.revision = rec.revision
      /\ rec'.content = rec.content /\ rec'.allApplied = rec.allApplied
      /\ UNCHANGED <<active, fingerprint, ready, applied, aborts, worker, cache, completed, down>>
  BY DEF reconcilePlan, TypeOK, agentVars, linkVars, statusVars
<1>2. \A p : Faithful(p) => Faithful(p)'
  BY <1>1 DEF Faithful
<1>3. ASSUME NEW p, p.revision = rec.revision, p.content = rec.content PROVE Faithful(p)
  BY <1>1, <1>3 DEF RevisionInv, HonestInv, Faithful
<1>4. ASSUME NEW s \in Sites PROVE Faithful(planConfigMap'[s])
  <2>1. CASE planConfigMap'[s] = planConfigMap[s]
    BY <2>1, HonestSites
  <2>2. CASE planConfigMap'[s].revision = rec.revision /\ planConfigMap'[s].content = rec.content
    BY <2>2, <1>3
  <2> QED BY <2>1, <2>2 DEF reconcilePlan, TypeOK
<1>5. \A s \in Sites : Faithful(planConfigMap[s])'
  BY <1>2, <1>4
<1> QED BY <1>1, <1>2, <1>5 DEF HonestInv

\* Persisting the status makes the reconcile's revision and content the
\* active ones.
LEMMA StatusHonest ==
  ASSUME TypeOK, RevisionInv, HonestInv, updateInstanceStatus, aborts = 0
  PROVE  HonestInv'
<1>1. /\ rec.pc = "write" /\ rec'.pc = "idle"
      /\ active \in Nat /\ active' = rec.revision /\ fingerprint' = rec.content
      /\ ready' = NoContent \/ (rec.allApplied /\ ready' = rec.content)
      /\ UNCHANGED <<applied, planConfigMap, aborts, worker, cache, completed, down>>
  BY DEF updateInstanceStatus, TypeOK, RevisionInv, Idle, agentVars, linkVars
<1>2. /\ rec.revision \in {active, active + 1}
      /\ rec.revision = active => rec.content = fingerprint
      /\ rec.allApplied => active' = active /\ \A s \in Sites : applied[s] = active
  BY <1>1 DEF RevisionInv, HonestInv
<1>3. ASSUME NEW p, p.revision \in Nat, Faithful(p) PROVE Faithful(p)'
  BY <1>1, <1>2, <1>3 DEF Faithful
<1>4. ASSUME NEW s \in Sites
      PROVE  /\ planConfigMap[s].revision \in Nat /\ worker[s].plan.revision \in Nat
             /\ cache[s].revision \in Nat
             /\ \A p \in Range(down[s]) \cup completed[s] : p.revision \in Nat
  <2>1. down[s] \in Seq(Plan)
    BY DEF TypeOK
  <2>2. Range(down[s]) \subseteq Plan
    BY <2>1, ChannelRange
  <2> QED BY <2>2 DEF TypeOK, Plan
<1>5. ASSUME NEW s \in Sites
      PROVE  /\ Faithful(planConfigMap[s])' /\ Faithful(worker[s].plan)' /\ Faithful(cache[s])'
             /\ \A p \in Range(down[s]) \cup completed[s] : Faithful(p)'
  BY <1>1, <1>3, <1>4, HonestSites
<1> QED BY <1>1, <1>2, <1>5 DEF HonestInv

\* Every step of the reconciler keeps the plans faithful.
LEMMA HubHonestInv ==
  ASSUME TypeOK, RevisionInv, AppliedWasCompleted, HonestInv, HubNext
  PROVE  HonestInv'
<1>0. SUFFICES ASSUME aborts' = 0 PROVE HonestInv'
  BY DEF HonestInv
<1>1. CASE ChangeDeclared
  BY <1>1 DEF ChangeDeclared, HonestInv, Faithful, agentVars, linkVars, statusVars
<1>2. CASE ReconcileStart
  BY <1>0, <1>2, StartHonest DEF ReconcileStart
<1>3. CASE ReconcileBlocked
  BY <1>3 DEF ReconcileBlocked, HonestInv, Faithful, agentVars, linkVars, statusVars
<1>4. CASE reconcilePlan
  BY <1>0, <1>4, WriteHonest DEF reconcilePlan
<1>5. CASE updateInstanceStatus
  BY <1>0, <1>5, StatusHonest DEF updateInstanceStatus
<1>6. CASE ReconcileAbort
  BY <1>0, <1>6 DEF ReconcileAbort, TypeOK
<1> QED BY <1>1, <1>2, <1>3, <1>4, <1>5, <1>6 DEF HubNext

\* Streams and agents pass on faithful plans unchanged, and recording a
\* result does not withdraw an applied revision that Ready rests on.
LEMMA SiteHonestInv ==
  ASSUME TypeOK, RevisionInv, HonestInv, NEW s \in Sites, ServerNext(s) \/ AgentNext(s)
  PROVE  HonestInv'
<1>1. UNCHANGED <<active, fingerprint, ready, desired, planConfigMap, rec, aborts>>
  BY OtherSites
<1>2. \A p : Faithful(p) => Faithful(p)'
  BY <1>1 DEF Faithful
<1>3. SUFFICES ASSUME aborts = 0 PROVE HonestInv'
  BY <1>1 DEF HonestInv
<1>4. Faithful(NoPlan) /\ active = desired[s]
  BY NoPlanFaithful DEF TypeOK, RevisionInv
<1>5. applied'[s] \in {applied[s], active}
  BY <1>4 DEF TypeOK, ServerNext, AgentNext, sendPlans, recordAcknowledgement, recordResult,
     updateInstanceSite, HeartbeatTimeout, Connect, StreamBreaks, ReceivePlan, StorePlan, RejectPlan, ApplyReady,
     hubVars, statusVars
<1>6. Faithful(cache'[s])
  BY <1>3, CacheStep, HonestSites
<1>7. \A p \in Range(down'[s]) : Faithful(p)
  <2>1. down[s] \in Seq(Plan) /\ planConfigMap[s] \in Plan
    BY DEF TypeOK
  <2>2. \/ down'[s] \in {down[s], << >>}
        \/ down'[s] = Append(down[s], planConfigMap[s])
        \/ down[s] # << >> /\ down'[s] = Tail(down[s])
    BY DEF TypeOK, ServerNext, AgentNext, sendPlans, recordAcknowledgement, recordResult,
       updateInstanceSite, HeartbeatTimeout, Connect, StreamBreaks, ReceivePlan, StorePlan, RejectPlan, ApplyReady
  <2>3. Range(down'[s]) \subseteq Range(down[s]) \cup {planConfigMap[s]}
    <3>1. /\ down[s] # << >> => Range(Tail(down[s])) \subseteq Range(down[s])
          /\ Range(Append(down[s], planConfigMap[s])) \subseteq Range(down[s]) \cup {planConfigMap[s]}
      BY <2>1, ChannelRange
    <3> QED BY <2>2, <3>1, EmptyChannel
  <2> QED BY <1>3, <2>3, HonestSites
<1>8. Faithful(worker'[s].plan)
  <2>1. down[s] # << >> => Head(down[s]) \in Range(down[s])
    <3>1. down[s] \in Seq(Plan)
      BY DEF TypeOK
    <3> QED BY <3>1, ChannelRange
  <2>2. worker'[s].plan \in {worker[s].plan, NoPlan} \cup Range(down[s])
    <3>1. CASE sendPlans(s) \/ recordAcknowledgement(s) \/ recordResult(s) \/ HeartbeatTimeout(s)
                 \/ Connect(s)
      BY <3>1 DEF sendPlans, recordAcknowledgement, recordResult, HeartbeatTimeout, Connect, agentVars
    <3>2. CASE StreamBreaks(s) \/ RejectPlan(s) \/ updateInstanceSite(s)
      BY <3>2 DEF StreamBreaks, RejectPlan, updateInstanceSite, NoWorker, TypeOK
    <3>3. CASE ReceivePlan(s)
      BY <2>1, <3>3 DEF ReceivePlan, TypeOK
    <3>4. CASE StorePlan(s)
      BY <3>4 DEF StorePlan, TypeOK
    <3>5. CASE ApplyReady(s)
      <4>1. CASE worker' = worker
        BY <4>1
      <4>2. CASE worker' = [worker EXCEPT ![s].reported = TRUE]
        BY <4>2 DEF TypeOK
      <4> QED BY <3>5, <4>1, <4>2 DEF ApplyReady
    <3> QED BY <3>1, <3>2, <3>3, <3>4, <3>5 DEF ServerNext, AgentNext
  <2> QED BY <1>3, <1>4, <2>2, HonestSites
<1>9. \A p \in completed'[s] : Faithful(p)
  <2> DEFINE done == [revision |-> worker[s].plan.revision, content |-> worker[s].plan.content]
  <2>1. completed'[s] = completed[s] \/ completed'[s] = completed[s] \cup {done}
    BY DEF TypeOK, ServerNext, AgentNext, sendPlans, recordAcknowledgement, recordResult,
       updateInstanceSite, HeartbeatTimeout, Connect, StreamBreaks, ReceivePlan, StorePlan, RejectPlan, ApplyReady,
       agentVars
  <2>2. Faithful(done)
    <3>1. Faithful(worker[s].plan)
      BY <1>3, HonestSites
    <3>2. done.revision = worker[s].plan.revision /\ done.content = worker[s].plan.content
      OBVIOUS
    <3> HIDE DEF done
    <3> QED BY <3>1, <3>2 DEF Faithful
  <2> HIDE DEF done
  <2> QED BY <1>3, <2>1, <2>2, HonestSites
<1>10. ASSUME NEW t \in Sites
       PROVE  /\ Faithful(planConfigMap[t])' /\ Faithful(worker[t].plan)' /\ Faithful(cache[t])'
              /\ \A p \in (Range(down[t]) \cup completed[t])' : Faithful(p)'
              /\ applied'[t] \in {applied[t], active}
  <2>1. CASE t = s
    BY <1>1, <1>2, <1>3, <1>5, <1>6, <1>7, <1>8, <1>9, <2>1, HonestSites
  <2>2. CASE t # s
    <3>1. /\ worker'[t] = worker[t] /\ cache'[t] = cache[t] /\ completed'[t] = completed[t]
          /\ down'[t] = down[t] /\ applied'[t] = applied[t]
      BY <2>2, OtherSites
    <3> QED BY <1>1, <1>2, <1>3, <3>1, HonestSites
  <2> QED BY <2>1, <2>2
<1> QED BY <1>1, <1>3, <1>10 DEF HonestInv

\* Every step keeps the plans faithful.
LEMMA StepHonestInv ==
  TypeOK /\ RevisionInv /\ AppliedWasCompleted /\ HonestInv /\ [Next]_vars => HonestInv'
<1>1. HonestInv /\ UNCHANGED vars => HonestInv'
  BY DEF HonestInv, Faithful, vars, hubVars, statusVars, agentVars, linkVars
<1> QED BY <1>1, HubHonestInv, SiteHonestInv DEF Next

\* With every applied revision real and every plan faithful, Ready is honest.
LEMMA HonestInvSuffices ==
  ASSUME TypeOK, RevisionInv, AppliedWasCompleted, HonestInv
  PROVE  HonestUntilAbort
<1> SUFFICES ASSUME aborts = 0, ready # NoContent, NEW s \in Sites
             PROVE  /\ [revision |-> active, content |-> ready] \in completed[s]
                    /\ rec.pc = "idle" => cache[s].revision = active /\ cache[s].content = ready
  BY DEF HonestUntilAbort, ReadyIsHonest
<1>1. ready = fingerprint /\ applied[s] = active /\ active \in Nat /\ active > 0
  BY DEF HonestInv, RevisionInv, TypeOK
<1>2. PICK p \in completed[s] : p.revision = active
  BY <1>1 DEF AppliedWasCompleted
<1>3. Faithful(p) /\ Faithful(cache[s])
  BY HonestSites
<1>4. p.content = ready
  BY <1>1, <1>2, <1>3 DEF Faithful
<1>5. p = [revision |-> active, content |-> ready]
  BY <1>2, <1>4 DEF TypeOK
<1>6. rec.pc = "idle" => cache[s].revision = active /\ cache[s].content = ready
  <2>1. active <= cache[s].revision /\ cache[s].revision \in Nat
    BY <1>1 DEF AppliedWasCompleted, TypeOK, Plan
  <2> QED BY <1>1, <1>3, <2>1 DEF Faithful
<1> QED BY <1>5, <1>6

\* Ready=True means that every site has applied the active revision and the
\* contents it was computed for, for any number of sites, as long as every
\* reconcile that wrote plans persisted its status.
THEOREM ReadyTheorem == Spec => []HonestUntilAbort
BY InitTypeOK, StepTypeOK, InitRevisionInv, StepRevisionInv, InitReportInv, StepReportInv,
   InitHonestInv, StepHonestInv, HonestInvSuffices, PTL DEF Spec
=============================================================================
