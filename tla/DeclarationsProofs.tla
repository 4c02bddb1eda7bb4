-------------------------- MODULE DeclarationsProofs --------------------------
(***************************************************************************)
(* The declaration controllers use the directive machinery as it is meant: *)
(* they inherit the ledger's promise, a declaration with policy Delete     *)
(* leaves the hub only after its DROP ran (or met a standby, after a       *)
(* failover), and a user waits for the role it is granted.                 *)
(***************************************************************************)
EXTENDS Declarations, DirectivesProofs

Objects == [exists : BOOLEAN, generation : 1..(MaxGeneration + 1), deleting : BOOLEAN,
            policy : {"Retain", "Delete"}, forced : BOOLEAN]
Statuses == [phase : Phases, observed : 0..(MaxGeneration + 1), succeeded : BOOLEAN, ready : BOOLEAN]

DeclTypes ==
    /\ object \in [Decls -> Objects]
    /\ status \in [Decls -> Statuses]
    /\ \A d \in Decls : IF object[d].deleting THEN object[d].generation > 1
                                              ELSE object[d].generation <= MaxGeneration

\* A published deletion is the live object's own operation, so an answer to it
\* cannot be an answer to anything older; what is marked Deleted, and what has
\* left without being orphaned, was dropped.
DropsAreCurrent ==
    \A op \in directive : op[3] => op = Operation(Declaration(op)) /\ object[Declaration(op)].deleting

DeletedIsDropped ==
    /\ \A d \in Decls : status[d].phase = "Deleted" => object[d].deleting /\ Applied(Operation(d))
    /\ \A d \in Decls : ~object[d].exists =>
          /\ object[d].deleting
          /\ object[d].policy = "Delete" /\ ~object[d].forced => Applied(Operation(d))

DInv == DeclTypes /\ directive \subseteq Ops /\ DropsAreCurrent /\ DeletedIsDropped

LEMMA DInit == Init => DInv
  <1>. SUFFICES ASSUME Init PROVE DInv
    OBVIOUS
  <1>1. DeclTypes
    BY GenerationAssumption, PoliciesAssumption DEF Init, DeclTypes, Objects, Statuses, Phases, Decls
  <1>. QED
    BY <1>1 DEF Init, DInv, DropsAreCurrent, DeletedIsDropped

LEMMA OperationIsOp ==
    ASSUME NEW d \in Decls, DeclTypes
    PROVE  Operation(d) \in Ops /\ Declaration(Operation(d)) = d
  BY OpsAssumption, GenerationAssumption DEF DeclTypes, Objects, Operation, Declaration, Decls

\* A Job that completed stays done: the machinery never forgets it.
LEMMA DoneGrows ==
    ASSUME [DirectivesNext]_dvars
    PROVE  done \subseteq done'
  BY DEF DirectivesNext, dvars, pipeline, Publish, Connect, BreakStream, Disconnect, SendDirective,
         AgentStep, ReceiveDirective, StartJob, ExecuteFails, waitForJob, MarkTerminal,
         JobStep, JobCompletes, JobFails, JobExpires, LateWriteLands, RecordResult, RefuseResult

LEMMA AppliedStays ==
    ASSUME NEW op, done \subseteq done', Applied(op)
    PROVE  Applied(op)'
  BY DEF Applied

-----------------------------------------------------------------------------
(* Every step is a step of the machinery or leaves it alone. *)

LEMMA ReconcileIsPublish ==
    ASSUME NEW d \in Decls, IInv, DInv, Reconcile(d) \/ ReconcileDeletion(d)
    PROVE  Publish
  <1>1. directive' \subseteq Ops
    BY OperationIsOp DEF DInv, Reconcile, ReconcileDeletion, reconcileDirective, RemoveFinalizer, OwnDirectives
  <1>2. faults' \in faults..MaxFaults
    BY FaultsAssumption DEF IInv, DirectivesTypeOK, Reconcile, ReconcileDeletion, WriteStatus
  <1>3. UNCHANGED <<stream, sent, down, worker, store, late, job, up, done, reported>>
    BY DEF Reconcile, ReconcileDeletion
  <1>. QED
    BY <1>1, <1>2, <1>3 DEF Publish

LEMMA StepUsesDirectives == IInv /\ DInv /\ [Next]_vars => [DirectivesNext]_dvars
  <1>. SUFFICES ASSUME IInv, DInv, [Next]_vars PROVE [DirectivesNext]_dvars
    OBVIOUS
  <1>1. CASE \E d \in Decls : Edit(d) \/ Delete(d) \/ ForceOrphan(d)
    BY <1>1 DEF Edit, Delete, ForceOrphan
  <1>2. CASE \E d \in Decls : Reconcile(d) \/ ReconcileDeletion(d)
    BY <1>2, ReconcileIsPublish DEF DirectivesNext
  <1>3. CASE LoseParent \/ ObserveTopology \/ \E s \in Sites : Failover(s)
    <2>1. Publish \/ UNCHANGED dvars
      BY <1>3, FaultsAssumption DEF LoseParent, Failover, ObserveTopology, Publish, IInv, DirectivesTypeOK
    <2>. QED
      BY <2>1 DEF DirectivesNext
  <1>4. CASE \E s \in Sites : (Connect(s) \/ BreakStream(s)) /\ UNCHANGED <<hub, postgres>>
    BY <1>4 DEF DirectivesNext, hub
  <1>5. ASSUME NEW t \in Tasks, sendDirectives(t) \/ Pipeline(t) \/ RunSQLJob(t)
        PROVE  DirectivesNext
    <2>1. UNCHANGED directive
      BY <1>5 DEF sendDirectives, Pipeline, RunSQLJob, hub
    <2>2. SendDirective(t) \/ AgentStep(t) \/ JobStep(t)
      BY <1>5 DEF sendDirectives, Pipeline, RunSQLJob, JobStep
    <2>. QED
      BY <2>1, <2>2 DEF DirectivesNext
  <1>6. ASSUME NEW x \in Tasks \X Outcomes,
               recordDirectiveResult(x) \/ (LateWriteLands(x) /\ UNCHANGED <<hub, postgres>>)
        PROVE  DirectivesNext
    BY <1>6 DEF DirectivesNext, recordDirectiveResult, hub
  <1>7. CASE UNCHANGED vars
    BY <1>7 DEF vars
  <1>. QED
    BY <1>1, <1>2, <1>3, <1>4, <1>5, <1>6, <1>7 DEF Next

-----------------------------------------------------------------------------
(* The invariant. *)

LEMMA TenantDInv ==
    ASSUME NEW d \in Decls, DInv, Edit(d) \/ Delete(d) \/ ForceOrphan(d)
    PROVE  DInv'
  <1>1. object[d].exists /\ UNCHANGED <<directive, status, done>>
    BY DEF Edit, Delete, ForceOrphan, dvars, pipeline
  <1>2. CASE Edit(d) \/ Delete(d)
    <2>1. ~object[d].deleting
      BY <1>2 DEF Edit, Delete
    <2>2. DeclTypes'
      BY <1>1, <1>2, GenerationAssumption DEF Edit, Delete, DInv, DeclTypes, Objects
    <2>3. \A e \in Decls \ {d} : object'[e] = object[e]
      BY <1>2 DEF Edit, Delete, DInv, DeclTypes
    <2>4. object'[d].exists
      BY <1>1, <1>2 DEF Edit, Delete, DInv, DeclTypes, Objects
    <2>5. DropsAreCurrent'
      BY <1>1, <2>1, <2>3, OpsAssumption DEF DInv, DropsAreCurrent, Operation, Declaration, Decls
    <2>6. DeletedIsDropped'
      BY <1>1, <2>1, <2>3, <2>4 DEF DInv, DeletedIsDropped, Operation, Applied
    <2>. QED
      BY <1>1, <2>2, <2>5, <2>6 DEF DInv
  <1>3. CASE ForceOrphan(d)
    <2>1. DeclTypes'
      BY <1>1, <1>3 DEF ForceOrphan, DInv, DeclTypes, Objects
    <2>2. \A e \in Decls : /\ object'[e].deleting = object[e].deleting
                           /\ object'[e].generation = object[e].generation
                           /\ object'[e].exists = object[e].exists
                           /\ object'[e].policy = object[e].policy
                           /\ ~object'[e].forced => ~object[e].forced
      BY <1>3 DEF ForceOrphan, DInv, DeclTypes, Objects
    <2>3. DropsAreCurrent'
      BY <1>1, <2>2, OpsAssumption DEF DInv, DropsAreCurrent, Operation, Declaration, Decls
    <2>4. DeletedIsDropped'
      BY <1>1, <2>2 DEF DInv, DeletedIsDropped, Operation, Applied
    <2>. QED
      BY <1>1, <2>1, <2>3, <2>4 DEF DInv
  <1>. QED
    BY <1>2, <1>3

\* What every step of the machinery needs: the objects, the statuses and the
\* directives are as they were, the work done can only grow.
LEMMA QuietDInv ==
    ASSUME DInv, UNCHANGED <<directive, object, status>>, done \subseteq done'
    PROVE  DInv'
  BY DEF DInv, DeclTypes, DropsAreCurrent, DeletedIsDropped, Operation, Applied

LEMMA GenerationObserved ==
    ASSUME NEW d \in Decls, DeclTypes
    PROVE  object[d].generation \in 0..(MaxGeneration + 1) /\ status[d] \in Statuses
  BY GenerationAssumption DEF DeclTypes, Objects

LEMMA WriteStatusTypes ==
    ASSUME NEW d \in Decls, NEW s \in Statuses, DeclTypes, s.phase # "Deleted", WriteStatus(d, s)
    PROVE  /\ status' \in [Decls -> Statuses]
           /\ \A e \in Decls : status'[e].phase = "Deleted" => status[e].phase = "Deleted"
  BY DEF WriteStatus, DeclTypes

LEMMA ReconcileDInv ==
    ASSUME NEW d \in Decls, DInv, Reconcile(d)
    PROVE  DInv'
  <1>1. UNCHANGED <<object, done>> /\ ~object[d].deleting
    BY DEF Reconcile
  <1>2. /\ status' \in [Decls -> Statuses]
        /\ \A e \in Decls : status'[e].phase = "Deleted" => status[e].phase = "Deleted"
    <2>0. object[d].generation \in 0..(MaxGeneration + 1) /\ status[d] \in Statuses
      BY GenerationObserved DEF DInv
    <2>1. /\ [status[d] EXCEPT !.phase = "Pending", !.ready = FALSE] \in Statuses
          /\ [status[d] EXCEPT !.phase = "Pending", !.ready = FALSE].phase = "Pending"
      BY DEF DInv, DeclTypes, Statuses, Phases
    <2>2. /\ [status[d] EXCEPT !.phase = "Ready", !.ready = TRUE] \in Statuses
          /\ [status[d] EXCEPT !.phase = "Ready", !.ready = TRUE].phase = "Ready"
      BY DEF DInv, DeclTypes, Statuses, Phases
    <2>3. /\ [status[d] EXCEPT !.observed = object[d].generation,
                               !.phase = "Reconciling", !.ready = FALSE] \in Statuses
          /\ [status[d] EXCEPT !.observed = object[d].generation,
                               !.phase = "Reconciling", !.ready = FALSE].phase = "Reconciling"
      BY <2>0 DEF Statuses, Phases
    <2>4. \E s \in Statuses : s.phase # "Deleted" /\ WriteStatus(d, s)
      BY <2>1, <2>2, <2>3 DEF Reconcile
    <2>. QED
      BY <2>4, WriteStatusTypes DEF DInv
  <1>3. directive' \subseteq directive \cup {Operation(d)}
    BY DEF Reconcile, reconcileDirective
  <1>4. DeclTypes'
    BY <1>1, <1>2 DEF DInv, DeclTypes
  <1>5. directive' \subseteq Ops
    BY <1>3, OperationIsOp DEF DInv
  <1>6. DropsAreCurrent'
    BY <1>1, <1>3 DEF DInv, DropsAreCurrent, Operation, Declaration
  <1>7. DeletedIsDropped'
    BY <1>1, <1>2 DEF DInv, DeletedIsDropped, Operation, Applied
  <1>. QED
    BY <1>4, <1>5, <1>6, <1>7 DEF DInv

LEMMA DeletionDInv ==
    ASSUME NEW d \in Decls, DInv, ReconcileDeletion(d)
    PROVE  DInv'
  <1>1. UNCHANGED done /\ object[d].deleting /\ object[d].exists
    BY DEF ReconcileDeletion
  <1>2. /\ status' \in [Decls -> Statuses]
        /\ \A e \in Decls : status'[e].phase = "Deleted" => status[e].phase = "Deleted"
    <2>0. object[d].generation \in 0..(MaxGeneration + 1) /\ status[d] \in Statuses
      BY GenerationObserved DEF DInv
    <2>1. /\ [status[d] EXCEPT !.observed = object[d].generation, !.phase = "Orphaned"] \in Statuses
          /\ [status[d] EXCEPT !.observed = object[d].generation, !.phase = "Orphaned"].phase = "Orphaned"
      BY <2>0 DEF Statuses, Phases
    <2>2. /\ [status[d] EXCEPT !.observed = object[d].generation, !.phase = "Deleting"] \in Statuses
          /\ [status[d] EXCEPT !.observed = object[d].generation, !.phase = "Deleting"].phase = "Deleting"
      BY <2>0 DEF Statuses, Phases
    <2>3. UNCHANGED status \/ \E s \in Statuses : s.phase # "Deleted" /\ WriteStatus(d, s)
      BY <2>1, <2>2 DEF ReconcileDeletion
    <2>. QED
      BY <2>3, WriteStatusTypes DEF DInv, DeclTypes
  <1>3. directive' \subseteq directive \cup {Operation(d)}
    BY DEF ReconcileDeletion, reconcileDirective, RemoveFinalizer
  <1>4. UNCHANGED object \/ object' = [object EXCEPT ![d].exists = FALSE]
    BY DEF ReconcileDeletion, RemoveFinalizer
  <1>5. ~object'[d].exists =>
            object[d].policy = "Retain" \/ status[d].phase = "Deleted" \/ object[d].forced
    BY <1>1 DEF ReconcileDeletion, RemoveFinalizer, DInv, DeclTypes, Objects
  <1>6. DeclTypes'
    BY <1>2, <1>4 DEF DInv, DeclTypes, Objects
  <1>10. \A e \in Decls : Operation(e)' = Operation(e) /\ (object'[e].deleting <=> object[e].deleting)
    BY <1>4 DEF Operation, DInv, DeclTypes, Objects
  <1>7. directive' \subseteq Ops
    BY <1>3, OperationIsOp DEF DInv
  <1>8. DropsAreCurrent'
    BY <1>1, <1>3, <1>10, OperationIsOp, OpsAssumption DEF DInv, DropsAreCurrent, Declaration, Decls
  <1>9. DeletedIsDropped'
    <2>1. \A e \in Decls : Applied(Operation(e)) => Applied(Operation(e))'
      BY <1>1, <1>10 DEF Applied
    <2>2. CASE UNCHANGED object
      BY <1>2, <2>1, <2>2 DEF DInv, DeletedIsDropped
    <2>3. CASE object' = [object EXCEPT ![d].exists = FALSE]
      <3>1. \A e \in Decls \ {d} : object'[e] = object[e]
        BY <2>3 DEF DInv, DeclTypes
      <3>2. /\ ~object'[d].exists
            /\ object'[d].policy = object[d].policy
            /\ object'[d].forced <=> object[d].forced
        BY <2>3 DEF DInv, DeclTypes, Objects
      <3>3. object[d].policy = "Delete" /\ ~object[d].forced => Applied(Operation(d))
        BY <1>5, <3>2 DEF DInv, DeletedIsDropped
      <3>. QED
        BY <1>1, <1>2, <1>10, <2>1, <3>1, <3>2, <3>3 DEF DInv, DeletedIsDropped
    <2>. QED
      BY <1>4, <2>2, <2>3
  <1>. QED
    BY <1>6, <1>7, <1>8, <1>9 DEF DInv

\* The heart: a success recorded for a deletion is of the live object's own
\* operation, and the ledger says that its Job completed.
LEMMA RecordDInv ==
    ASSUME NEW x \in Tasks \X Outcomes, IInv, DInv, recordDirectiveResult(x)
    PROVE  DInv'
  <1>1. UNCHANGED <<directive, object, done>>
    BY DEF recordDirectiveResult, RecordResult, RefuseResult, Disconnect
  <1>2. CASE RefuseResult(x) /\ UNCHANGED status
    BY <1>1, <1>2, QuietDInv
  <1>3. CASE RecordResult(x) /\ status' = [status EXCEPT ![Declaration(x[1][2])] = ResultStatus(x[1][2], x[2])]
    <2>1. PICK s \in Sites, op \in Ops, o \in Outcomes : x = <<<<s, op>>, o>>
      BY DEF Tasks
    <2>2. op \in directive /\ <<<<s, op>>, o>> \in reported
      BY <1>3, <2>1 DEF RecordResult, IInv, ReportedIsDecided
    <2>3. Declaration(op) \in Decls
      BY OpsAssumption DEF Declaration, Decls
    <2>4. /\ status' \in [Decls -> Statuses]
          /\ \A e \in Decls \ {Declaration(op)} : status'[e] = status[e]
          /\ status'[Declaration(op)].phase = "Deleted" => o = "Succeeded" /\ op[3]
      <3>1. ResultStatus(op, o) \in Statuses
        <4>1. /\ object[Declaration(op)].generation \in 0..(MaxGeneration + 1)
              /\ status[Declaration(op)] \in Statuses
          BY <2>3, GenerationObserved DEF DInv
        <4>. QED
          BY <4>1 DEF ResultStatus, Statuses, Phases
      <3>2. ResultStatus(op, o).phase = "Deleted" => o = "Succeeded" /\ op[3]
        BY <2>3 DEF ResultStatus, DInv, DeclTypes, Statuses, Outcomes
      <3>. QED
        BY <1>3, <2>1, <2>3, <3>1, <3>2 DEF DInv, DeclTypes
    <2>5. o = "Succeeded" => Applied(op)
      BY <2>1, <2>2 DEF IInv, SuccessIsDone, Applied, Tasks
    <2>6. op[3] => op = Operation(Declaration(op)) /\ object[Declaration(op)].deleting
      BY <2>2 DEF DInv, DropsAreCurrent
    <2>7. DeletedIsDropped'
      BY <1>1, <2>3, <2>4, <2>5, <2>6 DEF DInv, DeletedIsDropped, Operation, Applied
    <2>8. DropsAreCurrent'
      BY <1>1 DEF DInv, DropsAreCurrent, Operation
    <2>. QED
      BY <1>1, <2>4, <2>7, <2>8 DEF DInv, DeclTypes
  <1>. QED
    BY <1>2, <1>3 DEF recordDirectiveResult

LEMMA DNext == IInv /\ DInv /\ [Next]_vars => DInv'
  <1>. SUFFICES ASSUME IInv, DInv, [Next]_vars PROVE DInv'
    OBVIOUS
  <1>1. done \subseteq done'
    BY StepUsesDirectives, DoneGrows
  <1>2. CASE \E d \in Decls : Edit(d) \/ Delete(d) \/ ForceOrphan(d) \/ Reconcile(d) \/ ReconcileDeletion(d)
    BY <1>2, TenantDInv, ReconcileDInv, DeletionDInv
  <1>3. CASE LoseParent \/ ObserveTopology \/ \E s \in Sites : Failover(s)
    BY <1>1, <1>3, QuietDInv DEF LoseParent, Failover, ObserveTopology, dvars
  <1>4. CASE \E s \in Sites : (Connect(s) \/ BreakStream(s)) /\ UNCHANGED <<hub, postgres>>
    BY <1>1, <1>4, QuietDInv DEF hub
  <1>5. CASE \E t \in Tasks : sendDirectives(t) \/ Pipeline(t) \/ RunSQLJob(t)
    BY <1>1, <1>5, QuietDInv DEF sendDirectives, Pipeline, RunSQLJob, hub
  <1>6. CASE \E x \in Tasks \X Outcomes :
               recordDirectiveResult(x) \/ (LateWriteLands(x) /\ UNCHANGED <<hub, postgres>>)
    BY <1>1, <1>6, RecordDInv, QuietDInv DEF hub
  <1>7. CASE UNCHANGED vars
    BY <1>1, <1>7, QuietDInv DEF vars, dvars
  <1>. QED
    BY <1>2, <1>3, <1>4, <1>5, <1>6, <1>7 DEF Next

-----------------------------------------------------------------------------
LEMMA Invariants == Spec => [](IInv /\ DInv)
  <1>1. Init => IInv /\ DInv
    BY InitIInv, DInit DEF Init
  <1>2. IInv /\ DInv /\ [Next]_vars => (IInv /\ DInv)'
    BY StepUsesDirectives, NextIInv, DNext
  <1>. QED
    BY <1>1, <1>2, PTL DEF Spec

\* The declaration controllers and the hub's result recording drive the
\* directive machinery as its own specification allows, so they inherit the
\* ledger's promise about outcomes.
THEOREM DeclarationsImplement == Spec => ImplementsLedger
  <1>1. Init => directive = {} /\ PipelineInit
    BY DEF Init
  <1>2. Spec => DirectivesSpec
    BY <1>1, Invariants, StepUsesDirectives, PTL DEF Spec, DirectivesSpec
  <1>. QED
    BY <1>2, Implements, PTL

-----------------------------------------------------------------------------
(* What a completed Job says about PostgreSQL. *)

\* Until Patroni fails over, directives go to the leader's site, so every Job
\* runs there and a Job that completes has run its SQL.
SqlInv ==
    ~moved =>
        /\ primary = leader
        /\ \A t \in down : t[1] = leader
        /\ \A t \in Tasks : worker[t] = "executing" \/ job[t] # "none" => t[1] = leader
        /\ \A t \in done : t[2] \in ran

LEMMA SqlInit == Init => SqlInv
  BY DEF Init, PipelineInit, SqlInv

\* A step that sends nothing, starts nothing and completes nothing.
LEMMA QuietSql ==
    ASSUME SqlInv, UNCHANGED <<done, postgres>>, down' \subseteq down,
           \A t \in Tasks : /\ worker'[t] = "executing" => worker[t] = "executing"
                            /\ job'[t] # "none" => job[t] # "none"
    PROVE  SqlInv'
  BY DEF SqlInv, postgres

LEMMA AgentSql ==
    ASSUME NEW t \in Tasks, IInv, SqlInv, sendDirectives(t) \/ Pipeline(t)
    PROVE  SqlInv'
  <1>1. UNCHANGED <<done, postgres>>
    BY DEF sendDirectives, SendDirective, Pipeline, AgentStep, ReceiveDirective, StartJob, ExecuteFails,
           waitForJob, MarkTerminal, JobExpires
  <1>2. worker \in [Tasks -> WorkerStates] /\ DOMAIN job = Tasks
    BY DEF IInv, DirectivesTypeOK
  <1>3. CASE sendDirectives(t)
    BY <1>1, <1>3 DEF sendDirectives, SendDirective, SqlInv, postgres
  <1>4. CASE ReceiveDirective(t)
    BY <1>1, <1>2, <1>4 DEF ReceiveDirective, SqlInv, postgres
  <1>5. CASE StartJob(t)
    BY <1>1, <1>2, <1>5 DEF StartJob, SqlInv, postgres
  <1>6. CASE ExecuteFails(t) \/ waitForJob(t) \/ MarkTerminal(t) \/ JobExpires(t)
    <2>1. /\ down' \subseteq down
          /\ \A u \in Tasks : /\ worker'[u] = "executing" => worker[u] = "executing"
                              /\ job'[u] # "none" => job[u] # "none"
      BY <1>2, <1>6 DEF ExecuteFails, waitForJob, MarkTerminal, JobExpires
    <2>. QED
      BY <1>1, <2>1, QuietSql
  <1>. QED
    BY <1>3, <1>4, <1>5, <1>6 DEF Pipeline, AgentStep

\* The Job runs where the leader is, as Patroni has not moved it.
LEMMA JobSql ==
    ASSUME NEW t \in Tasks, IInv, SqlInv, RunSQLJob(t)
    PROVE  SqlInv'
  <1>1. UNCHANGED <<primary, leader, moved, down, worker>>
    BY DEF RunSQLJob, JobCompletes, JobFails
  <1>2. job[t] = "running" /\ \A u \in Tasks : job'[u] # "none" => job[u] # "none"
    BY DEF RunSQLJob, JobCompletes, JobFails, IInv, DirectivesTypeOK
  <1>3. \/ done' = done \cup {t} /\ ran' = ran \cup {t[2]}
        \/ t[1] # leader
        \/ UNCHANGED <<done, ran>>
    BY DEF RunSQLJob, JobCompletes, JobFails, QuitsUnnoticed, Audited
  <1>. QED
    BY <1>1, <1>2, <1>3 DEF SqlInv

LEMMA SqlNext == IInv /\ SqlInv /\ [Next]_vars => SqlInv'
  <1>. SUFFICES ASSUME IInv, SqlInv, [Next]_vars PROVE SqlInv'
    OBVIOUS
  <1>1. CASE \E d \in Decls : Edit(d) \/ Delete(d) \/ ForceOrphan(d) \/ Reconcile(d) \/ ReconcileDeletion(d)
    BY <1>1, QuietSql DEF Edit, Delete, ForceOrphan, Reconcile, ReconcileDeletion, dvars, pipeline
  <1>2. CASE LoseParent
    BY <1>2, QuietSql DEF LoseParent
  <1>3. CASE ObserveTopology \/ \E s \in Sites : Failover(s)
    BY <1>3 DEF ObserveTopology, Failover, SqlInv, dvars, pipeline
  <1>4. CASE \E s \in Sites : (Connect(s) \/ BreakStream(s)) /\ UNCHANGED <<hub, postgres>>
    BY <1>4, QuietSql DEF Connect, BreakStream, Disconnect, Of
  <1>5. CASE \E t \in Tasks : sendDirectives(t) \/ Pipeline(t) \/ RunSQLJob(t)
    BY <1>5, AgentSql, JobSql
  <1>6. CASE \E x \in Tasks \X Outcomes :
               recordDirectiveResult(x) \/ (LateWriteLands(x) /\ UNCHANGED <<hub, postgres>>)
    BY <1>6, QuietSql DEF recordDirectiveResult, RecordResult, RefuseResult, Disconnect, Of, LateWriteLands
  <1>7. CASE UNCHANGED vars
    BY <1>7, QuietSql DEF vars, dvars, pipeline
  <1>. QED
    BY <1>1, <1>2, <1>3, <1>4, <1>5, <1>6, <1>7 DEF Next

\* A declaration with policy Delete whose finalizer was removed was
\* force-orphaned, or the Job of its own DROP completed and, unless Patroni had
\* failed over, PostgreSQL ran that DROP (the deletion branches of the two
\* Reconciles, recordDatabaseDirectiveResult, recordUserDirectiveResult, and the
\* psql preflight of sqlJob).
THEOREM DropTheorem == Spec => []DeletedWasDropped
  <1>1. Init => SqlInv
    BY SqlInit
  <1>2. IInv /\ SqlInv /\ [Next]_vars => SqlInv'
    BY SqlNext
  <1>3. DInv /\ SqlInv => DeletedWasDropped
    <2>1. SUFFICES ASSUME DInv, SqlInv, NEW d \in Decls, ~object[d].exists,
                          object[d].policy = "Delete", ~object[d].forced
                   PROVE  LET drop == <<d, object[d].generation, TRUE>>
                          IN Applied(drop) /\ (drop \in ran \/ moved)
      BY DEF DeletedWasDropped
    <2>2. object[d].deleting = TRUE /\ Applied(Operation(d))
      BY <2>1 DEF DInv, DeletedIsDropped, DeclTypes, Objects
    <2>3. Operation(d) = <<d, object[d].generation, TRUE>>
      BY <2>2 DEF Operation
    <2>4. ~moved => Operation(d) \in ran
      BY <2>1, <2>2 DEF SqlInv, Applied
    <2>. QED
      BY <2>2, <2>3, <2>4
  <1>. QED
    BY <1>1, <1>2, <1>3, Invariants, PTL DEF Spec

-----------------------------------------------------------------------------
(* A user after its role. *)

\* A completed Job of a database that declares the role created the role; so a
\* success that the live declaration holds, and its Ready condition, say that
\* the role exists.  DROP DATABASE leaves it.
RoleInv ==
    /\ catalog \in [database : Nat, role : BOOLEAN, user : Nat]
    /\ \A t \in done : Declaration(t[2]) = "database" /\ ~t[2][3] => catalog.role
    /\ status["database"].succeeded => object["database"].deleting \/ catalog.role
    /\ status["database"].ready => catalog.role
    /\ UserAfterRole

LEMMA RoleInit == Init => RoleInv
  BY DEF Init, PipelineInit, RoleInv, UserAfterRole, Decls

\* A step that leaves the statuses, the directives and the work done as they
\* were, and does not take the role or a deletion back.
LEMMA QuietRole ==
    ASSUME RoleInv, UNCHANGED <<directive, status, done, catalog>>,
           object["database"].deleting => object'["database"].deleting
    PROVE  RoleInv'
  BY DEF RoleInv, UserAfterRole

LEMMA TenantRole ==
    ASSUME NEW d \in Decls, DInv, RoleInv, Edit(d) \/ Delete(d) \/ ForceOrphan(d)
    PROVE  RoleInv'
  <1>1. UNCHANGED <<directive, status, done, catalog>>
    BY DEF Edit, Delete, ForceOrphan, dvars, pipeline, postgres
  <1>2. object["database"].deleting => object'["database"].deleting
    BY DEF Edit, Delete, ForceOrphan, DInv, DeclTypes, Objects, Decls
  <1>. QED
    BY <1>1, <1>2, QuietRole

\* What a status write leaves of the database's status.
LEMMA WrittenStatus ==
    ASSUME NEW d \in Decls, NEW s, DeclTypes, WriteStatus(d, s)
    PROVE  status'["database"] = status["database"] \/ (d = "database" /\ status'["database"] = s)
  BY DEF WriteStatus, DeclTypes, Decls

\* Only a user that was admitted adds a directive of its kind, and admission
\* asks for the database's Ready condition; Ready asks for its success.
LEMMA ReconcileRole ==
    ASSUME NEW d \in Decls, DInv, RoleInv, Reconcile(d)
    PROVE  RoleInv'
  <1>1. UNCHANGED <<object, done, catalog>> /\ ~object[d].deleting
    BY DEF Reconcile, postgres
  <1>2. /\ status'["database"].succeeded = status["database"].succeeded
        /\ status'["database"].ready =>
              status["database"].ready \/ (d = "database" /\ status["database"].succeeded)
    <2>1. status[d] \in Statuses
      BY GenerationObserved DEF DInv
    <2>2. \E s : /\ WriteStatus(d, s)
                 /\ s.succeeded = status[d].succeeded
                 /\ s.ready => status[d].succeeded
      <3> DEFINE pending == [status[d] EXCEPT !.phase = "Pending", !.ready = FALSE]
                 ready == [status[d] EXCEPT !.phase = "Ready", !.ready = TRUE]
                 working == [status[d] EXCEPT !.observed = object[d].generation,
                                              !.phase = "Reconciling", !.ready = FALSE]
      <3>1. /\ pending.succeeded = status[d].succeeded /\ ~pending.ready
            /\ ready.succeeded = status[d].succeeded
            /\ working.succeeded = status[d].succeeded /\ ~working.ready
        BY <2>1 DEF Statuses
      <3>2. \/ WriteStatus(d, pending)
            \/ status[d].succeeded /\ WriteStatus(d, ready)
            \/ WriteStatus(d, working)
        BY DEF Reconcile
      <3>. HIDE DEF pending, ready, working
      <3>. QED
        BY <3>1, <3>2
    <2>. QED
      BY <2>2, WrittenStatus DEF DInv
  <1>3. UserAfterRole'
    <2>1. directive' \subseteq directive \cup {Operation(d)}
      BY DEF Reconcile, reconcileDirective
    <2>2. Operation(d) \in directive' /\ d = "user" => Operation(d) \in directive \/ catalog.role
      BY DEF Reconcile, Admitted, RoleInv
    <2>3. Declaration(Operation(d)) = d
      BY OperationIsOp DEF DInv
    <2>. QED
      BY <1>1, <2>1, <2>2, <2>3 DEF RoleInv, UserAfterRole, Declaration
  <1>. QED
    BY <1>1, <1>2, <1>3 DEF RoleInv

LEMMA DeletionRole ==
    ASSUME NEW d \in Decls, DInv, RoleInv, ReconcileDeletion(d)
    PROVE  RoleInv'
  <1>1. UNCHANGED <<done, catalog>> /\ object[d].deleting
    BY DEF ReconcileDeletion, postgres
  <1>2. object'["database"].deleting = object["database"].deleting
    BY DEF ReconcileDeletion, RemoveFinalizer, DInv, DeclTypes, Objects, Decls
  <1>3. /\ status'["database"].succeeded = status["database"].succeeded
        /\ status'["database"].ready = status["database"].ready
    <2>1. status[d] \in Statuses
      BY GenerationObserved DEF DInv
    <2> DEFINE orphaned == [status[d] EXCEPT !.observed = object[d].generation, !.phase = "Orphaned"]
               deleting == [status[d] EXCEPT !.observed = object[d].generation, !.phase = "Deleting"]
    <2>2. /\ orphaned.succeeded = status[d].succeeded /\ orphaned.ready = status[d].ready
          /\ deleting.succeeded = status[d].succeeded /\ deleting.ready = status[d].ready
      BY <2>1 DEF Statuses
    <2>3. UNCHANGED status \/ WriteStatus(d, orphaned) \/ WriteStatus(d, deleting)
      BY DEF ReconcileDeletion
    <2>. HIDE DEF orphaned, deleting
    <2>. QED
      BY <2>2, <2>3, WrittenStatus DEF DInv
  <1>4. UserAfterRole'
    <2>1. directive' \subseteq directive \cup {Operation(d)}
      BY DEF ReconcileDeletion, reconcileDirective, RemoveFinalizer
    <2>2. Operation(d)[3] = object[d].deleting
      BY DEF Operation
    <2>. QED
      BY <1>1, <2>1, <2>2 DEF RoleInv, UserAfterRole
  <1>. QED
    BY <1>1, <1>2, <1>3, <1>4 DEF RoleInv

\* The Job that creates or alters the database also creates its roles; one that
\* quits on a standby without being noticed is of a user or of a deletion.
LEMMA JobRole ==
    ASSUME NEW t \in Tasks, RoleGeneration = 1, RoleInv, RunSQLJob(t)
    PROVE  RoleInv'
  <1>1. UNCHANGED <<directive, object, status>>
    BY DEF RunSQLJob, hub
  <1>2. PICK s \in Sites, op \in Ops : t = <<s, op>>
    BY DEF Tasks
  <1>3. op[2] \in Nat /\ op[2] >= 1 /\ op[3] \in BOOLEAN /\ Declaration(op) \in Decls
    BY OpsAssumption, GenerationAssumption DEF Declaration, Decls
  <1>4. CASE JobCompletes(t) /\ catalog' = ApplySQL(op)
    <2>1. /\ catalog' \in [database : Nat, role : BOOLEAN, user : Nat]
          /\ catalog.role => catalog'.role
          /\ Declaration(op) = "database" /\ ~op[3] => catalog'.role
      BY <1>3, <1>4 DEF ApplySQL, RoleInv, Decls
    <2>2. done' = done \cup {t} /\ t[2] = op
      BY <1>2, <1>4 DEF JobCompletes
    <2>. QED
      BY <1>1, <2>1, <2>2 DEF RoleInv, UserAfterRole
  <1>5. CASE UNCHANGED <<done, catalog>>
    BY <1>1, <1>5, QuietRole
  <1>6. CASE QuitsUnnoticed(t) /\ JobCompletes(t) /\ UNCHANGED catalog
    <2>1. done' = done \cup {t} /\ t[2] = op
      BY <1>2, <1>6 DEF JobCompletes
    <2>2. ~(Declaration(op) = "database" /\ ~op[3])
      BY <1>2, <1>6 DEF QuitsUnnoticed, Audited
    <2>. QED
      BY <1>1, <1>6, <2>1, <2>2 DEF RoleInv, UserAfterRole
  <1>. QED
    BY <1>2, <1>4, <1>5, <1>6 DEF RunSQLJob, JobFails

\* A recorded success is of work that was done; of a deletion, it is of the
\* live object's own (DropsAreCurrent).
LEMMA RecordRole ==
    ASSUME NEW x \in Tasks \X Outcomes, IInv, DInv, RoleInv, recordDirectiveResult(x)
    PROVE  RoleInv'
  <1>1. UNCHANGED <<directive, object, done, catalog>>
    BY DEF recordDirectiveResult, RecordResult, RefuseResult, Disconnect, postgres
  <1>2. CASE UNCHANGED status
    BY <1>1, <1>2, QuietRole
  <1>3. CASE RecordResult(x) /\ status' = [status EXCEPT ![Declaration(x[1][2])] = ResultStatus(x[1][2], x[2])]
    <2>1. PICK s \in Sites, op \in Ops, o \in Outcomes : x = <<<<s, op>>, o>>
      BY DEF Tasks
    <2>2. op \in directive /\ <<<<s, op>>, o>> \in reported
      BY <1>3, <2>1 DEF RecordResult, IInv, ReportedIsDecided
    <2>3. Declaration(op) \in Decls
      BY OpsAssumption DEF Declaration, Decls
    <2>4. o = "Succeeded" => <<s, op>> \in done
      BY <2>1, <2>2 DEF IInv, SuccessIsDone, Tasks
    <2>5. /\ status'["database"].ready = status["database"].ready
          /\ \/ status'["database"].succeeded = status["database"].succeeded
             \/ Declaration(op) = "database" /\ (status'["database"].succeeded => o = "Succeeded")
      BY <1>3, <2>1, <2>3 DEF ResultStatus, DInv, DeclTypes, Statuses, Decls
    <2>6. o = "Succeeded" /\ Declaration(op) = "database" => object["database"].deleting \/ catalog.role
      BY <2>2, <2>4 DEF RoleInv, DInv, DropsAreCurrent
    <2>. QED
      BY <1>1, <2>5, <2>6 DEF RoleInv, UserAfterRole
  <1>. QED
    BY <1>2, <1>3 DEF recordDirectiveResult

LEMMA RoleNext ==
    ASSUME RoleGeneration = 1, IInv, DInv, RoleInv, [Next]_vars
    PROVE  RoleInv'
  <1>1. CASE \E d \in Decls : Edit(d) \/ Delete(d) \/ ForceOrphan(d) \/ Reconcile(d) \/ ReconcileDeletion(d)
    BY <1>1, TenantRole, ReconcileRole, DeletionRole
  <1>2. CASE LoseParent \/ ObserveTopology \/ \E s \in Sites : Failover(s)
    BY <1>2, QuietRole DEF LoseParent, Failover, ObserveTopology, postgres, dvars, pipeline
  <1>3. CASE \E s \in Sites : (Connect(s) \/ BreakStream(s)) /\ UNCHANGED <<hub, postgres>>
    BY <1>3, QuietRole DEF Connect, BreakStream, Disconnect, hub, postgres
  <1>4. CASE \E t \in Tasks : sendDirectives(t) \/ Pipeline(t)
    BY <1>4, QuietRole
       DEF sendDirectives, SendDirective, Pipeline, AgentStep, ReceiveDirective, StartJob, ExecuteFails,
           waitForJob, MarkTerminal, JobExpires, hub, postgres
  <1>5. CASE \E t \in Tasks : RunSQLJob(t)
    BY <1>5, JobRole
  <1>6. CASE \E x \in Tasks \X Outcomes :
               recordDirectiveResult(x) \/ (LateWriteLands(x) /\ UNCHANGED <<hub, postgres>>)
    BY <1>6, RecordRole, QuietRole DEF LateWriteLands, hub, postgres
  <1>7. CASE UNCHANGED vars
    BY <1>7, QuietRole DEF vars, dvars, pipeline, postgres
  <1>. QED
    BY <1>1, <1>2, <1>3, <1>4, <1>5, <1>6, <1>7 DEF Next

\* When the database has declared the role since it was created, a user's
\* directive is issued only while the role exists in PostgreSQL: the Ready
\* condition that PostgresUserReconciler.Reconcile waits for is never older
\* than the GRANT's precondition.  (A role that a later generation adds is
\* another matter: Ready can be of the generation before it.)
THEOREM RoleTheorem ==
    ASSUME RoleGeneration = 1
    PROVE  Spec => []UserAfterRole
  <1>1. Init => RoleInv
    BY RoleInit
  <1>2. IInv /\ DInv /\ RoleInv /\ [Next]_vars => RoleInv'
    BY RoleNext
  <1>3. RoleInv => UserAfterRole
    BY DEF RoleInv
  <1>. QED
    BY <1>1, <1>2, <1>3, Invariants, PTL DEF Spec
==============================================================================
