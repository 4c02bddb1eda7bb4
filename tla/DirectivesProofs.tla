--------------------------- MODULE DirectivesProofs ---------------------------
(***************************************************************************)
(* The directive machinery implements the operation ledger, for any sites, *)
(* operations and number of faults, whoever publishes the directives.      *)
(***************************************************************************)
EXTENDS Directives, TLAPS

Results == Tasks \X Outcomes

\* Why no success is invented: wherever a success is written down (the Job,
\* the worker, the store, a write in flight, a result), the work was done.
\* Why nothing is reported undecided: a result is sent after its store write.
SuccessIsDone ==
    /\ \A t \in Tasks : job[t] = "complete" => t \in done
    /\ \A t \in Tasks : worker[t] = "Succeeded" => t \in done
    /\ \A t \in Tasks : store[t] = "Succeeded" => t \in done
    /\ \A t \in Tasks : <<t, "Succeeded">> \in late => t \in done
    /\ \A t \in Tasks : <<t, "Succeeded">> \in reported => t \in done

ReportedIsDecided ==
    /\ up \subseteq reported
    /\ \A x \in reported : store[x[1]] \in Outcomes

IInv == DirectivesTypeOK /\ SuccessIsDone /\ ReportedIsDecided

LEMMA InitIInv == directive = {} /\ PipelineInit => IInv
  BY FaultsAssumption
     DEF PipelineInit, IInv, DirectivesTypeOK, SuccessIsDone, ReportedIsDecided, WorkerStates, Outcomes

\* The steps that touch only the hub side, the stream or the Job.
LEMMA PublishIInv == IInv /\ Publish => IInv'
  BY FaultsAssumption DEF Publish, IInv, DirectivesTypeOK, SuccessIsDone, ReportedIsDecided

LEMMA ConnectIInv ==
    ASSUME NEW s \in Sites, IInv, Connect(s), UNCHANGED directive
    PROVE  IInv'
  BY DEF Connect, IInv, DirectivesTypeOK, SuccessIsDone, ReportedIsDecided

LEMMA DisconnectIInv ==
    ASSUME NEW s \in Sites, IInv, Disconnect(s), UNCHANGED directive,
           up' \subseteq up, faults' \in 0..MaxFaults
    PROVE  IInv'
  <1>1. DirectivesTypeOK'
    <2>1. stream' \in [Sites -> BOOLEAN] /\ sent' \subseteq Tasks /\ down' \subseteq Tasks
      BY DEF Disconnect, IInv, DirectivesTypeOK, Of
    <2>2. worker' \in [Tasks -> WorkerStates]
      BY DEF Disconnect, IInv, DirectivesTypeOK, WorkerStates
    <2>3. late' \subseteq Results
      BY DEF Disconnect, IInv, DirectivesTypeOK, Storing, Results
    <2>. QED
      BY <2>1, <2>2, <2>3 DEF Disconnect, IInv, DirectivesTypeOK, Results
  <1>2. \A t \in Tasks : worker'[t] = "Succeeded" => worker[t] = "Succeeded"
    BY DEF Disconnect
  <1>3. \A t \in Tasks : <<t, "Succeeded">> \in late' =>
            <<t, "Succeeded">> \in late \/ worker[t] = "Succeeded"
    BY DEF Disconnect, Storing
  <1>4. SuccessIsDone'
    BY <1>2, <1>3 DEF Disconnect, IInv, SuccessIsDone
  <1>5. ReportedIsDecided'
    BY DEF Disconnect, IInv, ReportedIsDecided
  <1>. QED
    BY <1>1, <1>4, <1>5 DEF IInv

LEMMA BreakIInv ==
    ASSUME NEW s \in Sites, IInv, BreakStream(s), UNCHANGED directive
    PROVE  IInv'
  <1>1. Disconnect(s) /\ up' \subseteq up
    BY DEF BreakStream
  <1>2. faults' \in 0..MaxFaults
    BY FaultsAssumption DEF BreakStream, IInv, DirectivesTypeOK
  <1>. QED
    BY <1>1, <1>2, DisconnectIInv

LEMMA JobIInv ==
    ASSUME NEW t \in Tasks, IInv, JobStep(t), UNCHANGED directive
    PROVE  IInv'
  <1>1. CASE JobCompletes(t)
    BY <1>1 DEF JobCompletes, IInv, DirectivesTypeOK, SuccessIsDone, ReportedIsDecided
  <1>2. CASE \E cost \in {0, 1} : JobFails(t, cost)
    BY <1>2, FaultsAssumption DEF JobFails, IInv, DirectivesTypeOK, SuccessIsDone, ReportedIsDecided
  <1>3. CASE JobExpires(t)
    BY <1>3, FaultsAssumption DEF JobExpires, IInv, DirectivesTypeOK, SuccessIsDone, ReportedIsDecided
  <1>. QED
    BY <1>1, <1>2, <1>3 DEF JobStep

LEMMA SendIInv ==
    ASSUME NEW t \in Tasks, IInv, SendDirective(t), UNCHANGED directive
    PROVE  IInv'
  BY DEF SendDirective, IInv, DirectivesTypeOK, SuccessIsDone, ReportedIsDecided

\* The steps of a worker.
LEMMA ReceiveIInv ==
    ASSUME NEW t \in Tasks, IInv, ReceiveDirective(t), UNCHANGED directive
    PROVE  IInv'
  <1>1. CASE store[t] \in Outcomes
    BY <1>1 DEF ReceiveDirective, IInv, DirectivesTypeOK, SuccessIsDone, ReportedIsDecided
  <1>2. CASE store[t] \notin Outcomes
    <2>1. DirectivesTypeOK'
      BY <1>2 DEF ReceiveDirective, IInv, DirectivesTypeOK, WorkerStates
    <2>2. SuccessIsDone'
      BY <1>2 DEF ReceiveDirective, IInv, DirectivesTypeOK, SuccessIsDone
    <2>3. ReportedIsDecided'
      BY <1>2 DEF ReceiveDirective, IInv, DirectivesTypeOK, ReportedIsDecided
    <2>. QED
      BY <2>1, <2>2, <2>3 DEF IInv
  <1>. QED
    BY <1>1, <1>2

LEMMA ExecuteIInv ==
    ASSUME NEW t \in Tasks, IInv, StartJob(t) \/ ExecuteFails(t) \/ waitForJob(t),
           UNCHANGED directive
    PROVE  IInv'
  <1>1. CASE StartJob(t)
    <2>1. DirectivesTypeOK'
      BY <1>1 DEF StartJob, IInv, DirectivesTypeOK, WorkerStates
    <2>2. SuccessIsDone' /\ ReportedIsDecided'
      BY <1>1 DEF StartJob, IInv, DirectivesTypeOK, SuccessIsDone, ReportedIsDecided
    <2>. QED
      BY <2>1, <2>2 DEF IInv
  <1>2. CASE ExecuteFails(t)
    <2>1. DirectivesTypeOK'
      BY <1>2, FaultsAssumption DEF ExecuteFails, IInv, DirectivesTypeOK, WorkerStates, Outcomes
    <2>2. SuccessIsDone' /\ ReportedIsDecided'
      BY <1>2 DEF ExecuteFails, IInv, DirectivesTypeOK, SuccessIsDone, ReportedIsDecided
    <2>. QED
      BY <2>1, <2>2 DEF IInv
  <1>3. CASE waitForJob(t)
    <2>1. DirectivesTypeOK'
      BY <1>3 DEF waitForJob, IInv, DirectivesTypeOK, WorkerStates, Outcomes
    <2>2. SuccessIsDone'
      BY <1>3 DEF waitForJob, IInv, DirectivesTypeOK, SuccessIsDone
    <2>3. ReportedIsDecided'
      BY <1>3 DEF waitForJob, IInv, ReportedIsDecided
    <2>. QED
      BY <2>1, <2>2, <2>3 DEF IInv
  <1>. QED
    BY <1>1, <1>2, <1>3

LEMMA MarkTerminalIInv ==
    ASSUME NEW t \in Tasks, IInv, MarkTerminal(t), UNCHANGED directive
    PROVE  IInv'
  <1>1. DirectivesTypeOK'
    BY DEF MarkTerminal, Upsert, IInv, DirectivesTypeOK, WorkerStates
  <1>2. store'[t] \in Outcomes /\ \A u \in Tasks \ {t} : store'[u] = store[u]
    BY DEF MarkTerminal, Upsert, IInv, DirectivesTypeOK
  <1>3. store'[t] = "Succeeded" => t \in done
    BY DEF MarkTerminal, Upsert, IInv, DirectivesTypeOK, SuccessIsDone
  <1>4. SuccessIsDone'
    BY <1>2, <1>3 DEF MarkTerminal, IInv, DirectivesTypeOK, SuccessIsDone
  <1>5. ReportedIsDecided'
    BY <1>2 DEF MarkTerminal, IInv, DirectivesTypeOK, ReportedIsDecided
  <1>. QED
    BY <1>1, <1>4, <1>5 DEF IInv

LEMMA LateIInv ==
    ASSUME NEW x \in Results, IInv, LateWriteLands(x), UNCHANGED directive
    PROVE  IInv'
  <1>1. PICK t \in Tasks, o \in Outcomes : x = <<t, o>>
    BY DEF Results
  <1>2. DirectivesTypeOK'
    BY <1>1 DEF LateWriteLands, Upsert, IInv, DirectivesTypeOK
  <1>3. /\ store'[t] \in Outcomes
        /\ store'[t] = "Succeeded" => t \in done
        /\ \A u \in Tasks \ {t} : store'[u] = store[u]
    BY <1>1 DEF LateWriteLands, Upsert, IInv, DirectivesTypeOK, SuccessIsDone
  <1>4. SuccessIsDone'
    BY <1>3 DEF LateWriteLands, IInv, SuccessIsDone
  <1>5. ReportedIsDecided'
    BY <1>3 DEF LateWriteLands, IInv, DirectivesTypeOK, ReportedIsDecided
  <1>. QED
    BY <1>2, <1>4, <1>5 DEF IInv

LEMMA ResultIInv ==
    ASSUME NEW x \in Results, IInv, RecordResult(x) \/ RefuseResult(x), UNCHANGED directive
    PROVE  IInv'
  <1>1. CASE RecordResult(x)
    BY <1>1 DEF RecordResult, IInv, DirectivesTypeOK, SuccessIsDone, ReportedIsDecided
  <1>2. CASE RefuseResult(x) /\ Disconnect(x[1][1])
    <2>1. x[1][1] \in Sites
      BY DEF Results, Tasks
    <2>2. up' \subseteq up /\ faults' \in 0..MaxFaults
      BY <1>2 DEF RefuseResult, IInv, DirectivesTypeOK
    <2>. QED
      BY <1>2, <2>1, <2>2, DisconnectIInv
  <1>3. CASE RefuseResult(x) /\ UNCHANGED <<stream, sent, down, worker, store, late, job, done, reported>>
    BY <1>3 DEF RefuseResult, IInv, DirectivesTypeOK, SuccessIsDone, ReportedIsDecided
  <1>. QED
    BY <1>1, <1>2, <1>3 DEF RefuseResult

LEMMA NextIInv == IInv /\ [DirectivesNext]_dvars => IInv'
  <1>. SUFFICES ASSUME IInv, [DirectivesNext]_dvars PROVE IInv'
    OBVIOUS
  <1>1. CASE Publish
    BY <1>1, PublishIInv
  <1>2. CASE UNCHANGED directive /\ \E s \in Sites : Connect(s) \/ BreakStream(s)
    BY <1>2, ConnectIInv, BreakIInv
  <1>3. CASE UNCHANGED directive /\ \E t \in Tasks : SendDirective(t) \/ AgentStep(t) \/ JobStep(t)
    BY <1>3, SendIInv, ReceiveIInv, ExecuteIInv, MarkTerminalIInv, JobIInv DEF AgentStep
  <1>4. CASE UNCHANGED directive /\ \E x \in Tasks \X Outcomes :
                LateWriteLands(x) \/ RecordResult(x) \/ RefuseResult(x)
    BY <1>4, LateIInv, ResultIInv DEF Results
  <1>5. CASE UNCHANGED dvars
    BY <1>5 DEF dvars, pipeline, IInv, DirectivesTypeOK, SuccessIsDone, ReportedIsDecided
  <1>. QED
    BY <1>1, <1>2, <1>3, <1>4, <1>5 DEF DirectivesNext

-----------------------------------------------------------------------------
(* The refinement. *)

Decision == [t \in Tasks |-> IF store[t] \in Outcomes THEN store[t] ELSE "none"]

LEMMA InitImplements == directive = {} /\ PipelineInit => Ledger!LedgerInit
  BY DEF PipelineInit, Ledger!LedgerInit, Outcomes

\* Steps that leave the store, the work and the reports alone are stutters.
LEMMA StutterImplements ==
    UNCHANGED <<store, done, reported>> => UNCHANGED Ledger!ledger
  BY DEF Ledger!ledger

LEMMA ReceiveImplements ==
    ASSUME NEW t \in Tasks, IInv, ReceiveDirective(t)
    PROVE  [Ledger!LedgerNext]_Ledger!ledger
  <1>1. CASE store[t] \in Outcomes
    <2>1. UNCHANGED store /\ UNCHANGED done /\ reported' = reported \cup {<<t, store[t]>>}
      BY <1>1 DEF ReceiveDirective
    <2>2. Decision[t] = store[t] /\ store[t] # "none" /\ Decision' = Decision
      BY <1>1, <2>1 DEF Decision, Outcomes
    <2>3. store[t] = "Succeeded" => t \in done
      BY DEF IInv, SuccessIsDone
    <2>4. Ledger!Report(t, store[t])
      BY <2>1, <2>2, <2>3 DEF Ledger!Report, Decision
    <2>. QED
      BY <1>1, <2>4 DEF Ledger!LedgerNext, Ledger!Outcomes, Outcomes
  <1>2. CASE store[t] \notin Outcomes
    <2>1. store' = [store EXCEPT ![t] = "Running"] /\ UNCHANGED <<done, reported>>
      BY <1>2 DEF ReceiveDirective
    <2>2. Decision' = Decision
      BY <1>2, <2>1 DEF IInv, DirectivesTypeOK, Decision, Outcomes
    <2>. QED
      BY <2>1, <2>2 DEF Ledger!ledger, Decision
  <1>. QED
    BY <1>1, <1>2

LEMMA MarkTerminalImplements ==
    ASSUME NEW t \in Tasks, IInv, MarkTerminal(t)
    PROVE  Ledger!LedgerNext
  <1>1. PICK o \in Outcomes : o = worker[t]
    BY DEF MarkTerminal
  <1>2. o = "Succeeded" => t \in done
    BY <1>1 DEF MarkTerminal, IInv, SuccessIsDone
  <1>3. Decision' = [Decision EXCEPT ![t] = IF @ = "none" THEN o ELSE @]
    BY <1>1 DEF MarkTerminal, Upsert, IInv, DirectivesTypeOK, Decision, Outcomes
  <1>4. Ledger!DecideAndReport(t, o)
    BY <1>1, <1>2, <1>3 DEF MarkTerminal, Ledger!DecideAndReport, Decision
  <1>. QED
    BY <1>4 DEF Ledger!LedgerNext, Ledger!Outcomes, Outcomes

LEMMA LateImplements ==
    ASSUME NEW x \in Results, IInv, LateWriteLands(x)
    PROVE  [Ledger!LedgerNext]_Ledger!ledger
  <1>1. PICK t \in Tasks, o \in Outcomes : x = <<t, o>>
    BY DEF Results
  <1>2. store' = Upsert(t, o) /\ UNCHANGED <<done, reported>> /\ (o = "Succeeded" => t \in done)
    BY <1>1 DEF LateWriteLands, IInv, SuccessIsDone
  <1>3. CASE store[t] \in Outcomes
    <2>1. store' = store
      BY <1>2, <1>3 DEF Upsert, IInv, DirectivesTypeOK
    <2>. QED
      BY <1>2, <2>1, StutterImplements
  <1>4. CASE store[t] \notin Outcomes
    <2>1. Decision[t] = "none" /\ Decision' = [Decision EXCEPT ![t] = o]
      BY <1>2, <1>4 DEF Upsert, IInv, DirectivesTypeOK, Decision, Outcomes
    <2>2. Ledger!Decide(t, o)
      BY <1>2, <2>1 DEF Ledger!Decide, Decision
    <2>. QED
      BY <2>2 DEF Ledger!LedgerNext, Ledger!Outcomes, Outcomes
  <1>. QED
    BY <1>3, <1>4

LEMMA JobImplements ==
    ASSUME NEW t \in Tasks, JobStep(t)
    PROVE  [Ledger!LedgerNext]_Ledger!ledger
  <1>1. CASE JobCompletes(t)
    <2>1. Ledger!Work(t)
      BY <1>1 DEF JobCompletes, Ledger!Work
    <2>. QED
      BY <2>1 DEF Ledger!LedgerNext
  <1>2. CASE (\E cost \in {0, 1} : JobFails(t, cost)) \/ JobExpires(t)
    BY <1>2, StutterImplements DEF JobFails, JobExpires
  <1>. QED
    BY <1>1, <1>2 DEF JobStep

LEMMA StepImplements == IInv /\ [DirectivesNext]_dvars => [Ledger!LedgerNext]_Ledger!ledger
  <1>. SUFFICES ASSUME IInv, [DirectivesNext]_dvars PROVE [Ledger!LedgerNext]_Ledger!ledger
    OBVIOUS
  <1>1. CASE Publish \/ UNCHANGED dvars
    BY <1>1, StutterImplements DEF Publish, dvars, pipeline
  <1>2. CASE \E s \in Sites : Connect(s) \/ BreakStream(s)
    BY <1>2, StutterImplements DEF Connect, BreakStream, Disconnect
  <1>3. ASSUME NEW t \in Tasks, SendDirective(t) \/ AgentStep(t) \/ JobStep(t)
        PROVE  [Ledger!LedgerNext]_Ledger!ledger
    <2>1. CASE SendDirective(t) \/ StartJob(t) \/ ExecuteFails(t) \/ waitForJob(t)
      BY <2>1, StutterImplements DEF SendDirective, StartJob, ExecuteFails, waitForJob
    <2>. QED
      BY <1>3, <2>1, ReceiveImplements, MarkTerminalImplements, JobImplements DEF AgentStep
  <1>4. ASSUME NEW x \in Results, LateWriteLands(x) \/ RecordResult(x) \/ RefuseResult(x)
        PROVE  [Ledger!LedgerNext]_Ledger!ledger
    <2>1. CASE RecordResult(x) \/ RefuseResult(x)
      BY <2>1, StutterImplements DEF RecordResult, RefuseResult, Disconnect
    <2>. QED
      BY <1>4, <2>1, LateImplements
  <1>. QED
    BY <1>1, <1>2, <1>3, <1>4 DEF DirectivesNext, Results

\* Every behaviour of the directive machinery is a behaviour of the ledger:
\* applyDirective, the directive state store and the result path keep its
\* promise whatever the streams, the Jobs and the hub do.
THEOREM Implements == DirectivesSpec => ImplementsLedger
  <1>1. DirectivesSpec => []IInv
    BY InitIInv, NextIInv, PTL DEF DirectivesSpec
  <1>. QED
    BY <1>1, InitImplements, StepImplements, PTL DEF DirectivesSpec, ImplementsLedger, Ledger!LedgerSpec

\* A result the hub can receive was durably decided at the agent, and a
\* success it can receive is of work that took effect.
ResultsAreReal ==
    \A t \in Tasks, o \in Outcomes :
        <<t, o>> \in up => store[t] \in Outcomes /\ (o = "Succeeded" => t \in done)

\* sendDirectiveResult runs after MarkTerminal, or replays what it stored.
THEOREM ResultsTheorem == DirectivesSpec => []ResultsAreReal
  <1>1. IInv => ResultsAreReal
    BY DEF IInv, DirectivesTypeOK, SuccessIsDone, ReportedIsDecided, ResultsAreReal
  <1>. QED
    BY <1>1, InitIInv, NextIInv, PTL DEF DirectivesSpec
==============================================================================
