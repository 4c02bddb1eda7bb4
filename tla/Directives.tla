------------------------------ MODULE Directives ------------------------------
(***************************************************************************)
(* How a one-off operation travels: a directive ConfigMap on the hub, the  *)
(* site's stream, the agent's directive worker, the durable directive      *)
(* state, the Job that does the work, and the result on its way back.      *)
(*                                                                         *)
(*   hub     internal/control/server.go  sendDirectives, recordDirectiveResult *)
(*   agent   internal/control/client.go  Run, applyDirective                *)
(*           internal/control/directive_state.go                            *)
(*           internal/agent/directives.go  Execute and the Jobs it creates  *)
(*                                                                         *)
(* Which directives exist, which are trusted, which site they are for and  *)
(* what a recorded result changes belong to the modules that extend this   *)
(* one (Declarations, BackupOperations); on its own the module lets the    *)
(* environment publish and withdraw directives at will.                    *)
(***************************************************************************)
EXTENDS Naturals

CONSTANTS
    Sites,       \* sites with an agent
    Ops,         \* operation UIDs
    MaxFaults    \* bound on broken streams, execution errors and lost Jobs

ASSUME FaultsAssumption == MaxFaults \in Nat

VARIABLES
    directive,   \* operation UIDs that have a directive ConfigMap
    stream,      \* site -> its control stream is up
    sent,        \* tasks already sent on the site's current stream
    down,        \* directives on their way to the agent
    worker,      \* task -> where its directive worker is
    store,       \* task -> phase in the directive state ConfigMap
    late,        \* <<task, outcome>> writes of cancelled workers, still in flight
    job,         \* task -> its Job
    up,          \* <<task, outcome>> results on their way to the hub
    done,        \* history: tasks whose Job completed
    reported,    \* history: results ever sent
    faults

pipeline == <<stream, sent, down, worker, store, late, job, up, done, reported, faults>>
dvars == <<directive, pipeline>>

Tasks == Sites \X Ops
Outcomes == {"Succeeded", "Failed"}
WorkerStates == {"idle", "executing", "waiting"} \cup Outcomes
Of(s, set) == {x \in set : x[1] = s}

DirectivesTypeOK ==
    /\ directive \subseteq Ops
    /\ stream \in [Sites -> BOOLEAN]
    /\ sent \subseteq Tasks
    /\ down \subseteq Tasks
    /\ worker \in [Tasks -> WorkerStates]
    /\ store \in [Tasks -> Outcomes \cup {"none", "Running"}]
    /\ late \subseteq Tasks \X Outcomes
    /\ job \in [Tasks -> {"none", "running", "complete", "failed"}]
    /\ up \subseteq Tasks \X Outcomes
    /\ done \subseteq Tasks
    /\ reported \subseteq Tasks \X Outcomes
    /\ faults \in 0..MaxFaults

PipelineInit ==
    /\ stream = [s \in Sites |-> TRUE]
    /\ sent = {} /\ down = {} /\ late = {} /\ up = {}
    /\ worker = [t \in Tasks |-> "idle"]
    /\ store = [t \in Tasks |-> "none"]
    /\ job = [t \in Tasks |-> "none"]
    /\ done = {} /\ reported = {}
    /\ faults = 0

-----------------------------------------------------------------------------
(* The stream. *)

Connect(s) ==
    /\ ~stream[s]
    /\ stream' = [stream EXCEPT ![s] = TRUE]
    /\ UNCHANGED <<sent, down, worker, store, late, job, up, done, reported, faults>>

\* The outcomes that workers of s are storing at this moment.
Storing(s) == {x \in Tasks \X Outcomes : x[1][1] = s /\ worker[x[1]] = x[2]}

\* Run returns: its workers are cancelled. A write that a worker had already
\* issued may still land, and the server may still read what had arrived.
Disconnect(s) ==
    /\ stream' = [stream EXCEPT ![s] = FALSE]
    /\ sent' = sent \ Of(s, sent)
    /\ down' = down \ Of(s, down)
    /\ worker' = [t \in Tasks |-> IF t[1] = s THEN "idle" ELSE worker[t]]
    /\ \E issued \in SUBSET Storing(s) : late' = late \cup issued
    /\ UNCHANGED <<store, job, done, reported>>

BreakStream(s) ==
    /\ stream[s]
    /\ faults < MaxFaults
    /\ faults' = faults + 1
    /\ Disconnect(s)
    /\ \E lost \in SUBSET {x \in up : x[1][1] = s} : up' = up \ lost

-----------------------------------------------------------------------------
(* Hub to agent. *)

\* Once per stream and operation; a new stream starts with nothing sent.
SendDirective(t) ==
    /\ stream[t[1]]
    /\ t[2] \in directive
    /\ t \notin sent
    /\ sent' = sent \cup {t}
    /\ down' = down \cup {t}
    /\ UNCHANGED <<stream, worker, store, late, job, up, done, reported, faults>>

\* Mutant: a directive that is already terminal is dropped without an answer.
ReceiveWithoutReplay(t) ==
    /\ t \in down
    /\ down' = down \ {t}
    /\ IF store[t] \in Outcomes
       THEN UNCHANGED <<worker, store>>
       ELSE /\ worker' = [worker EXCEPT ![t] = "executing"]
            /\ store' = [store EXCEPT ![t] = "Running"]
    /\ UNCHANGED <<stream, sent, late, job, up, done, reported, faults>>

\* applyDirective up to MarkRunning: a stored terminal state is reported again
\* and nothing is executed.
ReceiveDirective(t) ==
    /\ t \in down
    /\ down' = down \ {t}
    /\ IF store[t] \in Outcomes
       THEN /\ up' = up \cup {<<t, store[t]>>}
            /\ reported' = reported \cup {<<t, store[t]>>}
            /\ UNCHANGED <<worker, store>>
       ELSE /\ worker' = [worker EXCEPT ![t] = "executing"]
            /\ store' = [store EXCEPT ![t] = "Running"]
            /\ UNCHANGED <<up, reported>>
    /\ UNCHANGED <<stream, sent, late, job, done, faults>>

-----------------------------------------------------------------------------
(* Execution. The Job is named after the operation: one that exists is     *)
(* waited for instead of created.                                          *)

StartJob(t) ==
    /\ worker[t] = "executing"
    /\ worker' = [worker EXCEPT ![t] = "waiting"]
    /\ job' = [job EXCEPT ![t] = IF @ = "none" THEN "running" ELSE @]
    /\ UNCHANGED <<stream, sent, down, store, late, up, done, reported, faults>>

\* Any error of Execute is an outcome, and so becomes the stored one: a plan
\* that is not cached, Vault or the API server failing, unreadable metadata of
\* a Job that did complete.
ExecuteFails(t) ==
    /\ worker[t] \in {"executing", "waiting"}
    /\ faults < MaxFaults
    /\ faults' = faults + 1
    /\ worker' = [worker EXCEPT ![t] = "Failed"]
    /\ UNCHANGED <<stream, sent, down, store, late, job, up, done, reported>>

waitForJob(t) ==
    /\ worker[t] = "waiting"
    /\ \/ job[t] = "complete" /\ worker' = [worker EXCEPT ![t] = "Succeeded"]
       \/ job[t] \in {"failed", "none"} /\ worker' = [worker EXCEPT ![t] = "Failed"]
    /\ UNCHANGED <<stream, sent, down, store, late, job, up, done, reported, faults>>

\* Mutant: the last writer wins.
UpsertAlways(t, o) == [store EXCEPT ![t] = o]

\* upsert never replaces a terminal phase.
Upsert(t, o) == [store EXCEPT ![t] = IF @ \in Outcomes THEN @ ELSE o]

\* MarkTerminal, then the result on the stream: always this worker's own
\* conditions, whatever is stored.
MarkTerminal(t) ==
    /\ worker[t] \in Outcomes
    /\ store' = Upsert(t, worker[t])
    /\ up' = up \cup {<<t, worker[t]>>}
    /\ reported' = reported \cup {<<t, worker[t]>>}
    /\ worker' = [worker EXCEPT ![t] = "idle"]
    /\ UNCHANGED <<stream, sent, down, late, job, done, faults>>

LateWriteLands(x) ==
    /\ x \in late
    /\ late' = late \ {x}
    /\ store' = Upsert(x[1], x[2])
    /\ UNCHANGED <<stream, sent, down, worker, job, up, done, reported, faults>>

-----------------------------------------------------------------------------
(* Kubernetes. *)

JobCompletes(t) ==
    /\ job[t] = "running"
    /\ job' = [job EXCEPT ![t] = "complete"]
    /\ done' = done \cup {t}
    /\ UNCHANGED <<stream, sent, down, worker, store, late, up, reported, faults>>

\* The Job's retries are spent or its deadline has passed. It costs a fault
\* unless the work could not succeed in the first place.
JobFails(t, cost) ==
    /\ job[t] = "running"
    /\ faults + cost <= MaxFaults
    /\ faults' = faults + cost
    /\ job' = [job EXCEPT ![t] = "failed"]
    /\ UNCHANGED <<stream, sent, down, worker, store, late, up, done, reported>>

\* ttlSecondsAfterFinished removes a finished Job.
JobExpires(t) ==
    /\ job[t] \in {"complete", "failed"}
    /\ faults < MaxFaults
    /\ faults' = faults + 1
    /\ job' = [job EXCEPT ![t] = "none"]
    /\ UNCHANGED <<stream, sent, down, worker, store, late, up, done, reported>>

-----------------------------------------------------------------------------
(* Agent to hub. *)

\* The ConfigMap that carries the operation UID is looked up and its owner's
\* status updated (by the extending module).
RecordResult(x) ==
    /\ x \in up
    /\ x[1][2] \in directive
    /\ up' = up \ {x}
    /\ UNCHANGED <<stream, sent, down, worker, store, late, job, done, reported, faults>>

\* No ConfigMap carries the operation any more: NotFound ends the stream the
\* result came on, the current one unless the site has reconnected since.
RefuseResult(x) ==
    /\ x \in up
    /\ x[1][2] \notin directive
    /\ up' = up \ {x}
    /\ UNCHANGED faults
    /\ \/ stream[x[1][1]] /\ Disconnect(x[1][1])
       \/ UNCHANGED <<stream, sent, down, worker, store, late, job, done, reported>>

AgentStep(t) ==
    ReceiveDirective(t) \/ StartJob(t) \/ ExecuteFails(t) \/ waitForJob(t) \/ MarkTerminal(t)

JobStep(t) == JobCompletes(t) \/ (\E cost \in {0, 1} : JobFails(t, cost)) \/ JobExpires(t)

-----------------------------------------------------------------------------
(* The machinery on its own. *)

\* The owners' controllers publish and withdraw directives; what goes wrong
\* for them counts as a fault too.
Publish ==
    /\ directive' \in SUBSET Ops
    /\ faults' \in faults..MaxFaults
    /\ UNCHANGED <<stream, sent, down, worker, store, late, job, up, done, reported>>

DirectivesNext ==
    \/ Publish
    \/ /\ UNCHANGED directive
       /\ \/ \E s \in Sites : Connect(s) \/ BreakStream(s)
          \/ \E t \in Tasks : SendDirective(t) \/ AgentStep(t) \/ JobStep(t)
          \/ \E x \in Tasks \X Outcomes :
                LateWriteLands(x) \/ RecordResult(x) \/ RefuseResult(x)

DirectivesSpec == directive = {} /\ PipelineInit /\ [][DirectivesNext]_dvars

Ledger == INSTANCE OperationLedger
          WITH decision <- [t \in Tasks |-> IF store[t] \in Outcomes THEN store[t] ELSE "none"]

\* The directive machinery implements the ledger: a durable outcome is never
\* replaced, nothing is reported without one, and no success is invented, over
\* restarts, replays, cancelled workers and lost Jobs.
ImplementsLedger == Ledger!LedgerSpec
==============================================================================
