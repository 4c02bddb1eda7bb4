----------------------------- MODULE Declarations -----------------------------
(***************************************************************************)
(* PostgresDatabase and PostgresUser: the two declaration controllers, the *)
(* trust test that lets their directives out, the SQL Jobs and the status  *)
(* the hub writes when a result comes back. The user is granted a role     *)
(* that the database declares from generation RoleGeneration on.           *)
(*                                                                         *)
(* An operation is <<declaration, generation, deleting>>, the operation    *)
(* UID of internal/controller/directives.go. Each declaration owns one     *)
(* directive ConfigMap, rewritten for every operation.                     *)
(***************************************************************************)
EXTENDS Directives

CONSTANTS
    MaxGeneration,    \* bound on the generation an edit can reach
    MaxChanges,       \* bound on edits and deletions
    RoleGeneration,   \* first database generation that declares the role
    Policies          \* deletion policies tried, as functions of the declaration

ASSUME GenerationAssumption == MaxGeneration \in Nat \ {0}

\* A create or update is of a generation that edits reach; a deletion is one
\* generation later.
ASSUME OpsAssumption ==
    Ops = {op \in {"database", "user"} \X (1..(MaxGeneration + 1)) \X BOOLEAN :
              IF op[3] THEN op[2] > 1 ELSE op[2] <= MaxGeneration}

ASSUME PoliciesAssumption == Policies \subseteq [{"database", "user"} -> {"Retain", "Delete"}]

VARIABLES
    object,     \* declaration -> [exists, generation, deleting, policy, forced]
    status,     \* declaration -> [phase, observed, succeeded, ready]
    parent,     \* the MultiSitePostgres object exists
    primary,    \* site of the primary in the instance's status
    leader,     \* site of Patroni's leader
    catalog,    \* what PostgreSQL holds: [database, role, user]
    ran,        \* history: operations whose SQL ran on the leader
    moved       \* history: Patroni has failed over

hub == <<directive, object, status, parent>>
postgres == <<primary, leader, catalog, ran, moved>>
vars == <<dvars, object, status, parent, postgres>>

Decls == {"database", "user"}
Declaration(op) == op[1]
Operation(d) == <<d, object[d].generation, object[d].deleting>>
OwnDirectives(d) == {op \in directive : Declaration(op) = d}
Phases == {"None", "Pending", "Reconciling", "Ready", "Failed", "Deleting", "Deleted", "Orphaned"}

TypeOK ==
    /\ DirectivesTypeOK
    /\ object \in [Decls -> [exists : BOOLEAN, generation : 1..(MaxGeneration + 1),
                             deleting : BOOLEAN, policy : {"Retain", "Delete"}, forced : BOOLEAN]]
    /\ status \in [Decls -> [phase : Phases, observed : 0..(MaxGeneration + 1),
                             succeeded : BOOLEAN, ready : BOOLEAN]]
    /\ parent \in BOOLEAN
    /\ primary \in Sites /\ leader \in Sites
    /\ ran \subseteq Ops /\ moved \in BOOLEAN
    /\ catalog \in [database : 0..MaxGeneration, role : BOOLEAN, user : 0..MaxGeneration]

Init ==
    /\ directive = {}
    /\ PipelineInit
    /\ \E policy \in Policies :
          object = [d \in Decls |-> [exists |-> TRUE, generation |-> 1, deleting |-> FALSE,
                                     policy |-> policy[d], forced |-> FALSE]]
    /\ status = [d \in Decls |-> [phase |-> "None", observed |-> 0,
                                  succeeded |-> FALSE, ready |-> FALSE]]
    /\ parent = TRUE
    /\ primary = CHOOSE s \in Sites : TRUE     \* the sites are interchangeable
    /\ leader = primary
    /\ ran = {} /\ moved = FALSE
    /\ catalog = [database |-> 0, role |-> FALSE, user |-> 0]

-----------------------------------------------------------------------------
(* The tenant and the cluster. *)

Changes == (object["database"].generation - 1) + (object["user"].generation - 1)

Edit(d) ==
    /\ Changes < MaxChanges
    /\ object[d].exists /\ ~object[d].deleting
    /\ object[d].generation < MaxGeneration
    /\ object' = [object EXCEPT ![d].generation = @ + 1]
    /\ UNCHANGED <<dvars, status, parent, postgres>>

\* Kubernetes bumps the generation when it sets the deletion timestamp.
Delete(d) ==
    /\ Changes < MaxChanges
    /\ object[d].exists /\ ~object[d].deleting
    /\ object' = [object EXCEPT ![d].deleting = TRUE, ![d].generation = @ + 1]
    /\ UNCHANGED <<dvars, status, parent, postgres>>

ForceOrphan(d) ==
    /\ object[d].exists /\ object[d].deleting /\ ~object[d].forced
    /\ ~parent
    /\ object' = [object EXCEPT ![d].forced = TRUE]
    /\ UNCHANGED <<dvars, status, parent, postgres>>

LoseParent ==
    /\ parent
    /\ faults < MaxFaults
    /\ faults' = faults + 1
    /\ parent' = FALSE
    /\ UNCHANGED <<directive, stream, sent, down, worker, store, late, job, up, done, reported,
                   object, status, postgres>>

Failover(s) ==
    /\ s # leader
    /\ faults < MaxFaults
    /\ faults' = faults + 1
    /\ leader' = s
    /\ moved' = TRUE
    /\ UNCHANGED <<directive, stream, sent, down, worker, store, late, job, up, done, reported,
                   object, status, parent, primary, catalog, ran>>

\* The sites report the new leader and the instance reconciler takes it over.
ObserveTopology ==
    /\ primary # leader
    /\ primary' = leader
    /\ UNCHANGED <<dvars, object, status, parent, leader, catalog, ran, moved>>

-----------------------------------------------------------------------------
(* The controllers. A status write can fail on a conflict after the        *)
(* ConfigMap was written; it costs one of the faults.                      *)

reconcileDirective(d) == directive' = (directive \ OwnDirectives(d)) \cup {Operation(d)}

WriteStatus(d, s) ==
    \/ status' = [status EXCEPT ![d] = s] /\ UNCHANGED faults
    \/ /\ faults < MaxFaults
       /\ faults' = faults + 1
       /\ UNCHANGED status

\* The finalizer goes, the object goes, and its ConfigMap is collected.
RemoveFinalizer(d) ==
    /\ object' = [object EXCEPT ![d].exists = FALSE]
    /\ directive' = directive \ OwnDirectives(d)

ReconcileDeletion(d) ==
    /\ object[d].exists /\ object[d].deleting
    /\ \/ /\ object[d].policy = "Retain" \/ status[d].phase = "Deleted"
          /\ RemoveFinalizer(d)
          /\ UNCHANGED <<status, faults>>
       \/ /\ object[d].policy = "Delete" /\ status[d].phase # "Deleted"
          /\ ~parent
          /\ WriteStatus(d, [status[d] EXCEPT !.observed = object[d].generation, !.phase = "Orphaned"])
          /\ IF object[d].forced /\ faults' = faults
             THEN RemoveFinalizer(d)
             ELSE UNCHANGED <<object, directive>>
       \/ /\ object[d].policy = "Delete" /\ status[d].phase # "Deleted"
          /\ parent
          /\ reconcileDirective(d)
          /\ WriteStatus(d, [status[d] EXCEPT !.observed = object[d].generation, !.phase = "Deleting"])
          /\ UNCHANGED object
    /\ UNCHANGED <<stream, sent, down, worker, store, late, job, up, done, reported,
                   parent, postgres>>

\* Mutant: the database's Ready condition is not awaited.
AdmittedUnready(d) ==
    IF d = "database" THEN parent
    ELSE object["database"].exists /\ object["database"].generation >= RoleGeneration

\* A user needs its database to exist, to declare the role and to be Ready.
Admitted(d) ==
    IF d = "database" THEN parent
    ELSE /\ object["database"].exists
         /\ object["database"].generation >= RoleGeneration
         /\ status["database"].ready

\* The Succeeded condition is the one the last result left, whichever
\* generation it was for.  (The phase is Pending instead of Reconciling while the
\* instance is not Ready; nothing reads the difference.)
Reconcile(d) ==
    LET current == status[d].observed = object[d].generation /\ status[d].succeeded
    IN
    /\ object[d].exists /\ ~object[d].deleting
    /\ IF ~Admitted(d)
       THEN /\ WriteStatus(d, [status[d] EXCEPT !.phase = "Pending", !.ready = FALSE])
            /\ UNCHANGED directive
       ELSE /\ reconcileDirective(d)
            /\ WriteStatus(d, IF current
                              THEN [status[d] EXCEPT !.phase = "Ready", !.ready = TRUE]
                              ELSE [status[d] EXCEPT !.observed = object[d].generation,
                                                     !.phase = "Reconciling", !.ready = FALSE])
    /\ UNCHANGED <<stream, sent, down, worker, store, late, job, up, done, reported,
                   object, parent, postgres>>

-----------------------------------------------------------------------------
(* Delivery. *)

\* The ConfigMap must be the one the live object would produce now.
declarationDirectiveTrusted(op) ==
    LET d == Declaration(op) IN
    /\ object[d].exists
    /\ op = Operation(d)
    /\ op[3] => object[d].policy = "Delete"

sendDirectives(t) ==
    /\ parent
    /\ t[1] = primary
    /\ declarationDirectiveTrusted(t[2])
    /\ SendDirective(t)
    /\ UNCHANGED <<hub, postgres>>

\* The SQL runs on the leader only, and GRANT needs the role.
CanApply(t) ==
    /\ t[1] = leader
    /\ Declaration(t[2]) = "user" /\ ~t[2][3] => catalog.role

\* Of a database that is not deleted the Job must leave the audit that its SQL
\* makes; without it the directive fails.
Audited(op) == Declaration(op) # "user" /\ ~op[3]

\* On a standby the preflight leaves psql by \quit, whose argument psql does not
\* take for an exit status: the Job completes and no SQL has run.
QuitsUnnoticed(t) == t[1] # leader /\ ~Audited(t[2])

ApplySQL(op) ==
    LET generation == IF op[3] THEN 0 ELSE op[2] IN
    IF Declaration(op) = "user"
    THEN [catalog EXCEPT !.user = generation]
    ELSE [catalog EXCEPT !.database = generation,
                         !.role = @ \/ generation >= RoleGeneration]

RunSQLJob(t) ==
    /\ \/ /\ CanApply(t) /\ JobCompletes(t)
          /\ catalog' = ApplySQL(t[2])
          /\ ran' = ran \cup {t[2]}
       \/ QuitsUnnoticed(t) /\ JobCompletes(t) /\ UNCHANGED <<catalog, ran>>
       \/ /\ JobFails(t, IF CanApply(t) \/ QuitsUnnoticed(t) THEN 1 ELSE 0)
          /\ UNCHANGED <<catalog, ran>>
    /\ UNCHANGED <<hub, primary, leader, moved>>

\* Mutant: any answer to a deletion counts as done.
ResultStatusUnchecked(op, o) ==
    LET d == Declaration(op) IN
    [status[d] EXCEPT !.observed = object[d].generation,
                      !.succeeded = (o = "Succeeded"),
                      !.phase = IF op[3] THEN "Deleted" ELSE IF o = "Failed" THEN "Failed" ELSE "Ready"]

\* applyDirectiveStatus, then ObservedGeneration is set to whatever the
\* object's generation is now.
ResultStatus(op, o) ==
    LET d == Declaration(op) IN
    [status[d] EXCEPT !.observed = object[d].generation,
                      !.succeeded = (o = "Succeeded"),
                      !.phase = IF o = "Failed" THEN "Failed"
                                ELSE IF op[3] THEN "Deleted" ELSE "Ready"]

recordDirectiveResult(x) ==
    /\ \/ RecordResult(x) /\ status' = [status EXCEPT ![Declaration(x[1][2])] = ResultStatus(x[1][2], x[2])]
       \/ RefuseResult(x) /\ UNCHANGED status
    /\ UNCHANGED <<directive, object, parent, postgres>>

-----------------------------------------------------------------------------
Pipeline(t) == (AgentStep(t) \/ JobExpires(t)) /\ UNCHANGED <<hub, postgres>>

Next ==
    \/ \E d \in Decls : Edit(d) \/ Delete(d) \/ ForceOrphan(d) \/ Reconcile(d) \/ ReconcileDeletion(d)
    \/ LoseParent \/ ObserveTopology
    \/ \E s \in Sites : Failover(s)
    \/ \E s \in Sites : (Connect(s) \/ BreakStream(s)) /\ UNCHANGED <<hub, postgres>>
    \/ \E t \in Tasks : sendDirectives(t) \/ Pipeline(t) \/ RunSQLJob(t)
    \/ \E x \in Tasks \X Outcomes :
          recordDirectiveResult(x) \/ (LateWriteLands(x) /\ UNCHANGED <<hub, postgres>>)

Spec == Init /\ [][Next]_vars

\* Everything but the tenant, the faults and the late writes.
SystemStep ==
    \/ ObserveTopology
    \/ \E d \in Decls : Reconcile(d) \/ ReconcileDeletion(d)
    \/ \E s \in Sites : Connect(s) /\ UNCHANGED <<hub, postgres>>
    \/ \E t \in Tasks : sendDirectives(t) \/ Pipeline(t) \/ RunSQLJob(t)
    \/ \E x \in Tasks \X Outcomes : recordDirectiveResult(x)

\* Controllers requeue until their write goes through, streams are redialled
\* and swept, Jobs end by completion or by their deadline: the system does
\* not stop while any of it can move.
FairSpec == Spec /\ WF_vars(SystemStep)

-----------------------------------------------------------------------------
(* Properties. *)

Applied(op) == \E s \in Sites : <<s, op>> \in done
Refused(op) == \E s \in Sites : <<<<s, op>>, "Failed">> \in reported

\* A declaration with policy Delete leaves the hub only after the Job of its own
\* DROP completed at a site and, as long as Patroni has not failed over, after
\* PostgreSQL ran that DROP; unless its parent was lost and it was
\* force-orphaned.  "Deleted" is never the echo of an older create or of a failed
\* drop (applyDirectiveStatus, and the finalizer branch of the two Reconciles).
DeletedWasDropped ==
    \A d \in Decls :
        LET drop == <<d, object[d].generation, TRUE>> IN
        ~object[d].exists /\ object[d].policy = "Delete" /\ ~object[d].forced
            => Applied(drop) /\ (drop \in ran \/ moved)

\* What the Succeeded condition says, "PostgreSQL accepted the idempotent
\* declaration".  It does not hold: a Job that meets a standby completes too.
DropReachedPostgreSQL ==
    \A d \in Decls :
        ~object[d].exists /\ object[d].policy = "Delete" /\ ~object[d].forced
            => <<d, object[d].generation, TRUE>> \in ran

\* What is dropped stays dropped.  It does not hold: the Job of an earlier
\* generation may still be running, and creates the database again.
DropIsFinal ==
    \A d \in Decls :
        ~object[d].exists /\ object[d].policy = "Delete" /\ ~object[d].forced /\ ~moved
            => catalog[d] = 0

\* A user's directive is issued only while the role it is granted exists in
\* PostgreSQL, when the database declared that role from the start
\* (PostgresUserReconciler.Reconcile, the memberOf loop).
UserAfterRole ==
    \A op \in directive : Declaration(op) = "user" /\ ~op[3] => catalog.role

\* A Ready declaration of the observed generation has been applied at a site:
\* "The database declaration is applied and audited".
ReadyIsApplied ==
    \A d \in Decls :
        (object[d].exists /\ ~object[d].deleting /\ status[d].ready
            /\ status[d].observed = object[d].generation)
        => Applied(Operation(d))

\* A deletion ends, over broken streams, lost results and failovers: the
\* object goes, unless the parent is lost or a site reported that DROP failed
\* (ReconcileDeletion, sendDirectives, the replay in applyDirective).
DeletionEnds ==
    \A d \in Decls :
        object[d].deleting ~> (~object[d].exists \/ ~parent \/ Refused(Operation(d)))
==============================================================================
