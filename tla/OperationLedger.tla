--------------------------- MODULE OperationLedger ---------------------------
(***************************************************************************)
(* What the directive machinery promises about one-off work at a site.     *)
(* A task is an operation at a site. Work may be done more than once; a     *)
(* task is decided once, durably; nothing is reported before it is decided; *)
(* and neither a decision nor a report claims a success that did not        *)
(* happen. Directives is shown to implement this specification.             *)
(***************************************************************************)
CONSTANT Tasks

VARIABLES
    done,       \* tasks whose work was carried through at least once
    decision,   \* the durable outcome of each task, "none" until there is one
    reported    \* the <<task, outcome>> pairs ever reported to the hub

ledger == <<done, decision, reported>>

Outcomes == {"Succeeded", "Failed"}

LedgerInit ==
    /\ done = {}
    /\ decision = [t \in Tasks |-> "none"]
    /\ reported = {}

Work(t) ==
    /\ done' = done \cup {t}
    /\ UNCHANGED <<decision, reported>>

Decide(t, o) ==
    /\ decision[t] = "none"
    /\ o = "Succeeded" => t \in done
    /\ decision' = [decision EXCEPT ![t] = o]
    /\ UNCHANGED <<done, reported>>

Report(t, o) ==
    /\ decision[t] # "none"
    /\ o = "Succeeded" => t \in done
    /\ reported' = reported \cup {<<t, o>>}
    /\ UNCHANGED <<done, decision>>

\* A worker that stores its outcome reports it in the same breath; the outcome
\* it reports is its own, the decision may already be another worker's.
DecideAndReport(t, o) ==
    /\ o = "Succeeded" => t \in done
    /\ decision' = [decision EXCEPT ![t] = IF @ = "none" THEN o ELSE @]
    /\ reported' = reported \cup {<<t, o>>}
    /\ UNCHANGED done

LedgerNext ==
    \E t \in Tasks :
        \/ Work(t)
        \/ \E o \in Outcomes : Decide(t, o) \/ Report(t, o) \/ DecideAndReport(t, o)

LedgerSpec == LedgerInit /\ [][LedgerNext]_ledger
==============================================================================
