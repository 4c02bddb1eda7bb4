-------------------------- MODULE MajorUpgradeProofs --------------------------
(***************************************************************************)
(* A major upgrade over any number of sites and of failing Jobs.           *)
(*                                                                         *)
(* The first part is about an upgrade that nobody edits or deletes:        *)
(* artifacts are cold, a conversion has a checkpoint, the database         *)
(* survives, and a rollback serves the source version only.  Without edits *)
(* the revisions run in step with the phases: HubInv says that an instance *)
(* reconcile in flight is for the current phase, SiteInv that a site which *)
(* applied the active revision stays as the phase left it.  What a phase   *)
(* may rely on is then what the one before it has established at every     *)
(* site.                                                                   *)
(*                                                                         *)
(* The second part allows every edit, deletion and forced abandonment: the *)
(* target version takes writes only when every member's data is of that    *)
(* version, and nothing rolls back after it has.  An edit can let a plan   *)
(* of the phase before count as applied, so plans may lag: PaceInv bounds  *)
(* by how much, SettledInv says what an applied revision leaves in place,  *)
(* and EraInv says which of three eras each phase belongs to: no member of *)
(* the target version, Pgpool down everywhere, all data of the target      *)
(* version.                                                                *)
(***************************************************************************)
EXTENDS MajorUpgrade, TLAPS

Early == {"None", "MajorPreflight", "MajorDrain", "MajorStop"}

HubInv ==
    /\ ~deleting /\ upgrade # "Gone"
    /\ upgrade = "Completed" => phase \in {"MajorFinalize", "None"}
    /\ upgrade = "Failed" => /\ phase \in {"MajorRollbackRestoreWrites", "None"}
                             /\ plan.phase \in {"MajorRollbackRestoreWrites", "None"}
    /\ plan.revision = active /\ planned.phase = plan.phase
    /\ plan.phase = phase => planned.generation = generation /\ ~rec.on
    /\ plan.phase # phase /\ upgrade = "Active" => expected = active + 1
    /\ rec.on => rec.phase = phase /\ rec.generation = generation /\ rec.major = major
    /\ upgrade = "Active" /\ phase = "None" => plan.phase = "None"
    /\ upgrade # "Active" /\ phase # "None" => plan.phase = phase
    /\ phase # "MajorFinalize" /\ upgrade # "Completed" => major = "source" /\ plan.major = "source"
    /\ upgrade = "Active" /\ phase \in Early => plan.phase \in Early
    /\ phase = "MajorSnapshot" => plan.phase \in {"MajorStop", "MajorSnapshot"}
    /\ phase \notin RollbackPhases /\ upgrade # "Failed" => plan.phase \notin RollbackPhases
    /\ phase = "MajorRollback" =>
          plan.phase \notin {"MajorRollbackStart", "MajorRollbackRestoreWrites"}
    /\ phase = "MajorRollbackStart" => plan.phase \in {"MajorRollback", "MajorRollbackStart"}
    /\ phase = "MajorRollbackRestoreWrites" =>
          plan.phase \in {"MajorRollbackStart", "MajorRollbackRestoreWrites"}

\* The site's reports: what was applied is in place, and stays so.
ReportInv(s) ==
    /\ held[s].revision <= active /\ applied[s] <= active
    /\ held[s].revision = active => held[s] = plan
    /\ applied[s] = active => /\ held[s].revision = active /\ job[s] # "failed"
                              /\ prepareMajorUpgrade(s) /\ WorkloadsReady(s)
    /\ job[s] = "failed" => JobOf(s) # "nothing"
    /\ upgrade = "Active" /\ phase # "MajorRollback" /\ (plan.phase # phase \/ phase = "None") =>
          applied[s] = active /\ (phase \notin RollbackPhases => s \notin blocked)
    /\ phase # "MajorFinalize" /\ upgrade # "Completed" => held[s].major = "source"

\* On the way forward.
ForwardInv(s) ==
    /\ upgrade = "Active" /\ phase \in Early => held[s].phase \in Early /\ data[s] = "source"
    /\ phase = "MajorSnapshot" =>
          /\ held[s].phase \in {"MajorStop", "MajorSnapshot"} /\ data[s] = "source"
          /\ image[s] = "stopped" /\ running[s] = "stopped"
    /\ upgrade # "Active" \/ phase \notin Early \cup {"MajorSnapshot"} => artifact[s] # "none"
    /\ artifact[s] # "hot"

\* On the way back.
BackwardInv(s) ==
    /\ phase \notin RollbackPhases /\ upgrade # "Failed" =>
          s \notin restored /\ held[s].phase \notin RollbackPhases
    /\ phase = "MajorRollback" =>
          /\ held[s].phase \notin {"MajorRollbackStart", "MajorRollbackRestoreWrites"}
          /\ held[s].phase = "MajorRollback" => plan.phase = "MajorRollback"
          /\ s \in restored => /\ held[s].phase = "MajorRollback" /\ data[s] \in {"gone", "source"}
                               /\ image[s] = "stopped" /\ running[s] = "stopped"
    /\ phase = "MajorRollbackStart" =>
          /\ held[s].phase \in {"MajorRollback", "MajorRollbackStart"} /\ s \in restored
          /\ data[s] \in {"source", "empty", "broken"}
          /\ data[s] = "broken" => held[s].phase = "MajorRollbackStart" /\ job[s] = "failed"
          /\ IF s = Primary THEN data[s] = "source" /\ image[s] \in {"source", "stopped"}
             ELSE image[s] = "stopped" /\ running[s] = "stopped"
    /\ phase = "MajorRollbackRestoreWrites" \/ upgrade = "Failed" =>
          /\ held[s].phase \in {"MajorRollbackStart", "MajorRollbackRestoreWrites", "None"}
          /\ data[s] \in {"source", "empty"} /\ (s = Primary => data[s] = "source")
          /\ image[s] \in {"source", "stopped"}
          /\ held[s].phase = "MajorRollbackStart" /\ s # Primary => job[s] = "done"

SiteInv(s) == ReportInv(s) /\ ForwardInv(s) /\ BackwardInv(s)

IInv == TypeOK /\ HubInv /\ \A s \in Sites : SiteInv(s)

-----------------------------------------------------------------------------
(* The phases. *)

LEMMA PhaseSets ==
    /\ RollbackPhases = {"MajorRollback", "MajorRollbackStart", "MajorRollbackRestoreWrites"}
    /\ Phases = {"MajorPreflight", "MajorDrain", "MajorStop", "MajorSnapshot",
                 "MajorUpgradePrimary", "MajorStanzaUpgrade", "MajorStartPrimary",
                 "MajorReplicas", "MajorRestoreWrites", "MajorFinalize"} \cup RollbackPhases
  <1>1. RollbackPhases = {"MajorRollback", "MajorRollbackStart", "MajorRollbackRestoreWrites"}
    <2>1. /\ Backward[1] = "MajorRollback" /\ Backward[2] = "MajorRollbackStart"
          /\ Backward[3] = "MajorRollbackRestoreWrites" /\ 1..3 = {1, 2, 3}
      BY DEF Backward
    <2>. QED
      BY <2>1 DEF RollbackPhases
  <1>2. {Forward[i] : i \in 1..10} =
           {"MajorPreflight", "MajorDrain", "MajorStop", "MajorSnapshot",
            "MajorUpgradePrimary", "MajorStanzaUpgrade", "MajorStartPrimary",
            "MajorReplicas", "MajorRestoreWrites", "MajorFinalize"}
    <2>1. 1..10 = {1, 2, 3, 4, 5, 6, 7, 8, 9, 10}
      OBVIOUS
    <2>2. /\ Forward[1] = "MajorPreflight" /\ Forward[2] = "MajorDrain"
          /\ Forward[3] = "MajorStop" /\ Forward[4] = "MajorSnapshot"
          /\ Forward[5] = "MajorUpgradePrimary" /\ Forward[6] = "MajorStanzaUpgrade"
          /\ Forward[7] = "MajorStartPrimary" /\ Forward[8] = "MajorReplicas"
          /\ Forward[9] = "MajorRestoreWrites" /\ Forward[10] = "MajorFinalize"
      BY DEF Forward
    <2>. QED
      BY <2>1, <2>2
  <1>. QED
    BY <1>1, <1>2 DEF Phases

\* Where a phase leads: the order of Forward and of Backward.
LEMMA NextPhases ==
    /\ NextPhase("MajorPreflight") = "MajorDrain"
    /\ NextPhase("MajorDrain") = "MajorStop"
    /\ NextPhase("MajorStop") = "MajorSnapshot"
    /\ NextPhase("MajorSnapshot") = "MajorUpgradePrimary"
    /\ NextPhase("MajorUpgradePrimary") = "MajorStanzaUpgrade"
    /\ NextPhase("MajorStanzaUpgrade") = "MajorStartPrimary"
    /\ NextPhase("MajorStartPrimary") = "MajorReplicas"
    /\ NextPhase("MajorReplicas") = "MajorRestoreWrites"
    /\ NextPhase("MajorRestoreWrites") = "MajorFinalize"
    /\ NextPhase("MajorRollback") = "MajorRollbackStart"
    /\ NextPhase("MajorRollbackStart") = "MajorRollbackRestoreWrites"
  <1>1. NextPhase("MajorPreflight") = "MajorDrain"
    <2>1. (CHOOSE i \in 1..9 : Forward[i] = "MajorPreflight") = 1
      BY DEF Forward
    <2>. QED
      BY <2>1, PhaseSets DEF NextPhase, Forward
  <1>2. NextPhase("MajorDrain") = "MajorStop"
    <2>1. (CHOOSE i \in 1..9 : Forward[i] = "MajorDrain") = 2
      BY DEF Forward
    <2>. QED
      BY <2>1, PhaseSets DEF NextPhase, Forward
  <1>3. NextPhase("MajorStop") = "MajorSnapshot"
    <2>1. (CHOOSE i \in 1..9 : Forward[i] = "MajorStop") = 3
      BY DEF Forward
    <2>. QED
      BY <2>1, PhaseSets DEF NextPhase, Forward
  <1>4. NextPhase("MajorSnapshot") = "MajorUpgradePrimary"
    <2>1. (CHOOSE i \in 1..9 : Forward[i] = "MajorSnapshot") = 4
      BY DEF Forward
    <2>. QED
      BY <2>1, PhaseSets DEF NextPhase, Forward
  <1>5. NextPhase("MajorUpgradePrimary") = "MajorStanzaUpgrade"
    <2>1. (CHOOSE i \in 1..9 : Forward[i] = "MajorUpgradePrimary") = 5
      BY DEF Forward
    <2>. QED
      BY <2>1, PhaseSets DEF NextPhase, Forward
  <1>6. NextPhase("MajorStanzaUpgrade") = "MajorStartPrimary"
    <2>1. (CHOOSE i \in 1..9 : Forward[i] = "MajorStanzaUpgrade") = 6
      BY DEF Forward
    <2>. QED
      BY <2>1, PhaseSets DEF NextPhase, Forward
  <1>7. NextPhase("MajorStartPrimary") = "MajorReplicas"
    <2>1. (CHOOSE i \in 1..9 : Forward[i] = "MajorStartPrimary") = 7
      BY DEF Forward
    <2>. QED
      BY <2>1, PhaseSets DEF NextPhase, Forward
  <1>8. NextPhase("MajorReplicas") = "MajorRestoreWrites"
    <2>1. (CHOOSE i \in 1..9 : Forward[i] = "MajorReplicas") = 8
      BY DEF Forward
    <2>. QED
      BY <2>1, PhaseSets DEF NextPhase, Forward
  <1>9. NextPhase("MajorRestoreWrites") = "MajorFinalize"
    <2>1. (CHOOSE i \in 1..9 : Forward[i] = "MajorRestoreWrites") = 9
      BY DEF Forward
    <2>. QED
      BY <2>1, PhaseSets DEF NextPhase, Forward
  <1>10. NextPhase("MajorRollback") = "MajorRollbackStart"
    <2>1. (CHOOSE i \in 1..2 : Backward[i] = "MajorRollback") = 1
      BY DEF Backward
    <2>. QED
      BY <2>1, PhaseSets DEF NextPhase, Backward
  <1>11. NextPhase("MajorRollbackStart") = "MajorRollbackRestoreWrites"
    <2>1. (CHOOSE i \in 1..2 : Backward[i] = "MajorRollbackStart") = 2
      BY DEF Backward
    <2>. QED
      BY <2>1, PhaseSets DEF NextPhase, Backward
  <1>. QED
    BY <1>1, <1>2, <1>3, <1>4, <1>5, <1>6, <1>7, <1>8, <1>9, <1>10, <1>11

LEMMA InitLemma == Init => IInv
  <1>. SUFFICES ASSUME Init PROVE IInv
    OBVIOUS
  <1>1. TypeOK
    BY Zenon DEF Init, TypeOK, Versions, Plans
  <1>2. HubInv
    BY PhaseSets DEF Init, HubInv, Early
  <1>3. ASSUME NEW s \in Sites PROVE SiteInv(s)
    <2>1. /\ held[s] = plan /\ job[s] = "none" /\ data[s] = "source" /\ artifact[s] = "none"
          /\ image[s] = "source" /\ running[s] = "source" /\ s \in writes /\ applied[s] = 1
          /\ plan.phase = "None" /\ plan.major = "source" /\ plan.revision = 1 /\ active = 1
          /\ phase = "None" /\ upgrade = "Active" /\ restored = {} /\ blocked = {}
      BY DEF Init
    <2>2. JobOf(s) = "nothing" /\ prepareMajorUpgrade(s)
      BY <2>1 DEF JobOf, prepareMajorUpgrade
    <2>3. WorkloadsReady(s)
      BY <2>1, <2>2 DEF WorkloadsReady, WantedImage, majorMemberStopped, AllStopped, PrimaryOnly,
                        postgresMemberImage, majorWriteServiceStopped
    <2>. QED
      BY <2>1, <2>2, <2>3, PhaseSets DEF SiteInv, ReportInv, ForwardInv, BackwardInv, Early
  <1>. QED
    BY <1>1, <1>2, <1>3 DEF IInv

-----------------------------------------------------------------------------
(* The hub. *)

LEMMA SitesStand ==
    ASSUME NEW s \in Sites, UNCHANGED siteVars
    PROVE  /\ JobOf(s)' = JobOf(s) /\ prepareMajorUpgrade(s)' = prepareMajorUpgrade(s)
           /\ WorkloadsReady(s)' = WorkloadsReady(s)
  <1>1. UNCHANGED <<held, job, data, restored, artifact, image, running, writes>>
    BY DEF siteVars
  <1>2. JobOf(s)' = JobOf(s)
    BY <1>1 DEF JobOf
  <1>3. prepareMajorUpgrade(s)' = prepareMajorUpgrade(s)
    BY <1>1, <1>2 DEF prepareMajorUpgrade
  <1>4. WorkloadsReady(s)' = WorkloadsReady(s)
    BY <1>1, <1>2 DEF WorkloadsReady, WantedImage, majorMemberStopped, postgresMemberImage,
                      majorWriteServiceStopped
  <1>. QED
    BY <1>2, <1>3, <1>4

LEMMA StutterLemma == IInv /\ UNCHANGED vars => IInv'
  <1>. SUFFICES ASSUME IInv, UNCHANGED vars PROVE IInv'
    OBVIOUS
  <1>1. /\ UNCHANGED <<upgrade, deleting, forced, phase, expected, generation, major, active,
                       planned, rec, plan, applied, blocked, edits, failures>>
        /\ UNCHANGED siteVars
    BY Zenon DEF vars, hubVars, specVars, statusVars, reportVars
  <1>2. TypeOK' /\ HubInv'
    BY <1>1 DEF IInv, TypeOK, HubInv, siteVars
  <1>3. ASSUME NEW s \in Sites PROVE SiteInv(s)'
    <2>1. SiteInv(s)
      BY DEF IInv
    <2>2. ReportInv(s)'
      BY <1>1, <2>1, SitesStand DEF SiteInv, ReportInv, siteVars
    <2>3. ForwardInv(s)' /\ BackwardInv(s)'
      BY <1>1, <2>1 DEF SiteInv, ForwardInv, BackwardInv, siteVars
    <2>. QED
      BY <2>2, <2>3 DEF SiteInv
  <1>. QED
    BY <1>2, <1>3 DEF IInv

\* A phase that counts as applied is in place at every site, and no reconcile
\* is in flight.
LEMMA AppliedLemma ==
    ASSUME IInv, upgrade = "Active", majorPhaseApplied
    PROVE  /\ plan.phase = phase /\ ~rec.on /\ planned.generation = generation
           /\ \A s \in Sites : /\ applied[s] = active /\ held[s] = plan /\ job[s] # "failed"
                               /\ prepareMajorUpgrade(s) /\ WorkloadsReady(s)
  <1>1. active \in Nat /\ expected \in Nat
    BY DEF IInv, TypeOK
  <1>2. expected # active + 1
    BY <1>1 DEF majorPhaseApplied
  <1>3. plan.phase = phase
    BY <1>2 DEF IInv, HubInv
  <1>4. \A s \in Sites : applied[s] = active
    BY DEF majorPhaseApplied, allSitesApplied
  <1>. QED
    BY <1>3, <1>4 DEF IInv, HubInv, SiteInv, ReportInv

\* A reconcile starts or ends: the plan becomes that of the current phase.
LEMMA StartLemma == IInv /\ ReconcileStart => IInv'
  <1>. SUFFICES ASSUME IInv, ReconcileStart PROVE IInv'
    OBVIOUS
  <1>1. /\ UNCHANGED <<upgrade, deleting, forced, phase, expected, generation, major, active,
                       planned, plan, applied, blocked, edits, failures>>
        /\ UNCHANGED siteVars
        /\ rec' = [on |-> TRUE, phase |-> phase, generation |-> generation, major |-> major]
        /\ planned # [phase |-> phase, generation |-> generation]
    BY DEF ReconcileStart, hubVars, specVars, reportVars, Wanted
  <1>2. TypeOK'
    BY <1>1 DEF IInv, TypeOK, siteVars
  <1>3. planned = [phase |-> planned.phase, generation |-> planned.generation]
    BY DEF IInv, TypeOK
  <1>4. plan.phase # phase
    BY <1>1, <1>3 DEF IInv, HubInv
  <1>5. HubInv'
    BY <1>1, <1>4 DEF IInv, HubInv
  <1>6. ASSUME NEW s \in Sites PROVE SiteInv(s)'
    <2>1. SiteInv(s)
      BY DEF IInv
    <2>2. ReportInv(s)'
      BY <1>1, <2>1, SitesStand DEF SiteInv, ReportInv, siteVars
    <2>3. ForwardInv(s)' /\ BackwardInv(s)'
      BY <1>1, <2>1 DEF SiteInv, ForwardInv, BackwardInv, siteVars
    <2>. QED
      BY <2>2, <2>3 DEF SiteInv
  <1>. QED
    BY <1>2, <1>5, <1>6 DEF IInv

LEMMA FinishLemma == IInv /\ ReconcileFinish => IInv'
  <1>. SUFFICES ASSUME IInv, ReconcileFinish PROVE IInv'
    OBVIOUS
  <1>1. /\ UNCHANGED <<upgrade, deleting, forced, phase, expected, generation, major,
                       applied, blocked, edits, failures>>
        /\ UNCHANGED siteVars
        /\ rec.on /\ rec' = [rec EXCEPT !.on = FALSE] /\ active' = active + 1
        /\ planned' = [phase |-> rec.phase, generation |-> rec.generation]
        /\ plan' = [revision |-> active + 1, phase |-> rec.phase, major |-> rec.major]
    BY DEF ReconcileFinish, hubVars, specVars, reportVars
  <1>2. /\ rec.phase = phase /\ rec.generation = generation /\ rec.major = major
        /\ plan.phase # phase
    BY <1>1 DEF IInv, HubInv
  <1>3. active \in Nat /\ active + 1 \in Nat
    BY DEF IInv, TypeOK
  <1>4. TypeOK'
    BY <1>1, <1>3, Zenon DEF IInv, TypeOK, siteVars, Plans
  <1>5. /\ plan'.phase = phase /\ plan'.major = major /\ plan'.revision = active'
        /\ planned'.phase = phase /\ planned'.generation = generation /\ ~rec'.on
    BY <1>1, <1>2 DEF IInv, TypeOK
  <1>6. HubInv'
    BY <1>1, <1>2, <1>5, PhaseSets DEF IInv, HubInv
  <1>7. ASSUME NEW s \in Sites PROVE SiteInv(s)'
    <2>1. SiteInv(s)
      BY DEF IInv
    <2>2. /\ held[s].revision \in Nat /\ applied[s] \in Nat
          /\ held[s].revision <= active /\ applied[s] <= active
      BY <2>1 DEF SiteInv, ReportInv, IInv, TypeOK, Plans
    <2>3. /\ held[s].revision <= active + 1 /\ applied[s] <= active + 1
          /\ held[s].revision # active + 1 /\ applied[s] # active + 1
      BY <1>3, <2>2
    <2>4. upgrade = "Active" => phase # "None"
      BY <1>2 DEF IInv, HubInv
    <2>5. ReportInv(s)'
      BY <1>1, <1>5, <2>1, <2>3, <2>4, SitesStand DEF SiteInv, ReportInv, siteVars
    <2>6. ForwardInv(s)'
      BY <1>1, <2>1 DEF SiteInv, ForwardInv, siteVars
    <2>7. BackwardInv(s)'
      BY <1>1, <1>5, <2>1 DEF SiteInv, BackwardInv, siteVars
    <2>. QED
      BY <2>5, <2>6, <2>7 DEF SiteInv
  <1>. QED
    BY <1>4, <1>6, <1>7 DEF IInv

\* The upgrade's own steps set the phase and leave the rest alone.
LEMMA BeginLemma == IInv /\ BeginMajorUpgrade => IInv'
  <1>. SUFFICES ASSUME IInv, BeginMajorUpgrade PROVE IInv'
    OBVIOUS
  <1>1. /\ UNCHANGED <<upgrade, deleting, forced, generation, major, active, planned, rec, plan,
                       applied, blocked, edits, failures>>
        /\ UNCHANGED siteVars
        /\ upgrade = "Active" /\ phase = "None"
        /\ phase' = "MajorPreflight" /\ expected' = active + 1
    BY DEF BeginMajorUpgrade, advanceMajorPhase, Owned, specVars, statusVars, reportVars
  <1>2. active + 1 \in Nat
    BY DEF IInv, TypeOK
  <1>3. TypeOK'
    BY <1>1, <1>2, PhaseSets DEF IInv, TypeOK, siteVars
  <1>4. plan.phase = "None" /\ ~rec.on
    BY <1>1 DEF IInv, HubInv
  <1>5. HubInv'
    BY <1>1, <1>4, PhaseSets DEF IInv, HubInv, Early
  <1>6. ASSUME NEW s \in Sites PROVE SiteInv(s)'
    <2>1. SiteInv(s)
      BY DEF IInv
    <2>2. ReportInv(s)'
      BY <1>1, <2>1, SitesStand, PhaseSets, Zenon DEF SiteInv, ReportInv, siteVars
    <2>3. ForwardInv(s)' /\ BackwardInv(s)'
      BY <1>1, <2>1, PhaseSets DEF SiteInv, ForwardInv, BackwardInv, siteVars, Early
    <2>. QED
      BY <2>2, <2>3 DEF SiteInv
  <1>. QED
    BY <1>3, <1>5, <1>6 DEF IInv

LEMMA RollBackLemma == IInv /\ RollBackFailure => IInv'
  <1>. SUFFICES ASSUME IInv, RollBackFailure PROVE IInv'
    OBVIOUS
  <1>1. /\ UNCHANGED <<upgrade, deleting, forced, generation, major, active, planned, rec, plan,
                       applied, blocked, edits, failures>>
        /\ UNCHANGED siteVars
        /\ upgrade = "Active" /\ phase \in FailureRollsBack /\ blocked # {}
        /\ phase' = "MajorRollback" /\ expected' = active + 1
    BY DEF RollBackFailure, advanceMajorPhase, majorUpgradeFailed, specVars, statusVars, reportVars
  <1>2. active + 1 \in Nat
    BY DEF IInv, TypeOK
  <1>3. TypeOK'
    BY <1>1, <1>2, PhaseSets DEF IInv, TypeOK, siteVars
  <1>4. PICK t \in Sites : t \in blocked
    BY <1>1 DEF IInv, TypeOK
  <1>5. plan.phase = phase /\ ~rec.on
    BY <1>1, <1>4, PhaseSets DEF IInv, HubInv, SiteInv, ReportInv, FailureRollsBack
  <1>6. HubInv'
    BY <1>1, <1>5, PhaseSets DEF IInv, HubInv, Early, FailureRollsBack
  <1>7. ASSUME NEW s \in Sites PROVE SiteInv(s)'
    <2>1. SiteInv(s)
      BY DEF IInv
    <2>2. ReportInv(s)'
      BY <1>1, <2>1, SitesStand, PhaseSets DEF SiteInv, ReportInv, siteVars, FailureRollsBack
    <2>3. ForwardInv(s)' /\ BackwardInv(s)'
      BY <1>1, <2>1, PhaseSets
         DEF SiteInv, ForwardInv, BackwardInv, siteVars, Early, FailureRollsBack
    <2>. QED
      BY <2>2, <2>3 DEF SiteInv
  <1>. QED
    BY <1>3, <1>6, <1>7 DEF IInv

LEMMA TerminalLemma == IInv /\ (FinishUpgrade \/ reconcileTerminalUpgrade) => IInv'
  <1>1. ASSUME IInv, FinishUpgrade PROVE IInv'
    <2>1. /\ UNCHANGED <<deleting, forced, phase, expected, generation, major, active, planned,
                         rec, plan, applied, blocked, edits, failures>>
          /\ UNCHANGED siteVars
          /\ upgrade = "Active" /\ majorPhaseApplied
          /\ \/ phase = "MajorFinalize" /\ upgrade' = "Completed"
             \/ phase = "MajorRollbackRestoreWrites" /\ upgrade' = "Failed"
      BY <1>1 DEF FinishUpgrade, specVars, statusVars, reportVars
    <2>2. TypeOK'
      BY <1>1, <2>1 DEF IInv, TypeOK, siteVars
    <2>3. plan.phase = phase
      BY <1>1, <2>1, AppliedLemma, Zenon
    <2>4. HubInv'
      BY <1>1, <2>1, <2>3, PhaseSets DEF IInv, HubInv, Early
    <2>5. ASSUME NEW s \in Sites PROVE SiteInv(s)'
      <3>1. SiteInv(s)
        BY <1>1, Zenon DEF IInv
      <3>2. ReportInv(s)'
        BY <2>1, <3>1, SitesStand, Zenon DEF SiteInv, ReportInv, siteVars
      <3>3. ForwardInv(s)' /\ BackwardInv(s)'
        BY <2>1, <3>1, PhaseSets DEF SiteInv, ForwardInv, BackwardInv, siteVars, Early
      <3>. QED
        BY <3>2, <3>3 DEF SiteInv
    <2>. QED
      BY <2>2, <2>4, <2>5 DEF IInv
  <1>2. ASSUME IInv, reconcileTerminalUpgrade PROVE IInv'
    <2>1. /\ UNCHANGED <<upgrade, deleting, forced, generation, major, active, planned,
                         rec, plan, applied, blocked, edits, failures>>
          /\ UNCHANGED siteVars
          /\ upgrade \in {"Completed", "Failed"} /\ phase # "None"
          /\ phase' = "None" /\ expected' = 0
      BY <1>2 DEF reconcileTerminalUpgrade, Owned, specVars, statusVars, reportVars
    <2>2. TypeOK'
      BY <1>2, <2>1, Zenon DEF IInv, TypeOK, siteVars
    <2>3. plan.phase = phase /\ ~rec.on
      BY <1>2, <2>1 DEF IInv, HubInv
    <2>4. HubInv'
      BY <1>2, <2>1, <2>3, PhaseSets DEF IInv, HubInv, Early
    <2>5. ASSUME NEW s \in Sites PROVE SiteInv(s)'
      <3>1. SiteInv(s) /\ HubInv
        BY <1>2 DEF IInv
      <3>2. ReportInv(s)'
        BY <2>1, <3>1, SitesStand, Zenon DEF SiteInv, ReportInv, HubInv, siteVars
      <3>3. ForwardInv(s)' /\ BackwardInv(s)'
        BY <2>1, <3>1, PhaseSets DEF SiteInv, ForwardInv, BackwardInv, HubInv, siteVars, Early
      <3>. QED
        BY <3>2, <3>3 DEF SiteInv
    <2>. QED
      BY <2>2, <2>4, <2>5 DEF IInv
  <1>. QED
    BY <1>1, <1>2

\* What a phase leaves behind is what the next one starts from.
LEMMA AdvanceLemma == IInv /\ AdvancePhase => IInv'
  <1>. SUFFICES ASSUME IInv, AdvancePhase PROVE IInv'
    OBVIOUS
  <1>1. /\ UNCHANGED <<upgrade, deleting, forced, active, planned, rec, plan,
                       applied, blocked, edits, failures>>
        /\ UNCHANGED siteVars
        /\ upgrade = "Active" /\ majorPhaseApplied /\ phase # "None"
        /\ phase \notin {"MajorFinalize", "MajorRollbackRestoreWrites"}
        /\ phase' = NextPhase(phase) /\ expected' = active + 1
        /\ phase \notin RollbackPhases => blocked = {}
        /\ IF phase = "MajorRestoreWrites"
           THEN major' = "target" /\ generation' = generation + 1
           ELSE UNCHANGED <<generation, major>>
    BY DEF AdvancePhase, advanceMajorPhase, majorUpgradeFailed, Owned, specVars, statusVars,
           reportVars
  <1>2. active + 1 \in Nat /\ generation + 1 \in Nat
    BY DEF IInv, TypeOK
  <1>3. /\ phase \in Phases
        /\ phase' \in Phases /\ phase' # phase /\ phase' # "None"
        /\ phase' = "MajorFinalize" <=> phase = "MajorRestoreWrites"
        /\ phase' \in RollbackPhases <=> phase \in RollbackPhases
        /\ phase' # "MajorRollback"
        /\ phase' = "MajorSnapshot" <=> phase = "MajorStop"
        /\ phase' \in Early <=> phase \in {"MajorPreflight", "MajorDrain"}
        /\ phase' = "MajorRollbackStart" <=> phase = "MajorRollback"
        /\ phase' = "MajorRollbackRestoreWrites" <=> phase = "MajorRollbackStart"
    <2>1. phase \in Phases
      BY <1>1 DEF IInv, TypeOK
    <2>. QED
      BY <1>1, <2>1, PhaseSets, NextPhases DEF Early
  <1>4. TypeOK'
    BY <1>1, <1>2, <1>3 DEF IInv, TypeOK, siteVars, Versions
  <1>5. plan.phase = phase /\ ~rec.on
    BY <1>1, AppliedLemma
  <1>6. HubInv'
    BY <1>1, <1>3, <1>5, PhaseSets DEF IInv, HubInv, Early
  <1>7. ASSUME NEW s \in Sites PROVE SiteInv(s)'
    <2>1. /\ SiteInv(s) /\ applied[s] = active /\ held[s] = plan /\ job[s] # "failed"
          /\ prepareMajorUpgrade(s) /\ WorkloadsReady(s) /\ plan.phase = phase
      BY <1>1, AppliedLemma, Zenon DEF IInv
    <2>2. ReportInv(s)'
      BY <1>1, <1>3, <2>1, SitesStand DEF SiteInv, ReportInv, siteVars
    <2>3. phase \in AllStopped => image[s] = "stopped" /\ running[s] = "stopped"
      BY <2>1, Zenon DEF WorkloadsReady, WantedImage, majorMemberStopped
    <2>4. ForwardInv(s)'
      <3>1. phase = "MajorSnapshot" => artifact[s] # "none"
        BY <2>1 DEF prepareMajorUpgrade
      <3>. QED
        BY <1>1, <1>3, <2>1, <2>3, <3>1, Zenon
           DEF SiteInv, ForwardInv, siteVars, Early, AllStopped
    <2>5. BackwardInv(s)'
      <3>1. CASE phase \notin RollbackPhases
        BY <1>1, <1>3, <2>1, <3>1, PhaseSets, Zenon DEF SiteInv, BackwardInv, siteVars
      <3>2. CASE phase = "MajorRollback"
        <4>1. s \in restored /\ data[s] = "source"
          BY <2>1, <3>2, Zenon DEF prepareMajorUpgrade, SiteInv, BackwardInv
        <4>. QED
          BY <1>1, <1>3, <2>1, <2>3, <3>2, <4>1, PhaseSets, Zenon
             DEF BackwardInv, siteVars, AllStopped
      <3>3. CASE phase = "MajorRollbackStart"
        <4>1. s # Primary => job[s] = "done"
          BY <2>1, <3>3, Zenon DEF prepareMajorUpgrade, JobOf
        <4>2. image[s] \in {"source", "stopped"} /\ data[s] \in {"source", "empty"}
              /\ (s = Primary => data[s] = "source")
          BY <2>1, <3>3 DEF SiteInv, BackwardInv
        <4>. QED
          BY <1>1, <1>3, <2>1, <3>3, <4>1, <4>2, PhaseSets DEF BackwardInv, siteVars
      <3>. QED
        BY <1>1, <3>1, <3>2, <3>3, PhaseSets, Zenon
    <2>. QED
      BY <2>2, <2>4, <2>5 DEF SiteInv
  <1>. QED
    BY <1>4, <1>6, <1>7 DEF IInv

-----------------------------------------------------------------------------
(* The sites. *)

\* What the steps of a site leave alone.
hub == <<upgrade, deleting, forced, phase, expected, generation, major, active, planned, rec, plan>>

\* A step of one site leaves the others as they are.
LEMMA OneSite ==
    ASSUME IInv, NEW s \in Sites, UNCHANGED hub, TypeOK', SiteInv(s)',
           \A t \in Sites \ {s} :
              /\ held'[t] = held[t] /\ job'[t] = job[t] /\ data'[t] = data[t]
              /\ artifact'[t] = artifact[t] /\ image'[t] = image[t] /\ running'[t] = running[t]
              /\ applied'[t] = applied[t] /\ (t \in restored' <=> t \in restored)
              /\ (t \in writes' <=> t \in writes) /\ (t \in blocked' <=> t \in blocked)
    PROVE  IInv'
  <1>1. HubInv'
    BY Zenon DEF IInv, HubInv, hub
  <1>2. ASSUME NEW t \in Sites \ {s} PROVE SiteInv(t)'
    <2>1. SiteInv(t)
      BY DEF IInv
    <2>2. JobOf(t)' = JobOf(t)
      BY DEF JobOf
    <2>3. prepareMajorUpgrade(t)' <=> prepareMajorUpgrade(t)
      BY <2>2 DEF prepareMajorUpgrade
    <2>4. WorkloadsReady(t)' <=> WorkloadsReady(t)
      BY <2>2 DEF WorkloadsReady, WantedImage, majorMemberStopped, postgresMemberImage,
                  majorWriteServiceStopped
    <2>5. ReportInv(t)'
      BY <2>1, <2>2, <2>3, <2>4, Zenon DEF SiteInv, ReportInv, hub
    <2>6. ForwardInv(t)' /\ BackwardInv(t)'
      BY <2>1 DEF SiteInv, ForwardInv, BackwardInv, hub
    <2>. QED
      BY <2>5, <2>6, Zenon DEF SiteInv
  <1>. QED
    BY <1>1, <1>2, Zenon DEF IInv

LEMMA ReceiveLemma ==
    ASSUME IInv, NEW s \in Sites, ReceivePlan(s)
    PROVE  IInv'
  <1>1. /\ UNCHANGED hub
        /\ UNCHANGED <<applied, blocked, data, restored, artifact, image, running, writes,
                       edits, failures>>
        /\ held[s].revision < plan.revision
        /\ held' = [held EXCEPT ![s] = plan]
        /\ job' = [job EXCEPT ![s] = IF held[s].phase = plan.phase THEN job[s] ELSE "none"]
    BY DEF ReceivePlan, hub, hubVars, specVars, statusVars, reportVars
  <1>2. TypeOK'
    BY <1>1 DEF IInv, TypeOK, hub
  <1>3. SiteInv(s) /\ HubInv /\ active \in Nat /\ applied[s] \in Nat /\ held[s].revision \in Nat
    BY Zenon DEF IInv, TypeOK, Plans
  <1>4. /\ held'[s] = plan /\ held[s].revision # active
        /\ job'[s] = IF held[s].phase = plan.phase THEN job[s] ELSE "none"
    BY <1>1, <1>3 DEF IInv, TypeOK, HubInv
  <1>5. applied[s] # active
    BY <1>3, <1>4, Zenon DEF SiteInv, ReportInv
  <1>6. ReportInv(s)'
    <2>1. job'[s] = "failed" => JobOf(s)' # "nothing"
      BY <1>3, <1>4, Zenon DEF SiteInv, ReportInv, JobOf
    <2>2. plan.revision = active /\ active <= active
      BY <1>3 DEF HubInv
    <2>. QED
      BY <1>1, <1>3, <1>4, <1>5, <2>1, <2>2 DEF SiteInv, ReportInv, HubInv, hub
  <1>7. ForwardInv(s)'
    BY <1>1, <1>3, <1>4, Zenon DEF SiteInv, ForwardInv, HubInv, hub
  <1>8. BackwardInv(s)'
    <2>1. upgrade = "Active" /\ phase # "MajorRollback" => plan.phase = phase
      BY <1>3, <1>5, Zenon DEF SiteInv, ReportInv
    <2>2. phase = "MajorRollbackStart" => upgrade = "Active"
      BY <1>3, Zenon DEF HubInv, IInv, TypeOK
    <2>. QED
      BY <1>1, <1>3, <1>4, <2>1, <2>2, PhaseSets, Zenon DEF SiteInv, BackwardInv, HubInv, hub
  <1>. QED
    BY <1>1, <1>2, <1>6, <1>7, <1>8, OneSite DEF SiteInv, IInv, TypeOK

LEMMA StorageLemma ==
    ASSUME IInv, NEW s \in Sites, reconcileRollbackStorage(s)
    PROVE  IInv'
  <1>1. /\ UNCHANGED hub
        /\ UNCHANGED <<applied, blocked, held, job, data, restored, image, running, writes,
                       edits, failures>>
        /\ held[s].phase = "MajorSnapshot" /\ artifact[s] = "none"
        /\ artifact' = [artifact EXCEPT ![s] = IF running[s] = "stopped" THEN "cold" ELSE "hot"]
    BY Zenon DEF reconcileRollbackStorage, hub, hubVars, specVars, statusVars, reportVars
  <1>2. TypeOK'
    BY <1>1 DEF IInv, TypeOK, hub
  <1>3. SiteInv(s) /\ HubInv
    BY Zenon DEF IInv
  <1>4. running[s] = "stopped"
    BY <1>1, <1>3 DEF SiteInv, ForwardInv, Early
  <1>5. artifact'[s] = "cold"
    BY <1>1, <1>4, Zenon DEF IInv, TypeOK
  <1>6. ReportInv(s)'
    <2>1. JobOf(s)' = JobOf(s)
      BY <1>1, Zenon DEF JobOf
    <2>2. prepareMajorUpgrade(s) => prepareMajorUpgrade(s)'
      BY <1>1, <1>5, <2>1, Zenon DEF prepareMajorUpgrade
    <2>3. WorkloadsReady(s)' <=> WorkloadsReady(s)
      BY <1>1, <2>1, Zenon DEF WorkloadsReady, WantedImage, majorMemberStopped, postgresMemberImage,
                        majorWriteServiceStopped
    <2>. QED
      BY <1>1, <1>3, <2>1, <2>2, <2>3, Zenon DEF SiteInv, ReportInv, hub
  <1>7. ForwardInv(s)' /\ BackwardInv(s)'
    BY <1>1, <1>3, <1>5, Zenon DEF SiteInv, ForwardInv, BackwardInv, hub
  <1>. QED
    BY <1>1, <1>2, <1>6, <1>7, OneSite, Zenon DEF SiteInv, IInv, TypeOK

\* A site whose phase is applied has nothing left to do.
LEMMA SettledLemma ==
    ASSUME IInv, NEW s \in Sites, applied[s] = active
    PROVE  /\ ~JobCreated(s) /\ running[s] = image[s] /\ image[s] = WantedImage(held[s], s)
           /\ (s \in writes) = ~majorWriteServiceStopped(held[s])
           /\ held[s].phase = "MajorRollback" => s \in restored /\ data[s] # "gone"
  <1>1. prepareMajorUpgrade(s) /\ WorkloadsReady(s)
    BY Zenon DEF IInv, SiteInv, ReportInv
  <1>. QED
    BY <1>1, Zenon DEF JobCreated, prepareMajorUpgrade, WorkloadsReady

\* A step at a site that is not settled need not keep what the report says.
LEMMA UnsettledLemma ==
    ASSUME IInv, NEW s \in Sites, UNCHANGED <<hub, held>>, applied'[s] = applied[s],
           applied[s] # active, job'[s] = "failed" => JobOf(s) # "nothing",
           s \in blocked' => s \in blocked
    PROVE  ReportInv(s)'
  <1>1. JobOf(s)' = JobOf(s)
    BY Zenon DEF JobOf
  <1>. QED
    BY <1>1 DEF IInv, SiteInv, ReportInv, hub

LEMMA JobLemma ==
    ASSUME IInv, NEW s \in Sites, JobSucceeds(s) \/ JobFails(s)
    PROVE  IInv'
  <1>1. /\ UNCHANGED hub
        /\ UNCHANGED <<applied, blocked, held, restored, artifact, image, running, writes, edits>>
        /\ JobCreated(s) /\ JobOf(s) # "nothing" /\ job[s] = "none"
    BY Zenon DEF JobSucceeds, JobFails, JobCreated, hub, hubVars, specVars, statusVars, reportVars
  <1>2. applied[s] # active
    BY <1>1, SettledLemma
  <1>3. \/ /\ job' = [job EXCEPT ![s] = "done"] /\ failures' = failures
           /\ \/ UNCHANGED data
              \/ JobOf(s) = "convert" /\ data' = [data EXCEPT ![s] = "target"]
              \/ JobOf(s) = "wipe" /\ data' = [data EXCEPT ![s] = "empty"]
        \/ /\ job' = [job EXCEPT ![s] = "failed"] /\ failures' = failures + 1
           /\ \/ UNCHANGED data
              \/ JobOf(s) \in {"convert", "wipe"} /\ data' = [data EXCEPT ![s] = "broken"]
              \/ JobOf(s) = "convert" /\ data' = [data EXCEPT ![s] = "target"]
    BY DEF JobSucceeds, JobFails
  <1>4. failures + 1 \in Nat
    BY DEF IInv, TypeOK
  <1>5. TypeOK'
    BY <1>1, <1>3, <1>4 DEF IInv, TypeOK, hub, Versions
  <1>6. SiteInv(s) /\ HubInv /\ job \in [Sites -> {"none", "done", "failed"}]
        /\ data \in [Sites -> Versions \cup {"empty", "broken", "gone"}]
    BY DEF IInv, TypeOK
  <1>7. /\ JobOf(s) = "convert" => held[s].phase = "MajorUpgradePrimary"
        /\ JobOf(s) = "wipe" => /\ held[s].phase \in {"MajorReplicas", "MajorRollbackStart"}
                                /\ s # Primary
        /\ held[s].phase \notin {"MajorStop", "MajorSnapshot", "MajorRollbackRestoreWrites", "None"}
    BY <1>1 DEF JobOf
  <1>8. \/ data'[s] = data[s]
        \/ JobOf(s) = "convert" /\ data'[s] \in {"target", "broken"}
        \/ JobOf(s) = "wipe" /\ data'[s] = "empty"
        \/ JobOf(s) = "wipe" /\ data'[s] = "broken" /\ job'[s] = "failed"
    BY <1>3, <1>6, Zenon
  <1>9. ReportInv(s)'
    BY <1>1, <1>2, UnsettledLemma, Zenon
  <1>10. ForwardInv(s)'
    BY <1>1, <1>6, <1>7, <1>8, Zenon DEF SiteInv, ForwardInv, hub, Early
  <1>11. BackwardInv(s)'
    <2>1. phase # "MajorRollbackStart" \/ data[s] # "broken"
      BY <1>1, <1>6, Zenon DEF SiteInv, BackwardInv
    <2>2. phase = "MajorRollbackRestoreWrites" \/ upgrade = "Failed" =>
             /\ held[s].phase = "MajorRollbackStart" /\ s = Primary
             /\ data'[s] = data[s]
      BY <1>1, <1>6, <1>7, <1>8, Zenon DEF SiteInv, BackwardInv
    <2>3. phase = "MajorRollback" /\ s \in restored => data'[s] = data[s]
      BY <1>6, <1>7, <1>8, Zenon DEF SiteInv, BackwardInv
    <2>4. phase = "MajorRollbackStart" =>
             \/ data'[s] = data[s]
             \/ data'[s] = "empty" /\ s # Primary
             \/ /\ data'[s] = "broken" /\ job'[s] = "failed" /\ s # Primary
                /\ held[s].phase = "MajorRollbackStart"
      BY <1>6, <1>7, <1>8 DEF SiteInv, BackwardInv
    <2>. QED
      BY <1>1, <1>6, <2>1, <2>2, <2>3, <2>4, PhaseSets, Zenon DEF SiteInv, BackwardInv, hub
  <1>12. \A t \in Sites \ {s} : job'[t] = job[t] /\ data'[t] = data[t]
    BY <1>3, <1>6, Zenon
  <1>. QED
    BY <1>1, <1>5, <1>9, <1>10, <1>11, <1>12, OneSite DEF SiteInv

LEMMA StopLemma ==
    ASSUME IInv, NEW s \in Sites, ensureRollbackWorkloadsStopped(s)
    PROVE  IInv'
  <1>1. /\ UNCHANGED hub
        /\ UNCHANGED <<applied, blocked, held, job, data, restored, artifact, running,
                       edits, failures>>
        /\ held[s].phase = "MajorRollback" /\ (image[s] # "stopped" \/ s \in writes)
        /\ image' = [image EXCEPT ![s] = "stopped"] /\ writes' = writes \ {s}
    BY Zenon DEF ensureRollbackWorkloadsStopped, hub, hubVars, specVars, statusVars, reportVars
  <1>2. TypeOK'
    BY <1>1 DEF IInv, TypeOK, hub
  <1>3. SiteInv(s) /\ HubInv /\ image'[s] = "stopped"
        /\ \A t \in Sites \ {s} : image'[t] = image[t]
    BY <1>1 DEF IInv, TypeOK
  <1>4. applied[s] # active
    BY <1>1, SettledLemma, Zenon
       DEF WantedImage, majorMemberStopped, majorWriteServiceStopped, AllStopped
  <1>5. ReportInv(s)'
    BY <1>1, <1>3, <1>4, UnsettledLemma, Zenon DEF SiteInv, ReportInv
  <1>6. ForwardInv(s)' /\ BackwardInv(s)'
    BY <1>1, <1>3, Zenon DEF SiteInv, ForwardInv, BackwardInv, hub, Early
  <1>. QED
    BY <1>1, <1>2, <1>3, <1>5, <1>6, OneSite, Zenon DEF SiteInv

LEMMA RestoreLemma ==
    ASSUME IInv, NEW s \in Sites, reconcileRollbackRestore(s)
    PROVE  IInv'
  <1>1. /\ UNCHANGED hub
        /\ UNCHANGED <<applied, blocked, held, job, artifact, image, running, writes,
                       edits, failures>>
        /\ held[s].phase = "MajorRollback" /\ image[s] = "stopped" /\ running[s] = "stopped"
        /\ \/ s \notin restored /\ data' = [data EXCEPT ![s] = "gone"] /\ UNCHANGED restored
           \/ s \notin restored /\ data[s] = "gone" /\ restored' = restored \cup {s} /\ UNCHANGED data
           \/ data[s] = "gone" /\ data' = [data EXCEPT ![s] = "source"] /\ UNCHANGED restored
    BY Zenon DEF reconcileRollbackRestore, hub, hubVars, specVars, statusVars, reportVars
  <1>2. TypeOK'
    BY <1>1 DEF IInv, TypeOK, hub, Versions
  <1>3. SiteInv(s) /\ HubInv /\ data \in [Sites -> Versions \cup {"empty", "broken", "gone"}]
    BY Zenon DEF IInv, TypeOK
  <1>4. applied[s] # active
    BY <1>1, SettledLemma, Zenon
  <1>5. ReportInv(s)'
    BY <1>1, <1>3, <1>4, UnsettledLemma, Zenon DEF SiteInv, ReportInv
  <1>6. phase = "MajorRollback" /\ upgrade = "Active"
    <2>1. phase \in RollbackPhases
      BY <1>1, <1>3, PhaseSets, Zenon DEF SiteInv, BackwardInv
    <2>2. phase # "MajorRollbackStart" /\ phase # "MajorRollbackRestoreWrites"
      BY <1>1, <1>3, Zenon DEF SiteInv, BackwardInv
    <2>. QED
      BY <1>3, <2>1, <2>2, PhaseSets, Zenon DEF HubInv, IInv, TypeOK
  <1>7. ForwardInv(s)'
    BY <1>1, <1>3, <1>6, Zenon DEF SiteInv, ForwardInv, hub, Early
  <1>8. BackwardInv(s)'
    <2>1. s \in restored' => data'[s] \in {"gone", "source"}
      BY <1>1, <1>3, <1>6, Zenon DEF SiteInv, BackwardInv
    <2>. QED
      BY <1>1, <1>3, <1>6, <2>1, PhaseSets, Zenon DEF SiteInv, BackwardInv, hub
  <1>9. \A t \in Sites \ {s} : data'[t] = data[t] /\ (t \in restored' <=> t \in restored)
    BY <1>1, <1>3, Zenon
  <1>. QED
    BY <1>1, <1>2, <1>5, <1>7, <1>8, <1>9, OneSite, Zenon DEF SiteInv

LEMMA WorkloadsLemma ==
    ASSUME IInv, NEW s \in Sites, reconcileWorkloads(s)
    PROVE  IInv'
  <1>. DEFINE w == WantedImage(held[s], s)
  <1>1. /\ UNCHANGED hub
        /\ UNCHANGED <<applied, blocked, held, job, data, restored, artifact, running,
                       edits, failures>>
        /\ image[s] # w \/ (s \in writes) # ~majorWriteServiceStopped(held[s])
        /\ image' = [image EXCEPT ![s] = w]
        /\ writes' = writes \ {s} \/ writes' = writes \cup {s}
    BY Zenon DEF reconcileWorkloads, hub, hubVars, specVars, statusVars, reportVars
  <1>2. applied[s] # active
    BY <1>1, SettledLemma
  <1>3. SiteInv(s) /\ HubInv /\ held[s] \in Plans /\ image \in [Sites -> Versions \cup {"stopped"}]
    BY Zenon DEF IInv, TypeOK
  <1>4. /\ w \in Versions \cup {"stopped"}
        /\ held[s].phase \in AllStopped => w = "stopped"
        /\ held[s].phase = "MajorRollbackStart" /\ s # Primary => w = "stopped"
        /\ held[s].phase \in RollbackPhases \cup {"None"} /\ held[s].major = "source" =>
              w \in {"source", "stopped"}
    BY <1>3, PhaseSets, Zenon DEF WantedImage, majorMemberStopped, postgresMemberImage, AllStopped,
                           PrimaryOnly, Plans, Versions
  <1>. HIDE DEF w
  <1>5. TypeOK'
    BY <1>1, <1>4, Zenon DEF IInv, TypeOK, hub
  <1>6. image'[s] = w /\ \A t \in Sites \ {s} : /\ image'[t] = image[t]
                                                /\ t \in writes' <=> t \in writes
    BY <1>1, <1>3, Zenon
  <1>7. ReportInv(s)'
    BY <1>1, <1>2, <1>3, UnsettledLemma, Zenon DEF SiteInv, ReportInv
  <1>8. ForwardInv(s)'
    BY <1>1, <1>3, <1>4, <1>6, Zenon DEF SiteInv, ForwardInv, hub, AllStopped
  <1>9. BackwardInv(s)'
    <2>1. phase \in RollbackPhases \/ upgrade = "Failed" => held[s].major = "source"
      BY <1>3, PhaseSets, Zenon DEF SiteInv, ReportInv, HubInv, IInv, TypeOK
    <2>. QED
      BY <1>1, <1>3, <1>4, <1>6, <2>1, PhaseSets, Zenon DEF SiteInv, BackwardInv, hub, AllStopped
  <1>. QED
    BY <1>1, <1>5, <1>6, <1>7, <1>8, <1>9, OneSite DEF SiteInv

LEMMA PodLemma ==
    ASSUME IInv, NEW s \in Sites, PodConverges(s)
    PROVE  IInv'
  <1>1. /\ UNCHANGED hub
        /\ UNCHANGED <<applied, blocked, held, job, restored, artifact, image, writes,
                       edits, failures>>
        /\ running[s] # image[s]
        /\ \/ running' = [running EXCEPT ![s] = "stopped"] /\ UNCHANGED data
           \/ running' = [running EXCEPT ![s] = image[s]] /\ UNCHANGED data
           \/ /\ running[s] = "stopped" /\ data[s] = "empty"
              /\ running' = [running EXCEPT ![s] = image[s]]
              /\ data' = [data EXCEPT ![s] = image[s]]
    BY Zenon DEF PodConverges, hub, hubVars, specVars, statusVars, reportVars
  <1>2. applied[s] # active
    BY <1>1, SettledLemma
  <1>3. /\ SiteInv(s) /\ HubInv /\ image[s] \in Versions \cup {"stopped"}
        /\ running \in [Sites -> Versions \cup {"stopped"}]
        /\ data \in [Sites -> Versions \cup {"empty", "broken", "gone"}]
    BY DEF IInv, TypeOK
  <1>4. /\ data'[s] = data[s] \/ (data[s] = "empty" /\ data'[s] = image[s] /\ image[s] \in Versions)
        /\ \A t \in Sites \ {s} : data'[t] = data[t] /\ running'[t] = running[t]
    BY <1>1, <1>3, Zenon
  <1>5. TypeOK'
    <2>1. /\ running' \in [Sites -> Versions \cup {"stopped"}]
          /\ data' \in [Sites -> Versions \cup {"empty", "broken", "gone"}]
      BY <1>1, <1>3, Zenon
    <2>. QED
      BY <1>1, <2>1 DEF IInv, TypeOK, hub
  <1>6. ReportInv(s)'
    BY <1>1, <1>2, <1>3, UnsettledLemma, Zenon DEF SiteInv, ReportInv
  <1>7. ForwardInv(s)'
    BY <1>1, <1>3, <1>4, Zenon DEF SiteInv, ForwardInv, hub
  <1>8. BackwardInv(s)'
    <2>1. /\ phase = "MajorRollback" => s \notin restored
          /\ phase = "MajorRollbackStart" => s = Primary /\ data'[s] = data[s]
      BY <1>1, <1>3, <1>4, Zenon DEF SiteInv, BackwardInv
    <2>2. phase = "MajorRollbackRestoreWrites" \/ upgrade = "Failed" =>
             data'[s] = data[s] \/ (data'[s] = "source" /\ s # Primary)
      BY <1>3, <1>4, Zenon DEF SiteInv, BackwardInv, Versions
    <2>. QED
      BY <1>1, <1>3, <2>1, <2>2, PhaseSets, Zenon DEF SiteInv, BackwardInv, hub
  <1>. QED
    BY <1>1, <1>4, <1>5, <1>6, <1>7, <1>8, OneSite, Zenon DEF SiteInv

LEMMA ReportLemma ==
    ASSUME IInv, NEW s \in Sites, ReportResult(s) \/ ReportBlocked(s)
    PROVE  IInv'
  <1>1. UNCHANGED hub /\ UNCHANGED siteVars /\ UNCHANGED <<edits, failures>>
    BY Zenon DEF ReportResult, ReportBlocked, hub, hubVars, specVars, statusVars
  <1>2. SiteInv(s) /\ HubInv /\ applied \in [Sites -> Nat] /\ blocked \subseteq Sites /\ active \in Nat
    BY Zenon DEF IInv, TypeOK
  <1>3. ForwardInv(s)' /\ BackwardInv(s)'
    BY <1>1, <1>2, Zenon DEF SiteInv, ForwardInv, BackwardInv, hub, siteVars
  <1>4. CASE ReportResult(s)
    <2>1. /\ applied' = [applied EXCEPT ![s] = active] /\ blocked' \in {blocked, blocked \ {s}}
          /\ prepareMajorUpgrade(s) /\ WorkloadsReady(s) /\ held[s].revision = active
      BY <1>4, Zenon DEF ReportResult
    <2>2. applied'[s] = active /\ \A t \in Sites \ {s} : applied'[t] = applied[t]
      BY <1>2, <2>1, Zenon
    <2>6. active <= active
      BY <1>2
    <2>3. job[s] # "failed"
      BY <1>2, <2>1, Zenon DEF WorkloadsReady, SiteInv, ReportInv
    <2>4. ReportInv(s)'
      BY <1>1, <1>2, <2>1, <2>2, <2>3, <2>6, SitesStand, Zenon DEF SiteInv, ReportInv, hub, siteVars
    <2>5. TypeOK'
      BY <1>1, <1>2, <2>1, Zenon DEF IInv, TypeOK, hub, siteVars
    <2>. QED
      BY <1>1, <1>2, <1>3, <2>1, <2>2, <2>4, <2>5, OneSite, Zenon DEF SiteInv, siteVars
  <1>5. CASE ReportBlocked(s)
    <2>1. /\ UNCHANGED applied
          /\ \/ job[s] = "failed" /\ blocked' = blocked \cup {s}
             \/ blocked' = blocked \ {s}
      BY <1>5, Zenon DEF ReportBlocked
    <2>2. ReportInv(s)'
      BY <1>1, <1>2, <2>1, SitesStand, Zenon DEF SiteInv, ReportInv, hub, siteVars
    <2>3. TypeOK'
      BY <1>1, <1>2, <2>1 DEF IInv, TypeOK, hub, siteVars
    <2>. QED
      BY <1>1, <1>2, <1>3, <2>1, <2>2, <2>3, OneSite, Zenon DEF SiteInv, siteVars
  <1>. QED
    BY <1>4, <1>5, Zenon

-----------------------------------------------------------------------------
\* Nobody edits the instance or deletes the upgrade while it runs.
Undisturbed == MaxEdits = 0 /\ MaxDeletes = 0

LEMMA StepLemma ==
    ASSUME Undisturbed, IInv, [Next]_vars
    PROVE  IInv'
  <1>1. CASE HubNext
    <2>1. ~reconcileUpgradeDeletion
      BY DEF IInv, HubInv, reconcileUpgradeDeletion
    <2>. QED
      BY <1>1, <2>1, BeginLemma, RollBackLemma, AdvanceLemma, TerminalLemma, StartLemma,
         FinishLemma, Zenon DEF HubNext
  <1>2. ASSUME NEW s \in Sites, SiteNext(s) PROVE IInv'
    BY <1>2, ReceiveLemma, StorageLemma, JobLemma, StopLemma, RestoreLemma, WorkloadsLemma,
       PodLemma, ReportLemma, Zenon DEF SiteNext
  <1>3. ~EditInstance
    BY DEF Undisturbed, EditInstance, IInv, TypeOK
  <1>4. ~DeleteUpgrade /\ ~ForceAbandon
    BY DEF Undisturbed, DeleteUpgrade, ForceAbandon, IInv, HubInv
  <1>5. CASE UNCHANGED vars
    BY <1>5, StutterLemma
  <1>. QED
    BY <1>1, <1>2, <1>3, <1>4, <1>5 DEF Next

LEMMA InvariantLemma == ASSUME Undisturbed PROVE Spec => []IInv
  <1>1. IInv /\ [Next]_vars => IInv'
    BY StepLemma
  <1>. QED
    BY <1>1, InitLemma, PTL DEF Spec

\* Snapshots and clones are of stopped members only, whatever fails on the way
\* (prepareMajorUpgrade, reconcileRollbackStorage).
THEOREM ColdTheorem == ASSUME Undisturbed PROVE Spec => []ArtifactsAreCold
  <1>1. IInv => ArtifactsAreCold
    BY Zenon DEF IInv, SiteInv, ForwardInv, ArtifactsAreCold
  <1>. QED
    BY <1>1, InvariantLemma, PTL

\* The former primary's files are touched only when every member has a cold
\* artifact (advanceMajorUpgrade, rollbackMajorUpgrade).
THEOREM RecoverableTheorem == ASSUME Undisturbed PROVE Spec => []ConversionIsRecoverable
  <1>1. IInv => ConversionIsRecoverable
    <2>. SUFFICES ASSUME IInv, phase \in FailureRollsBack \cup {"MajorRollback"}, NEW s \in Sites
         PROVE  artifact[s] = "cold"
      BY Zenon DEF ConversionIsRecoverable
    <2>1. artifact[s] \in {"none", "cold", "hot"}
      BY Zenon DEF IInv, TypeOK
    <2>. QED
      BY <2>1 DEF IInv, SiteInv, ForwardInv, Early, FailureRollsBack
  <1>. QED
    BY <1>1, InvariantLemma, PTL

\* The database is in a data PVC or an artifact at every moment, although the
\* rollback deletes the PVCs (reconcileRollbackRestore).
THEOREM SurvivesTheorem == ASSUME Undisturbed PROVE Spec => []DatabaseSurvives
  <1>1. IInv => DatabaseSurvives
    BY PrimaryAssumption, Zenon DEF IInv, SiteInv, ForwardInv, DatabaseSurvives, Versions
  <1>. QED
    BY <1>1, InvariantLemma, PTL

\* Pgpool comes back after a rollback only over data of the source version
\* (advanceMajorUpgrade, majorWriteServiceStopped).
THEOREM RolledBackTheorem == ASSUME Undisturbed PROVE Spec => []RolledBackToSource
  <1>1. IInv => RolledBackToSource
    <2>. SUFFICES ASSUME IInv, NEW s \in writes, held[s].phase = "MajorRollbackRestoreWrites"
         PROVE  data[Primary] = "source" /\ \A t \in Sites : data[t] \in {"source", "empty"}
      BY DEF RolledBackToSource
    <2>1. s \in Sites
      BY Zenon DEF IInv, TypeOK
    <2>2. phase = "MajorRollbackRestoreWrites" \/ upgrade = "Failed"
      BY <2>1, PhaseSets, Zenon DEF IInv, SiteInv, BackwardInv
    <2>. QED
      BY <2>2, PrimaryAssumption, Zenon DEF IInv, SiteInv, BackwardInv
  <1>. QED
    BY <1>1, InvariantLemma, PTL

-----------------------------------------------------------------------------
(* With edits, deletions and abandonment: plans may lag behind the phase. *)

\* The phase before a phase of the way forward.
Prior(p) ==
    CASE p = "MajorDrain" -> "MajorPreflight"
      [] p = "MajorStop" -> "MajorDrain"
      [] p = "MajorSnapshot" -> "MajorStop"
      [] p = "MajorUpgradePrimary" -> "MajorSnapshot"
      [] p = "MajorStanzaUpgrade" -> "MajorUpgradePrimary"
      [] p = "MajorStartPrimary" -> "MajorStanzaUpgrade"
      [] p = "MajorReplicas" -> "MajorStartPrimary"
      [] OTHER -> "None"

\* The phases up to the gate of the topology, and the plans that a failure
\* can leave behind.
Opening == {"None", "MajorPreflight", "MajorDrain", "MajorStop", "MajorSnapshot",
            "MajorUpgradePrimary", "MajorStanzaUpgrade", "MajorStartPrimary", "MajorReplicas"}
Stopping == {"MajorStop", "MajorSnapshot", "MajorUpgradePrimary", "MajorStanzaUpgrade",
             "MajorStartPrimary", "MajorRollback"}

\* An edit lets a reconcile in flight answer for a phase that it has not seen:
\* then the plan is one phase behind when it counts as applied, and two when
\* the hub has gone on.
PaceInv ==
    /\ expected <= active + 1
    /\ upgrade = "Active" /\ phase \in Opening =>
          IF active >= expected
          THEN plan.phase \in {phase, Prior(phase)} /\ (rec.on => rec.phase = phase)
          ELSE /\ plan.phase \in {Prior(phase), Prior(Prior(phase))}
               /\ rec.on => rec.phase \in {phase, Prior(phase)}
    /\ upgrade = "Active" /\ phase = "MajorRollback" =>
          /\ active >= expected /\ rec.on => rec.phase = "MajorRollback"
          /\ ~deleting => plan.phase \in Stopping /\ (rec.on => rec.phase \in Stopping)
    /\ upgrade = "Active" /\ phase = "MajorRollbackStart" =>
          /\ active >= expected => plan.phase \in {"MajorRollback", "MajorRollbackStart"}
          /\ rec.on => rec.phase \in {"MajorRollback", "MajorRollbackStart"}

\* A site that applied the active revision has it in place.
SettledInv ==
    /\ plan.revision = active
    /\ \A s \in Sites :
          /\ held[s].revision <= active /\ applied[s] <= active
          /\ held[s].revision = active => held[s] = plan
          /\ applied[s] = active => /\ held[s].revision = active
                                    /\ prepareMajorUpgrade(s) /\ WorkloadsReady(s)

NotTarget(s) == image[s] # "target" /\ running[s] # "target"
TargetPhases == {"MajorStartPrimary", "MajorReplicas", "MajorRestoreWrites", "MajorFinalize"}
ClosedPhases == AllStopped \cup PrimaryOnly \cup {"MajorDrain", "MajorReplicas"}

SourceSpec ==
    /\ major = "source" /\ plan.major = "source" /\ (rec.on => rec.major = "source")
    /\ \A s \in Sites : held[s].major = "source"

\* No member is of the target version, and no plan asks for one.
SourceEra ==
    /\ SourceSpec
    /\ plan.phase \notin TargetPhases /\ (rec.on => rec.phase \notin TargetPhases)
    /\ \A s \in Sites : held[s].phase \notin TargetPhases /\ NotTarget(s)

\* Pgpool is down at every site, and no plan brings it up.
ClosedEra ==
    /\ SourceSpec
    /\ plan.phase \in ClosedPhases /\ (rec.on => rec.phase \in ClosedPhases)
    /\ \A s \in Sites : held[s].phase \in ClosedPhases /\ s \notin writes

\* A member is of the target version once its own preparation is done, and its
\* data is too when it runs.
Upgraded(s) ==
    IF s = Primary THEN held[s].phase \in {"MajorStartPrimary", "MajorReplicas"}
    ELSE held[s].phase = "MajorReplicas" /\ job[s] = "done"

MemberInv ==
    \A s \in Sites :
        /\ NotTarget(s) \/ Upgraded(s)
        /\ running[s] = "target" => data[s] = "target"
        /\ held[s].phase = "MajorStartPrimary" => plan.phase \in {"MajorStartPrimary", "MajorReplicas"}
        /\ held[s].phase = "MajorReplicas" => plan.phase = "MajorReplicas"

\* Every data PVC is of the target version, and no plan touches it any more:
\* a standby that holds Replicas has been wiped and cloned.
ServedPhases == {"MajorStartPrimary", "MajorReplicas", "MajorRestoreWrites", "MajorFinalize", "None"}

ServedEra ==
    /\ plan.phase \in ServedPhases /\ (rec.on => rec.phase \in ServedPhases \ {"MajorStartPrimary"})
    /\ \A s \in Sites : data[s] = "target" /\ held[s].phase \in ServedPhases
    /\ \A s \in Sites \ {Primary} :
          /\ held[s].phase = "MajorReplicas" => job[s] = "done"
          /\ plan.phase # "MajorStartPrimary"
          /\ plan.phase = "MajorReplicas" => held[s].phase = "MajorReplicas"
          /\ rec.on /\ rec.phase = "MajorReplicas" => plan.phase = "MajorReplicas"

EraInv ==
    /\ upgrade = "Completed" => phase \in {"MajorFinalize", "None"}
    /\ upgrade = "Failed" => phase \in {"MajorRollbackRestoreWrites", "None"}
    /\ upgrade = "Gone" => phase \in {"MajorFinalize", "MajorRollbackRestoreWrites", "None"}
    /\ upgrade = "Gone" /\ forced => phase = "None"
    /\ ~(upgrade = "Gone" /\ forced) =>
          /\ phase \in {"MajorPreflight", "MajorDrain", "MajorStop", "MajorSnapshot",
                        "MajorUpgradePrimary", "MajorStanzaUpgrade", "MajorRollbackRestoreWrites"}
                => SourceEra
          /\ phase \in {"MajorStartPrimary", "MajorReplicas"} => ClosedEra /\ MemberInv
          /\ phase = "MajorRollback" => SourceEra \/ ClosedEra
          /\ phase = "MajorRollbackStart" => ClosedEra
          /\ phase \in {"MajorRestoreWrites", "MajorFinalize"} => ServedEra
          /\ phase = "None" => IF upgrade = "Completed" THEN ServedEra
                               ELSE IF upgrade = "Gone" THEN SourceEra \/ ServedEra
                               ELSE SourceEra

GInv == TypeOK /\ PaceInv /\ SettledInv /\ EraInv

-----------------------------------------------------------------------------
LEMMA Priors ==
    /\ Prior("None") = "None" /\ Prior("MajorPreflight") = "None"
    /\ Prior("MajorDrain") = "MajorPreflight" /\ Prior("MajorStop") = "MajorDrain"
    /\ Prior("MajorSnapshot") = "MajorStop" /\ Prior("MajorUpgradePrimary") = "MajorSnapshot"
    /\ Prior("MajorStanzaUpgrade") = "MajorUpgradePrimary"
    /\ Prior("MajorStartPrimary") = "MajorStanzaUpgrade"
    /\ Prior("MajorReplicas") = "MajorStartPrimary"
  BY DEF Prior

\* The next phase of the opening is the one whose prior it is.
LEMMA OpeningPhases ==
    ASSUME NEW p \in Opening \ {"None", "MajorReplicas"}
    PROVE  /\ NextPhase(p) \in Opening /\ Prior(NextPhase(p)) = p
           /\ NextPhase(p) \in {"MajorDrain", "MajorStop", "MajorSnapshot", "MajorUpgradePrimary",
                                "MajorStanzaUpgrade", "MajorStartPrimary", "MajorReplicas"}
  BY NextPhases, Priors, Zenon DEF Opening

-----------------------------------------------------------------------------
(* What a step of a site does to it. *)

Alike(t) ==
    /\ held'[t] = held[t] /\ job'[t] = job[t] /\ data'[t] = data[t]
    /\ image'[t] = image[t] /\ running'[t] = running[t] /\ (t \in writes' <=> t \in writes)

Received(s) ==
    /\ held'[s] = plan /\ job'[s] = IF held[s].phase = plan.phase THEN job[s] ELSE "none"
    /\ data'[s] = data[s] /\ image'[s] = image[s] /\ running'[s] = running[s]
    /\ s \in writes' <=> s \in writes

Worked(s) ==
    /\ held'[s] = held[s] /\ image'[s] = image[s] /\ running'[s] = running[s]
    /\ s \in writes' <=> s \in writes
    /\ job[s] = "none"
    /\ data'[s] = data[s] \/ JobOf(s) \in {"convert", "wipe"}

Stopped(s) ==
    /\ held[s].phase = "MajorRollback" /\ held'[s] = held[s]
    /\ job'[s] = job[s] /\ data'[s] = data[s] /\ running'[s] = running[s]
    /\ image'[s] = "stopped" /\ s \notin writes'

Restored(s) ==
    /\ held[s].phase = "MajorRollback" /\ held'[s] = held[s]
    /\ job'[s] = job[s] /\ image'[s] = image[s]
    /\ running[s] = "stopped" /\ running'[s] = "stopped" /\ (s \in writes' <=> s \in writes)

Rendered(s) ==
    /\ held'[s] = held[s] /\ job'[s] = job[s] /\ data'[s] = data[s] /\ running'[s] = running[s]
    /\ prepareMajorUpgrade(s) /\ image'[s] = WantedImage(held[s], s)
    /\ s \in writes' <=> ~majorWriteServiceStopped(held[s])

Converged(s) ==
    /\ held'[s] = held[s] /\ job'[s] = job[s] /\ image'[s] = image[s]
    /\ s \in writes' <=> s \in writes
    /\ \/ running'[s] = "stopped" /\ data'[s] = data[s]
       \/ running'[s] = image[s] /\ data'[s] = image[s] /\ data[s] \in {image[s], "empty"}

Effect(s) ==
    \/ Alike(s) \/ Received(s) \/ Worked(s) \/ Stopped(s) \/ Restored(s) \/ Rendered(s)
    \/ Converged(s)

LEMMA SiteEffect ==
    ASSUME TypeOK, NEW s \in Sites, SiteNext(s)
    PROVE  UNCHANGED hub /\ Effect(s) /\ \A t \in Sites \ {s} : Alike(t)
  <1>. USE DEF TypeOK
  <1>1. CASE ReceivePlan(s)
    <2>1. Received(s) /\ \A t \in Sites \ {s} : Alike(t)
      BY <1>1, Zenon DEF ReceivePlan, Received, Alike
    <2>. QED
      BY <1>1, <2>1, Zenon DEF ReceivePlan, hub, hubVars, specVars, statusVars, Effect
  <1>2. CASE reconcileRollbackStorage(s) \/ ReportResult(s) \/ ReportBlocked(s)
    <2>1. \A t \in Sites : Alike(t)
      BY <1>2 DEF reconcileRollbackStorage, ReportResult, ReportBlocked, siteVars, Alike
    <2>. QED
      BY <1>2, <2>1, Zenon
         DEF reconcileRollbackStorage, ReportResult, ReportBlocked, hub, hubVars, specVars,
             statusVars, Effect
  <1>3. CASE JobSucceeds(s) \/ JobFails(s)
    <2>1. UNCHANGED <<held, image, running, writes>> /\ UNCHANGED hub /\ job[s] = "none"
      BY <1>3 DEF JobSucceeds, JobFails, JobCreated, hub, hubVars, specVars, statusVars
    <2>2. \E j \in {"done", "failed"} : job' = [job EXCEPT ![s] = j]
      BY <1>3 DEF JobSucceeds, JobFails
    <2>3. \/ UNCHANGED data
          \/ /\ JobOf(s) \in {"convert", "wipe"}
             /\ \E d \in {"target", "empty", "broken"} : data' = [data EXCEPT ![s] = d]
      BY <1>3 DEF JobSucceeds, JobFails
    <2>4. Worked(s)
      BY <2>1, <2>3 DEF Worked
    <2>5. \A t \in Sites \ {s} : Alike(t)
      BY <2>1, <2>2, <2>3, Zenon DEF Alike
    <2>. QED
      BY <2>1, <2>4, <2>5 DEF Effect
  <1>4. CASE ensureRollbackWorkloadsStopped(s)
    <2>1. Stopped(s) /\ \A t \in Sites \ {s} : Alike(t)
      BY <1>4 DEF ensureRollbackWorkloadsStopped, Stopped, Alike
    <2>. QED
      BY <1>4, <2>1, Zenon DEF ensureRollbackWorkloadsStopped, hub, hubVars, specVars, statusVars, Effect
  <1>5. CASE reconcileRollbackRestore(s)
    <2>1. /\ UNCHANGED <<held, job, image, running, writes>> /\ UNCHANGED hub
          /\ held[s].phase = "MajorRollback" /\ running[s] = "stopped"
      BY <1>5, Zenon DEF reconcileRollbackRestore, hub, hubVars, specVars, statusVars
    <2>2. UNCHANGED data \/ \E d \in {"gone", "source"} : data' = [data EXCEPT ![s] = d]
      BY <1>5 DEF reconcileRollbackRestore
    <2>3. Restored(s)
      BY <2>1 DEF Restored
    <2>4. \A t \in Sites \ {s} : Alike(t)
      BY <2>1, <2>2 DEF Alike
    <2>. QED
      BY <2>1, <2>3, <2>4, Zenon DEF Effect
  <1>6. CASE reconcileWorkloads(s)
    <2>1. /\ UNCHANGED <<held, job, data, running>> /\ UNCHANGED hub /\ prepareMajorUpgrade(s)
          /\ image' = [image EXCEPT ![s] = WantedImage(held[s], s)]
          /\ writes' = IF majorWriteServiceStopped(held[s]) THEN writes \ {s} ELSE writes \cup {s}
      BY <1>6, Zenon DEF reconcileWorkloads, hub, hubVars, specVars, statusVars
    <2>2. Rendered(s)
      BY <2>1, Zenon DEF Rendered
    <2>3. \A t \in Sites \ {s} : Alike(t)
      BY <2>1, Zenon DEF Alike
    <2>. QED
      BY <2>1, <2>2, <2>3, Zenon DEF Effect
  <1>7. CASE PodConverges(s)
    <2>1. Converged(s) /\ \A t \in Sites \ {s} : Alike(t)
      BY <1>7 DEF PodConverges, Converged, Alike
    <2>. QED
      BY <1>7, <2>1, Zenon DEF PodConverges, hub, hubVars, specVars, statusVars, Effect
  <1>. QED
    BY <1>1, <1>2, <1>3, <1>4, <1>5, <1>6, <1>7, Zenon DEF SiteNext

-----------------------------------------------------------------------------
(* The eras at the sites. *)

\* What a plan with the source version in its spec asks for.
LEMMA WantedSource ==
    ASSUME NEW p \in Plans, p.major = "source", NEW s \in Sites
    PROVE  WantedImage(p, s) = "target" =>
              p.phase \in TargetPhases /\ (p.phase = "MajorStartPrimary" => s = Primary)
  BY Zenon DEF WantedImage, postgresMemberImage, majorMemberStopped, PrimaryOnly, TargetPhases

LEMMA SourceSpecSite ==
    ASSUME TypeOK, SourceSpec, NEW s \in Sites, Effect(s), UNCHANGED hub,
           \A t \in Sites \ {s} : Alike(t)
    PROVE  SourceSpec'
  <1>1. held'[s] \in {held[s], plan}
    BY Zenon DEF Effect, Alike, Received, Worked, Stopped, Restored, Rendered, Converged
  <1>. QED
    BY <1>1, Zenon DEF SourceSpec, hub, Alike

LEMMA SourceSite ==
    ASSUME TypeOK, SourceEra, NEW s \in Sites, Effect(s), UNCHANGED hub,
           \A t \in Sites \ {s} : Alike(t)
    PROVE  SourceEra'
  <1>1. SourceSpec'
    BY SourceSpecSite, Zenon DEF SourceEra
  <1>2. held'[s] \in {held[s], plan}
    BY DEF Effect, Alike, Received, Worked, Stopped, Restored, Rendered, Converged
  <1>3. held[s] \in Plans /\ held[s].major = "source" /\ held[s].phase \notin TargetPhases
    BY Zenon DEF TypeOK, SourceEra, SourceSpec
  <1>4. WantedImage(held[s], s) # "target"
    BY <1>3, WantedSource, Zenon
  <1>5. NotTarget(s)'
    BY <1>4, Zenon DEF Effect, Alike, Received, Worked, Stopped, Restored, Rendered, Converged,
                       NotTarget, SourceEra
  <1>6. \A t \in Sites : held'[t].phase \notin TargetPhases /\ NotTarget(t)'
    BY <1>2, <1>5, Zenon DEF SourceEra, Alike, NotTarget
  <1>. QED
    BY <1>1, <1>6, Zenon DEF SourceEra, hub

LEMMA ClosedSite ==
    ASSUME TypeOK, ClosedEra, NEW s \in Sites, Effect(s), UNCHANGED hub,
           \A t \in Sites \ {s} : Alike(t)
    PROVE  ClosedEra'
  <1>1. SourceSpec'
    BY SourceSpecSite, Zenon DEF ClosedEra
  <1>2. held'[s] \in {held[s], plan}
    BY DEF Effect, Alike, Received, Worked, Stopped, Restored, Rendered, Converged
  <1>3. majorWriteServiceStopped(held[s])
    BY Zenon DEF ClosedEra, ClosedPhases, majorWriteServiceStopped
  <1>4. s \notin writes'
    BY <1>3, Zenon DEF Effect, Alike, Received, Worked, Stopped, Restored, Rendered, Converged, ClosedEra
  <1>5. \A t \in Sites : held'[t].phase \in ClosedPhases /\ t \notin writes'
    BY <1>2, <1>4, Zenon DEF ClosedEra, Alike
  <1>. QED
    BY <1>1, <1>5 DEF ClosedEra, hub

LEMMA MemberSite ==
    ASSUME TypeOK, ClosedEra, MemberInv, NEW s \in Sites, Effect(s), UNCHANGED hub,
           \A t \in Sites \ {s} : Alike(t)
    PROVE  MemberInv'
  <1>. DEFINE M(t) == /\ NotTarget(t) \/ Upgraded(t)
                      /\ running[t] = "target" => data[t] = "target"
                      /\ held[t].phase = "MajorStartPrimary" =>
                            plan.phase \in {"MajorStartPrimary", "MajorReplicas"}
                      /\ held[t].phase = "MajorReplicas" => plan.phase = "MajorReplicas"
  <1>1. \A t \in Sites : M(t)
    BY Zenon DEF MemberInv
  <1>2. ASSUME NEW t \in Sites \ {s} PROVE M(t)'
    BY <1>1, <1>2 DEF Alike, NotTarget, Upgraded, hub
  <1>3. M(s)'
    <2>1. plan' = plan
      BY Zenon DEF hub
    <2>2. CASE Alike(s)
      BY <1>1, <2>1, <2>2, Zenon DEF Alike, NotTarget, Upgraded
    <2>3. CASE Received(s)
      <3>1. Upgraded(s) => Upgraded(s)'
        BY <1>1, <2>3, Zenon DEF Received, Upgraded
      <3>. QED
        BY <1>1, <2>1, <2>3, <3>1, Zenon DEF Received, NotTarget
    <2>4. CASE Worked(s)
      <3>1. JobOf(s) \in {"convert", "wipe"} => ~Upgraded(s)
        BY <2>4, Zenon DEF Worked, JobOf, Upgraded
      <3>2. Upgraded(s) /\ s # Primary => FALSE
        BY <2>4, Zenon DEF Worked, Upgraded
      <3>3. Upgraded(s) => Upgraded(s)'
        BY <2>4, <3>2, Zenon DEF Worked, Upgraded
      <3>. QED
        BY <1>1, <2>1, <2>4, <3>1, <3>3, Zenon DEF Worked, NotTarget
    <2>5. CASE Stopped(s) \/ Restored(s)
      <3>1. ~Upgraded(s) /\ held'[s] = held[s]
        BY <2>5, Zenon DEF Stopped, Restored, Upgraded
      <3>2. NotTarget(s)'
        BY <1>1, <2>5, <3>1, Zenon DEF Stopped, Restored, NotTarget
      <3>. QED
        BY <1>1, <2>1, <3>1, <3>2, Zenon DEF NotTarget
    <2>6. CASE Rendered(s)
      <3>1. held[s] \in Plans /\ held[s].major = "source" /\ held[s].phase \in ClosedPhases
        BY Zenon DEF TypeOK, ClosedEra, SourceSpec
      <3>2. WantedImage(held[s], s) = "target" => Upgraded(s)
        <4>1. WantedImage(held[s], s) = "target" =>
                 held[s].phase = "MajorReplicas" \/ (held[s].phase = "MajorStartPrimary" /\ s = Primary)
          BY <3>1, WantedSource DEF TargetPhases, ClosedPhases, AllStopped, PrimaryOnly
        <4>2. held[s].phase = "MajorReplicas" /\ s # Primary => job[s] = "done"
          BY <2>6, Zenon DEF Rendered, prepareMajorUpgrade, JobOf
        <4>. QED
          BY <4>1, <4>2, Zenon DEF Upgraded
      <3>3. Upgraded(s) => Upgraded(s)'
        BY <2>6, Zenon DEF Rendered, Upgraded
      <3>. QED
        BY <1>1, <2>1, <2>6, <3>2, <3>3, Zenon DEF Rendered, NotTarget
    <2>7. CASE Converged(s)
      <3>1. Upgraded(s) => Upgraded(s)'
        BY <2>7, Zenon DEF Converged, Upgraded
      <3>. QED
        BY <1>1, <2>1, <2>7, <3>1, Zenon DEF Converged, NotTarget
    <2>. QED
      BY <2>2, <2>3, <2>4, <2>5, <2>6, <2>7, Zenon DEF Effect
  <1>4. \A t \in Sites : M(t)'
    BY <1>2, <1>3, Zenon
  <1>. QED
    BY <1>4, Zenon DEF MemberInv

LEMMA ServedSite ==
    ASSUME TypeOK, ServedEra, NEW s \in Sites, Effect(s), UNCHANGED hub,
           \A t \in Sites \ {s} : Alike(t)
    PROVE  ServedEra'
  <1>1. held'[s] \in {held[s], plan}
    BY DEF Effect, Alike, Received, Worked, Stopped, Restored, Rendered, Converged
  <1>2. held[s].phase # "MajorRollback" /\ held[s].phase # "MajorUpgradePrimary"
        /\ held[s].phase # "MajorRollbackStart" /\ data[s] = "target"
    BY DEF ServedEra, ServedPhases
  <1>3. Worked(s) => data'[s] = data[s] /\ (s # Primary => held[s].phase # "MajorReplicas")
    BY <1>2, Zenon DEF Worked, JobOf, ServedEra
  <1>4. data'[s] = "target"
    BY <1>2, <1>3, Zenon DEF Effect, Alike, Received, Stopped, Restored, Rendered, Converged
  <1>5. s # Primary => /\ held'[s].phase = "MajorReplicas" => job'[s] = "done"
                       /\ plan.phase = "MajorReplicas" => held'[s].phase = "MajorReplicas"
    BY <1>2, <1>3, Zenon DEF Effect, Alike, Received, Worked, Stopped, Restored, Rendered, Converged,
                             ServedEra
  <1>6. \A t \in Sites : data'[t] = "target" /\ held'[t].phase \in ServedPhases
    BY <1>1, <1>4, Zenon DEF ServedEra, Alike
  <1>7. \A t \in Sites \ {Primary} :
           /\ held'[t].phase = "MajorReplicas" => job'[t] = "done"
           /\ plan.phase = "MajorReplicas" => held'[t].phase = "MajorReplicas"
    BY <1>5 DEF ServedEra, Alike
  <1>. QED
    BY <1>6, <1>7, Zenon DEF ServedEra, hub

-----------------------------------------------------------------------------
(* Types and reports. *)

LEMMA TypeNext == TypeOK /\ [Next]_vars => TypeOK'
  <1>. SUFFICES ASSUME TypeOK, [Next]_vars PROVE TypeOK'
    OBVIOUS
  <1>. USE DEF TypeOK
  <1>0. Phases = {"MajorPreflight", "MajorDrain", "MajorStop", "MajorSnapshot",
                 "MajorUpgradePrimary", "MajorStanzaUpgrade", "MajorStartPrimary",
                 "MajorReplicas", "MajorRestoreWrites", "MajorFinalize", "MajorRollback",
                 "MajorRollbackStart", "MajorRollbackRestoreWrites"}
    BY PhaseSets, Zenon
  <1>1. CASE UNCHANGED vars
    BY <1>1, Zenon DEF vars, hubVars, specVars, statusVars, reportVars, siteVars
  <1>2. CASE EditInstance \/ DeleteUpgrade \/ ForceAbandon
    <2>1. /\ UNCHANGED <<upgrade, phase, expected, major, active, planned, rec, plan, applied,
                         blocked, held, job, data, restored, artifact, image, running, writes,
                         failures>>
          /\ deleting' \in BOOLEAN /\ forced' \in BOOLEAN
      BY <1>2, Zenon DEF EditInstance, DeleteUpgrade, ForceAbandon, hubVars, specVars, statusVars,
                         reportVars, siteVars
    <2>2. edits' \in Nat /\ generation' \in Nat
      BY <1>2 DEF EditInstance, DeleteUpgrade, ForceAbandon, specVars
    <2>. QED
      BY <2>1, <2>2
  <1>3. CASE BeginMajorUpgrade \/ RollBackFailure \/ FinishUpgrade \/ reconcileTerminalUpgrade
             \/ reconcileUpgradeDeletion
    BY <1>0, <1>3
       DEF BeginMajorUpgrade, RollBackFailure, FinishUpgrade, reconcileTerminalUpgrade,
           reconcileUpgradeDeletion, advanceMajorPhase, specVars, statusVars, reportVars, siteVars
  <1>4. CASE AdvancePhase
    <2>1. NextPhase(phase) \in Phases
      BY <1>0, <1>4, NextPhases DEF AdvancePhase, Owned
    <2>2. /\ phase' = NextPhase(phase) /\ expected' = active + 1
          /\ major' \in Versions /\ generation' \in Nat
          /\ UNCHANGED <<upgrade, deleting, forced, statusVars, reportVars, siteVars,
                         edits, failures>>
      BY <1>4 DEF AdvancePhase, advanceMajorPhase, specVars, Versions
    <2>. QED
      BY <2>1, <2>2 DEF statusVars, reportVars, siteVars
  <1>5. CASE ReconcileStart
    BY <1>5 DEF ReconcileStart, hubVars, specVars, reportVars, siteVars
  <1>6. CASE ReconcileFinish
    <2>1. active' \in Nat /\ plan' \in Plans
      BY <1>6 DEF ReconcileFinish, Plans
    <2>2. planned' \in [phase : Phases \cup {"None"}, generation : Nat]
      BY <1>6 DEF ReconcileFinish
    <2>3. rec' \in [on : BOOLEAN, phase : Phases \cup {"None"}, generation : Nat, major : Versions]
      BY <1>6, Zenon DEF ReconcileFinish
    <2>. QED
      BY <1>6, <2>1, <2>2, <2>3 DEF ReconcileFinish, hubVars, specVars, reportVars, siteVars
  <1>7. ASSUME NEW s \in Sites, SiteNext(s) PROVE TypeOK'
    <2>1. UNCHANGED hub
      BY <1>7, SiteEffect, Zenon
    <2>2. WantedImage(held[s], s) \in Versions \cup {"stopped"}
      BY Zenon DEF WantedImage, postgresMemberImage, Plans, Versions
    <2>3. CASE ReceivePlan(s)
      BY <2>1, <2>3, Zenon DEF ReceivePlan, reportVars, hub
    <2>4. CASE reconcileRollbackStorage(s)
      BY <2>1, <2>4 DEF reconcileRollbackStorage, reportVars, hub
    <2>5. CASE JobSucceeds(s)
      BY <2>1, <2>5 DEF JobSucceeds, reportVars, hub, Versions
    <2>6. CASE JobFails(s)
      BY <2>1, <2>6 DEF JobFails, reportVars, hub, Versions
    <2>7. CASE ensureRollbackWorkloadsStopped(s)
      BY <2>1, <2>7, Zenon DEF ensureRollbackWorkloadsStopped, reportVars, hub
    <2>8. CASE reconcileRollbackRestore(s)
      BY <2>1, <2>8 DEF reconcileRollbackRestore, reportVars, hub, Versions
    <2>9. CASE reconcileWorkloads(s)
      BY <2>1, <2>2, <2>9, Zenon DEF reconcileWorkloads, reportVars, hub
    <2>10. CASE PodConverges(s)
      BY <2>1, <2>10 DEF PodConverges, reportVars, hub
    <2>11. CASE ReportResult(s) \/ ReportBlocked(s)
      BY <2>1, <2>11 DEF ReportResult, ReportBlocked, siteVars, hub
    <2>. QED
      BY <1>7, <2>3, <2>4, <2>5, <2>6, <2>7, <2>8, <2>9, <2>10, <2>11, Zenon DEF SiteNext
  <1>. QED
    BY <1>1, <1>2, <1>3, <1>4, <1>5, <1>6, <1>7, Zenon DEF Next, HubNext

\* A site that a step leaves alone is as ready as it was.
LEMMA SiteStands ==
    ASSUME NEW t \in Sites, Alike(t), artifact'[t] = artifact[t], t \in restored' <=> t \in restored
    PROVE  prepareMajorUpgrade(t) /\ WorkloadsReady(t) => prepareMajorUpgrade(t)' /\ WorkloadsReady(t)'
  <1>1. JobOf(t)' = JobOf(t)
    BY Zenon DEF JobOf, Alike
  <1>2. WantedImage(held[t], t)' = WantedImage(held[t], t)
    BY Zenon DEF WantedImage, majorMemberStopped, postgresMemberImage, Alike
  <1>3. majorWriteServiceStopped(held[t])' = majorWriteServiceStopped(held[t])
    BY DEF majorWriteServiceStopped, Alike
  <1>4. prepareMajorUpgrade(t) => prepareMajorUpgrade(t)'
    BY <1>1, Zenon DEF prepareMajorUpgrade, Alike
  <1>5. (t \in writes' <=> t \in writes) /\ image'[t] = image[t] /\ running'[t] = running[t]
        /\ job'[t] = job[t]
    BY Zenon DEF Alike
  <1>6. WorkloadsReady(t) => WorkloadsReady(t)'
    <2>1. majorWriteServiceStopped(held[t]) \in BOOLEAN /\ (t \in writes) \in BOOLEAN
      BY DEF majorWriteServiceStopped
    <2>2. (t \in writes) = ~majorWriteServiceStopped(held[t]) =>
             (t \in writes)' = ~majorWriteServiceStopped(held[t])'
      BY <1>3, <1>5, <2>1
    <2>. QED
      BY <1>1, <1>2, <1>5, <2>2, Zenon DEF WorkloadsReady
  <1>. QED
    BY <1>4, <1>6, Zenon

\* At a site that has applied the active revision only reports are left to do.
LEMMA AtRest ==
    ASSUME TypeOK, SettledInv, NEW s \in Sites, SiteNext(s), applied[s] = active
    PROVE  ReportBlocked(s)
  <1>1. /\ held[s] = plan /\ plan.revision = active
        /\ prepareMajorUpgrade(s) /\ WorkloadsReady(s)
    BY Zenon DEF SettledInv
  <1>2. ~ReceivePlan(s)
    BY <1>1 DEF ReceivePlan, TypeOK
  <1>3. ~reconcileRollbackStorage(s) /\ ~reconcileRollbackRestore(s)
    BY <1>1 DEF reconcileRollbackStorage, reconcileRollbackRestore, prepareMajorUpgrade
  <1>4. ~JobSucceeds(s) /\ ~JobFails(s)
    BY <1>1, Zenon DEF JobSucceeds, JobFails, JobCreated, WorkloadsReady
  <1>5. ~ensureRollbackWorkloadsStopped(s)
    BY <1>1, Zenon DEF ensureRollbackWorkloadsStopped, WorkloadsReady, WantedImage, majorMemberStopped,
                majorWriteServiceStopped, AllStopped
  <1>6. ~reconcileWorkloads(s) /\ ~PodConverges(s)
    BY <1>1, Zenon DEF reconcileWorkloads, PodConverges, WorkloadsReady
  <1>7. ~ReportResult(s)
    BY Zenon DEF ReportResult
  <1>. QED
    BY <1>2, <1>3, <1>4, <1>5, <1>6, <1>7, Zenon DEF SiteNext

LEMMA SettledSite ==
    ASSUME TypeOK, SettledInv, NEW s \in Sites, SiteNext(s)
    PROVE  SettledInv'
  <1>1. UNCHANGED hub /\ Effect(s) /\ \A t \in Sites \ {s} : Alike(t)
    BY SiteEffect, Zenon
  <1>2. /\ \A t \in Sites \ {s} : artifact'[t] = artifact[t] /\ (t \in restored' <=> t \in restored)
                                  /\ applied'[t] = applied[t]
        /\ applied'[s] = applied[s] \/ ReportResult(s)
    BY Zenon DEF SiteNext, ReceivePlan, reconcileRollbackStorage, JobSucceeds, JobFails,
           ensureRollbackWorkloadsStopped, reconcileRollbackRestore, reconcileWorkloads,
           PodConverges, ReportResult, ReportBlocked, reportVars, siteVars, TypeOK
  <1>. DEFINE P(t) == /\ held[t].revision <= active /\ applied[t] <= active
                      /\ held[t].revision = active => held[t] = plan
                      /\ applied[t] = active => /\ held[t].revision = active
                                                /\ prepareMajorUpgrade(t) /\ WorkloadsReady(t)
  <1>3. ASSUME NEW t \in Sites \ {s} PROVE P(t)'
    <2>1. prepareMajorUpgrade(t) /\ WorkloadsReady(t) => prepareMajorUpgrade(t)' /\ WorkloadsReady(t)'
      BY <1>1, <1>2, SiteStands, Zenon
    <2>2. held'[t] = held[t] /\ applied'[t] = applied[t] /\ active' = active /\ plan' = plan
      BY <1>1, <1>2, Zenon DEF hub, Alike
    <2>. QED
      BY <2>1, <2>2, Zenon DEF SettledInv
  <1>4. P(s)'
    <2>0. active' = active /\ plan' = plan /\ plan.revision = active /\ active \in Nat
      BY <1>1, Zenon DEF hub, SettledInv, TypeOK
    <2>1. CASE ReportResult(s) \/ ReportBlocked(s)
      <3>1. UNCHANGED siteVars /\ applied'[s] \in {applied[s], active}
        BY <2>1, Zenon DEF ReportResult, ReportBlocked, TypeOK
      <3>2. prepareMajorUpgrade(s)' = prepareMajorUpgrade(s) /\ WorkloadsReady(s)' = WorkloadsReady(s)
        BY <3>1, SitesStand
      <3>3. ReportResult(s) => held[s].revision = active /\ prepareMajorUpgrade(s) /\ WorkloadsReady(s)
        BY Zenon DEF ReportResult
      <3>4. ReportBlocked(s) => applied' = applied
        BY Zenon DEF ReportBlocked
      <3>. QED
        BY <2>0, <2>1, <3>1, <3>2, <3>3, <3>4, Zenon DEF SettledInv, siteVars
    <2>2. CASE ~(ReportResult(s) \/ ReportBlocked(s))
      <3>1. applied[s] # active /\ applied'[s] = applied[s]
        BY <1>2, <2>2, AtRest, Zenon
      <3>2. held'[s] \in {held[s], plan}
        BY <1>1, Zenon DEF Effect, Alike, Received, Worked, Stopped, Restored, Rendered, Converged
      <3>. QED
        BY <2>0, <3>1, <3>2 DEF SettledInv
    <2>. QED
      BY <2>1, <2>2, Zenon
  <1>5. \A t \in Sites : P(t)'
    BY <1>3, <1>4, Zenon
  <1>6. (plan.revision = active)'
    BY <1>1, Zenon DEF hub, SettledInv
  <1>. QED
    BY <1>5, <1>6, Zenon DEF SettledInv

LEMMA SettledFrame ==
    ASSUME SettledInv, UNCHANGED <<active, plan, applied>>, UNCHANGED siteVars
    PROVE  SettledInv'
  <1>1. \A s \in Sites : /\ prepareMajorUpgrade(s)' = prepareMajorUpgrade(s)
                         /\ WorkloadsReady(s)' = WorkloadsReady(s)
    BY SitesStand
  <1>. QED
    BY <1>1 DEF SettledInv, siteVars

LEMMA SettledNext == TypeOK /\ SettledInv /\ [Next]_vars => SettledInv'
  <1>. SUFFICES ASSUME TypeOK, SettledInv, [Next]_vars PROVE SettledInv'
    OBVIOUS
  <1>1. CASE ReconcileFinish
    <2>1. /\ active' = active + 1 /\ plan'.revision = active + 1
          /\ UNCHANGED <<applied, held>>
      BY <1>1, Zenon DEF ReconcileFinish, reportVars, siteVars
    <2>2. active \in Nat /\ \A s \in Sites : held[s].revision \in Nat /\ applied[s] \in Nat
      BY DEF TypeOK, Plans
    <2>. QED
      BY <2>1, <2>2 DEF SettledInv
  <1>2. CASE UNCHANGED vars \/ EditInstance \/ DeleteUpgrade \/ ForceAbandon
             \/ (HubNext /\ ~ReconcileFinish)
    <2>1. UNCHANGED <<active, plan, applied>> /\ UNCHANGED siteVars
      BY <1>2 DEF vars, EditInstance, DeleteUpgrade, ForceAbandon, HubNext, BeginMajorUpgrade,
                  RollBackFailure, AdvancePhase, FinishUpgrade, reconcileTerminalUpgrade,
                  reconcileUpgradeDeletion, ReconcileStart, statusVars, reportVars
    <2>. QED
      BY <2>1, SettledFrame, Zenon
  <1>. QED
    BY <1>1, <1>2, SettledSite DEF Next

-----------------------------------------------------------------------------
(* The pace of plans and phases. *)

LEMMA PaceNext == TypeOK /\ PaceInv /\ [Next]_vars => PaceInv'
  <1>. SUFFICES ASSUME TypeOK, PaceInv, [Next]_vars PROVE PaceInv'
    OBVIOUS
  <1>0. /\ active \in Nat /\ expected \in Nat
        /\ phase \in Opening \cup {"MajorRestoreWrites", "MajorFinalize", "MajorRollback",
                                   "MajorRollbackStart", "MajorRollbackRestoreWrites"}
    BY PhaseSets DEF TypeOK, Opening
  <1>1. CASE UNCHANGED <<upgrade, phase, expected, active, plan, rec>> /\ (deleting => deleting')
    BY <1>1, Zenon DEF PaceInv, Prior
  <1>2. CASE BeginMajorUpgrade
    <2>1. /\ upgrade = "Active" /\ phase = "None" /\ phase' = "MajorPreflight"
          /\ expected' = active + 1 /\ UNCHANGED <<upgrade, deleting, active, plan, rec>>
      BY <1>2, Zenon DEF BeginMajorUpgrade, advanceMajorPhase, statusVars, Owned
    <2>2. plan.phase = "None" /\ (rec.on => rec.phase = "None")
      BY <2>1, Priors, Zenon DEF PaceInv, Opening
    <2>. QED
      BY <1>0, <2>1, <2>2, Priors DEF PaceInv
  <1>3. CASE RollBackFailure
    <2>1. /\ upgrade = "Active" /\ phase \in FailureRollsBack /\ phase' = "MajorRollback"
          /\ expected' = active + 1 /\ UNCHANGED <<upgrade, deleting, active, plan, rec>>
      BY <1>3, Zenon DEF RollBackFailure, advanceMajorPhase, statusVars
    <2>2. plan.phase \in Stopping /\ (rec.on => rec.phase \in Stopping)
      BY <2>1, Priors DEF PaceInv, Opening, FailureRollsBack, Stopping
    <2>. QED
      BY <1>0, <2>1, <2>2 DEF PaceInv, Opening
  <1>4. CASE AdvancePhase
    <2>1. /\ upgrade = "Active" /\ phase' = NextPhase(phase) /\ active >= expected
          /\ phase \notin {"None", "MajorFinalize", "MajorRollbackRestoreWrites"}
          /\ expected' = active + 1 /\ UNCHANGED <<upgrade, deleting, active, plan, rec>>
      BY <1>4 DEF AdvancePhase, advanceMajorPhase, statusVars, Owned, majorPhaseApplied
    <2>2. expected' <= active' + 1 /\ ~(active' >= expected')
      BY <1>0, <2>1
    <2>3. CASE phase \in Opening \ {"None", "MajorReplicas"}
      <3>1. /\ phase' \in Opening /\ Prior(phase') = phase
            /\ phase' \notin {"MajorRollback", "MajorRollbackStart"}
        BY <2>1, <2>3, OpeningPhases, Zenon
      <3>2. plan.phase \in {phase, Prior(phase)} /\ (rec.on => rec.phase = phase)
        BY <2>1, <2>3, Zenon DEF PaceInv
      <3>. QED
        BY <2>1, <2>2, <3>1, <3>2, Zenon DEF PaceInv, Prior
    <2>4. CASE phase \in {"MajorReplicas", "MajorRestoreWrites", "MajorRollbackStart"}
      <3>1. phase' \in {"MajorRestoreWrites", "MajorFinalize", "MajorRollbackRestoreWrites"}
        BY <2>1, <2>4, NextPhases, Zenon
      <3>. QED
        BY <2>2, <3>1 DEF PaceInv, Opening
    <2>5. CASE phase = "MajorRollback"
      <3>1. phase' = "MajorRollbackStart" /\ (rec.on => rec.phase = "MajorRollback")
        BY <2>1, <2>5, NextPhases, Zenon DEF PaceInv
      <3>. QED
        BY <2>1, <2>2, <3>1, Zenon DEF PaceInv, Opening
    <2>. QED
      BY <1>0, <2>1, <2>3, <2>4, <2>5, Zenon
  <1>5. CASE FinishUpgrade \/ reconcileTerminalUpgrade
    BY <1>0, <1>5 DEF FinishUpgrade, reconcileTerminalUpgrade, statusVars, PaceInv
  <1>6. CASE reconcileUpgradeDeletion
    <2>1. /\ deleting' /\ active' = active
          /\ \/ upgrade' = "Gone" /\ expected' \in {0, expected}
             \/ phase' = "MajorRollback" /\ expected' = active + 1
      BY <1>6, Zenon DEF reconcileUpgradeDeletion, advanceMajorPhase, statusVars
    <2>2. expected' <= active' + 1
      BY <1>0, <2>1 DEF PaceInv
    <2>3. upgrade' = "Gone" \/ (phase' = "MajorRollback" /\ ~(active' >= expected'))
      BY <1>0, <2>1
    <2>. QED
      BY <2>1, <2>2, <2>3, Zenon DEF PaceInv, Opening
  <1>7. CASE ReconcileStart
    <2>1. /\ rec'.phase = phase
          /\ UNCHANGED <<upgrade, deleting, phase, expected, active, plan>>
      BY <1>7, Zenon DEF ReconcileStart, hubVars
    <2>. QED
      BY <2>1, Zenon DEF PaceInv, Stopping, Prior
  <1>8. CASE ReconcileFinish
    <2>1. /\ rec.on /\ ~rec'.on /\ active' = active + 1 /\ plan'.phase = rec.phase
          /\ UNCHANGED <<upgrade, deleting, phase, expected>>
      BY <1>8, Zenon DEF ReconcileFinish, hubVars, TypeOK
    <2>2. active' >= expected' /\ expected' <= active' + 1
      BY <1>0, <2>1 DEF PaceInv
    <2>3. upgrade = "Active" /\ phase \in Opening => rec.phase \in {phase, Prior(phase)}
      BY <2>1 DEF PaceInv
    <2>4. Prior(phase)' = Prior(phase)
      BY <2>1, Zenon DEF Prior
    <2>. QED
      BY <2>1, <2>2, <2>3, <2>4 DEF PaceInv
  <1>9. CASE EditInstance \/ DeleteUpgrade \/ ForceAbandon \/ UNCHANGED vars
    BY <1>1, <1>9
       DEF EditInstance, DeleteUpgrade, ForceAbandon, vars, hubVars, statusVars
  <1>10. CASE \E s \in Sites : SiteNext(s)
    <2>1. UNCHANGED hub
      BY <1>10, SiteEffect, Zenon
    <2>. QED
      BY <1>1, <2>1 DEF hub
  <1>. QED
    BY <1>2, <1>3, <1>4, <1>5, <1>6, <1>7, <1>8, <1>9, <1>10, Zenon DEF Next, HubNext

-----------------------------------------------------------------------------
(* The eras under the hub's steps. *)

\* The phases at which each era must hold.
SourceRun == {"MajorPreflight", "MajorDrain", "MajorStop", "MajorSnapshot", "MajorUpgradePrimary",
              "MajorStanzaUpgrade", "MajorRollbackRestoreWrites"}

\* What every site has applied is in place at every site.
LEMMA AllSettled ==
    ASSUME SettledInv, majorPhaseApplied, NEW s \in Sites
    PROVE  held[s] = plan /\ prepareMajorUpgrade(s) /\ WorkloadsReady(s)
  BY DEF SettledInv, majorPhaseApplied, allSitesApplied

\* Eras speak of plans and members only.
LEMMA EraFrame ==
    ASSUME UNCHANGED <<plan, rec, held, job, data, image, running, writes>>
    PROVE  /\ major' = major => /\ SourceEra => SourceEra'
                                /\ ClosedEra => ClosedEra'
           /\ MemberInv => MemberInv'
           /\ ServedEra => ServedEra'
  <1>1. major' = major /\ SourceSpec => SourceSpec'
    BY Zenon DEF SourceSpec
  <1>2. \A s \in Sites : NotTarget(s) => NotTarget(s)'
    BY Zenon DEF NotTarget
  <1>3. \A s \in Sites : Upgraded(s) => Upgraded(s)'
    BY Zenon DEF Upgraded
  <1>4. major' = major /\ SourceEra => SourceEra'
    BY <1>1, <1>2, Zenon DEF SourceEra
  <1>5. major' = major /\ ClosedEra => ClosedEra'
    BY <1>1, Zenon DEF ClosedEra
  <1>6. MemberInv => MemberInv'
    BY <1>2, <1>3, Zenon DEF MemberInv
  <1>7. ServedEra => ServedEra'
    BY DEF ServedEra
  <1>. QED
    BY <1>4, <1>5, <1>6, <1>7, Zenon

\* A write-stopped plan in place at every site opens the closed era.
LEMMA EnterClosed ==
    ASSUME TypeOK, SettledInv, majorPhaseApplied, SourceSpec,
           plan.phase \in ClosedPhases, rec.on => rec.phase \in ClosedPhases
    PROVE  ClosedEra
  <1>1. ASSUME NEW s \in Sites PROVE held[s].phase \in ClosedPhases /\ s \notin writes
    <2>1. held[s] = plan /\ WorkloadsReady(s)
      BY AllSettled, Zenon
    <2>2. majorWriteServiceStopped(held[s])
      BY <2>1, Zenon DEF majorWriteServiceStopped, ClosedPhases
    <2>. QED
      BY <2>1, <2>2, Zenon DEF WorkloadsReady
  <1>. QED
    BY <1>1, Zenon DEF ClosedEra

\* The gate of the topology: every standby runs the target version, on data it
\* cloned, before RestoreWrites.
LEMMA EnterServed ==
    ASSUME TypeOK, PaceInv, SettledInv, majorPhaseApplied, TopologyReady, MemberInv, SourceSpec,
           upgrade = "Active", phase = "MajorReplicas"
    PROVE  ServedEra
  <1>1. /\ plan.phase \in {"MajorReplicas", "MajorStartPrimary"}
        /\ rec.on => rec.phase = "MajorReplicas"
    BY Priors DEF PaceInv, Opening, majorPhaseApplied
  <1>2. \A s \in Sites : held[s] = plan /\ prepareMajorUpgrade(s) /\ WorkloadsReady(s)
    BY AllSettled, Zenon
  <1>3. running[Primary] = "target"
    <2>1. WantedImage(plan, Primary) = "target"
      BY <1>1, Zenon DEF WantedImage, majorMemberStopped, postgresMemberImage, AllStopped, PrimaryOnly
    <2>. QED
      BY <1>2, <2>1, PrimaryAssumption DEF WorkloadsReady
  <1>4. \A s \in Sites : data[s] = "target"
    BY <1>3 DEF MemberInv, TopologyReady
  <1>5. ASSUME NEW s \in Sites \ {Primary} PROVE plan.phase = "MajorReplicas" /\ job[s] = "done"
    <2>1. plan.phase = "MajorStartPrimary" => WantedImage(held[s], s) = "stopped"
      BY <1>2, Zenon DEF WantedImage, majorMemberStopped, PrimaryOnly
    <2>2. plan.phase = "MajorReplicas"
      BY <1>1, <1>2, <2>1, Zenon DEF WorkloadsReady, TopologyReady
    <2>. QED
      BY <1>2, <2>2, Zenon DEF prepareMajorUpgrade, JobOf
  <1>. QED
    BY <1>1, <1>2, <1>4, <1>5, Zenon DEF ServedEra, ServedPhases

\* The rollback's plan in place at every site ends the target version there.
LEMMA EnterSource ==
    ASSUME TypeOK, PaceInv, SettledInv, majorPhaseApplied, ClosedEra,
           upgrade = "Active", phase = "MajorRollbackStart"
    PROVE  SourceEra
  <1>1. /\ plan.phase \in {"MajorRollback", "MajorRollbackStart"}
        /\ rec.on => rec.phase \in {"MajorRollback", "MajorRollbackStart"}
    BY Zenon DEF PaceInv, majorPhaseApplied
  <1>2. ASSUME NEW s \in Sites PROVE held[s].phase \notin TargetPhases /\ NotTarget(s)
    <2>1. held[s] = plan /\ WorkloadsReady(s)
      BY AllSettled, Zenon
    <2>2. plan \in Plans /\ plan.major = "source"
      BY DEF TypeOK, ClosedEra, SourceSpec
    <2>3. WantedImage(plan, s) # "target"
      BY <1>1, <2>2, WantedSource, Zenon DEF TargetPhases
    <2>. QED
      BY <1>1, <2>1, <2>3 DEF WorkloadsReady, NotTarget, TargetPhases
  <1>. QED
    BY <1>1, <1>2, Zenon DEF SourceEra, ClosedEra, TargetPhases

LEMMA EraAdvance ==
    ASSUME TypeOK, PaceInv, SettledInv, EraInv, AdvancePhase
    PROVE  EraInv'
  <1>1. /\ upgrade = "Active" /\ ~deleting /\ phase' = NextPhase(phase) /\ majorPhaseApplied
        /\ phase \notin {"None", "MajorFinalize", "MajorRollbackRestoreWrites"}
        /\ phase = "MajorReplicas" => TopologyReady
        /\ phase # "MajorRestoreWrites" => major' = major
        /\ UNCHANGED <<upgrade, forced, plan, rec, held, job, data, image, running, writes>>
    BY DEF AdvancePhase, advanceMajorPhase, Owned, specVars, statusVars, siteVars
  <1>2. active >= expected
    BY <1>1, Zenon DEF majorPhaseApplied
  <1>3. CASE phase \in SourceRun \ {"MajorStanzaUpgrade"}
    <2>1. phase' \in SourceRun \ {"MajorRollbackRestoreWrites"} /\ SourceEra
      BY <1>1, <1>3, NextPhases, Zenon DEF SourceRun, EraInv
    <2>2. SourceEra'
      BY <1>1, <1>3, <2>1, EraFrame, Zenon DEF SourceRun
    <2>. QED
      BY <1>1, <2>1, <2>2, Zenon DEF EraInv, SourceRun
  <1>4. CASE phase = "MajorStanzaUpgrade"
    <2>1. phase' = "MajorStartPrimary" /\ SourceEra
      BY <1>1, <1>4, NextPhases, Zenon DEF EraInv
    <2>2. /\ plan.phase \in {"MajorStanzaUpgrade", "MajorUpgradePrimary"}
          /\ rec.on => rec.phase = "MajorStanzaUpgrade"
      BY <1>1, <1>2, <1>4, Priors, Zenon DEF PaceInv, Opening
    <2>3. ClosedEra
      BY <1>1, <2>1, <2>2, EnterClosed, Zenon DEF SourceEra, ClosedPhases, AllStopped
    <2>4. MemberInv
      BY <2>1, Zenon DEF SourceEra, MemberInv, NotTarget, TargetPhases
    <2>5. ClosedEra' /\ MemberInv'
      BY <1>1, <1>4, <2>3, <2>4, EraFrame, Zenon
    <2>. QED
      BY <1>1, <2>1, <2>5, Zenon DEF EraInv
  <1>5. CASE phase = "MajorStartPrimary"
    <2>1. phase' = "MajorReplicas" /\ ClosedEra /\ MemberInv
      BY <1>1, <1>5, NextPhases, Zenon DEF EraInv
    <2>2. ClosedEra' /\ MemberInv'
      BY <1>1, <1>5, <2>1, EraFrame, Zenon
    <2>. QED
      BY <1>1, <2>1, <2>2, Zenon DEF EraInv
  <1>6. CASE phase \in {"MajorReplicas", "MajorRestoreWrites"}
    <2>1. phase' \in {"MajorRestoreWrites", "MajorFinalize"}
      BY <1>1, <1>6, NextPhases, Zenon
    <2>2. ServedEra
      <3>1. CASE phase = "MajorReplicas"
        BY <1>1, <3>1, EnterServed, Zenon DEF EraInv, ClosedEra
      <3>. QED
        BY <1>1, <1>6, <3>1, Zenon DEF EraInv
    <2>3. ServedEra'
      BY <1>1, <2>2, EraFrame, Zenon
    <2>. QED
      BY <1>1, <2>1, <2>3, Zenon DEF EraInv
  <1>7. CASE phase = "MajorRollback"
    <2>1. phase' = "MajorRollbackStart" /\ (SourceEra \/ ClosedEra)
      BY <1>1, <1>7, NextPhases, Zenon DEF EraInv
    <2>2. SourceEra => ClosedEra
      <3>1. plan.phase \in Stopping /\ (rec.on => rec.phase \in Stopping)
        BY <1>1, <1>7, Zenon DEF PaceInv
      <3>. QED
        BY <1>1, <3>1, EnterClosed, Zenon
           DEF SourceEra, Stopping, ClosedPhases, AllStopped, PrimaryOnly
    <2>3. ClosedEra'
      BY <1>1, <1>7, <2>1, <2>2, EraFrame, Zenon
    <2>. QED
      BY <1>1, <2>1, <2>3, Zenon DEF EraInv
  <1>8. CASE phase = "MajorRollbackStart"
    <2>1. phase' = "MajorRollbackRestoreWrites" /\ ClosedEra
      BY <1>1, <1>8, NextPhases DEF EraInv
    <2>2. SourceEra
      BY <1>1, <1>8, <2>1, EnterSource, Zenon
    <2>3. SourceEra'
      BY <1>1, <1>8, <2>2, EraFrame
    <2>. QED
      BY <1>1, <2>1, <2>3, Zenon DEF EraInv
  <1>. QED
    BY <1>1, <1>3, <1>4, <1>5, <1>6, <1>7, <1>8, PhaseSets, Zenon DEF TypeOK, SourceRun

\* The other steps of the upgrade's reconciler and of its users.
LEMMA EraHub ==
    ASSUME TypeOK, EraInv,
           \/ BeginMajorUpgrade \/ RollBackFailure \/ FinishUpgrade \/ reconcileTerminalUpgrade
           \/ reconcileUpgradeDeletion \/ EditInstance \/ DeleteUpgrade \/ ForceAbandon
           \/ UNCHANGED vars
    PROVE  EraInv'
  <1>1. UNCHANGED <<major, plan, rec, held, job, data, image, running, writes>>
    BY DEF BeginMajorUpgrade, RollBackFailure, FinishUpgrade, reconcileTerminalUpgrade,
           reconcileUpgradeDeletion, EditInstance, DeleteUpgrade, ForceAbandon, vars, specVars,
           statusVars, siteVars
  <1>2. /\ SourceEra => SourceEra'
        /\ ClosedEra => ClosedEra'
        /\ MemberInv => MemberInv'
        /\ ServedEra => ServedEra'
    BY <1>1, EraFrame, Zenon
  <1>3. CASE BeginMajorUpgrade
    <2>1. upgrade = "Active" /\ phase = "None" /\ phase' = "MajorPreflight" /\ upgrade' = "Active"
      BY <1>3 DEF BeginMajorUpgrade, advanceMajorPhase, Owned
    <2>2. SourceEra
      BY <2>1, Zenon DEF EraInv
    <2>. QED
      BY <1>2, <2>1, <2>2, Zenon DEF EraInv
  <1>4. CASE /\ upgrade = "Active" /\ phase \in DeletionRollsBack
             /\ upgrade' = "Active" /\ phase' = "MajorRollback"
    <2>1. SourceEra \/ ClosedEra
      BY <1>4, Zenon DEF EraInv, DeletionRollsBack, FailureRollsBack
    <2>. QED
      BY <1>2, <1>4, <2>1, Zenon DEF EraInv
  <1>5. CASE RollBackFailure
    BY <1>4, <1>5, Zenon DEF RollBackFailure, advanceMajorPhase, DeletionRollsBack
  <1>6. CASE FinishUpgrade
    <2>1. /\ upgrade = "Active" /\ phase' = phase
          /\ \/ phase = "MajorFinalize" /\ upgrade' = "Completed"
             \/ phase = "MajorRollbackRestoreWrites" /\ upgrade' = "Failed"
      BY <1>6, Zenon DEF FinishUpgrade
    <2>. QED
      BY <1>2, <2>1, Zenon DEF EraInv
  <1>7. CASE reconcileTerminalUpgrade
    <2>1. upgrade \in {"Completed", "Failed"} /\ phase # "None" /\ phase' = "None" /\ upgrade' = upgrade
      BY <1>7, Zenon DEF reconcileTerminalUpgrade, Owned
    <2>. QED
      BY <1>2, <2>1 DEF EraInv
  <1>8. CASE reconcileUpgradeDeletion
    <2>0. upgrade # "Gone" /\ forced' = forced
      BY <1>8, Zenon DEF reconcileUpgradeDeletion
    <2>1. CASE forced /\ upgrade' = "Gone" /\ phase' = "None"
      BY <2>0, <2>1, Zenon DEF EraInv
    <2>2. CASE /\ ~forced /\ (phase = "None" \/ upgrade \in {"Completed", "Failed"})
               /\ upgrade' = "Gone" /\ phase' = phase
      <3>1. phase \in {"None", "MajorFinalize", "MajorRollbackRestoreWrites"}
        BY <2>2 DEF EraInv
      <3>2. /\ phase = "None" => SourceEra \/ ServedEra
            /\ phase = "MajorFinalize" => ServedEra
            /\ phase = "MajorRollbackRestoreWrites" => SourceEra
        BY <2>0, Zenon DEF EraInv
      <3>. QED
        BY <1>2, <2>0, <2>2, <3>1, <3>2, Zenon DEF EraInv
    <2>3. CASE /\ ~forced /\ upgrade = "Active" /\ phase = "MajorPreflight"
               /\ upgrade' = "Gone" /\ phase' = "None"
      BY <1>2, <2>0, <2>3, Zenon DEF EraInv
    <2>. QED
      BY <1>4, <1>8, <2>1, <2>2, <2>3, Zenon DEF reconcileUpgradeDeletion, advanceMajorPhase, Owned
  <1>9. CASE /\ UNCHANGED <<upgrade, phase>>
             /\ forced' = forced \/ upgrade # "Gone"
    BY <1>2, <1>9 DEF EraInv
  <1>10. CASE EditInstance \/ DeleteUpgrade \/ ForceAbandon \/ UNCHANGED vars
    BY <1>9, <1>10, Zenon DEF EditInstance, DeleteUpgrade, ForceAbandon, vars, hubVars
  <1>. QED
    BY <1>3, <1>5, <1>6, <1>7, <1>8, <1>10, Zenon

LEMMA EraStart ==
    ASSUME TypeOK, EraInv, ReconcileStart
    PROVE  EraInv'
  <1>1. /\ rec'.phase = phase /\ rec'.major = major
        /\ UNCHANGED <<upgrade, forced, phase, major, plan, held, job, data, image, running, writes>>
    BY Zenon DEF ReconcileStart, hubVars, specVars, siteVars
  <1>2. SourceSpec => SourceSpec'
    BY <1>1, Zenon DEF SourceSpec
  <1>3. \A s \in Sites : /\ NotTarget(s) => NotTarget(s)'
                         /\ Upgraded(s) => Upgraded(s)'
    BY <1>1, Zenon DEF NotTarget, Upgraded
  <1>4. phase \notin TargetPhases /\ SourceEra => SourceEra'
    BY <1>1, <1>2, <1>3, Zenon DEF SourceEra
  <1>5. phase \in ClosedPhases /\ ClosedEra => ClosedEra'
    BY <1>1, <1>2, Zenon DEF ClosedEra
  <1>6. MemberInv => MemberInv'
    BY <1>1, <1>3, Zenon DEF MemberInv
  <1>7. phase \in {"MajorRestoreWrites", "MajorFinalize", "None"} /\ ServedEra => ServedEra'
    BY <1>1 DEF ServedEra, ServedPhases
  <1>8. phase \in SourceRun \cup {"MajorRollback", "None"} => phase \notin TargetPhases
    BY DEF SourceRun, TargetPhases
  <1>9. phase \in {"MajorStartPrimary", "MajorReplicas", "MajorRollback", "MajorRollbackStart"} =>
           phase \in ClosedPhases
    BY Zenon DEF ClosedPhases, AllStopped, PrimaryOnly
  <1>. QED
    BY <1>1, <1>4, <1>5, <1>6, <1>7, <1>8, <1>9, Zenon DEF EraInv, SourceRun

\* While members become of the target version, the plan that is issued next
\* is not behind the newest one.
LEMMA MemberFinish ==
    ASSUME TypeOK, PaceInv, MemberInv, rec.on, upgrade = "Active",
           phase \in {"MajorStartPrimary", "MajorReplicas"},
           plan'.phase = rec.phase, UNCHANGED <<held, job, data, image, running>>
    PROVE  MemberInv'
  <1>1. /\ plan.phase \in {"MajorStartPrimary", "MajorReplicas"} =>
              rec.phase \in {"MajorStartPrimary", "MajorReplicas"}
        /\ plan.phase = "MajorReplicas" => rec.phase = "MajorReplicas"
    BY Priors, Zenon DEF PaceInv, Opening
  <1>2. \A s \in Sites : /\ NotTarget(s) => NotTarget(s)'
                         /\ Upgraded(s) => Upgraded(s)'
    BY Zenon DEF NotTarget, Upgraded
  <1>. QED
    BY <1>1, <1>2, Zenon DEF MemberInv

LEMMA EraFinish ==
    ASSUME TypeOK, PaceInv, EraInv, ReconcileFinish
    PROVE  EraInv'
  <1>1. /\ rec.on /\ ~rec'.on /\ plan'.phase = rec.phase /\ plan'.major = rec.major
        /\ UNCHANGED <<upgrade, forced, phase, major, held, job, data, image, running, writes>>
    BY Zenon DEF ReconcileFinish, hubVars, specVars, siteVars, TypeOK
  <1>2. SourceSpec => SourceSpec'
    BY <1>1, Zenon DEF SourceSpec
  <1>3. \A s \in Sites : NotTarget(s) => NotTarget(s)'
    BY <1>1, Zenon DEF NotTarget
  <1>4. SourceEra => SourceEra'
    BY <1>1, <1>2, <1>3, Zenon DEF SourceEra
  <1>5. ClosedEra => ClosedEra'
    BY <1>1, <1>2, Zenon DEF ClosedEra
  <1>6. /\ phase \in {"MajorStartPrimary", "MajorReplicas"} => upgrade = "Active"
        /\ phase \in {"MajorStartPrimary", "MajorReplicas"} /\ MemberInv => MemberInv'
    <2>1. phase \in {"MajorStartPrimary", "MajorReplicas"} => upgrade = "Active"
      BY Zenon DEF EraInv, TypeOK
    <2>. QED
      BY <1>1, <2>1, MemberFinish, Zenon
  <1>7. ServedEra => ServedEra'
    BY <1>1, Zenon DEF ServedEra, ServedPhases
  <1>. QED
    BY <1>1, <1>4, <1>5, <1>6, <1>7 DEF EraInv

LEMMA EraSite ==
    ASSUME TypeOK, PaceInv, EraInv, NEW s \in Sites, SiteNext(s)
    PROVE  EraInv'
  <1>1. UNCHANGED hub /\ Effect(s) /\ \A t \in Sites \ {s} : Alike(t)
    BY SiteEffect
  <1>2. UNCHANGED <<upgrade, forced, phase>>
    BY <1>1 DEF hub
  <1>3. SourceEra => SourceEra'
    BY <1>1, SourceSite
  <1>4. ClosedEra => ClosedEra'
    BY <1>1, ClosedSite
  <1>5. ServedEra => ServedEra'
    BY <1>1, ServedSite
  <1>6. phase \in {"MajorStartPrimary", "MajorReplicas"} /\ MemberInv /\ ClosedEra => MemberInv'
    BY <1>1, MemberSite
  <1>. QED
    BY <1>2, <1>3, <1>4, <1>5, <1>6 DEF EraInv

-----------------------------------------------------------------------------
LEMMA GInit == Init => GInv
  <1>. SUFFICES ASSUME Init PROVE GInv
    OBVIOUS
  <1>1. TypeOK
    BY PhaseSets, Zenon DEF Init, TypeOK, Plans, Versions
  <1>2. PaceInv
    BY Priors DEF Init, PaceInv, Opening
  <1>3. \A s \in Sites : prepareMajorUpgrade(s) /\ WorkloadsReady(s)
    BY DEF Init, prepareMajorUpgrade, WorkloadsReady, JobOf, WantedImage, majorMemberStopped,
           postgresMemberImage, majorWriteServiceStopped, AllStopped, PrimaryOnly
  <1>4. SettledInv
    BY <1>3 DEF Init, SettledInv
  <1>5. SourceEra
    BY DEF Init, SourceEra, SourceSpec, NotTarget, TargetPhases
  <1>6. EraInv
    BY <1>5 DEF Init, EraInv
  <1>. QED
    BY <1>1, <1>2, <1>4, <1>6, Zenon DEF GInv

LEMMA GNext == GInv /\ [Next]_vars => GInv'
  <1>. SUFFICES ASSUME GInv, [Next]_vars PROVE GInv'
    OBVIOUS
  <1>1. TypeOK' /\ PaceInv' /\ SettledInv'
    BY TypeNext, PaceNext, SettledNext DEF GInv
  <1>2. EraInv'
    BY EraAdvance, EraHub, EraStart, EraFinish, EraSite DEF GInv, Next, HubNext
  <1>. QED
    BY <1>1, <1>2 DEF GInv

LEMMA GInvariant == Spec => []GInv
  BY GInit, GNext, PTL DEF Spec

\* Who serves: members of the target version take writes only in the served
\* era, or after the upgrade was abandoned by force.
LEMMA WhoServes ==
    ASSUME GInv, TargetServes
    PROVE  /\ upgrade = "Gone" /\ forced => phase = "None"
           /\ ~(upgrade = "Gone" /\ forced) =>
                 ServedEra /\ phase \in {"MajorRestoreWrites", "MajorFinalize", "None"}
           /\ phase = "None" => upgrade \in {"Completed", "Gone"}
  <1>1. ~SourceEra
    BY Zenon DEF SourceEra, NotTarget, TargetServes
  <1>2. ~ClosedEra
    BY Zenon DEF GInv, TypeOK, ClosedEra, TargetServes
  <1>3. phase \in SourceRun \cup {"MajorStartPrimary", "MajorReplicas", "MajorRollback",
                                  "MajorRollbackStart", "MajorRestoreWrites", "MajorFinalize", "None"}
    BY PhaseSets DEF GInv, TypeOK, SourceRun
  <1>. QED
    BY <1>1, <1>2, <1>3, Zenon DEF GInv, EraInv, SourceRun

\* Pgpool is restored on the target version only when every member's data is
\* of that version, unless the upgrade was abandoned by force: whatever users
\* edit or delete and whichever Jobs fail, RestoreWrites is behind the gate of
\* the topology, and neither an earlier plan nor an edit brings Pgpool up
\* before it.
THEOREM WritesTheorem == Spec => []WritesNeedStandbys
  <1>1. GInv => WritesNeedStandbys
    BY WhoServes DEF WritesNeedStandbys, ServedEra
  <1>. QED
    BY <1>1, GInvariant, PTL

\* Once members of the target version have taken writes, no step of the hub
\* turns to a rollback phase: not a failure, not a deletion, not an advance.
THEOREM NoRollbackTheorem == Spec => NoRollbackAfterWrites
  <1>1. GInv /\ [Next]_vars => [TargetServes => phase' \notin RollbackPhases]_vars
    <2>. SUFFICES ASSUME GInv, Next, TargetServes PROVE phase' \notin RollbackPhases
      OBVIOUS
    <2>1. phase \in {"MajorRestoreWrites", "MajorFinalize", "None"}
      BY WhoServes
    <2>2. phase = "None" => upgrade # "Active"
      BY WhoServes
    <2>3. phase \notin RollbackPhases /\ phase \notin DeletionRollsBack
      BY <2>1, PhaseSets DEF DeletionRollsBack, FailureRollsBack
    <2>4. CASE AdvancePhase
      <3>1. phase = "MajorRestoreWrites" /\ phase' = "MajorFinalize"
        BY <2>1, <2>4, NextPhases DEF AdvancePhase, advanceMajorPhase, Owned
      <3>. QED
        BY <3>1, PhaseSets, Zenon
    <2>5. CASE HubNext /\ ~AdvancePhase
      <3>1. phase' \in {phase, "None"}
        BY <2>2, <2>3, <2>5, Zenon
           DEF HubNext, BeginMajorUpgrade, RollBackFailure, FinishUpgrade,
               reconcileTerminalUpgrade, reconcileUpgradeDeletion, ReconcileStart,
               ReconcileFinish, advanceMajorPhase, Owned, hubVars, DeletionRollsBack
      <3>. QED
        BY <2>3, <3>1, PhaseSets
    <2>6. CASE EditInstance \/ DeleteUpgrade \/ ForceAbandon
      BY <2>3, <2>6, Zenon DEF EditInstance, DeleteUpgrade, ForceAbandon, hubVars
    <2>7. CASE \E s \in Sites : SiteNext(s)
      BY <2>3, <2>7, SiteEffect DEF GInv, hub
    <2>. QED
      BY <2>4, <2>5, <2>6, <2>7 DEF Next
  <1>. QED
    BY <1>1, GInvariant, PTL DEF Spec, NoRollbackAfterWrites
=============================================================================
