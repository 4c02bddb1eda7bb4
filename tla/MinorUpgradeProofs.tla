-------------------------- MODULE MinorUpgradeProofs --------------------------
(***************************************************************************)
(* For any members, sites, upgrades and disturbances: a member recorded as *)
(* upgraded runs the target image, an upgrade completes only when all of   *)
(* them do, members are restarted one at a time, and the leader is not     *)
(* restarted.                                                              *)
(*                                                                         *)
(* All of it rests on what a revision number proves.  The controller's     *)
(* patch asks for the revision after the current one, but a reconcile that *)
(* read the annotations before the patch may take that number; FreshInv    *)
(* says that the instance is then not Ready at it.  WorkInv ties a         *)
(* revision that a site applied to what its members run, and VerifiedInv   *)
(* extends the promise to every plan that is on its way.                   *)
(*                                                                         *)
(* The order of the restarts is OrderInv, in the last part: all members    *)
(* but one are Calm, that is, every plan that is signed, delivered or      *)
(* still to be written asks for the image they run; the leader is Calm,    *)
(* and whoever has been seen to lead at the current revision leads.        *)
(* A site may act on its plan again after the hub has moved on; OldPlanInv *)
(* says that the switchover such a plan asks for has then happened.        *)
(***************************************************************************)
EXTENDS MinorUpgrade, FiniteSetTheorems, TLAPS

Anns == [owner: Upgrades \cup {None}, phase: {"none", "Member", "Switchover", "Finalize"},
         member: Members \cup {None}, members: SUBSET Members,
         from: Members \cup {None}, candidate: Members \cup {None},
         switched: BOOLEAN, revision: Nat]
Specs == [image: Images, generation: Nat \ {0}]
Reports == [applied: Nat, seen: Observations \cup {None}]
SiteStates == [plan: Plans, applied: Nat, seen: Observations \cup {None}]
Clusters == [leader: Members \cup {None}, sync: Members \cup {None},
             up: SUBSET Members, image: [Members -> Images]]
Fingerprints == [generation: Nat \ {0}, owner: Upgrades \cup {None},
                 phase: {"none", "Member", "Switchover", "Finalize"},
                 member: Members \cup {None}, members: SUBSET Members]
Statuses == [revision: Nat, fingerprint: Fingerprints, observed: Nat \ {0},
             primary: Members \cup {None}, standbys: SUBSET Members,
             topology: BOOLEAN, ready: BOOLEAN]
Readings == [ann: Anns, spec: Specs, site: [Sites -> Reports], orphan: BOOLEAN]

\* An owner, a member and a phase come and go together.
AnnShape(a) ==
    /\ a.owner = None <=> a.member = None
    /\ a.owner = None => a.phase = "none" /\ a.members = {}
    /\ a.phase = "Switchover" => a.from # None /\ a.candidate # None

Types ==
    /\ upgrade \in [Upgrades -> [phase: {"absent", "", "active", "Completed", "removed"},
                                 deleting: BOOLEAN]]
    /\ ann \in Anns /\ AnnShape(ann)
    /\ spec \in Specs
    /\ status \in Statuses /\ (status.topology => status.primary # None)
    /\ plan \in Plans
    /\ site \in [Sites -> SiteStates]
    /\ cluster \in Clusters
    /\ reading = None \/ (reading \in Readings /\ AnnShape(reading.ann))

\* Two records ask for the same members.
Match(f, a) ==
    f.owner = a.owner /\ f.phase = a.phase /\ f.member = a.member /\ f.members = a.members

\* Nothing is ahead of the status.
RevisionInv ==
    /\ plan.revision = status.revision
    /\ \A s \in Sites : site[s].applied <= site[s].plan.revision
                        /\ site[s].plan.revision <= status.revision
    /\ reading # None => \A s \in Sites : reading.site[s].applied <= status.revision

\* A Ready instance at the revision the controller waits for has been planned
\* from the annotations the controller wrote.
FreshInv ==
    ann.owner # None =>
        /\ Match(status.fingerprint, ann) \/ status.revision < ann.revision \/ ~status.ready
        /\ reading # None => Match(reading.ann, ann) \/ status.revision < ann.revision

\* One generation has one image.
GenerationInv ==
    /\ status.fingerprint.generation <= spec.generation
    /\ status.fingerprint.generation = spec.generation => plan.image = spec.image
    /\ status.observed <= spec.generation
    /\ status.ready => status.observed = status.fingerprint.generation
    /\ reading # None =>
          /\ reading.spec.generation <= spec.generation
          /\ reading.spec.generation = spec.generation => reading.spec.image = spec.image
          /\ reading.spec.generation = status.fingerprint.generation =>
                reading.spec.image = plan.image
    /\ ann.phase = "Finalize" => spec.image = Target[ann.owner]

SameWork(p, q) == p.image = q.image /\ p.target = q.target /\ p.targets = q.targets

\* A revision is one piece of work, and where it was applied the members run it.
WorkInv ==
    /\ plan.targets = status.fingerprint.members \cup ({status.fingerprint.member} \ {None})
    /\ plan.target = IF status.fingerprint.owner = None THEN plan.image
                     ELSE Target[status.fingerprint.owner]
    /\ \A s \in Sites : site[s].plan.revision = status.revision => SameWork(site[s].plan, plan)
    /\ \A s \in Sites : site[s].applied = status.revision => Converged(plan, s)

VerifiedInv ==
    \A m \in ann.members :
        /\ cluster.image[m] = Target[ann.owner]
        /\ postgresMemberImage(site[SiteOf[m]].plan, m) = Target[ann.owner]
        /\ postgresMemberImage(plan, m) = Target[ann.owner]
        /\ reading # None =>
              /\ reading.ann.owner = ann.owner
              /\ m \in reading.ann.members \cup {reading.ann.member}

IInv == Types /\ RevisionInv /\ FreshInv /\ GenerationInv /\ WorkInv /\ VerifiedInv

LEMMA Constants ==
    /\ Sites # {} /\ \A m \in Members : SiteOf[m] \in Sites
    /\ \A u \in Upgrades : Target[u] \in Images
    /\ 0 \in Images /\ Images \subseteq Nat
    /\ None \notin Members /\ None \notin Upgrades
  <1>1. Members # {}
    BY ConstantsAssumption, FS_EmptySet
  <1>2. \A m \in Members : SiteOf[m] \in Sites
    BY ConstantsAssumption
  <1>3. \A u \in Upgrades : Target[u] \in Nat
    BY ConstantsAssumption
  <1>4. 0 \in Images /\ Images \subseteq Nat /\ \A u \in Upgrades : Target[u] \in Images
    BY <1>3 DEF Images
  <1>. QED
    BY <1>1, <1>2, <1>4, ConstantsAssumption, Zenon

LEMMA PlanType ==
    ASSUME NEW a \in Anns, NEW sp \in Specs, NEW n \in Nat
    PROVE  upgradePlans(a, sp, n) \in Plans
  <1>1. (IF a.owner = None THEN sp.image ELSE Target[a.owner]) \in Images
    BY Constants DEF Anns, Specs
  <1>2. a.members \cup ({a.member} \ {None}) \in SUBSET Members
    BY DEF Anns
  <1>. QED
    BY <1>1, <1>2 DEF upgradePlans, Plans, Anns, Specs

LEMMA NoOwnerType == NoOwner \in Anns /\ AnnShape(NoOwner)
  BY Constants DEF NoOwner, Anns, AnnShape

LEMMA TopologyType ==
    ASSUME NEW seen \in [Sites -> Observations \cup {None}]
    PROVE  /\ aggregateTopology(seen).primary \in Members \cup {None}
           /\ aggregateTopology(seen).standbys \in SUBSET Members
           /\ aggregateTopology(seen).topology \in BOOLEAN
           /\ aggregateTopology(seen).topology => aggregateTopology(seen).primary # None
  <1>. DEFINE P == {seen[s].primary : s \in Sites}
              leader == CHOOSE m \in Members : \A s \in Sites : seen[s].primary = m
              agreed == {m \in Members : \A s \in Sites : m \in seen[s].standbys}
  <1>1. CASE (\A s \in Sites : seen[s] # None) /\ Cardinality(P) = 1
    <2>1. P \subseteq Members
      BY <1>1 DEF Observations
    <2>2. IsFiniteSet(P)
      BY <2>1, ConstantsAssumption, FS_Subset
    <2>3. PICK x : P = {x}
      BY <1>1, <2>2, FS_Singleton
    <2>4. x \in Members /\ \A s \in Sites : seen[s].primary = x
      BY <2>1, <2>3
    <2>5. leader \in Members
      BY <2>4
    <2>6. agreed \in SUBSET Members
      OBVIOUS
    <2>7. aggregateTopology(seen) = [primary |-> leader, standbys |-> agreed, topology |-> TRUE]
      BY <1>1 DEF aggregateTopology
    <2>. HIDE DEF P, leader, agreed
    <2>. QED
      BY <2>5, <2>6, <2>7, Constants
  <1>2. CASE ~((\A s \in Sites : seen[s] # None) /\ Cardinality(P) = 1)
    BY <1>2 DEF aggregateTopology
  <1>. QED
    BY <1>1, <1>2

LEMMA InitLemma == Init => IInv
  <1>. SUFFICES ASSUME Init PROVE IInv
    OBVIOUS
  <1>1. PICK leader, sync \in Members :
          /\ leader # sync
          /\ cluster = [leader |-> leader, sync |-> sync, up |-> Members,
                        image |-> [m \in Members |-> 0]]
    BY DEF Init
  <1>2. spec \in Specs /\ spec = [image |-> 0, generation |-> 1]
    BY Constants DEF Init, Specs
  <1>3. plan \in Plans /\ plan = [revision |-> 1, image |-> 0, target |-> 0, targets |-> {},
                                  from |-> None, candidate |-> None]
    <2>1. plan = upgradePlans(NoOwner, spec, 1)
      BY DEF Init
    <2>2. plan \in Plans
      BY <1>2, <2>1, PlanType, NoOwnerType
    <2>3. plan = [revision |-> 1, image |-> 0, target |-> 0, targets |-> {},
                  from |-> None, candidate |-> None]
      BY <1>2, <2>1 DEF upgradePlans, NoOwner
    <2>. QED
      BY <2>2, <2>3
  <1>4. Observed \in Observations
    BY <1>1, Constants DEF Observed, Observations
  <1>5. Fingerprint(NoOwner, 1) \in Fingerprints
        /\ Fingerprint(NoOwner, 1) = [generation |-> 1, owner |-> None, phase |-> "none",
                                      member |-> None, members |-> {}]
    BY DEF Fingerprint, NoOwner, Fingerprints
  <1>6. Types
    <2>1. status \in Statuses /\ status.primary # None
      BY <1>1, <1>5, Constants DEF Init, Statuses
    <2>2. cluster \in Clusters
      BY <1>1, Constants DEF Clusters
    <2>3. site \in [Sites -> SiteStates]
      BY <1>3, <1>4 DEF Init, SiteStates
    <2>. QED
      BY <1>2, <1>3, <2>1, <2>2, <2>3, NoOwnerType DEF Init, Types
  <1>9. /\ ann.owner = None /\ ann.phase = "none" /\ ann.members = {} /\ reading = None
        /\ status.revision = 1 /\ status.observed = 1
        /\ status.fingerprint = Fingerprint(NoOwner, 1)
        /\ \A s \in Sites : site[s].plan = plan /\ site[s].applied = 1
    BY Zenon DEF Init, NoOwner
  <1>7. RevisionInv /\ FreshInv /\ GenerationInv
    BY <1>2, <1>3, <1>5, <1>9 DEF RevisionInv, FreshInv, GenerationInv
  <1>8. WorkInv /\ VerifiedInv
    BY <1>1, <1>2, <1>3, <1>5, <1>9
       DEF WorkInv, VerifiedInv, SameWork, Converged, MembersOf, postgresMemberImage
  <1>. QED
    BY <1>6, <1>7, <1>8 DEF IInv

-----------------------------------------------------------------------------
(* The hub. *)

\* A step that changes nothing but the upgrade objects.
LEMMA QuietLemma ==
    ASSUME IInv, UNCHANGED <<ann, spec, status, plan, site, cluster, reading>>,
           upgrade' \in [Upgrades -> [phase: {"absent", "", "active", "Completed", "removed"},
                                      deleting: BOOLEAN]]
    PROVE  IInv'
  <1>1. Types'
    BY Zenon DEF IInv, Types, AnnShape
  <1>2. RevisionInv' /\ FreshInv' /\ GenerationInv'
    BY Zenon DEF IInv, RevisionInv, FreshInv, GenerationInv, Match
  <1>3. WorkInv' /\ VerifiedInv'
    BY Zenon DEF IInv, WorkInv, VerifiedInv, SameWork, Converged, postgresMemberImage
  <1>. QED
    BY <1>1, <1>2, <1>3, Zenon DEF IInv

LEMMA ReadLemma == IInv /\ ReadInstance => IInv'
  <1>. SUFFICES ASSUME IInv, ReadInstance PROVE IInv'
    OBVIOUS
  <1>1. reading' = Current /\ UNCHANGED <<upgrade, ann, spec, status, plan, site, cluster>>
    BY DEF ReadInstance, hub
  <1>2. /\ Current \in Readings /\ Current.ann = ann /\ Current.spec = spec
        /\ \A s \in Sites : Current.site[s].applied = site[s].applied
    BY Zenon DEF Current, Readings, Reports, IInv, Types, SiteStates
  <1>3. Types'
    BY <1>1, <1>2, Zenon DEF IInv, Types, AnnShape
  <1>4. RevisionInv'
    <2>1. ASSUME NEW s \in Sites PROVE site[s].applied <= status.revision
      <3>1. site[s].applied \in Nat /\ site[s].plan.revision \in Nat /\ status.revision \in Nat
        BY Zenon DEF IInv, Types, SiteStates, Statuses, Plans
      <3>2. site[s].applied <= site[s].plan.revision /\ site[s].plan.revision <= status.revision
        BY DEF IInv, RevisionInv
      <3>. QED
        BY <3>1, <3>2
    <2>. QED
      BY <1>1, <1>2, <2>1 DEF IInv, RevisionInv
  <1>5. FreshInv' /\ GenerationInv'
    <2>1. reading'.ann = ann /\ reading'.spec = spec /\ spec.generation \in Nat
      BY <1>1, <1>2, Zenon DEF IInv, Types, Specs
    <2>2. FreshInv'
      BY <1>1, <2>1 DEF IInv, FreshInv, Match
    <2>. QED
      BY <1>1, <2>1, <2>2 DEF IInv, GenerationInv
  <1>6. WorkInv'
    BY <1>1, Zenon DEF IInv, WorkInv, SameWork, Converged, postgresMemberImage
  <1>7. VerifiedInv'
    BY <1>1, <1>2 DEF IInv, VerifiedInv, postgresMemberImage
  <1>. QED
    BY <1>3, <1>4, <1>5, <1>6, <1>7 DEF IInv

\* What a reconcile writes.
LEMMA ComputedLemma ==
    ASSUME IInv, reading # None
    PROVE  /\ Computed(reading) \in Statuses
           /\ Computed(reading).topology => Computed(reading).primary # None
           /\ Computed(reading).observed = reading.spec.generation
           /\ reading.orphan =>
                /\ Computed(reading).revision = status.revision
                /\ Computed(reading).fingerprint = status.fingerprint
                /\ ~Computed(reading).ready
           /\ ~reading.orphan =>
                /\ Computed(reading).fingerprint = Fingerprint(reading.ann, reading.spec.generation)
                /\ \/ /\ Computed(reading).revision = status.revision
                      /\ status.fingerprint = Fingerprint(reading.ann, reading.spec.generation)
                   \/ /\ Computed(reading).revision = status.revision + 1
                      /\ ~Computed(reading).ready
  <1>. DEFINE fp == Fingerprint(reading.ann, reading.spec.generation)
              rev == IF status.fingerprint = fp THEN status.revision ELSE status.revision + 1
              seen == [s \in Sites |-> reading.site[s].seen]
              top == aggregateTopology(seen)
              rdy == /\ \A s \in Sites : reading.site[s].applied = rev
                     /\ top.topology /\ top.standbys # {}
  <1>1. reading \in Readings /\ status \in Statuses
    BY Zenon DEF IInv, Types
  <1>2. fp \in Fingerprints
    BY <1>1 DEF Fingerprint, Fingerprints, Readings, Anns, Specs
  <1>3. rev \in Nat /\ (rev = status.revision \/ rev = status.revision + 1)
    BY <1>1 DEF Statuses
  <1>4. seen \in [Sites -> Observations \cup {None}]
    BY <1>1, Zenon DEF Readings, Reports
  <1>5. /\ top.primary \in Members \cup {None} /\ top.standbys \in SUBSET Members
        /\ top.topology \in BOOLEAN /\ (top.topology => top.primary # None)
    BY <1>4, TopologyType, Zenon
  <1>6. rev = status.revision + 1 => ~rdy
    <2>1. PICK s \in Sites : TRUE
      BY Constants, Zenon
    <2>2. reading.site[s].applied <= status.revision /\ reading.site[s].applied \in Nat
          /\ status.revision \in Nat
      BY <1>1 DEF IInv, RevisionInv, Readings, Reports, Statuses
    <2>3. status.revision + 1 # reading.site[s].applied
      BY <2>2
    <2>. QED
      BY <2>1, <2>3
  <1>7. reading.spec.generation \in Nat \ {0}
    BY <1>1, Zenon DEF Readings, Specs
  <1>8. CASE reading.orphan
    <2>1. Computed(reading) =
            [revision |-> status.revision, fingerprint |-> status.fingerprint,
             observed |-> reading.spec.generation, primary |-> status.primary,
             standbys |-> status.standbys, topology |-> status.topology, ready |-> FALSE]
      BY <1>8 DEF Computed
    <2>2. /\ status.revision \in Nat /\ status.fingerprint \in Fingerprints
          /\ status.primary \in Members \cup {None} /\ status.standbys \in SUBSET Members
          /\ status.topology \in BOOLEAN /\ (status.topology => status.primary # None)
      BY <1>1, Zenon DEF Statuses, IInv, Types
    <2>3. Computed(reading) \in Statuses
      BY <1>7, <2>1, <2>2 DEF Statuses
    <2>. QED
      BY <1>8, <2>1, <2>2, <2>3
  <1>9. CASE ~reading.orphan
    <2>1. Computed(reading) =
            [revision |-> rev, fingerprint |-> fp, observed |-> reading.spec.generation,
             primary |-> top.primary, standbys |-> top.standbys, topology |-> top.topology,
             ready |-> rdy]
      BY <1>9 DEF Computed
    <2>2. rdy \in BOOLEAN
      OBVIOUS
    <2>3. rev = status.revision => rev # status.revision + 1
      BY <1>1 DEF Statuses
    <2>4. \/ rev = status.revision /\ status.fingerprint = fp
          \/ rev = status.revision + 1 /\ ~rdy
      BY <1>3, <1>6, <2>3
    <2>. HIDE DEF fp, rev, top, rdy
    <2>5. Computed(reading) \in Statuses
      BY <1>2, <1>3, <1>5, <1>7, <2>1, <2>2 DEF Statuses
    <2>6. /\ Computed(reading).revision = rev /\ Computed(reading).fingerprint = fp
          /\ Computed(reading).observed = reading.spec.generation
          /\ (Computed(reading).ready <=> rdy)
          /\ (Computed(reading).topology => Computed(reading).primary # None)
      BY <1>5, <2>1, <2>2
    <2>. QED
      BY <1>9, <2>4, <2>5, <2>6, Zenon DEF fp
  <1>. QED
    BY <1>8, <1>9

\* The plan a reconcile issues asks for what the fingerprint it records says.
LEMMA IssuedLemma ==
    ASSUME IInv, WriteInstance, ~reading.orphan
    PROVE  /\ plan' \in Plans /\ plan'.revision = status'.revision
           /\ plan'.image = reading.spec.image
           /\ plan'.targets = reading.ann.members \cup ({reading.ann.member} \ {None})
           /\ plan'.target = IF reading.ann.owner = None THEN plan'.image
                             ELSE Target[reading.ann.owner]
  <1>1. reading \in Readings /\ status' \in Statuses
    BY ComputedLemma, Zenon DEF WriteInstance, IInv, Types
  <1>2. reading.ann \in Anns /\ reading.spec \in Specs /\ status'.revision \in Nat
    BY <1>1 DEF Readings, Statuses
  <1>3. plan' = upgradePlans(reading.ann, reading.spec, status'.revision)
    BY DEF WriteInstance
  <1>4. plan' \in Plans
    BY <1>2, <1>3, PlanType
  <1>. QED
    BY <1>3, <1>4 DEF upgradePlans

LEMMA WriteLemma == IInv /\ WriteInstance => IInv'
  <1>. SUFFICES ASSUME IInv, WriteInstance PROVE IInv'
    OBVIOUS
  <1>1. /\ reading # None /\ reading' = None /\ status' = Computed(reading)
        /\ UNCHANGED <<upgrade, ann, spec, site, cluster>>
        /\ reading.orphan => plan' = plan
    BY DEF WriteInstance, hub
  <1>2. /\ status' \in Statuses /\ (status'.topology => status'.primary # None)
        /\ status'.observed = reading.spec.generation
        /\ reading.orphan => /\ status'.revision = status.revision
                             /\ status'.fingerprint = status.fingerprint
                             /\ ~status'.ready
        /\ ~reading.orphan =>
              /\ status'.fingerprint = Fingerprint(reading.ann, reading.spec.generation)
              /\ \/ /\ status'.revision = status.revision
                    /\ status.fingerprint = Fingerprint(reading.ann, reading.spec.generation)
                 \/ status'.revision = status.revision + 1 /\ ~status'.ready
    BY <1>1, ComputedLemma
  <1>3. /\ reading \in Readings /\ status \in Statuses /\ ann \in Anns /\ spec \in Specs
        /\ status.revision \in Nat /\ status'.revision \in Nat /\ ann.revision \in Nat
        /\ spec.generation \in Nat /\ reading.spec.generation \in Nat
        /\ reading.orphan \in BOOLEAN
    BY <1>1, <1>2, Zenon DEF IInv, Types, Readings, Statuses, Anns, Specs
  <1>4. Types'
    BY <1>1, <1>2, IssuedLemma, Zenon DEF IInv, Types, AnnShape
  <1>5. /\ Fingerprint(reading.ann, reading.spec.generation).generation = reading.spec.generation
        /\ Fingerprint(reading.ann, reading.spec.generation).owner = reading.ann.owner
        /\ Fingerprint(reading.ann, reading.spec.generation).phase = reading.ann.phase
        /\ Fingerprint(reading.ann, reading.spec.generation).member = reading.ann.member
        /\ Fingerprint(reading.ann, reading.spec.generation).members = reading.ann.members
    BY DEF Fingerprint
  <1>6. RevisionInv'
    <2>1. plan'.revision = status'.revision
      BY <1>1, <1>2, IssuedLemma DEF IInv, RevisionInv
    <2>2. status.revision <= status'.revision
      BY <1>2, <1>3
    <2>3. ASSUME NEW s \in Sites
          PROVE  site[s].applied <= site[s].plan.revision /\ site[s].plan.revision <= status'.revision
      <3>1. site[s].plan.revision \in Nat
        BY Zenon DEF IInv, Types, SiteStates, Plans
      <3>. QED
        BY <1>3, <2>2, <3>1 DEF IInv, RevisionInv
    <2>. QED
      BY <1>1, <2>1, <2>3 DEF RevisionInv
  <1>7. FreshInv'
    <2>. SUFFICES ASSUME ann.owner # None
         PROVE  Match(status'.fingerprint, ann) \/ status'.revision < ann.revision \/ ~status'.ready
      BY <1>1 DEF FreshInv, Match
    <2>1. CASE reading.orphan
      BY <1>2, <2>1
    <2>2. CASE ~reading.orphan /\ Match(reading.ann, ann)
      BY <1>2, <1>5, <2>2 DEF Match
    <2>3. CASE ~reading.orphan /\ status.revision < ann.revision
      BY <1>2, <2>3
    <2>. QED
      BY <1>1, <1>3, <2>1, <2>2, <2>3 DEF IInv, FreshInv
  <1>8. GenerationInv'
    <2>1. CASE reading.orphan
      BY <1>1, <1>2, <2>1, Zenon DEF IInv, GenerationInv
    <2>2. CASE ~reading.orphan
      BY <1>1, <1>2, <1>5, <2>2, IssuedLemma, Zenon DEF IInv, GenerationInv
    <2>. QED
      BY <1>3, <2>1, <2>2
  <1>9. WorkInv'
    <2>1. CASE reading.orphan
      <3>1. /\ plan' = plan /\ site' = site /\ cluster' = cluster
            /\ status'.revision = status.revision /\ status'.fingerprint = status.fingerprint
        BY <1>1, <1>2, <2>1
      <3>2. \A s \in Sites : Converged(plan, s)' <=> Converged(plan, s)
        BY <3>1 DEF Converged, postgresMemberImage, MembersOf
      <3>3. WorkInv
        BY DEF IInv
      <3>. QED
        BY <3>1, <3>2, <3>3 DEF WorkInv, SameWork
    <2>2. CASE ~reading.orphan
      <3>1. /\ plan'.targets = status'.fingerprint.members \cup ({status'.fingerprint.member} \ {None})
            /\ plan'.target = IF status'.fingerprint.owner = None THEN plan'.image
                              ELSE Target[status'.fingerprint.owner]
        BY <1>2, <1>5, <2>2, IssuedLemma, Zenon
      <3>2. CASE status'.revision = status.revision /\ status'.fingerprint = status.fingerprint
        <4>1. status.fingerprint.generation = reading.spec.generation
          BY <1>2, <1>5, <2>2, <3>2, Zenon
        <4>2. SameWork(plan', plan)
          BY <1>1, <2>2, <3>1, <3>2, <4>1, IssuedLemma, Zenon DEF SameWork, IInv, WorkInv, GenerationInv
        <4>3. \A s \in Sites : site[s].plan.revision = status.revision => SameWork(site[s].plan, plan')
          BY <4>2 DEF IInv, WorkInv, SameWork
        <4>4. \A s \in Sites : site[s].applied = status.revision => Converged(plan', s)
          BY <4>2 DEF IInv, WorkInv, SameWork, Converged, postgresMemberImage
        <4>. QED
          BY <1>1, <3>1, <3>2, <4>3, <4>4 DEF WorkInv, SameWork, Converged, postgresMemberImage
      <3>3. CASE status'.revision = status.revision + 1
        <4>1. ASSUME NEW s \in Sites
              PROVE  site[s].plan.revision # status'.revision /\ site[s].applied # status'.revision
          <5>1. /\ site[s].plan.revision \in Nat /\ site[s].applied \in Nat
                /\ site[s].applied <= site[s].plan.revision /\ site[s].plan.revision <= status.revision
            BY Zenon DEF IInv, Types, SiteStates, Plans, RevisionInv
          <5>. QED
            BY <1>3, <3>3, <5>1
        <4>. QED
          BY <1>1, <3>1, <4>1 DEF WorkInv
      <3>. QED
        BY <1>2, <2>2, <3>2, <3>3, Zenon
    <2>. QED
      BY <1>3, <2>1, <2>2
  <1>10. VerifiedInv'
    <2>. SUFFICES ASSUME NEW m \in ann.members
         PROVE  postgresMemberImage(plan', m) = Target[ann.owner]
      BY <1>1 DEF IInv, VerifiedInv, postgresMemberImage
    <2>1. CASE reading.orphan
      BY <1>1, <2>1 DEF IInv, VerifiedInv, postgresMemberImage
    <2>2. CASE ~reading.orphan
      <3>1. reading.ann.owner = ann.owner /\ m \in reading.ann.members \cup {reading.ann.member}
        BY <1>1 DEF IInv, VerifiedInv
      <3>2. m \in Members /\ m # None /\ ann.owner # None
        BY <1>3, Constants, Zenon DEF Anns, IInv, Types, AnnShape
      <3>. QED
        BY <2>2, <3>1, <3>2, IssuedLemma DEF postgresMemberImage
    <2>. QED
      BY <1>3, <2>1, <2>2, Zenon
  <1>. QED
    BY <1>4, <1>6, <1>7, <1>8, <1>9, <1>10 DEF IInv

-----------------------------------------------------------------------------
(* The upgrade controller and the users. *)

LEMMA Successor ==
    ASSUME NEW n \in Nat, NEW k
    PROVE  k = n + 1 => n < k /\ \A i \in Nat : i <= n => i <= k /\ i # k
  OBVIOUS

\* A patch of the annotations asks for the next revision or gives them up, and
\* may name as upgraded only members that are, in every plan on its way.
LEMMA PatchLemma ==
    ASSUME IInv, UNCHANGED <<status, plan, site, cluster, reading>>,
           upgrade' \in [Upgrades -> [phase: {"absent", "", "active", "Completed", "removed"},
                                      deleting: BOOLEAN]],
           ann' \in Anns, AnnShape(ann)',
           ann' = ann \/ ann'.owner = None \/ ann'.revision = status.revision + 1,
           spec' \in Specs,
           spec' = spec \/ spec'.generation = spec.generation + 1,
           ann'.phase = "Finalize" => spec'.image = Target[ann'.owner],
           \A m \in ann'.members :
              /\ cluster.image[m] = Target[ann'.owner]
              /\ postgresMemberImage(site[SiteOf[m]].plan, m) = Target[ann'.owner]
              /\ postgresMemberImage(plan, m) = Target[ann'.owner]
              /\ reading # None =>
                    /\ reading.ann.owner = ann'.owner
                    /\ m \in reading.ann.members \cup {reading.ann.member}
    PROVE  IInv'
  <1>1. Types'
    BY Zenon DEF IInv, Types, AnnShape
  <1>2. RevisionInv' /\ WorkInv'
    BY Zenon DEF IInv, RevisionInv, WorkInv, SameWork, Converged, postgresMemberImage
  <1>3. FreshInv'
    <2>1. CASE ann' = ann
      BY <2>1, Zenon DEF IInv, FreshInv, Match
    <2>2. CASE ann'.owner = None
      BY <2>2, Zenon DEF FreshInv
    <2>3. CASE ann'.revision = status.revision + 1
      <3>0. status.revision \in Nat
        BY Zenon DEF IInv, Types, Statuses
      <3>1. status.revision < ann'.revision
        BY <2>3, <3>0, Successor, Zenon
      <3>. QED
        BY <3>1, Zenon DEF FreshInv
    <2>. QED
      BY <2>1, <2>2, <2>3, Zenon
  <1>4. GenerationInv'
    <2>1. /\ spec.generation \in Nat /\ spec'.generation \in Nat
          /\ status.fingerprint.generation \in Nat /\ status.observed \in Nat
          /\ reading # None => reading.spec.generation \in Nat
      BY Zenon DEF IInv, Types, Specs, Statuses, Fingerprints, Readings
    <2>2. CASE spec' = spec
      BY <2>2, Zenon DEF IInv, GenerationInv
    <2>3. CASE spec'.generation = spec.generation + 1
      <3>1. GenerationInv
        BY Zenon DEF IInv
      <3>2. /\ status.fingerprint.generation <= spec'.generation
            /\ status.fingerprint.generation # spec'.generation
            /\ status.observed <= spec'.generation
            /\ reading # None => /\ reading.spec.generation <= spec'.generation
                                 /\ reading.spec.generation # spec'.generation
        <4>1. \A i \in Nat : i <= spec.generation => i <= spec'.generation /\ i # spec'.generation
          BY <2>1, <2>3, Successor, Zenon
        <4>. QED
          BY <2>1, <3>1, <4>1, Zenon DEF GenerationInv
      <3>. QED
        BY <3>1, <3>2, Zenon DEF GenerationInv
    <2>. QED
      BY <2>2, <2>3, Zenon
  <1>5. VerifiedInv'
    BY Zenon DEF VerifiedInv, postgresMemberImage
  <1>. QED
    BY <1>1, <1>2, <1>3, <1>4, <1>5, Zenon DEF IInv

LEMMA NumbersLemma ==
    ASSUME IInv
    PROVE  status.revision + 1 \in Nat /\ spec.generation + 1 \in Nat \ {0}
  <1>1. status.revision \in Nat
    BY Zenon DEF IInv, Types, Statuses
  <1>2. spec.generation \in Nat
    BY Zenon DEF IInv, Types, Specs
  <1>3. \A n \in Nat : n + 1 \in Nat \ {0}
    OBVIOUS
  <1>. QED
    BY <1>1, <1>2, <1>3, Zenon

LEMMA LowestLemma ==
    ASSUME NEW S \in SUBSET Members, S # {}
    PROVE  Lowest(S) \in S
  <1>1. S \in SUBSET Nat
    BY ConstantsAssumption
  <1>2. PICK m \in S : \A n \in S : ~(<<n, m>> \in OpToRel(<, Nat))
    BY <1>1, NatLessThanWellFounded, WFMin, Zenon
  <1>4. \A n \in S : ~(n < m)
    BY <1>1, <1>2, Zenon DEF OpToRel
  <1>3. \A n \in S : m <= n
    BY <1>1, <1>4
  <1>. QED
    BY <1>3 DEF Lowest

LEMMA CandidateLemma ==
    ASSUME IInv, NEW S
    PROVE  selectUpgradeCandidate(S) \in Members \cup {None}
  <1>. DEFINE C == (IF S = {} THEN status.standbys ELSE Members \ S) \ {status.primary}
  <1>1. C \in SUBSET Members
    BY Zenon DEF IInv, Types, Statuses
  <1>2. C # {} => Lowest(C) \in Members
    BY <1>1, LowestLemma
  <1>. QED
    BY <1>2 DEF selectUpgradeCandidate

LEMMA PhaseLemma ==
    ASSUME IInv, NEW u \in Upgrades, NEW phase \in {"", "active", "Completed"},
           setUpgradePhase(u, phase)
    PROVE  upgrade' \in [Upgrades -> [phase: {"absent", "", "active", "Completed", "removed"},
                                      deleting: BOOLEAN]]
  BY Zenon DEF IInv, Types, setUpgradePhase

\* A gate that lets the controller go on proves that every member runs what the
\* annotations ask for, and that no plan on its way asks for anything else.
LEMMA ReadyLemma ==
    ASSUME IInv, ann.owner # None, instanceReadyForOperation
    PROVE  /\ plan.image = spec.image /\ plan.target = Target[ann.owner]
           /\ plan.targets = ann.members \cup {ann.member}
           /\ \A m \in Members :
                 /\ m \in cluster.up
                 /\ cluster.image[m] = postgresMemberImage(plan, m)
                 /\ postgresMemberImage(site[SiteOf[m]].plan, m) = postgresMemberImage(plan, m)
           /\ reading # None => Match(reading.ann, ann)
  <1>1. /\ status.revision >= ann.revision /\ status.observed = spec.generation
        /\ status.ready /\ \A s \in Sites : site[s].applied = status.revision
    BY DEF instanceReadyForOperation, allSitesApplied
  <1>2. status.revision \in Nat /\ ann.revision \in Nat
    BY Zenon DEF IInv, Types, Statuses, Anns
  <1>3. ~(status.revision < ann.revision)
    BY <1>1, <1>2
  <1>4. Match(status.fingerprint, ann) /\ (reading # None => Match(reading.ann, ann))
    BY <1>1, <1>3 DEF IInv, FreshInv
  <1>5. plan.image = spec.image
    BY <1>1 DEF IInv, GenerationInv
  <1>6. plan.target = Target[ann.owner] /\ plan.targets = ann.members \cup {ann.member}
    <2>1. ann.member # None
      BY Zenon DEF IInv, Types, AnnShape
    <2>2. /\ status.fingerprint.owner = ann.owner /\ status.fingerprint.member = ann.member
          /\ status.fingerprint.members = ann.members
      BY <1>4 DEF Match
    <2>. QED
      BY <2>1, <2>2 DEF IInv, WorkInv
  <1>7. ASSUME NEW s \in Sites
        PROVE  Converged(plan, s) /\ SameWork(site[s].plan, plan)
    <2>1. site[s].plan.revision \in Nat
      BY Zenon DEF IInv, Types, SiteStates, Plans
    <2>2. site[s].applied <= site[s].plan.revision /\ site[s].plan.revision <= status.revision
      BY DEF IInv, RevisionInv
    <2>3. site[s].plan.revision = status.revision
      BY <1>1, <1>2, <2>1, <2>2
    <2>. QED
      BY <1>1, <2>3 DEF IInv, WorkInv
  <1>8. ASSUME NEW m \in Members
        PROVE  /\ m \in cluster.up
               /\ cluster.image[m] = postgresMemberImage(plan, m)
               /\ postgresMemberImage(site[SiteOf[m]].plan, m) = postgresMemberImage(plan, m)
    <2>1. SiteOf[m] \in Sites /\ m \in MembersOf(SiteOf[m])
      BY Constants DEF MembersOf
    <2>. QED
      BY <1>7, <2>1 DEF Converged, SameWork, postgresMemberImage
  <1>. QED
    BY <1>4, <1>5, <1>6, <1>8

LEMMA BeginLemma ==
    ASSUME IInv, NEW u \in Upgrades, BeginUpgrade(u)
    PROVE  IInv'
  <1>. DEFINE c == selectUpgradeCandidate({})
  <1>1. c \in Members
    BY CandidateLemma DEF BeginUpgrade
  <1>. HIDE DEF c
  <1>2. ann' = [owner |-> u, phase |-> "Member", member |-> c, members |-> {}, from |-> None,
                candidate |-> None, switched |-> FALSE, revision |-> status.revision + 1]
    BY Zenon DEF BeginUpgrade, NoOwner, c
  <1>3. status.revision + 1 \in Nat
    BY NumbersLemma
  <1>4. ann' \in Anns /\ AnnShape(ann)'
    BY <1>1, <1>2, <1>3, Constants DEF Anns, AnnShape
  <1>5. spec' = spec /\ spec \in Specs /\ UNCHANGED <<status, plan, site, cluster, reading>>
    BY Zenon DEF BeginUpgrade, Untouched, IInv, Types
  <1>6. setUpgradePhase(u, "active")
    BY DEF BeginUpgrade
  <1>7. ann'.revision = status.revision + 1 /\ ann'.phase = "Member" /\ ann'.members = {}
    BY <1>2
  <1>. QED
    BY <1>4, <1>5, <1>6, <1>7, PhaseLemma, PatchLemma, Zenon

LEMMA MemberLemma ==
    ASSUME IInv, NEW u \in Upgrades, MemberVerified(u)
    PROVE  IInv'
  <1>. DEFINE upgraded == ann.members \cup {ann.member}
              next == selectUpgradeCandidate(upgraded)
  <1>1. /\ ann.owner = u /\ ann.owner # None /\ instanceReadyForOperation
        /\ UNCHANGED <<status, plan, site, cluster, reading>> /\ setUpgradePhase(u, "active")
    BY Constants DEF MemberVerified, Owner, Untouched
  <1>2. /\ ann \in Anns /\ ann.member \in Members /\ upgraded \in SUBSET Members
        /\ spec \in Specs /\ status.revision + 1 \in Nat /\ spec.generation + 1 \in Nat \ {0}
    BY <1>1, NumbersLemma, Zenon DEF IInv, Types, AnnShape, Anns
  <1>3. next \in Members \cup {None}
    BY CandidateLemma
  <1>4. status.primary \in Members
    BY <1>1, Zenon DEF IInv, Types, Statuses, instanceReadyForOperation
  <1>5. \A m \in upgraded :
           /\ cluster.image[m] = Target[u]
           /\ postgresMemberImage(site[SiteOf[m]].plan, m) = Target[u]
           /\ postgresMemberImage(plan, m) = Target[u]
           /\ reading # None =>
                 /\ reading.ann.owner = u
                 /\ m \in reading.ann.members \cup {reading.ann.member}
    <2>. SUFFICES ASSUME NEW m \in upgraded
         PROVE  /\ cluster.image[m] = Target[u]
                /\ postgresMemberImage(site[SiteOf[m]].plan, m) = Target[u]
                /\ postgresMemberImage(plan, m) = Target[u]
                /\ reading # None =>
                      /\ reading.ann.owner = u
                      /\ m \in reading.ann.members \cup {reading.ann.member}
      OBVIOUS
    <2>1. postgresMemberImage(plan, m) = Target[u]
      BY <1>1, ReadyLemma DEF postgresMemberImage
    <2>2. reading # None => /\ reading.ann.owner = u
                            /\ m \in reading.ann.members \cup {reading.ann.member}
      BY <1>1, ReadyLemma DEF Match
    <2>3. m \in Members
      BY <1>2
    <2>. QED
      BY <1>1, <2>1, <2>2, <2>3, ReadyLemma, Zenon
  <1>. HIDE DEF upgraded, next
  <1>6. /\ ann' \in Anns /\ AnnShape(ann)' /\ ann'.owner = u
        /\ ann'.revision = status.revision + 1 /\ ann'.members \subseteq upgraded
        /\ spec' \in Specs /\ (spec' = spec \/ spec'.generation = spec.generation + 1)
        /\ ann'.phase = "Finalize" => spec'.image = Target[u]
    <2>1. CASE /\ ann' = [ann EXCEPT !.phase = "Switchover", !.members = upgraded,
                            !.from = status.primary, !.candidate = ann.member,
                            !.revision = status.revision + 1]
               /\ UNCHANGED spec
      BY <1>1, <1>2, <1>4, <2>1, Constants, Zenon DEF Anns, AnnShape
    <2>2. CASE /\ next # None /\ UNCHANGED spec /\ ann.phase = "Member"
               /\ ann' = [ann EXCEPT !.member = next, !.members = upgraded,
                            !.revision = status.revision + 1]
      BY <1>1, <1>2, <1>3, <2>2, Constants, Zenon DEF Anns, AnnShape
    <2>3. CASE /\ ann' = [ann EXCEPT !.phase = "Finalize", !.revision = status.revision + 1]
               /\ spec' = [image |-> Target[u], generation |-> spec.generation + 1]
      <3>1. spec' \in Specs /\ spec'.image = Target[u] /\ spec'.generation = spec.generation + 1
        BY <1>2, <2>3, Constants, Zenon DEF Specs
      <3>. QED
        BY <1>1, <1>2, <2>3, <3>1, Constants, Zenon DEF Anns, AnnShape, upgraded
    <2>. QED
      BY <2>1, <2>2, <2>3 DEF MemberVerified, upgraded, next
  <1>7. \A m \in ann'.members :
           /\ cluster.image[m] = Target[ann'.owner]
           /\ postgresMemberImage(site[SiteOf[m]].plan, m) = Target[ann'.owner]
           /\ postgresMemberImage(plan, m) = Target[ann'.owner]
           /\ reading # None =>
                 /\ reading.ann.owner = ann'.owner
                 /\ m \in reading.ann.members \cup {reading.ann.member}
    BY <1>5, <1>6
  <1>. QED
    BY <1>1, <1>6, <1>7, PhaseLemma, PatchLemma, Zenon

LEMMA SwitchoverLemma ==
    ASSUME IInv, NEW u \in Upgrades, SwitchoverVerified(u)
    PROVE  IInv'
  <1>. DEFINE next == selectUpgradeCandidate(ann.members)
  <1>1. next \in Members
    BY CandidateLemma DEF SwitchoverVerified
  <1>. HIDE DEF next
  <1>2. /\ ann' = [ann EXCEPT !.phase = "Member", !.member = next, !.switched = TRUE,
                     !.revision = status.revision + 1]
        /\ ann.owner = u /\ spec' = spec /\ setUpgradePhase(u, "active")
        /\ UNCHANGED <<status, plan, site, cluster, reading>>
    BY DEF SwitchoverVerified, Owner, Untouched, next
  <1>3. ann \in Anns /\ spec \in Specs /\ status.revision + 1 \in Nat
    BY NumbersLemma, Zenon DEF IInv, Types
  <1>4. /\ ann' \in Anns /\ AnnShape(ann)' /\ ann'.revision = status.revision + 1
        /\ ann'.phase = "Member" /\ ann'.owner = ann.owner /\ ann'.members = ann.members
    BY <1>1, <1>2, <1>3, Constants, Zenon DEF Anns, AnnShape
  <1>5. VerifiedInv
    BY Zenon DEF IInv
  <1>6. \A m \in ann'.members :
           /\ cluster.image[m] = Target[ann'.owner]
           /\ postgresMemberImage(site[SiteOf[m]].plan, m) = Target[ann'.owner]
           /\ postgresMemberImage(plan, m) = Target[ann'.owner]
           /\ reading # None =>
                 /\ reading.ann.owner = ann'.owner
                 /\ m \in reading.ann.members \cup {reading.ann.member}
    BY <1>4, <1>5 DEF VerifiedInv
  <1>. QED
    BY <1>2, <1>3, <1>4, <1>6, PhaseLemma, PatchLemma, Zenon

\* Annotations that are given up promise nothing.
LEMMA ClearLemma ==
    ASSUME IInv, ann' = NoOwner, spec' = spec,
           UNCHANGED <<status, plan, site, cluster, reading>>,
           upgrade' \in [Upgrades -> [phase: {"absent", "", "active", "Completed", "removed"},
                                      deleting: BOOLEAN]]
    PROVE  IInv'
  <1>1. ann' \in Anns /\ AnnShape(ann)'
    BY NoOwnerType, Zenon DEF AnnShape
  <1>2. ann'.owner = None /\ ann'.members = {} /\ ann'.phase = "none"
    BY Zenon DEF NoOwner
  <1>3. spec \in Specs
    BY Zenon DEF IInv, Types
  <1>. QED
    BY <1>1, <1>2, <1>3, PatchLemma, Zenon

LEMMA ReconcileUpgradeLemma ==
    ASSUME IInv, NEW u \in Upgrades, ReconcileUpgrade(u)
    PROVE  IInv'
  <1>0. upgrade \in [Upgrades -> [phase: {"absent", "", "active", "Completed", "removed"},
                                  deleting: BOOLEAN]]
    BY Zenon DEF IInv, Types
  <1>1. CASE CompleteAtOnce(u)
    BY <1>0, <1>1, QuietLemma, Zenon DEF CompleteAtOnce, Untouched
  <1>2. CASE Wait(u)
    BY <1>0, <1>2, QuietLemma, Zenon DEF Wait, Untouched
  <1>3. CASE Finalize(u)
    <2>1. /\ upgrade' = [upgrade EXCEPT ![u].phase = "Completed"] /\ spec' = spec
          /\ ann' = NoOwner \/ ann' = ann
          /\ UNCHANGED <<status, plan, site, cluster, reading>>
      BY <1>3 DEF Finalize, clearUpgradeAnnotations, Untouched
    <2>. QED
      BY <1>0, <2>1, ClearLemma, QuietLemma, Zenon
  <1>. QED
    BY <1>1, <1>2, <1>3, BeginLemma, MemberLemma, SwitchoverLemma DEF ReconcileUpgrade

LEMMA OtherUpgradeLemma ==
    ASSUME IInv, NEW u \in Upgrades,
           \/ reconcileTerminalUpgrade(u) \/ reconcileUpgradeDeletion(u)
           \/ CreateUpgrade(u) \/ DeleteUpgrade(u) \/ ForceAbandon(u)
    PROVE  IInv'
  <1>0. upgrade \in [Upgrades -> [phase: {"absent", "", "active", "Completed", "removed"},
                                  deleting: BOOLEAN]]
    BY Zenon DEF IInv, Types
  <1>1. CASE reconcileTerminalUpgrade(u)
    BY <1>0, <1>1, ClearLemma, Zenon DEF reconcileTerminalUpgrade, clearUpgradeAnnotations, Untouched
  <1>2. CASE reconcileUpgradeDeletion(u)
    BY <1>0, <1>2, QuietLemma, Zenon DEF reconcileUpgradeDeletion, Untouched
  <1>3. CASE CreateUpgrade(u)
    BY <1>0, <1>3, QuietLemma, Zenon DEF CreateUpgrade, Untouched
  <1>4. CASE DeleteUpgrade(u)
    BY <1>0, <1>4, QuietLemma, Zenon DEF DeleteUpgrade, Untouched
  <1>5. CASE ForceAbandon(u)
    BY <1>0, <1>5, ClearLemma, Zenon DEF ForceAbandon, clearUpgradeAnnotations
  <1>. QED
    BY <1>1, <1>2, <1>3, <1>4, <1>5

LEMMA EditLemma == IInv /\ EditInstance => IInv'
  <1>. SUFFICES ASSUME IInv, EditInstance PROVE IInv'
    OBVIOUS
  <1>1. /\ spec' = [spec EXCEPT !.generation = @ + 1]
        /\ UNCHANGED <<upgrade, ann, status, plan, site, cluster, reading>>
    BY DEF EditInstance, Untouched
  <1>2. spec \in Specs /\ ann \in Anns /\ AnnShape(ann) /\ VerifiedInv /\ GenerationInv
        /\ upgrade \in [Upgrades -> [phase: {"absent", "", "active", "Completed", "removed"},
                                     deleting: BOOLEAN]]
    BY Zenon DEF IInv, Types
  <1>3. spec' \in Specs /\ spec'.generation = spec.generation + 1 /\ spec'.image = spec.image
    BY <1>1, <1>2, NumbersLemma, Zenon DEF Specs
  <1>4. ann' = ann /\ AnnShape(ann)'
    BY <1>1, <1>2, Zenon DEF AnnShape
  <1>5. ann'.phase = "Finalize" => spec'.image = Target[ann'.owner]
    BY <1>2, <1>3, <1>4, Zenon DEF GenerationInv
  <1>6. \A m \in ann'.members :
           /\ cluster.image[m] = Target[ann'.owner]
           /\ postgresMemberImage(site[SiteOf[m]].plan, m) = Target[ann'.owner]
           /\ postgresMemberImage(plan, m) = Target[ann'.owner]
           /\ reading # None =>
                 /\ reading.ann.owner = ann'.owner
                 /\ m \in reading.ann.members \cup {reading.ann.member}
    BY <1>2, <1>4, Zenon DEF VerifiedInv
  <1>. QED
    BY <1>1, <1>2, <1>3, <1>4, <1>5, <1>6, PatchLemma, Zenon

-----------------------------------------------------------------------------
(* The sites and Patroni. *)

\* What the sites and the pods do keeps the invariant when images only change to
\* what the member's plan asks for and sites only report what has converged.
LEMMA SiteLemma ==
    ASSUME IInv, UNCHANGED <<upgrade, ann, spec, status, plan, reading>>,
           site' \in [Sites -> SiteStates], cluster' \in Clusters,
           \A s \in Sites :
              /\ site'[s].plan = site[s].plan \/ site'[s].plan = plan
              /\ \/ site'[s].applied = site[s].applied
                 \/ /\ site'[s].applied = status.revision /\ Converged(plan, s)'
                    /\ site'[s].plan.revision = status.revision,
           \A m \in Members :
              \/ cluster'.image[m] = cluster.image[m] /\ (m \in cluster.up => m \in cluster'.up)
              \/ /\ cluster.image[m] # postgresMemberImage(site[SiteOf[m]].plan, m)
                 /\ cluster'.image[m] = postgresMemberImage(site[SiteOf[m]].plan, m)
    PROVE  IInv'
  <1>1. Types'
    BY Zenon DEF IInv, Types, AnnShape
  <1>2. RevisionInv /\ WorkInv /\ VerifiedInv
    BY Zenon DEF IInv
  <1>3. RevisionInv'
    <2>1. ASSUME NEW s \in Sites
          PROVE  /\ site'[s].applied <= site'[s].plan.revision
                 /\ site'[s].plan.revision <= status.revision
      <3>1. /\ site[s].applied \in Nat /\ site[s].plan.revision \in Nat
            /\ status.revision \in Nat /\ plan.revision = status.revision
            /\ site[s].applied <= site[s].plan.revision /\ site[s].plan.revision <= status.revision
        BY <1>2, Zenon DEF IInv, Types, SiteStates, Plans, Statuses, RevisionInv
      <3>2. site[s].applied <= status.revision
        BY <3>1
      <3>3. status.revision <= status.revision
        BY <3>1
      <3>. QED
        BY <3>1, <3>2, <3>3, Zenon
    <2>. QED
      BY <1>2, <2>1 DEF RevisionInv
  <1>4. FreshInv' /\ GenerationInv'
    BY Zenon DEF IInv, FreshInv, GenerationInv, Match
  <1>5. WorkInv'
    <2>1. ASSUME NEW s \in Sites, site'[s].plan.revision = status.revision
          PROVE  SameWork(site'[s].plan, plan)
      BY <1>2, <2>1, Zenon DEF WorkInv, SameWork
    <2>2. ASSUME NEW s \in Sites, site'[s].applied = status.revision
          PROVE  Converged(plan, s)'
      <3>1. CASE site[s].applied = status.revision
        <4>1. site[s].plan.revision = status.revision
          <5>1. site[s].plan.revision \in Nat /\ status.revision \in Nat
            BY Zenon DEF IInv, Types, SiteStates, Plans, Statuses
          <5>. QED
            BY <1>2, <3>1, <5>1 DEF RevisionInv
        <4>2. Converged(plan, s) /\ SameWork(site[s].plan, plan)
          BY <1>2, <3>1, <4>1, Zenon DEF WorkInv
        <4>3. ASSUME NEW m \in MembersOf(s)
              PROVE  m \in cluster'.up /\ cluster'.image[m] = postgresMemberImage(plan, m)
          BY <4>2 DEF Converged, SameWork, MembersOf, postgresMemberImage
        <4>. QED
          BY <4>3, Zenon DEF Converged, postgresMemberImage, MembersOf
      <3>. QED
        BY <2>2, <3>1, Zenon
    <2>. QED
      BY <1>2, <2>1, <2>2, Zenon DEF WorkInv, SameWork
  <1>6. VerifiedInv'
    <2>. SUFFICES ASSUME NEW m \in ann.members
         PROVE  /\ cluster'.image[m] = Target[ann.owner]
                /\ postgresMemberImage(site'[SiteOf[m]].plan, m) = Target[ann.owner]
      BY <1>2 DEF VerifiedInv, postgresMemberImage
    <2>1. m \in Members /\ SiteOf[m] \in Sites
      BY Constants, Zenon DEF IInv, Types, Anns
    <2>. QED
      BY <1>2, <2>1, Zenon DEF VerifiedInv
  <1>. QED
    BY <1>1, <1>3, <1>4, <1>5, <1>6 DEF IInv

LEMMA ReceiveLemma ==
    ASSUME IInv, NEW s \in Sites, ReceivePlan(s)
    PROVE  IInv'
  <1>1. /\ site' = [site EXCEPT ![s].plan = plan]
        /\ UNCHANGED <<upgrade, ann, spec, status, plan, cluster, reading>>
    BY DEF ReceivePlan, hub
  <1>2. site \in [Sites -> SiteStates] /\ plan \in Plans /\ cluster \in Clusters
    BY Zenon DEF IInv, Types
  <1>3. site' \in [Sites -> SiteStates]
    BY <1>1, <1>2 DEF SiteStates
  <1>4. \A t \in Sites : /\ site'[t].plan = site[t].plan \/ site'[t].plan = plan
                         /\ site'[t].applied = site[t].applied
    BY <1>1, <1>2 DEF SiteStates
  <1>. QED
    BY <1>1, <1>2, <1>3, <1>4, SiteLemma

LEMMA ExpireLemma ==
    ASSUME IInv, NEW s \in Sites, Expire(s)
    PROVE  IInv'
  <1>1. /\ site' = [site EXCEPT ![s].seen = None]
        /\ UNCHANGED <<upgrade, ann, spec, status, plan, cluster, reading>>
    BY DEF Expire, hub
  <1>2. site \in [Sites -> SiteStates] /\ cluster \in Clusters
    BY Zenon DEF IInv, Types
  <1>3. site' \in [Sites -> SiteStates]
    BY <1>1, <1>2 DEF SiteStates
  <1>4. \A t \in Sites : site'[t].plan = site[t].plan /\ site'[t].applied = site[t].applied
    BY <1>1, <1>2 DEF SiteStates
  <1>. QED
    BY <1>1, <1>2, <1>3, <1>4, SiteLemma

LEMMA StandbyType ==
    ASSUME NEW up \in SUBSET Members, NEW leader
    PROVE  Standby(up, leader) \subseteq Members \cup {None}
  BY Zenon DEF Standby

LEMMA RollDownLemma ==
    ASSUME IInv, NEW m \in Members, RollDown(m)
    PROVE  IInv'
  <1>. DEFINE image == postgresMemberImage(site[SiteOf[m]].plan, m)
              up == cluster.up \ {m}
              leader == IF cluster.leader = m THEN None ELSE cluster.leader
  <1>1. /\ cluster \in Clusters /\ site \in [Sites -> SiteStates]
        /\ up \in SUBSET Members /\ leader \in Members \cup {None}
        /\ cluster.sync \in Members \cup {None}
    BY Zenon DEF IInv, Types, Clusters
  <1>2. image \in Images
    BY <1>1, Constants DEF postgresMemberImage, SiteStates, Plans
  <1>3. /\ cluster.image[m] # image /\ UNCHANGED <<upgrade, ann, spec, status, plan, site, reading>>
        /\ \E sync \in {cluster.sync} \cup (IF cluster.sync = m THEN Standby(up, leader) ELSE {}) :
              cluster' = [leader |-> leader, sync |-> sync, up |-> up,
                          image |-> [cluster.image EXCEPT ![m] = image]]
    BY Zenon DEF RollDown, hub
  <1>. HIDE DEF image, up, leader
  <1>4. PICK sync \in Members \cup {None} :
          cluster' = [leader |-> leader, sync |-> sync, up |-> up,
                      image |-> [cluster.image EXCEPT ![m] = image]]
    BY <1>1, <1>3, StandbyType
  <1>5. cluster.image \in [Members -> Images]
    BY <1>1 DEF Clusters
  <1>6. cluster' \in Clusters
    BY <1>1, <1>2, <1>4, <1>5, Zenon DEF Clusters
  <1>7. /\ cluster'.image[m] = image
        /\ \A n \in Members \ {m} : /\ cluster'.image[n] = cluster.image[n]
                                    /\ n \in cluster.up => n \in cluster'.up
    BY <1>4, <1>5, Zenon DEF up
  <1>8. \A n \in Members :
           \/ cluster'.image[n] = cluster.image[n] /\ (n \in cluster.up => n \in cluster'.up)
           \/ /\ cluster.image[n] # postgresMemberImage(site[SiteOf[n]].plan, n)
              /\ cluster'.image[n] = postgresMemberImage(site[SiteOf[n]].plan, n)
    BY <1>3, <1>7, Zenon DEF image
  <1>. QED
    BY <1>1, <1>3, <1>6, <1>8, SiteLemma

\* A change of leader, of standby, or a pod that comes back.
LEMMA ClusterLemma ==
    ASSUME IInv, UNCHANGED <<upgrade, ann, spec, status, plan, site, reading>>,
           cluster' \in Clusters, cluster'.image = cluster.image,
           cluster.up \subseteq cluster'.up
    PROVE  IInv'
  <1>1. site \in [Sites -> SiteStates]
    BY Zenon DEF IInv, Types
  <1>. QED
    BY <1>1, SiteLemma

LEMMA PatroniLemma ==
    ASSUME IInv, Promote \/ Failover \/ \E m \in Members : RollUp(m)
    PROVE  IInv'
  <1>0. cluster \in Clusters /\ cluster.up \in SUBSET Members
    BY Zenon DEF IInv, Types, Clusters
  <1>1. ASSUME NEW m \in Members, RollUp(m) PROVE IInv'
    <2>1. /\ cluster' = [cluster EXCEPT !.up = @ \cup {m},
                           !.sync = IF @ = None /\ cluster.leader # None THEN m ELSE @]
          /\ UNCHANGED <<upgrade, ann, spec, status, plan, site, reading>>
      BY <1>1, Zenon DEF RollUp, hub
    <2>2. /\ cluster' \in Clusters /\ cluster'.image = cluster.image
          /\ cluster.up \subseteq cluster'.up
      BY <1>0, <2>1, Zenon DEF Clusters
    <2>. QED
      BY <2>1, <2>2, ClusterLemma
  <1>2. CASE Promote
    <2>1. PICK m, sync \in Members \cup {None} :
            cluster' = [cluster EXCEPT !.leader = m, !.sync = sync]
      BY <1>0, <1>2, StandbyType, Zenon DEF Promote
    <2>2. /\ cluster' \in Clusters /\ cluster'.image = cluster.image
          /\ cluster.up \subseteq cluster'.up
      BY <1>0, <2>1, Zenon DEF Clusters
    <2>3. UNCHANGED <<upgrade, ann, spec, status, plan, site, reading>>
      BY <1>2, Zenon DEF Promote, hub
    <2>. QED
      BY <2>2, <2>3, ClusterLemma
  <1>3. CASE Failover
    <2>1. /\ cluster' = [cluster EXCEPT !.leader = cluster.sync, !.sync = cluster.leader]
          /\ UNCHANGED <<upgrade, ann, spec, status, plan, site, reading>>
      BY <1>3 DEF Failover, hub
    <2>2. /\ cluster' \in Clusters /\ cluster'.image = cluster.image
          /\ cluster.up \subseteq cluster'.up
      BY <1>0, <2>1, Zenon DEF Clusters
    <2>. QED
      BY <2>1, <2>2, ClusterLemma
  <1>. QED
    BY <1>1, <1>2, <1>3

LEMMA ReconcileSiteLemma ==
    ASSUME IInv, NEW s \in Sites, ReconcileSite(s)
    PROVE  IInv'
  <1>. DEFINE p == site[s].plan
              outcome == reconcileUpgradeAction(p, s)
              applied == IF outcome = "error" THEN site[s].applied ELSE p.revision
  <1>1. /\ cluster \in Clusters /\ site \in [Sites -> SiteStates] /\ site[s] \in SiteStates
        /\ cluster.up \in SUBSET Members /\ cluster.leader \in Members \cup {None}
        /\ cluster.sync \in Members \cup {None}
    BY Zenon DEF IInv, Types, Clusters
  <1>2. /\ cluster.leader # None /\ Converged(p, s)
        /\ site' = IF p.revision = status.revision
                   THEN [site EXCEPT ![s].applied = applied, ![s].seen = Observed]
                   ELSE site
        /\ UNCHANGED <<upgrade, ann, spec, status, plan, reading>>
    BY Zenon DEF ReconcileSite, hub
  <1>3. cluster' \in Clusters /\ cluster'.image = cluster.image /\ cluster'.up = cluster.up
    <2>1. CASE outcome = "switch"
      <3>1. p.candidate \in Members \cup {None}
        BY <1>1 DEF SiteStates, Plans
      <3>2. PICK sync \in Members \cup {None} :
              cluster' = [cluster EXCEPT !.leader = p.candidate, !.sync = sync]
        BY <1>1, <2>1, StandbyType, Zenon DEF ReconcileSite
      <3>. QED
        BY <1>1, <3>1, <3>2, Zenon DEF Clusters
    <2>2. CASE outcome # "switch"
      BY <1>1, <2>2 DEF ReconcileSite
    <2>. QED
      BY <2>1, <2>2
  <1>4. CASE p.revision # status.revision
    <2>1. UNCHANGED site
      BY <1>2, <1>4
    <2>. QED
      BY <1>2, <1>3, <2>1, ClusterLemma
  <1>5. CASE p.revision = status.revision
    <2>0. site' = [site EXCEPT ![s].applied = applied, ![s].seen = Observed]
      BY <1>2, <1>5
    <2>1. Observed \in Observations
      BY <1>1, <1>2 DEF Observed, Observations
    <2>2. applied = site[s].applied \/ applied = status.revision
      BY <1>5
    <2>3. applied \in Nat
      BY <1>1 DEF SiteStates, Plans
    <2>4. site' \in [Sites -> SiteStates]
      <3>. HIDE DEF applied, outcome, p
      <3>. QED
        BY <1>1, <2>0, <2>1, <2>3, Zenon DEF SiteStates
    <2>5. /\ \A t \in Sites : site'[t].plan = site[t].plan
          /\ \A t \in Sites \ {s} : site'[t].applied = site[t].applied
          /\ site'[s].applied = applied
      <3>. HIDE DEF applied, outcome, p
      <3>. QED
        BY <1>1, <2>0 DEF SiteStates
    <2>6. Converged(plan, s)'
      <3>1. SameWork(p, plan)
        BY <1>5 DEF IInv, WorkInv
      <3>2. \A m \in MembersOf(s) :
               m \in cluster.up /\ cluster.image[m] = postgresMemberImage(plan, m)
        BY <1>2, <3>1 DEF Converged, SameWork, postgresMemberImage
      <3>3. plan' = plan
        BY <1>2, Zenon
      <3>. QED
        BY <1>3, <3>2, <3>3 DEF Converged, postgresMemberImage, MembersOf
    <2>7. \A t \in Sites :
            /\ site'[t].plan = site[t].plan \/ site'[t].plan = plan
            /\ \/ site'[t].applied = site[t].applied
               \/ /\ site'[t].applied = status.revision /\ Converged(plan, t)'
                  /\ site'[t].plan.revision = status.revision
      <3>. SUFFICES ASSUME NEW t \in Sites
           PROVE  /\ site'[t].plan = site[t].plan \/ site'[t].plan = plan
                  /\ \/ site'[t].applied = site[t].applied
                     \/ /\ site'[t].applied = status.revision /\ Converged(plan, t)'
                        /\ site'[t].plan.revision = status.revision
        OBVIOUS
      <3>. HIDE DEF applied, outcome
      <3>1. CASE t = s
        BY <1>5, <2>2, <2>5, <2>6, <3>1, Zenon
      <3>2. CASE t # s
        BY <2>5, <3>2
      <3>. QED
        BY <3>1, <3>2, Zenon
    <2>. HIDE DEF applied, outcome, p
    <2>. QED
      BY <1>2, <1>3, <2>4, <2>7, SiteLemma
  <1>. QED
    BY <1>4, <1>5, Zenon

-----------------------------------------------------------------------------
LEMMA StepLemma == IInv /\ [Next]_vars => IInv'
  <1>. SUFFICES ASSUME IInv, [Next]_vars PROVE IInv'
    OBVIOUS
  <1>1. CASE SystemStep
    BY <1>1, ReadLemma, WriteLemma, PatroniLemma, ReconcileUpgradeLemma, OtherUpgradeLemma,
       ReceiveLemma, ReconcileSiteLemma, RollDownLemma, Zenon DEF SystemStep
  <1>2. CASE UserStep
    BY <1>2, EditLemma, OtherUpgradeLemma DEF UserStep
  <1>3. CASE Failover
    BY <1>3, PatroniLemma
  <1>4. CASE \E s \in Sites : Expire(s)
    BY <1>4, ExpireLemma
  <1>5. CASE UNCHANGED vars
    BY <1>5, QuietLemma, Zenon DEF vars, IInv, Types
  <1>. QED
    BY <1>1, <1>2, <1>3, <1>4, <1>5 DEF Next

LEMMA InvariantLemma == Spec => []IInv
  <1>. QED
    BY InitLemma, StepLemma, PTL DEF Spec

\* A member the annotations record as upgraded runs the target image, for any
\* number of members, sites, upgrades, edits, failovers and late reports
\* (advanceUpgrade, instanceReadyForOperation).
THEOREM VerifiedTheorem == Spec => []VerifiedRunsTarget
  <1>1. IInv => VerifiedRunsTarget
    BY Zenon DEF IInv, VerifiedInv, VerifiedRunsTarget
  <1>. QED
    BY <1>1, InvariantLemma, PTL

\* The gate before completion proves the stable plan applied: every member runs
\* the target and is up (advanceUpgrade's finalize phase).
LEMMA FinalizeLemma ==
    ASSUME IInv, NEW u \in Upgrades, Finalize(u)
    PROVE  \A m \in Members : cluster.image[m] = Target[u] /\ m \in cluster.up
  <1>1. ann.owner = u /\ ann.owner # None /\ instanceReadyForOperation /\ spec.image = Target[u]
    BY Constants DEF Finalize, Owner, IInv, GenerationInv
  <1>. QED
    BY <1>1, ReadyLemma DEF postgresMemberImage

\* Only the finalize phase completes an upgrade that owns the instance.
LEMMA OnlyFinalizeLemma ==
    ASSUME IInv, Next, NEW u \in Upgrades, Owner(u), upgrade[u].phase # "Completed",
           upgrade'[u].phase = "Completed"
    PROVE  Finalize(u)
  <1>0. /\ upgrade \in [Upgrades -> [phase: {"absent", "", "active", "Completed", "removed"},
                                     deleting: BOOLEAN]]
        /\ upgrade' # upgrade
    BY Zenon DEF IInv, Types
  <1>1. ASSUME NEW v \in Upgrades, NEW phase \in {"", "active", "removed"},
               \/ upgrade' = [upgrade EXCEPT ![v].phase = phase]
               \/ upgrade' = [upgrade EXCEPT ![v].deleting = TRUE]
               \/ upgrade' = [upgrade EXCEPT ![v] = [phase |-> "removed", deleting |-> TRUE]]
        PROVE  FALSE
    <2>1. CASE upgrade' = [upgrade EXCEPT ![v].phase = phase]
      BY <1>0, <2>1, Zenon
    <2>2. CASE upgrade' = [upgrade EXCEPT ![v].deleting = TRUE]
      BY <1>0, <2>2, Zenon
    <2>3. CASE upgrade' = [upgrade EXCEPT ![v] = [phase |-> "removed", deleting |-> TRUE]]
      <3>1. upgrade'[u] = upgrade[u] \/ upgrade'[u].phase = "removed"
        BY <1>0, <2>3, Zenon
      <3>. QED
        BY <3>1, Zenon
    <2>. QED
      BY <1>1, <2>1, <2>2, <2>3, Zenon
  <1>2. \/ \E v \in Upgrades : ReconcileUpgrade(v) \/ reconcileUpgradeDeletion(v)
        \/ \E v \in Upgrades : CreateUpgrade(v) \/ DeleteUpgrade(v) \/ ForceAbandon(v)
    BY <1>0, Zenon DEF Next, SystemStep, UserStep, ReadInstance, WriteInstance, Promote, Failover,
                ReceivePlan, ReconcileSite, RollDown, RollUp, EditInstance, Expire, hub,
                reconcileTerminalUpgrade
  <1>3. ASSUME NEW v \in Upgrades,
               \/ reconcileUpgradeDeletion(v) \/ CreateUpgrade(v) \/ DeleteUpgrade(v)
               \/ ForceAbandon(v) \/ Wait(v) \/ BeginUpgrade(v) \/ MemberVerified(v)
               \/ SwitchoverVerified(v)
        PROVE  FALSE
    BY <1>0, <1>1, <1>3, Zenon
       DEF reconcileUpgradeDeletion, CreateUpgrade, DeleteUpgrade, ForceAbandon, Wait,
           BeginUpgrade, MemberVerified, SwitchoverVerified, setUpgradePhase
  <1>4. PICK v \in Upgrades : CompleteAtOnce(v) \/ Finalize(v)
    BY <1>2, <1>3 DEF ReconcileUpgrade
  <1>5. ann.owner # None
    BY Constants DEF Owner
  <1>6. Finalize(v)
    BY <1>4, <1>5 DEF CompleteAtOnce
  <1>7. v = u
    BY <1>6 DEF Finalize, Owner
  <1>. QED
    BY <1>6, <1>7

\* An upgrade that owns the instance completes only when every member is up and
\* runs the target image.
THEOREM CompletedTheorem == Spec => CompletedRunsTarget
  <1>1. ASSUME IInv, [Next]_vars
        PROVE  [\A u \in Upgrades :
                  Owner(u) /\ upgrade[u].phase # "Completed" /\ upgrade'[u].phase = "Completed"
                    => \A m \in Members : cluster.image[m] = Target[u] /\ m \in cluster.up]_vars
    BY <1>1, OnlyFinalizeLemma, FinalizeLemma
  <1>. QED
    BY <1>1, InvariantLemma, PTL DEF Spec, CompletedRunsTarget

-----------------------------------------------------------------------------
(* One member at a time, and not the leader.                               *)

\* The image a member gets from the annotations a and the spec s.
Wanted(a, s, m) ==
    IF m \in a.members \cup {a.member} /\ a.owner # None THEN Target[a.owner] ELSE s.image

\* A member that no plan restarts, be it issued or still to be written.
Calm(m) ==
    /\ m \in cluster.up
    /\ Wanted(ann, spec, m) = cluster.image[m]
    /\ postgresMemberImage(plan, m) = cluster.image[m]
    /\ postgresMemberImage(site[SiteOf[m]].plan, m) = cluster.image[m]
    /\ reading # None => Wanted(reading.ann, reading.spec, m) = cluster.image[m]

\* The owner of the annotations, if there is one, is done with the instance.
Released == ann.owner = None \/ upgrade[ann.owner].phase = "Completed"

\* Ready means that every site has applied the current revision; what a
\* reconcile has read is not older than what the last one wrote.
ReadyInv ==
    /\ status.ready => \A s \in Sites : site[s].applied = status.revision
    /\ reading # None =>
          /\ status.observed <= reading.spec.generation
          /\ \A s \in Sites : reading.site[s].applied <= site[s].applied
          /\ status.ready => \A s \in Sites : reading.site[s].applied = status.revision

\* The members a plan may switch over to.
Candidates ==
    IF status.fingerprint.phase = "Switchover" THEN status.fingerprint.members ELSE {None}

\* A switchover is asked for by an upgrade under way, to a member that was
\* verified and is up.
SwitchInv ==
    /\ ann.members \subseteq cluster.up
    /\ ann.owner # None /\ upgrade[ann.owner].phase = "Completed" => ann.phase = "Finalize"
    /\ ann.phase = "Switchover" => ann.candidate \in ann.members /\ ann.member \in ann.members
    /\ reading # None /\ reading.ann.phase = "Switchover" =>
          reading.ann.candidate \in reading.ann.members
    /\ plan.candidate \in Candidates
    /\ \A s \in Sites :
          site[s].plan.revision = status.revision => site[s].plan.candidate \in Candidates
    /\ ~history.abandoned =>
          /\ status.fingerprint.phase = "Switchover" =>
                ~Released /\ status.fingerprint.members \subseteq ann.members
          /\ reading # None /\ reading.ann.phase = "Switchover" =>
                ~Released /\ reading.ann.members \subseteq ann.members

\* At most one member is restarted, and none during the switchover.
CalmInv ==
    ~history.abandoned =>
        /\ \E w \in Members : \A m \in Members \ {w} : Calm(m)
        /\ Released \/ ann.phase = "Switchover" => \A m \in Members : Calm(m)

\* Nobody has seen this member lead.
Unseen(m) ==
    /\ status.primary # m
    /\ \A s \in Sites : site[s].seen # None => site[s].seen.primary # m
    /\ reading # None => \A s \in Sites :
          reading.site[s].seen # None => reading.site[s].seen.primary # m

\* Outside a switchover, whoever led when the current revision was applied leads.
SeenInv ==
    status.fingerprint.phase # "Switchover" =>
        /\ status.ready => status.primary = cluster.leader
        /\ \A s \in Sites : site[s].applied = status.revision /\ site[s].seen # None =>
              site[s].seen.primary = cluster.leader
        /\ reading # None => \A s \in Sites :
              reading.site[s].applied = status.revision /\ reading.site[s].seen # None =>
                 reading.site[s].seen.primary = cluster.leader

\* The leader is not the member that is restarted, and once the switchover is
\* verified it is one that was.
LeaderInv ==
    ~history.abandoned /\ ~history.failover =>
        /\ \E m \in Members : cluster.leader = m /\ Calm(m)
        /\ SeenInv
        /\ ann.switched => cluster.leader \in ann.members
        /\ ann.phase = "Switchover" /\ cluster.leader \notin ann.members =>
              \A m \in ann.members : Unseen(m)

OrderInv ==
    /\ history \in [failover: BOOLEAN, abandoned: BOOLEAN]
    /\ ReadyInv /\ SwitchInv /\ CalmInv /\ LeaderInv

\* The switchover that a site still asks for is the one under way, or has
\* happened: a site keeps its plan until the next one reaches it, and may act on
\* it again.
HeldPlans ==
    \A s \in Sites :
        site[s].plan.candidate # None =>
            IF status.fingerprint.phase = "Switchover"
            THEN site[s].plan.candidate \in status.fingerprint.members
            ELSE cluster.leader = site[s].plan.candidate

\* No site holds an earlier switchover when one begins.
FreshSwitchover ==
    /\ status.fingerprint.phase # "Switchover"
    /\ ann.phase = "Switchover" \/ (reading # None /\ reading.ann.phase = "Switchover")
    => \A s \in Sites : site[s].plan.candidate = None

\* Whoever has moved on from a switchover has seen its candidate lead.
MovedOn ==
    /\ ann.phase # "Switchover" /\ status.fingerprint.phase = "Switchover" =>
          \A m \in status.fingerprint.members : cluster.leader = m
    /\ reading # None /\ reading.ann.phase = "Switchover" =>
          /\ ann.phase # "Switchover" => \A m \in reading.ann.members : cluster.leader = m
          /\ status.fingerprint.phase = "Switchover" =>
                status.fingerprint.members \subseteq reading.ann.members
    /\ reading # None /\ reading.ann.phase # "Switchover"
         /\ status.fingerprint.phase = "Switchover" => ann.phase # "Switchover"

\* The first member that is verified is the one to switch over to.
FirstMember ==
    /\ ann.phase \in {"none", "Member"} /\ ~ann.switched => ann.members = {}
    /\ ann.phase = "Switchover" => ann.members \subseteq {ann.candidate}

OldPlanInv ==
    /\ FirstMember
    /\ ~history.abandoned /\ ~history.failover => HeldPlans /\ FreshSwitchover /\ MovedOn

LEMMA OrderInitLemma == Init => OrderInv
  <1>. SUFFICES ASSUME Init PROVE OrderInv
    OBVIOUS
  <1>1. PICK leader, sync \in Members :
          cluster = [leader |-> leader, sync |-> sync, up |-> Members,
                     image |-> [m \in Members |-> 0]]
    BY DEF Init
  <1>2. plan = [revision |-> 1, image |-> 0, target |-> 0, targets |-> {},
                from |-> None, candidate |-> None]
    BY Zenon DEF Init, upgradePlans, NoOwner
  <1>3. /\ ann.owner = None /\ ann.phase = "none" /\ ann.members = {} /\ ann.switched = FALSE
        /\ spec.image = 0 /\ reading = None
        /\ \A s \in Sites : site[s].plan = plan /\ site[s].applied = 1
        /\ \A s \in Sites : site[s].seen = Observed
        /\ status.revision = 1 /\ status.primary = cluster.leader
        /\ status.fingerprint = Fingerprint(NoOwner, 1)
    BY Zenon DEF Init, NoOwner
  <1>4. status.fingerprint.phase = "none"
    BY <1>3 DEF Fingerprint, NoOwner
  <1>5. ASSUME NEW m \in Members PROVE Calm(m)
    BY <1>1, <1>2, <1>3, Constants DEF Calm, Wanted, postgresMemberImage
  <1>6. ReadyInv /\ SwitchInv
    BY <1>2, <1>3, <1>4 DEF ReadyInv, SwitchInv, Candidates
  <1>7. CalmInv
    BY <1>1, <1>5, Zenon DEF CalmInv
  <1>8. SeenInv
    BY <1>3 DEF SeenInv, Observed
  <1>9. LeaderInv
    BY <1>1, <1>3, <1>5, <1>8, Zenon DEF LeaderInv
  <1>10. history \in [failover: BOOLEAN, abandoned: BOOLEAN]
    BY Zenon DEF Init
  <1>. QED
    BY <1>6, <1>7, <1>9, <1>10, Zenon DEF OrderInv

\* A verified member is restarted by nobody.
LEMMA VerifiedCalm ==
    ASSUME IInv, OrderInv, NEW m \in ann.members
    PROVE  Calm(m)
  <1>1. ann.owner # None
    BY Zenon DEF IInv, Types, AnnShape
  <1>2. VerifiedInv /\ m \in cluster.up
    BY Zenon DEF IInv, OrderInv, SwitchInv
  <1>. QED
    BY <1>1, <1>2 DEF VerifiedInv, Calm, Wanted

\* The gate proves that every member is at rest, in what a running reconcile
\* has read too.
LEMMA ReadyCalm ==
    ASSUME IInv, OrderInv, ann.owner # None, instanceReadyForOperation
    PROVE  /\ \A m \in Members : Calm(m)
           /\ status.fingerprint.phase = ann.phase
           /\ reading # None => reading.ann.phase = ann.phase
           /\ \A s \in Sites : site[s].applied = status.revision
           /\ reading # None => \A s \in Sites : reading.site[s].applied = status.revision
  <1>1. /\ status.revision >= ann.revision /\ status.observed = spec.generation
        /\ status.ready /\ \A s \in Sites : site[s].applied = status.revision
    BY DEF instanceReadyForOperation, allSitesApplied
  <1>2. status.revision \in Nat /\ ann.revision \in Nat /\ spec.generation \in Nat
    BY Zenon DEF IInv, Types, Statuses, Anns, Specs
  <1>3. ~(status.revision < ann.revision)
    BY <1>1, <1>2
  <1>4. Match(status.fingerprint, ann)
    BY <1>1, <1>3 DEF IInv, FreshInv
  <1>5. reading # None => reading.spec.image = spec.image
    <2>. SUFFICES ASSUME reading # None PROVE reading.spec.image = spec.image
      OBVIOUS
    <2>1. reading.spec.generation \in Nat
      BY Zenon DEF IInv, Types, Readings, Specs
    <2>2. /\ status.observed <= reading.spec.generation
          /\ reading.spec.generation <= spec.generation
      BY DEF OrderInv, ReadyInv, IInv, GenerationInv
    <2>3. reading.spec.generation = spec.generation
      BY <1>1, <1>2, <2>1, <2>2
    <2>. QED
      BY <2>3 DEF IInv, GenerationInv
  <1>6. ASSUME NEW m \in Members PROVE Calm(m)
    <2>1. Wanted(ann, spec, m) = postgresMemberImage(plan, m)
      BY ReadyLemma, Zenon DEF Wanted, postgresMemberImage
    <2>2. reading # None => Wanted(reading.ann, reading.spec, m) = Wanted(ann, spec, m)
      BY <1>5, ReadyLemma DEF Wanted, Match
    <2>. QED
      BY <2>1, <2>2, ReadyLemma, Zenon DEF Calm
  <1>. QED
    BY <1>1, <1>4, <1>6, ReadyLemma, Zenon DEF Match, OrderInv, ReadyInv

-----------------------------------------------------------------------------
\* A step that changes only the upgrade objects, and completes none that owns
\* the instance.
LEMMA QuietOrder ==
    ASSUME OrderInv,
           UNCHANGED <<ann, spec, status, plan, site, cluster, reading, history>>,
           ann.owner # None /\ upgrade'[ann.owner].phase = "Completed" =>
              upgrade[ann.owner].phase = "Completed"
    PROVE  OrderInv'
  <1>1. Released' => Released
    BY Zenon DEF Released
  <1>2. \A m \in Members : Calm(m)' <=> Calm(m)
    BY Zenon DEF Calm, Wanted, postgresMemberImage
  <1>3. ReadyInv' /\ SwitchInv'
    BY <1>1, Zenon DEF OrderInv, ReadyInv, SwitchInv, Candidates
  <1>4. CalmInv'
    BY <1>1, <1>2, Zenon DEF OrderInv, CalmInv
  <1>5. LeaderInv'
    <2>1. SeenInv => SeenInv'
      BY Zenon DEF SeenInv
    <2>2. LeaderInv /\ \A m : Unseen(m) => Unseen(m)'
      BY Zenon DEF OrderInv, Unseen
    <2>. QED
      BY <1>2, <2>1, <2>2, Zenon DEF LeaderInv
  <1>. QED
    BY <1>3, <1>4, <1>5, Zenon DEF OrderInv

LEMMA ReadOrder ==
    ASSUME IInv, OrderInv, ReadInstance
    PROVE  OrderInv'
  <1>1. /\ reading' = Current /\ UNCHANGED <<upgrade, ann, spec, status, plan, site, cluster, history>>
    BY DEF ReadInstance, hub
  <1>2. /\ reading'.ann = ann /\ reading'.spec = spec
        /\ \A s \in Sites : /\ reading'.site[s].applied = site[s].applied
                            /\ reading'.site[s].seen = site[s].seen
    BY <1>1, Zenon DEF Current
  <1>3. /\ spec.generation \in Nat /\ status.observed \in Nat
        /\ \A s \in Sites : site[s].applied \in Nat
    BY Zenon DEF IInv, Types, Specs, Statuses, SiteStates
  <1>4. Released' <=> Released
    BY <1>1, Zenon DEF Released
  <1>5. \A m \in Members : Calm(m) => Calm(m)'
    BY <1>1, <1>2, Zenon DEF Calm, Wanted, postgresMemberImage
  <1>6. ReadyInv'
    <2>1. \A s \in Sites : site[s].applied <= site[s].applied
      BY <1>3
    <2>2. status.observed <= spec.generation
      BY DEF IInv, GenerationInv
    <2>. QED
      BY <1>1, <1>2, <2>1, <2>2, Zenon DEF OrderInv, ReadyInv
  <1>7. SwitchInv'
    <2>1. ann.phase = "Switchover" => ~Released
      BY Zenon DEF IInv, Types, AnnShape, OrderInv, SwitchInv, Released
    <2>2. ann.members \subseteq ann.members
      OBVIOUS
    <2>. QED
      BY <1>1, <1>2, <1>4, <2>1, <2>2, Zenon DEF OrderInv, SwitchInv, Candidates
  <1>8. CalmInv'
    BY <1>1, <1>4, <1>5, Zenon DEF OrderInv, CalmInv
  <1>9. LeaderInv'
    <2>1. SeenInv => SeenInv'
      BY <1>1, <1>2, Zenon DEF SeenInv
    <2>2. \A m : Unseen(m) => Unseen(m)'
      BY <1>1, <1>2, Zenon DEF Unseen
    <2>. QED
      BY <1>1, <1>5, <2>1, <2>2, Zenon DEF OrderInv, LeaderInv
  <1>. QED
    BY <1>1, <1>6, <1>7, <1>8, <1>9, Zenon DEF OrderInv

\* What the status says of the leader was seen by every site that was read, or
\* was there before.
LEMMA ComputedLeader ==
    ASSUME IInv, reading # None
    PROVE  /\ Computed(reading).ready =>
                /\ ~reading.orphan
                /\ \A s \in Sites :
                      /\ reading.site[s].applied = Computed(reading).revision
                      /\ reading.site[s].seen # None
                      /\ reading.site[s].seen.primary = Computed(reading).primary
           /\ \/ Computed(reading).primary \in {None, status.primary}
              \/ \E s \in Sites : /\ reading.site[s].seen # None
                                  /\ reading.site[s].seen.primary = Computed(reading).primary
  <1>. DEFINE fp == Fingerprint(reading.ann, reading.spec.generation)
              rev == IF status.fingerprint = fp THEN status.revision ELSE status.revision + 1
              seen == [s \in Sites |-> reading.site[s].seen]
              top == aggregateTopology(seen)
              rdy == /\ \A s \in Sites : reading.site[s].applied = rev
                     /\ top.topology /\ top.standbys # {}
  <1>1. reading \in Readings
    BY Zenon DEF IInv, Types
  <1>2. seen \in [Sites -> Observations \cup {None}]
    BY <1>1, Zenon DEF Readings, Reports
  <1>3. \/ top.primary = None /\ ~top.topology
        \/ \A s \in Sites : seen[s] # None /\ seen[s].primary = top.primary
    <2>. DEFINE P == {seen[s].primary : s \in Sites}
                leader == CHOOSE m \in Members : \A s \in Sites : seen[s].primary = m
    <2>1. CASE (\A s \in Sites : seen[s] # None) /\ Cardinality(P) = 1
      <3>1. P \subseteq Members
        BY <1>2, <2>1, Zenon DEF Observations
      <3>2. IsFiniteSet(P)
        BY <3>1, ConstantsAssumption, FS_Subset
      <3>3. PICK x : P = {x}
        BY <2>1, <3>2, FS_Singleton, Zenon
      <3>4. x \in Members /\ \A s \in Sites : seen[s].primary = x
        BY <3>1, <3>3, Zenon
      <3>5. \A s \in Sites : seen[s].primary = leader
        BY <3>4, Zenon
      <3>6. top.primary = leader
        BY <2>1, Zenon DEF aggregateTopology
      <3>. HIDE DEF top, leader, seen, P
      <3>. QED
        BY <2>1, <3>5, <3>6, Zenon
    <2>2. CASE ~((\A s \in Sites : seen[s] # None) /\ Cardinality(P) = 1)
      BY <2>2 DEF aggregateTopology
    <2>. QED
      BY <2>1, <2>2
  <1>4. PICK t \in Sites : TRUE
    BY Constants
  <1>5. \A s \in Sites : seen[s] = reading.site[s].seen
    OBVIOUS
  <1>6. CASE reading.orphan
    <2>1. ~Computed(reading).ready /\ Computed(reading).primary = status.primary
      BY <1>6 DEF Computed
    <2>. QED
      BY <2>1, Zenon
  <1>7. CASE ~reading.orphan
    <2>1. Computed(reading) =
            [revision |-> rev, fingerprint |-> fp, observed |-> reading.spec.generation,
             primary |-> top.primary, standbys |-> top.standbys, topology |-> top.topology,
             ready |-> rdy]
      BY <1>7, Zenon DEF Computed
    <2>2. rdy => top.topology /\ \A s \in Sites : reading.site[s].applied = rev
      OBVIOUS
    <2>. HIDE DEF fp, rev, top, rdy, seen
    <2>3. /\ Computed(reading).revision = rev /\ Computed(reading).primary = top.primary
          /\ Computed(reading).ready = rdy
      BY <2>1
    <2>. QED
      BY <1>3, <1>4, <1>5, <1>7, <2>2, <2>3, Zenon
  <1>. QED
    BY <1>6, <1>7

LEMMA WriteOrder ==
    ASSUME IInv, IInv', OrderInv, WriteInstance
    PROVE  OrderInv'
  <1>1. /\ reading # None /\ reading' = None /\ status' = Computed(reading)
        /\ UNCHANGED <<upgrade, ann, spec, site, cluster, history>>
        /\ reading.orphan => plan' = plan
        /\ ~reading.orphan => plan' = upgradePlans(reading.ann, reading.spec, status'.revision)
    BY Zenon DEF WriteInstance, hub
  <1>2. /\ reading.orphan =>
             /\ status'.revision = status.revision /\ status'.fingerprint = status.fingerprint
             /\ ~status'.ready
        /\ ~reading.orphan =>
             /\ status'.fingerprint = Fingerprint(reading.ann, reading.spec.generation)
             /\ \/ /\ status'.revision = status.revision
                   /\ status.fingerprint = Fingerprint(reading.ann, reading.spec.generation)
                \/ status'.revision = status.revision + 1 /\ ~status'.ready
    BY <1>1, ComputedLemma
  <1>3. /\ reading.orphan \in BOOLEAN /\ reading.ann \in Anns /\ reading.spec \in Specs
        /\ status.revision \in Nat /\ reading.ann.members \subseteq Members /\ None \notin Members
        /\ \A s \in Sites : /\ site[s].applied \in Nat /\ site[s].plan.revision \in Nat
                            /\ reading.site[s].applied \in Nat
    BY <1>1, Constants, Zenon DEF IInv, Types, Readings, Statuses, Anns, SiteStates, Plans, Reports
  <1>4. \A s \in Sites : /\ site[s].applied <= site[s].plan.revision
                         /\ site[s].plan.revision <= status.revision
                         /\ reading.site[s].applied <= site[s].applied
    BY <1>1 DEF IInv, RevisionInv, OrderInv, ReadyInv
  <1>5. Fingerprint(reading.ann, reading.spec.generation).phase = reading.ann.phase
        /\ Fingerprint(reading.ann, reading.spec.generation).members = reading.ann.members
    BY DEF Fingerprint
  <1>6. \/ /\ status'.revision = status.revision /\ status'.fingerprint = status.fingerprint
        \/ /\ status'.revision = status.revision + 1 /\ ~status'.ready
           /\ \A s \in Sites : /\ site[s].applied # status'.revision
                               /\ site[s].plan.revision # status'.revision
    <2>1. ASSUME status'.revision = status.revision + 1, NEW s \in Sites
          PROVE  site[s].applied # status'.revision /\ site[s].plan.revision # status'.revision
      BY <1>3, <1>4, <2>1
    <2>. QED
      BY <1>2, <1>3, <2>1, Zenon
  <1>7. Released' <=> Released
    BY <1>1, Zenon DEF Released
  <1>8. ASSUME NEW m \in Members, Calm(m) PROVE Calm(m)'
    <2>1. postgresMemberImage(plan', m) = cluster.image[m]
      <3>1. CASE reading.orphan
        BY <1>1, <1>8, <3>1, Zenon DEF Calm
      <3>2. CASE ~reading.orphan
        <4>1. Wanted(reading.ann, reading.spec, m) = cluster.image[m]
          BY <1>1, <1>8, Zenon DEF Calm
        <4>2. /\ plan'.image = reading.spec.image
              /\ plan'.targets = reading.ann.members \cup ({reading.ann.member} \ {None})
              /\ plan'.target = IF reading.ann.owner = None THEN reading.spec.image
                                ELSE Target[reading.ann.owner]
          BY <3>2, IssuedLemma, Zenon
        <4>3. m \in plan'.targets <=> m \in reading.ann.members \cup {reading.ann.member}
          BY <1>3, <4>2
        <4>. QED
          BY <4>1, <4>2, <4>3 DEF Wanted, postgresMemberImage
      <3>. QED
        BY <1>3, <3>1, <3>2, Zenon
    <2>. QED
      BY <1>1, <1>8, <2>1, Zenon DEF Calm, Wanted, postgresMemberImage
  <1>9. ReadyInv'
    <2>1. ASSUME status'.ready, NEW s \in Sites PROVE site[s].applied = status'.revision
      <3>1. reading.site[s].applied = status'.revision /\ status'.revision = status.revision
        BY <1>1, <1>6, <2>1, ComputedLeader
      <3>. QED
        BY <1>3, <1>4, <3>1
    <2>. QED
      BY <1>1, <2>1, Zenon DEF ReadyInv
  <1>10. SwitchInv'
    <2>1. CASE reading.orphan
      BY <1>1, <1>2, <1>7, <2>1, Zenon DEF OrderInv, SwitchInv, Candidates
    <2>2. CASE ~reading.orphan
      <3>1. status'.fingerprint.phase = reading.ann.phase
            /\ status'.fingerprint.members = reading.ann.members
        BY <1>2, <1>5, <2>2, Zenon
      <3>2. plan'.candidate = IF reading.ann.phase = "Switchover" THEN reading.ann.candidate ELSE None
        BY <1>1, <2>2 DEF upgradePlans
      <3>3. reading.ann.phase = "Switchover" => reading.ann.candidate \in reading.ann.members
        BY <1>1, Zenon DEF OrderInv, SwitchInv
      <3>4. plan'.candidate \in Candidates'
        BY <3>1, <3>2, <3>3 DEF Candidates
      <3>5. \A s \in Sites :
               site'[s].plan.revision = status'.revision => site'[s].plan.candidate \in Candidates'
        BY <1>1, <1>6, Zenon DEF OrderInv, SwitchInv, Candidates
      <3>. QED
        BY <1>1, <1>7, <3>1, <3>4, <3>5, Zenon DEF OrderInv, SwitchInv
    <2>. QED
      BY <1>3, <2>1, <2>2, Zenon
  <1>11. CalmInv'
    BY <1>1, <1>7, <1>8, Zenon DEF OrderInv, CalmInv
  <1>12. LeaderInv'
    <2>1. SeenInv => SeenInv'
      <3>. SUFFICES ASSUME SeenInv, status'.fingerprint.phase # "Switchover"
           PROVE  /\ status'.ready => status'.primary = cluster.leader
                  /\ \A s \in Sites : site[s].applied = status'.revision /\ site[s].seen # None =>
                        site[s].seen.primary = cluster.leader
        BY <1>1, Zenon DEF SeenInv
      <3>1. CASE status'.revision = status.revision /\ status'.fingerprint = status.fingerprint
        <4>1. ASSUME status'.ready PROVE status'.primary = cluster.leader
          <5>1. PICK s \in Sites : TRUE
            BY Constants
          <5>2. /\ reading.site[s].applied = status.revision /\ reading.site[s].seen # None
                /\ reading.site[s].seen.primary = status'.primary
            BY <1>1, <3>1, <4>1, <5>1, ComputedLeader, Zenon
          <5>. QED
            BY <1>1, <3>1, <5>2, Zenon DEF SeenInv
        <4>. QED
          BY <3>1, <4>1, Zenon DEF SeenInv
      <3>. QED
        BY <1>6, <3>1, Zenon
    <2>2. ASSUME NEW m \in Members, Unseen(m) PROVE Unseen(m)'
      <3>1. status'.primary # m
        BY <1>1, <1>3, <2>2, ComputedLeader, Zenon DEF Unseen
      <3>. QED
        BY <1>1, <2>2, <3>1, Zenon DEF Unseen
    <2>3. ann.members \subseteq Members
      BY Zenon DEF IInv, Types, Anns
    <2>4. \A m \in ann.members : Unseen(m) => Unseen(m)'
      BY <2>2, <2>3, Zenon
    <2>. QED
      BY <1>1, <1>8, <2>1, <2>4, Zenon DEF OrderInv, LeaderInv
  <1>. QED
    BY <1>1, <1>9, <1>10, <1>11, <1>12, Zenon DEF OrderInv

LEMMA EditOrder ==
    ASSUME IInv, OrderInv, EditInstance
    PROVE  OrderInv'
  <1>1. /\ spec' = [spec EXCEPT !.generation = @ + 1]
        /\ UNCHANGED <<upgrade, ann, status, plan, site, cluster, reading, history>>
    BY DEF EditInstance, Untouched
  <1>2. spec'.image = spec.image
    BY <1>1, Zenon DEF IInv, Types, Specs
  <1>3. Released' <=> Released
    BY <1>1, Zenon DEF Released
  <1>4. \A m \in Members : Calm(m) => Calm(m)'
    BY <1>1, <1>2, Zenon DEF Calm, Wanted, postgresMemberImage
  <1>5. ReadyInv' /\ SwitchInv'
    BY <1>1, <1>3, Zenon DEF OrderInv, ReadyInv, SwitchInv, Candidates
  <1>6. CalmInv'
    BY <1>1, <1>3, <1>4, Zenon DEF OrderInv, CalmInv
  <1>7. (SeenInv => SeenInv') /\ \A m : Unseen(m) => Unseen(m)'
    BY <1>1, Zenon DEF SeenInv, Unseen
  <1>8. LeaderInv'
    BY <1>1, <1>4, <1>7, Zenon DEF OrderInv, LeaderInv
  <1>. QED
    BY <1>1, <1>5, <1>6, <1>8, Zenon DEF OrderInv

\* A patch of the annotations disturbs the members in W: none, or one that is not
\* the leader.
LEMMA PatchOrder ==
    ASSUME IInv, OrderInv, UNCHANGED <<status, plan, site, cluster, reading, history>>,
           ann'.members \subseteq cluster.up,
           ann'.owner # None /\ upgrade'[ann'.owner].phase = "Completed" => ann'.phase = "Finalize",
           ann'.phase = "Switchover" => ann'.candidate \in ann'.members /\ ann'.member \in ann'.members,
           ~history.abandoned =>
              \/ ~Released' /\ ann.members \subseteq ann'.members
              \/ /\ status.fingerprint.phase # "Switchover"
                 /\ reading # None => reading.ann.phase # "Switchover",
           NEW W \in SUBSET Members,
           W = {} \/ (~Released' /\ ann'.phase # "Switchover" /\ \E w \in Members : W = {w}),
           ~history.abandoned =>
              \A m \in Members \ W : Calm(m) /\ Wanted(ann', spec', m) = Wanted(ann, spec, m),
           ~history.abandoned /\ ~history.failover =>
              /\ cluster.leader \notin W
              /\ ann'.switched => cluster.leader \in ann'.members
              /\ ann'.phase = "Switchover" /\ cluster.leader \notin ann'.members =>
                    \A m \in ann'.members : Unseen(m)
    PROVE  OrderInv'
  <1>1. ReadyInv'
    BY Zenon DEF OrderInv, ReadyInv
  <1>2. SwitchInv'
    <2>1. SwitchInv
      BY Zenon DEF OrderInv
    <2>2. ~history.abandoned =>
            /\ status.fingerprint.phase = "Switchover" =>
                  ~Released' /\ status.fingerprint.members \subseteq ann'.members
            /\ reading # None /\ reading.ann.phase = "Switchover" =>
                  ~Released' /\ reading.ann.members \subseteq ann'.members
      BY <2>1, Zenon DEF SwitchInv
    <2>. QED
      BY <2>1, <2>2, Zenon DEF SwitchInv, Candidates
  <1>3. ASSUME ~history.abandoned, NEW m \in Members \ W PROVE Calm(m)'
    <2>1. Calm(m) /\ Wanted(ann', spec', m) = cluster.image[m]
      BY <1>3, Zenon DEF Calm
    <2>. QED
      BY <2>1, Zenon DEF Calm, Wanted, postgresMemberImage
  <1>4. CalmInv'
    <2>. SUFFICES ASSUME ~history.abandoned
         PROVE  /\ \E w \in Members : \A m \in Members \ {w} : Calm(m)'
                /\ Released' \/ ann'.phase = "Switchover" => \A m \in Members : Calm(m)'
      BY Zenon DEF CalmInv
    <2>1. CASE W = {}
      <3>1. \A m \in Members : Calm(m)'
        BY <1>3, <2>1
      <3>2. \E w \in Members : TRUE
        BY Zenon DEF OrderInv, CalmInv
      <3>. QED
        BY <3>1, <3>2, Zenon
    <2>2. CASE ~Released' /\ ann'.phase # "Switchover" /\ \E w \in Members : W = {w}
      BY <1>3, <2>2, Zenon
    <2>. QED
      BY <2>1, <2>2, Zenon
  <1>5. LeaderInv'
    <2>. SUFFICES ASSUME ~history.abandoned, ~history.failover
         PROVE  /\ \E m \in Members : cluster.leader = m /\ Calm(m)'
                /\ SeenInv'
                /\ ann'.switched => cluster.leader \in ann'.members
                /\ ann'.phase = "Switchover" /\ cluster.leader \notin ann'.members =>
                      \A m \in ann'.members : Unseen(m)'
      BY Zenon DEF LeaderInv
    <2>1. cluster.leader \in Members /\ SeenInv
      BY Zenon DEF OrderInv, LeaderInv
    <2>2. Calm(cluster.leader) /\ cluster.leader \in Members \ W
      BY <2>1, Zenon DEF OrderInv, LeaderInv
    <2>3. \E m \in Members : cluster.leader = m /\ Calm(m)'
      <3>1. PICK m \in Members : m = cluster.leader
        BY <2>1, Zenon
      <3>2. m \in Members \ W
        BY <2>2, <3>1
      <3>. QED
        BY <1>3, <3>1, <3>2, Zenon
    <2>4. SeenInv' /\ \A m : Unseen(m) => Unseen(m)'
      BY <2>1, Zenon DEF SeenInv, Unseen
    <2>. QED
      BY <2>3, <2>4, Zenon
  <1>. QED
    BY <1>1, <1>2, <1>4, <1>5, Zenon DEF OrderInv

\* Nobody selects the leader the status shows, or a member that is done.
LEMMA SelectedLemma ==
    ASSUME IInv, NEW S, selectUpgradeCandidate(S) # None
    PROVE  /\ selectUpgradeCandidate(S) \in Members
           /\ selectUpgradeCandidate(S) # status.primary
           /\ S # {} => selectUpgradeCandidate(S) \notin S
  <1>. DEFINE C == (IF S = {} THEN status.standbys ELSE Members \ S) \ {status.primary}
  <1>1. C \in SUBSET Members
    BY Zenon DEF IInv, Types, Statuses
  <1>2. selectUpgradeCandidate(S) = IF C = {} THEN None ELSE Lowest(C)
    BY DEF selectUpgradeCandidate
  <1>3. C # {} /\ selectUpgradeCandidate(S) = Lowest(C)
    BY <1>2
  <1>4. selectUpgradeCandidate(S) \in C
    BY <1>1, <1>3, LowestLemma, Zenon
  <1>. QED
    BY <1>1, <1>4

LEMMA NoneSelectedLemma ==
    ASSUME IInv, NEW S, S # {}, selectUpgradeCandidate(S) = None
    PROVE  Members \subseteq S \cup {status.primary}
  <1>. DEFINE C == (IF S = {} THEN status.standbys ELSE Members \ S) \ {status.primary}
  <1>1. C \in SUBSET Members /\ C = (Members \ S) \ {status.primary}
    BY Zenon DEF IInv, Types, Statuses
  <1>2. selectUpgradeCandidate(S) = IF C = {} THEN None ELSE Lowest(C)
    BY Zenon DEF selectUpgradeCandidate
  <1>3. C = {}
    BY <1>1, <1>2, LowestLemma, Constants
  <1>. QED
    BY <1>1, <1>3

\* The upgrade that patches the annotations is not finished by it.
LEMMA ActiveLemma ==
    ASSUME IInv, NEW u \in Upgrades, Unfinished(u), setUpgradePhase(u, "active")
    PROVE  upgrade'[u].phase # "Completed"
  <1>1. upgrade \in [Upgrades -> [phase: {"absent", "", "active", "Completed", "removed"},
                                  deleting: BOOLEAN]]
    BY Zenon DEF IInv, Types
  <1>2. CASE upgrade' = [upgrade EXCEPT ![u].phase = "active"]
    BY <1>1, <1>2, Zenon
  <1>3. CASE upgrade' = upgrade
    BY <1>3, Zenon DEF Unfinished
  <1>. QED
    BY <1>2, <1>3 DEF setUpgradePhase

LEMMA BeginOrder ==
    ASSUME IInv, OrderInv, NEW u \in Upgrades, Unfinished(u), BeginUpgrade(u)
    PROVE  OrderInv'
  <1>. DEFINE c == selectUpgradeCandidate({})
  <1>1. /\ ann.owner = None /\ status.ready /\ c # None /\ setUpgradePhase(u, "active")
        /\ UNCHANGED <<spec, status, plan, site, cluster, reading, history>>
    BY DEF BeginUpgrade, Preflight, Untouched
  <1>2. c \in Members /\ c # status.primary
    BY <1>1, SelectedLemma
  <1>. HIDE DEF c
  <1>3. ann' = [owner |-> u, phase |-> "Member", member |-> c, members |-> {}, from |-> None,
                candidate |-> None, switched |-> FALSE, revision |-> status.revision + 1]
    BY Zenon DEF BeginUpgrade, NoOwner, c
  <1>4. /\ ann'.owner = u /\ ann'.phase = "Member" /\ ann'.member = c /\ ann'.members = {}
        /\ ann'.switched = FALSE /\ u # None
    BY <1>3, Constants
  <1>5. Released /\ ~Released'
    BY <1>1, <1>4, ActiveLemma, Zenon DEF Released
  <1>6. ~history.abandoned => /\ status.fingerprint.phase # "Switchover"
                              /\ reading # None => reading.ann.phase # "Switchover"
    BY <1>5, Zenon DEF OrderInv, SwitchInv
  <1>7. ASSUME ~history.abandoned, NEW m \in Members \ {c}
        PROVE  Calm(m) /\ Wanted(ann', spec', m) = Wanted(ann, spec, m)
    <2>1. Calm(m)
      BY <1>5, <1>7, Zenon DEF OrderInv, CalmInv
    <2>2. Wanted(ann', spec', m) = Wanted(ann, spec, m)
      BY <1>1, <1>4 DEF Wanted
    <2>. QED
      BY <2>1, <2>2
  <1>8. ~history.abandoned /\ ~history.failover => cluster.leader \notin {c}
    BY <1>1, <1>2, <1>6, Zenon DEF OrderInv, LeaderInv, SeenInv
  <1>9. {c} \in SUBSET Members
    BY <1>2, Zenon
  <1>10. /\ ann'.members \subseteq cluster.up
         /\ ann'.owner # None /\ upgrade'[ann'.owner].phase = "Completed" => ann'.phase = "Finalize"
         /\ ann'.phase # "Switchover" /\ \E w \in Members : {c} = {w}
    BY <1>2, <1>4, <1>5 DEF Released
  <1>. QED
    BY <1>1, <1>4, <1>5, <1>6, <1>7, <1>8, <1>9, <1>10, PatchOrder, Zenon

LEMMA MemberOrder ==
    ASSUME IInv, OrderInv, NEW u \in Upgrades, Unfinished(u), MemberVerified(u)
    PROVE  OrderInv'
  <1>. DEFINE upgraded == ann.members \cup {ann.member}
              next == selectUpgradeCandidate(upgraded)
  <1>1. /\ ann.owner = u /\ ann.owner # None /\ ann.phase = "Member" /\ instanceReadyForOperation
        /\ UNCHANGED <<status, plan, site, cluster, reading, history>> /\ setUpgradePhase(u, "active")
    BY Constants DEF MemberVerified, Owner, Untouched
  <1>2. ann \in Anns /\ ann.member \in Members /\ upgraded \in SUBSET Members /\ upgraded # {}
    BY <1>1, Zenon DEF IInv, Types, AnnShape, Anns
  <1>3. /\ \A m \in Members : Calm(m)
        /\ status.fingerprint.phase = "Member" /\ (reading # None => reading.ann.phase = "Member")
        /\ \A s \in Sites : site[s].applied = status.revision
        /\ reading # None => \A s \in Sites : reading.site[s].applied = status.revision
    BY <1>1, ReadyCalm, Zenon
  <1>4. \A m \in Members : m \in cluster.up
    BY <1>3, Zenon DEF Calm
  <1>5. upgrade'[u].phase # "Completed"
    BY <1>1, ActiveLemma
  <1>6. ann.switched /\ ~history.abandoned /\ ~history.failover => cluster.leader \in upgraded
    BY Zenon DEF OrderInv, LeaderInv
  <1>7. CASE /\ ~ann.switched
             /\ ann' = [ann EXCEPT !.phase = "Switchover", !.members = upgraded,
                          !.from = status.primary, !.candidate = ann.member,
                          !.revision = status.revision + 1]
             /\ UNCHANGED spec
    <2>. HIDE DEF next
    <2>1. /\ ann'.owner = u /\ ann'.phase = "Switchover" /\ ann'.member = ann.member
          /\ ann'.members = upgraded /\ ann'.candidate = ann.member /\ ~ann'.switched
      BY <1>1, <1>2, <1>7 DEF Anns
    <2>2. ~Released'
      BY <1>1, <1>5, <2>1, Zenon DEF Released
    <2>3. ASSUME NEW m \in Members PROVE Wanted(ann', spec', m) = Wanted(ann, spec, m)
      BY <1>1, <1>7, <2>1 DEF Wanted
    <2>4. ASSUME ~history.abandoned, ~history.failover, NEW m \in upgraded, m # cluster.leader
          PROVE  Unseen(m)
      <3>1. SeenInv
        BY <2>4, Zenon DEF OrderInv, LeaderInv
      <3>2. status.ready
        BY <1>1, Zenon DEF instanceReadyForOperation
      <3>. QED
        BY <1>3, <2>4, <3>1, <3>2, Zenon DEF SeenInv, Unseen
    <2>5. /\ ann'.members \subseteq cluster.up /\ ann'.member \in ann'.members
          /\ ann.members \subseteq ann'.members
      BY <1>2, <1>4, <2>1, Zenon
    <2>6. \A m \in Members \ {} : Calm(m) /\ Wanted(ann', spec', m) = Wanted(ann, spec, m)
      BY <1>3, <2>3
    <2>. HIDE DEF upgraded
    <2>7. {} \in SUBSET Members /\ cluster.leader \notin {}
      OBVIOUS
    <2>8. ~history.abandoned /\ ~history.failover =>
            (cluster.leader \notin ann'.members => \A m \in ann'.members : Unseen(m))
      BY <2>1, <2>4, Zenon
    <2>. QED
      BY <1>1, <1>5, <2>1, <2>2, <2>5, <2>6, <2>7, <2>8, PatchOrder, Zenon
  <1>8. CASE /\ ann.switched /\ next # None /\ UNCHANGED spec
             /\ ann' = [ann EXCEPT !.member = next, !.members = upgraded,
                          !.revision = status.revision + 1]
    <2>1. next \in Members /\ next \notin upgraded
      BY <1>2, <1>8, SelectedLemma
    <2>. HIDE DEF next
    <2>2. /\ ann'.owner = u /\ ann'.phase = "Member" /\ ann'.member = next
          /\ ann'.members = upgraded
      BY <1>1, <1>2, <1>8 DEF Anns
    <2>3. ~Released'
      BY <1>1, <1>5, <2>2, Zenon DEF Released
    <2>4. ASSUME NEW m \in Members \ {next} PROVE Wanted(ann', spec', m) = Wanted(ann, spec, m)
      BY <1>1, <1>8, <2>2 DEF Wanted
    <2>5. /\ ann'.members \subseteq cluster.up /\ ann.members \subseteq ann'.members
          /\ {next} \in SUBSET Members
      BY <1>2, <1>4, <2>1, <2>2, Zenon
    <2>6. \A m \in Members \ {next} : Calm(m) /\ Wanted(ann', spec', m) = Wanted(ann, spec, m)
      BY <1>3, <2>4
    <2>7. ~history.abandoned /\ ~history.failover =>
            cluster.leader \notin {next} /\ cluster.leader \in ann'.members
      BY <1>6, <1>8, <2>1, <2>2, Zenon
    <2>. HIDE DEF upgraded
    <2>. QED
      BY <1>1, <1>5, <2>1, <2>2, <2>3, <2>5, <2>6, <2>7, PatchOrder, Zenon
  <1>9. CASE /\ ann.switched /\ next = None
             /\ ann' = [ann EXCEPT !.phase = "Finalize", !.revision = status.revision + 1]
             /\ spec' = [image |-> Target[u], generation |-> spec.generation + 1]
    <2>1. Members \subseteq upgraded \cup {status.primary}
      BY <1>2, <1>9, NoneSelectedLemma
    <2>. HIDE DEF next
    <2>2. /\ ann'.owner = u /\ ann'.phase = "Finalize" /\ ann'.member = ann.member
          /\ ann'.members = ann.members /\ spec'.image = Target[u]
      BY <1>1, <1>2, <1>9 DEF Anns
    <2>3. ~Released'
      BY <1>1, <1>5, <2>2, Zenon DEF Released
    <2>4. status.primary \in Members
      BY <1>1, Zenon DEF IInv, Types, Statuses, instanceReadyForOperation
    <2>. DEFINE W == {status.primary} \ upgraded
    <2>5. ASSUME NEW m \in Members \ W PROVE Wanted(ann', spec', m) = Wanted(ann, spec, m)
      BY <1>1, <2>1, <2>2, Zenon DEF Wanted
    <2>6. /\ ann'.members \subseteq cluster.up /\ ann.members \subseteq ann'.members
          /\ W \in SUBSET Members /\ (W = {} \/ \E w \in Members : W = {w})
      BY <1>2, <1>4, <2>2, <2>4, Zenon
    <2>7. \A m \in Members \ W : Calm(m) /\ Wanted(ann', spec', m) = Wanted(ann, spec, m)
      BY <1>3, <2>5, Zenon
    <2>8. ~history.abandoned /\ ~history.failover =>
            cluster.leader \notin W /\ cluster.leader \in ann'.members
      <3>1. ~history.abandoned /\ ~history.failover => cluster.leader \in ann.members
        BY <1>9, Zenon DEF OrderInv, LeaderInv
      <3>. QED
        BY <2>2, <3>1
    <2>. HIDE DEF upgraded, W
    <2>. QED
      BY <1>1, <1>5, <2>2, <2>3, <2>6, <2>7, <2>8, PatchOrder, Zenon
  <1>. QED
    BY <1>7, <1>8, <1>9, Zenon DEF MemberVerified

LEMMA SwitchoverOrder ==
    ASSUME IInv, OrderInv, NEW u \in Upgrades, Unfinished(u), SwitchoverVerified(u)
    PROVE  OrderInv'
  <1>. DEFINE next == selectUpgradeCandidate(ann.members)
  <1>1. /\ ann' = [ann EXCEPT !.phase = "Member", !.member = next, !.switched = TRUE,
                     !.revision = status.revision + 1]
        /\ ann.owner = u /\ u # None /\ ann.phase = "Switchover" /\ next # None
        /\ status.primary = ann.candidate /\ setUpgradePhase(u, "active")
        /\ UNCHANGED <<spec, status, plan, site, cluster, reading, history>>
    BY Constants DEF SwitchoverVerified, Owner, Untouched
  <1>2. ann \in Anns /\ ann.candidate \in ann.members /\ ann.member \in ann.members
        /\ ann.members \subseteq cluster.up
    BY <1>1, Zenon DEF IInv, Types, OrderInv, SwitchInv
  <1>3. next \in Members /\ next \notin ann.members
    BY <1>1, <1>2, SelectedLemma
  <1>. HIDE DEF next
  <1>4. /\ ann'.owner = u /\ ann'.phase = "Member" /\ ann'.member = next
        /\ ann'.members = ann.members
    BY <1>1, <1>2 DEF Anns
  <1>5. upgrade'[u].phase # "Completed"
    BY <1>1, ActiveLemma
  <1>6. ~Released'
    BY <1>1, <1>4, <1>5, Zenon DEF Released
  <1>7. ASSUME ~history.abandoned, NEW m \in Members \ {next}
        PROVE  Calm(m) /\ Wanted(ann', spec', m) = Wanted(ann, spec, m)
    <2>1. Calm(m)
      BY <1>1, <1>7, Zenon DEF OrderInv, CalmInv
    <2>2. m \in ann'.members \cup {ann'.member} <=> m \in ann.members \cup {ann.member}
      BY <1>2, <1>4
    <2>3. Wanted(ann', spec', m) = Wanted(ann, spec, m)
      BY <1>1, <1>4, <2>2 DEF Wanted
    <2>. QED
      BY <2>1, <2>3
  <1>8. ~history.abandoned /\ ~history.failover => cluster.leader \in ann.members
    <2>1. ~Unseen(ann.candidate)
      BY <1>1, Zenon DEF Unseen
    <2>. QED
      BY <1>1, <1>2, <2>1, Zenon DEF OrderInv, LeaderInv
  <1>9. /\ {next} \in SUBSET Members /\ ann'.members \subseteq cluster.up
        /\ ann.members \subseteq ann'.members
        /\ cluster.leader \in ann.members => cluster.leader \notin {next}
    BY <1>2, <1>3, <1>4
  <1>. QED
    BY <1>1, <1>3, <1>4, <1>5, <1>6, <1>7, <1>8, <1>9, PatchOrder, Zenon

\* Giving the instance back disturbs nobody.
LEMMA ClearOrder ==
    ASSUME IInv, OrderInv, ann' = NoOwner, ann.owner # None, ann.phase = "Finalize",
           UNCHANGED <<spec, status, plan, site, cluster, reading, history>>,
           ~history.abandoned =>
              /\ \A m \in Members : Calm(m)
              /\ status.fingerprint.phase # "Switchover"
              /\ reading # None => reading.ann.phase # "Switchover"
    PROVE  OrderInv'
  <1>1. /\ ann'.owner = None /\ ann'.phase = "none" /\ ann'.members = {} /\ ann'.switched = FALSE
    BY Zenon DEF NoOwner
  <1>2. spec.image = Target[ann.owner]
    BY DEF IInv, GenerationInv
  <1>3. \A m \in Members : Wanted(ann', spec', m) = Wanted(ann, spec, m)
    BY <1>1, <1>2, Zenon DEF Wanted
  <1>4. /\ {} \in SUBSET Members /\ cluster.leader \notin {} /\ ann'.members \subseteq cluster.up
        /\ ann'.phase # "Switchover" /\ ~ann'.switched
        /\ ~history.abandoned =>
              \A m \in Members \ {} : Calm(m) /\ Wanted(ann', spec', m) = Wanted(ann, spec, m)
    BY <1>1, <1>3
  <1>. QED
    BY <1>1, <1>4, PatchOrder, Zenon

LEMMA FinalizeOrder ==
    ASSUME IInv, OrderInv, NEW u \in Upgrades, Finalize(u)
    PROVE  OrderInv'
  <1>1. /\ ann.owner = u /\ ann.owner # None /\ ann.phase = "Finalize" /\ instanceReadyForOperation
        /\ UNCHANGED <<spec, status, plan, site, cluster, reading, history>>
        /\ ann' = NoOwner \/ ann' = ann
    BY Constants, Zenon DEF Finalize, Owner, Untouched, clearUpgradeAnnotations
  <1>2. /\ \A m \in Members : Calm(m)
        /\ status.fingerprint.phase = "Finalize"
        /\ reading # None => reading.ann.phase = "Finalize"
    BY <1>1, ReadyCalm
  <1>3. CASE ann' = NoOwner
    BY <1>1, <1>2, <1>3, ClearOrder, Zenon
  <1>4. CASE ann' = ann
    <2>1. /\ ann.members \subseteq cluster.up
          /\ ~history.abandoned /\ ~history.failover =>
                (ann.switched => cluster.leader \in ann.members)
      BY Zenon DEF OrderInv, SwitchInv, LeaderInv
    <2>2. /\ {} \in SUBSET Members /\ cluster.leader \notin {}
          /\ \A m \in Members \ {} : Calm(m) /\ Wanted(ann', spec', m) = Wanted(ann, spec, m)
      BY <1>1, <1>2, <1>4
    <2>. QED
      BY <1>1, <1>2, <1>4, <2>1, <2>2, PatchOrder, Zenon
  <1>. QED
    BY <1>1, <1>3, <1>4

LEMMA ReconcileUpgradeOrder ==
    ASSUME IInv, OrderInv, NEW u \in Upgrades, ReconcileUpgrade(u)
    PROVE  OrderInv'
  <1>0. /\ upgrade \in [Upgrades -> [phase: {"absent", "", "active", "Completed", "removed"},
                                     deleting: BOOLEAN]]
        /\ Unfinished(u)
    BY Zenon DEF IInv, Types, ReconcileUpgrade
  <1>1. CASE CompleteAtOnce(u)
    BY <1>1, QuietOrder, Zenon DEF CompleteAtOnce, Untouched
  <1>2. CASE Wait(u)
    <2>1. /\ upgrade' = [upgrade EXCEPT ![u].phase = "active"]
          /\ UNCHANGED <<ann, spec, status, plan, site, cluster, reading, history>>
      BY <1>2, Zenon DEF Wait, Untouched
    <2>2. ASSUME ann.owner # None, upgrade'[ann.owner].phase = "Completed"
          PROVE  upgrade[ann.owner].phase = "Completed"
      <3>1. ann.owner \in Upgrades
        BY <2>2, Zenon DEF IInv, Types, Anns
      <3>. QED
        BY <1>0, <2>1, <2>2, <3>1, Zenon
    <2>. QED
      BY <2>1, <2>2, QuietOrder, Zenon
  <1>. QED
    BY <1>0, <1>1, <1>2, BeginOrder, MemberOrder, SwitchoverOrder, FinalizeOrder, Zenon
       DEF ReconcileUpgrade

LEMMA OtherUpgradeOrder ==
    ASSUME IInv, OrderInv, NEW u \in Upgrades,
           \/ reconcileTerminalUpgrade(u) \/ reconcileUpgradeDeletion(u)
           \/ CreateUpgrade(u) \/ DeleteUpgrade(u) \/ ForceAbandon(u)
    PROVE  OrderInv'
  <1>0. /\ upgrade \in [Upgrades -> [phase: {"absent", "", "active", "Completed", "removed"},
                                     deleting: BOOLEAN]]
        /\ ann.owner # None => ann.owner \in Upgrades
    BY Zenon DEF IInv, Types, Anns
  <1>1. CASE reconcileTerminalUpgrade(u)
    <2>1. /\ ann' = NoOwner /\ ann.owner = u /\ ann.owner # None /\ upgrade[u].phase = "Completed"
          /\ UNCHANGED <<spec, status, plan, site, cluster, reading, history>>
      BY <1>1, Constants DEF reconcileTerminalUpgrade, clearUpgradeAnnotations, Owner, Untouched
    <2>2. Released /\ ann.phase = "Finalize"
      BY <2>1, Zenon DEF OrderInv, SwitchInv, Released
    <2>3. ~history.abandoned =>
              /\ \A m \in Members : Calm(m)
              /\ status.fingerprint.phase # "Switchover"
              /\ reading # None => reading.ann.phase # "Switchover"
      BY <2>2, Zenon DEF OrderInv, CalmInv, SwitchInv
    <2>. QED
      BY <2>1, <2>2, <2>3, ClearOrder, Zenon
  <1>2. ASSUME UNCHANGED <<ann, spec, status, plan, site, cluster, reading, history>>,
               \/ upgrade' = [upgrade EXCEPT ![u] = [phase |-> "removed", deleting |-> TRUE]]
               \/ upgrade' = [upgrade EXCEPT ![u].phase = ""]
               \/ upgrade' = [upgrade EXCEPT ![u].deleting = TRUE]
        PROVE  OrderInv'
    <2>1. ASSUME NEW v \in Upgrades, upgrade'[v].phase = "Completed"
          PROVE  upgrade[v].phase = "Completed"
      <3>1. CASE upgrade' = [upgrade EXCEPT ![u] = [phase |-> "removed", deleting |-> TRUE]]
        BY <1>0, <2>1, <3>1, Zenon
      <3>2. CASE upgrade' = [upgrade EXCEPT ![u].phase = ""]
        BY <1>0, <2>1, <3>2, Zenon
      <3>3. CASE upgrade' = [upgrade EXCEPT ![u].deleting = TRUE]
        BY <1>0, <2>1, <3>3, Zenon
      <3>. QED
        BY <1>2, <3>1, <3>2, <3>3, Zenon
    <2>. QED
      BY <1>0, <1>2, <2>1, QuietOrder, Zenon
  <1>3. CASE reconcileUpgradeDeletion(u) \/ CreateUpgrade(u) \/ DeleteUpgrade(u)
    BY <1>2, <1>3, Zenon DEF reconcileUpgradeDeletion, CreateUpgrade, DeleteUpgrade, Untouched
  <1>4. CASE ForceAbandon(u)
    <2>1. /\ ann' = NoOwner /\ history' = [history EXCEPT !.abandoned = TRUE]
          /\ UNCHANGED <<spec, status, plan, site, cluster, reading>>
      BY <1>4 DEF ForceAbandon, clearUpgradeAnnotations
    <2>2. ann'.owner = None /\ ann'.phase = "none" /\ ann'.members = {}
      BY <2>1, Zenon DEF NoOwner
    <2>3. history'.abandoned /\ history' \in [failover: BOOLEAN, abandoned: BOOLEAN]
      BY <2>1, Zenon DEF OrderInv
    <2>4. ReadyInv' /\ SwitchInv'
      BY <2>1, <2>2, <2>3, Zenon DEF OrderInv, ReadyInv, SwitchInv, Candidates
    <2>. QED
      BY <2>3, <2>4, Zenon DEF OrderInv, CalmInv, LeaderInv
  <1>. QED
    BY <1>1, <1>3, <1>4

-----------------------------------------------------------------------------
\* The sites and Patroni: a member at rest stays so as long as it is up and its
\* image, its plan and the hub's records are the same.
LEMMA CalmFrame ==
    ASSUME UNCHANGED <<ann, spec, plan, reading>>, NEW m \in Members, Calm(m),
           m \in cluster'.up, cluster'.image[m] = cluster.image[m],
           site'[SiteOf[m]].plan = site[SiteOf[m]].plan \/ site'[SiteOf[m]].plan = plan
    PROVE  Calm(m)'
  <1>1. postgresMemberImage(site'[SiteOf[m]].plan, m) = cluster.image[m]
    BY Zenon DEF Calm
  <1>. QED
    BY <1>1, Zenon DEF Calm, Wanted, postgresMemberImage

LEMMA ReceiveOrder ==
    ASSUME IInv, OrderInv, NEW s \in Sites, ReceivePlan(s)
    PROVE  OrderInv'
  <1>1. /\ site' = [site EXCEPT ![s].plan = plan] /\ site \in [Sites -> SiteStates]
        /\ UNCHANGED <<upgrade, ann, spec, status, plan, cluster, reading, history>>
    BY Zenon DEF ReceivePlan, hub, IInv, Types
  <1>2. \A t \in Sites : /\ site'[t].plan = site[t].plan \/ site'[t].plan = plan
                         /\ site'[t].applied = site[t].applied /\ site'[t].seen = site[t].seen
    BY <1>1 DEF SiteStates
  <1>3. Released' <=> Released
    BY <1>1, Zenon DEF Released
  <1>4. ASSUME NEW m \in Members, Calm(m) PROVE Calm(m)'
    <2>1. SiteOf[m] \in Sites /\ m \in cluster.up
      BY <1>4, Constants DEF Calm
    <2>. QED
      BY <1>1, <1>2, <1>4, <2>1, CalmFrame, Zenon
  <1>5. ReadyInv' /\ SwitchInv'
    BY <1>1, <1>2, <1>3, Zenon DEF OrderInv, ReadyInv, SwitchInv, Candidates
  <1>6. CalmInv'
    BY <1>1, <1>3, <1>4, Zenon DEF OrderInv, CalmInv
  <1>7. (SeenInv => SeenInv') /\ \A m : Unseen(m) => Unseen(m)'
    <2>1. SeenInv => SeenInv'
      BY <1>1, <1>2, Zenon DEF SeenInv
    <2>2. \A m : Unseen(m) => Unseen(m)'
      BY <1>1, <1>2, Zenon DEF Unseen
    <2>. QED
      BY <2>1, <2>2, Zenon
  <1>8. LeaderInv'
    BY <1>1, <1>4, <1>7, Zenon DEF OrderInv, LeaderInv
  <1>. QED
    BY <1>1, <1>5, <1>6, <1>8, Zenon DEF OrderInv

LEMMA ExpireOrder ==
    ASSUME IInv, OrderInv, NEW s \in Sites, Expire(s)
    PROVE  OrderInv'
  <1>1. /\ site' = [site EXCEPT ![s].seen = None] /\ site \in [Sites -> SiteStates]
        /\ UNCHANGED <<upgrade, ann, spec, status, plan, cluster, reading, history>>
    BY Zenon DEF Expire, hub, IInv, Types
  <1>2. \A t \in Sites : /\ site'[t].plan = site[t].plan /\ site'[t].applied = site[t].applied
                         /\ site'[t].seen = site[t].seen \/ site'[t].seen = None
    BY <1>1 DEF SiteStates
  <1>3. Released' <=> Released
    BY <1>1, Zenon DEF Released
  <1>4. ASSUME NEW m \in Members, Calm(m) PROVE Calm(m)'
    <2>1. SiteOf[m] \in Sites /\ m \in cluster.up
      BY <1>4, Constants DEF Calm
    <2>. QED
      BY <1>1, <1>2, <1>4, <2>1, CalmFrame, Zenon
  <1>5. ReadyInv' /\ SwitchInv'
    BY <1>1, <1>2, <1>3, Zenon DEF OrderInv, ReadyInv, SwitchInv, Candidates
  <1>6. CalmInv'
    BY <1>1, <1>3, <1>4, Zenon DEF OrderInv, CalmInv
  <1>7. (SeenInv => SeenInv') /\ \A m : Unseen(m) => Unseen(m)'
    <2>1. SeenInv => SeenInv'
      BY <1>1, <1>2, Zenon DEF SeenInv
    <2>2. \A m : Unseen(m) => Unseen(m)'
      BY <1>1, <1>2, Zenon DEF Unseen
    <2>. QED
      BY <2>1, <2>2, Zenon
  <1>8. LeaderInv'
    BY <1>1, <1>4, <1>7, Zenon DEF OrderInv, LeaderInv
  <1>. QED
    BY <1>1, <1>5, <1>6, <1>8, Zenon DEF OrderInv

\* A site that reports what it converged to, and moves the leader, if at all, to
\* a verified member.
LEMMA ReconcileSiteOrder ==
    ASSUME IInv, OrderInv, OldPlanInv, NEW s \in Sites, ReconcileSite(s)
    PROVE  OrderInv'
  <1>. DEFINE p == site[s].plan
              outcome == reconcileUpgradeAction(p, s)
              applied == IF outcome = "error" THEN site[s].applied ELSE p.revision
  <1>1. /\ cluster \in Clusters /\ site \in [Sites -> SiteStates] /\ status.revision \in Nat
        /\ \A t \in Sites : site[t].applied \in Nat /\ site[t].plan.revision \in Nat
    BY Zenon DEF IInv, Types, SiteStates, Plans, Statuses
  <1>2. /\ site' = IF p.revision = status.revision
                   THEN [site EXCEPT ![s].applied = applied, ![s].seen = Observed]
                   ELSE site
        /\ UNCHANGED <<upgrade, ann, spec, status, plan, reading, history>>
    BY Zenon DEF ReconcileSite, hub
  <1>3. /\ cluster'.image = cluster.image /\ cluster'.up = cluster.up
        /\ \/ cluster'.leader = cluster.leader
           \/ cluster'.leader = p.candidate /\ p.candidate \notin {None, cluster.leader}
    <2>1. CASE outcome = "switch"
      <3>1. PICK sync : cluster' = [cluster EXCEPT !.leader = p.candidate, !.sync = sync]
        BY <2>1, Zenon DEF ReconcileSite
      <3>2. p.candidate \notin {None, cluster.leader}
        BY <2>1 DEF reconcileUpgradeAction
      <3>. QED
        BY <1>1, <3>1, <3>2 DEF Clusters
    <2>2. CASE outcome # "switch"
      BY <2>2 DEF ReconcileSite
    <2>. QED
      BY <2>1, <2>2
  <1>4. /\ \A t \in Sites : site'[t].plan = site[t].plan
        /\ \A t \in Sites \ {s} : site'[t].applied = site[t].applied /\ site'[t].seen = site[t].seen
        /\ \/ site'[s].applied = site[s].applied /\ site'[s].seen = site[s].seen
           \/ /\ site'[s].applied \in {site[s].applied, status.revision}
              /\ site'[s].seen = Observed
    <2>1. CASE p.revision = status.revision
      <3>1. applied \in {site[s].applied, status.revision}
        BY <2>1
      <3>2. site' = [site EXCEPT ![s].applied = applied, ![s].seen = Observed]
        BY <1>2, <2>1
      <3>. HIDE DEF applied, outcome, p
      <3>. QED
        BY <1>1, <3>1, <3>2 DEF SiteStates
    <2>2. CASE p.revision # status.revision
      BY <1>2, <2>2
    <2>. QED
      BY <2>1, <2>2
  <1>. HIDE DEF applied, outcome
  <1>5. Released' <=> Released
    BY <1>2, Zenon DEF Released
  <1>6. ASSUME NEW m \in Members, Calm(m) PROVE Calm(m)'
    <2>1. SiteOf[m] \in Sites /\ m \in cluster.up
      BY <1>6, Constants DEF Calm
    <2>. QED
      BY <1>2, <1>3, <1>4, <1>6, <2>1, CalmFrame, Zenon
  <1>7. ReadyInv'
    <2>1. ASSUME NEW t \in Sites
          PROVE  /\ site[t].applied = status.revision => site'[t].applied = status.revision
                 /\ reading # None => reading.site[t].applied <= site'[t].applied
      <3>1. site'[t].applied \in {site[t].applied, status.revision}
        BY <1>4
      <3>2. reading # None => /\ reading.site[t].applied <= site[t].applied
                              /\ reading.site[t].applied <= status.revision
        BY Zenon DEF IInv, RevisionInv, OrderInv, ReadyInv
      <3>. QED
        BY <3>1, <3>2, Zenon
    <2>. QED
      BY <1>2, <2>1, Zenon DEF OrderInv, ReadyInv
  <1>8. SwitchInv'
    BY <1>2, <1>3, <1>4, <1>5, Zenon DEF OrderInv, SwitchInv, Candidates
  <1>9. CalmInv'
    BY <1>2, <1>5, <1>6, Zenon DEF OrderInv, CalmInv
  <1>10. LeaderInv'
    <2>. SUFFICES ASSUME ~history.abandoned, ~history.failover
         PROVE  /\ \E m \in Members : cluster'.leader = m /\ Calm(m)'
                /\ SeenInv'
                /\ ann.switched => cluster'.leader \in ann.members
                /\ ann.phase = "Switchover" /\ cluster'.leader \notin ann.members =>
                      \A m \in ann.members : Unseen(m)'
      BY <1>2, Zenon DEF LeaderInv
    <2>1. CASE cluster'.leader = cluster.leader
      <3>1. /\ \E m \in Members : cluster.leader = m /\ Calm(m)
            /\ SeenInv
            /\ ann.switched => cluster.leader \in ann.members
            /\ ann.phase = "Switchover" /\ cluster.leader \notin ann.members =>
                  \A m \in ann.members : Unseen(m)
        BY Zenon DEF OrderInv, LeaderInv
      <3>2. Observed.primary = cluster.leader
        BY DEF Observed
      <3>3. SeenInv'
        BY <1>2, <1>4, <2>1, <3>1, <3>2, Zenon DEF SeenInv
      <3>4. \A m : Unseen(m) /\ m # cluster.leader => Unseen(m)'
        BY <1>2, <1>4, <3>2, Zenon DEF Unseen
      <3>. QED
        BY <1>6, <2>1, <3>1, <3>3, <3>4, Zenon
    <2>2. CASE cluster'.leader = p.candidate /\ p.candidate \notin {None, cluster.leader}
      <3>2. status.fingerprint.phase = "Switchover" /\ p.candidate \in status.fingerprint.members
        BY <2>2 DEF OldPlanInv, HeldPlans
      <3>3. p.candidate \in ann.members
        BY <3>2, Zenon DEF OrderInv, SwitchInv
      <3>4. p.candidate \in Members
        BY <3>3, Zenon DEF IInv, Types, Anns
      <3>5. Calm(p.candidate)
        BY <3>3, VerifiedCalm, Zenon
      <3>. DEFINE c == p.candidate
      <3>6. c \in Members /\ Calm(c) /\ c \in ann.members /\ cluster'.leader = c
        BY <2>2, <3>3, <3>4, <3>5, Zenon
      <3>. HIDE DEF c
      <3>7. PICK m \in Members : m = c /\ Calm(m)
        BY <3>6, Zenon
      <3>8. SeenInv'
        BY <1>2, <3>2, Zenon DEF SeenInv
      <3>. QED
        BY <1>6, <3>6, <3>7, <3>8, Zenon
    <2>. QED
      BY <1>3, <2>1, <2>2
  <1>. QED
    BY <1>2, <1>7, <1>8, <1>9, <1>10, Zenon DEF OrderInv

\* Only a member that is not at rest is replaced, so the one that is.
LEMMA RollDownOrder ==
    ASSUME IInv, OrderInv, NEW m \in Members, RollDown(m)
    PROVE  OrderInv'
  <1>. DEFINE image == postgresMemberImage(site[SiteOf[m]].plan, m)
              up == cluster.up \ {m}
              leader == IF cluster.leader = m THEN None ELSE cluster.leader
  <1>1. /\ cluster.image[m] # image
        /\ UNCHANGED <<upgrade, ann, spec, status, plan, site, reading, history>>
        /\ \E sync : cluster' = [leader |-> leader, sync |-> sync, up |-> up,
                                 image |-> [cluster.image EXCEPT ![m] = image]]
    BY Zenon DEF RollDown, hub
  <1>2. cluster.image \in [Members -> Images]
    BY Zenon DEF IInv, Types, Clusters
  <1>3. /\ \A n \in Members \ {m} : /\ cluster'.image[n] = cluster.image[n]
                                    /\ n \in cluster.up => n \in cluster'.up
        /\ cluster.leader # m => cluster'.leader = cluster.leader
        /\ cluster'.up = cluster.up \ {m}
    <2>. HIDE DEF image
    <2>. QED
      BY <1>1, <1>2
  <1>4. ~Calm(m)
    BY <1>1, Zenon DEF Calm
  <1>. HIDE DEF image, up, leader
  <1>5. Released' <=> Released
    BY <1>1, Zenon DEF Released
  <1>6. ASSUME NEW n \in Members, Calm(n) PROVE Calm(n)'
    <2>1. n \in Members \ {m} /\ n \in cluster.up /\ SiteOf[n] \in Sites
      BY <1>4, <1>6, Constants DEF Calm
    <2>. QED
      BY <1>1, <1>3, <1>6, <2>1, CalmFrame, Zenon
  <1>7. ReadyInv'
    BY <1>1, Zenon DEF OrderInv, ReadyInv
  <1>8. SwitchInv'
    <2>1. m \notin ann.members
      BY <1>4, VerifiedCalm
    <2>2. ann.members \subseteq cluster.up
      BY Zenon DEF OrderInv, SwitchInv
    <2>3. ann.members \subseteq cluster'.up
      BY <1>3, <2>1, <2>2
    <2>. QED
      BY <1>1, <1>5, <2>3, Zenon DEF OrderInv, SwitchInv, Candidates
  <1>9. CalmInv'
    BY <1>1, <1>5, <1>6, Zenon DEF OrderInv, CalmInv
  <1>10. LeaderInv'
    <2>. SUFFICES ASSUME ~history.abandoned, ~history.failover
         PROVE  LeaderInv'
      BY <1>1, Zenon DEF LeaderInv
    <2>1. LeaderInv
      BY DEF OrderInv
    <2>2. cluster.leader # m
      BY <1>4, <2>1, Zenon DEF LeaderInv
    <2>3. cluster'.leader = cluster.leader
      BY <1>3, <2>2
    <2>4. (SeenInv => SeenInv') /\ \A n : Unseen(n) => Unseen(n)'
      BY <1>1, <2>3, Zenon DEF SeenInv, Unseen
    <2>. QED
      BY <1>1, <1>6, <2>1, <2>3, <2>4, Zenon DEF LeaderInv
  <1>. QED
    BY <1>1, <1>7, <1>8, <1>9, <1>10, Zenon DEF OrderInv

\* A pod that comes back; a new leader where there was none, or a failover.
LEMMA PatroniOrder ==
    ASSUME IInv, OrderInv, Promote \/ Failover \/ \E m \in Members : RollUp(m)
    PROVE  OrderInv'
  <1>0. cluster \in Clusters
    BY Zenon DEF IInv, Types
  <1>1. ASSUME UNCHANGED <<upgrade, ann, spec, status, plan, site, reading>>,
               cluster'.image = cluster.image, cluster.up \subseteq cluster'.up,
               history' \in [failover: BOOLEAN, abandoned: BOOLEAN],
               history'.abandoned <=> history.abandoned,
               \/ cluster'.leader = cluster.leader /\ (history'.failover <=> history.failover)
               \/ history'.failover
               \/ cluster.leader = None /\ (history'.failover <=> history.failover)
        PROVE  OrderInv'
    <2>1. Released' <=> Released
      BY <1>1, Zenon DEF Released
    <2>2. ASSUME NEW n \in Members, Calm(n) PROVE Calm(n)'
      <3>1. n \in cluster'.up /\ SiteOf[n] \in Sites
        BY <1>1, <2>2, Constants DEF Calm
      <3>. QED
        BY <1>1, <2>2, <3>1, CalmFrame, Zenon
    <2>3. ReadyInv'
      BY <1>1, Zenon DEF OrderInv, ReadyInv
    <2>4. SwitchInv'
      <3>1. ann.members \subseteq cluster'.up
        BY <1>1 DEF OrderInv, SwitchInv
      <3>. QED
        BY <1>1, <2>1, <3>1, Zenon DEF OrderInv, SwitchInv, Candidates
    <2>5. CalmInv'
      BY <1>1, <2>1, <2>2, Zenon DEF OrderInv, CalmInv
    <2>6. LeaderInv'
      <3>. SUFFICES ASSUME ~history'.abandoned, ~history'.failover
           PROVE  LeaderInv'
        BY Zenon DEF LeaderInv
      <3>1. ~history.abandoned /\ ~history.failover /\ LeaderInv
        BY <1>1, Zenon DEF OrderInv
      <3>2. cluster.leader # None
        BY <3>1, Constants, Zenon DEF LeaderInv
      <3>3. cluster'.leader = cluster.leader
        BY <1>1, <3>2, Zenon
      <3>4. (SeenInv => SeenInv') /\ \A n : Unseen(n) => Unseen(n)'
        BY <1>1, <3>3, Zenon DEF SeenInv, Unseen
      <3>. QED
        BY <1>1, <2>2, <3>1, <3>3, <3>4, Zenon DEF LeaderInv
    <2>. QED
      BY <1>1, <2>3, <2>4, <2>5, <2>6, Zenon DEF OrderInv
  <1>2. history \in [failover: BOOLEAN, abandoned: BOOLEAN]
    BY DEF OrderInv
  <1>3. ASSUME NEW m \in Members, RollUp(m) PROVE OrderInv'
    <2>1. /\ cluster' = [cluster EXCEPT !.up = @ \cup {m},
                           !.sync = IF @ = None /\ cluster.leader # None THEN m ELSE @]
          /\ UNCHANGED <<upgrade, ann, spec, status, plan, site, reading, history>>
      BY <1>3, Zenon DEF RollUp, hub
    <2>2. /\ cluster'.image = cluster.image /\ cluster.up \subseteq cluster'.up
          /\ cluster'.leader = cluster.leader
      BY <1>0, <2>1, Zenon DEF Clusters
    <2>. QED
      BY <1>1, <1>2, <2>1, <2>2, Zenon
  <1>4. CASE Promote
    <2>1. /\ cluster.leader = None
          /\ UNCHANGED <<upgrade, ann, spec, status, plan, site, reading, history>>
          /\ \E m, sync : cluster' = [cluster EXCEPT !.leader = m, !.sync = sync]
      BY <1>4, Zenon DEF Promote, hub
    <2>2. cluster'.image = cluster.image /\ cluster.up \subseteq cluster'.up
      BY <1>0, <2>1, Zenon DEF Clusters
    <2>. QED
      BY <1>1, <1>2, <2>1, <2>2, Zenon
  <1>5. CASE Failover
    <2>1. /\ cluster' = [cluster EXCEPT !.leader = cluster.sync, !.sync = cluster.leader]
          /\ history' = [history EXCEPT !.failover = TRUE]
          /\ UNCHANGED <<upgrade, ann, spec, status, plan, site, reading>>
      BY <1>5 DEF Failover, hub
    <2>2. cluster'.image = cluster.image /\ cluster.up \subseteq cluster'.up
      BY <1>0, <2>1, Zenon DEF Clusters
    <2>3. /\ history' \in [failover: BOOLEAN, abandoned: BOOLEAN] /\ history'.failover
          /\ history'.abandoned <=> history.abandoned
      BY <1>2, <2>1, Zenon
    <2>. QED
      BY <1>1, <2>1, <2>2, <2>3, Zenon
  <1>. QED
    BY <1>3, <1>4, <1>5

-----------------------------------------------------------------------------
\* What the sites still hold of earlier switchovers.
LEMMA OldInit == Init => OldPlanInv
  <1>. SUFFICES ASSUME Init PROVE OldPlanInv
    OBVIOUS
  <1>1. ann.phase = "none" /\ ann.members = {} /\ reading = None
    BY DEF Init, NoOwner
  <1>2. plan.candidate = None /\ \A s \in Sites : site[s].plan.candidate = None
    BY DEF Init, upgradePlans, NoOwner
  <1>3. status.fingerprint.phase = "none"
    BY DEF Init, Fingerprint, NoOwner
  <1>. QED
    BY <1>1, <1>2, <1>3 DEF OldPlanInv, FirstMember, HeldPlans, FreshSwitchover, MovedOn

\* A step that leaves the plans, the annotations and, without a failover, the
\* leader alone.
LEMMA QuietOld ==
    ASSUME OldPlanInv, UNCHANGED <<ann, status, reading>>,
           \A s \in Sites : site'[s].plan = site[s].plan,
           ~history'.abandoned /\ ~history'.failover =>
              ~history.abandoned /\ ~history.failover /\ cluster'.leader = cluster.leader
    PROVE  OldPlanInv'
  BY Zenon DEF OldPlanInv, FirstMember, HeldPlans, FreshSwitchover, MovedOn

\* A patch outside the switchover.
LEMMA PatchOld ==
    ASSUME OldPlanInv, UNCHANGED <<status, site, cluster, reading, history>>, FirstMember',
           ann.phase # "Switchover", ann'.phase # "Switchover"
    PROVE  OldPlanInv'
  BY Zenon DEF OldPlanInv, HeldPlans, FreshSwitchover, MovedOn

LEMMA ReadOld ==
    ASSUME IInv, OrderInv, OldPlanInv, ReadInstance
    PROVE  OldPlanInv'
  <1>1. /\ reading = None /\ reading' = Current
        /\ UNCHANGED <<ann, status, site, cluster, history>>
    BY DEF ReadInstance, hub
  <1>2. reading'.ann = ann
    BY <1>1 DEF Current
  <1>3. ~history.abandoned /\ status.fingerprint.phase = "Switchover" =>
           status.fingerprint.members \subseteq ann.members
    BY Zenon DEF OrderInv, SwitchInv
  <1>. QED
    BY <1>1, <1>2, <1>3, Zenon DEF OldPlanInv, FirstMember, HeldPlans, FreshSwitchover, MovedOn

\* The plan that follows the switchover's is written once its candidate leads.
LEMMA WriteOld ==
    ASSUME IInv, OrderInv, OldPlanInv, WriteInstance
    PROVE  OldPlanInv'
  <1>1. /\ reading # None /\ reading' = None /\ status' = Computed(reading)
        /\ UNCHANGED <<ann, site, cluster, history>>
    BY Zenon DEF WriteInstance, hub
  <1>2. /\ reading.orphan => status'.fingerprint = status.fingerprint
        /\ ~reading.orphan =>
             status'.fingerprint = Fingerprint(reading.ann, reading.spec.generation)
    BY <1>1, ComputedLemma
  <1>3. /\ Fingerprint(reading.ann, reading.spec.generation).phase = reading.ann.phase
        /\ Fingerprint(reading.ann, reading.spec.generation).members = reading.ann.members
    BY DEF Fingerprint
  <1>4. \/ status'.fingerprint = status.fingerprint
        \/ /\ status'.fingerprint.phase = reading.ann.phase
           /\ status'.fingerprint.members = reading.ann.members
    BY <1>2, <1>3, Zenon
  <1>5. FirstMember'
    BY <1>1, Zenon DEF OldPlanInv, FirstMember
  <1>. SUFFICES ASSUME ~history.abandoned, ~history.failover
       PROVE  HeldPlans' /\ FreshSwitchover' /\ MovedOn'
    BY <1>1, <1>5, Zenon DEF OldPlanInv
  <1>6. HeldPlans /\ FreshSwitchover /\ MovedOn
    BY DEF OldPlanInv
  <1>7. CASE status'.fingerprint = status.fingerprint
    BY <1>1, <1>6, <1>7, Zenon DEF HeldPlans, FreshSwitchover, MovedOn
  <1>8. CASE /\ status'.fingerprint.phase = reading.ann.phase
             /\ status'.fingerprint.members = reading.ann.members
    <2>1. HeldPlans'
      <3>. SUFFICES ASSUME NEW s \in Sites, site[s].plan.candidate # None
           PROVE  IF reading.ann.phase = "Switchover"
                  THEN site[s].plan.candidate \in reading.ann.members
                  ELSE cluster.leader = site[s].plan.candidate
        BY <1>1, <1>8, Zenon DEF HeldPlans
      <3>1. CASE status.fingerprint.phase = "Switchover"
        <4>1. site[s].plan.candidate \in status.fingerprint.members
          BY <1>6, <3>1, Zenon DEF HeldPlans
        <4>. QED
          BY <1>1, <1>6, <3>1, <4>1, Zenon DEF MovedOn
      <3>2. CASE status.fingerprint.phase # "Switchover"
        <4>1. cluster.leader = site[s].plan.candidate
          BY <1>6, <3>2, Zenon DEF HeldPlans
        <4>2. reading.ann.phase # "Switchover"
          BY <1>1, <1>6, <3>2, Zenon DEF FreshSwitchover
        <4>. QED
          BY <4>1, <4>2, Zenon
      <3>. QED
        BY <3>1, <3>2, Zenon
    <2>2. FreshSwitchover'
      BY <1>1, <1>6, <1>8, Zenon DEF FreshSwitchover, MovedOn
    <2>3. MovedOn'
      BY <1>1, <1>6, <1>8, Zenon DEF MovedOn
    <2>. QED
      BY <2>1, <2>2, <2>3, Zenon
  <1>. QED
    BY <1>4, <1>7, <1>8, Zenon

\* A switchover begins when every site has applied a plan without one.
LEMMA MemberOld ==
    ASSUME IInv, OrderInv, OldPlanInv, NEW u \in Upgrades, MemberVerified(u)
    PROVE  OldPlanInv'
  <1>. DEFINE upgraded == ann.members \cup {ann.member}
              next == selectUpgradeCandidate(upgraded)
  <1>1. /\ ann.owner # None /\ ann.phase = "Member" /\ instanceReadyForOperation
        /\ UNCHANGED <<status, plan, site, cluster, reading, history>>
    BY Constants DEF MemberVerified, Owner, Untouched
  <1>2. ann \in Anns
    BY Zenon DEF IInv, Types
  <1>3. CASE /\ ~ann.switched
             /\ ann' = [ann EXCEPT !.phase = "Switchover", !.members = upgraded,
                          !.from = status.primary, !.candidate = ann.member,
                          !.revision = status.revision + 1]
    <2>1. ann'.phase = "Switchover" /\ ann'.members = upgraded /\ ann'.candidate = ann.member
      BY <1>2, <1>3 DEF Anns
    <2>2. ann.members = {}
      BY <1>1, <1>3, Zenon DEF OldPlanInv, FirstMember
    <2>3. FirstMember'
      BY <2>1, <2>2 DEF FirstMember
    <2>4. /\ status.fingerprint.phase = "Member"
          /\ reading # None => reading.ann.phase = "Member"
          /\ \A s \in Sites : site[s].applied = status.revision
      BY <1>1, ReadyCalm, Zenon
    <2>5. ASSUME NEW s \in Sites PROVE site[s].plan.candidate = None
      <3>1. /\ site[s].applied \in Nat /\ site[s].plan.revision \in Nat /\ status.revision \in Nat
            /\ site[s].applied <= site[s].plan.revision
            /\ site[s].plan.revision <= status.revision
        BY Zenon DEF IInv, Types, SiteStates, Plans, Statuses, RevisionInv
      <3>2. site[s].plan.revision = status.revision
        BY <2>4, <3>1
      <3>3. site[s].plan.candidate \in Candidates
        BY <3>2, Zenon DEF OrderInv, SwitchInv
      <3>. QED
        BY <2>4, <3>3 DEF Candidates
    <2>. QED
      BY <1>1, <2>1, <2>3, <2>4, <2>5, Zenon
         DEF OldPlanInv, HeldPlans, FreshSwitchover, MovedOn
  <1>4. CASE /\ ann.switched
             /\ ann' = [ann EXCEPT !.member = next, !.members = upgraded,
                          !.revision = status.revision + 1]
    <2>. HIDE DEF next, upgraded
    <2>1. ann'.phase = "Member" /\ ann'.switched
      BY <1>1, <1>2, <1>4 DEF Anns
    <2>. QED
      BY <1>1, <2>1, PatchOld, Zenon DEF FirstMember
  <1>5. CASE ann' = [ann EXCEPT !.phase = "Finalize", !.revision = status.revision + 1]
    <2>1. ann'.phase = "Finalize"
      BY <1>2, <1>5 DEF Anns
    <2>2. FirstMember'
      BY <2>1 DEF FirstMember
    <2>. QED
      BY <1>1, <2>1, <2>2, PatchOld, Zenon
  <1>. QED
    BY <1>3, <1>4, <1>5, Zenon DEF MemberVerified

\* It ends when the candidate was seen to lead, and then it leads.
LEMMA SwitchoverOld ==
    ASSUME IInv, OrderInv, OldPlanInv, NEW u \in Upgrades, SwitchoverVerified(u)
    PROVE  OldPlanInv'
  <1>. DEFINE next == selectUpgradeCandidate(ann.members)
  <1>1. /\ ann' = [ann EXCEPT !.phase = "Member", !.member = next, !.switched = TRUE,
                     !.revision = status.revision + 1]
        /\ ann.phase = "Switchover" /\ status.primary = ann.candidate
        /\ UNCHANGED <<status, site, cluster, reading, history>>
    BY DEF SwitchoverVerified, Untouched
  <1>. HIDE DEF next
  <1>2. ann \in Anns /\ ann.candidate \in ann.members
    BY <1>1, Zenon DEF IInv, Types, OrderInv, SwitchInv
  <1>3. ann'.phase = "Member" /\ ann'.switched
    BY <1>1, <1>2 DEF Anns
  <1>4. FirstMember'
    BY <1>3 DEF FirstMember
  <1>. SUFFICES ASSUME ~history.abandoned, ~history.failover
       PROVE  HeldPlans' /\ FreshSwitchover' /\ MovedOn'
    BY <1>1, <1>4, Zenon DEF OldPlanInv
  <1>5. HeldPlans /\ FreshSwitchover /\ MovedOn /\ FirstMember
    BY DEF OldPlanInv
  <1>6. \A m \in ann.members : cluster.leader = m
    <2>1. ~Unseen(ann.candidate)
      BY <1>1, Zenon DEF Unseen
    <2>2. cluster.leader \in ann.members
      BY <1>1, <1>2, <2>1, Zenon DEF OrderInv, LeaderInv
    <2>3. ann.members \subseteq {ann.candidate}
      BY <1>1, <1>5, Zenon DEF FirstMember
    <2>. QED
      BY <2>2, <2>3
  <1>7. /\ status.fingerprint.phase = "Switchover" => status.fingerprint.members \subseteq ann.members
        /\ reading # None /\ reading.ann.phase = "Switchover" =>
              reading.ann.members \subseteq ann.members
    BY Zenon DEF OrderInv, SwitchInv
  <1>8. HeldPlans'
    BY <1>1, <1>5, Zenon DEF HeldPlans
  <1>9. FreshSwitchover'
    BY <1>1, <1>3, <1>5, Zenon DEF FreshSwitchover
  <1>10. MovedOn'
    BY <1>1, <1>3, <1>5, <1>6, <1>7, Zenon DEF MovedOn
  <1>. QED
    BY <1>8, <1>9, <1>10

LEMMA UpgradeOld ==
    ASSUME IInv, OrderInv, OldPlanInv, NEW u \in Upgrades,
           \/ ReconcileUpgrade(u) \/ reconcileTerminalUpgrade(u) \/ reconcileUpgradeDeletion(u)
           \/ CreateUpgrade(u) \/ DeleteUpgrade(u) \/ ForceAbandon(u)
    PROVE  OldPlanInv'
  <1>1. ASSUME UNCHANGED <<ann, status, site, cluster, reading, history>> PROVE OldPlanInv'
    BY <1>1, QuietOld, Zenon
  <1>2. NoOwner.phase = "none" /\ NoOwner.members = {}
    BY DEF NoOwner
  <1>3. ASSUME ann' = NoOwner, ann.phase # "Switchover",
               UNCHANGED <<status, site, cluster, reading, history>>
        PROVE  OldPlanInv'
    <2>1. ann'.phase = "none" /\ FirstMember'
      BY <1>2, <1>3, Zenon DEF FirstMember
    <2>. QED
      BY <1>3, <2>1, PatchOld, Zenon
  <1>4. CASE CompleteAtOnce(u) \/ Wait(u) \/ reconcileUpgradeDeletion(u) \/ CreateUpgrade(u)
                \/ DeleteUpgrade(u)
    BY <1>1, <1>4, Zenon
       DEF CompleteAtOnce, Wait, reconcileUpgradeDeletion, CreateUpgrade, DeleteUpgrade, Untouched
  <1>5. CASE BeginUpgrade(u)
    <2>. DEFINE c == selectUpgradeCandidate({})
    <2>1. /\ ann.owner = None /\ UNCHANGED <<status, site, cluster, reading, history>>
          /\ ann' = [owner |-> u, phase |-> "Member", member |-> c, members |-> {},
                     from |-> None, candidate |-> None, switched |-> FALSE,
                     revision |-> status.revision + 1]
      BY <1>5, Zenon DEF BeginUpgrade, Untouched, NoOwner
    <2>. HIDE DEF c
    <2>2. ann'.phase = "Member" /\ ann'.members = {} /\ ann.phase # "Switchover"
      BY <2>1 DEF IInv, Types, AnnShape
    <2>3. FirstMember'
      BY <2>2 DEF FirstMember
    <2>. QED
      BY <2>1, <2>2, <2>3, PatchOld, Zenon
  <1>6. CASE Finalize(u)
    <2>1. /\ ann.phase = "Finalize" /\ UNCHANGED <<status, site, cluster, reading, history>>
          /\ ann' = NoOwner \/ ann' = ann
      BY <1>6, Zenon DEF Finalize, Untouched, clearUpgradeAnnotations
    <2>. QED
      BY <1>1, <1>3, <2>1, Zenon
  <1>7. CASE reconcileTerminalUpgrade(u)
    <2>1. /\ ann' = NoOwner /\ ann.owner = u /\ ann.owner # None /\ upgrade[u].phase = "Completed"
          /\ UNCHANGED <<status, site, cluster, reading, history>>
      BY <1>7, Constants DEF reconcileTerminalUpgrade, clearUpgradeAnnotations, Owner, Untouched
    <2>2. ann.phase = "Finalize"
      BY <2>1, Zenon DEF OrderInv, SwitchInv
    <2>. QED
      BY <1>3, <2>1, <2>2, Zenon
  <1>8. CASE ForceAbandon(u)
    <2>1. ann' = NoOwner /\ history' = [history EXCEPT !.abandoned = TRUE]
      BY <1>8 DEF ForceAbandon, clearUpgradeAnnotations
    <2>2. history'.abandoned
      BY <2>1, Zenon DEF OrderInv
    <2>3. FirstMember'
      BY <1>2, <2>1, Zenon DEF FirstMember
    <2>. QED
      BY <2>2, <2>3, Zenon DEF OldPlanInv
  <1>. QED
    BY <1>4, <1>5, <1>6, <1>7, <1>8, MemberOld, SwitchoverOld, Zenon DEF ReconcileUpgrade

LEMMA SiteOld ==
    ASSUME IInv, OrderInv, OldPlanInv, NEW s \in Sites,
           ReceivePlan(s) \/ ReconcileSite(s) \/ Expire(s)
    PROVE  OldPlanInv'
  <1>0. site \in [Sites -> SiteStates] /\ cluster \in Clusters
    BY Zenon DEF IInv, Types
  <1>1. CASE ReceivePlan(s)
    <2>1. /\ site' = [site EXCEPT ![s].plan = plan]
          /\ UNCHANGED <<ann, status, cluster, reading, history>>
      BY <1>1 DEF ReceivePlan, hub
    <2>2. \A t \in Sites : site'[t].plan = site[t].plan \/ site'[t].plan = plan
      BY <1>0, <2>1 DEF SiteStates
    <2>3. plan.candidate = None \/ (/\ status.fingerprint.phase = "Switchover"
                                    /\ plan.candidate \in status.fingerprint.members)
      BY Zenon DEF OrderInv, SwitchInv, Candidates
    <2>. QED
      BY <2>1, <2>2, <2>3, Zenon DEF OldPlanInv, FirstMember, HeldPlans, FreshSwitchover, MovedOn
  <1>2. CASE Expire(s)
    <2>1. /\ site' = [site EXCEPT ![s].seen = None]
          /\ UNCHANGED <<ann, status, cluster, reading, history>>
      BY <1>2 DEF Expire, hub
    <2>2. \A t \in Sites : site'[t].plan = site[t].plan
      BY <1>0, <2>1 DEF SiteStates
    <2>. QED
      BY <2>1, <2>2, QuietOld, Zenon
  <1>3. CASE ReconcileSite(s)
    <2>. DEFINE p == site[s].plan
                outcome == reconcileUpgradeAction(p, s)
                applied == IF outcome = "error" THEN site[s].applied ELSE p.revision
    <2>1. /\ site' = IF p.revision = status.revision
                     THEN [site EXCEPT ![s].applied = applied, ![s].seen = Observed]
                     ELSE site
          /\ UNCHANGED <<ann, status, reading, history>>
      BY <1>3, Zenon DEF ReconcileSite, hub
    <2>2. \A t \in Sites : site'[t].plan = site[t].plan
      <3>. HIDE DEF applied, p
      <3>. QED
        BY <1>0, <2>1 DEF SiteStates
    <2>3. CASE outcome # "switch"
      <3>1. cluster' = cluster
        BY <1>3, <2>3, Zenon DEF ReconcileSite
      <3>. QED
        BY <2>1, <2>2, <3>1, QuietOld, Zenon
    <2>4. CASE outcome = "switch"
      <3>1. PICK sync : cluster' = [cluster EXCEPT !.leader = p.candidate, !.sync = sync]
        BY <1>3, <2>4, Zenon DEF ReconcileSite
      <3>2. cluster'.leader = p.candidate
        BY <1>0, <3>1, Zenon DEF Clusters
      <3>3. p.candidate # None /\ p.candidate # cluster.leader
        BY <2>4 DEF reconcileUpgradeAction
      <3>. HIDE DEF applied, outcome
      <3>4. FirstMember'
        BY <2>1, Zenon DEF OldPlanInv, FirstMember
      <3>. SUFFICES ASSUME ~history.abandoned, ~history.failover
           PROVE  HeldPlans' /\ FreshSwitchover' /\ MovedOn'
        BY <2>1, <3>4, Zenon DEF OldPlanInv
      <3>5. HeldPlans /\ FreshSwitchover /\ MovedOn
        BY DEF OldPlanInv
      <3>6. /\ status.fingerprint.phase = "Switchover"
            /\ p.candidate \in status.fingerprint.members
        BY <3>3, <3>5, Zenon DEF HeldPlans
      <3>7. ann.phase = "Switchover"
        BY <3>3, <3>5, <3>6, Zenon DEF MovedOn
      <3>8. HeldPlans'
        BY <2>1, <2>2, <3>5, <3>6, Zenon DEF HeldPlans
      <3>9. FreshSwitchover' /\ MovedOn'
        BY <2>1, <2>2, <3>5, <3>6, <3>7, Zenon DEF FreshSwitchover, MovedOn
      <3>. QED
        BY <3>8, <3>9
    <2>. QED
      BY <2>3, <2>4, Zenon
  <1>. QED
    BY <1>1, <1>2, <1>3

LEMMA MemberStepOld ==
    ASSUME IInv, OrderInv, OldPlanInv,
           Promote \/ Failover \/ \E m \in Members : RollDown(m) \/ RollUp(m)
    PROVE  OldPlanInv'
  <1>0. cluster \in Clusters /\ history \in [failover: BOOLEAN, abandoned: BOOLEAN]
    BY Zenon DEF IInv, Types, OrderInv
  <1>1. ~history.abandoned /\ ~history.failover =>
           cluster.leader # None /\ \A m \in Members : cluster.leader = m => Calm(m)
    BY Constants, Zenon DEF OrderInv, LeaderInv
  <1>2. CASE Promote
    BY <1>1, <1>2, QuietOld, Zenon DEF Promote, hub
  <1>3. CASE Failover
    <2>1. /\ history' = [history EXCEPT !.failover = TRUE]
          /\ UNCHANGED <<ann, status, site, reading>>
      BY <1>3 DEF Failover, hub
    <2>2. history'.failover
      BY <1>0, <2>1, Zenon
    <2>. QED
      BY <2>1, <2>2, QuietOld, Zenon
  <1>4. ASSUME NEW m \in Members, RollUp(m) PROVE OldPlanInv'
    <2>1. /\ cluster' = [cluster EXCEPT !.up = @ \cup {m},
                           !.sync = IF @ = None /\ cluster.leader # None THEN m ELSE @]
          /\ UNCHANGED <<ann, status, site, reading, history>>
      BY <1>4, Zenon DEF RollUp, hub
    <2>2. cluster'.leader = cluster.leader
      BY <1>0, <2>1, Zenon DEF Clusters
    <2>. QED
      BY <2>1, <2>2, QuietOld, Zenon
  <1>5. ASSUME NEW m \in Members, RollDown(m) PROVE OldPlanInv'
    <2>. DEFINE image == postgresMemberImage(site[SiteOf[m]].plan, m)
                leader == IF cluster.leader = m THEN None ELSE cluster.leader
    <2>1. /\ cluster.image[m] # image /\ UNCHANGED <<ann, status, site, reading, history>>
          /\ \E sync : cluster' = [leader |-> leader, sync |-> sync, up |-> cluster.up \ {m},
                                   image |-> [cluster.image EXCEPT ![m] = image]]
      BY <1>5, Zenon DEF RollDown, hub
    <2>2. ~Calm(m)
      BY <2>1, Zenon DEF Calm
    <2>. HIDE DEF image
    <2>3. cluster.leader # m => cluster'.leader = cluster.leader
      BY <2>1
    <2>. QED
      BY <1>1, <2>1, <2>2, <2>3, QuietOld, Zenon
  <1>. QED
    BY <1>2, <1>3, <1>4, <1>5, Zenon

LEMMA StepOld == IInv /\ OrderInv /\ OldPlanInv /\ [Next]_vars => OldPlanInv'
  <1>. SUFFICES ASSUME IInv, OrderInv, OldPlanInv, [Next]_vars PROVE OldPlanInv'
    OBVIOUS
  <1>1. CASE SystemStep
    BY <1>1, ReadOld, WriteOld, UpgradeOld, SiteOld, MemberStepOld, Zenon DEF SystemStep
  <1>2. CASE EditInstance
    BY <1>2, QuietOld, Zenon DEF EditInstance, Untouched
  <1>3. CASE UserStep
    BY <1>2, <1>3, UpgradeOld, Zenon DEF UserStep
  <1>4. CASE Failover \/ \E s \in Sites : Expire(s)
    BY <1>4, SiteOld, MemberStepOld, Zenon
  <1>5. CASE UNCHANGED vars
    BY <1>5, QuietOld, Zenon DEF vars
  <1>. QED
    BY <1>1, <1>3, <1>4, <1>5, Zenon DEF Next

-----------------------------------------------------------------------------
LEMMA StepOrder == IInv /\ IInv' /\ OrderInv /\ OldPlanInv /\ [Next]_vars => OrderInv'
  <1>. SUFFICES ASSUME IInv, IInv', OrderInv, OldPlanInv, [Next]_vars PROVE OrderInv'
    OBVIOUS
  <1>1. CASE SystemStep
    BY <1>1, ReadOrder, WriteOrder, PatroniOrder, ReconcileUpgradeOrder, OtherUpgradeOrder,
       ReceiveOrder, ReconcileSiteOrder, RollDownOrder, Zenon DEF SystemStep
  <1>2. CASE UserStep
    BY <1>2, EditOrder, OtherUpgradeOrder DEF UserStep
  <1>3. CASE Failover
    BY <1>3, PatroniOrder
  <1>4. CASE \E s \in Sites : Expire(s)
    BY <1>4, ExpireOrder
  <1>5. CASE UNCHANGED vars
    BY <1>5, QuietOrder, Zenon DEF vars
  <1>. QED
    BY <1>1, <1>2, <1>3, <1>4, <1>5, Zenon DEF Next

LEMMA OrderLemma == Spec => []OrderInv
  <1>. QED
    BY OrderInitLemma, OldInit, StepOrder, StepOld, InvariantLemma, PTL DEF Spec

\* Two members are down together only after an upgrade was abandoned by force,
\* for any number of members, sites and upgrades, whatever the edits, failovers,
\* lost writes and late reports (upgradePlans, advanceUpgrade).
THEOREM OneAtATimeTheorem == Spec => []OneAtATime
  <1>1. ASSUME OrderInv, ~history.abandoned PROVE ~(Cardinality(Members \ cluster.up) > 1)
    <2>1. PICK w \in Members : \A m \in Members \ {w} : Calm(m)
      BY <1>1, Zenon DEF OrderInv, CalmInv
    <2>2. Members \ cluster.up \in SUBSET {w}
      BY <2>1 DEF Calm
    <2>3. IsFiniteSet({w}) /\ Cardinality({w}) = 1
      BY FS_Singleton, Zenon
    <2>4. IsFiniteSet(Members \ cluster.up) /\ Cardinality(Members \ cluster.up) <= 1
      BY <2>2, <2>3, FS_Subset, Zenon
    <2>5. Cardinality(Members \ cluster.up) \in Nat
      BY <2>4, FS_CardinalityType, Zenon
    <2>. QED
      BY <2>4, <2>5
  <1>2. OrderInv => OneAtATime
    BY <1>1, Zenon DEF OneAtATime
  <1>. QED
    BY <1>2, OrderLemma, PTL

\* As long as Patroni moves the leader only when it is asked to, and no upgrade
\* was abandoned by force, no rollout takes the leader down: the member that is
\* rolled is never the one that leads (selectUpgradeCandidate, reconcileUpgradeAction).
THEOREM LeaderTheorem == Spec => []LeaderIsNotRolled
  <1>1. OrderInv => LeaderIsNotRolled
    BY Constants DEF OrderInv, LeaderInv, LeaderIsNotRolled
  <1>. QED
    BY <1>1, OrderLemma, PTL
===============================================================================
