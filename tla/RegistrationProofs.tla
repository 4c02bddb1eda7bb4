-------------------------- MODULE RegistrationProofs --------------------------
(***************************************************************************)
(* For any number of registrations, clusters, concurrent bind requests and *)
(* addresses: the identity a site installed is the one the hub authorised, *)
(* and registrations that may connect have addresses of their own.         *)
(***************************************************************************)
EXTENDS Registration, WellFoundedInduction, TLAPS

SiteRecords == [revoked: BOOLEAN, deleting: BOOLEAN, gone: BOOLEAN, finalizer: BOOLEAN,
                bound: Clusters \cup {None}, ready: BOOLEAN]
HandlerRecords == [pc: HandlerPCs, reg: Regs \cup {None}, cluster: Clusters \cup {None},
                   key: Keys \cup {None}, address: Addresses \cup {None},
                   created: BOOLEAN, fresh: BOOLEAN]
Identities == [reg: Regs, key: Keys, address: Addresses] \cup {None}

\* A request that has reserved its address, and one that has authorised its peer.
Holding == {"peer", "render", "status", "token", "respond"}
Past == {"render", "status", "token", "respond"}

Types ==
    /\ site \in [Regs -> SiteRecords]
    /\ peer \in PeerLists
    /\ allocation \in [Regs -> Addresses \cup {None}]
    /\ handler \in [Handlers -> HandlerRecords]
    /\ identity \in [Clusters -> Identities]
    /\ attempts \in 0..MaxAttempts
    /\ bundle \in [Clusters -> Regs \cup {None}]
    /\ ctl.pc # "idle" => ctl.reg \in Regs
    /\ \A h \in Handlers : handler[h].pc # "idle" =>
          handler[h].reg \in Regs /\ handler[h].cluster \in Clusters /\ handler[h].key \in Keys

\* The controller withdraws only what is revoked or being deleted.
BranchIsDue ==
    ctl.pc # "idle" /\ ctl.branch # "live" =>
        site[ctl.reg].revoked \/ site[ctl.reg].deleting

AllocationsDistinct ==
    \A r, s \in Regs : r # s /\ allocation[r] # None => allocation[r] # allocation[s]

PeerIsAllocated ==
    \A r \in Regs : Live(r) /\ peer[r] # None =>
        peer[r].address = allocation[r] /\ allocation[r] # None

RequestIsAllocated ==
    \A h \in Handlers : handler[h].pc \in Holding /\ Live(handler[h].reg) =>
        handler[h].address = allocation[handler[h].reg] /\ handler[h].address # None

RequestIsAuthorized ==
    \A h \in Handlers : handler[h].pc \in Past /\ Live(handler[h].reg) =>
        peer[handler[h].reg] = [key |-> handler[h].key, address |-> handler[h].address]

Holds == \A h \in Handlers : handler[h].pc \in Holding => handler[h].address # None

Facts ==
    /\ AllocationsDistinct /\ PeerIsAllocated /\ RequestIsAllocated
    /\ RequestIsAuthorized /\ IdentityIsAuthorized /\ Holds

IInv == Types /\ BranchIsDue /\ Facts

\* What most steps leave alone: registrations only ever stop being live, live
\* ones keep address and peer, requests end or go on without gaining anything.
Frame ==
    /\ \A r \in Regs : Live(r)' => Live(r) /\ allocation'[r] = allocation[r]
                                          /\ peer'[r] = peer[r]
    /\ \A h \in Handlers :
          \/ handler'[h].pc \notin Holding
          \/ /\ handler'[h].reg = handler[h].reg /\ handler'[h].key = handler[h].key
             /\ handler'[h].cluster = handler[h].cluster
             /\ handler'[h].address = handler[h].address
             /\ handler'[h].pc \in Holding => handler[h].pc \in Holding
             /\ handler'[h].pc \in Past => handler[h].pc \in Past
             /\ handler[h].pc # "idle"
    /\ \/ allocation' = allocation
       \/ \E r \in Regs : allocation' = [allocation EXCEPT ![r] = None]
    /\ identity' = identity

LEMMA FrameLemma == Types /\ Types' /\ Facts /\ Frame => Facts'
<1> SUFFICES ASSUME Types, Types', Facts, Frame PROVE Facts'
  OBVIOUS
<1>1. AllocationsDistinct'
  BY DEF Types, Facts, Frame, AllocationsDistinct
<1>2. PeerIsAllocated'
  BY DEF Types, Facts, Frame, PeerIsAllocated
<1>3. RequestIsAllocated'
  <2> SUFFICES ASSUME NEW h \in Handlers, handler'[h].pc \in Holding, Live(handler[h].reg)'
               PROVE handler'[h].address = allocation'[handler'[h].reg] /\ handler'[h].address # None
    BY DEF RequestIsAllocated
  <2>1. handler'[h].pc # "idle"
    BY DEF Holding
  <2>2. handler'[h].reg \in Regs
    BY <2>1 DEF Types
  <2> QED BY <2>1, <2>2 DEF Facts, Frame, RequestIsAllocated, Live
<1>4. RequestIsAuthorized'
  <2> SUFFICES ASSUME NEW h \in Handlers, handler'[h].pc \in Past, Live(handler[h].reg)'
               PROVE peer'[handler'[h].reg] =
                       [key |-> handler'[h].key, address |-> handler'[h].address]
    BY DEF RequestIsAuthorized
  <2>1. handler'[h].pc # "idle"
    BY DEF Past
  <2>2. handler'[h].reg \in Regs
    BY <2>1 DEF Types
  <2> QED BY <2>1, <2>2 DEF Facts, Frame, RequestIsAuthorized, Live, Past, Holding
<1>5. IdentityIsAuthorized'
  <2> SUFFICES ASSUME NEW c \in Clusters, identity'[c] # None, Live(identity[c].reg)'
               PROVE peer'[identity'[c].reg] =
                       [key |-> identity'[c].key, address |-> identity'[c].address]
    BY DEF IdentityIsAuthorized
  <2>1. identity[c].reg \in Regs
    BY DEF Types, Identities, Frame
  <2> QED BY <2>1 DEF Facts, Frame, IdentityIsAuthorized, Live
<1>6. Holds'
  BY DEF Facts, Frame, Holds
<1> QED BY <1>1, <1>2, <1>3, <1>4, <1>5, <1>6 DEF Facts

-----------------------------------------------------------------------------
(* The parts a step is made of.                                            *)

\* Requests: they end, or go on with what they had.
HFrame ==
    /\ handler' \in [Handlers -> HandlerRecords]
    /\ \A h \in Handlers :
          \/ handler'[h].pc = "idle"
          \/ /\ handler'[h].reg = handler[h].reg /\ handler'[h].key = handler[h].key
             /\ handler'[h].cluster = handler[h].cluster
             /\ handler'[h].address = handler[h].address
             /\ handler'[h].pc \in Holding => handler[h].pc \in Holding
             /\ handler'[h].pc \in Past => handler[h].pc \in Past
             /\ handler[h].pc # "idle"

\* Registrations: revocation and deletion are not taken back.
SFrame ==
    /\ site' \in [Regs -> SiteRecords]
    /\ \A r \in Regs : /\ Live(r)' => Live(r)
                       /\ site[r].revoked => site'[r].revoked
                       /\ site[r].deleting => site'[r].deleting

\* Addresses and peers of live registrations stay.
PFrame ==
    /\ peer' \in PeerLists
    /\ allocation' \in [Regs -> Addresses \cup {None}]
    /\ \A r \in Regs : Live(r)' => allocation'[r] = allocation[r] /\ peer'[r] = peer[r]
    /\ \/ allocation' = allocation
       \/ \E r \in Regs : allocation' = [allocation EXCEPT ![r] = None]

\* The controller's worker is idle or busy with what is due.
CFrame ==
    \/ ctl'.pc = "idle"
    \/ /\ ctl.pc # "idle" /\ ctl'.reg = ctl.reg /\ ctl'.branch = ctl.branch
    \/ /\ ctl'.reg \in Regs
       /\ ctl'.branch # "live" => site[ctl'.reg].revoked \/ site[ctl'.reg].deleting

LEMMA StepLemma ==
    ASSUME IInv, HFrame, SFrame, PFrame, CFrame, identity' = identity, attempts' = attempts,
           bundle' \in [Clusters -> Regs \cup {None}]
    PROVE  IInv'
<1>1. Types'
  <2>1. \A h \in Handlers : handler'[h].pc # "idle" =>
          handler'[h].reg \in Regs /\ handler'[h].cluster \in Clusters /\ handler'[h].key \in Keys
    BY DEF IInv, Types, HFrame
  <2>2. ctl'.pc # "idle" => ctl'.reg \in Regs
    BY DEF IInv, Types, CFrame
  <2> QED BY <2>1, <2>2 DEF IInv, Types, HFrame, SFrame, PFrame
<1>2. BranchIsDue'
  BY DEF IInv, Types, BranchIsDue, CFrame, SFrame
<1>3. Frame
  BY DEF HFrame, SFrame, PFrame, Frame, Holding
<1> QED BY <1>1, <1>2, <1>3, FrameLemma DEF IInv

LEMMA IdleLemma == Idle \in HandlerRecords /\ Idle.pc = "idle"
  BY DEF Idle, HandlerRecords, HandlerPCs

LEMMA FinishLemma ==
    ASSUME Types, NEW h \in Handlers, Finish(h)
    PROVE  HFrame
  BY IdleLemma DEF Types, Finish, HFrame

LEMMA GotoLemma ==
    ASSUME Types, NEW h \in Handlers, NEW pc \in HandlerPCs, Goto(h, pc),
           handler[h].pc # "idle",
           pc \in Holding => handler[h].pc \in Holding,
           pc \in Past => handler[h].pc \in Past
    PROVE  HFrame
<1>1. handler'[h] = [handler[h] EXCEPT !.pc = pc] /\ handler[h] \in HandlerRecords
  BY DEF Types, Goto
<1>2. /\ handler'[h] \in HandlerRecords /\ handler'[h].pc = pc
      /\ handler'[h].reg = handler[h].reg /\ handler'[h].key = handler[h].key
      /\ handler'[h].cluster = handler[h].cluster /\ handler'[h].address = handler[h].address
  BY <1>1 DEF HandlerRecords
<1>3. \A g \in Handlers : g # h => handler'[g] = handler[g]
  BY DEF Types, Goto
<1>4. handler' \in [Handlers -> HandlerRecords]
  BY <1>2, <1>3 DEF Types, Goto
<1> QED BY <1>2, <1>3, <1>4 DEF HFrame

LEMMA OutdateLemma ==
    ASSUME Types, NEW r \in Regs
    PROVE  /\ Outdate(handler, r) \in [Handlers -> HandlerRecords]
           /\ \A h \in Handlers :
                /\ Outdate(handler, r)[h].pc = handler[h].pc
                /\ Outdate(handler, r)[h].reg = handler[h].reg
                /\ Outdate(handler, r)[h].key = handler[h].key
                /\ Outdate(handler, r)[h].cluster = handler[h].cluster
                /\ Outdate(handler, r)[h].address = handler[h].address
<1> SUFFICES ASSUME NEW h \in Handlers
             PROVE  LET o == Outdate(handler, r)[h] IN
                    /\ o \in HandlerRecords /\ o.pc = handler[h].pc
                    /\ o.reg = handler[h].reg /\ o.key = handler[h].key
                    /\ o.cluster = handler[h].cluster /\ o.address = handler[h].address
  BY DEF Outdate
<1>1. handler[h] \in HandlerRecords
  BY DEF Types
<1>2. CASE handler[h].reg = r
  <2>1. Outdate(handler, r)[h] = [handler[h] EXCEPT !.fresh = FALSE]
    BY <1>2 DEF Outdate
  <2> QED BY <1>1, <2>1 DEF HandlerRecords
<1>3. CASE handler[h].reg # r
  <2>1. Outdate(handler, r)[h] = handler[h]
    BY <1>3 DEF Outdate
  <2> QED BY <1>1, <2>1
<1> QED BY <1>2, <1>3

LEMMA OutdatedLemma ==
    ASSUME Types, NEW r \in Regs, handler' \in {handler, Outdate(handler, r)}
    PROVE  HFrame
<1>1. CASE handler' = handler
  BY <1>1 DEF Types, HFrame
<1>2. CASE handler' = Outdate(handler, r)
  BY <1>2, OutdateLemma DEF HFrame
<1> QED BY <1>1, <1>2

LEMMA SiteLemma ==
    ASSUME Types, NEW r \in Regs, NEW new \in SiteRecords, WriteSite(r, new),
           site[r].revoked => new.revoked, site[r].deleting => new.deleting,
           ~new.revoked /\ ~new.deleting /\ ~new.gone =>
              ~site[r].revoked /\ ~site[r].deleting /\ ~site[r].gone
    PROVE  SFrame /\ HFrame
<1>1. handler' \in {handler, Outdate(handler, r)}
  BY DEF WriteSite
<1>2. HFrame
  BY <1>1, OutdatedLemma
<1>3. SFrame
  BY DEF Types, WriteSite, SFrame, Live
<1> QED BY <1>2, <1>3

LEMMA SameSite == ASSUME Types, site' = site PROVE SFrame
  BY DEF Types, SFrame, Live

LEMMA SameHandler == ASSUME Types, handler' = handler PROVE HFrame
  BY DEF Types, HFrame

LEMMA SamePeers == ASSUME Types, peer' = peer, allocation' = allocation PROVE PFrame
  BY DEF Types, PFrame

LEMMA SameController == ASSUME ctl' = ctl PROVE CFrame
  BY DEF CFrame

\* The operator's steps.
LEMMA OperatorLemma == IInv /\ Operator => IInv'
<1> SUFFICES ASSUME IInv, Operator PROVE IInv'
  OBVIOUS
<1>0. Types
  BY DEF IInv
<1>1. ASSUME NEW q \in Bundles, ApplyBundle(q[1], q[2]) PROVE IInv'
  <2>1. SFrame /\ HFrame /\ PFrame /\ CFrame
    BY <1>0, <1>1, SameSite, SameHandler, SamePeers, SameController DEF ApplyBundle, hub
  <2>2. bundle' \in [Clusters -> Regs \cup {None}]
    BY <1>0, <1>1, ConstantsAssumption DEF Types, ApplyBundle
  <2> QED BY <1>1, <2>1, <2>2, StepLemma DEF ApplyBundle
<1>2. ASSUME NEW r \in Regs, Revoke(r) PROVE IInv'
  <2> DEFINE new == [site[r] EXCEPT !.revoked = TRUE]
  <2>1. site[r] \in SiteRecords
    BY <1>0 DEF Types
  <2>2. new \in SiteRecords /\ new.revoked /\ new.deleting = site[r].deleting
    BY <2>1 DEF SiteRecords
  <2>3. WriteSite(r, new)
    BY <1>2 DEF Revoke
  <2> HIDE DEF new
  <2>4. SFrame /\ HFrame
    BY <1>0, <2>2, <2>3, SiteLemma
  <2>5. PFrame /\ CFrame
    BY <1>0, <1>2, SamePeers, SameController DEF Revoke, hub
  <2> QED BY <1>0, <1>2, <2>4, <2>5, StepLemma DEF Revoke, agents, Types
<1>3. ASSUME NEW r \in Regs, Delete(r) PROVE IInv'
  <2> DEFINE new == [site[r] EXCEPT !.deleting = TRUE, !.gone = ~site[r].finalizer]
  <2>1. site[r] \in SiteRecords
    BY <1>0 DEF Types
  <2>2. new \in SiteRecords /\ new.deleting /\ new.revoked = site[r].revoked
    BY <2>1 DEF SiteRecords
  <2>3. WriteSite(r, new)
    BY <1>3 DEF Delete
  <2> HIDE DEF new
  <2>4. SFrame /\ HFrame
    BY <1>0, <2>2, <2>3, SiteLemma
  <2>5. PFrame /\ CFrame
    BY <1>0, <1>3, SamePeers, SameController DEF Delete, hub
  <2> QED BY <1>0, <1>3, <2>4, <2>5, StepLemma DEF Delete, agents, Types
<1>4. ASSUME NEW r \in Regs, Unreference(r) PROVE IInv'
  <2>1. SFrame /\ HFrame /\ PFrame /\ CFrame
    BY <1>0, <1>4, SameSite, SameHandler, SamePeers, SameController DEF Unreference, hub
  <2> QED BY <1>0, <1>4, <2>1, StepLemma DEF Unreference, agents, Types
<1> QED BY <1>1, <1>2, <1>3, <1>4 DEF Operator

\* A new request holds nothing yet.
LEMMA AuthorizeLemma ==
    ASSUME IInv, NEW h \in Handlers, NEW c \in Clusters, Authorize(h, c)
    PROVE  IInv'
<1>0. Types
  BY DEF IInv
<1> DEFINE r == bundle[c]
<1>1. CASE handler' = handler
  <2>1. attempts' \in 0..MaxAttempts
    BY <1>0, ConstantsAssumption DEF Types, Authorize
  <2>2. Types' /\ BranchIsDue'
    BY <1>0, <1>1, <2>1 DEF Types, IInv, BranchIsDue, Authorize
  <2>3. Frame
    BY <1>0, <1>1 DEF Frame, Authorize, Live, Types, Holding
  <2> QED BY <1>0, <2>2, <2>3, FrameLemma DEF IInv
<1>2. CASE handler' # handler
  <2>1. PICK created \in BOOLEAN : handler' = [handler EXCEPT ![h] =
          [pc |-> "reserve", reg |-> r, cluster |-> c, key |-> attempts + 1,
           address |-> None, created |-> created, fresh |-> TRUE]]
    BY <1>2 DEF Authorize, acquireClusterUIDClaim
  <2>2. attempts' \in 0..MaxAttempts /\ attempts + 1 \in Keys
    BY <1>0, ConstantsAssumption DEF Types, Authorize, Keys
  <2>3. r \in Regs
    BY <1>0 DEF Types, Authorize
  <2> HIDE DEF r
  <2>4. /\ handler' \in [Handlers -> HandlerRecords]
        /\ handler'[h].pc = "reserve" /\ handler'[h].reg = r /\ handler'[h].cluster = c
        /\ handler'[h].key = attempts + 1
        /\ \A g \in Handlers : g # h => handler'[g] = handler[g]
    BY <1>0, <2>1, <2>2, <2>3 DEF Types, HandlerRecords, HandlerPCs, Undoing
  <2>5. Types'
    BY <1>0, <2>2, <2>3, <2>4 DEF Types, Authorize
  <2>6. BranchIsDue'
    BY DEF IInv, BranchIsDue, Authorize
  <2>7. Frame
    BY <1>0, <2>4 DEF Frame, Authorize, Live, Types, Holding, Past
  <2> QED BY <1>0, <2>5, <2>6, <2>7, FrameLemma DEF IInv
<1> QED BY <1>1, <1>2

-----------------------------------------------------------------------------
(* Requests.                                                               *)

LEMMA LeastLemma ==
    ASSUME NEW S \in SUBSET Nat, S # {}
    PROVE  \E a \in S : \A b \in S : a <= b
<1>1. \E a \in S : \A b \in S : ~(<<b, a>> \in OpToRel(<, Nat))
  BY NatLessThanWellFounded, WFMin
<1>2. PICK a \in S : \A b \in S : ~(<<b, a>> \in OpToRel(<, Nat))
  BY <1>1
<1>3. \A b \in S : ~(b < a)
  BY <1>2 DEF OpToRel
<1> QED BY <1>3

\* A reservation is what the registration held, or an address nobody holds.
LEMMA ReservationLemma ==
    ASSUME Types, NEW r \in Regs
    PROVE  \/ Reservation(r) = allocation[r]
           \/ /\ allocation[r] = None /\ Reservation(r) \in Addresses
              /\ \A s \in Regs : allocation[s] # Reservation(r)
<1>1. CASE allocation[r] # None \/ Unused = {}
  BY <1>1 DEF Reservation
<1>2. CASE allocation[r] = None /\ Unused # {}
  <2>1. Unused \in SUBSET Nat
    BY ConstantsAssumption DEF Unused, Addresses
  <2>2. \E a \in Unused : \A b \in Unused : a <= b
    BY <1>2, <2>1, LeastLemma
  <2>3. Reservation(r) \in Unused
    BY <1>2, <2>2 DEF Reservation
  <2> QED BY <1>2, <2>3 DEF Unused
<1> QED BY <1>1, <1>2

LEMMA ReserveLemma ==
    ASSUME IInv, NEW h \in Handlers, reserveAddress(h)
    PROVE  IInv'
<1> DEFINE r == handler[h].reg
           a == Reservation(r)
<1>0. Types /\ r \in Regs /\ handler[h] \in HandlerRecords
  BY DEF IInv, Types, reserveAddress
<1>1. SFrame /\ CFrame
  BY <1>0, SameSite, SameController DEF reserveAddress
<1>2. CASE a = None
  <2>1. allocation[r] = None
    BY <1>0, <1>2, ReservationLemma, ConstantsAssumption DEF Addresses
  <2>2. allocation' = allocation
    BY <1>0, <1>2, <2>1 DEF reserveAddress, Types
  <2>3. HFrame
    BY <1>0, <1>2, FinishLemma DEF reserveAddress
  <2>4. PFrame
    BY <1>0, <2>2, SamePeers DEF reserveAddress
  <2> QED BY <1>0, <1>1, <2>3, <2>4, StepLemma DEF reserveAddress, agents, Types
<1>3. CASE a # None
  <2>1. a \in Addresses
    BY <1>0, <1>3, ReservationLemma DEF Types
  <2>2. allocation' = [allocation EXCEPT ![r] = a]
    BY DEF reserveAddress
  <2>3. handler' = [handler EXCEPT ![h] = [@ EXCEPT !.pc = "peer", !.address = a]]
    BY <1>3 DEF reserveAddress
  <2>0. \/ a = allocation[r]
        \/ allocation[r] = None /\ \A s \in Regs : allocation[s] # a
    BY <1>0, ReservationLemma
  <2> HIDE DEF a
  <2>4. /\ handler'[h] \in HandlerRecords /\ handler'[h].pc = "peer"
        /\ handler'[h].address = a /\ handler'[h].reg = r
        /\ handler'[h].key = handler[h].key /\ handler'[h].cluster = handler[h].cluster
    BY <1>0, <2>1, <2>3 DEF Types, HandlerRecords, HandlerPCs, Undoing
  <2>5. handler' \in [Handlers -> HandlerRecords]
        /\ \A g \in Handlers : g # h => handler'[g] = handler[g]
    BY <1>0, <2>3, <2>4 DEF Types
  <2>6. allocation' \in [Regs -> Addresses \cup {None}]
    BY <1>0, <2>1, <2>2 DEF Types
  <2>7. handler[h].pc # "idle" /\ site' = site /\ peer' = peer /\ identity' = identity
        /\ ctl' = ctl /\ attempts' = attempts /\ bundle' = bundle
    BY DEF reserveAddress, agents
  <2>8. Types'
    BY <1>0, <2>4, <2>5, <2>6, <2>7 DEF Types
  <2>9. BranchIsDue'
    BY <2>7 DEF IInv, BranchIsDue
  <2>10. allocation'[r] = a /\ \A s \in Regs : s # r => allocation'[s] = allocation[s]
    BY <1>0, <2>2 DEF Types
  <2>11. AllocationsDistinct'
    BY <1>0, <2>0, <2>10 DEF IInv, Facts, AllocationsDistinct
  <2>12. PeerIsAllocated'
    BY <1>0, <2>0, <2>7, <2>10 DEF IInv, Facts, PeerIsAllocated, Live
  <2>13. RequestIsAllocated'
    <3> SUFFICES ASSUME NEW g \in Handlers, handler'[g].pc \in Holding,
                        Live(handler[g].reg)'
                 PROVE handler'[g].address = allocation'[handler'[g].reg]
                       /\ handler'[g].address # None
      BY DEF RequestIsAllocated
    <3>1. CASE g = h
      BY <1>3, <2>4, <2>10, <3>1 DEF a
    <3>2. CASE g # h
      <4>1. handler'[g] = handler[g]
        BY <2>5, <3>2
      <4>2. handler[g].reg \in Regs
        BY <1>0, <4>1 DEF Types, Holding
      <4> QED BY <2>0, <2>7, <2>10, <4>1, <4>2 DEF IInv, Facts, RequestIsAllocated, Live
    <3> QED BY <3>1, <3>2
  <2>14. RequestIsAuthorized'
    BY <2>4, <2>5, <2>7 DEF IInv, Facts, RequestIsAuthorized, Past, Live
  <2>15. IdentityIsAuthorized'
    BY <2>7 DEF IInv, Facts, IdentityIsAuthorized, Live
  <2>16. Holds'
    BY <1>3, <2>4, <2>5 DEF IInv, Facts, Holds, a
  <2> QED BY <2>8, <2>9, <2>11, <2>12, <2>13, <2>14, <2>15, <2>16 DEF IInv, Facts
<1> QED BY <1>2, <1>3

LEMMA AuthorizePeerLemma ==
    ASSUME IInv, NEW h \in Handlers, AuthorizePeer(h)
    PROVE  IInv'
<1> DEFINE r == handler[h].reg
           p == [key |-> handler[h].key, address |-> handler[h].address]
<1>0. Types /\ r \in Regs /\ handler[h] \in HandlerRecords /\ handler[h].pc = "peer"
  BY DEF IInv, Types, AuthorizePeer
<1>1. SFrame /\ CFrame
  BY <1>0, SameSite, SameController DEF AuthorizePeer
<1>2. CASE peer[r] # None
  <2>1. HFrame /\ peer' = peer
    BY <1>0, <1>2, FinishLemma DEF AuthorizePeer
  <2>2. PFrame
    BY <1>0, <2>1, SamePeers DEF AuthorizePeer
  <2> QED BY <1>0, <1>1, <2>1, <2>2, StepLemma DEF AuthorizePeer, agents, Types
<1>3. CASE peer[r] = None
  <2>1. peer' = [peer EXCEPT ![r] = p] /\ Goto(h, "render")
    BY <1>3 DEF AuthorizePeer, CreatePeer
  <2>2. /\ site' = site /\ allocation' = allocation /\ ctl' = ctl /\ identity' = identity
        /\ attempts' = attempts /\ bundle' = bundle
    BY DEF AuthorizePeer, agents
  <2>3. handler[h].key \in Keys /\ handler[h].address \in Addresses
    BY <1>0 DEF IInv, Types, Facts, Holds, Holding, HandlerRecords
  <2>4. p \in Peers /\ p # None
    BY <2>3, ConstantsAssumption DEF Peers, Keys, Addresses
  <2>5. /\ handler'[h] \in HandlerRecords /\ handler'[h].pc = "render"
        /\ handler'[h].reg = r /\ handler'[h].key = handler[h].key
        /\ handler'[h].cluster = handler[h].cluster /\ handler'[h].address = handler[h].address
    BY <1>0, <2>1 DEF Types, Goto, HandlerRecords, HandlerPCs, Undoing
  <2>6. handler' \in [Handlers -> HandlerRecords]
        /\ \A g \in Handlers : g # h => handler'[g] = handler[g]
    BY <1>0, <2>1, <2>5 DEF Types, Goto
  <2>7. /\ peer'[r] = p /\ peer' \in PeerLists
        /\ \A s \in Regs : s # r => peer'[s] = peer[s]
    BY <1>0, <2>1, <2>4 DEF Types, PeerLists
  <2>8. p.key = handler[h].key /\ p.address = handler[h].address
    OBVIOUS
  <2> HIDE DEF p
  <2>9. Types'
    BY <1>0, <2>2, <2>5, <2>6, <2>7 DEF Types
  <2>10. BranchIsDue' /\ AllocationsDistinct'
    BY <2>2 DEF IInv, BranchIsDue, Facts, AllocationsDistinct
  <2>11. PeerIsAllocated'
    BY <1>0, <2>2, <2>7, <2>8 DEF IInv, Facts, PeerIsAllocated, RequestIsAllocated, Holding, Live
  <2>12. RequestIsAllocated'
    BY <1>0, <2>2, <2>5, <2>6 DEF IInv, Facts, RequestIsAllocated, Holding, Live
  <2>13. RequestIsAuthorized'
    <3> SUFFICES ASSUME NEW g \in Handlers, handler'[g].pc \in Past, Live(handler[g].reg)'
                 PROVE peer'[handler'[g].reg] =
                         [key |-> handler'[g].key, address |-> handler'[g].address]
      BY DEF RequestIsAuthorized
    <3>1. CASE g = h
      BY <2>5, <2>7, <3>1 DEF p
    <3>2. CASE g # h
      <4>1. handler'[g] = handler[g] /\ handler[g] \in HandlerRecords
        BY <1>0, <2>6, <3>2 DEF Types
      <4>2. handler[g].reg \in Regs /\ handler[g].key \in Keys /\ handler[g].address \in Addresses
        BY <1>0, <4>1 DEF IInv, Types, Facts, Holds, Past, Holding, HandlerRecords
      <4>3. peer[handler[g].reg] = [key |-> handler[g].key, address |-> handler[g].address]
        BY <2>2, <4>1 DEF IInv, Facts, RequestIsAuthorized, Live
      <4>4. peer[handler[g].reg] # None
        BY <4>2, <4>3, ConstantsAssumption DEF Keys, Addresses
      <4> QED BY <1>3, <2>7, <4>1, <4>2, <4>3, <4>4
    <3> QED BY <3>1, <3>2
  <2>14. IdentityIsAuthorized'
    <3> SUFFICES ASSUME NEW c \in Clusters, identity[c] # None, Live(identity[c].reg)
                 PROVE peer'[identity[c].reg] =
                         [key |-> identity[c].key, address |-> identity[c].address]
      BY <2>2 DEF IdentityIsAuthorized, Live
    <3>1. identity[c] \in [reg: Regs, key: Keys, address: Addresses]
      BY <1>0 DEF Types, Identities
    <3>2. peer[identity[c].reg] = [key |-> identity[c].key, address |-> identity[c].address]
      BY DEF IInv, Facts, IdentityIsAuthorized
    <3>3. peer[identity[c].reg] # None
      BY <3>1, <3>2, ConstantsAssumption DEF Keys, Addresses
    <3> QED BY <1>3, <2>7, <3>1, <3>2, <3>3
  <2>15. Holds'
    BY <1>0, <2>5, <2>6 DEF IInv, Facts, Holds, Holding
  <2> QED BY <2>9, <2>10, <2>11, <2>12, <2>13, <2>14, <2>15 DEF IInv, Facts
<1> QED BY <1>2, <1>3

LEMMA BindStatusLemma ==
    ASSUME IInv, NEW h \in Handlers, BindStatus(h)
    PROVE  IInv'
<1> DEFINE r == handler[h].reg
           o == Outdate(handler, r)
<1>0. Types /\ r \in Regs /\ handler[h].cluster \in Clusters /\ handler[h].pc = "status"
  BY DEF IInv, Types, BindStatus
<1>1. PFrame /\ CFrame
  BY <1>0, SamePeers, SameController DEF BindStatus, hub
<1>2. SFrame /\ HFrame
  <2>1. CASE site' = site /\ Finish(h)
    BY <1>0, <2>1, FinishLemma, SameSite
  <2>2. CASE /\ site' = [site EXCEPT ![r].bound = handler[h].cluster]
             /\ handler' = [o EXCEPT ![h].pc = "token"]
    <3>1. site[r] \in SiteRecords /\ site'[r] = [site[r] EXCEPT !.bound = handler[h].cluster]
      BY <1>0, <2>2 DEF Types
    <3>2. /\ site'[r] \in SiteRecords /\ site'[r].revoked = site[r].revoked
          /\ site'[r].deleting = site[r].deleting /\ site'[r].gone = site[r].gone
      BY <1>0, <3>1 DEF SiteRecords
    <3>3. SFrame
      BY <1>0, <2>2, <3>2 DEF Types, SFrame, Live
    <3>4. /\ o \in [Handlers -> HandlerRecords]
          /\ \A g \in Handlers : /\ o[g].pc = handler[g].pc
                                 /\ o[g].reg = handler[g].reg
                                 /\ o[g].key = handler[g].key
                                 /\ o[g].cluster = handler[g].cluster
                                 /\ o[g].address = handler[g].address
      BY <1>0, OutdateLemma
    <3> HIDE DEF o
    <3>5. handler'[h] = [o[h] EXCEPT !.pc = "token"] /\ o[h] \in HandlerRecords
      BY <2>2, <3>4
    <3>6. /\ handler'[h] \in HandlerRecords /\ handler'[h].pc = "token"
          /\ handler'[h].reg = o[h].reg /\ handler'[h].key = o[h].key
          /\ handler'[h].cluster = o[h].cluster /\ handler'[h].address = o[h].address
      BY <3>5 DEF HandlerRecords, HandlerPCs
    <3>7. handler' \in [Handlers -> HandlerRecords]
          /\ \A g \in Handlers : g # h => handler'[g] = o[g]
      BY <2>2, <3>4, <3>6
    <3>8. HFrame
      BY <1>0, <3>4, <3>6, <3>7 DEF HFrame, Holding, Past
    <3> QED BY <3>3, <3>8
  <2> QED BY <2>1, <2>2 DEF BindStatus
<1> QED BY <1>0, <1>1, <1>2, StepLemma DEF BindStatus, agents, Types

LEMMA RespondLemma ==
    ASSUME IInv, NEW h \in Handlers, Respond(h)
    PROVE  IInv'
<1> DEFINE c == handler[h].cluster
           i == [reg |-> handler[h].reg, key |-> handler[h].key, address |-> handler[h].address]
<1>0. /\ Types /\ handler[h].pc = "respond" /\ c \in Clusters /\ handler[h].reg \in Regs
      /\ handler[h].key \in Keys /\ handler[h].address \in Addresses
  BY DEF IInv, Types, Facts, Holds, Holding, HandlerRecords, Respond
<1>1. SFrame /\ CFrame /\ PFrame /\ HFrame
  BY <1>0, SameSite, SameController, SamePeers, FinishLemma DEF Respond, hub
<1>2. CASE identity[c] # None
  BY <1>0, <1>1, <1>2, StepLemma DEF Respond, Types
<1>3. CASE identity[c] = None
  <2>1. identity' = [identity EXCEPT ![c] = i] /\ bundle' = [bundle EXCEPT ![c] = None]
    BY <1>3 DEF Respond
  <2>2. i \in [reg: Regs, key: Keys, address: Addresses]
    BY <1>0
  <2>3. /\ i.reg = handler[h].reg /\ i.key = handler[h].key /\ i.address = handler[h].address
    OBVIOUS
  <2> HIDE DEF i
  <2>4. /\ identity'[c] = i /\ identity' \in [Clusters -> Identities]
        /\ \A d \in Clusters : d # c => identity'[d] = identity[d]
    BY <1>0, <2>1, <2>2 DEF Types, Identities
  <2>5. bundle' \in [Clusters -> Regs \cup {None}]
    BY <1>0, <2>1 DEF Types
  <2>6. /\ site' = site /\ peer' = peer /\ allocation' = allocation /\ ctl' = ctl
        /\ attempts' = attempts
    BY DEF Respond, hub
  <2>7. handler' = [handler EXCEPT ![h] = Idle]
    BY DEF Respond, Finish
  <2>8. /\ handler' \in [Handlers -> HandlerRecords] /\ handler'[h].pc = "idle"
        /\ \A g \in Handlers : g # h => handler'[g] = handler[g]
    BY <1>0, <2>7, IdleLemma DEF Types
  <2>9. Types' /\ BranchIsDue'
    BY <1>0, <2>4, <2>5, <2>6, <2>8 DEF Types, IInv, BranchIsDue
  <2>10. AllocationsDistinct' /\ PeerIsAllocated'
    BY <2>6 DEF IInv, Facts, AllocationsDistinct, PeerIsAllocated, Live
  <2>11. RequestIsAllocated' /\ RequestIsAuthorized' /\ Holds'
    BY <2>6, <2>8 DEF IInv, Facts, RequestIsAllocated, RequestIsAuthorized, Holds, Live,
                      Holding, Past
  <2>12. IdentityIsAuthorized'
    <3> SUFFICES ASSUME NEW d \in Clusters, identity'[d] # None, Live(identity[d].reg)'
                 PROVE peer'[identity'[d].reg] =
                         [key |-> identity'[d].key, address |-> identity'[d].address]
      BY DEF IdentityIsAuthorized
    <3>1. CASE d = c
      BY <1>0, <2>3, <2>4, <2>6, <3>1 DEF IInv, Facts, RequestIsAuthorized, Past, Live
    <3>2. CASE d # c
      BY <2>4, <2>6, <3>2 DEF IInv, Facts, IdentityIsAuthorized, Live
    <3> QED BY <3>1, <3>2
  <2> QED BY <2>9, <2>10, <2>11, <2>12 DEF IInv, Facts
<1> QED BY <1>2, <1>3

\* A bundle whose token is gone is forgotten.
LEMMA WithoutTokenLemma ==
    ASSUME Types, NEW r \in Regs
    PROVE  WithoutToken(r) \in [Clusters -> Regs \cup {None}]
  BY DEF Types, WithoutToken

LEMMA BindLemma ==
    ASSUME IInv, NEW h \in Handlers, Bind(h) \/ FailBind(h) \/ CrashBind(h)
    PROVE  IInv'
<1>0. Types
  BY DEF IInv
<1>1. CASE reserveAddress(h)
  BY <1>1, ReserveLemma
<1>2. CASE AuthorizePeer(h)
  BY <1>2, AuthorizePeerLemma
<1>3. CASE BindWritePeers(h)
  <2>1. SFrame /\ CFrame /\ PFrame
    BY <1>0, <1>3, SameSite, SameController, SamePeers DEF BindWritePeers
  <2>2. HFrame
    BY <1>0, <1>3, FinishLemma, GotoLemma DEF BindWritePeers, HandlerPCs, Holding, Past
  <2> QED BY <1>0, <1>3, <2>1, <2>2, StepLemma DEF BindWritePeers, agents, Types
<1>4. CASE BindStatus(h)
  BY <1>4, BindStatusLemma
<1>5. CASE ConsumeToken(h)
  <2>1. SFrame /\ CFrame /\ PFrame
    BY <1>0, <1>5, SameSite, SameController, SamePeers DEF ConsumeToken
  <2>2. HFrame
    BY <1>0, <1>5, FinishLemma, GotoLemma DEF ConsumeToken, HandlerPCs, Holding, Past
  <2>3. handler[h].reg \in Regs
    BY <1>0, <1>5 DEF Types, ConsumeToken
  <2>4. bundle' \in [Clusters -> Regs \cup {None}]
    BY <1>0, <1>5, <2>3, WithoutTokenLemma DEF ConsumeToken
  <2> QED BY <1>5, <2>1, <2>2, <2>4, StepLemma DEF ConsumeToken
<1>6. CASE Respond(h)
  BY <1>6, RespondLemma
<1>7. CASE FailBind(h)
  <2>1. SFrame /\ CFrame /\ PFrame /\ HFrame
    BY <1>0, <1>7, SameSite, SameController, SamePeers, FinishLemma DEF FailBind
  <2> QED BY <1>0, <1>7, <2>1, StepLemma DEF FailBind, agents, Types
<1>8. CASE CrashBind(h)
  <2>1. SFrame /\ CFrame /\ PFrame /\ HFrame
    BY <1>0, <1>8, SameSite, SameController, SamePeers, FinishLemma DEF CrashBind, hub
  <2> QED BY <1>0, <1>8, <2>1, StepLemma DEF CrashBind, agents, Types
<1> QED BY <1>1, <1>2, <1>3, <1>4, <1>5, <1>6, <1>7, <1>8 DEF Bind

-----------------------------------------------------------------------------
(* The controller.                                                         *)

LEMMA ReconcileLemma ==
    ASSUME IInv, NEW r \in Regs, Reconcile(r)
    PROVE  IInv'
<1>0. Types /\ identity' = identity /\ attempts' = attempts
  BY DEF IInv, Reconcile
<1>1. ASSUME NEW branch, Withdraw(r, branch), site[r].revoked \/ site[r].deleting
      PROVE  IInv'
  <2>1. SFrame /\ HFrame
    BY <1>0, <1>1, SameSite, SameHandler DEF Withdraw
  <2>2. CFrame
    BY <1>1 DEF Withdraw, Begin, CFrame
  <2>3. PFrame
    BY <1>0, <1>1, <2>1 DEF Withdraw, PFrame, SFrame, Live, Types, PeerLists, Peers
  <2>4. bundle' \in [Clusters -> Regs \cup {None}]
    BY <1>0, <1>1, WithoutTokenLemma DEF Withdraw
  <2> QED BY <1>0, <2>1, <2>2, <2>3, <2>4, StepLemma
<1>2. CASE /\ WriteSite(r, [site[r] EXCEPT !.finalizer = TRUE])
           /\ UNCHANGED <<token, bundle, peer, allocation, ctl, listed>>
  <2> DEFINE new == [site[r] EXCEPT !.finalizer = TRUE]
  <2>1. site[r] \in SiteRecords
    BY <1>0 DEF Types
  <2>2. /\ new \in SiteRecords /\ new.revoked = site[r].revoked
        /\ new.deleting = site[r].deleting /\ new.gone = site[r].gone
    BY <2>1 DEF SiteRecords
  <2>3. WriteSite(r, new)
    BY <1>2
  <2> HIDE DEF new
  <2>4. SFrame /\ HFrame
    BY <1>0, <2>2, <2>3, SiteLemma
  <2> QED BY <1>0, <1>2, <2>4, SamePeers, SameController, StepLemma DEF Types
<1>3. CASE /\ Begin(r, "render", "live")
           /\ UNCHANGED <<site, handler, token, bundle, peer, allocation>>
  <2>1. CFrame
    BY <1>3 DEF Begin, CFrame
  <2> QED BY <1>0, <1>3, <2>1, SameSite, SameHandler, SamePeers, StepLemma DEF Types
<1> QED BY <1>1, <1>2, <1>3 DEF Reconcile, Removable

LEMMA ControllerLemma ==
    ASSUME IInv, ControllerStep \/ FailReconcile
    PROVE  IInv'
<1>0. Types
  BY DEF IInv
<1>1. CASE CtlListPeers
  <2>1. SFrame /\ HFrame /\ PFrame
    BY <1>0, <1>1, SameSite, SameHandler, SamePeers DEF CtlListPeers, hub
  <2>2. CFrame
    BY <1>0, <1>1 DEF CtlListPeers, CtlGoto, CFrame, Types
  <2> QED BY <1>0, <1>1, <2>1, <2>2, StepLemma DEF CtlListPeers, agents, Types
<1>2. CASE CtlWritePeers
  <2>1. SFrame /\ HFrame /\ PFrame
    BY <1>0, <1>2, SameSite, SameHandler, SamePeers DEF CtlWritePeers
  <2>2. CFrame
    <3>1. CASE CtlGoto("finish")
      BY <1>2, <3>1 DEF CtlWritePeers, CtlGoto, CFrame
    <3>2. CASE CtlDone
      BY <3>2 DEF CtlDone, CFrame
    <3> QED BY <1>2, <3>1, <3>2 DEF CtlWritePeers
  <2> QED BY <1>0, <1>2, <2>1, <2>2, StepLemma DEF CtlWritePeers, agents, Types
<1>3. CASE IssueToken
  <2> DEFINE r == ctl.reg
  <2>1. r \in Regs
    BY <1>0, <1>3 DEF Types, IssueToken
  <2>2. HFrame
    BY <1>0, <1>3, <2>1, OutdatedLemma DEF IssueToken
  <2>3. SFrame
    <3>1. CASE site' = site
      BY <1>0, <3>1, SameSite
    <3>2. CASE site' = [site EXCEPT ![r].ready = (peer[r] # None)]
      <4>1. site[r] \in SiteRecords /\ site'[r] = [site[r] EXCEPT !.ready = (peer[r] # None)]
        BY <1>0, <2>1, <3>2 DEF Types
      <4>2. /\ site'[r] \in SiteRecords /\ site'[r].revoked = site[r].revoked
            /\ site'[r].deleting = site[r].deleting /\ site'[r].gone = site[r].gone
        BY <4>1 DEF SiteRecords
      <4> QED BY <1>0, <2>1, <3>2, <4>2 DEF Types, SFrame, Live
    <3> QED BY <1>3, <3>1, <3>2 DEF IssueToken
  <2>4. PFrame /\ CFrame
    BY <1>0, <1>3, SamePeers DEF IssueToken, CtlDone, CFrame
  <2> QED BY <1>0, <1>3, <2>2, <2>3, <2>4, StepLemma DEF IssueToken, agents, Types
<1>4. CASE FinishRevoked
  <2> DEFINE r == ctl.reg
             g == ctl.branch = "deleting" /\ gatewayObservedRevocation
             new == [site[r] EXCEPT !.ready = FALSE, !.gone = g]
  <2>1. r \in Regs /\ (site[r].revoked \/ site[r].deleting)
    BY <1>0, <1>4 DEF Types, IInv, BranchIsDue, FinishRevoked
  <2>2. site[r] \in SiteRecords /\ WriteSite(r, new)
    BY <1>0, <1>4, <2>1 DEF Types, FinishRevoked
  <2>3. g \in BOOLEAN
    OBVIOUS
  <2> HIDE DEF g
  <2>4. /\ new \in SiteRecords /\ new.revoked = site[r].revoked
        /\ new.deleting = site[r].deleting
    BY <2>2, <2>3 DEF SiteRecords
  <2> HIDE DEF new
  <2>5. SFrame /\ HFrame
    BY <1>0, <2>1, <2>2, <2>4, SiteLemma
  <2>6. PFrame /\ CFrame
    BY <1>0, <1>4, SamePeers DEF FinishRevoked, CtlDone, CFrame, hub
  <2> QED BY <1>0, <1>4, <2>5, <2>6, StepLemma DEF FinishRevoked, agents, Types
<1>5. CASE FailReconcile
  <2>1. SFrame /\ HFrame /\ PFrame
    BY <1>0, <1>5, SameSite, SameHandler, SamePeers DEF FailReconcile, hub
  <2>2. CFrame
    BY <1>5 DEF FailReconcile, CtlDone, CFrame
  <2> QED BY <1>0, <1>5, <2>1, <2>2, StepLemma DEF FailReconcile, agents, Types
<1> QED BY <1>1, <1>2, <1>3, <1>4, <1>5 DEF ControllerStep

LEMMA EnvironmentLemma ==
    ASSUME IInv, (\E r \in Regs : Expire(r) \/ CollectGarbage(r)) \/ ObserveDeployment
    PROVE  IInv'
<1>0. Types
  BY DEF IInv
<1>1. ASSUME NEW r \in Regs, Expire(r) PROVE IInv'
  <2>1. SFrame /\ HFrame /\ PFrame /\ CFrame
    BY <1>0, <1>1, SameSite, SameHandler, SamePeers, SameController DEF Expire
  <2>2. bundle' \in [Clusters -> Regs \cup {None}]
    BY <1>0, <1>1, WithoutTokenLemma DEF Expire
  <2> QED BY <1>1, <2>1, <2>2, StepLemma DEF Expire
<1>2. ASSUME NEW r \in Regs, CollectGarbage(r) PROVE IInv'
  <2>1. SFrame /\ HFrame /\ CFrame
    BY <1>0, <1>2, SameSite, SameHandler, SameController DEF CollectGarbage
  <2>2. PFrame
    BY <1>0, <1>2 DEF CollectGarbage, PFrame, Live, Types, PeerLists, Peers
  <2>3. bundle' \in [Clusters -> Regs \cup {None}]
    BY <1>0, <1>2, WithoutTokenLemma DEF CollectGarbage
  <2> QED BY <1>2, <2>1, <2>2, <2>3, StepLemma DEF CollectGarbage
<1>3. CASE ObserveDeployment
  <2>1. SFrame /\ HFrame /\ PFrame /\ CFrame
    BY <1>0, <1>3, SameSite, SameHandler, SamePeers, SameController DEF ObserveDeployment
  <2> QED BY <1>0, <1>3, <2>1, StepLemma DEF ObserveDeployment, agents, Types
<1> QED BY <1>1, <1>2, <1>3

-----------------------------------------------------------------------------
LEMMA InitLemma == Init => IInv
<1> SUFFICES ASSUME Init PROVE IInv
  OBVIOUS
<1>1. Types
  BY IdleLemma, ConstantsAssumption
  DEF Init, Types, SiteRecords, NoPeers, PeerLists, Peers, Identities, Idle
<1>2. BranchIsDue /\ Facts
  BY DEF Init, BranchIsDue, Facts, AllocationsDistinct, PeerIsAllocated, NoPeers, Idle, Holding,
         RequestIsAllocated, RequestIsAuthorized, IdentityIsAuthorized, Holds, Past
<1> QED BY <1>1, <1>2 DEF IInv

LEMMA NextLemma == IInv /\ [Next]_vars => IInv'
<1> SUFFICES ASSUME IInv, [Next]_vars PROVE IInv'
  OBVIOUS
<1>0. Types
  BY DEF IInv
<1>1. CASE UNCHANGED vars
  BY <1>0, <1>1, SameSite, SameHandler, SamePeers, SameController, StepLemma DEF vars, Types
<1>2. CASE Next
  BY <1>2, OperatorLemma, AuthorizeLemma, BindLemma, ReconcileLemma, ControllerLemma,
     EnvironmentLemma DEF Next, Fault
<1> QED BY <1>1, <1>2

LEMMA InductiveLemma == Spec => []IInv
  BY InitLemma, NextLemma, PTL DEF Spec

\* The key and the address in an installed identity are those of the peer the
\* hub authorised, however many bind requests, revocations and reconciles
\* overlapped (AuthorizePeer, BindResponse, bootstrapIfRequired).
THEOREM IdentityTheorem == Spec => []IdentityIsAuthorized
<1>1. IInv => IdentityIsAuthorized
  BY DEF IInv, Facts
<1> QED BY <1>1, InductiveLemma, PTL

\* Registrations that may connect have peers with different addresses
\* (reserveAddress, releaseAddress).
THEOREM AddressTheorem == Spec => []LivePeersDistinct
<1>1. IInv => LivePeersDistinct
  BY DEF IInv, Facts, AllocationsDistinct, PeerIsAllocated, LivePeersDistinct
<1> QED BY <1>1, InductiveLemma, PTL
=============================================================================
