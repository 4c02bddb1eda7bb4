---------------------------- MODULE Registration ----------------------------
(***************************************************************************)
(* How a target cluster becomes a site and stops being one.                *)
(*                                                                         *)
(* The site-registration controller issues a one-time token per            *)
(* SiteRegistration and publishes its URL; an operator applies the bundle  *)
(* that carries it to a cluster; every agent replica of the cluster posts  *)
(* a bind request with a fresh WireGuard key; the registration server      *)
(* claims the cluster UID, reserves a tunnel address, authorises the peer, *)
(* renders the gateway's peer list, records the cluster in the status and  *)
(* consumes the token.  Revoking or deleting the registration undoes the   *)
(* peer, the address and the token.  Requests run concurrently with each   *)
(* other and with the controller, all against one API server, and every    *)
(* API call below is a step of its own unless a comment says why not.      *)
(***************************************************************************)
EXTENDS Naturals, FiniteSets

CONSTANTS
    Regs,           \* SiteRegistration objects
    Clusters,       \* target clusters, by the UID of their kube-system namespace
    MaxHandlers,    \* bind requests the registration server holds at once
    None,
    Bundles,        \* pairs <<cluster, registration>> operators apply, by mistake too
    Established,    \* registrations whose first reconciles are over
    Referenced,     \* registrations some instance names at first
    MaxAddress,     \* host addresses of the tunnel network
    MaxAttempts,    \* bind requests sent, each with a key of its own
    MaxApplies,     \* bundles applied by operators
    MaxDisturbances \* registrations revoked or deleted, failed calls, crashed
                    \* processes, expired tokens and reconciles out of turn

ASSUME ConstantsAssumption ==
    /\ Bundles \subseteq Clusters \X Regs
    /\ Referenced \subseteq Regs /\ Established \subseteq Regs
    /\ None \notin Regs \cup Clusters \cup Nat \cup [key: Nat, address: Nat]
    /\ MaxHandlers \in Nat /\ MaxAddress \in Nat /\ MaxAttempts \in Nat /\ MaxApplies \in Nat
    /\ MaxDisturbances \in Nat

VARIABLES
    site,           \* the SiteRegistration objects, spec and status
    referenced,     \* registrations some MultiSitePostgres names
    token,          \* Secrets registration-<uid>
    peer,           \* Secrets wireguard-peer-<uid>
    allocation,     \* ConfigMap of tunnel addresses, by registration UID
    claim,          \* ConfigMaps that claim a cluster UID, by owner
    rendered,       \* ConfigMap peers.conf
    gateway,        \* the gateway Deployment: peers hashed in its template, rollout seen
    handler,        \* bind requests in flight
    ctl,            \* the controller's one worker
    listed,         \* peers read by the RenderPeers each of them is in
    bundle,         \* per cluster, the registration whose current token it holds
    identity,       \* Secrets mspsql-agent-identity
    attempts, applies, disturbances

vars == <<site, referenced, token, peer, allocation, claim, rendered, gateway, handler,
          ctl, listed, bundle, identity, attempts, applies, disturbances>>

hub == <<token, peer, allocation, claim, rendered, gateway>>
agents == <<bundle, identity, attempts, applies>>

Handlers == 1..MaxHandlers
Controller == 0
Workers == Handlers \cup {Controller}
Addresses == 1..MaxAddress
Keys == 1..MaxAttempts

Peers == [key: Keys, address: Addresses] \cup {None}
PeerLists == [Regs -> Peers]
NoPeers == [r \in Regs |-> None]

Idle == [pc |-> "idle", reg |-> None, cluster |-> None, key |-> None,
         address |-> None, created |-> FALSE, fresh |-> FALSE]

\* Steps of a bind request at which an error makes the server release the
\* claim the request created; later errors leave the claim where it is.
Undoing == {"reserve", "peer", "render"}
HandlerPCs == {"idle", "status", "token", "respond"} \cup Undoing
ControllerPCs == {"idle", "list", "render", "finish"}

\* Neither revoked nor being deleted: the registration may connect.
Live(r) == ~site[r].revoked /\ ~site[r].deleting /\ ~site[r].gone

TypeOK ==
    /\ site \in [Regs -> [revoked: BOOLEAN, deleting: BOOLEAN, gone: BOOLEAN,
                          finalizer: BOOLEAN, bound: Clusters \cup {None},
                          ready: BOOLEAN]]
    /\ referenced \in SUBSET Regs
    /\ token \in [Regs -> {"none", "hidden", "valid", "expired"}]
    /\ peer \in PeerLists
    /\ allocation \in [Regs -> Addresses \cup {None}]
    /\ claim \in [Clusters -> Regs \cup {None}]
    /\ rendered \in PeerLists
    /\ gateway \in [stamp: PeerLists, observed: BOOLEAN]
    /\ handler \in [Handlers -> [pc: HandlerPCs, reg: Regs \cup {None},
                                 cluster: Clusters \cup {None}, key: Keys \cup {None},
                                 address: Addresses \cup {None},
                                 created: BOOLEAN, fresh: BOOLEAN]]
    /\ ctl \in [pc: ControllerPCs, reg: Regs \cup {None},
                branch: {"none", "live", "revoked", "deleting"}]
    /\ listed \in [Workers -> PeerLists]
    /\ bundle \in [Clusters -> Regs \cup {None}]
    /\ identity \in [Clusters -> [reg: Regs, key: Keys, address: Addresses] \cup {None}]
    /\ attempts \in 0..MaxAttempts /\ applies \in 0..MaxApplies
    /\ disturbances \in 0..MaxDisturbances

Init ==
    /\ site = [r \in Regs |-> [revoked |-> FALSE, deleting |-> FALSE, gone |-> FALSE,
                               finalizer |-> r \in Established, bound |-> None,
                               ready |-> FALSE]]
    /\ referenced = Referenced
    /\ token = [r \in Regs |-> IF r \in Established THEN "valid" ELSE "none"]
    /\ peer = NoPeers
    /\ allocation = [r \in Regs |-> None]
    /\ claim = [c \in Clusters |-> None]
    /\ rendered = NoPeers
    /\ gateway = [stamp |-> NoPeers, observed |-> TRUE]
    /\ handler = [h \in Handlers |-> Idle]
    /\ ctl = [pc |-> "idle", reg |-> None, branch |-> "none"]
    /\ listed = [w \in Workers |-> NoPeers]
    /\ bundle = [c \in Clusters |-> None]
    /\ identity = [c \in Clusters |-> None]
    /\ attempts = 0 /\ applies = 0 /\ disturbances = 0

-----------------------------------------------------------------------------
\* Everything unexpected draws on one budget.
Disturb ==
    /\ disturbances < MaxDisturbances
    /\ disturbances' = disturbances + 1

\* Optimistic concurrency: writing a new version of registration r makes the
\* copy every bind request of r has read out of date.
Outdate(hs, r) ==
    [h \in Handlers |-> IF hs[h].reg = r THEN [hs[h] EXCEPT !.fresh = FALSE] ELSE hs[h]]

WriteSite(r, new) ==
    /\ site' = [site EXCEPT ![r] = new]
    /\ handler' = IF new = site[r] THEN handler ELSE Outdate(handler, r)

\* Bundles whose token no longer exists cannot authorise anything.
WithoutToken(r) == [c \in Clusters |-> IF bundle[c] = r THEN None ELSE bundle[c]]

\* RenderPeers: list the peer Secrets, then write what was listed to peers.conf
\* and its hash to the gateway's pod template.  The two writes are one step:
\* what a failure between them leaves is the second disjunct.
ListPeers(w) == listed' = [listed EXCEPT ![w] = peer]

updateGatewayPeerHash(peers) ==
    IF gateway.stamp = peers THEN gateway ELSE [stamp |-> peers, observed |-> FALSE]

\* A mutated form that stops where peers.conf needs no change.
WritePeersUnchanged(w) ==
    /\ rendered' = listed[w]
    /\ gateway' = IF rendered = listed[w] THEN gateway ELSE updateGatewayPeerHash(listed[w])
    /\ listed' = [listed EXCEPT ![w] = NoPeers]

WritePeers(w) ==
    /\ rendered' = listed[w]
    /\ gateway' = updateGatewayPeerHash(listed[w])
    /\ listed' = [listed EXCEPT ![w] = NoPeers]

WriteOnly(w) ==
    /\ Disturb
    /\ rendered' = listed[w]
    /\ listed' = [listed EXCEPT ![w] = NoPeers]
    /\ UNCHANGED gateway

-----------------------------------------------------------------------------
(* The operator and the agent.                                             *)

\* Fetch the published bundle of r and apply it to cluster c.
ApplyBundle(c, r) ==
    /\ applies < MaxApplies
    /\ token[r] = "valid" /\ ~site[r].revoked /\ ~site[r].gone
    /\ identity[c] = None /\ bundle[c] # r
    /\ bundle' = [bundle EXCEPT ![c] = r]
    /\ applies' = applies + 1
    /\ UNCHANGED <<site, referenced, hub, handler, ctl, listed, identity, attempts, disturbances>>

Revoke(r) ==
    /\ Disturb
    /\ ~site[r].revoked /\ ~site[r].gone
    /\ WriteSite(r, [site[r] EXCEPT !.revoked = TRUE])
    /\ UNCHANGED <<referenced, hub, ctl, listed, agents>>

\* Without the finalizer there is nothing to wait for.
Delete(r) ==
    /\ Disturb
    /\ ~site[r].deleting /\ ~site[r].gone
    /\ WriteSite(r, [site[r] EXCEPT !.deleting = TRUE, !.gone = ~site[r].finalizer])
    /\ UNCHANGED <<referenced, hub, ctl, listed, agents>>

\* The last instance that names r is removed.  Only the deletion looks.
Unreference(r) ==
    /\ r \in referenced /\ site[r].deleting
    /\ referenced' = referenced \ {r}
    /\ UNCHANGED <<site, hub, handler, ctl, listed, agents, disturbances>>

-----------------------------------------------------------------------------
(* One bind request.                                                       *)

Goto(h, pc) == handler' = [handler EXCEPT ![h].pc = pc]
Finish(h) == handler' = [handler EXCEPT ![h] = Idle]

releaseClusterUIDClaim(h) ==
    LET c == handler[h].cluster IN
    claim' = IF handler[h].created /\ claim[c] = handler[h].reg
             THEN [claim EXCEPT ![c] = None] ELSE claim

\* The first write of a request: the claim of the cluster UID is created, found
\* to be this registration's already, or found to be another's.
acquireClusterUIDClaim(h, c, r) ==
    LET request(created) ==
          [pc |-> "reserve", reg |-> r, cluster |-> c, key |-> attempts + 1,
           address |-> None, created |-> created, fresh |-> TRUE] IN
    \/ /\ claim[c] = None
       /\ claim' = [claim EXCEPT ![c] = r]
       /\ handler' = [handler EXCEPT ![h] = request(TRUE)]
    \/ /\ claim[c] = r
       /\ handler' = [handler EXCEPT ![h] = request(FALSE)]
       /\ UNCHANGED claim
    \/ /\ claim[c] \notin {None, r}
       /\ UNCHANGED <<claim, handler>>

\* An agent replica without an identity sends a bind request with a new key;
\* the server accepts the token of an unrevoked registration that is not bound
\* to another cluster.  Both replicas do so, before they elect a leader, and a
\* replica whose request timed out does so again while the old one still runs.
\* Reading the registration and claiming the cluster are one step: a request
\* that is slow to claim finds what it would have found had it claimed at once,
\* or is refused.
Authorize(h, c) ==
    LET r == bundle[c] IN
    /\ handler[h].pc = "idle" /\ \A g \in 1..(h - 1) : handler[g].pc # "idle"
    /\ attempts < MaxAttempts
    /\ identity[c] = None /\ r # None
    /\ token[r] = "valid" /\ ~site[r].revoked /\ ~site[r].gone
    /\ site[r].bound \in {None, c}
    /\ acquireClusterUIDClaim(h, c, r)
    /\ attempts' = attempts + 1
    /\ UNCHANGED <<site, referenced, token, peer, allocation, rendered, gateway, ctl, listed,
                   bundle, identity, applies, disturbances>>

\* Addresses no registration holds; the mutated form asks the peers.
UnusedByPeers == Addresses \ {peer[r].address : r \in {s \in Regs : peer[s] # None}}
Unused == Addresses \ {allocation[r] : r \in Regs}

\* What a registration holds already, else the lowest unused address, if any.
Reservation(r) ==
    IF allocation[r] # None \/ Unused = {} THEN allocation[r]
    ELSE CHOOSE a \in Unused : \A b \in Unused : a <= b

reserveAddress(h) ==
    LET r == handler[h].reg
        address == Reservation(r) IN
    /\ handler[h].pc = "reserve"
    /\ IF address = None
       THEN releaseClusterUIDClaim(h) /\ Finish(h)
       ELSE /\ handler' = [handler EXCEPT ![h].pc = "peer", ![h].address = address]
            /\ UNCHANGED claim
    /\ allocation' = [allocation EXCEPT ![r] = address]
    /\ UNCHANGED <<site, referenced, token, peer, rendered, gateway, ctl, listed, agents,
                   disturbances>>

CreatePeer(h) ==
    /\ peer' = [peer EXCEPT ![handler[h].reg] =
         [key |-> handler[h].key, address |-> handler[h].address]]
    /\ listed' = [listed EXCEPT ![h] = peer']
    /\ Goto(h, "render")
    /\ UNCHANGED claim

\* A mutated form that takes the Secret it finds for its own.
AuthorizePeerFound(h) ==
    /\ handler[h].pc = "peer"
    /\ IF peer[handler[h].reg] = None THEN CreatePeer(h)
       ELSE ListPeers(h) /\ Goto(h, "render") /\ UNCHANGED <<peer, claim>>
    /\ UNCHANGED <<site, referenced, token, allocation, rendered, gateway, ctl, agents,
                   disturbances>>

\* The Secret is created once, and a request that finds one must bring its key:
\* no two do, every request has a key of its own.  RenderPeers lists as soon as
\* the peer is created; a later list would only be fresher.
AuthorizePeer(h) ==
    LET r == handler[h].reg IN
    /\ handler[h].pc = "peer"
    /\ \/ peer[r] = None /\ CreatePeer(h)
       \/ /\ peer[r] # None /\ peer[r].key # handler[h].key
          /\ releaseClusterUIDClaim(h)
          /\ Finish(h)
          /\ UNCHANGED <<peer, listed>>
    /\ UNCHANGED <<site, referenced, token, allocation, rendered, gateway, ctl, agents,
                   disturbances>>

BindWritePeers(h) ==
    /\ handler[h].pc = "render"
    /\ \/ /\ WritePeers(h)
          /\ Goto(h, "status")
          /\ UNCHANGED <<claim, disturbances>>
       \/ /\ WriteOnly(h)
          /\ releaseClusterUIDClaim(h)
          /\ Finish(h)
    /\ UNCHANGED <<site, referenced, token, peer, allocation, ctl, agents>>

\* The status is written with the version read by authorize; a newer one fails
\* the request and leaves the claim and the peer behind.
BindStatus(h) ==
    LET r == handler[h].reg IN
    /\ handler[h].pc = "status"
    /\ \/ /\ handler[h].fresh /\ ~site[r].gone
          /\ site' = [site EXCEPT ![r].bound = handler[h].cluster]
          /\ handler' = [Outdate(handler, r) EXCEPT ![h].pc = "token"]
       \/ /\ ~handler[h].fresh \/ site[r].gone
          /\ Finish(h)
          /\ UNCHANGED site
    /\ UNCHANGED <<referenced, hub, ctl, listed, agents, disturbances>>

\* Deleting the token by name; one that is already gone fails the request.
ConsumeToken(h) ==
    LET r == handler[h].reg IN
    /\ handler[h].pc = "token"
    /\ IF token[r] = "none" THEN Finish(h) ELSE Goto(h, "respond")
    /\ token' = [token EXCEPT ![r] = "none"]
    /\ bundle' = WithoutToken(r)
    /\ UNCHANGED <<site, referenced, peer, allocation, claim, rendered, gateway, ctl, listed,
                   identity, attempts, applies, disturbances>>

\* The replica stores what it was given and scrubs the bootstrap Secret; the
\* Secret of another replica that came first is not overwritten.
Respond(h) ==
    LET c == handler[h].cluster IN
    /\ handler[h].pc = "respond"
    /\ IF identity[c] = None
       THEN /\ identity' = [identity EXCEPT ![c] =
                 [reg |-> handler[h].reg, key |-> handler[h].key,
                  address |-> handler[h].address]]
            /\ bundle' = [bundle EXCEPT ![c] = None]
       ELSE UNCHANGED <<identity, bundle>>
    /\ Finish(h)
    /\ UNCHANGED <<site, referenced, hub, ctl, listed, attempts, applies, disturbances>>

\* An API call of the request fails, or its answer is lost on the way.
FailBind(h) ==
    /\ handler[h].pc # "idle"
    /\ Disturb
    /\ IF handler[h].pc \in Undoing THEN releaseClusterUIDClaim(h) ELSE UNCHANGED claim
    /\ Finish(h)
    /\ listed' = [listed EXCEPT ![h] = NoPeers]
    /\ UNCHANGED <<site, referenced, token, peer, allocation, rendered, gateway, ctl, agents>>

\* The registration server's process ends in the middle of the request.
CrashBind(h) ==
    /\ handler[h].pc \in Undoing /\ handler[h].created
    /\ Disturb
    /\ Finish(h)
    /\ listed' = [listed EXCEPT ![h] = NoPeers]
    /\ UNCHANGED <<site, referenced, hub, ctl, agents>>

Bind(h) ==
    \/ reserveAddress(h) \/ AuthorizePeer(h)
    \/ BindWritePeers(h) \/ BindStatus(h)
    \/ ConsumeToken(h) \/ Respond(h)

-----------------------------------------------------------------------------
(* The site-registration controller.                                       *)

CtlGoto(pc) == ctl' = [ctl EXCEPT !.pc = pc]
CtlDone == ctl' = [pc |-> "idle", reg |-> None, branch |-> "none"]
Begin(r, pc, branch) == ctl' = [pc |-> pc, reg |-> r, branch |-> branch]

\* The branch is chosen from the object as it was read here.  A live
\* registration goes on to list the peers.  reconcileRevoked deletes the token,
\* RevokePeer the peer and the allocation; the three calls are one step, since
\* a request that consumes the token, reserves or creates the peer between
\* them does the same before or after them.  A deletion that is still
\* referenced only reports so.
Withdraw(r, branch) ==
    /\ token' = [token EXCEPT ![r] = "none"]
    /\ bundle' = WithoutToken(r)
    /\ peer' = [peer EXCEPT ![r] = None]
    /\ allocation' = [allocation EXCEPT ![r] = None]
    /\ Begin(r, "list", branch)
    /\ UNCHANGED <<site, handler, listed>>

\* A deletion goes ahead once no instance names the registration.
Removable(r) == site[r].deleting /\ r \notin referenced

\* What the requeue, an event or the informer's resync leads to something: a
\* pass that finds everything in place changes nothing unless another process
\* gets in between, and is a disturbance.
Unrendered == rendered # peer \/ gateway.stamp # peer

Needed(r) ==
    \/ Unrendered \/ ~site[r].finalizer
    \/ site[r].ready # (Live(r) /\ peer[r] # None)
    \/ Live(r) /\ token[r] \in {"none", "expired"}
    \/ ~Live(r) /\ (token[r] # "none" \/ peer[r] # None \/ allocation[r] # None)
    \/ site[r].deleting /\ gateway.observed

Reconcile(r) ==
    /\ ctl.pc = "idle" /\ ~site[r].gone
    /\ IF Needed(r) THEN UNCHANGED disturbances ELSE Disturb
    /\ \/ /\ Removable(r)
          /\ Withdraw(r, "deleting")
       \/ /\ ~site[r].deleting /\ site[r].finalizer /\ site[r].revoked
          /\ Withdraw(r, "revoked")
       \/ /\ ~site[r].deleting /\ ~site[r].finalizer
          /\ WriteSite(r, [site[r] EXCEPT !.finalizer = TRUE])
          /\ UNCHANGED <<token, bundle, peer, allocation, ctl, listed>>
       \/ /\ Live(r) /\ site[r].finalizer
          /\ ListPeers(Controller)
          /\ Begin(r, "render", "live")
          /\ UNCHANGED <<site, handler, token, bundle, peer, allocation>>
    /\ UNCHANGED <<referenced, claim, rendered, gateway, identity, attempts, applies>>

CtlListPeers ==
    /\ ctl.pc = "list"
    /\ ListPeers(Controller)
    /\ CtlGoto("render")
    /\ UNCHANGED <<site, referenced, hub, handler, agents, disturbances>>

CtlWritePeers ==
    /\ ctl.pc = "render"
    /\ \/ /\ WritePeers(Controller)
          /\ CtlGoto("finish")
          /\ UNCHANGED disturbances
       \/ /\ WriteOnly(Controller)
          /\ CtlDone
    /\ UNCHANGED <<site, referenced, token, peer, allocation, claim, handler, agents>>

\* A missing or expired token is replaced, also the one a bind has consumed.
\* Only the status holds its value: when that write fails the token is hidden,
\* of use to nobody, until it expires.
IssueToken ==
    LET r == ctl.reg
        issue == token[r] \in {"none", "expired"} IN
    /\ ctl.pc = "finish" /\ ctl.branch = "live"
    /\ \/ /\ token' = IF issue THEN [token EXCEPT ![r] = "valid"] ELSE token
          /\ site' = [site EXCEPT ![r].ready = (peer[r] # None)]
          /\ handler' = IF issue \/ site' # site THEN Outdate(handler, r) ELSE handler
          /\ UNCHANGED disturbances
       \/ /\ issue /\ Disturb
          /\ token' = [token EXCEPT ![r] = "hidden"]
          /\ UNCHANGED <<site, handler>>
    /\ CtlDone
    /\ UNCHANGED <<referenced, peer, allocation, claim, rendered, gateway, listed, agents>>

gatewayObservedRevocation == gateway.stamp = rendered /\ gateway.observed

\* The status of a revoked registration is written; the finalizer of a deleted
\* one is removed once the gateway has taken the rendered peers.
FinishRevoked ==
    LET r == ctl.reg IN
    /\ ctl.pc = "finish" /\ ctl.branch \in {"revoked", "deleting"}
    /\ WriteSite(r, [site[r] EXCEPT !.ready = FALSE,
         !.gone = ctl.branch = "deleting" /\ gatewayObservedRevocation])
    /\ CtlDone
    /\ UNCHANGED <<referenced, hub, listed, agents, disturbances>>

\* The reconcile fails or the hub restarts; the object is reconciled again.
FailReconcile ==
    /\ ctl.pc \notin {"idle", "finish"}
    /\ Disturb
    /\ CtlDone
    /\ listed' = [listed EXCEPT ![Controller] = NoPeers]
    /\ UNCHANGED <<site, referenced, hub, handler, agents>>

ControllerStep ==
    \/ CtlListPeers \/ CtlWritePeers
    \/ IssueToken \/ FinishRevoked

-----------------------------------------------------------------------------
(* Time, the garbage collector and the gateway.                            *)

\* A token runs out.
Expire(r) ==
    /\ \/ token[r] = "hidden" /\ UNCHANGED disturbances
       \/ token[r] = "valid" /\ Disturb
    /\ token' = [token EXCEPT ![r] = "expired"]
    /\ bundle' = WithoutToken(r)
    /\ UNCHANGED <<site, referenced, peer, allocation, claim, rendered, gateway, handler, ctl,
                   listed, identity, attempts, applies>>

\* Token and peer Secrets are owned by the registration and go with it, also
\* those a late request creates; the mutated form knows an unowned peer.
CollectTokens(r) ==
    /\ site[r].gone /\ token[r] # "none"
    /\ token' = [token EXCEPT ![r] = "none"]
    /\ bundle' = WithoutToken(r)
    /\ UNCHANGED <<site, referenced, peer, allocation, claim, rendered, gateway, handler, ctl,
                   listed, identity, attempts, applies, disturbances>>

CollectGarbage(r) ==
    /\ site[r].gone
    /\ token[r] # "none" \/ peer[r] # None
    /\ token' = [token EXCEPT ![r] = "none"]
    /\ bundle' = WithoutToken(r)
    /\ peer' = [peer EXCEPT ![r] = None]
    /\ UNCHANGED <<site, referenced, allocation, claim, rendered, gateway, handler, ctl,
                   listed, identity, attempts, applies, disturbances>>

ObserveDeployment ==
    /\ ~gateway.observed
    /\ gateway' = [gateway EXCEPT !.observed = TRUE]
    /\ UNCHANGED <<site, referenced, token, peer, allocation, claim, rendered, handler, ctl,
                   listed, agents, disturbances>>

-----------------------------------------------------------------------------
Operator ==
    \/ \E p \in Bundles : ApplyBundle(p[1], p[2])
    \/ \E r \in Regs : Revoke(r) \/ Delete(r) \/ Unreference(r)

Fault == FailReconcile \/ \E h \in Handlers : FailBind(h) \/ CrashBind(h)

Next ==
    \/ Operator \/ Fault
    \/ \E h \in Handlers : Bind(h) \/ \E c \in Clusters : Authorize(h, c)
    \/ \E r \in Regs : Reconcile(r) \/ Expire(r) \/ CollectGarbage(r)
    \/ ControllerStep \/ ObserveDeployment

Spec == Init /\ [][Next]_vars

\* The steps that need no operator, no agent and no failure.
SystemStep ==
    \/ ControllerStep \/ ObserveDeployment
    \/ \E h \in Handlers : Bind(h)
    \/ \E r \in Regs : CollectGarbage(r)
    \/ \E r \in Regs : Needed(r) /\ Reconcile(r)
    \/ \E r \in Regs : token[r] = "hidden" /\ Expire(r)

\* Requests and reconciles run to their end, a registration that needs one is
\* reconciled (events, requeues and the informer's resync), and the garbage
\* collector and the Deployment controller keep running.  Operators and agents
\* promise nothing.
Fairness == WF_vars(SystemStep)

FairSpec == Spec /\ Fairness

-----------------------------------------------------------------------------
(* Properties.                                                             *)

\* The identity a site installed is the one the hub authorised: while its
\* registration may connect, the peer Secret holds the very key and address of
\* the identity Secret (AuthorizePeer's comparison, BindResponse), whichever of
\* the concurrent bind requests won.
IdentityIsAuthorized ==
    \A c \in Clusters : identity[c] # None /\ Live(identity[c].reg) =>
        peer[identity[c].reg] = [key |-> identity[c].key, address |-> identity[c].address]

\* Two registrations that may connect never share a tunnel address, although
\* revocation hands addresses back while bind requests are still running
\* (reserveAddress, releaseAddress).
LivePeersDistinct ==
    \A r, s \in Regs : r # s /\ Live(r) /\ Live(s) /\ peer[r] # None /\ peer[s] # None =>
        peer[r].address # peer[s].address

\* Whatever stale list a slow RenderPeers writes last, the gateway ends up with
\* exactly the peers of the registrations that are neither revoked nor removed,
\* as long as one registration is left to be reconciled.  A deletion that is
\* blocked by a reference keeps its peer, revoked or not.
Kept(r) ==
    /\ ~site[r].gone
    /\ IF site[r].deleting THEN r \in referenced ELSE ~site[r].revoked

Reconciled(r) ==
    ~site[r].gone /\ site[r].finalizer /\ (site[r].deleting => r \notin referenced)

GatewayConverges ==
    LET authorized == [r \in Regs |-> IF Kept(r) THEN peer[r] ELSE None] IN
    <>[]((\E r \in Regs : Reconciled(r)) =>
            rendered = authorized /\ gateway.stamp = authorized)

\* A deletion that nothing references ends, with the token and the peer gone.
RemovalEnds ==
    \A r \in Regs : (site[r].deleting /\ r \notin referenced)
        ~> (site[r].gone /\ token[r] = "none" /\ peer[r] = None)

\* A cluster is bound to at most one registration that may connect: the claim
\* is taken before the binding and decides between registrations.
BindingIsExclusive ==
    \A r, s \in Regs : r # s /\ Live(r) /\ Live(s) /\ site[r].bound # None =>
        site[r].bound # site[s].bound
=============================================================================
