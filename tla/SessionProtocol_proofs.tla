----------------------- MODULE SessionProtocol_proofs -----------------------
(* A MockRTCServerPeer implements SessionProtocol, and its close() reaches  *)
(* every live session with what is proxied to it: for every set of sessions *)
(* and external connections, every set of step lists, both kinds of peer.   *)
EXTENDS MockRTCServerPeer_proofs

(* close() of the peer.                                                    *)

\* close() of a peer closes the live session m, which is tracked, and with it the partner x of m,
\* because the closure of m is announced inside the call.
LEMMA CloseReaches ==
    ASSUME IInv, PeerClose, NEW m \in Mocks, native[m] \in LiveStates, raw[m] = "open"
    PROVE  /\ raw'[m] = "null"
           /\ \A x \in Conns : <<m, x>> \in mirror => raw'[x] = "null"
<1>1. tracked \in SUBSET Conns /\ m \in tracked /\ m \in Conns
    BY Pools DEF IInv, PeerTypeOK, LiveAreTracked, Peered
<1>2. Drop(CloseCalls(tracked))
    BY DEF PeerClose, CloseConns, Close
<1>3. raw'[m] = "null"
    BY <1>1, <1>2, CloseCallsContain DEF Drop
<1>4. ASSUME NEW x \in Conns, <<m, x>> \in mirror PROVE raw'[x] = "null"
    <2>1. x \in Externals \cup Proxies
        BY <1>4, PeerAssumption DEF IInv, ConnIInv, ConnTypeOK
    <2>2. raw[x] # "none"
        BY <1>4, <2>1 DEF IInv, OneUser, Uses, Holds
    <2>3. x \in Partners({m}) /\ CloseEmits(m)
        BY <1>4 DEF Partners, CloseEmits, LiveStates
    <2>4. QED BY <1>1, <1>2, <1>3, <2>2, <2>3, DropReachesPartners DEF IInv, ConnIInv
<1>5. QED BY <1>3, <1>4

\* MockRTCServerPeer.close() reaches every live session, and through the mirrored closures the
\* external connection that it is proxied to, although a peer proxy's connection is tracked by
\* nobody.
THEOREM ClosesReachAll == Spec => CloseReachesAll
<1>1. IInv /\ [Next]_vars
        => [PeerClose => \A m \in Mocks : native[m] \in LiveStates /\ raw[m] = "open"
              => /\ raw'[m] = "null"
                 /\ \A x \in Conns : <<m, x>> \in mirror => raw'[x] = "null"]_vars
    BY CloseReaches
<1>2. QED BY <1>1, IInvHolds, PTL DEF Spec, CloseReachesAll

-----------------------------------------------------------------------------
(* Every step extends the log of each session as the protocol allows.       *)

\* What SessionProtocol lets become of the log of a session.
Extends(old, new) ==
    \/ new = old
    \/ old = <<>> /\ new = <<"peer-connected">>
    \/ \E event \in {"external-peer-attached", "peer-disconnected"} :
          /\ old # <<>> /\ ~\E i \in 1 .. Len(old) : old[i] = event
          /\ new = Append(old, event)

\* A listener that is still registered announces what was not announced yet.
LEMMA FitExtends ==
    ASSUME NEW log, NEW left, Fit(log, left)
    PROVE  /\ "connected" \in left => Extends(log, Append(log, "peer-connected"))
           /\ "attached" \in left => Extends(log, Append(log, "external-peer-attached"))
           /\ "closed" \in left => Extends(log, Append(log, "peer-disconnected"))
<1> DEFINE c == "peer-connected"  a == "external-peer-attached"  d == "peer-disconnected"
<1>1. CASE log = <<>> /\ left \subseteq {"connected"}
    BY <1>1, EventAppends DEF Extends
<1>2. CASE log = <<c>> /\ left \subseteq {"attached", "closed"}
    <2>1. log # <<>> /\ Len(log) = 1 /\ log[1] = c
        BY <1>2
    <2>2. \A i \in 1 .. Len(log) : log[i] = c
        BY <2>1
    <2>3. QED BY <1>2, <2>1, <2>2 DEF Extends
<1>3. CASE log = <<c, a>> /\ left \subseteq {"closed"}
    <2>1. log # <<>> /\ Len(log) = 2 /\ log[1] = c /\ log[2] = a
        BY <1>3
    <2>2. \A i \in 1 .. Len(log) : log[i] \in {c, a}
        BY <2>1
    <2>3. QED BY <1>3, <2>1, <2>2 DEF Extends
<1>4. CASE log = <<c, d>> /\ left \subseteq {"attached"}
    <2>1. log # <<>> /\ Len(log) = 2 /\ log[1] = c /\ log[2] = d
        BY <1>4
    <2>2. \A i \in 1 .. Len(log) : log[i] \in {c, d}
        BY <2>1
    <2>3. QED BY <1>4, <2>1, <2>2 DEF Extends
<1>5. CASE left = {}
    BY <1>5
<1>6. QED BY <1>1, <1>2, <1>3, <1>4, <1>5 DEF Fit

\* The listeners of 'connection-closed' announce a disconnection where it was not announced.
LEMMA AnnounceExtends ==
    ASSUME IInv, NEW E, NEW m, NEW next, Announce(E, m, next), NEW n \in Mocks
    PROVE  Extends(events[n], events'[n])
<1>1. Fit(events[n], listen[n])
    BY FitSame DEF IInv
<1>2. CASE n \in E /\ "closed" \in listen[n]
    BY <1>1, <1>2, FitExtends DEF Announce
<1>3. CASE ~(n \in E /\ "closed" \in listen[n])
    BY <1>3 DEF Announce, Extends
<1>4. QED BY <1>2, <1>3

\* An attachment is announced where none was announced.
LEMMA AttachedExtends ==
    ASSUME IInv, NEW m \in Mocks, NEW x, NEW throws \in BOOLEAN, AnnounceAttached(m, x, throws),
           NEW n \in Mocks
    PROVE  Extends(events[n], events'[n])
<1>1. Fit(events[n], listen[n])
    BY FitSame DEF IInv
<1>2. CASE n = m /\ "attached" \in listen[m] /\ ~throws
    <2>1. events'[n] = Append(events[n], "external-peer-attached")
        BY <1>2 DEF AnnounceAttached, IInv, PeerTypeOK
    <2>2. QED BY <1>1, <1>2, <2>1, FitExtends
<1>3. CASE ~(n = m /\ "attached" \in listen[m] /\ ~throws)
    BY <1>3 DEF AnnounceAttached, IInv, PeerTypeOK, Extends
<1>4. QED BY <1>2, <1>3

\* Whatever the peer does, the log of a session stays, or is extended as SessionProtocol allows.
LEMMA LogsExtend ==
    ASSUME IInv, [Next]_vars
    PROVE  \A n \in Mocks : Extends(events[n], events'[n])
<1> DEFINE Goal == \A n \in Mocks : Extends(events[n], events'[n])
<1>a. events' = events => Goal
    BY DEF Extends
<1>1. ASSUME NEW m \in Mocks, CreateConnection(m) PROVE Goal
    BY <1>1, <1>a DEF CreateConnection
<1>2. ASSUME NEW m \in Mocks, ControlOpened(m) PROVE Goal
    BY <1>2, <1>a DEF ControlOpened
<1>3. ASSUME NEW m \in Mocks, ControlClosed(m) PROVE Goal
    BY <1>3, <1>a DEF ControlClosed
<1>4. ASSUME NEW m \in Mocks, NEW e \in Externals, AttachExternal(m, e) PROVE Goal
    BY <1>4, <1>a DEF AttachExternal
<1>5. ASSUME NEW m \in Mocks, StepCompletes(m) PROVE Goal
    BY <1>5, <1>a DEF StepCompletes
<1>6. ASSUME NEW m \in Mocks, SendFails(m) PROVE Goal
    BY <1>6, <1>a DEF SendFails, HandlerGoes
<1>7. ASSUME NEW m \in Mocks, ProxyAnswered(m) PROVE Goal
    BY <1>7, <1>a DEF ProxyAnswered, HandlerGoes
<1>8. ASSUME NEW m \in Mocks, ProxyRefused(m) PROVE Goal
    BY <1>8, <1>a DEF ProxyRefused, HandlerGoes
<1>9. ASSUME NEW m \in Mocks, GetHandlerSteps(m) PROVE Goal
    BY <1>9, <1>a DEF GetHandlerSteps
<1>10. ASSUME NEW m \in Mocks, StartStep(m) PROVE Goal
    BY <1>10, <1>a DEF StartStep, HandlerGoes
<1>11. ASSUME NEW m \in Mocks, StartCreate(m) PROVE Goal
    BY <1>11, <1>a DEF StartCreate, HandlerGoes
<1>12. ASSUME NEW m \in Mocks, StartEcho(m) PROVE Goal
    BY <1>12, <1>a DEF StartEcho, HandlerGoes
<1>13. ASSUME NEW m \in Mocks, CloseStep(m) PROVE Goal
    BY <1>13, AnnounceExtends DEF CloseStep, CloseConns
<1>14. ASSUME NEW m \in Mocks, StartDynamicProxy(m) PROVE Goal
    BY <1>14, <1>a DEF StartDynamicProxy
<1>15. ASSUME NEW m \in Mocks, ProxyToAttached(m) PROVE Goal
    BY <1>15, <1>a DEF ProxyToAttached
<1>16. ASSUME NEW m \in Mocks, NEW x \in Proxies, StartPeerProxy(m, x) PROVE Goal
    BY <1>16, <1>a DEF StartPeerProxy
<1>17. ASSUME NEW m \in Mocks, ProxyAttached(m) PROVE Goal
    BY <1>17, AttachedExtends DEF ProxyAttached, AttachThrows
<1>18. ASSUME NEW m \in Mocks, HandlerEnds(m) PROVE Goal
    BY <1>18, AnnounceExtends DEF HandlerEnds, CloseConns
<1>19. ASSUME NEW m \in Mocks, HandlerFails(m) PROVE Goal
    BY <1>19, AnnounceExtends DEF HandlerFails, CloseConns
<1>20. ASSUME NEW e \in Externals, CreateExternal(e) PROVE Goal
    BY <1>20, <1>a DEF CreateExternal
<1>21. ASSUME NEW e \in Externals, ClaimAttached(e) PROVE Goal
    BY <1>21, AttachedExtends DEF ClaimAttached, AttachThrows, IInv, HandlerShape, PeerTypeOK
<1>22. ASSUME NEW c \in Peered, SetDescription(c) PROVE Goal
    BY <1>22, <1>a DEF SetDescription, peerVars
<1>23. ASSUME NEW c \in Conns, OnConnected(c) PROVE Goal
    <2>1. CASE c \in Mocks /\ "connected" \in listen[c]
        <3>1. events' = [events EXCEPT ![c] = Append(@, "peer-connected")]
            BY <1>23, <2>1 DEF OnConnected
        <3>2. ASSUME NEW n \in Mocks PROVE Extends(events[n], events'[n])
            <4>1. Fit(events[n], listen[n])
                BY FitSame DEF IInv
            <4>2. CASE n = c
                BY <2>1, <3>1, <4>1, <4>2, FitExtends DEF IInv, PeerTypeOK
            <4>3. CASE n # c
                BY <3>1, <4>3 DEF IInv, PeerTypeOK, Extends
            <4>4. QED BY <4>2, <4>3
        <3>3. QED BY <3>2
    <2>2. CASE ~(c \in Mocks /\ "connected" \in listen[c])
        BY <1>23, <1>a, <2>2 DEF OnConnected
    <2>3. QED BY <2>1, <2>2
<1>23b. ASSUME NEW c \in Conns, OnConnectedThrows(c) PROVE Goal
    BY <1>23b, <1>a DEF OnConnectedThrows
<1>24. ASSUME NEW c \in Conns, OnFailed(c) PROVE Goal
    BY <1>24, <1>a DEF OnFailed
<1>25. ASSUME NEW c \in Conns, OnGone(c) PROVE Goal
    BY <1>25, AnnounceExtends DEF OnGone
<1>26. ASSUME NEW c \in Conns, OnIgnored(c) PROVE Goal
    BY <1>26, <1>a DEF OnIgnored, peerVars
<1>27. ASSUME NEW c \in Conns, NativeMove(c) PROVE Goal
    BY <1>27, <1>a DEF NativeMove, peerVars
<1>28. CASE PeerClose
    BY <1>28, AnnounceExtends DEF PeerClose, CloseConns
<1>29. CASE UNCHANGED vars
    BY <1>29, <1>a DEF vars, peerVars
<1>30. QED
    BY <1>1, <1>2, <1>3, <1>4, <1>5, <1>6, <1>7, <1>8, <1>9, <1>10, <1>11, <1>12, <1>13, <1>14,
       <1>15, <1>16, <1>17, <1>18, <1>19, <1>20, <1>21, <1>22, <1>23, <1>23b, <1>24, <1>25, <1>26, <1>27, <1>28, <1>29
    DEF Next, Continue, Callback, StepOutcome, ControlEvent

-----------------------------------------------------------------------------
(* Every step moves external connections as the protocol allows.            *)

\* Session m claims e, or has it attached.
Has(m, e) == claim[e] = m \/ external[m] = e

\* What Holder says, case by case.
HoldersFit ==
    \A e \in Externals :
        /\ raw[e] = "none" => Holder(e) = "absent"
        /\ e \in unassigned => Holder(e) = "free"
        /\ \A m \in Mocks : Has(m, e) => Holder(e) = m
        /\ raw[e] # "none" /\ e \notin unassigned /\ (\A m \in Mocks : ~Has(m, e)) => Holder(e) = "lost"

LEMMA HoldersAre == IInv => HoldersFit
<1> SUFFICES ASSUME IInv, NEW e \in Externals
             PROVE  /\ raw[e] = "none" => Holder(e) = "absent"
                    /\ e \in unassigned => Holder(e) = "free"
                    /\ \A m \in Mocks : Has(m, e) => Holder(e) = m
                    /\ raw[e] # "none" /\ e \notin unassigned /\ (\A m \in Mocks : ~Has(m, e))
                          => Holder(e) = "lost"
    BY DEF HoldersFit
<1>1. /\ e \in unassigned => raw[e] # "none" /\ \A m \in Mocks : ~Has(m, e)
      /\ \A m \in Mocks : Has(m, e) => raw[e] # "none" /\ \A n \in Mocks : Has(n, e) => m = n
    BY DEF IInv, OneUser, Uses, Holds, Has
<1>2. claim[e] \in Mocks \cup {None} /\ None \notin Mocks
    BY Pools DEF IInv, PeerTypeOK
<1>3. ASSUME NEW m \in Mocks, Has(m, e) PROVE Holder(e) = m
    <2>1. raw[e] # "none" /\ e \notin unassigned
        BY <1>1, <1>3
    <2>2. CASE claim[e] # None
        <3>1. claim[e] = m
            BY <1>1, <1>2, <1>3, <2>2 DEF Has
        <3>2. QED BY <1>2, <2>1, <2>2, <3>1 DEF Holder
    <2>3. CASE claim[e] = None
        <3>1. external[m] = e
            BY <1>2, <1>3, <2>3 DEF Has
        <3>2. \A n \in Mocks : external[n] = e => n = m
            BY <1>1, <1>3 DEF Has
        <3>3. (CHOOSE n \in Mocks : external[n] = e) = m
            BY <3>1, <3>2
        <3>4. QED BY <2>1, <2>3, <3>1, <3>3 DEF Holder
    <2>4. QED BY <2>2, <2>3
<1>4. ASSUME raw[e] # "none", e \notin unassigned, \A m \in Mocks : ~Has(m, e)
      PROVE  Holder(e) = "lost"
    BY <1>2, <1>4 DEF Holder, Has
<1>5. QED BY <1>1, <1>3, <1>4 DEF Holder

\* How a step may change where e is: it is constructed as unassigned, and it is given to a session
\* only from there.
OfferStep(e) ==
    /\ raw[e] = "none" /\ raw'[e] # "none" => e \in unassigned'
    /\ raw[e] # "none" /\ e \notin unassigned => e \notin unassigned'
    /\ e \notin unassigned => \A m \in Mocks : Has(m, e)' => Has(m, e)

\* Every action of the peer moves external connections like that.
LEMMA OffersMove ==
    ASSUME IInv, [Next]_vars
    PROVE  \A e \in Externals : OfferStep(e)
<1> DEFINE Goal == \A e \in Externals : OfferStep(e)
<1>a. ASSUME UNCHANGED <<unassigned, claim, external>>,
             \A e \in Externals : raw[e] = "none" => raw'[e] = "none"
      PROVE  Goal
    BY <1>a DEF OfferStep, Has
<1>1. ASSUME NEW m \in Mocks, CreateConnection(m) PROVE Goal
    <2>1. \A e \in Externals : raw'[e] = raw[e]
        BY <1>1, Pools DEF CreateConnection, Construct, IInv, ConnIInv, ConnTypeOK
    <2>2. QED BY <1>1, <1>a, <2>1 DEF CreateConnection, attachVars
<1>2. ASSUME NEW m \in Mocks, ControlOpened(m) PROVE Goal
    BY <1>2, <1>a DEF ControlOpened, connVars
<1>3. ASSUME NEW m \in Mocks, ControlClosed(m) PROVE Goal
    BY <1>3, <1>a DEF ControlClosed, connVars
<1>4. ASSUME NEW m \in Mocks, NEW e \in Externals, AttachExternal(m, e) PROVE Goal
    <2>1. /\ raw' = raw /\ external' = external /\ unassigned' = unassigned \ {e} /\ e \in unassigned
          /\ claim' = claim \/ claim' = [claim EXCEPT ![e] = m]
        BY <1>4 DEF AttachExternal, connVars
    <2>2. QED BY <2>1 DEF OfferStep, Has, IInv, PeerTypeOK
<1>5. ASSUME NEW m \in Mocks, StepCompletes(m) PROVE Goal
    BY <1>5, <1>a DEF StepCompletes, connVars, attachVars
<1>6. ASSUME NEW m \in Mocks, SendFails(m) PROVE Goal
    BY <1>6, <1>a DEF SendFails, HandlerGoes, connVars, attachVars
<1>7. ASSUME NEW m \in Mocks, ProxyAnswered(m) PROVE Goal
    BY <1>7, <1>a DEF ProxyAnswered, HandlerGoes, SetRemoteDescription, attachVars
<1>8. ASSUME NEW m \in Mocks, ProxyRefused(m) PROVE Goal
    BY <1>8, <1>a DEF ProxyRefused, HandlerGoes, RefuseDescription, connVars, attachVars
<1>9. ASSUME NEW m \in Mocks, GetHandlerSteps(m) PROVE Goal
    BY <1>9, <1>a DEF GetHandlerSteps, connVars, attachVars
<1>10. ASSUME NEW m \in Mocks, StartStep(m) PROVE Goal
    BY <1>10, <1>a DEF StartStep, HandlerGoes, connVars, attachVars
<1>11. ASSUME NEW m \in Mocks, StartCreate(m) PROVE Goal
    BY <1>11, <1>a DEF StartCreate, HandlerGoes, connVars, attachVars
<1>12. ASSUME NEW m \in Mocks, StartEcho(m) PROVE Goal
    BY <1>12, <1>a DEF StartEcho, HandlerGoes, connVars, attachVars
<1>13. ASSUME NEW m \in Mocks, CloseStep(m) PROVE Goal
    BY <1>13, <1>a, Pools DEF CloseStep, CloseConns, Close, Drop, attachVars
<1>14. ASSUME NEW m \in Mocks, StartDynamicProxy(m) PROVE Goal
    BY <1>14, <1>a DEF StartDynamicProxy, MirrorTraffic, MirrorClosure, connVars, attachVars
<1>15. ASSUME NEW m \in Mocks, ProxyToAttached(m) PROVE Goal
    BY <1>15, <1>a DEF ProxyToAttached, MirrorTraffic, MirrorClosure, connVars, attachVars
<1>16. ASSUME NEW m \in Mocks, NEW x \in Proxies, StartPeerProxy(m, x) PROVE Goal
    <2>1. \A e \in Externals : raw'[e] = raw[e]
        BY <1>16, Pools DEF StartPeerProxy, Construct, IInv, ConnIInv, ConnTypeOK
    <2>2. QED BY <1>16, <1>a, <2>1 DEF StartPeerProxy, attachVars
<1>17. ASSUME NEW m \in Mocks, ProxyAttached(m) PROVE Goal
    <2>1. target[m] \in Proxies
        BY <1>17 DEF ProxyAttached, IInv, HandlerShape, PeerTypeOK
    <2>2. /\ external' = [external EXCEPT ![m] = target[m]] /\ claim' = claim
          /\ raw' = raw /\ unassigned' = unassigned
        BY <1>17 DEF ProxyAttached, AnnounceAttached, MirrorTraffic, MirrorClosure, connVars
    <2>3. QED BY <2>1, <2>2, Pools DEF OfferStep, Has, IInv, PeerTypeOK
<1>18. ASSUME NEW m \in Mocks, HandlerEnds(m) PROVE Goal
    BY <1>18, <1>a, Pools DEF HandlerEnds, CloseConns, Close, Drop, attachVars
<1>19. ASSUME NEW m \in Mocks, HandlerFails(m) PROVE Goal
    BY <1>19, <1>a, Pools DEF HandlerFails, CloseConns, Close, Drop, attachVars
<1>20. ASSUME NEW e \in Externals, CreateExternal(e) PROVE Goal
    <2>1. /\ raw' = [raw EXCEPT ![e] = "open"] /\ raw[e] = "none" /\ unassigned' = unassigned \cup {e}
          /\ external' = external /\ claim' = claim
        BY <1>20 DEF CreateExternal, Construct
    <2>2. QED BY <2>1, Pools DEF OfferStep, Has, IInv, ConnIInv, ConnTypeOK
<1>21. ASSUME NEW e \in Externals, ClaimAttached(e) PROVE Goal
    <2>1. claim[e] \in Mocks
        BY <1>21 DEF ClaimAttached, IInv, HandlerShape, PeerTypeOK
    <2>2. /\ external' = [external EXCEPT ![claim[e]] = e] /\ claim' = [claim EXCEPT ![e] = None]
          /\ raw' = raw /\ unassigned' = unassigned
        BY <1>21 DEF ClaimAttached, AnnounceAttached, connVars
    <2>3. QED BY <2>1, <2>2, Pools DEF OfferStep, Has, IInv, PeerTypeOK
<1>22. ASSUME NEW c \in Peered, SetDescription(c) PROVE Goal
    BY <1>22, <1>a DEF SetDescription, SetRemoteDescription, RefuseDescription, peerVars
<1>23. ASSUME NEW c \in Conns, OnConnected(c) PROVE Goal
    BY <1>23, <1>a DEF OnConnected, StateCallback, GoneStates
<1>23b. ASSUME NEW c \in Conns, OnConnectedThrows(c) PROVE Goal
    BY <1>23b, <1>a DEF OnConnectedThrows, StateCallback, GoneStates, attachVars
<1>24. ASSUME NEW c \in Conns, OnFailed(c) PROVE Goal
    <2>1. /\ raw' = raw /\ unassigned' = unassigned /\ external' = external
          /\ claim' = claim \/ claim' = [claim EXCEPT ![c] = None]
        BY <1>24 DEF OnFailed, StateCallback, GoneStates
    <2>2. QED BY <2>1, Pools DEF OfferStep, Has, IInv, PeerTypeOK
<1>25. ASSUME NEW c \in Conns, OnGone(c) PROVE Goal
    BY <1>25, <1>a, Pools DEF OnGone, StateCallback, Drop, attachVars
<1>26. ASSUME NEW c \in Conns, OnIgnored(c) PROVE Goal
    BY <1>26, <1>a DEF OnIgnored, StateCallback, peerVars
<1>27. ASSUME NEW c \in Conns, NativeMove(c) PROVE Goal
    BY <1>27, <1>a DEF NativeMove, NativeChange, peerVars
<1>28. CASE PeerClose
    BY <1>28, <1>a, Pools DEF PeerClose, CloseConns, Close, Drop, attachVars
<1>29. CASE UNCHANGED vars
    BY <1>29, <1>a DEF vars, connVars, peerVars
<1>30. QED
    BY <1>1, <1>2, <1>3, <1>4, <1>5, <1>6, <1>7, <1>8, <1>9, <1>10, <1>11, <1>12, <1>13, <1>14,
       <1>15, <1>16, <1>17, <1>18, <1>19, <1>20, <1>21, <1>22, <1>23, <1>23b, <1>24, <1>25, <1>26, <1>27, <1>28, <1>29
    DEF Next, Continue, Callback, StepOutcome, ControlEvent

\* What SessionProtocol lets become of an external connection.
Moves(old, new) ==
    \/ new = old
    \/ old = "absent" /\ new = "free"
    \/ old = "free" /\ new \in Mocks
    \/ old \in Mocks \cup {"free"} /\ new = "lost"

LEMMA HoldersMove ==
    ASSUME IInv, IInv', [Next]_vars, NEW e \in Externals
    PROVE  Moves(Holder(e), Holder(e)')
<1>1. HoldersFit /\ HoldersFit'
    <2>1. (IInv => HoldersFit)'
        BY HoldersAre, PTL
    <2>2. QED BY <2>1, HoldersAre
<1>2. OfferStep(e)
    BY OffersMove
<1>3. raw[e] # "none" => raw'[e] # "none"
    BY Forward, Pools
<1>4. /\ e \in unassigned => raw[e] # "none"
      /\ \A m \in Mocks : Has(m, e) => raw[e] # "none" /\ e \notin unassigned
    BY DEF IInv, OneUser, Uses, Holds, Has
<1>5. \/ raw'[e] = "none" /\ Holder(e)' = "absent"
      \/ e \in unassigned' /\ Holder(e)' = "free"
      \/ \E m \in Mocks : Has(m, e)' /\ Holder(e)' = m
      \/ Holder(e)' = "lost"
    BY <1>1 DEF HoldersFit
<1>6. CASE raw[e] = "none"
    <2>1. Holder(e) = "absent"
        BY <1>1, <1>6 DEF HoldersFit
    <2>2. CASE raw'[e] = "none"
        BY <1>1, <2>1, <2>2 DEF HoldersFit, Moves
    <2>3. CASE raw'[e] # "none"
        <3>1. e \in unassigned'
            BY <1>2, <1>6, <2>3 DEF OfferStep
        <3>2. QED BY <1>1, <2>1, <3>1 DEF HoldersFit, Moves
    <2>4. QED BY <2>2, <2>3
<1>7. CASE e \in unassigned
    <2>1. Holder(e) = "free" /\ raw'[e] # "none"
        BY <1>1, <1>3, <1>4, <1>7 DEF HoldersFit
    <2>2. QED BY <1>5, <2>1 DEF Moves
<1>8. CASE raw[e] # "none" /\ e \notin unassigned
    <2>1. raw'[e] # "none" /\ e \notin unassigned'
        BY <1>2, <1>3, <1>8 DEF OfferStep
    <2>2. CASE \E m \in Mocks : Has(m, e)
        <3>1. PICK m \in Mocks : Has(m, e)
            BY <2>2
        <3>2. Holder(e) = m
            BY <1>1, <3>1 DEF HoldersFit
        <3>3. \A n \in Mocks : Has(n, e)' => Has(n, e)
            BY <1>2, <1>8 DEF OfferStep
        <3>4. \A n \in Mocks : Has(n, e) => Holder(e) = n
            BY <1>1 DEF HoldersFit
        <3>5. Holder(e)' = m \/ Holder(e)' = "lost"
            BY <1>5, <2>1, <3>2, <3>3, <3>4
        <3>6. QED BY <3>2, <3>5 DEF Moves
    <2>3. CASE ~\E m \in Mocks : Has(m, e)
        <3>1. Holder(e) = "lost"
            BY <1>1, <1>8, <2>3 DEF HoldersFit
        <3>2. ~\E m \in Mocks : Has(m, e)'
            BY <1>2, <1>8, <2>3 DEF OfferStep
        <3>3. Holder(e)' = "lost"
            BY <1>5, <2>1, <3>2
        <3>4. QED BY <3>1, <3>3 DEF Moves
    <2>4. QED BY <2>2, <2>3
<1>9. QED BY <1>6, <1>7, <1>8

-----------------------------------------------------------------------------
(* The refinement.                                                         *)

LEMMA ProtocolInit == Init => Protocol!Init
<1> SUFFICES ASSUME Init PROVE Protocol!Init
    OBVIOUS
<1>1. \A e \in Externals : Holder(e) = "absent"
    BY Pools DEF Init, NoConns, Holder
<1>2. QED BY <1>1 DEF Init, Protocol!Init

LEMMA ProtocolStep ==
    IInv /\ IInv' /\ [Next]_vars => [Protocol!Next]_<<events, [e \in Externals |-> Holder(e)]>>
<1> SUFFICES ASSUME IInv, IInv', [Next]_vars PROVE Protocol!Next
    OBVIOUS
<1>1. \A m \in Mocks : Extends(events[m], events'[m])
    BY LogsExtend
<1>2. \A m \in Mocks : Protocol!LogStep(m)
    BY <1>1 DEF Extends, Protocol!LogStep, Protocol!Announced
<1>3. \A e \in Externals : Moves(Holder(e), Holder(e)')
    BY HoldersMove
<1>4. \A e \in Externals : Protocol!HolderStep(e)
    BY <1>3 DEF Moves, Protocol!HolderStep
<1>5. QED BY <1>2, <1>4 DEF Protocol!Next

\* The peer implements SessionProtocol: subscribers see each session connect, be attached and
\* disconnect in the order that the protocol allows, and an external connection that was given to
\* a session, or lost, is never given again.
THEOREM PeerKeepsProtocol == Spec => KeepsProtocol
BY ProtocolInit, ProtocolStep, IInvHolds, PTL DEF Spec, KeepsProtocol, Protocol!Spec
=============================================================================
