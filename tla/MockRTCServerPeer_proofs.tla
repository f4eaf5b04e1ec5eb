---------------------- MODULE MockRTCServerPeer_proofs ----------------------
(* Proofs about MockRTCServerPeer, for every set of connections, every set *)
(* of step lists, and both kinds of peer.                                  *)
EXTENDS MockRTCServerPeer, RTCConnection_proofs, SequenceTheorems

LEMMA Pools ==
    /\ Mocks \subseteq Conns /\ Externals \subseteq Conns \ Mocks /\ Proxies \subseteq Conns \ Mocks
    /\ Externals \cap Proxies = {} /\ None \notin Conns /\ Peered \subseteq Conns
BY PeerAssumption DEF Peered

LEMMA InitIInv == Init => IInv
<1> SUFFICES ASSUME Init PROVE IInv
    OBVIOUS
<1>1. ConnIInv
    BY ConnIInvInit DEF Init
<1>2. PeerTypeOK
    BY DEF Init, PeerTypeOK, HandlerStates
<1>3. HandlerShape /\ HandlerEndsClosed
    BY DEF Init, HandlerShape, HandlerEndsClosed
<1>4. OneUser
    BY Pools DEF Init, NoConns, OneUser, Uses, Holds
<1>5. ListenersFit /\ EarlyQuiet /\ DisconnectIsReal
    BY DEF Init, ListenersFit, EarlyQuiet, DisconnectIsReal
<1>6. LossIsReal /\ LiveAreTracked
    BY Pools DEF Init, NoConns, LossIsReal, LiveAreTracked
<1>7. QED BY <1>1, <1>2, <1>3, <1>4, <1>5, <1>6 DEF IInv

-----------------------------------------------------------------------------
(* The peer drives its connections only through the actions of RTCConnection. *)

LEMMA ConnectionStep == IInv /\ [Next]_vars => [ConnNext]_connVars
<1> SUFFICES ASSUME IInv, [Next]_vars PROVE [ConnNext]_connVars
    OBVIOUS
<1>1. ASSUME NEW m \in Mocks, CreateConnection(m) PROVE [ConnNext]_connVars
    BY <1>1, Pools DEF CreateConnection, ConnNext
<1>2. ASSUME NEW m \in Mocks, ControlOpened(m) PROVE [ConnNext]_connVars
    BY <1>2 DEF ControlOpened, connVars
<1>3. ASSUME NEW m \in Mocks, ControlClosed(m) PROVE [ConnNext]_connVars
    BY <1>3 DEF ControlClosed, connVars
<1>4. ASSUME NEW m \in Mocks, NEW e \in Externals, AttachExternal(m, e) PROVE [ConnNext]_connVars
    BY <1>4 DEF AttachExternal, connVars
<1>5. ASSUME NEW m \in Mocks, StepCompletes(m) PROVE [ConnNext]_connVars
    BY <1>5 DEF StepCompletes, connVars
<1>6. ASSUME NEW m \in Mocks, SendFails(m) PROVE [ConnNext]_connVars
    BY <1>6 DEF SendFails, connVars
<1>7. ASSUME NEW m \in Mocks, ProxyAnswered(m) PROVE [ConnNext]_connVars
    BY <1>7, Pools DEF ProxyAnswered, ConnNext, IInv, PeerTypeOK, HandlerShape
<1>8. ASSUME NEW m \in Mocks, ProxyRefused(m) PROVE [ConnNext]_connVars
    BY <1>8, Pools DEF ProxyRefused, ConnNext, connVars, IInv, PeerTypeOK, HandlerShape
<1>9. ASSUME NEW m \in Mocks, GetHandlerSteps(m) PROVE [ConnNext]_connVars
    BY <1>9 DEF GetHandlerSteps, connVars
<1>10. ASSUME NEW m \in Mocks, StartStep(m) PROVE [ConnNext]_connVars
    BY <1>10 DEF StartStep, connVars
<1>11. ASSUME NEW m \in Mocks, StartCreate(m) PROVE [ConnNext]_connVars
    BY <1>11 DEF StartCreate, connVars
<1>12. ASSUME NEW m \in Mocks, StartEcho(m) PROVE [ConnNext]_connVars
    BY <1>12 DEF StartEcho, connVars
<1>13. ASSUME NEW m \in Mocks, CloseStep(m) PROVE [ConnNext]_connVars
    BY <1>13, Pools DEF CloseStep, CloseConns, ConnNext
<1>14. ASSUME NEW m \in Mocks, StartDynamicProxy(m) PROVE [ConnNext]_connVars
    BY <1>14, Pools DEF StartDynamicProxy, MirrorTraffic, ConnNext, connVars, IInv, PeerTypeOK
<1>15. ASSUME NEW m \in Mocks, ProxyToAttached(m) PROVE [ConnNext]_connVars
    BY <1>15, Pools DEF ProxyToAttached, MirrorTraffic, ConnNext, connVars, IInv, PeerTypeOK, HandlerShape
<1>16. ASSUME NEW m \in Mocks, NEW x \in Proxies, StartPeerProxy(m, x) PROVE [ConnNext]_connVars
    BY <1>16, Pools DEF StartPeerProxy, ConnNext
<1>17. ASSUME NEW m \in Mocks, ProxyAttached(m) PROVE [ConnNext]_connVars
    BY <1>17, Pools DEF ProxyAttached, MirrorTraffic, ConnNext, connVars, IInv, PeerTypeOK, HandlerShape
<1>18. ASSUME NEW m \in Mocks, HandlerEnds(m) PROVE [ConnNext]_connVars
    BY <1>18, Pools DEF HandlerEnds, CloseConns, ConnNext
<1>19. ASSUME NEW m \in Mocks, HandlerFails(m) PROVE [ConnNext]_connVars
    BY <1>19, Pools DEF HandlerFails, CloseConns, ConnNext
<1>20. ASSUME NEW e \in Externals, CreateExternal(e) PROVE [ConnNext]_connVars
    BY <1>20, Pools DEF CreateExternal, ConnNext
<1>21. ASSUME NEW e \in Externals, ClaimAttached(e) PROVE [ConnNext]_connVars
    BY <1>21 DEF ClaimAttached, connVars
<1>22. ASSUME NEW c \in Peered, SetDescription(c) PROVE [ConnNext]_connVars
    BY <1>22, Pools DEF SetDescription, ConnNext
<1>23. ASSUME NEW c \in Conns, OnConnected(c) PROVE [ConnNext]_connVars
    BY <1>23, Pools DEF OnConnected, ConnNext
<1>23b. ASSUME NEW c \in Conns, OnConnectedThrows(c) PROVE [ConnNext]_connVars
    BY <1>23b, Pools DEF OnConnectedThrows, ConnNext
<1>24. ASSUME NEW c \in Conns, OnFailed(c) PROVE [ConnNext]_connVars
    BY <1>24, Pools DEF OnFailed, ConnNext
<1>25. ASSUME NEW c \in Conns, OnGone(c) PROVE [ConnNext]_connVars
    BY <1>25, Pools DEF OnGone, ConnNext
<1>26. ASSUME NEW c \in Conns, OnIgnored(c) PROVE [ConnNext]_connVars
    BY <1>26, Pools DEF OnIgnored, ConnNext
<1>27. ASSUME NEW c \in Conns, NativeMove(c) PROVE [ConnNext]_connVars
    BY <1>27, Pools DEF NativeMove, ConnNext
<1>28. CASE PeerClose
    BY <1>28, Pools DEF PeerClose, CloseConns, ConnNext, IInv, PeerTypeOK
<1>29. CASE UNCHANGED vars
    BY <1>29 DEF vars, connVars
<1>30. QED
    BY <1>1, <1>2, <1>3, <1>4, <1>5, <1>6, <1>7, <1>8, <1>9, <1>10, <1>11, <1>12, <1>13, <1>14, <1>15, <1>16, <1>17, <1>18, <1>19, <1>20, <1>21, <1>22, <1>23, <1>23b, <1>24, <1>25, <1>26, <1>27, <1>28, <1>29
    DEF Next, Continue, Callback, StepOutcome, ControlEvent

-----------------------------------------------------------------------------
(* Types.                                                                  *)

LEMMA AppendEvent ==
    ASSUME NEW q \in Seq(SessionEvents), NEW v \in SessionEvents
    PROVE  Append(q, v) \in Seq(SessionEvents)
OBVIOUS

LEMMA TailTodo ==
    ASSUME NEW q \in Seq(StepTypes), q # <<>>
    PROVE  Tail(q) \in Seq(StepTypes)
OBVIOUS

\* The listeners of 'connection-closed' keep the types.
LEMMA AnnounceTypes ==
    ASSUME PeerTypeOK, HandlerShape, NEW E, NEW m, NEW next \in HandlerStates,
           Announce(E, m, next), UNCHANGED <<attachVars, target>>,
           m \in Mocks /\ next = "run" => todo[m] # <<>>
    PROVE  PeerTypeOK'
<1> USE DEF PeerTypeOK
<1>1. tracked' \subseteq Peered
    BY DEF Announce
<1>2. events' \in [Mocks -> Seq(SessionEvents)]
    <2>1. "peer-disconnected" \in SessionEvents
        BY DEF SessionEvents
    <2>2. \A n \in Mocks : events[n] \in Seq(SessionEvents)
        OBVIOUS
    <2>3. \A n \in Mocks : Append(events[n], "peer-disconnected") \in Seq(SessionEvents)
        BY <2>1, <2>2, AppendEvent
    <2>4. QED BY <2>2, <2>3 DEF Announce
<1>3. listen' \in [Mocks -> SUBSET {"connected", "attached", "closed"}]
    BY DEF Announce
<1>4. pc' \in [Mocks -> HandlerStates]
    BY DEF Announce, HandlerStates, Continuations
<1>5. todo' \in [Mocks -> Seq(StepTypes)]
    <2>1. \A n \in Mocks : n \in Released(E) \/ (n = m /\ next = "run") => todo[n] # <<>>
        BY DEF HandlerShape, Released
    <2>2. \A n \in Mocks : todo[n] \in Seq(StepTypes) /\ (todo[n] # <<>> => Tail(todo[n]) \in Seq(StepTypes))
        BY TailTodo
    <2>3. QED BY <2>1, <2>2 DEF Announce
<1>6. QED BY <1>1, <1>2, <1>3, <1>4, <1>5 DEF attachVars

LEMMA AnnounceAttachedTypes ==
    ASSUME PeerTypeOK, NEW m \in Mocks, NEW x \in Externals \cup Proxies, NEW throws \in BOOLEAN,
           AnnounceAttached(m, x, throws)
    PROVE  /\ external' \in [Mocks -> Externals \cup Proxies \cup {None}]
           /\ listen' \in [Mocks -> SUBSET {"connected", "attached", "closed"}]
           /\ events' \in [Mocks -> Seq(SessionEvents)]
<1> USE DEF PeerTypeOK
<1>1. Append(events[m], "external-peer-attached") \in Seq(SessionEvents)
    BY AppendEvent DEF SessionEvents
<1>2. QED BY <1>1 DEF AnnounceAttached

LEMMA PeerTypeStep == IInv /\ [Next]_vars => PeerTypeOK'
<1> SUFFICES ASSUME IInv, [Next]_vars PROVE PeerTypeOK'
    OBVIOUS
<1> USE DEF IInv, PeerTypeOK
<1>1. ASSUME NEW m \in Mocks, CreateConnection(m) PROVE PeerTypeOK'
    BY <1>1 DEF CreateConnection, HandlerStates, Continuations, Peered, attachVars, peerVars
<1>2. ASSUME NEW m \in Mocks, ControlOpened(m) PROVE PeerTypeOK'
    BY <1>2 DEF ControlOpened, HandlerStates, Continuations, Peered, attachVars, peerVars
<1>3. ASSUME NEW m \in Mocks, ControlClosed(m) PROVE PeerTypeOK'
    BY <1>3 DEF ControlClosed, HandlerStates, Continuations, Peered, attachVars, peerVars
<1>4. ASSUME NEW m \in Mocks, NEW e \in Externals, AttachExternal(m, e) PROVE PeerTypeOK'
    BY <1>4 DEF AttachExternal, HandlerStates, Continuations, Peered, attachVars, peerVars
<1>5. ASSUME NEW m \in Mocks, StepCompletes(m) PROVE PeerTypeOK'
    <2>1. todo[m] \in Seq(StepTypes) /\ todo[m] # <<>>
        BY <1>5 DEF StepCompletes, HandlerShape
    <2>2. Tail(todo[m]) \in Seq(StepTypes)
        BY <2>1, TailTodo
    <2>3. QED BY <1>5, <2>2 DEF StepCompletes, HandlerStates, Continuations, attachVars
<1>6. ASSUME NEW m \in Mocks, SendFails(m) PROVE PeerTypeOK'
    BY <1>6 DEF SendFails, HandlerGoes, HandlerStates, Continuations, attachVars
<1>7. ASSUME NEW m \in Mocks, ProxyAnswered(m) PROVE PeerTypeOK'
    BY <1>7 DEF ProxyAnswered, HandlerGoes, HandlerStates, Continuations, attachVars
<1>8. ASSUME NEW m \in Mocks, ProxyRefused(m) PROVE PeerTypeOK'
    BY <1>8 DEF ProxyRefused, HandlerGoes, HandlerStates, Continuations, attachVars
<1>9. ASSUME NEW m \in Mocks, GetHandlerSteps(m) PROVE PeerTypeOK'
    <2>1. HandlerSteps \subseteq Seq(StepTypes) /\ <<"dynamic-proxy">> \in Seq(StepTypes)
        BY PeerAssumption DEF StepTypes
    <2>2. pc' \in [Mocks -> HandlerStates]
        BY <1>9, ZenonT(40) DEF GetHandlerSteps, HandlerStates, Continuations
    <2>3. todo' = todo \/ \E s \in Seq(StepTypes) : todo' = [todo EXCEPT ![m] = s]
        BY <1>9, <2>1 DEF GetHandlerSteps
    <2>4. todo' \in [Mocks -> Seq(StepTypes)]
        BY <2>3
    <2>5. QED BY <1>9, <2>2, <2>4 DEF GetHandlerSteps, attachVars
<1>10. ASSUME NEW m \in Mocks, StartStep(m) PROVE PeerTypeOK'
    BY <1>10 DEF StartStep, HandlerGoes, HandlerStates, Continuations, attachVars
<1>11. ASSUME NEW m \in Mocks, StartCreate(m) PROVE PeerTypeOK'
    BY <1>11 DEF StartCreate, HandlerGoes, HandlerStates, Continuations, attachVars
<1>12. ASSUME NEW m \in Mocks, StartEcho(m) PROVE PeerTypeOK'
    BY <1>12 DEF StartEcho, HandlerGoes, HandlerStates, Continuations, attachVars
<1>13. ASSUME NEW m \in Mocks, CloseStep(m) PROVE PeerTypeOK'
    BY <1>13, AnnounceTypes DEF CloseStep, CloseConns, AtStep, HandlerStates, Continuations
<1>14. ASSUME NEW m \in Mocks, StartDynamicProxy(m) PROVE PeerTypeOK'
    BY <1>14 DEF StartDynamicProxy, MirrorTraffic, HandlerStates, Continuations, attachVars
<1>15. ASSUME NEW m \in Mocks, ProxyToAttached(m) PROVE PeerTypeOK'
    BY <1>15 DEF ProxyToAttached, MirrorTraffic, HandlerStates, Continuations, attachVars
<1>16. ASSUME NEW m \in Mocks, NEW x \in Proxies, StartPeerProxy(m, x) PROVE PeerTypeOK'
    BY <1>16 DEF StartPeerProxy, HandlerStates, Continuations, Peered, attachVars, peerVars
<1>17. ASSUME NEW m \in Mocks, ProxyAttached(m) PROVE PeerTypeOK'
    <2>1. target[m] \in Proxies
        BY <1>17 DEF ProxyAttached, HandlerShape
    <2>2. /\ external' \in [Mocks -> Externals \cup Proxies \cup {None}]
          /\ listen' \in [Mocks -> SUBSET {"connected", "attached", "closed"}]
          /\ events' \in [Mocks -> Seq(SessionEvents)]
        BY <1>17, <2>1, AnnounceAttachedTypes DEF ProxyAttached, AttachThrows
    <2>3. pc' \in [Mocks -> HandlerStates]
        BY <1>17, ZenonT(40) DEF ProxyAttached, MirrorTraffic, HandlerStates, Continuations
    <2>4. QED BY <1>17, <2>2, <2>3 DEF ProxyAttached
<1>18. ASSUME NEW m \in Mocks, HandlerEnds(m) PROVE PeerTypeOK'
    BY <1>18, AnnounceTypes DEF HandlerEnds, CloseConns, AtStep, HandlerStates, Continuations
<1>19. ASSUME NEW m \in Mocks, HandlerFails(m) PROVE PeerTypeOK'
    BY <1>19, AnnounceTypes DEF HandlerFails, CloseConns, AtStep, HandlerStates, Continuations
<1>20. ASSUME NEW e \in Externals, CreateExternal(e) PROVE PeerTypeOK'
    BY <1>20 DEF CreateExternal, HandlerStates, Continuations, Peered, attachVars, peerVars
<1>21. ASSUME NEW e \in Externals, ClaimAttached(e) PROVE PeerTypeOK'
    <2>1. claim[e] \in Mocks
        BY <1>21 DEF ClaimAttached, HandlerShape
    <2>2. /\ external' \in [Mocks -> Externals \cup Proxies \cup {None}]
          /\ listen' \in [Mocks -> SUBSET {"connected", "attached", "closed"}]
          /\ events' \in [Mocks -> Seq(SessionEvents)]
        BY <1>21, <2>1, AnnounceAttachedTypes DEF ClaimAttached, AttachThrows
    <2>3. pc' \in [Mocks -> HandlerStates]
        BY <1>21, <2>1 DEF ClaimAttached, HandlerStates, Continuations
    <2>4. QED BY <1>21, <2>2, <2>3 DEF ClaimAttached
<1>22. ASSUME NEW c \in Peered, SetDescription(c) PROVE PeerTypeOK'
    BY <1>22 DEF SetDescription, HandlerStates, Continuations, Peered, attachVars, peerVars
<1>23. ASSUME NEW c \in Conns, OnConnected(c) PROVE PeerTypeOK'
    <2>1. events' \in [Mocks -> Seq(SessionEvents)]
        <3>1. "peer-connected" \in SessionEvents
            BY DEF SessionEvents
        <3>2. \A n \in Mocks : Append(events[n], "peer-connected") \in Seq(SessionEvents)
            BY <3>1, AppendEvent
        <3>3. CASE c \in Mocks /\ "connected" \in listen[c]
            BY <1>23, <3>2, <3>3 DEF OnConnected
        <3>4. CASE ~(c \in Mocks /\ "connected" \in listen[c])
            BY <1>23, <3>4 DEF OnConnected
        <3>5. QED BY <3>3, <3>4
    <2>2. listen' \in [Mocks -> SUBSET {"connected", "attached", "closed"}]
        <3>0. {"attached", "closed"} \in SUBSET {"connected", "attached", "closed"}
            OBVIOUS
        <3>1. CASE c \in Mocks /\ "connected" \in listen[c]
            <4>1. listen' = [listen EXCEPT ![c] = {"attached", "closed"}]
                BY <1>23, <3>1 DEF OnConnected
            <4>2. QED BY <3>0, <3>1, <4>1
        <3>2. CASE ~(c \in Mocks /\ "connected" \in listen[c])
            BY <1>23, <3>2 DEF OnConnected
        <3>3. QED BY <3>1, <3>2
    <2>3. pc' \in [Mocks -> HandlerStates] /\ ready' \subseteq Externals
        BY <1>23 DEF OnConnected, HandlerStates, Continuations
    <2>4. QED BY <1>23, <2>1, <2>2, <2>3 DEF OnConnected
<1>23b. ASSUME NEW c \in Conns, OnConnectedThrows(c) PROVE PeerTypeOK'
    BY <1>23b DEF OnConnectedThrows, attachVars
<1>24. ASSUME NEW c \in Conns, OnFailed(c) PROVE PeerTypeOK'
    BY <1>24 DEF OnFailed, HandlerStates, Continuations, Peered, attachVars, peerVars
<1>25. ASSUME NEW c \in Conns, OnGone(c) PROVE PeerTypeOK'
    BY <1>25, Pools, AnnounceTypes DEF OnGone, HandlerStates, Continuations
<1>26. ASSUME NEW c \in Conns, OnIgnored(c) PROVE PeerTypeOK'
    BY <1>26 DEF OnIgnored, HandlerStates, Continuations, Peered, attachVars, peerVars
<1>27. ASSUME NEW c \in Conns, NativeMove(c) PROVE PeerTypeOK'
    BY <1>27 DEF NativeMove, HandlerStates, Continuations, Peered, attachVars, peerVars
<1>28. CASE PeerClose
    BY <1>28, Pools, AnnounceTypes DEF PeerClose, CloseConns, HandlerStates, Continuations
<1>29. CASE UNCHANGED vars
    BY <1>29 DEF vars, peerVars
<1>30. QED
    BY <1>1, <1>2, <1>3, <1>4, <1>5, <1>6, <1>7, <1>8, <1>9, <1>10, <1>11, <1>12, <1>13, <1>14, <1>15, <1>16, <1>17, <1>18, <1>19, <1>20, <1>21, <1>22, <1>23, <1>23b, <1>24, <1>25, <1>26, <1>27, <1>28, <1>29
    DEF Next, Continue, Callback, StepOutcome, ControlEvent

-----------------------------------------------------------------------------
(* Handlers.                                                               *)

\* What [Next]_vars leaves to the connections, in one fact.
LEMMA Forward ==
    ASSUME IInv, [Next]_vars, NEW c \in Conns
    PROVE  /\ raw[c] # "none" => raw'[c] # "none"
           /\ raw[c] = "null" => raw'[c] = "null"
           /\ native[c] \notin LiveStates => native'[c] \notin LiveStates
BY ConnectionStep, NoWayBack DEF IInv, ConnIInv

LEMMA AnnounceShape ==
    ASSUME PeerTypeOK, HandlerShape, NEW E, NEW m, NEW next \in {"run", "done", "failed"},
           Announce(E, m, next), UNCHANGED <<attachVars, target>>,
           \A n \in Mocks : raw'[n] = "none" => raw[n] = "none",
           m \in Mocks => pc[m] # "none"
    PROVE  HandlerShape'
<1>1. ASSUME NEW n \in Mocks
      PROVE  \/ pc'[n] = pc[n] /\ todo'[n] = todo[n]
             \/ pc[n] # "none" /\ pc'[n] \in {"run", "done", "failed"}
    <2>1. CASE n = m
        BY <2>1 DEF Announce, PeerTypeOK
    <2>2. CASE n # m /\ n \in Released(E)
        BY <2>2 DEF Announce, PeerTypeOK, Released
    <2>3. CASE n # m /\ n \notin Released(E)
        BY <2>3 DEF Announce, PeerTypeOK
    <2>4. QED BY <2>1, <2>2, <2>3
<1>2. QED BY <1>1 DEF HandlerShape, attachVars

LEMMA HandlerShapeStep == IInv /\ [Next]_vars => HandlerShape'
<1> SUFFICES ASSUME IInv, [Next]_vars PROVE HandlerShape'
    OBVIOUS
<1>a. \A n \in Mocks : raw'[n] = "none" => raw[n] = "none"
    BY Forward, Pools
<1> USE DEF IInv, HandlerShape, PeerTypeOK
<1>1. ASSUME NEW m \in Mocks, CreateConnection(m) PROVE HandlerShape'
    BY <1>1, <1>a, Pools DEF CreateConnection, Construct, ConnIInv, ConnTypeOK, attachVars
<1>2. ASSUME NEW m \in Mocks, ControlOpened(m) PROVE HandlerShape'
    BY <1>2, <1>a DEF ControlOpened, attachVars
<1>3. ASSUME NEW m \in Mocks, ControlClosed(m) PROVE HandlerShape'
    BY <1>3, <1>a DEF ControlClosed, attachVars
<1>4. ASSUME NEW m \in Mocks, NEW e \in Externals, AttachExternal(m, e) PROVE HandlerShape'
    BY <1>4, <1>a, Pools DEF AttachExternal, Quiescent, attachVars
<1>5. ASSUME NEW m \in Mocks, StepCompletes(m) PROVE HandlerShape'
    BY <1>5, <1>a DEF StepCompletes, attachVars
<1>6. ASSUME NEW m \in Mocks, SendFails(m) PROVE HandlerShape'
    BY <1>6, <1>a DEF SendFails, AtStep, HandlerGoes, attachVars
<1>7. ASSUME NEW m \in Mocks, ProxyAnswered(m) PROVE HandlerShape'
    BY <1>7, <1>a DEF ProxyAnswered, AtStep, HandlerGoes, attachVars
<1>8. ASSUME NEW m \in Mocks, ProxyRefused(m) PROVE HandlerShape'
    BY <1>8, <1>a DEF ProxyRefused, AtStep, HandlerGoes, attachVars
<1>9. ASSUME NEW m \in Mocks, GetHandlerSteps(m) PROVE HandlerShape'
    BY <1>9, <1>a DEF GetHandlerSteps, attachVars
<1>10. ASSUME NEW m \in Mocks, StartStep(m) PROVE HandlerShape'
    BY <1>10, <1>a DEF StartStep, AtStep, HandlerGoes, attachVars
<1>11. ASSUME NEW m \in Mocks, StartCreate(m) PROVE HandlerShape'
    BY <1>11, <1>a DEF StartCreate, AtStep, HandlerGoes, attachVars
<1>12. ASSUME NEW m \in Mocks, StartEcho(m) PROVE HandlerShape'
    BY <1>12, <1>a DEF StartEcho, AtStep, HandlerGoes, attachVars
<1>13. ASSUME NEW m \in Mocks, CloseStep(m) PROVE HandlerShape'
    BY <1>13, <1>a, AnnounceShape DEF CloseStep, AtStep, CloseConns
<1>14. ASSUME NEW m \in Mocks, StartDynamicProxy(m) PROVE HandlerShape'
    BY <1>14, <1>a DEF StartDynamicProxy, AtStep, MirrorTraffic, attachVars
<1>15. ASSUME NEW m \in Mocks, ProxyToAttached(m) PROVE HandlerShape'
    BY <1>15, <1>a DEF ProxyToAttached, AtStep, MirrorTraffic, attachVars
<1>16. ASSUME NEW m \in Mocks, NEW x \in Proxies, StartPeerProxy(m, x) PROVE HandlerShape'
    BY <1>16, <1>a, Pools DEF StartPeerProxy, AtStep, attachVars
<1>17. ASSUME NEW m \in Mocks, ProxyAttached(m) PROVE HandlerShape'
    BY <1>17, <1>a DEF ProxyAttached, MirrorTraffic, AnnounceAttached
<1>18. ASSUME NEW m \in Mocks, HandlerEnds(m) PROVE HandlerShape'
    BY <1>18, <1>a, AnnounceShape DEF HandlerEnds, CloseConns
<1>19. ASSUME NEW m \in Mocks, HandlerFails(m) PROVE HandlerShape'
    BY <1>19, <1>a, AnnounceShape DEF HandlerFails, CloseConns
<1>20. ASSUME NEW e \in Externals, CreateExternal(e) PROVE HandlerShape'
    BY <1>20, <1>a DEF CreateExternal, attachVars
<1>21. ASSUME NEW e \in Externals, ClaimAttached(e) PROVE HandlerShape'
    <2>1. claim[e] \in Mocks
        BY <1>21
        DEF ClaimAttached
    <2>2. external'[claim[e]] = e /\ e # None
        BY <1>21, <2>1, Pools DEF ClaimAttached, AnnounceAttached
    <2>3. \A n \in Mocks : external[n] # None => external'[n] # None
        BY <1>21, <2>1, <2>2 DEF ClaimAttached, AnnounceAttached
    <2>4. \A n \in Mocks : pc'[n] = pc[n] \/ (n = claim[e] /\ pc[n] = "wait-attached" /\ pc'[n] = "mirror")
        BY <1>21, <2>1 DEF ClaimAttached
    <2>5. QED BY <1>21, <1>a, <2>1, <2>2, <2>3, <2>4 DEF ClaimAttached
<1>22. ASSUME NEW c \in Peered, SetDescription(c) PROVE HandlerShape'
    BY <1>22, <1>a DEF SetDescription, peerVars
<1>23. ASSUME NEW c \in Conns, OnConnected(c) PROVE HandlerShape'
    BY <1>23, <1>a DEF OnConnected, attachVars
<1>23b. ASSUME NEW c \in Conns, OnConnectedThrows(c) PROVE HandlerShape'
    BY <1>23b, <1>a DEF OnConnectedThrows, attachVars
<1>24. ASSUME NEW c \in Conns, OnFailed(c) PROVE HandlerShape'
    BY <1>24, <1>a DEF OnFailed, Quiescent
<1>25. ASSUME NEW c \in Conns, OnGone(c) PROVE HandlerShape'
    BY <1>25, <1>a, Pools, AnnounceShape DEF OnGone
<1>26. ASSUME NEW c \in Conns, OnIgnored(c) PROVE HandlerShape'
    BY <1>26, <1>a DEF OnIgnored, peerVars
<1>27. ASSUME NEW c \in Conns, NativeMove(c) PROVE HandlerShape'
    BY <1>27, <1>a DEF NativeMove, peerVars
<1>28. CASE PeerClose
    BY <1>28, <1>a, Pools, AnnounceShape DEF PeerClose, CloseConns
<1>29. CASE UNCHANGED vars
    BY <1>29, <1>a DEF vars, peerVars, connVars
<1>30. QED
    BY <1>1, <1>2, <1>3, <1>4, <1>5, <1>6, <1>7, <1>8, <1>9, <1>10, <1>11, <1>12, <1>13, <1>14, <1>15, <1>16, <1>17, <1>18, <1>19, <1>20, <1>21, <1>22, <1>23, <1>23b, <1>24, <1>25, <1>26, <1>27, <1>28, <1>29
    DEF Next, Continue, Callback, StepOutcome, ControlEvent

LEMMA CloseEndsIt ==
    ASSUME IInv, NEW m \in Mocks, pc[m] # "none", NEW next, CloseConns({m}, m, next)
    PROVE  raw'[m] = "null"
<1>1. m \in Conns /\ m \in CloseCalls({m})
    BY Pools, CloseCallsContain
<1>2. raw[m] \in {"open", "null"}
    BY <1>1 DEF IInv, HandlerShape, ConnIInv, ConnTypeOK
<1>3. QED BY <1>1, <1>2 DEF CloseConns, Close, Drop

LEMMA HandlerEndsClosedStep == IInv /\ [Next]_vars => HandlerEndsClosed'
<1> SUFFICES ASSUME IInv, [Next]_vars PROVE HandlerEndsClosed'
    OBVIOUS
<1>a. \A n \in Mocks : raw[n] = "null" => raw'[n] = "null"
    BY Forward, Pools
<1> USE DEF IInv, HandlerEndsClosed, PeerTypeOK
<1>1. ASSUME NEW m \in Mocks, CreateConnection(m) PROVE HandlerEndsClosed'
    BY <1>1, <1>a DEF CreateConnection
<1>2. ASSUME NEW m \in Mocks, ControlOpened(m) PROVE HandlerEndsClosed'
    BY <1>2, <1>a DEF ControlOpened
<1>3. ASSUME NEW m \in Mocks, ControlClosed(m) PROVE HandlerEndsClosed'
    BY <1>3, <1>a DEF ControlClosed
<1>4. ASSUME NEW m \in Mocks, NEW e \in Externals, AttachExternal(m, e) PROVE HandlerEndsClosed'
    BY <1>4, <1>a DEF AttachExternal
<1>5. ASSUME NEW m \in Mocks, StepCompletes(m) PROVE HandlerEndsClosed'
    BY <1>5, <1>a DEF StepCompletes
<1>6. ASSUME NEW m \in Mocks, SendFails(m) PROVE HandlerEndsClosed'
    BY <1>6, <1>a DEF SendFails, HandlerGoes
<1>7. ASSUME NEW m \in Mocks, ProxyAnswered(m) PROVE HandlerEndsClosed'
    BY <1>7, <1>a DEF ProxyAnswered, HandlerGoes
<1>8. ASSUME NEW m \in Mocks, ProxyRefused(m) PROVE HandlerEndsClosed'
    BY <1>8, <1>a DEF ProxyRefused, HandlerGoes
<1>9. ASSUME NEW m \in Mocks, GetHandlerSteps(m) PROVE HandlerEndsClosed'
    BY <1>9, <1>a DEF GetHandlerSteps
<1>10. ASSUME NEW m \in Mocks, StartStep(m) PROVE HandlerEndsClosed'
    BY <1>10, <1>a DEF StartStep, HandlerGoes
<1>11. ASSUME NEW m \in Mocks, StartCreate(m) PROVE HandlerEndsClosed'
    BY <1>11, <1>a DEF StartCreate, HandlerGoes
<1>12. ASSUME NEW m \in Mocks, StartEcho(m) PROVE HandlerEndsClosed'
    BY <1>12, <1>a DEF StartEcho, HandlerGoes
<1>13. ASSUME NEW m \in Mocks, CloseStep(m) PROVE HandlerEndsClosed'
    BY <1>13, <1>a DEF CloseStep, CloseConns, Announce
<1>14. ASSUME NEW m \in Mocks, StartDynamicProxy(m) PROVE HandlerEndsClosed'
    BY <1>14, <1>a DEF StartDynamicProxy, MirrorTraffic
<1>15. ASSUME NEW m \in Mocks, ProxyToAttached(m) PROVE HandlerEndsClosed'
    BY <1>15, <1>a DEF ProxyToAttached, MirrorTraffic
<1>16. ASSUME NEW m \in Mocks, NEW x \in Proxies, StartPeerProxy(m, x) PROVE HandlerEndsClosed'
    BY <1>16, <1>a DEF StartPeerProxy
<1>17. ASSUME NEW m \in Mocks, ProxyAttached(m) PROVE HandlerEndsClosed'
    BY <1>17, <1>a DEF ProxyAttached, MirrorTraffic
<1>18. ASSUME NEW m \in Mocks, HandlerEnds(m) PROVE HandlerEndsClosed'
    <2>1. raw'[m] = "null"
        BY <1>18, CloseEndsIt DEF HandlerEnds, IInv
    <2>2. QED BY <1>18, <1>a, <2>1 DEF HandlerEnds, CloseConns, Announce
<1>19. ASSUME NEW m \in Mocks, HandlerFails(m) PROVE HandlerEndsClosed'
    <2>1. raw'[m] = "null"
        BY <1>19, CloseEndsIt DEF HandlerFails, IInv
    <2>2. QED BY <1>19, <1>a, <2>1 DEF HandlerFails, CloseConns, Announce
<1>20. ASSUME NEW e \in Externals, CreateExternal(e) PROVE HandlerEndsClosed'
    BY <1>20, <1>a DEF CreateExternal
<1>21. ASSUME NEW e \in Externals, ClaimAttached(e) PROVE HandlerEndsClosed'
    <2>1. claim[e] \in Mocks
        BY <1>21 DEF ClaimAttached, HandlerShape
    <2>2. QED BY <1>21, <1>a, <2>1 DEF ClaimAttached
<1>22. ASSUME NEW c \in Peered, SetDescription(c) PROVE HandlerEndsClosed'
    BY <1>22, <1>a DEF SetDescription, peerVars
<1>23. ASSUME NEW c \in Conns, OnConnected(c) PROVE HandlerEndsClosed'
    BY <1>23, <1>a DEF OnConnected
<1>23b. ASSUME NEW c \in Conns, OnConnectedThrows(c) PROVE HandlerEndsClosed'
    BY <1>23b, <1>a DEF OnConnectedThrows
<1>24. ASSUME NEW c \in Conns, OnFailed(c) PROVE HandlerEndsClosed'
    BY <1>24, <1>a DEF OnFailed
<1>25. ASSUME NEW c \in Conns, OnGone(c) PROVE HandlerEndsClosed'
    BY <1>25, <1>a, Pools DEF OnGone, Announce
<1>26. ASSUME NEW c \in Conns, OnIgnored(c) PROVE HandlerEndsClosed'
    BY <1>26, <1>a DEF OnIgnored, peerVars
<1>27. ASSUME NEW c \in Conns, NativeMove(c) PROVE HandlerEndsClosed'
    BY <1>27, <1>a DEF NativeMove, peerVars
<1>28. CASE PeerClose
    BY <1>28, <1>a, Pools DEF PeerClose, CloseConns, Announce
<1>29. CASE UNCHANGED vars
    BY <1>29, <1>a DEF vars, peerVars
<1>30. QED
    BY <1>1, <1>2, <1>3, <1>4, <1>5, <1>6, <1>7, <1>8, <1>9, <1>10, <1>11, <1>12, <1>13, <1>14, <1>15, <1>16, <1>17, <1>18, <1>19, <1>20, <1>21, <1>22, <1>23, <1>23b, <1>24, <1>25, <1>26, <1>27, <1>28, <1>29
    DEF Next, Continue, Callback, StepOutcome, ControlEvent

-----------------------------------------------------------------------------
(* Session events.                                                         *)

LEMMA AppendToOne ==
    ASSUME NEW S, NEW x \in S, NEW y \in S
    PROVE  Append(<<x>>, y) = <<x, y>>
<1> DEFINE q == Append(<<x>>, y)  r == <<x, y>>
<1>1. q \in Seq(S) /\ r \in Seq(S)
    OBVIOUS
<1>2. Len(q) = 2 /\ Len(r) = 2
    OBVIOUS
<1>3. q[1] = r[1]
    OBVIOUS
<1>4. q[2] = r[2]
    OBVIOUS
<1>5. \A i \in 1 .. 2 : i = 1 \/ i = 2
    OBVIOUS
<1> HIDE DEF q, r
<1>6. \A i \in 1 .. Len(q) : q[i] = r[i]
    BY <1>2, <1>3, <1>4, <1>5, Zenon
<1>7. q = r
    BY <1>1, <1>2, <1>6, SeqEqual, Zenon
<1>8. QED BY <1>7 DEF q, r

LEMMA AppendToTwo ==
    ASSUME NEW S, NEW x \in S, NEW y \in S, NEW z \in S
    PROVE  Append(<<x, y>>, z) = <<x, y, z>>
<1> DEFINE q == Append(<<x, y>>, z)  r == <<x, y, z>>
<1>1. q \in Seq(S) /\ r \in Seq(S)
    OBVIOUS
<1>2. Len(q) = 3 /\ Len(r) = 3
    OBVIOUS
<1>3. q[1] = r[1]
    OBVIOUS
<1>4. q[2] = r[2]
    OBVIOUS
<1>5. q[3] = r[3]
    OBVIOUS
<1>6. \A i \in 1 .. 3 : i = 1 \/ i = 2 \/ i = 3
    OBVIOUS
<1> HIDE DEF q, r
<1>7. \A i \in 1 .. Len(q) : q[i] = r[i]
    BY <1>2, <1>3, <1>4, <1>5, <1>6, Zenon
<1>8. q = r
    BY <1>1, <1>2, <1>7, SeqEqual, Zenon
<1>9. QED BY <1>8 DEF q, r

LEMMA EventAppends ==
    /\ Append(<<>>, "peer-connected") = <<"peer-connected">>
    /\ \A u, v \in SessionEvents : Append(<<u>>, v) = <<u, v>>
    /\ \A u, v, w \in SessionEvents : Append(<<u, v>>, w) = <<u, v, w>>
<1>1. Append(<<>>, "peer-connected") = <<"peer-connected">>
    OBVIOUS
<1>2. QED BY <1>1, AppendToOne, AppendToTwo

\* One session's log against its listeners.
Fit(log, left) ==
    LET c == "peer-connected" a == "external-peer-attached" d == "peer-disconnected"
    IN \/ log = <<>> /\ left \subseteq {"connected"}
       \/ log = <<c>> /\ left \subseteq {"attached", "closed"}
       \/ log = <<c, a>> /\ left \subseteq {"closed"}
       \/ log = <<c, d>> /\ left \subseteq {"attached"}
       \/ log \in {<<c, a, d>>, <<c, d, a>>} /\ left = {}

LEMMA FitSame == ListenersFit <=> \A m \in Mocks : Fit(events[m], listen[m])
BY DEF ListenersFit, Fit

LEMMA FitSameNext == ListenersFit' <=> \A m \in Mocks : Fit(events'[m], listen'[m])
BY DEF ListenersFit, Fit

\* An event is announced by a listener that is registered, and removes it.
LEMMA FitStep ==
    ASSUME NEW log, NEW left, Fit(log, left)
    PROVE  /\ "connected" \in left => Fit(Append(log, "peer-connected"), {"attached", "closed"})
           /\ "attached" \in left => Fit(Append(log, "external-peer-attached"), left \ {"attached"})
           /\ "closed" \in left => Fit(Append(log, "peer-disconnected"), left \ {"closed"})
           /\ \A gone : Fit(log, left \ gone)
<1> DEFINE c == "peer-connected"  a == "external-peer-attached"  d == "peer-disconnected"
<1>1. {c, a, d} \subseteq SessionEvents
    BY DEF SessionEvents
<1>2. CASE log = <<>> /\ left \subseteq {"connected"}
    <2>1. Append(log, c) = <<c>>
        BY <1>2, EventAppends
    <2>2. QED BY <1>2, <2>1 DEF Fit
<1>3. CASE log = <<c>> /\ left \subseteq {"attached", "closed"}
    <2>1. Append(log, a) = <<c, a>> /\ Append(log, d) = <<c, d>>
        BY <1>1, <1>3, EventAppends
    <2>2. QED BY <1>3, <2>1 DEF Fit
<1>4. CASE log = <<c, a>> /\ left \subseteq {"closed"}
    <2>1. Append(log, d) = <<c, a, d>>
        BY <1>1, <1>4, EventAppends
    <2>2. QED BY <1>4, <2>1 DEF Fit
<1>5. CASE log = <<c, d>> /\ left \subseteq {"attached"}
    <2>1. Append(log, a) = <<c, d, a>>
        BY <1>1, <1>5, EventAppends
    <2>2. QED BY <1>5, <2>1 DEF Fit
<1>6. CASE log \in {<<c, a, d>>, <<c, d, a>>} /\ left = {}
    BY <1>6 DEF Fit
<1>7. QED BY <1>2, <1>3, <1>4, <1>5, <1>6 DEF Fit

LEMMA AnnounceFits ==
    ASSUME PeerTypeOK, ListenersFit, NEW E, NEW m, NEW next, Announce(E, m, next)
    PROVE  ListenersFit'
<1>1. ASSUME NEW n \in Mocks PROVE Fit(events'[n], listen'[n])
    <2>1. Fit(events[n], listen[n])
        BY FitSame
    <2>2. CASE n \in E /\ "closed" \in listen[n]
        BY <2>1, <2>2, FitStep DEF Announce
    <2>3. CASE n \in E /\ "closed" \notin listen[n]
        BY <2>1, <2>3, FitStep DEF Announce
    <2>4. CASE n \notin E
        BY <2>1, <2>4 DEF Announce
    <2>5. QED BY <2>2, <2>3, <2>4
<1>2. QED BY <1>1, FitSameNext

LEMMA AttachedFits ==
    ASSUME PeerTypeOK, ListenersFit, NEW m \in Mocks, NEW x, NEW throws \in BOOLEAN, AnnounceAttached(m, x, throws)
    PROVE  ListenersFit'
<1>1. ASSUME NEW n \in Mocks PROVE Fit(events'[n], listen'[n])
    <2>1. Fit(events[n], listen[n])
        BY FitSame
    <2>2. CASE n # m
        BY <2>1, <2>2 DEF AnnounceAttached, PeerTypeOK
    <2>3. CASE n = m /\ "attached" \in listen[m] /\ ~throws
        BY <2>1, <2>3, FitStep DEF AnnounceAttached, PeerTypeOK
    <2>4. CASE n = m /\ ~("attached" \in listen[m] /\ ~throws)
        <3>1. listen'[n] = listen[n] \ {"attached"}
            BY <2>4 DEF AnnounceAttached, PeerTypeOK
        <3>2. events'[n] = events[n]
            BY <2>4 DEF AnnounceAttached, PeerTypeOK
        <3>3. Fit(events[n], listen[n] \ {"attached"})
            BY <2>1, FitStep
        <3>4. QED BY <3>1, <3>2, <3>3
    <2>5. QED BY <2>2, <2>3, <2>4
<1>2. QED BY <1>1, FitSameNext

LEMMA ListenersFitStep == IInv /\ [Next]_vars => ListenersFit'
<1> SUFFICES ASSUME IInv, [Next]_vars PROVE ListenersFit'
    OBVIOUS
<1> USE DEF IInv
<1>a. events' = events /\ listen' = listen => ListenersFit'
    BY DEF ListenersFit
<1>1. ASSUME NEW m \in Mocks, CreateConnection(m) PROVE ListenersFit'
    <2>1. events[m] = <<>>
        <3>1. raw[m] = "none" /\ pc[m] = "none"
            BY <1>1, Pools DEF CreateConnection, Construct, HandlerShape
        <3>2. QED BY <3>1, Pools DEF EarlyQuiet
    <2>2. ASSUME NEW n \in Mocks PROVE Fit(events'[n], listen'[n])
        BY <1>1, <2>1, FitSame DEF CreateConnection, PeerTypeOK, Fit
    <2>3. QED BY <2>2, FitSameNext
<1>2. ASSUME NEW m \in Mocks, ControlOpened(m) PROVE ListenersFit'
    BY <1>2, <1>a DEF ControlOpened
<1>3. ASSUME NEW m \in Mocks, ControlClosed(m) PROVE ListenersFit'
    BY <1>3, <1>a DEF ControlClosed
<1>4. ASSUME NEW m \in Mocks, NEW e \in Externals, AttachExternal(m, e) PROVE ListenersFit'
    BY <1>4, <1>a DEF AttachExternal
<1>5. ASSUME NEW m \in Mocks, StepCompletes(m) PROVE ListenersFit'
    BY <1>5, <1>a DEF StepCompletes
<1>6. ASSUME NEW m \in Mocks, SendFails(m) PROVE ListenersFit'
    BY <1>6, <1>a DEF SendFails, HandlerGoes
<1>7. ASSUME NEW m \in Mocks, ProxyAnswered(m) PROVE ListenersFit'
    BY <1>7, <1>a DEF ProxyAnswered, HandlerGoes
<1>8. ASSUME NEW m \in Mocks, ProxyRefused(m) PROVE ListenersFit'
    BY <1>8, <1>a DEF ProxyRefused, HandlerGoes
<1>9. ASSUME NEW m \in Mocks, GetHandlerSteps(m) PROVE ListenersFit'
    BY <1>9, <1>a DEF GetHandlerSteps
<1>10. ASSUME NEW m \in Mocks, StartStep(m) PROVE ListenersFit'
    BY <1>10, <1>a DEF StartStep, HandlerGoes
<1>11. ASSUME NEW m \in Mocks, StartCreate(m) PROVE ListenersFit'
    BY <1>11, <1>a DEF StartCreate, HandlerGoes
<1>12. ASSUME NEW m \in Mocks, StartEcho(m) PROVE ListenersFit'
    BY <1>12, <1>a DEF StartEcho, HandlerGoes
<1>13. ASSUME NEW m \in Mocks, CloseStep(m) PROVE ListenersFit'
    BY <1>13, AnnounceFits DEF CloseStep, CloseConns
<1>14. ASSUME NEW m \in Mocks, StartDynamicProxy(m) PROVE ListenersFit'
    BY <1>14, <1>a DEF StartDynamicProxy
<1>15. ASSUME NEW m \in Mocks, ProxyToAttached(m) PROVE ListenersFit'
    BY <1>15, <1>a DEF ProxyToAttached
<1>16. ASSUME NEW m \in Mocks, NEW x \in Proxies, StartPeerProxy(m, x) PROVE ListenersFit'
    BY <1>16, <1>a DEF StartPeerProxy
<1>17. ASSUME NEW m \in Mocks, ProxyAttached(m) PROVE ListenersFit'
    BY <1>17, AttachedFits DEF ProxyAttached, AttachThrows
<1>18. ASSUME NEW m \in Mocks, HandlerEnds(m) PROVE ListenersFit'
    BY <1>18, AnnounceFits DEF HandlerEnds, CloseConns
<1>19. ASSUME NEW m \in Mocks, HandlerFails(m) PROVE ListenersFit'
    BY <1>19, AnnounceFits DEF HandlerFails, CloseConns
<1>20. ASSUME NEW e \in Externals, CreateExternal(e) PROVE ListenersFit'
    BY <1>20, <1>a DEF CreateExternal
<1>21. ASSUME NEW e \in Externals, ClaimAttached(e) PROVE ListenersFit'
    BY <1>21, AttachedFits DEF ClaimAttached, AttachThrows, HandlerShape, PeerTypeOK
<1>22. ASSUME NEW c \in Peered, SetDescription(c) PROVE ListenersFit'
    BY <1>22, <1>a DEF SetDescription, peerVars
<1>23. ASSUME NEW c \in Conns, OnConnected(c) PROVE ListenersFit'
    <2>1. CASE c \in Mocks /\ "connected" \in listen[c]
        <3>1. /\ events' = [events EXCEPT ![c] = Append(@, "peer-connected")]
              /\ listen' = [listen EXCEPT ![c] = {"attached", "closed"}]
            BY <1>23, <2>1 DEF OnConnected
        <3>2. ASSUME NEW n \in Mocks PROVE Fit(events'[n], listen'[n])
            <4>1. Fit(events[n], listen[n])
                BY FitSame
            <4>2. CASE n = c
                BY <2>1, <3>1, <4>1, <4>2, FitStep DEF PeerTypeOK
            <4>3. CASE n # c
                BY <3>1, <4>1, <4>3 DEF PeerTypeOK
            <4>4. QED BY <4>2, <4>3
        <3>3. QED BY <3>2, FitSameNext
    <2>2. CASE ~(c \in Mocks /\ "connected" \in listen[c])
        BY <1>23, <1>a, <2>2 DEF OnConnected
    <2>3. QED BY <2>1, <2>2
<1>23b. ASSUME NEW c \in Conns, OnConnectedThrows(c) PROVE ListenersFit'
    <2>1. events' = events /\ listen' = [listen EXCEPT ![c] = {}]
        BY <1>23b DEF OnConnectedThrows
    <2>2. ASSUME NEW n \in Mocks PROVE Fit(events'[n], listen'[n])
        <3>1. Fit(events[n], listen[n])
            BY FitSame
        <3>2. Fit(events[n], listen[n] \ listen[n])
            BY <3>1, FitStep
        <3>3. listen[n] \ listen[n] = {}
            OBVIOUS
        <3>4. listen'[n] \in {listen[n], {}} /\ events'[n] = events[n]
            BY <2>1 DEF PeerTypeOK
        <3>5. QED BY <3>1, <3>2, <3>3, <3>4
    <2>3. QED BY <2>2, FitSameNext
<1>24. ASSUME NEW c \in Conns, OnFailed(c) PROVE ListenersFit'
    BY <1>24, <1>a DEF OnFailed
<1>25. ASSUME NEW c \in Conns, OnGone(c) PROVE ListenersFit'
    BY <1>25, AnnounceFits DEF OnGone
<1>26. ASSUME NEW c \in Conns, OnIgnored(c) PROVE ListenersFit'
    BY <1>26, <1>a DEF OnIgnored, peerVars
<1>27. ASSUME NEW c \in Conns, NativeMove(c) PROVE ListenersFit'
    BY <1>27, <1>a DEF NativeMove, peerVars
<1>28. CASE PeerClose
    BY <1>28, AnnounceFits DEF PeerClose, CloseConns
<1>29. CASE UNCHANGED vars
    BY <1>29, <1>a DEF vars, peerVars
<1>30. QED
    BY <1>1, <1>2, <1>3, <1>4, <1>5, <1>6, <1>7, <1>8, <1>9, <1>10, <1>11, <1>12, <1>13, <1>14, <1>15, <1>16, <1>17, <1>18, <1>19, <1>20, <1>21, <1>22, <1>23, <1>23b, <1>24, <1>25, <1>26, <1>27, <1>28, <1>29
    DEF Next, Continue, Callback, StepOutcome, ControlEvent

\* While nothing was announced about a session, only its opening is listened for.
LEMMA QuietListens ==
    ASSUME ListenersFit, NEW n \in Mocks, events[n] = <<>>
    PROVE  "closed" \notin listen[n] /\ "attached" \notin listen[n]
<1> DEFINE c == "peer-connected"  a == "external-peer-attached"  d == "peer-disconnected"
<1>1. <<>> # <<c>> /\ <<>> # <<c, a>> /\ <<>> # <<c, d>> /\ <<>> # <<c, a, d>> /\ <<>> # <<c, d, a>>
    OBVIOUS
<1>2. \/ listen[n] \subseteq {"connected"}
      \/ events[n] \in {<<c>>, <<c, a>>, <<c, d>>, <<c, a, d>>, <<c, d, a>>}
    BY Zenon DEF ListenersFit
<1>3. events[n] \notin {<<c>>, <<c, a>>, <<c, d>>, <<c, a, d>>, <<c, d, a>>}
    BY <1>1, Zenon
<1>4. listen[n] \subseteq {"connected"}
    BY <1>2, <1>3
<1>5. QED BY <1>4

LEMMA EarlyQuietAnnounce ==
    ASSUME IInv, NEW E, NEW m, NEW next, Announce(E, m, next),
           \A n \in Mocks : raw'[n] = "none" => raw[n] = "none"
    PROVE  EarlyQuiet'
<1>1. ASSUME NEW n \in Mocks, raw'[n] = "none" PROVE events'[n] = <<>>
    <2>1. events[n] = <<>> /\ raw[n] = "none"
        BY <1>1 DEF IInv, EarlyQuiet
    <2>2. "closed" \notin listen[n]
        BY <2>1, QuietListens DEF IInv
    <2>3. QED BY <2>1, <2>2 DEF Announce
<1>2. QED BY <1>1 DEF EarlyQuiet

\* An attachment is announced about a session that was created only.
LEMMA EarlyQuietAttached ==
    ASSUME IInv, NEW m \in Mocks, NEW x, NEW throws \in BOOLEAN, AnnounceAttached(m, x, throws),
           \A n \in Mocks : raw'[n] = "none" => raw[n] = "none"
    PROVE  EarlyQuiet'
<1>1. ASSUME NEW n \in Mocks, raw'[n] = "none" PROVE events'[n] = <<>>
    <2>1. events[n] = <<>> /\ raw[n] = "none"
        BY <1>1 DEF IInv, EarlyQuiet
    <2>2. "attached" \notin listen[n]
        BY <2>1, QuietListens DEF IInv
    <2>3. QED BY <2>1, <2>2 DEF AnnounceAttached, IInv, PeerTypeOK
<1>2. QED BY <1>1 DEF EarlyQuiet

LEMMA EarlyQuietStep == IInv /\ [Next]_vars => EarlyQuiet'
<1> SUFFICES ASSUME IInv, [Next]_vars PROVE EarlyQuiet'
    OBVIOUS
<1>a. \A n \in Mocks : raw'[n] = "none" => raw[n] = "none"
    BY Forward, Pools
<1>b. events' = events => EarlyQuiet'
    BY <1>a DEF IInv, EarlyQuiet
<1>1. ASSUME NEW m \in Mocks, CreateConnection(m) PROVE EarlyQuiet'
    BY <1>1, <1>a, <1>b DEF CreateConnection
<1>2. ASSUME NEW m \in Mocks, ControlOpened(m) PROVE EarlyQuiet'
    BY <1>2, <1>a, <1>b DEF ControlOpened
<1>3. ASSUME NEW m \in Mocks, ControlClosed(m) PROVE EarlyQuiet'
    BY <1>3, <1>a, <1>b DEF ControlClosed
<1>4. ASSUME NEW m \in Mocks, NEW e \in Externals, AttachExternal(m, e) PROVE EarlyQuiet'
    BY <1>4, <1>a, <1>b DEF AttachExternal
<1>5. ASSUME NEW m \in Mocks, StepCompletes(m) PROVE EarlyQuiet'
    BY <1>5, <1>a, <1>b DEF StepCompletes
<1>6. ASSUME NEW m \in Mocks, SendFails(m) PROVE EarlyQuiet'
    BY <1>6, <1>a, <1>b DEF SendFails, HandlerGoes
<1>7. ASSUME NEW m \in Mocks, ProxyAnswered(m) PROVE EarlyQuiet'
    BY <1>7, <1>a, <1>b DEF ProxyAnswered, HandlerGoes
<1>8. ASSUME NEW m \in Mocks, ProxyRefused(m) PROVE EarlyQuiet'
    BY <1>8, <1>a, <1>b DEF ProxyRefused, HandlerGoes
<1>9. ASSUME NEW m \in Mocks, GetHandlerSteps(m) PROVE EarlyQuiet'
    BY <1>9, <1>a, <1>b DEF GetHandlerSteps
<1>10. ASSUME NEW m \in Mocks, StartStep(m) PROVE EarlyQuiet'
    BY <1>10, <1>a, <1>b DEF StartStep, HandlerGoes
<1>11. ASSUME NEW m \in Mocks, StartCreate(m) PROVE EarlyQuiet'
    BY <1>11, <1>a, <1>b DEF StartCreate, HandlerGoes
<1>12. ASSUME NEW m \in Mocks, StartEcho(m) PROVE EarlyQuiet'
    BY <1>12, <1>a, <1>b DEF StartEcho, HandlerGoes
<1>13. ASSUME NEW m \in Mocks, CloseStep(m) PROVE EarlyQuiet'
    BY <1>13, <1>a, EarlyQuietAnnounce DEF CloseStep, CloseConns
<1>14. ASSUME NEW m \in Mocks, StartDynamicProxy(m) PROVE EarlyQuiet'
    BY <1>14, <1>a, <1>b DEF StartDynamicProxy
<1>15. ASSUME NEW m \in Mocks, ProxyToAttached(m) PROVE EarlyQuiet'
    BY <1>15, <1>a, <1>b DEF ProxyToAttached
<1>16. ASSUME NEW m \in Mocks, NEW x \in Proxies, StartPeerProxy(m, x) PROVE EarlyQuiet'
    BY <1>16, <1>a, <1>b DEF StartPeerProxy
<1>17. ASSUME NEW m \in Mocks, ProxyAttached(m) PROVE EarlyQuiet'
    BY <1>17, <1>a, EarlyQuietAttached DEF ProxyAttached, AttachThrows
<1>18. ASSUME NEW m \in Mocks, HandlerEnds(m) PROVE EarlyQuiet'
    BY <1>18, <1>a, EarlyQuietAnnounce DEF HandlerEnds, CloseConns
<1>19. ASSUME NEW m \in Mocks, HandlerFails(m) PROVE EarlyQuiet'
    BY <1>19, <1>a, EarlyQuietAnnounce DEF HandlerFails, CloseConns
<1>20. ASSUME NEW e \in Externals, CreateExternal(e) PROVE EarlyQuiet'
    BY <1>20, <1>a, <1>b DEF CreateExternal
<1>21. ASSUME NEW e \in Externals, ClaimAttached(e) PROVE EarlyQuiet'
    BY <1>21, <1>a, EarlyQuietAttached DEF ClaimAttached, AttachThrows, IInv, HandlerShape, PeerTypeOK
<1>22. ASSUME NEW c \in Peered, SetDescription(c) PROVE EarlyQuiet'
    BY <1>22, <1>a, <1>b DEF SetDescription, peerVars
<1>23. ASSUME NEW c \in Conns, OnConnected(c) PROVE EarlyQuiet'
    <2>1. CASE c \in Mocks
        <3>1. raw[c] # "none"
            BY <1>23 DEF OnConnected
        <3>2. events' = events \/ events' = [events EXCEPT ![c] = Append(@, "peer-connected")]
            BY <1>23 DEF OnConnected
        <3>3. \A n \in Mocks : n # c => events'[n] = events[n]
            BY <3>2, <2>1 DEF IInv, PeerTypeOK
        <3>4. QED BY <1>a, <2>1, <3>1, <3>3 DEF IInv, EarlyQuiet
    <2>2. CASE c \notin Mocks
        BY <1>23, <1>a, <1>b, <2>2 DEF OnConnected
    <2>3. QED BY <2>1, <2>2
<1>23b. ASSUME NEW c \in Conns, OnConnectedThrows(c) PROVE EarlyQuiet'
    BY <1>23b, <1>b DEF OnConnectedThrows
<1>24. ASSUME NEW c \in Conns, OnFailed(c) PROVE EarlyQuiet'
    BY <1>24, <1>a, <1>b DEF OnFailed
<1>25. ASSUME NEW c \in Conns, OnGone(c) PROVE EarlyQuiet'
    BY <1>25, <1>a, EarlyQuietAnnounce DEF OnGone
<1>26. ASSUME NEW c \in Conns, OnIgnored(c) PROVE EarlyQuiet'
    BY <1>26, <1>a, <1>b DEF OnIgnored, peerVars
<1>27. ASSUME NEW c \in Conns, NativeMove(c) PROVE EarlyQuiet'
    BY <1>27, <1>a, <1>b DEF NativeMove, peerVars
<1>28. CASE PeerClose
    BY <1>28, <1>a, EarlyQuietAnnounce DEF PeerClose, CloseConns
<1>29. CASE UNCHANGED vars
    BY <1>29, <1>a, <1>b DEF vars, peerVars
<1>30. QED
    BY <1>1, <1>2, <1>3, <1>4, <1>5, <1>6, <1>7, <1>8, <1>9, <1>10, <1>11, <1>12, <1>13, <1>14, <1>15, <1>16, <1>17, <1>18, <1>19, <1>20, <1>21, <1>22, <1>23, <1>23b, <1>24, <1>25, <1>26, <1>27, <1>28, <1>29
    DEF Next, Continue, Callback, StepOutcome, ControlEvent

-----------------------------------------------------------------------------
(* Losses.                                                                 *)

LEMMA LossTail ==
    ASSUME NEW q \in Seq(NativeStates), q # <<>>
    PROVE  \A i \in 1 .. Len(Tail(q)) : i + 1 \in 1 .. Len(q) /\ Tail(q)[i] = q[i + 1]
OBVIOUS

LEMMA LossAppend ==
    ASSUME NEW q \in Seq(NativeStates), NEW s \in NativeStates
    PROVE  \A i \in 1 .. Len(Append(q, s)) :
              (i \in 1 .. Len(q) /\ Append(q, s)[i] = q[i]) \/ Append(q, s)[i] = s
OBVIOUS

LEMMA LossIsRealStep == IInv /\ [Next]_vars => LossIsReal'
<1> SUFFICES ASSUME IInv, [Next]_vars PROVE LossIsReal'
    OBVIOUS
<1>1. \A c \in Conns : native[c] \notin LiveStates => native'[c] \notin LiveStates
    BY Forward
<1>2. \A c \in Conns : pend[c] \in Seq(NativeStates)
    BY DEF IInv, ConnIInv, ConnTypeOK
<1>3. ASSUME pend' = pend PROVE LossIsReal'
    BY <1>1, <1>3 DEF IInv, LossIsReal
<1>4. ASSUME NEW c \in Conns, StateCallback(c) PROVE LossIsReal'
    <2>1. pend[c] # <<>> /\ pend' = [pend EXCEPT ![c] = Tail(@)]
        BY <1>4 DEF StateCallback
    <2>2. ASSUME NEW d \in Conns, NEW i \in 1 .. Len(pend'[d]),
                 pend'[d][i] \in GoneStates \cup {"failed"}
          PROVE  native[d] \notin LiveStates
        <3>1. CASE d = c
            <4>1. pend'[d] = Tail(pend[c])
                BY <2>1, <3>1 DEF IInv, ConnIInv, ConnTypeOK
            <4>2. i + 1 \in 1 .. Len(pend[c]) /\ pend'[d][i] = pend[c][i + 1]
                BY <1>2, <2>1, <2>2, <4>1, LossTail
            <4>3. QED BY <2>2, <3>1, <4>2 DEF IInv, LossIsReal
        <3>2. CASE d # c
            <4>1. pend'[d] = pend[d]
                BY <2>1, <3>2 DEF IInv, ConnIInv, ConnTypeOK
            <4>2. QED BY <2>2, <4>1 DEF IInv, LossIsReal
        <3>3. QED BY <3>1, <3>2
    <2>3. QED BY <1>1, <2>2 DEF LossIsReal
<1>5. ASSUME NEW c \in Conns, NEW s \in NativeStates, NativeChange(c, s) PROVE LossIsReal'
    <2>1. /\ pend' = [pend EXCEPT ![c] = Append(@, s)]
          /\ native' = [native EXCEPT ![c] = s]
        BY <1>5 DEF NativeChange
    <2>2. ASSUME NEW d \in Conns, NEW i \in 1 .. Len(pend'[d]),
                 pend'[d][i] \in GoneStates \cup {"failed"}
          PROVE  native'[d] \notin LiveStates
        <3>1. CASE d = c
            <4>1. pend'[d] = Append(pend[c], s) /\ native'[d] = s
                BY <2>1, <3>1 DEF IInv, ConnIInv, ConnTypeOK
            <4>2. \/ i \in 1 .. Len(pend[c]) /\ pend'[d][i] = pend[c][i]
                  \/ pend'[d][i] = s
                BY <1>2, <2>2, <4>1, LossAppend
            <4>3. CASE pend'[d][i] = s
                BY <2>2, <4>1, <4>3 DEF GoneStates, LiveStates
            <4>4. CASE i \in 1 .. Len(pend[c]) /\ pend'[d][i] = pend[c][i]
                BY <1>1, <2>2, <3>1, <4>4 DEF IInv, LossIsReal
            <4>5. QED BY <4>2, <4>3, <4>4
        <3>2. CASE d # c
            <4>1. pend'[d] = pend[d]
                BY <2>1, <3>2 DEF IInv, ConnIInv, ConnTypeOK
            <4>2. QED BY <1>1, <2>2, <4>1 DEF IInv, LossIsReal
        <3>3. QED BY <3>1, <3>2
    <2>3. QED BY <2>2 DEF LossIsReal
<1>6. [ConnNext]_connVars
    BY ConnectionStep
<1>7. QED
    BY <1>3, <1>4, <1>5, <1>6 DEF ConnNext, connVars, Construct, SetRemoteDescription,
                                RefuseDescription, Close,
                                MirrorClosure

\* What a gone callback says of the native state.
LEMMA GoneIsGone ==
    ASSUME IInv, NEW c \in Conns, pend[c] # <<>>, Head(pend[c]) \in GoneStates
    PROVE  native[c] \notin LiveStates
<1>1. pend[c] \in Seq(NativeStates)
    BY DEF IInv, ConnIInv, ConnTypeOK
<1>2. 1 \in 1 .. Len(pend[c]) /\ Head(pend[c]) = pend[c][1]
    BY <1>1
<1>3. QED BY <1>2 DEF IInv, LossIsReal

\* Who announces a closure is not live after the step that does it.
LEMMA EmittersGone ==
    ASSUME IInv, NEW C, Drop(C), NEW c \in Emitters(C), c \in Conns
    PROVE  native'[c] \notin LiveStates
BY DEF Emitters, CloseEmits, Drop, LiveStates, IInv, ConnIInv, ConnTypeOK


-----------------------------------------------------------------------------
(* Tracking, and announced disconnections.                                 *)

LEMMA TrackedKept ==
    ASSUME IInv, [Next]_vars, tracked \subseteq tracked',
           \A c \in Peered : raw'[c] = "open" => raw[c] = "open" \/ c \in tracked'
    PROVE  LiveAreTracked'
<1>1. \A c \in Peered : native'[c] \in LiveStates => native[c] \in LiveStates
    BY Forward, Pools
<1>2. QED BY <1>1 DEF IInv, LiveAreTracked

LEMMA TrackedAnnounce ==
    ASSUME IInv, [Next]_vars, NEW E, NEW m, NEW next, Announce(E, m, next),
           \A c \in Peered : raw'[c] = "open" => raw[c] = "open",
           \A c \in E \cap Conns : native'[c] \notin LiveStates
    PROVE  LiveAreTracked'
<1>1. \A c \in Peered : native'[c] \in LiveStates => native[c] \in LiveStates /\ c \notin E
    BY Forward, Pools
<1>2. QED BY <1>1 DEF IInv, LiveAreTracked, Announce

\* The closing steps of IInv, as far as they concern the announced connections.
LEMMA CloseConnsGone ==
    ASSUME IInv, NEW S \in SUBSET Conns, NEW m, NEW next, CloseConns(S, m, next)
    PROVE  /\ Announce(Emitters(CloseCalls(S)), m, next)
           /\ \A c \in Conns : raw'[c] = "open" => raw[c] = "open"
           /\ \A c \in Emitters(CloseCalls(S)) \cap Conns : native'[c] \notin LiveStates
<1>1. Drop(CloseCalls(S))
    BY DEF CloseConns, Close
<1>2. \A c \in Conns : raw'[c] = "open" => raw[c] = "open"
    BY <1>1 DEF Drop
<1>3. QED BY <1>1, <1>2, EmittersGone DEF CloseConns

LEMMA OnGoneGone ==
    ASSUME IInv, [Next]_vars, NEW c \in Conns, OnGone(c)
    PROVE  /\ Announce({c} \cup Emitters(GoneCalls(c)), None, "run")
           /\ \A d \in Conns : raw'[d] = "open" => raw[d] = "open"
           /\ \A d \in ({c} \cup Emitters(GoneCalls(c))) \cap Conns : native'[d] \notin LiveStates
<1>1. Drop(GoneCalls(c))
    BY DEF OnGone, StateCallback
<1>2. \A d \in Conns : raw'[d] = "open" => raw[d] = "open"
    BY <1>1 DEF Drop
<1>3. native[c] \notin LiveStates
    BY GoneIsGone DEF OnGone
<1>4. native'[c] \notin LiveStates
    BY <1>3, Forward
<1>5. QED BY <1>1, <1>2, <1>4, EmittersGone DEF OnGone

LEMMA LiveAreTrackedStep == IInv /\ [Next]_vars => LiveAreTracked'
<1> SUFFICES ASSUME IInv, [Next]_vars PROVE LiveAreTracked'
    OBVIOUS
<1>1. ASSUME NEW m \in Mocks, CreateConnection(m) PROVE LiveAreTracked'
    <2>1. \A c \in Conns : raw'[c] = "open" => raw[c] = "open" \/ c = m
        BY <1>1 DEF CreateConnection, Construct, IInv, ConnIInv, ConnTypeOK
    <2>2. QED BY <1>1, <2>1, Pools, TrackedKept DEF CreateConnection
<1>2. ASSUME NEW m \in Mocks, ControlOpened(m) PROVE LiveAreTracked'
    BY <1>2, TrackedKept DEF ControlOpened, connVars, IInv
<1>3. ASSUME NEW m \in Mocks, ControlClosed(m) PROVE LiveAreTracked'
    BY <1>3, TrackedKept DEF ControlClosed, connVars, IInv
<1>4. ASSUME NEW m \in Mocks, NEW e \in Externals, AttachExternal(m, e) PROVE LiveAreTracked'
    BY <1>4, TrackedKept DEF AttachExternal, connVars, IInv
<1>5. ASSUME NEW m \in Mocks, StepCompletes(m) PROVE LiveAreTracked'
    BY <1>5, TrackedKept DEF StepCompletes, connVars, IInv
<1>6. ASSUME NEW m \in Mocks, SendFails(m) PROVE LiveAreTracked'
    BY <1>6, TrackedKept DEF SendFails, HandlerGoes, connVars
<1>7. ASSUME NEW m \in Mocks, ProxyAnswered(m) PROVE LiveAreTracked'
    BY <1>7, TrackedKept DEF ProxyAnswered, HandlerGoes, SetRemoteDescription
<1>8. ASSUME NEW m \in Mocks, ProxyRefused(m) PROVE LiveAreTracked'
    BY <1>8, TrackedKept DEF ProxyRefused, HandlerGoes, connVars, RefuseDescription
<1>9. ASSUME NEW m \in Mocks, GetHandlerSteps(m) PROVE LiveAreTracked'
    BY <1>9, TrackedKept DEF GetHandlerSteps, connVars, IInv
<1>10. ASSUME NEW m \in Mocks, StartStep(m) PROVE LiveAreTracked'
    BY <1>10, TrackedKept DEF StartStep, HandlerGoes, connVars
<1>11. ASSUME NEW m \in Mocks, StartCreate(m) PROVE LiveAreTracked'
    BY <1>11, TrackedKept DEF StartCreate, HandlerGoes, connVars
<1>12. ASSUME NEW m \in Mocks, StartEcho(m) PROVE LiveAreTracked'
    BY <1>12, TrackedKept DEF StartEcho, HandlerGoes, connVars
<1>13. ASSUME NEW m \in Mocks, CloseStep(m) PROVE LiveAreTracked'
    BY <1>13, Pools, CloseConnsGone, TrackedAnnounce DEF CloseStep
<1>14. ASSUME NEW m \in Mocks, StartDynamicProxy(m) PROVE LiveAreTracked'
    BY <1>14, TrackedKept DEF StartDynamicProxy, MirrorTraffic, MirrorClosure, connVars
<1>15. ASSUME NEW m \in Mocks, ProxyToAttached(m) PROVE LiveAreTracked'
    BY <1>15, TrackedKept DEF ProxyToAttached, MirrorTraffic, MirrorClosure, connVars
<1>16. ASSUME NEW m \in Mocks, NEW x \in Proxies, StartPeerProxy(m, x) PROVE LiveAreTracked'
    <2>1. \A c \in Conns : raw'[c] = "open" => raw[c] = "open" \/ c = x
        BY <1>16 DEF StartPeerProxy, Construct, IInv, ConnIInv, ConnTypeOK
    <2>2. x \notin Peered
        BY PeerAssumption DEF Peered
    <2>3. QED BY <1>16, <2>1, <2>2, Pools, TrackedKept DEF StartPeerProxy
<1>17. ASSUME NEW m \in Mocks, ProxyAttached(m) PROVE LiveAreTracked'
    BY <1>17, TrackedKept DEF ProxyAttached, MirrorTraffic, MirrorClosure, connVars
<1>18. ASSUME NEW m \in Mocks, HandlerEnds(m) PROVE LiveAreTracked'
    BY <1>18, Pools, CloseConnsGone, TrackedAnnounce DEF HandlerEnds
<1>19. ASSUME NEW m \in Mocks, HandlerFails(m) PROVE LiveAreTracked'
    BY <1>19, Pools, CloseConnsGone, TrackedAnnounce DEF HandlerFails
<1>20. ASSUME NEW e \in Externals, CreateExternal(e) PROVE LiveAreTracked'
    <2>1. \A c \in Conns : raw'[c] = "open" => raw[c] = "open" \/ c = e
        BY <1>20 DEF CreateExternal, Construct, IInv, ConnIInv, ConnTypeOK
    <2>2. QED BY <1>20, <2>1, Pools, TrackedKept DEF CreateExternal
<1>21. ASSUME NEW e \in Externals, ClaimAttached(e) PROVE LiveAreTracked'
    BY <1>21, TrackedKept DEF ClaimAttached, connVars, IInv
<1>22. ASSUME NEW c \in Peered, SetDescription(c) PROVE LiveAreTracked'
    BY <1>22, TrackedKept DEF SetDescription, peerVars, SetRemoteDescription, RefuseDescription
<1>23. ASSUME NEW c \in Conns, OnConnected(c) PROVE LiveAreTracked'
    BY <1>23, TrackedKept DEF OnConnected, StateCallback, GoneStates
<1>23b. ASSUME NEW c \in Conns, OnConnectedThrows(c) PROVE LiveAreTracked'
    BY <1>23b, TrackedKept DEF OnConnectedThrows, StateCallback, GoneStates
<1>24. ASSUME NEW c \in Conns, OnFailed(c) PROVE LiveAreTracked'
    BY <1>24, TrackedKept DEF OnFailed, StateCallback, GoneStates
<1>25. ASSUME NEW c \in Conns, OnGone(c) PROVE LiveAreTracked'
    BY <1>25, Pools, OnGoneGone, TrackedAnnounce
<1>26. ASSUME NEW c \in Conns, OnIgnored(c) PROVE LiveAreTracked'
    BY <1>26, TrackedKept DEF OnIgnored, peerVars, StateCallback
<1>27. ASSUME NEW c \in Conns, NativeMove(c) PROVE LiveAreTracked'
    BY <1>27, TrackedKept DEF NativeMove, peerVars, NativeChange
<1>28. CASE PeerClose
    <2>1. tracked \in SUBSET Conns
        BY Pools DEF IInv, PeerTypeOK
    <2>2. QED BY <1>28, <2>1, Pools, CloseConnsGone, TrackedAnnounce DEF PeerClose
<1>29. CASE UNCHANGED vars
    BY <1>29, TrackedKept DEF vars, peerVars, connVars
<1>30. QED
    BY <1>1, <1>2, <1>3, <1>4, <1>5, <1>6, <1>7, <1>8, <1>9, <1>10, <1>11, <1>12, <1>13, <1>14, <1>15, <1>16, <1>17, <1>18, <1>19, <1>20, <1>21, <1>22, <1>23, <1>23b, <1>24, <1>25, <1>26, <1>27, <1>28, <1>29
    DEF Next, Continue, Callback, StepOutcome, ControlEvent

\* A log in which a disconnection appears.
Tells(q) == \E i \in 1 .. Len(q) : q[i] = "peer-disconnected"

LEMMA RealKept ==
    ASSUME IInv, [Next]_vars,
           \A n \in Mocks : Tells(events'[n]) => Tells(events[n]) \/ native'[n] \notin LiveStates
    PROVE  DisconnectIsReal'
<1>1. \A n \in Mocks : native[n] \notin LiveStates => native'[n] \notin LiveStates
    BY Forward, Pools
<1>2. \A n \in Mocks : Tells(events[n]) => native[n] \notin LiveStates
    BY DEF IInv, DisconnectIsReal, Tells
<1>3. QED BY <1>1, <1>2 DEF DisconnectIsReal, Tells

LEMMA TellsAppend ==
    ASSUME NEW q \in Seq(SessionEvents), NEW v \in SessionEvents, v # "peer-disconnected",
           Tells(Append(q, v))
    PROVE  Tells(q)
<1>1. PICK i \in 1 .. Len(Append(q, v)) : Append(q, v)[i] = "peer-disconnected"
    BY DEF Tells
<1>2. i \in 1 .. Len(q) /\ q[i] = "peer-disconnected"
    BY <1>1
<1>3. QED BY <1>2 DEF Tells

LEMMA RealAnnounce ==
    ASSUME IInv, [Next]_vars, NEW E, NEW m, NEW next, Announce(E, m, next),
           \A c \in E \cap Conns : native'[c] \notin LiveStates
    PROVE  DisconnectIsReal'
<1>1. ASSUME NEW n \in Mocks, Tells(events'[n])
      PROVE  Tells(events[n]) \/ native'[n] \notin LiveStates
    <2>1. CASE n \in E
        BY <2>1, Pools
    <2>2. CASE n \notin E
        BY <1>1, <2>2 DEF Announce
    <2>3. QED BY <2>1, <2>2
<1>2. QED BY <1>1, RealKept

LEMMA RealAttached ==
    ASSUME IInv, [Next]_vars, NEW m \in Mocks, NEW x, NEW throws \in BOOLEAN, AnnounceAttached(m, x, throws)
    PROVE  DisconnectIsReal'
<1>1. ASSUME NEW n \in Mocks, Tells(events'[n])
      PROVE  Tells(events[n])
    <2>1. events[n] \in Seq(SessionEvents)
        BY DEF IInv, PeerTypeOK
    <2>2. events'[n] = events[n] \/ events'[n] = Append(events[n], "external-peer-attached")
        BY DEF AnnounceAttached, IInv, PeerTypeOK
    <2>3. QED BY <1>1, <2>1, <2>2, TellsAppend DEF SessionEvents
<1>2. QED BY <1>1, RealKept

LEMMA DisconnectIsRealStep == IInv /\ [Next]_vars => DisconnectIsReal'
<1> SUFFICES ASSUME IInv, [Next]_vars PROVE DisconnectIsReal'
    OBVIOUS
<1>1. ASSUME NEW m \in Mocks, CreateConnection(m) PROVE DisconnectIsReal'
    BY <1>1, RealKept DEF CreateConnection
<1>2. ASSUME NEW m \in Mocks, ControlOpened(m) PROVE DisconnectIsReal'
    BY <1>2, RealKept DEF ControlOpened
<1>3. ASSUME NEW m \in Mocks, ControlClosed(m) PROVE DisconnectIsReal'
    BY <1>3, RealKept DEF ControlClosed
<1>4. ASSUME NEW m \in Mocks, NEW e \in Externals, AttachExternal(m, e) PROVE DisconnectIsReal'
    BY <1>4, RealKept DEF AttachExternal
<1>5. ASSUME NEW m \in Mocks, StepCompletes(m) PROVE DisconnectIsReal'
    BY <1>5, RealKept DEF StepCompletes
<1>6. ASSUME NEW m \in Mocks, SendFails(m) PROVE DisconnectIsReal'
    BY <1>6, RealKept DEF SendFails, HandlerGoes
<1>7. ASSUME NEW m \in Mocks, ProxyAnswered(m) PROVE DisconnectIsReal'
    BY <1>7, RealKept DEF ProxyAnswered, HandlerGoes
<1>8. ASSUME NEW m \in Mocks, ProxyRefused(m) PROVE DisconnectIsReal'
    BY <1>8, RealKept DEF ProxyRefused, HandlerGoes
<1>9. ASSUME NEW m \in Mocks, GetHandlerSteps(m) PROVE DisconnectIsReal'
    BY <1>9, RealKept DEF GetHandlerSteps
<1>10. ASSUME NEW m \in Mocks, StartStep(m) PROVE DisconnectIsReal'
    BY <1>10, RealKept DEF StartStep, HandlerGoes
<1>11. ASSUME NEW m \in Mocks, StartCreate(m) PROVE DisconnectIsReal'
    BY <1>11, RealKept DEF StartCreate, HandlerGoes
<1>12. ASSUME NEW m \in Mocks, StartEcho(m) PROVE DisconnectIsReal'
    BY <1>12, RealKept DEF StartEcho, HandlerGoes
<1>13. ASSUME NEW m \in Mocks, CloseStep(m) PROVE DisconnectIsReal'
    BY <1>13, Pools, CloseConnsGone, RealAnnounce DEF CloseStep
<1>14. ASSUME NEW m \in Mocks, StartDynamicProxy(m) PROVE DisconnectIsReal'
    BY <1>14, RealKept DEF StartDynamicProxy
<1>15. ASSUME NEW m \in Mocks, ProxyToAttached(m) PROVE DisconnectIsReal'
    BY <1>15, RealKept DEF ProxyToAttached
<1>16. ASSUME NEW m \in Mocks, NEW x \in Proxies, StartPeerProxy(m, x) PROVE DisconnectIsReal'
    BY <1>16, RealKept DEF StartPeerProxy
<1>17. ASSUME NEW m \in Mocks, ProxyAttached(m) PROVE DisconnectIsReal'
    BY <1>17, RealAttached DEF ProxyAttached, AttachThrows
<1>18. ASSUME NEW m \in Mocks, HandlerEnds(m) PROVE DisconnectIsReal'
    BY <1>18, Pools, CloseConnsGone, RealAnnounce DEF HandlerEnds
<1>19. ASSUME NEW m \in Mocks, HandlerFails(m) PROVE DisconnectIsReal'
    BY <1>19, Pools, CloseConnsGone, RealAnnounce DEF HandlerFails
<1>20. ASSUME NEW e \in Externals, CreateExternal(e) PROVE DisconnectIsReal'
    BY <1>20, RealKept DEF CreateExternal
<1>21. ASSUME NEW e \in Externals, ClaimAttached(e) PROVE DisconnectIsReal'
    BY <1>21, RealAttached DEF ClaimAttached, AttachThrows, IInv, HandlerShape, PeerTypeOK
<1>22. ASSUME NEW c \in Peered, SetDescription(c) PROVE DisconnectIsReal'
    BY <1>22, RealKept DEF SetDescription, peerVars
<1>23. ASSUME NEW c \in Conns, OnConnected(c) PROVE DisconnectIsReal'
    <2>1. ASSUME NEW n \in Mocks, Tells(events'[n]) PROVE Tells(events[n])
        <3>1. events[n] \in Seq(SessionEvents)
            BY DEF IInv, PeerTypeOK
        <3>2. events'[n] = events[n] \/ events'[n] = Append(events[n], "peer-connected")
            BY <1>23 DEF OnConnected, IInv, PeerTypeOK
        <3>3. QED BY <2>1, <3>1, <3>2, TellsAppend DEF SessionEvents
    <2>2. QED BY <2>1, RealKept
<1>23b. ASSUME NEW c \in Conns, OnConnectedThrows(c) PROVE DisconnectIsReal'
    BY <1>23b, RealKept DEF OnConnectedThrows
<1>24. ASSUME NEW c \in Conns, OnFailed(c) PROVE DisconnectIsReal'
    BY <1>24, RealKept DEF OnFailed
<1>25. ASSUME NEW c \in Conns, OnGone(c) PROVE DisconnectIsReal'
    BY <1>25, OnGoneGone, RealAnnounce
<1>26. ASSUME NEW c \in Conns, OnIgnored(c) PROVE DisconnectIsReal'
    BY <1>26, RealKept DEF OnIgnored, peerVars
<1>27. ASSUME NEW c \in Conns, NativeMove(c) PROVE DisconnectIsReal'
    BY <1>27, RealKept DEF NativeMove, peerVars
<1>28. CASE PeerClose
    <2>1. tracked \in SUBSET Conns
        BY Pools DEF IInv, PeerTypeOK
    <2>2. QED BY <1>28, <2>1, CloseConnsGone, RealAnnounce DEF PeerClose
<1>29. CASE UNCHANGED vars
    BY <1>29, RealKept DEF vars, peerVars
<1>30. QED
    BY <1>1, <1>2, <1>3, <1>4, <1>5, <1>6, <1>7, <1>8, <1>9, <1>10, <1>11, <1>12, <1>13, <1>14, <1>15, <1>16, <1>17, <1>18, <1>19, <1>20, <1>21, <1>22, <1>23, <1>23b, <1>24, <1>25, <1>26, <1>27, <1>28, <1>29
    DEF Next, Continue, Callback, StepOutcome, ControlEvent

-----------------------------------------------------------------------------
(* External connections have one user.                                     *)

LEMMA UsersKept ==
    ASSUME IInv, [Next]_vars, unassigned' \subseteq unassigned,
           \A n \in Mocks, y \in Externals \cup Proxies : Uses(n, y)' => Uses(n, y)
    PROVE  OneUser'
<1>1. \A y \in Externals \cup Proxies : raw[y] # "none" => raw'[y] # "none"
    BY Forward, Pools
<1>2. unassigned \subseteq Externals
    BY DEF IInv, PeerTypeOK
<1>3. QED BY <1>1, <1>2 DEF IInv, OneUser

LEMMA UserGained ==
    ASSUME IInv, [Next]_vars, NEW m \in Mocks, NEW x \in Externals \cup Proxies,
           unassigned' \subseteq unassigned \ {x}, raw'[x] # "none",
           \A n \in Mocks : ~Uses(n, x),
           \A n \in Mocks, y \in Externals \cup Proxies :
              Uses(n, y)' => Uses(n, y) \/ (n = m /\ y = x)
    PROVE  OneUser'
<1>1. \A y \in Externals \cup Proxies : raw[y] # "none" => raw'[y] # "none"
    BY Forward, Pools
<1>2. unassigned \subseteq Externals
    BY DEF IInv, PeerTypeOK
<1>3. QED BY <1>1, <1>2 DEF IInv, OneUser

LEMMA OneUserStep == IInv /\ [Next]_vars => OneUser'
<1> SUFFICES ASSUME IInv, [Next]_vars PROVE OneUser'
    OBVIOUS
<1>1. ASSUME NEW m \in Mocks, CreateConnection(m) PROVE OneUser'
    BY <1>1, UsersKept DEF CreateConnection, Uses, Holds, connVars, attachVars, Construct
<1>2. ASSUME NEW m \in Mocks, ControlOpened(m) PROVE OneUser'
    BY <1>2, UsersKept DEF ControlOpened, Uses, Holds, connVars, attachVars
<1>3. ASSUME NEW m \in Mocks, ControlClosed(m) PROVE OneUser'
    BY <1>3, UsersKept DEF ControlClosed, Uses, Holds, connVars, attachVars
<1>4. ASSUME NEW m \in Mocks, NEW e \in Externals, AttachExternal(m, e) PROVE OneUser'
    <2>1. e \in unassigned /\ raw[e] # "none" /\ \A n \in Mocks : ~Uses(n, e)
        BY <1>4 DEF AttachExternal, IInv, OneUser
    <2>2. claim' = [claim EXCEPT ![e] = m] \/ claim' = claim
        BY <1>4 DEF AttachExternal
    <2>3. \A n \in Mocks, y \in Externals \cup Proxies : Uses(n, y)' => Uses(n, y) \/ (n = m /\ y = e)
        BY <1>4, <2>2 DEF AttachExternal, Uses, Holds, connVars, IInv, PeerTypeOK
    <2>4. raw'[e] # "none" /\ unassigned' = unassigned \ {e}
        BY <1>4, <2>1 DEF AttachExternal, connVars
    <2>5. QED BY <2>1, <2>3, <2>4, UserGained
<1>5. ASSUME NEW m \in Mocks, StepCompletes(m) PROVE OneUser'
    BY <1>5, UsersKept DEF StepCompletes, Uses, Holds, connVars, attachVars
<1>6. ASSUME NEW m \in Mocks, SendFails(m) PROVE OneUser'
    BY <1>6, UsersKept DEF SendFails, Uses, Holds, connVars, attachVars, HandlerGoes, SetRemoteDescription
<1>7. ASSUME NEW m \in Mocks, ProxyAnswered(m) PROVE OneUser'
    BY <1>7, UsersKept DEF ProxyAnswered, Uses, Holds, connVars, attachVars, HandlerGoes, SetRemoteDescription
<1>8. ASSUME NEW m \in Mocks, ProxyRefused(m) PROVE OneUser'
    BY <1>8, UsersKept DEF ProxyRefused, Uses, Holds, connVars, attachVars, HandlerGoes, RefuseDescription
<1>9. ASSUME NEW m \in Mocks, GetHandlerSteps(m) PROVE OneUser'
    BY <1>9, UsersKept DEF GetHandlerSteps, Uses, Holds, connVars, attachVars
<1>10. ASSUME NEW m \in Mocks, StartStep(m) PROVE OneUser'
    BY <1>10, UsersKept DEF StartStep, Uses, Holds, connVars, attachVars, HandlerGoes, SetRemoteDescription
<1>11. ASSUME NEW m \in Mocks, StartCreate(m) PROVE OneUser'
    BY <1>11, UsersKept DEF StartCreate, Uses, Holds, connVars, attachVars, HandlerGoes, SetRemoteDescription
<1>12. ASSUME NEW m \in Mocks, StartEcho(m) PROVE OneUser'
    BY <1>12, UsersKept DEF StartEcho, Uses, Holds, connVars, attachVars, HandlerGoes, SetRemoteDescription
<1>13. ASSUME NEW m \in Mocks, CloseStep(m) PROVE OneUser'
    BY <1>13, UsersKept DEF CloseStep, Uses, Holds, connVars, attachVars, CloseConns, Close, Drop
<1>14. ASSUME NEW m \in Mocks, StartDynamicProxy(m) PROVE OneUser'
    <2>1. mirror' = mirror \/ mirror' = mirror \cup {<<m, external[m]>>}
        BY <1>14 DEF StartDynamicProxy, MirrorTraffic, MirrorClosure, connVars
    <2>2. \A n \in Mocks, y \in Externals \cup Proxies : Uses(n, y)' => Uses(n, y)
        BY <1>14, <2>1 DEF StartDynamicProxy, attachVars, Uses, Holds
    <2>3. QED BY <1>14, <2>2, UsersKept DEF StartDynamicProxy, attachVars
<1>15. ASSUME NEW m \in Mocks, ProxyToAttached(m) PROVE OneUser'
    <2>1. mirror' = mirror \/ mirror' = mirror \cup {<<m, external[m]>>}
        BY <1>15 DEF ProxyToAttached, MirrorTraffic, MirrorClosure, connVars
    <2>2. \A n \in Mocks, y \in Externals \cup Proxies : Uses(n, y)' => Uses(n, y)
        BY <1>15, <2>1 DEF ProxyToAttached, attachVars, Uses, Holds
    <2>3. QED BY <1>15, <2>2, UsersKept DEF ProxyToAttached, attachVars
<1>16. ASSUME NEW m \in Mocks, NEW x \in Proxies, StartPeerProxy(m, x) PROVE OneUser'
    <2>1. \A n \in Mocks : ~Uses(n, x)
        BY <1>16 DEF StartPeerProxy, Construct, IInv, OneUser
    <2>2. \A n \in Mocks, y \in Externals \cup Proxies : Uses(n, y)' => Uses(n, y) \/ (n = m /\ y = x)
        BY <1>16 DEF StartPeerProxy, Construct, attachVars, Uses, Holds, IInv, PeerTypeOK
    <2>3. raw'[x] # "none" /\ unassigned' = unassigned /\ x \notin unassigned
        BY <1>16, Pools DEF StartPeerProxy, Construct, attachVars, IInv, ConnIInv, ConnTypeOK, PeerTypeOK
    <2>4. QED BY <2>1, <2>2, <2>3, UserGained
<1>17. ASSUME NEW m \in Mocks, ProxyAttached(m) PROVE OneUser'
    <2>1. /\ external' = [external EXCEPT ![m] = target[m]]
          /\ mirror' = mirror \/ mirror' = mirror \cup {<<m, target[m]>>}
          /\ claim' = claim /\ target' = target /\ unassigned' = unassigned
        BY <1>17 DEF ProxyAttached, AnnounceAttached, MirrorTraffic, MirrorClosure, connVars
    <2>2. \A n \in Mocks, y \in Externals \cup Proxies : Uses(n, y)' => Uses(n, y)
        BY <2>1 DEF Uses, Holds, IInv, PeerTypeOK
    <2>3. QED BY <2>1, <2>2, UsersKept
<1>18. ASSUME NEW m \in Mocks, HandlerEnds(m) PROVE OneUser'
    BY <1>18, UsersKept DEF HandlerEnds, Uses, Holds, connVars, attachVars, CloseConns, Close, Drop
<1>19. ASSUME NEW m \in Mocks, HandlerFails(m) PROVE OneUser'
    BY <1>19, UsersKept DEF HandlerFails, Uses, Holds, connVars, attachVars, CloseConns, Close, Drop
<1>20. ASSUME NEW e \in Externals, CreateExternal(e) PROVE OneUser'
    <2>1. \A n \in Mocks : ~Uses(n, e)
        BY <1>20 DEF CreateExternal, Construct, IInv, OneUser
    <2>2. \A n \in Mocks, y \in Externals \cup Proxies : Uses(n, y)' <=> Uses(n, y)
        BY <1>20 DEF CreateExternal, Construct, Uses, Holds
    <2>3. \A y \in Externals \cup Proxies : raw[y] # "none" => raw'[y] # "none"
        BY Forward, Pools
    <2>4. raw'[e] # "none" /\ unassigned' = unassigned \cup {e} /\ unassigned \subseteq Externals
        BY <1>20, Pools DEF CreateExternal, Construct, IInv, ConnIInv, ConnTypeOK, PeerTypeOK
    <2>5. QED BY <2>1, <2>2, <2>3, <2>4 DEF IInv, OneUser
<1>21. ASSUME NEW e \in Externals, ClaimAttached(e) PROVE OneUser'
    <2>1. claim[e] \in Mocks
        BY <1>21 DEF ClaimAttached, IInv, HandlerShape, PeerTypeOK
    <2>2. /\ external' = [external EXCEPT ![claim[e]] = e]
          /\ claim' = [claim EXCEPT ![e] = None]
          /\ mirror' = mirror /\ target' = target /\ unassigned' = unassigned
        BY <1>21 DEF ClaimAttached, AnnounceAttached, connVars
    <2>3. \A n \in Mocks, y \in Externals \cup Proxies : Uses(n, y)' => Uses(n, y)
        BY <2>1, <2>2, Pools DEF Uses, Holds, IInv, PeerTypeOK
    <2>4. QED BY <2>2, <2>3, UsersKept
<1>22. ASSUME NEW c \in Peered, SetDescription(c) PROVE OneUser'
    BY <1>22, UsersKept DEF SetDescription, Uses, Holds, connVars, attachVars, SetRemoteDescription, RefuseDescription,
                          peerVars
<1>23. ASSUME NEW c \in Conns, OnConnected(c) PROVE OneUser'
    BY <1>23, UsersKept DEF OnConnected, Uses, Holds, connVars, attachVars, StateCallback, GoneStates
<1>23b. ASSUME NEW c \in Conns, OnConnectedThrows(c) PROVE OneUser'
    BY <1>23b, UsersKept DEF OnConnectedThrows, Uses, Holds, attachVars, StateCallback, GoneStates
<1>24. ASSUME NEW c \in Conns, OnFailed(c) PROVE OneUser'
    <2>1. mirror' = mirror
        BY <1>24 DEF OnFailed, StateCallback, GoneStates
    <2>2. \A e \in Externals : claim'[e] = claim[e] \/ claim'[e] = None
        BY <1>24 DEF OnFailed, IInv, PeerTypeOK
    <2>3. QED BY <1>24, <2>1, <2>2, UsersKept, Pools DEF OnFailed, Uses, Holds
<1>25. ASSUME NEW c \in Conns, OnGone(c) PROVE OneUser'
    BY <1>25, UsersKept DEF OnGone, Uses, Holds, connVars, attachVars, StateCallback, Drop
<1>26. ASSUME NEW c \in Conns, OnIgnored(c) PROVE OneUser'
    BY <1>26, UsersKept DEF OnIgnored, Uses, Holds, connVars, attachVars, StateCallback, peerVars
<1>27. ASSUME NEW c \in Conns, NativeMove(c) PROVE OneUser'
    BY <1>27, UsersKept DEF NativeMove, Uses, Holds, connVars, attachVars, NativeChange, peerVars
<1>28. CASE PeerClose
    BY <1>28, UsersKept DEF PeerClose, Uses, Holds, connVars, attachVars, CloseConns, Close, Drop
<1>29. CASE UNCHANGED vars
    BY <1>29, UsersKept DEF vars, peerVars, Uses, Holds, connVars, attachVars
<1>30. QED
    BY <1>1, <1>2, <1>3, <1>4, <1>5, <1>6, <1>7, <1>8, <1>9, <1>10, <1>11, <1>12, <1>13, <1>14, <1>15, <1>16, <1>17, <1>18, <1>19, <1>20, <1>21, <1>22, <1>23, <1>23b, <1>24, <1>25, <1>26, <1>27, <1>28, <1>29
    DEF Next, Continue, Callback, StepOutcome, ControlEvent

-----------------------------------------------------------------------------
(* The theorems.                                                           *)

LEMMA IInvStep == IInv /\ [Next]_vars => IInv'
<1> SUFFICES ASSUME IInv, [Next]_vars PROVE IInv'
    OBVIOUS
<1>1. ConnIInv'
    BY ConnectionStep, ConnIInvStep DEF IInv
<1>2. QED
    BY <1>1, PeerTypeStep, HandlerShapeStep, HandlerEndsClosedStep, OneUserStep, EarlyQuietStep,
       ListenersFitStep, LossIsRealStep, LiveAreTrackedStep, DisconnectIsRealStep DEF IInv

\* The inductive invariant holds of every run, for any sessions, external connections and steps.
THEOREM IInvHolds == Spec => []IInv
BY InitIInv, IInvStep, PTL DEF Spec

\* The variables of the peer and of its connections keep their types.
THEOREM TypeCorrect == Spec => []TypeOK
<1>1. IInv => TypeOK
    BY DEF IInv, ConnIInv, TypeOK
<1>2. QED BY <1>1, IInvHolds, PTL

\* Every step of the peer is a step of RTCConnection, or none of its business: all that is
\* proved of ConnSpec holds of the connections of a peer.
THEOREM PeerUsesConnections == Spec => UsesConnections
<1>1. Init => NoConns
    BY DEF Init
<1>2. QED BY <1>1, IInvHolds, ConnectionStep, PTL DEF Spec, UsesConnections, ConnSpec

\* A handler that is over has closed its connection.
THEOREM HandlersEndClosed == Spec => []HandlerEndsClosed
<1>1. IInv => HandlerEndsClosed
    BY DEF IInv
<1>2. QED BY <1>1, IInvHolds, PTL

\* An external connection is unassigned, or held by one mock.
THEOREM ExternalsHaveOneHolder == Spec => []OneHolder
<1>1. IInv => OneHolder
    BY DEF IInv, OneUser, OneHolder, Uses
<1>2. QED BY <1>1, IInvHolds, PTL

\* The events of a session are one of the six histories.
THEOREM SessionHistories == Spec => []SessionHistory
<1>1. IInv => SessionHistory
    BY DEF IInv, ListenersFit, SessionHistory, Histories
<1>2. QED BY <1>1, IInvHolds, PTL

\* Connections that are still live are tracked.
THEOREM LiveOnesAreTracked == Spec => []LiveAreTracked
<1>1. IInv => LiveAreTracked
    BY DEF IInv
<1>2. QED BY <1>1, IInvHolds, PTL

\* Announced disconnections are real.
THEOREM DisconnectsAreReal == Spec => []DisconnectIsReal
<1>1. IInv => DisconnectIsReal
    BY DEF IInv
<1>2. QED BY <1>1, IInvHolds, PTL
=============================================================================
