------------------------- MODULE MockRTCServerPeer -------------------------
(***************************************************************************)
(* A MockRTCServerPeer (src/server/mockrtc-server-peer.ts) and what runs   *)
(* on top of its connections: the handler of every mock connection         *)
(* (handleConnection, the steps of src/handling/handler-step-impls.ts and  *)
(* the rule matching of src/server/mockrtc-server.ts), the control channel *)
(* that attaches external connections (src/webrtc/mockrtc-connection.ts)   *)
(* and the public events about sessions.                                   *)
(*                                                                         *)
(* One action is one run of JavaScript between two points where it gives   *)
(* up control.  Continuations of resolved promises (the states in          *)
(* Continuations, and `ready') run before the next callback or client      *)
(* call, which is what the guard Quiescent says.                           *)
(***************************************************************************)
EXTENDS RTCConnection

CONSTANTS
    Externals,     \* connections made by createExternalOffer / answerExternalOffer
    Proxies,       \* connections that peer-proxy steps construct
    HandlerSteps,  \* the step lists that getHandlerSteps may return
    IsMatching,    \* TRUE for the matching peer of a MockRTCServer, FALSE for a built peer
    None

StepTypes == {"wait", "create", "send", "close", "echo", "peer-proxy", "dynamic-proxy"}

ASSUME PeerAssumption ==
    /\ Mocks \cup Externals \cup Proxies = Conns
    /\ Mocks \cap Externals = {} /\ Mocks \cap Proxies = {} /\ Externals \cap Proxies = {}
    /\ HandlerSteps \subseteq Seq(StepTypes)
    /\ IsMatching \in BOOLEAN
    /\ None \notin Conns

VARIABLES
    tracked,     \* this.connections
    unassigned,  \* this.unassignedExternalConnections
    control,     \* control[m]: does mock m have an open control channel
    external,    \* external[m]: externalConnection of mock m
    claim,       \* claim[e]: the mock whose attach message waits for external e to connect
    ready,       \* externals whose wait is over, with the attachment about to run
    pc,          \* pc[m]: where the handler of mock m is
    todo,        \* todo[m]: the steps of mock m from the current one on
    target,      \* target[m]: the connection that the peer-proxy step of m made
    listen,      \* listen[m]: the once() listeners of trackConnection still registered on m
    events       \* events[m]: the session events announced for m

peerVars == <<tracked, unassigned, control, external, claim, ready, pc, todo, target, listen, events>>
vars == <<connVars, peerVars>>

Peered == Mocks \cup Externals   \* the connections the peer itself makes and tracks

Continuations == {"get-steps", "run", "attach-proxy", "mirror", "throw"}

HandlerStates == Continuations \cup
    {"none",                                           \* not created yet
     "wait-connected", "wait-match",                   \* in waitUntilConnected()
     "in-step",                                        \* a step waits for its own business
     "wait-answer", "wait-external", "wait-attached",  \* inside the proxy steps
     "until-closed",                                   \* a step waits for 'connection-closed'
     "done", "failed"}

Quiescent == ready = {} /\ \A m \in Mocks : pc[m] \notin Continuations

Init ==
    /\ NoConns
    /\ tracked = {} /\ unassigned = {} /\ ready = {}
    /\ control = [m \in Mocks |-> FALSE]
    /\ external = [m \in Mocks |-> None]
    /\ claim = [e \in Externals |-> None]
    /\ pc = [m \in Mocks |-> "none"]
    /\ todo = [m \in Mocks |-> <<>>]
    /\ target = [m \in Mocks |-> None]
    /\ listen = [m \in Mocks |-> {}]
    /\ events = [m \in Mocks |-> <<>>]

-----------------------------------------------------------------------------
(* What 'connection-closed' does when the members of E emit it.            *)

\* Faulty variant: no step hears of a closure.
ReleasedNone(E) == {}

\* The steps that wait for it are resolved.
Released(E) == {m \in Mocks \cap E : pc[m] = "until-closed"}

\* Faulty variant: the disconnection is announced whenever 'connection-closed' is emitted.
AnnounceEveryTime(E, m, next) ==
    /\ tracked' = tracked \ E
    /\ events' = [n \in Mocks |-> IF n \in E /\ events[n] # <<>>
                                  THEN Append(events[n], "peer-disconnected") ELSE events[n]]
    /\ pc' = [n \in Mocks |-> IF n = m THEN next ELSE IF n \in Released(E) THEN "run" ELSE pc[n]]
    /\ todo' = [n \in Mocks |-> IF n \in Released(E) \/ (n = m /\ next = "run")
                                THEN Tail(todo[n]) ELSE todo[n]]
    /\ UNCHANGED listen

\* Untrack, announce, release; the handler of mock m, if there is such a mock, goes to `next'.
Announce(E, m, next) ==
    /\ tracked' = tracked \ E
    /\ events' = [n \in Mocks |-> IF n \in E /\ "closed" \in listen[n]
                                  THEN Append(events[n], "peer-disconnected") ELSE events[n]]
    /\ listen' = [n \in Mocks |-> IF n \in E THEN listen[n] \ {"closed"} ELSE listen[n]]
    /\ pc' = [n \in Mocks |-> IF n = m THEN next ELSE IF n \in Released(E) THEN "run" ELSE pc[n]]
    /\ todo' = [n \in Mocks |-> IF n \in Released(E) \/ (n = m /\ next = "run")
                                THEN Tail(todo[n]) ELSE todo[n]]

\* close() on every member of S, with all that listens to it.
CloseConns(S, m, next) ==
    LET E == Emitters(CloseCalls(S)) IN
    /\ Close(S)
    /\ Announce(E, m, next)

\* The part of the state that no closure, and no step of a handler, touches.
attachVars == <<unassigned, control, external, claim, ready>>

-----------------------------------------------------------------------------
(* Client calls.                                                           *)

\* Faulty variant: the connection is not tracked until it is connected.
CreateConnectionUntracked(m) ==
    /\ Quiescent
    /\ Construct(m)
    /\ listen' = [listen EXCEPT ![m] = {"connected"}]
    /\ pc' = [pc EXCEPT ![m] = "wait-connected"]
    /\ UNCHANGED <<attachVars, tracked, todo, target, events>>

\* createOffer() and answerOffer() on the peer: a mock connection, tracked, whose handler
\* starts by waiting until it is connected.
CreateConnection(m) ==
    /\ Quiescent
    /\ Construct(m)
    /\ tracked' = tracked \cup {m}
    /\ listen' = [listen EXCEPT ![m] = {"connected"}]
    /\ pc' = [pc EXCEPT ![m] = "wait-connected"]
    /\ UNCHANGED <<attachVars, todo, target, events>>

\* createExternalOffer() and answerExternalOffer().
CreateExternal(e) ==
    /\ Quiescent
    /\ Construct(e)
    /\ unassigned' = unassigned \cup {e}
    /\ tracked' = tracked \cup {e}
    /\ UNCHANGED <<control, external, claim, ready, pc, todo, target, listen, events>>

\* The client completes an offer, or offers again, through the session of c; the description
\* may be one that c refuses.
SetDescription(c) ==
    /\ Quiescent
    /\ SetRemoteDescription(c) \/ RefuseDescription(c)
    /\ UNCHANGED peerVars

\* Faulty variant: close() skips the sessions that were not announced yet.
PeerCloseAnnounced ==
    /\ Quiescent
    /\ tracked # {}
    /\ CloseConns({c \in tracked : c \in Externals \/ events[c] # <<>>}, None, "run")
    /\ UNCHANGED <<attachVars, target>>

\* MockRTCServerPeer.close().
PeerClose ==
    /\ Quiescent
    /\ tracked # {}
    /\ CloseConns(tracked, None, "run")
    /\ UNCHANGED <<attachVars, target>>

-----------------------------------------------------------------------------
(* The control channel of a mock connection.                               *)

\* A remote control channel arrives while there is none.  It is a data channel, so the native
\* connection was connected, though the callback that says so may still be queued.  One that
\* arrives while there is one is answered with an error and closed, and changes nothing here.
ControlOpened(m) ==
    /\ Quiescent
    /\ raw[m] = "open" /\ native[m] = "connected" /\ ~control[m]
    /\ control' = [control EXCEPT ![m] = TRUE]
    /\ UNCHANGED <<connVars, tracked, unassigned, external, claim, ready, pc, todo, target, listen, events>>

ControlClosed(m) ==
    /\ Quiescent
    /\ control[m]
    /\ control' = [control EXCEPT ![m] = FALSE]
    /\ UNCHANGED <<connVars, tracked, unassigned, external, claim, ready, pc, todo, target, listen, events>>

\* Faulty variant: getExternalConnection() leaves e unassigned.
AttachExternalAgain(m, e) ==
    /\ Quiescent
    /\ control[m] /\ external[m] = None
    /\ e \in unassigned
    /\ IF raw[e] = "open" /\ native[e] # "failed"
       THEN /\ claim' = [claim EXCEPT ![e] = m]
            /\ ready' = IF native[e] = "connected" THEN ready \cup {e} ELSE ready
       ELSE UNCHANGED <<claim, ready>>
    /\ UNCHANGED <<connVars, tracked, unassigned, control, external, pc, todo, target, listen, events>>

\* An attach-external message naming e.  It is refused when m has an external connection;
\* otherwise it takes e off the unassigned ones and waits until e is connected.  When e is
\* closed or failed that wait is rejected at once, and nothing handles the rejection.
AttachExternal(m, e) ==
    /\ Quiescent
    /\ control[m] /\ external[m] = None
    /\ e \in unassigned
    /\ unassigned' = unassigned \ {e}
    /\ IF raw[e] = "open" /\ native[e] # "failed"
       THEN /\ claim' = [claim EXCEPT ![e] = m]
            /\ ready' = IF native[e] = "connected" THEN ready \cup {e} ELSE ready
       ELSE UNCHANGED <<claim, ready>>
    /\ UNCHANGED <<connVars, tracked, control, external, pc, todo, target, listen, events>>

-----------------------------------------------------------------------------
(* 'external-connection-attached', emitted by m for connection x.          *)

\* May the announcement throw?  Its listener reads the selected candidates of x: it throws when
\* x is closed, and the native library may have none to give once x is not connected any more.
AttachThrows(m, x) ==
    {t \in BOOLEAN :
        /\ t => "attached" \in listen[m] /\ native[x] # "connected"
        /\ "attached" \in listen[m] /\ raw[x] = "null" => t}

\* Faulty variant: the listener of the attachment is not removed by its first event.
AnnounceEveryAttachment(m, x, throws) ==
    /\ external' = [external EXCEPT ![m] = x]
    /\ events' = [events EXCEPT ![m] =
            IF "attached" \in listen[m] /\ ~throws
            THEN Append(@, "external-peer-attached") ELSE @]
    /\ UNCHANGED listen

AnnounceAttached(m, x, throws) ==
    /\ external' = [external EXCEPT ![m] = x]
    /\ events' = [events EXCEPT ![m] =
            IF "attached" \in listen[m] /\ ~throws
            THEN Append(@, "external-peer-attached") ELSE @]
    /\ listen' = [listen EXCEPT ![m] = @ \ {"attached"}]

\* The wait of an attach message is over: assign and emit.  A dynamic proxy step that waits
\* for the attachment goes on, unless the announcement threw before its listener.
ClaimAttached(e) ==
    LET m == claim[e] IN
    /\ e \in ready
    /\ ready' = ready \ {e}
    /\ claim' = [claim EXCEPT ![e] = None]
    /\ \E throws \in AttachThrows(m, e) :
          /\ AnnounceAttached(m, e, throws)
          /\ pc' = [pc EXCEPT ![m] = IF @ = "wait-attached" /\ ~throws THEN "mirror" ELSE @]
    /\ UNCHANGED <<connVars, tracked, unassigned, control, todo, target>>

-----------------------------------------------------------------------------
(* The handler of mock m: handleConnection, matchConnection and the steps. *)

\* getHandlerSteps(): a built peer has its steps at hand; the matching peer waits once more
\* until m is connected, and returns the steps of a rule, or a dynamic proxy.
GetHandlerSteps(m) ==
    /\ pc[m] = "get-steps"
    /\ IF IsMatching /\ (raw[m] = "null" \/ native[m] # "connected")
       THEN /\ pc' = [pc EXCEPT ![m] =
                  IF raw[m] = "null" \/ native[m] = "failed" THEN "throw" ELSE "wait-match"]
            /\ UNCHANGED todo
       ELSE /\ pc' = [pc EXCEPT ![m] = "run"]
            /\ \E s \in HandlerSteps \cup (IF IsMatching THEN {<<"dynamic-proxy">>} ELSE {}) :
                  todo' = [todo EXCEPT ![m] = s]
    /\ UNCHANGED <<connVars, attachVars, tracked, target, listen, events>>

AtStep(m, type) == pc[m] = "run" /\ todo[m] # <<>> /\ Head(todo[m]) = type

HandlerGoes(m, next) ==
    /\ pc' = [pc EXCEPT ![m] = next]
    /\ UNCHANGED <<attachVars, tracked, todo, target, listen, events>>

\* A step that waits for a duration, a channel, a message, a track or media; a send.
StartStep(m) ==
    /\ AtStep(m, "wait") \/ AtStep(m, "send")
    /\ HandlerGoes(m, "in-step")
    /\ UNCHANGED connVars

\* createDataChannel throws on a closed connection; the step ends when the channel opens.
StartCreate(m) ==
    /\ AtStep(m, "create")
    /\ HandlerGoes(m, IF raw[m] = "open" THEN "in-step" ELSE "throw")
    /\ UNCHANGED connVars

StartEcho(m) ==
    /\ AtStep(m, "echo")
    /\ HandlerGoes(m, "until-closed")
    /\ UNCHANGED connVars

StepCompletes(m) ==
    /\ Quiescent
    /\ pc[m] = "in-step"
    /\ pc' = [pc EXCEPT ![m] = "run"]
    /\ todo' = [todo EXCEPT ![m] = Tail(@)]
    /\ UNCHANGED <<connVars, attachVars, tracked, target, listen, events>>

\* A write to a data channel fails.
SendFails(m) ==
    /\ Quiescent
    /\ pc[m] = "in-step" /\ Head(todo[m]) = "send"
    /\ HandlerGoes(m, "throw")
    /\ UNCHANGED connVars

CloseStep(m) ==
    /\ AtStep(m, "close")
    /\ CloseConns({m}, m, "run")
    /\ UNCHANGED <<attachVars, target>>

\* After the last step the handler closes the connection.
HandlerEnds(m) ==
    /\ pc[m] = "run" /\ todo[m] = <<>>
    /\ CloseConns({m}, m, "done")
    /\ UNCHANGED <<attachVars, target>>

\* Faulty variants: the closure is announced but nothing is closed, and the reference is
\* dropped without a close.
HandlerFailsOpen(m) ==
    /\ pc[m] = "throw"
    /\ Announce({m}, m, "failed")
    /\ UNCHANGED <<connVars, attachVars, target>>

HandlerFailsUnclosed(m) ==
    /\ pc[m] = "throw"
    /\ raw' = [raw EXCEPT ![m] = "null"]
    /\ HandlerGoes(m, "failed")
    /\ UNCHANGED <<native, pend, desc, mirror>>

\* An error anywhere in the handler closes the connection too.
HandlerFails(m) ==
    /\ pc[m] = "throw"
    /\ CloseConns({m}, m, "failed")
    /\ UNCHANGED <<attachVars, target>>

\* The rest of proxyTrafficTo(x) on m: mirror the closures, then the channels and the media,
\* which throws when their tracks do not match or a channel is needed on a closed connection.
MirrorTraffic(m, x) ==
    /\ MirrorClosure(m, x)
    /\ pc' \in {[pc EXCEPT ![m] = "until-closed"], [pc EXCEPT ![m] = "throw"]}

\* A dynamic proxy waits for an external connection when there is none, or proxies at once.
StartDynamicProxy(m) ==
    /\ AtStep(m, "dynamic-proxy")
    /\ IF external[m] = None
       THEN pc' = [pc EXCEPT ![m] = "wait-attached"] /\ UNCHANGED connVars
       ELSE MirrorTraffic(m, external[m])
    /\ UNCHANGED <<attachVars, tracked, todo, target, listen, events>>

ProxyToAttached(m) ==
    /\ pc[m] = "mirror"
    /\ MirrorTraffic(m, external[m])
    /\ UNCHANGED <<attachVars, tracked, todo, target, listen, events>>

\* Faulty variant: the peer tracks the connection of the step.
StartPeerProxyTracked(m, x) ==
    /\ AtStep(m, "peer-proxy")
    /\ Construct(x)
    /\ tracked' = tracked \cup {x}
    /\ target' = [target EXCEPT ![m] = x]
    /\ pc' = [pc EXCEPT ![m] = IF raw[m] = "open" /\ desc[m] THEN "wait-answer" ELSE "throw"]
    /\ UNCHANGED <<attachVars, todo, listen, events>>

\* A peer proxy constructs its own external connection, untracked, and mirrors the remote
\* description of m in an offer: it throws when m is closed or its description is forgotten.
StartPeerProxy(m, x) ==
    /\ AtStep(m, "peer-proxy")
    /\ Construct(x)
    /\ target' = [target EXCEPT ![m] = x]
    /\ pc' = [pc EXCEPT ![m] = IF raw[m] = "open" /\ desc[m] THEN "wait-answer" ELSE "throw"]
    /\ UNCHANGED <<attachVars, tracked, todo, listen, events>>

\* The answer arrives and proxyTrafficTo starts: by now m may have another external connection.
ProxyAnswered(m) ==
    /\ Quiescent
    /\ pc[m] = "wait-answer"
    /\ SetRemoteDescription(target[m])
    /\ HandlerGoes(m, IF external[m] = None THEN "wait-external" ELSE "throw")

\* Building the offer or getting the answer fails, or the answer is refused.
ProxyRefused(m) ==
    /\ Quiescent
    /\ pc[m] = "wait-answer"
    /\ HandlerGoes(m, "throw")
    /\ UNCHANGED connVars \/ RefuseDescription(target[m])

\* The peer proxy's connection has connected: assign, emit, and mirror.
ProxyAttached(m) ==
    LET x == target[m] IN
    /\ pc[m] = "attach-proxy"
    /\ \E throws \in AttachThrows(m, x) :
          /\ AnnounceAttached(m, x, throws)
          /\ IF throws
             THEN pc' = [pc EXCEPT ![m] = "throw"] /\ UNCHANGED connVars
             ELSE MirrorTraffic(m, x)
    /\ UNCHANGED <<tracked, unassigned, control, claim, ready, todo, target>>

-----------------------------------------------------------------------------
(* Callbacks of the native connections.                                    *)

\* Faulty variant: a claim is not told that its connection is connected.
OnConnectedUnclaimed(c) ==
    /\ Quiescent
    /\ raw[c] = "open" /\ pend[c] # <<>> /\ Head(pend[c]) = "connected"
    /\ StateCallback(c)
    /\ IF c \in Mocks /\ "connected" \in listen[c]
       THEN /\ events' = [events EXCEPT ![c] = Append(@, "peer-connected")]
            /\ listen' = [listen EXCEPT ![c] = {"attached", "closed"}]
       ELSE UNCHANGED <<events, listen>>
    /\ pc' = [m \in Mocks |->
                  IF m = c /\ pc[m] = "wait-connected" THEN "get-steps"
                  ELSE IF target[m] = c /\ pc[m] = "wait-external" THEN "attach-proxy" ELSE pc[m]]
    /\ UNCHANGED <<attachVars, tracked, todo, target>>

\* c is connected: announce a session, and resolve the waits for c.  A handler in "wait-match"
\* has had this callback already, and a native connection never sends a second one.
OnConnected(c) ==
    /\ Quiescent
    /\ raw[c] = "open" /\ pend[c] # <<>> /\ Head(pend[c]) = "connected"
    /\ StateCallback(c)
    /\ IF c \in Mocks /\ "connected" \in listen[c]
       THEN /\ events' = [events EXCEPT ![c] = Append(@, "peer-connected")]
            /\ listen' = [listen EXCEPT ![c] = {"attached", "closed"}]
       ELSE UNCHANGED <<events, listen>>
    /\ pc' = [m \in Mocks |->
                  IF m = c /\ pc[m] = "wait-connected" THEN "get-steps"
                  ELSE IF target[m] = c /\ pc[m] = "wait-external" THEN "attach-proxy" ELSE pc[m]]
    /\ ready' = IF c \in Externals /\ claim[c] # None THEN ready \cup {c} ELSE ready
    /\ UNCHANGED <<tracked, unassigned, control, external, claim, todo, target>>

\* c has moved on natively by the time its callback comes, and has no selected candidates any
\* more: the listener that would announce the session throws.  It is not registered again, and
\* the wait of the handler, whose listener comes later, never hears that c was connected.
OnConnectedThrows(c) ==
    /\ Quiescent
    /\ raw[c] = "open" /\ pend[c] # <<>> /\ Head(pend[c]) = "connected"
    /\ c \in Mocks /\ "connected" \in listen[c] /\ native[c] # "connected"
    /\ StateCallback(c)
    /\ listen' = [listen EXCEPT ![c] = {}]
    /\ UNCHANGED <<attachVars, tracked, pc, todo, target, events>>

\* The waits for c are rejected; that of an attach message has no handler.
OnFailed(c) ==
    /\ Quiescent
    /\ raw[c] = "open" /\ pend[c] # <<>> /\ Head(pend[c]) = "failed"
    /\ StateCallback(c)
    /\ pc' = [m \in Mocks |->
                  IF \/ m = c /\ pc[m] \in {"wait-connected", "wait-match"}
                     \/ target[m] = c /\ pc[m] = "wait-external"
                  THEN "throw" ELSE pc[m]]
    /\ claim' = IF c \in Externals THEN [claim EXCEPT ![c] = None] ELSE claim
    /\ UNCHANGED <<tracked, unassigned, control, external, ready, todo, target, listen, events>>

\* c announces that it is closed, and closes what is mirrored to it.
OnGone(c) ==
    LET E == {c} \cup Emitters(GoneCalls(c)) IN
    /\ Quiescent
    /\ raw[c] = "open" /\ pend[c] # <<>> /\ Head(pend[c]) \in GoneStates
    /\ StateCallback(c)
    /\ Announce(E, None, "run")
    /\ UNCHANGED <<attachVars, target>>

\* A callback that arrives after close() is ignored.
OnIgnored(c) ==
    /\ Quiescent
    /\ raw[c] = "null"
    /\ StateCallback(c)
    /\ UNCHANGED peerVars

NativeMove(c) ==
    /\ \E s \in NativeStates : NativeChange(c, s)
    /\ UNCHANGED peerVars

-----------------------------------------------------------------------------
Continue(m) ==
    \/ GetHandlerSteps(m)
    \/ StartStep(m) \/ StartCreate(m) \/ StartEcho(m) \/ CloseStep(m)
    \/ StartDynamicProxy(m) \/ ProxyToAttached(m)
    \/ \E x \in Proxies : StartPeerProxy(m, x)
    \/ ProxyAttached(m)
    \/ HandlerEnds(m) \/ HandlerFails(m)

Callback(c) == OnConnected(c) \/ OnConnectedThrows(c) \/ OnFailed(c) \/ OnGone(c) \/ OnIgnored(c)

StepOutcome(m) == StepCompletes(m) \/ SendFails(m) \/ ProxyAnswered(m) \/ ProxyRefused(m)

ControlEvent(m) ==
    \/ ControlOpened(m) \/ ControlClosed(m)
    \/ \E e \in Externals : AttachExternal(m, e)

Next ==
    \/ \E m \in Mocks : CreateConnection(m) \/ ControlEvent(m) \/ StepOutcome(m) \/ Continue(m)
    \/ \E e \in Externals : CreateExternal(e) \/ ClaimAttached(e)
    \/ \E c \in Peered : SetDescription(c)
    \/ \E c \in Conns : Callback(c) \/ NativeMove(c)
    \/ PeerClose

\* Node.js runs every continuation and delivers every queued callback in the end.  Nothing
\* is assumed of clients, of the network, or of steps that wait for either.
Fairness ==
    /\ \A m \in Mocks : WF_vars(Continue(m))
    /\ \A e \in Externals : WF_vars(ClaimAttached(e))
    /\ \A c \in Conns : WF_vars(Callback(c))

Spec == Init /\ [][Next]_vars

FairSpec == Spec /\ Fairness

-----------------------------------------------------------------------------
(* Properties.                                                             *)

SessionEvents == {"peer-connected", "external-peer-attached", "peer-disconnected"}

PeerTypeOK ==
    /\ tracked \subseteq Peered
    /\ unassigned \subseteq Externals
    /\ control \in [Mocks -> BOOLEAN]
    /\ external \in [Mocks -> Externals \cup Proxies \cup {None}]
    /\ claim \in [Externals -> Mocks \cup {None}]
    /\ ready \subseteq Externals
    /\ pc \in [Mocks -> HandlerStates]
    /\ todo \in [Mocks -> Seq(StepTypes)]
    /\ target \in [Mocks -> Proxies \cup {None}]
    /\ listen \in [Mocks -> SUBSET {"connected", "attached", "closed"}]
    /\ events \in [Mocks -> Seq(SessionEvents)]

TypeOK == ConnTypeOK /\ PeerTypeOK

\* A handler that is over, by its last step or by an error in any of them, leaves its
\* connection closed (handleConnection, and the catch in createConnection).
HandlerEndsClosed == \A m \in Mocks : pc[m] \in {"done", "failed"} => raw[m] = "null"

\* An external connection is held in one place at most: waiting to be assigned, claimed by
\* the attach message of one mock, or attached to one mock.  Two sessions never share one.
Holds(m, x) ==
    \/ x \in Externals /\ claim[x] = m
    \/ external[m] = x
    \/ <<m, x>> \in mirror

OneHolder ==
    /\ \A x \in Externals \cup Proxies, m, n \in Mocks : Holds(m, x) /\ Holds(n, x) => m = n
    /\ \A e \in unassigned, m \in Mocks : ~Holds(m, e)

\* What subscribers see of a session: connected once and first, at most one attachment and at
\* most one disconnection, in either order, and nothing without the connection.
Histories ==
    LET c == "peer-connected" a == "external-peer-attached" d == "peer-disconnected"
    IN {<<>>, <<c>>, <<c, a>>, <<c, d>>, <<c, a, d>>, <<c, d, a>>}

SessionHistory == \A m \in Mocks : events[m] \in Histories

\* No connection that is still live is lost from the list that close() goes through: only
\* one that went away natively may be missing from it.
LiveAreTracked == \A c \in Peered : raw[c] = "open" /\ native[c] \in LiveStates => c \in tracked

\* An announced disconnection is never premature: the native connection is gone or failed.
DisconnectIsReal ==
    \A m \in Mocks : (\E i \in 1 .. Len(events[m]) : events[m][i] = "peer-disconnected")
                        => native[m] \notin LiveStates

\* The peer drives its connections only through the operations of RTCConnection.
UsesConnections == ConnSpec

\* close() of the peer reaches every session that has not gone by itself, and with it the
\* external connection it is proxied to, tracked or not, unless that one is gone natively.
CloseReachesAll ==
    [][PeerClose => \A m \in Mocks : native[m] \in LiveStates /\ raw[m] = "open"
          => /\ raw'[m] = "null"
             /\ \A x \in Conns : <<m, x>> \in mirror => raw'[x] = "null"]_vars

\* The public side of the peer, as SessionProtocol describes it.
Holder(e) ==
    IF raw[e] = "none" THEN "absent"
    ELSE IF e \in unassigned THEN "free"
    ELSE IF claim[e] # None THEN claim[e]
    ELSE IF \E m \in Mocks : external[m] = e THEN CHOOSE m \in Mocks : external[m] = e
    ELSE "lost"

Protocol == INSTANCE SessionProtocol WITH
    Sessions <- Mocks, Offers <- Externals,
    log <- events, holder <- [e \in Externals |-> Holder(e)]

\* The peer keeps what it promises: it implements SessionProtocol.
KeepsProtocol == Protocol!Spec

\* A claimed external connection that connects is attached in the end, or fails to connect,
\* or is closed before the callback comes.
ClaimsSettle ==
    \A e \in Externals :
        (claim[e] # None /\ raw[e] = "open" /\ pend[e] # <<>> /\ Head(pend[e]) = "connected")
          ~> (claim[e] = None \/ raw[e] = "null")

\* A session whose handler is in its last step, waiting for the closure, and whose native
\* connection went away is closed in the end.
GoneSessionsEnd ==
    \A m \in Mocks :
        (/\ pc[m] = "until-closed" /\ Len(todo[m]) = 1
         /\ raw[m] = "open" /\ native[m] \in GoneStates /\ pend[m] # <<>>)
          ~> raw[m] = "null"

-----------------------------------------------------------------------------
(* The inductive invariant behind the safety properties.                   *)

\* What the place of a handler says about the rest of its state.
HandlerShape ==
    /\ \A m \in Mocks :
          /\ raw[m] = "none" => pc[m] = "none"
          /\ pc[m] \in {"in-step", "until-closed", "wait-answer", "wait-external",
                         "wait-attached", "attach-proxy", "mirror"} => todo[m] # <<>>
          /\ pc[m] \in {"wait-answer", "wait-external", "attach-proxy"} => target[m] # None
          /\ pc[m] = "mirror" => external[m] # None
    /\ \A e \in ready : claim[e] # None

\* A mock that holds a connection, or has made it in a peer proxy step.
Uses(m, x) == Holds(m, x) \/ target[m] = x

OneUser ==
    /\ \A x \in Externals \cup Proxies, m \in Mocks :
          Uses(m, x) => raw[x] # "none" /\ \A n \in Mocks : Uses(n, x) => m = n
    /\ \A e \in unassigned : raw[e] # "none" /\ \A m \in Mocks : ~Uses(m, e)

\* The listeners still registered are those whose event was not announced yet.
ListenersFit ==
    LET c == "peer-connected" a == "external-peer-attached" d == "peer-disconnected"
    IN \A m \in Mocks :
          \/ events[m] = <<>> /\ listen[m] \subseteq {"connected"}
          \/ events[m] = <<c>> /\ listen[m] \subseteq {"attached", "closed"}
          \/ events[m] = <<c, a>> /\ listen[m] \subseteq {"closed"}
          \/ events[m] = <<c, d>> /\ listen[m] \subseteq {"attached"}
          \/ events[m] \in {<<c, a, d>>, <<c, d, a>>} /\ listen[m] = {}

\* Nothing is announced about a session that was not created.
EarlyQuiet == \A m \in Mocks : raw[m] = "none" => events[m] = <<>>

\* A queued callback that tells of a loss tells of one that happened.
LossIsReal ==
    \A c \in Conns : \A i \in 1 .. Len(pend[c]) :
        pend[c][i] \in GoneStates \cup {"failed"} => native[c] \notin LiveStates

IInv ==
    /\ PeerTypeOK
    /\ ConnIInv
    /\ HandlerShape
    /\ HandlerEndsClosed
    /\ OneUser
    /\ EarlyQuiet
    /\ ListenersFit
    /\ LossIsReal
    /\ LiveAreTracked
    /\ DisconnectIsReal

-----------------------------------------------------------------------------
(* What the source says and the code does not do.                          *)

\* "Connection closed while/before waiting until connected": the wait ends when the
\* connection is closed.
WaitSettles == \A m \in Mocks : (pc[m] = "wait-connected" /\ raw[m] = "null") ~> pc[m] # "wait-connected"

\* "Cannot attach mock connection to multiple external connections".
ExternalNeverReplaced ==
    [][\A m \in Mocks : external[m] # None => external'[m] = external[m]]_vars
=============================================================================
