--------------------------- MODULE RTCConnection ---------------------------
(***************************************************************************)
(* The life of the RTCConnection objects of src/webrtc/rtc-connection.ts,  *)
(* and the closure mirroring that MockRTCConnection.proxyTrafficTo sets up *)
(* between two of them.                                                    *)
(*                                                                         *)
(* Two threads touch a connection.  The native WebRTC library moves its    *)
(* state on its own thread (NativeChange) and queues a callback for the    *)
(* JavaScript thread; the JavaScript thread handles the queued callbacks   *)
(* one at a time (StateCallback), and may close the connection (Close) in  *)
(* between, reading the native state synchronously as it does so.          *)
(* Session descriptions are reduced to "there is one".                     *)
(***************************************************************************)
EXTENDS Naturals, Sequences

CONSTANTS
    Conns,    \* the RTCConnection objects that may be constructed
    Mocks     \* those that are MockRTCConnections, the only ones with proxyTrafficTo()

ASSUME ConnsAssumption == Mocks \subseteq Conns

VARIABLES
    raw,      \* raw[c]: "none" before construction, then "open"; "null" once close() ran
    native,   \* native[c]: the state of the native peer connection
    pend,     \* pend[c]: state changes whose onStateChange callback is still queued
    desc,     \* desc[c]: is remoteDescription set
    mirror    \* pairs <<m, x>>: proxyTrafficTo(x) on m has mirrored their closures

connVars == <<raw, native, pend, desc, mirror>>

NativeStates == {"new", "connecting", "connected", "disconnected", "failed", "closed"}

\* The states on which the code announces 'connection-closed'; "failed" is not one.
GoneStates == {"disconnected", "closed"}

\* The states of a connection that works, or may come to work.
LiveStates == {"new", "connecting", "connected"}

\* The moves the native library makes by itself.  It never reconnects: after
\* "disconnected" or "failed" only later states follow.
NativeEdges ==
    {<<"connecting", "connected">>, <<"connecting", "failed">>, <<"connecting", "disconnected">>,
     <<"connected", "disconnected">>, <<"connected", "failed">>, <<"connected", "closed">>,
     <<"disconnected", "failed">>, <<"disconnected", "closed">>, <<"failed", "closed">>}

NoConns ==
    /\ raw = [c \in Conns |-> "none"]
    /\ native = [c \in Conns |-> "new"]
    /\ pend = [c \in Conns |-> <<>>]
    /\ desc = [c \in Conns |-> FALSE]
    /\ mirror = {}

-----------------------------------------------------------------------------
(* Closing.  close() is synchronous, and the 'connection-closed' it emits  *)
(* runs the mirroring listeners, which call close() on the partners, which *)
(* emit in turn: one call closes a whole set of connections in one step.   *)

\* The connections whose close() a 'connection-closed' emitted by members of S calls.
Partners(S) == {c \in Conns : \E d \in S : <<c, d>> \in mirror \/ <<d, c>> \in mirror}

\* close() on c announces the closure, unless the native state is "closed" already.
CloseEmits(c) == raw[c] = "open" /\ native[c] # "closed"

Emitters(S) == {c \in S : CloseEmits(c)}

\* Faulty variant: no listener passes a closure on.
CloseCallsAlone(S) == S

\* Every connection on which close() is called when it is called on each member of S:
\* the least set that has S and the partners of its members that announce.
CloseCalls(S) ==
    {c \in Conns : \A T \in SUBSET Conns :
        (S \subseteq T /\ Partners(Emitters(T)) \subseteq T) => c \in T}

\* Faulty variant: close() without rawConn.close().
DropUnclosed(C) ==
    /\ raw' = [c \in Conns |-> IF c \in C /\ raw[c] = "open" THEN "null" ELSE raw[c]]
    /\ UNCHANGED <<native, mirror>>

\* close() runs on every member of C.
Drop(C) ==
    /\ raw' = [c \in Conns |-> IF c \in C /\ raw[c] = "open" THEN "null" ELSE raw[c]]
    /\ native' = [c \in Conns |-> IF c \in C /\ raw[c] = "open" THEN "closed" ELSE native[c]]
    /\ UNCHANGED mirror

-----------------------------------------------------------------------------
(* Operations and callbacks.                                               *)

\* new RTCConnection()
Construct(c) ==
    /\ raw[c] = "none"
    /\ raw' = [raw EXCEPT ![c] = "open"]
    /\ UNCHANGED <<native, pend, desc, mirror>>

\* setRemoteDescription(): the first one starts the native connection.
SetRemoteDescription(c) ==
    /\ raw[c] = "open"
    /\ desc' = [desc EXCEPT ![c] = TRUE]
    /\ native' = [native EXCEPT ![c] = IF @ = "new" THEN "connecting" ELSE @]
    /\ UNCHANGED <<raw, pend, mirror>>

\* setRemoteDescription() throws on a description without SDP, or that the library does not
\* take in its present state, but has remembered it by then.
RefuseDescription(c) ==
    /\ raw[c] = "open"
    /\ desc' = [desc EXCEPT ![c] = TRUE]
    /\ UNCHANGED <<raw, native, pend, mirror>>

\* The native thread moves c to state s and queues the callback.
NativeChange(c, s) ==
    /\ <<native[c], s>> \in NativeEdges
    /\ native' = [native EXCEPT ![c] = s]
    /\ pend' = [pend EXCEPT ![c] = Append(@, s)]
    /\ UNCHANGED <<raw, desc, mirror>>

\* close() called on every member of S.
Close(S) ==
    LET C == CloseCalls(S) IN
    /\ Drop(C)
    /\ desc' = [c \in Conns |-> desc[c] /\ c \notin C]
    /\ UNCHANGED pend

\* Faulty variant: a native loss is not mirrored.
GoneCallsNone(c) == {}

\* The connections whose close() a gone callback of c calls.
GoneCalls(c) == CloseCalls(Partners({c}))

\* The queued callback of c reaches JavaScript.  After close() it is ignored; a gone
\* state emits 'connection-closed' on c, which closes the partners, and forgets the
\* descriptions, but does not close c itself unless a partner's closure comes back.
StateCallback(c) ==
    /\ pend[c] # <<>>
    /\ pend' = [pend EXCEPT ![c] = Tail(@)]
    /\ IF raw[c] = "open" /\ Head(pend[c]) \in GoneStates
       THEN LET C == GoneCalls(c) IN
            /\ Drop(C)
            /\ desc' = [d \in Conns |-> desc[d] /\ d # c /\ d \notin C]
       ELSE UNCHANGED <<raw, native, desc, mirror>>

\* proxyTrafficTo() mirrors the closures of mock m and external connection x, whatever
\* became of either in the meantime.
MirrorClosure(m, x) ==
    /\ raw[m] # "none" /\ raw[x] # "none"
    /\ mirror' = mirror \cup {<<m, x>>}
    /\ UNCHANGED <<raw, native, pend, desc>>

ConnNext ==
    \/ \E c \in Conns : Construct(c) \/ SetRemoteDescription(c) \/ RefuseDescription(c) \/ StateCallback(c)
    \/ \E c \in Conns, s \in NativeStates : NativeChange(c, s)
    \/ \E S \in SUBSET Conns : Close(S)
    \/ \E m \in Mocks, x \in Conns \ Mocks : MirrorClosure(m, x)

ConnSpec == NoConns /\ [][ConnNext]_connVars

-----------------------------------------------------------------------------
(* Properties.                                                             *)

ConnTypeOK ==
    /\ raw \in [Conns -> {"none", "open", "null"}]
    /\ native \in [Conns -> NativeStates]
    /\ pend \in [Conns -> Seq(NativeStates)]
    /\ desc \in [Conns -> BOOLEAN]
    /\ mirror \subseteq Mocks \X (Conns \ Mocks)

\* Once the reference to the native connection is dropped, the native connection is closed,
\* on the silent path of close() and through a cascade of mirrored closures alike: nothing
\* that can no longer be reached stays open.  Its descriptions are forgotten with it.
ReleasedIsClosed ==
    \A c \in Conns : raw[c] = "null" => native[c] = "closed" /\ ~desc[c]

\* What is still queued for an open connection ends with its present native state: the
\* JavaScript side catches up with the native side, and reads it in the order it happened.
QueueCatchesUp ==
    \A c \in Conns : raw[c] = "open" /\ pend[c] # <<>> => pend[c][Len(pend[c])] = native[c]

\* A connection that was not constructed, or not started, has nothing queued.
NothingEarly ==
    /\ \A c \in Conns : raw[c] = "none" => native[c] = "new"
    /\ \A c \in Conns : native[c] = "new" => pend[c] = <<>>

\* The inductive invariant.
ConnIInv == ConnTypeOK /\ ReleasedIsClosed /\ QueueCatchesUp /\ NothingEarly

\* c's closure is announced by this step.
AnnouncesNow(c) ==
    \/ CloseEmits(c) /\ raw'[c] = "null"
    \/ /\ raw[c] = "open"
       /\ pend[c] # <<>> /\ Head(pend[c]) \in GoneStates
       /\ pend'[c] = Tail(pend[c])

\* Mirroring: the step that announces the closure of one of two mirrored connections
\* leaves its partner closed ("Mirror connection closure").
MirroredCloseTogether ==
    [][\A p \in mirror :
         /\ AnnouncesNow(p[1]) => raw'[p[2]] = "null"
         /\ AnnouncesNow(p[2]) => raw'[p[1]] = "null"]_connVars

\* The loss of one side reaches the other: when the callback that tells of the loss of one
\* side of a mirrored pair is queued, and nobody closes that side first, the other is closed.
LossReachesPartner ==
    \A a, b \in Conns :
        /\ <<a, b>> \in mirror \/ <<b, a>> \in mirror
        /\ raw[a] = "open" /\ native[a] \in GoneStates
        /\ pend[a] # <<>>
        ~> (raw[b] = "null" \/ raw[a] = "null")
=============================================================================
