----------------------------- MODULE MediaTracks -----------------------------
(***************************************************************************)
(* The media of a mock connection and of the external connection that it   *)
(* may be proxied to: the streams that wrap tracks                         *)
(* (src/webrtc/mediatrack-stream.ts), their tracking (trackNewMediaTrack), *)
(* the steps that wait for, echo and proxy media, and the totals that are  *)
(* announced of the mock's tracks (trackConnection in                      *)
(* src/server/mockrtc-server-peer.ts).                                     *)
(*                                                                         *)
(* Packets are counted, not named.  A packet fills HighWater only in part, *)
(* on the reading and on the writing side, so that a pipe into a track     *)
(* that is not open yet stops its source, and the source begins to drop.   *)
(* The native library works as in DataChannels.                            *)
(***************************************************************************)
EXTENDS Naturals, Sequences, FiniteSets

LOCAL INSTANCE FiniteSetsExt

CONSTANTS
    Mids,         \* the media that the mock and the external connection negotiated
    HighWater,    \* packets that a stream buffers, on either side
    MaxPackets,   \* bound: packets that the remote sides of live tracks send
    Programs      \* the step lists a handler may run

\* The final steps: the builder of a handler ends the list with one of these.
Pipes == {"echo", "proxy"}

ASSUME TracksAssumption ==
    /\ HighWater \in Nat \ {0} /\ MaxPackets \in Nat
    /\ Programs \subseteq Seq({"wait-track", "wait-media"} \cup Pipes)
    /\ \A p \in Programs : \A n \in 1 .. Len(p) : p[n] \in Pipes => n = Len(p)

\* A track of the mock and one of the external connection have the same mid.
Tracks == Mids \X {"mock", "external"}
Mock == Mids \X {"mock"}
Twin(t) == <<t[1], IF t[2] = "mock" THEN "external" ELSE "mock">>

NoSink == <<>>

VARIABLES
    track,    \* track[t]: the stream of t and what went through it
    raw,      \* raw[t]: the native track
    inbox,    \* inbox[t]: packets whose onMessage callback is queued
    calls,    \* calls[t]: other callbacks queued for t
    watched,  \* tracks whose events are announced
    closed,   \* was the connection closed
    place,    \* where the handler is
    todo      \* its steps, from the current one on

nativeVars == <<inbox, calls>>
vars == <<track, raw, nativeVars, watched, closed, place, todo>>

\* life: "none", "live" once wrapped, "gone" when destroyed.  opening: "corked" until onOpen, or
\* "immediate" until setImmediate, then "open".  isLocal: was it added here.  mode: "idle" until something reads, then
\* "flowing", or "paused".  sink: the track it is piped into.  active: _readActive.  kept and
\* corked: packets in the read buffer, and written before the opening.  received and sent:
\* the totals.  lost, eaten, passed: packets that were dropped, consumed by a step, written to
\* a sink.  told: the totals announced last.
Unwrapped ==
    [life |-> "none", opening |-> "corked", isLocal |-> FALSE, mode |-> "idle", sink |-> NoSink, active |-> TRUE,
     kept |-> 0, corked |-> 0, received |-> 0, sent |-> 0, lost |-> 0, eaten |-> 0, passed |-> 0,
     told |-> <<0, 0>>]

Live == {t \in Tracks : track[t].life = "live"}   \* this.trackedMediaTracks, of both connections
Totals(t) == <<track[t].sent, track[t].received>>

AtStep(type) == place = "run" /\ todo # <<>> /\ Head(todo) = type
StepDone == place' = "run" /\ todo' = Tail(todo)

Init ==
    /\ track = [t \in Tracks |-> Unwrapped]
    /\ raw = [t \in Tracks |-> "none"]
    /\ inbox = [t \in Tracks |-> 0] /\ calls = [t \in Tracks |-> {}]
    /\ watched = {} /\ closed = FALSE
    /\ place = "start" /\ todo \in Programs

-----------------------------------------------------------------------------
(* The native thread.                                                      *)

Native(t, state, call) ==
    /\ raw' = [raw EXCEPT ![t] = state]
    /\ calls' = [calls EXCEPT ![t] = @ \cup call]
    /\ UNCHANGED <<track, inbox, watched, closed, place, todo>>

NativeOpens(t) ==
    raw[t] = "connecting" /\ Native(t, "open", IF t \in Live THEN {"open"} ELSE {})

NativeCloses(t) == raw[t] \in {"connecting", "open"} /\ Native(t, "closed", {"closed"})

NativeError(t) == raw[t] = "open" /\ Native(t, "open", {"error"})

\* A client's track is negotiated; the library hands it over now or later.
ClientAdds(t) == t \in Mock /\ raw[t] = "none" /\ Native(t, "connecting", {})

RemoteSends(t) ==
    /\ raw[t] = "open"
    /\ MapThenSumSet(LAMBDA u : track[u].received + inbox[u], Tracks) < MaxPackets
    /\ inbox' = [inbox EXCEPT ![t] = @ + 1]
    /\ UNCHANGED <<track, raw, calls, watched, closed, place, todo>>

-----------------------------------------------------------------------------
(* Streams: operators on T, a value of `track'.                            *)

\* A stream reads on while its pipe has room.
Flows(T, t) ==
    /\ T[t].life = "live" /\ T[t].mode = "flowing"
    /\ T[t].sink # NoSink =>
          T[T[t].sink].opening # "corked" \/ T[T[t].sink].corked < HighWater

\* Continuations and streams that resumed go on before the next callback.
MustFlow(t) == Flows(track, t) /\ track[t].kept > 0
Quiescent == place \notin {"run", "throw"} /\ \A t \in Tracks : ~MustFlow(t)

\* The streams of D are destroyed, which only leaves it to come out whether they open.  What is
\* piped into them is paused.
Destroyed(T, D) ==
    [t \in Tracks |->
        IF t \in D THEN [Unwrapped EXCEPT !.life = "gone", !.opening = T[t].opening, !.isLocal = T[t].isLocal]
        ELSE IF T[t].sink \in D THEN [T[t] EXCEPT !.sink = NoSink, !.mode = "paused"]
        ELSE T[t]]

\* close(): a stream that was flowing ends, and ends the one that it is piped into.
Closed(T, t) ==
    IF T[t].life # "live" THEN T
    ELSE Destroyed(T, {t} \cup (IF Flows(T, t) /\ T[t].sink # NoSink THEN {T[t].sink} ELSE {}))

\* A write fails on a track that is closed, which is noticed, or for another reason.
Failed(T, t) == IF raw[t] = "closed" THEN Closed(T, t) ELSE Destroyed(T, {t})

\* What may become of T when n packets are written at once to t, which is not corked.
Written(T, t, n) ==
    {Failed(T, t)} \cup IF raw[t] = "open" THEN {[T EXCEPT ![t].sent = @ + n]} ELSE {}

\* The next state, after a callback has taken its packet of box or its call of queue.
\* Destroying a stream closes its native track, and its callbacks have no more effect, except
\* that it may still open.
Becomes(T, box, queue) ==
    /\ track' = T
    /\ raw' = [t \in Tracks |-> IF T[t].life = "gone" THEN "closed" ELSE raw[t]]
    /\ inbox' = [t \in Tracks |-> IF T[t].life = "gone" THEN 0 ELSE box[t]]
    /\ calls' = [t \in Tracks |-> IF T[t].life = "gone" THEN queue[t] \cap {"open"} ELSE queue[t]]

PausedAll(T) == [t \in Tracks |-> IF t \in Mock \cap Live THEN [T[t] EXCEPT !.mode = "paused"] ELSE T[t]]

\* Faulty variant: the step leaves the streams flowing.
FlowUnpaused(t) ==
    LET s == track[t].sink
        T == [track EXCEPT ![t].kept = @ - 1, ![t].active = TRUE]
    IN  /\ MustFlow(t)
        /\ IF place = "waiting"
           THEN Becomes([T EXCEPT ![t].eaten = @ + 1], inbox, calls) /\ StepDone
           ELSE /\ IF s = NoSink THEN Becomes(T, inbox, calls)
                   ELSE IF T[s].opening = "corked"
                   THEN Becomes([T EXCEPT ![t].passed = @ + 1, ![s].corked = @ + 1], inbox, calls)
                   ELSE \E U \in Written([T EXCEPT ![t].passed = @ + 1], s, 1) : Becomes(U, inbox, calls)
                /\ UNCHANGED <<place, todo>>
        /\ UNCHANGED <<watched, closed>>

\* One packet leaves the read buffer: for the step that waits for media, which pauses every
\* track then, or for the sink.
Flow(t) ==
    LET s == track[t].sink
        T == [track EXCEPT ![t].kept = @ - 1, ![t].active = TRUE]
    IN  /\ MustFlow(t)
        /\ IF place = "waiting"
           THEN Becomes(PausedAll([T EXCEPT ![t].eaten = @ + 1]), inbox, calls) /\ StepDone
           ELSE /\ IF s = NoSink THEN Becomes(T, inbox, calls)
                   ELSE IF T[s].opening = "corked"
                   THEN Becomes([T EXCEPT ![t].passed = @ + 1, ![s].corked = @ + 1], inbox, calls)
                   ELSE \E U \in Written([T EXCEPT ![t].passed = @ + 1], s, 1) : Becomes(U, inbox, calls)
                /\ UNCHANGED <<place, todo>>
        /\ UNCHANGED <<watched, closed>>

-----------------------------------------------------------------------------
(* Callbacks.                                                              *)

\* new MediaTrackStream(t), its tracking, and what 'track-created' starts.  A track that comes
\* while media is proxied is not.
Wrap(t, opening, isLocal) ==
    /\ track' = [track EXCEPT ![t].life = "live", ![t].opening = opening, ![t].isLocal = isLocal,
           ![t].mode = IF t \in Mock /\ place \in {"waiting", "echoing"} THEN "flowing" ELSE "idle",
           ![t].sink = IF t \in Mock /\ place = "echoing" THEN t ELSE NoSink]
    /\ watched' = watched \cup (IF place = "start" THEN {} ELSE {t} \cap Mock)
    /\ UNCHANGED <<nativeVars, closed, place, todo>>

\* onTrack: a track that is open when it is wrapped says so in a later turn.
TrackArrives(t) ==
    /\ Quiescent /\ ~closed
    /\ t \in Mock /\ raw[t] # "none" /\ track[t].life = "none"
    /\ Wrap(t, IF raw[t] = "open" THEN "immediate" ELSE "corked", FALSE)
    /\ UNCHANGED raw

\* A mirrored description makes a connection add the track.
MirrorAdds(t) ==
    /\ Quiescent /\ ~closed
    /\ raw[t] = "none"
    /\ raw' = [raw EXCEPT ![t] = "connecting"]
    /\ Wrap(t, "corked", TRUE)

\* 'connection-connected': the tracks that exist are watched from now on, and the handler
\* goes to its first step.
Connected ==
    /\ place = "start"
    /\ place' = "run"
    /\ watched' = Mock \cap Live
    /\ UNCHANGED <<track, raw, nativeVars, closed, todo>>

\* What 'track-open' of t does.
Opened(t) == [track EXCEPT ![t].opening = "open"]
Remote(t) == t \in Mock /\ ~track[t].isLocal
OpenEnds(t) == IF place = "wait-track" /\ Remote(t) THEN StepDone ELSE UNCHANGED <<place, todo>>

\* setImmediate, for a track that was open when it was wrapped.
OpenLater(t) ==
    /\ Quiescent
    /\ track[t].opening = "immediate"
    /\ track' = Opened(t)
    /\ OpenEnds(t)
    /\ UNCHANGED <<raw, nativeVars, watched, closed>>

Without(call, t) == [calls EXCEPT ![t] = @ \ {call}]

\* onOpen: what was written so far goes out as one message.
OnOpen(t) ==
    /\ Quiescent
    /\ "open" \in calls[t]
    /\ IF track[t].corked > 0
       THEN \E T \in Written([Opened(t) EXCEPT ![t].corked = 0], t, track[t].corked) :
              Becomes(T, inbox, Without("open", t))
       ELSE Becomes(Opened(t), inbox, Without("open", t))
    /\ OpenEnds(t)
    /\ UNCHANGED <<watched, closed>>

Arrival(t) == Quiescent /\ inbox[t] > 0 /\ t \in Live

\* Faulty variant: the answer of push() is not kept.
OnMessageAlways(t) ==
    /\ Arrival(t)
    /\ inbox' = [inbox EXCEPT ![t] = @ - 1]
    /\ track' = [track EXCEPT ![t].received = @ + 1, ![t].kept = @ + 1]
    /\ UNCHANGED <<raw, calls, watched, closed, place, todo>>

\* onMessage counts every packet, and drops it if the stream refused the one before.
OnMessage(t) ==
    /\ Arrival(t)
    /\ inbox' = [inbox EXCEPT ![t] = @ - 1]
    /\ track' = IF track[t].active
                THEN [track EXCEPT ![t].received = @ + 1, ![t].kept = @ + 1,
                                   ![t].active = track[t].kept + 1 < HighWater]
                ELSE [track EXCEPT ![t].received = @ + 1, ![t].lost = @ + 1]
    /\ UNCHANGED <<raw, calls, watched, closed, place, todo>>

\* onClosed and onError.
OnClosed(t) ==
    /\ Quiescent
    /\ t \in Live
    /\ \/ "closed" \in calls[t] /\ Becomes(Closed(track, t), inbox, calls)
       \/ "error" \in calls[t] /\ Becomes(Destroyed(track, {t}), inbox, calls)
    /\ UNCHANGED <<watched, closed, place, todo>>

\* Faulty variant: only what was sent is compared.
AnnounceStatsSent(t) ==
    /\ Quiescent
    /\ t \in watched \cap Live /\ track[t].told[1] # track[t].sent
    /\ track' = [track EXCEPT ![t].told = Totals(t)]
    /\ UNCHANGED <<raw, nativeVars, watched, closed, place, todo>>

\* The interval of a watched track, which its closure clears, announces totals that changed.
AnnounceStats(t) ==
    /\ Quiescent
    /\ t \in watched \cap Live /\ track[t].told # Totals(t)
    /\ track' = [track EXCEPT ![t].told = Totals(t)]
    /\ UNCHANGED <<raw, nativeVars, watched, closed, place, todo>>

-----------------------------------------------------------------------------
(* The steps of the handler.                                               *)

StartWaitTrack ==
    /\ AtStep("wait-track")
    /\ IF \E t \in Live : Remote(t) THEN StepDone ELSE place' = "wait-track" /\ UNCHANGED todo
    /\ UNCHANGED <<track, raw, nativeVars, watched, closed>>

\* A new 'data' listener starts a stream that nothing read yet, but not one that was paused.
StartWaitMedia ==
    /\ AtStep("wait-media")
    /\ place' = "waiting"
    /\ track' = [t \in Tracks |-> IF t \in Mock \cap Live /\ track[t].mode = "idle"
                                  THEN [track[t] EXCEPT !.mode = "flowing"] ELSE track[t]]
    /\ UNCHANGED <<raw, nativeVars, watched, closed, todo>>

StartEcho ==
    /\ AtStep("echo")
    /\ place' = "echoing"
    /\ track' = [t \in Tracks |-> IF t \in Mock \cap Live
                                  THEN [track[t] EXCEPT !.mode = "flowing", !.sink = t] ELSE track[t]]
    /\ UNCHANGED <<raw, nativeVars, watched, closed, todo>>

\* Faulty variant: the tracks listen to each other, which resumes none that was paused.
StartProxyListening ==
    LET pairs == {t \in Mock \cap Live : Twin(t) \in Live}
        piped == pairs \cup {Twin(t) : t \in pairs}
    IN  /\ AtStep("proxy") /\ pairs = Mock \cap Live
        /\ track' = [t \in Tracks |-> IF t \in piped
                        THEN [track[t] EXCEPT !.mode = IF @ = "idle" THEN "flowing" ELSE @, !.sink = Twin(t)]
                        ELSE track[t]]
        /\ place' = "proxying"
        /\ UNCHANGED <<raw, nativeVars, watched, closed, todo>>

\* Tracks are piped into their twins and back, until one has no twin, or one of another type:
\* that throws.
StartProxy ==
    LET mine == Mock \cap Live IN
    /\ AtStep("proxy")
    /\ \E done \in SUBSET {t \in mine : Twin(t) \in Live} :
          LET piped == done \cup {Twin(t) : t \in done} IN
          /\ track' = [t \in Tracks |-> IF t \in piped
                          THEN [track[t] EXCEPT !.mode = "flowing", !.sink = Twin(t)] ELSE track[t]]
          /\ place' = IF done = mine THEN "proxying" ELSE "throw"
    /\ UNCHANGED <<raw, nativeVars, watched, closed, todo>>

\* The native library closes the tracks of the connections that are closed.
CloseTracks(C) ==
    LET some == {t \in C : raw[t] \in {"connecting", "open"}} IN
    /\ raw' = [t \in Tracks |-> IF t \in some THEN "closed" ELSE raw[t]]
    /\ calls' = [t \in Tracks |-> IF t \in some THEN calls[t] \cup {"closed"} ELSE calls[t]]
    /\ closed' = TRUE
    /\ UNCHANGED <<track, inbox, watched>>

\* The handler closes the connection after its last step, and when a step fails.  A proxy that
\* fails at its tracks has mirrored the closures before.
HandlerCloses ==
    /\ place = "throw" \/ (place = "run" /\ todo = <<>>)
    /\ place' = "over" /\ UNCHANGED todo
    /\ CloseTracks(IF place = "throw" THEN Tracks ELSE Mock)

\* The connection closes: it ends an echo or a proxy, and takes the external connection with it.
ConnectionCloses ==
    /\ Quiescent /\ ~closed
    /\ CloseTracks(IF place = "proxying" THEN Tracks ELSE Mock)
    /\ IF place \in {"echoing", "proxying"} THEN StepDone ELSE UNCHANGED <<place, todo>>

-----------------------------------------------------------------------------

HandlerStep == StartWaitTrack \/ StartWaitMedia \/ StartEcho \/ StartProxy \/ HandlerCloses

Next ==
    \/ \E t \in Tracks :
          \/ ClientAdds(t) \/ NativeOpens(t) \/ NativeCloses(t) \/ NativeError(t) \/ RemoteSends(t)
          \/ TrackArrives(t) \/ MirrorAdds(t) \/ OpenLater(t) \/ OnOpen(t) \/ OnMessage(t)
          \/ OnClosed(t) \/ AnnounceStats(t) \/ Flow(t)
    \/ Connected \/ HandlerStep \/ ConnectionCloses

\* Node.js runs every continuation, callback and interval.  The properties need no more than
\* the fairness of these.
Fairness ==
    /\ WF_vars(HandlerStep)
    /\ \A t \in Tracks : WF_vars(Flow(t)) /\ WF_vars(OnOpen(t)) /\ WF_vars(OnClosed(t))
    /\ \A t \in Mock : WF_vars(AnnounceStats(t))

Spec == Init /\ [][Next]_vars

FairSpec == Spec /\ Fairness

-----------------------------------------------------------------------------
(* Properties.                                                             *)

\* The type of every variable; neither buffer holds more than it may.
TypeOK ==
    /\ \A t \in Tracks :
          /\ track[t].life \in {"none", "live", "gone"}
          /\ track[t].opening \in {"corked", "immediate", "open"}
          /\ track[t].mode \in {"idle", "flowing", "paused"} /\ track[t].sink \in Tracks \cup {NoSink}
          /\ track[t].kept \in 0 .. HighWater /\ track[t].corked \in 0 .. HighWater
          /\ track[t].told \in Nat \X Nat
    /\ raw \in [Tracks -> {"none", "connecting", "open", "closed"}]
    /\ inbox \in [Tracks -> Nat] /\ calls \in [Tracks -> SUBSET {"open", "closed", "error"}]
    /\ watched \subseteq Mock /\ closed \in BOOLEAN
    /\ place \in {"start", "run", "wait-track", "waiting", "echoing", "proxying", "throw", "over"}

\* Every packet that a live track counted was dropped, consumed or passed on, or is kept; what
\* was passed on to a live sink was sent or waits there for the opening.  Nothing is lost or
\* doubled when a wait, an echo, a proxy and the opening of the sink take over from each other,
\* and packets are refused exactly while the read buffer is full.
PacketsAccounted ==
    \A t \in Live :
        LET r == track[t] IN
        /\ r.received = r.lost + r.kept + r.eaten + r.passed
        /\ r.sink # NoSink => r.passed = track[r.sink].sent + track[r.sink].corked
        /\ r.active <=> r.kept < HighWater

\* Subscribers learn the totals of a track: what was received by some moment is announced,
\* unless the track closes first.
StatsCatchUp ==
    \A t \in Mock, n \in 1 .. MaxPackets :
        (t \in watched \cap Live /\ track[t].received = n) ~> (t \notin Live \/ track[t].told[2] >= n)

\* A track that is echoed or proxied passes on what it kept while earlier steps paused it, or
\* while its sink was not open, as soon as the sink opens.
PipesDrain ==
    \A t \in Tracks :
        track[t].sink # NoSink ~>
            \/ track[t].sink = NoSink \/ t \notin Live
            \/ raw[track[t].sink] = "connecting" \/ track[t].kept = 0
=============================================================================
