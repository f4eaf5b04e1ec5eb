---------------------------- MODULE DataChannels ----------------------------
(***************************************************************************)
(* The data channels of one mock connection: the streams that wrap them    *)
(* (src/webrtc/datachannel-stream.ts), their tracking by the connection    *)
(* (trackNewChannel in src/webrtc/rtc-connection.ts), the events announced *)
(* about them (trackConnection in src/server/mockrtc-server-peer.ts) and   *)
(* the handler steps that wait for, send, create and echo on them          *)
(* (src/handling/handler-step-impls.ts).                                   *)
(*                                                                         *)
(* The native library opens and closes channels and receives messages on   *)
(* its own thread, and queues callbacks.  It keeps one queue for each kind *)
(* of callback: messages reach JavaScript in order, but a message, an      *)
(* opening and a closure of one channel may overtake each other.           *)
(***************************************************************************)
EXTENDS Naturals, Sequences, FiniteSets

CONSTANTS
    Remote,       \* channels that the client opens
    Local,        \* channels that a create step may open
    HighWater,    \* messages a stream buffers for a reader (16 in Node.js)
    MaxMessages,  \* bound: messages the client sends on a channel
    Programs      \* the step lists a handler may run

Channels == Remote \cup Local

\* The channels that a step is on are those that its label matches.
Steps == [type : {"wait-message", "send"}, on : SUBSET Channels]
    \cup [type : {"wait-channel"}, on : SUBSET Remote]
    \cup [type : {"create"}, on : {{c} : c \in Local}]
    \cup [type : {"echo"}, on : {Channels}]

ASSUME ChannelsAssumption ==
    /\ Remote \cap Local = {}
    /\ HighWater \in Nat \ {0} /\ MaxMessages \in Nat
    /\ Programs \subseteq Seq(Steps)
    /\ \A p \in Programs : \A i \in 1 .. Len(p) : p[i].type = "echo" => i = Len(p)

\* Messages of the client are numbered on each channel; this is the one that send steps write.
Own == 0

VARIABLES
    chan,     \* chan[c]: the native channel
    arrived,  \* arrived[c]: how many messages of c the native library received
    inbox,    \* inbox[c]: messages whose onMessage callback is queued
    calls,    \* calls[c]: other callbacks queued for c
    stream,   \* stream[c]: "live" from the wrapping of c until it is destroyed: then "gone"
    opening,  \* opening[c]: "corked" until onOpen, or "immediate" until setImmediate; "open"
    buffer,   \* buffer[c]: messages read ahead of any reader
    active,   \* active[c]: _readActive
    mode,     \* mode[c]: "idle" until something reads c, then "flowing", or "paused"
    pending,  \* pending[c]: messages written while c is corked
    sent,     \* sent[c]: messages given to the native channel
    conn,     \* the connection: "new", "connected" once that was announced, "lost" by the
              \* client, or "closed" here
    watched,  \* channels whose events are announced
    log,      \* log[c]: the events announced, but for those of messages that arrive
    heard,    \* heard[c]: the messages announced as received
    place,    \* where the handler is
    todo,     \* its steps, from the current one on
    echo,     \* has an echo step been reached
    owed,     \* channels on which the current send step waits for its write
    eaten,    \* eaten[c]: messages consumed by the steps that wait for one
    dropped   \* dropped[c]: messages that found the buffer full

nativeVars == <<chan, arrived, inbox, calls>>
readVars   == <<buffer, active, mode, eaten, dropped>>
writeVars  == <<pending, sent>>
stepVars   == <<place, todo, echo, owed>>
vars == <<nativeVars, stream, opening, readVars, writeVars, conn, watched, log, heard, stepVars>>

Tracked == {c \in Channels : stream[c] = "live"}   \* this.trackedChannels

\* Steps follow each other before the next callback.
Quiescent == place \notin {"run", "throw"}

AtStep(type) == place = "run" /\ todo # <<>> /\ Head(todo).type = type

\* The channels among C that the current step's label matches.
Matching(C) == C \cap Head(todo).on

Init ==
    /\ chan = [c \in Channels |-> "none"] /\ arrived = [c \in Channels |-> 0]
    /\ inbox = [c \in Channels |-> <<>>] /\ calls = [c \in Channels |-> {}]
    /\ stream = [c \in Channels |-> "none"] /\ opening = [c \in Channels |-> "corked"]
    /\ buffer = [c \in Channels |-> <<>>] /\ active = [c \in Channels |-> TRUE]
    /\ mode = [c \in Channels |-> "idle"]
    /\ pending = [c \in Channels |-> <<>>] /\ sent = [c \in Channels |-> <<>>]
    /\ conn = "new" /\ watched = {} /\ log = [c \in Channels |-> <<>>]
    /\ heard = [c \in Channels |-> <<>>]
    /\ place = "start" /\ todo \in Programs /\ echo = FALSE /\ owed = {}
    /\ eaten = [c \in Channels |-> <<>>] /\ dropped = [c \in Channels |-> {}]

-----------------------------------------------------------------------------
(* The native thread.                                                      *)

\* The client asks for a channel; the library may hand it over before it is open, which is why
\* the constructor of the stream asks isOpen().
ClientOpens(c) ==
    /\ c \in Remote /\ conn \in {"new", "connected"}
    /\ chan[c] = "none"
    /\ chan' = [chan EXCEPT ![c] = "connecting"]
    /\ UNCHANGED <<arrived, inbox, calls, stream, opening, readVars, writeVars, conn, watched, log, heard, stepVars>>

\* onOpen is called on the streams that exist.
NativeOpens(c) ==
    /\ chan[c] = "connecting" /\ conn \in {"new", "connected"}
    /\ chan' = [chan EXCEPT ![c] = "open"]
    /\ calls' = IF stream[c] = "none" THEN calls ELSE [calls EXCEPT ![c] = @ \cup {"open"}]
    /\ UNCHANGED <<arrived, inbox, stream, opening, readVars, writeVars, conn, watched, log, heard, stepVars>>

ClientSends(c) ==
    /\ chan[c] = "open" /\ arrived[c] < MaxMessages
    /\ arrived' = [arrived EXCEPT ![c] = @ + 1]
    /\ inbox' = [inbox EXCEPT ![c] = Append(@, arrived[c] + 1)]
    /\ UNCHANGED <<chan, calls, stream, opening, readVars, writeVars, conn, watched, log, heard, stepVars>>

NativeCloses(c) ==
    /\ chan[c] \in {"connecting", "open"}
    /\ chan' = [chan EXCEPT ![c] = "closed"]
    /\ calls' = [calls EXCEPT ![c] = @ \cup {"closed"}]
    /\ UNCHANGED <<arrived, inbox, stream, opening, readVars, writeVars, conn, watched, log, heard, stepVars>>

NativeError(c) ==
    /\ chan[c] = "open"
    /\ calls' = [calls EXCEPT ![c] = @ \cup {"error"}]
    /\ UNCHANGED <<chan, arrived, inbox, stream, opening, readVars, writeVars, conn, watched, log, heard, stepVars>>

-----------------------------------------------------------------------------
(* Writing.                                                                *)

Announced(c, events) == IF c \in watched THEN log[c] \o events ELSE log[c]

Times(n, event) == [i \in 1 .. n |-> event]

\* How many of ms the native channel of c may take: on a closed channel sendMessage throws,
\* on an open one it may return false.
MayTake(c, ms) == IF chan[c] = "open" THEN 0 .. Len(ms) ELSE {0}

\* ms[c] is written to each stream c.  Those in U are not corked: the first n[c] messages go
\* out, and the next one fails and destroys the stream, which closes the channel.  The event
\* 'wrote-data' is emitted unless sendMessage throws, whatever it returned.
Write(U, ms, n) ==
    LET Broken == {c \in U : n[c] < Len(ms[c])}
        Wrote(c) == n[c] + IF c \in Broken /\ chan[c] = "open" THEN 1 ELSE 0
    IN  /\ sent' = [c \in Channels |-> IF c \in U THEN sent[c] \o SubSeq(ms[c], 1, n[c]) ELSE sent[c]]
        /\ pending' = [c \in Channels |-> IF c \in U THEN <<>> ELSE pending[c] \o ms[c]]
        /\ stream' = [c \in Channels |-> IF c \in Broken THEN "gone" ELSE stream[c]]
        /\ chan' = [c \in Channels |-> IF c \in Broken THEN "closed" ELSE chan[c]]
        /\ log' = [c \in Channels |-> IF c \in U THEN Announced(c, Times(Wrote(c), "sent") \o
                                          IF c \in Broken THEN <<"closed">> ELSE <<>>)
                                      ELSE log[c]]

Uncorked == {c \in Tracked : opening[c] # "corked"}

\* The outcomes of writing ms to the streams in U.
Outcomes(U, ms) == {n \in [Channels -> 0 .. MaxMessages + 1] :
                        \A c \in Channels : n[c] \in IF c \in U THEN MayTake(c, ms[c]) ELSE {0}}

-----------------------------------------------------------------------------
(* Callbacks.                                                              *)

\* What new DataChannelStream(c), its tracking and its 'channel-created' event do: the event
\* reaches the announcements, a step that waits for a message, and an echo.
Track(c) ==
    /\ stream' = [stream EXCEPT ![c] = "live"]
    /\ mode' = [mode EXCEPT ![c] =
          IF echo \/ (place = "waiting" /\ c \in Matching({c})) THEN "flowing" ELSE "idle"]
    /\ watched' = IF conn = "new" THEN watched ELSE watched \cup {c}

\* onDataChannel: a channel that is open when it is wrapped says so in a later turn.
ChannelArrives(c) ==
    /\ Quiescent
    /\ c \in Remote /\ chan[c] # "none" /\ stream[c] = "none"
    /\ conn # "closed"
    /\ Track(c)
    /\ opening' = [opening EXCEPT ![c] = IF chan[c] = "open" THEN "immediate" ELSE "corked"]
    /\ UNCHANGED <<nativeVars, buffer, active, eaten, dropped, writeVars, conn, log, heard, stepVars>>

\* Faulty variant: isOpen is not asked when the watching starts.
ConnectedTooLate ==
    /\ conn = "new"
    /\ conn' = "connected"
    /\ watched' = Tracked
    /\ place' = "run"
    /\ UNCHANGED <<nativeVars, stream, opening, readVars, writeVars, log, heard, todo, echo, owed>>

\* 'connection-connected': the channels that exist are watched from now on, and the handler
\* goes to its first step.
Connected ==
    /\ conn = "new"
    /\ conn' = "connected"
    /\ watched' = Tracked
    /\ log' = [c \in Channels |-> IF stream[c] = "live" /\ opening[c] = "open" THEN <<"opened">> ELSE <<>>]
    /\ place' = "run"
    /\ UNCHANGED <<nativeVars, stream, opening, readVars, writeVars, heard, todo, echo, owed>>

\* 'channel-open' of c is emitted: a step that waits for it is done.
OpenEnds(c) ==
    \/ place = "creating" /\ c \in Matching(Local)
    \/ place = "wait-channel" /\ c \in Matching(Remote)

StepDone == place' = "run" /\ todo' = Tail(todo)

\* setImmediate, for a channel that was open when it was wrapped.
OpenLater(c) ==
    /\ Quiescent
    /\ opening[c] = "immediate"
    /\ opening' = [opening EXCEPT ![c] = "open"]
    /\ log' = [log EXCEPT ![c] = Announced(c, <<"opened">>)]
    /\ IF OpenEnds(c) THEN StepDone ELSE UNCHANGED <<place, todo>>
    /\ UNCHANGED <<nativeVars, stream, readVars, writeVars, conn, watched, heard, echo, owed>>

\* What is left of s when some of it is refused.
Parts(s) ==
    UNION {{[k \in 1 .. n |-> s[at[k]]] :
               at \in {f \in [1 .. n -> 1 .. Len(s)] : \A i, j \in 1 .. n : i < j => f[i] < f[j]}} :
           n \in 0 .. Len(s) - 1}

\* onOpen: what was written so far is sent, every message whether or not another one fails.
\* A step that sent it is done when that was the last of its writes, or fails with it.
OnOpen(c) ==
    /\ Quiescent
    /\ "open" \in calls[c]
    /\ calls' = [calls EXCEPT ![c] = @ \ {"open"}]
    /\ opening' = [opening EXCEPT ![c] = "open"]
    /\ \E out \in {pending[c]} \cup Parts(pending[c]) :
          LET goes == c \in Tracked
              fails == goes /\ Len(out) < Len(pending[c])
              tells == IF goes /\ chan[c] = "open" THEN Times(Len(pending[c]), "sent") ELSE <<>>
          IN  /\ goes /\ chan[c] # "open" => out = <<>>
              /\ sent' = [sent EXCEPT ![c] = IF goes THEN @ \o out ELSE @]
              /\ pending' = [pending EXCEPT ![c] = IF goes THEN <<>> ELSE @]
              /\ log' = [log EXCEPT ![c] = Announced(c, tells \o <<"opened">>
                                              \o IF fails THEN <<"closed">> ELSE <<>>)]
              /\ stream' = [stream EXCEPT ![c] = IF fails THEN "gone" ELSE @]
              /\ chan' = [chan EXCEPT ![c] = IF fails THEN "closed" ELSE @]
              /\ IF c \in owed /\ fails THEN place' = "throw" /\ owed' = {} /\ UNCHANGED todo
                 ELSE /\ owed' = IF goes THEN owed \ {c} ELSE owed
                      /\ IF OpenEnds(c) \/ (owed = {c} /\ goes) THEN StepDone
                         ELSE UNCHANGED <<place, todo>>
    /\ UNCHANGED <<arrived, inbox, readVars, conn, watched, heard, echo>>

\* What becomes of the message m of c that onMessage brings: it is dropped,
Dropped(c, m) ==
    /\ c \notin Tracked \/ (mode[c] # "flowing" /\ ~active[c])
    /\ dropped' = [dropped EXCEPT ![c] = @ \cup {m}]
    /\ UNCHANGED <<chan, stream, buffer, active, mode, eaten, writeVars, log, place, todo>>

\* Faulty variant: the answer of push() is ignored.
BufferedAlways(c, m) ==
    /\ c \in Tracked /\ mode[c] # "flowing" /\ active[c]
    /\ buffer' = [buffer EXCEPT ![c] = Append(@, m)]
    /\ UNCHANGED <<chan, stream, active, mode, eaten, dropped, writeVars, log, place, todo>>

\* or kept for a reader; push() says whether there is room for more,
Buffered(c, m) ==
    /\ c \in Tracked /\ mode[c] # "flowing" /\ active[c]
    /\ buffer' = [buffer EXCEPT ![c] = Append(@, m)]
    /\ active' = [active EXCEPT ![c] = Len(buffer'[c]) < HighWater]
    /\ UNCHANGED <<chan, stream, mode, eaten, dropped, writeVars, log, place, todo>>

\* Every channel is paused by a step that has its message, whatever its label.
PauseAll == mode' = [d \in Channels |-> IF d \in Tracked THEN "paused" ELSE mode[d]]

\* Faulty variant: the step forgets to pause the streams it was reading.
ConsumedUnpaused(c, m) ==
    /\ c \in Tracked /\ mode[c] = "flowing" /\ place = "waiting"
    /\ eaten' = [eaten EXCEPT ![c] = Append(@, m)]
    /\ StepDone
    /\ UNCHANGED <<chan, stream, mode, buffer, active, dropped, writeVars, log>>

\* or consumed by the step that waits for it,
Consumed(c, m) ==
    /\ c \in Tracked /\ mode[c] = "flowing" /\ place = "waiting"
    /\ eaten' = [eaten EXCEPT ![c] = Append(@, m)]
    /\ PauseAll
    /\ StepDone
    /\ UNCHANGED <<chan, stream, buffer, active, dropped, writeVars, log>>

\* or written back; a stream that flows without a reader would lose it.
Echoed(c, m) ==
    LET ms == [d \in Channels |-> IF d = c /\ echo THEN <<m>> ELSE <<>>]
        U  == {c} \cap Uncorked
    IN  /\ c \in Tracked /\ mode[c] = "flowing" /\ place # "waiting"
        /\ \E n \in Outcomes(U, ms) : Write(U, ms, n)
        /\ UNCHANGED <<readVars, place, todo>>

\* onMessage: the message is announced before it is known whether the stream has room for it.
Deliver(c) ==
    /\ Quiescent
    /\ inbox[c] # <<>> /\ stream[c] # "none"
    /\ inbox' = [inbox EXCEPT ![c] = Tail(@)]
    /\ heard' = IF c \in watched THEN [heard EXCEPT ![c] = Append(@, Head(inbox[c]))] ELSE heard
    /\ LET m == Head(inbox[c]) IN Dropped(c, m) \/ Buffered(c, m) \/ Consumed(c, m) \/ Echoed(c, m)
    /\ UNCHANGED <<arrived, calls, opening, conn, watched, echo, owed>>

\* onClosed and onError.  Whether the writes that wait in a destroyed stream are told depends
\* on the version of Node.js.
OnClosed(c, call) ==
    /\ Quiescent
    /\ call \in calls[c] \cap {"closed", "error"} /\ stream[c] # "none"
    /\ calls' = [calls EXCEPT ![c] = @ \ {call}]
    /\ stream' = [stream EXCEPT ![c] = "gone"]
    /\ chan' = [chan EXCEPT ![c] = "closed"]
    /\ log' = [log EXCEPT ![c] = IF stream[c] = "live" THEN Announced(c, <<"closed">>) ELSE @]
    /\ \/ UNCHANGED <<place, owed>>
       \/ c \in owed /\ stream[c] = "live" /\ place' = "throw" /\ owed' = {}
    /\ UNCHANGED <<arrived, inbox, opening, readVars, writeVars, conn, watched, heard, todo, echo>>

-----------------------------------------------------------------------------
(* The steps of the handler.                                               *)

\* Faulty variant: _read() does not set _readActive again.
StartWaitInactive ==
    LET idle  == {c \in Matching(Tracked) : mode[c] = "idle"}
        ready == {c \in idle : buffer[c] # <<>>}
    IN  /\ AtStep("wait-message")
        /\ \/ /\ ready = {}
              /\ place' = "waiting"
              /\ mode' = [c \in Channels |-> IF c \in idle THEN "flowing" ELSE mode[c]]
              /\ UNCHANGED <<buffer, eaten, todo>>
           \/ \E c \in ready :
              /\ eaten' = [eaten EXCEPT ![c] = Append(@, Head(buffer[c]))]
              /\ buffer' = [buffer EXCEPT ![c] = Tail(@)]
              /\ PauseAll
              /\ StepDone
        /\ UNCHANGED <<nativeVars, stream, opening, active, dropped, writeVars, conn, watched, log, heard, echo, owed>>

\* A new 'data' listener starts a stream that nothing read yet, but not one that was paused.
\* Of the streams that it starts one with a buffered message is enough.
StartWait ==
    LET idle  == {c \in Matching(Tracked) : mode[c] = "idle"}
        ready == {c \in idle : buffer[c] # <<>>}
    IN  /\ AtStep("wait-message")
        /\ \/ /\ ready = {}
              /\ place' = "waiting"
              /\ mode' = [c \in Channels |-> IF c \in idle THEN "flowing" ELSE mode[c]]
              /\ UNCHANGED <<buffer, active, eaten, todo>>
           \/ \E c \in ready :
              /\ eaten' = [eaten EXCEPT ![c] = Append(@, Head(buffer[c]))]
              /\ buffer' = [buffer EXCEPT ![c] = Tail(@)]
              /\ active' = [active EXCEPT ![c] = TRUE]
              /\ PauseAll
              /\ StepDone
        /\ UNCHANGED <<nativeVars, stream, opening, dropped, writeVars, conn, watched, log, heard, echo, owed>>

StartWaitChannel ==
    /\ AtStep("wait-channel")
    /\ IF Matching(Tracked \cap Remote) # {} THEN StepDone ELSE place' = "wait-channel" /\ UNCHANGED todo
    /\ UNCHANGED <<nativeVars, stream, opening, readVars, writeVars, conn, watched, log, heard, echo, owed>>

\* The step waits for the writes of corked streams.
StartSend ==
    LET to == Matching(Tracked)
        U  == to \cap Uncorked
        ms == [c \in Channels |-> IF c \in to THEN <<Own>> ELSE <<>>]
    IN  /\ AtStep("send")
        /\ \E n \in Outcomes(U, ms) :
              /\ Write(U, ms, n)
              /\ IF \E c \in U : n[c] = 0 THEN place' = "throw" /\ UNCHANGED <<todo, owed>>
                 ELSE IF to = U THEN StepDone /\ UNCHANGED owed
                 ELSE place' = "sending" /\ owed' = to \ U /\ UNCHANGED todo
        /\ UNCHANGED <<arrived, inbox, calls, opening, readVars, conn, watched, heard, echo>>

\* createDataChannel throws when the connection was closed, and may when it was lost.
StartCreate ==
    /\ AtStep("create")
    /\ \/ /\ conn # "connected"
          /\ place' = "throw"
          /\ UNCHANGED <<chan, stream, mode, watched>>
       \/ /\ conn # "closed"
          /\ \E c \in Matching(Local) :
                /\ chan[c] = "none"
                /\ chan' = [chan EXCEPT ![c] = "connecting"]
                /\ Track(c)
          /\ place' = "creating"
    /\ UNCHANGED <<arrived, inbox, calls, opening, buffer, active, eaten, dropped, writeVars, conn, log, heard,
                   todo, echo, owed>>

\* Faulty variant: the echo listens for data, which resumes no stream that was paused.
StartEchoListening ==
    LET idle == {c \in Tracked : mode[c] = "idle"}
        ms == [c \in Channels |-> IF c \in idle THEN buffer[c] ELSE <<>>]
    IN  /\ AtStep("echo")
        /\ echo' = TRUE
        /\ place' = "echoing"
        /\ mode' = [c \in Channels |-> IF c \in idle THEN "flowing" ELSE mode[c]]
        /\ buffer' = [c \in Channels |-> IF c \in idle THEN <<>> ELSE buffer[c]]
        /\ active' = [c \in Channels |-> active[c] \/ c \in idle]
        /\ \E n \in Outcomes(Uncorked, ms) : Write(Uncorked, ms, n)
        /\ UNCHANGED <<arrived, inbox, calls, opening, eaten, dropped, conn, watched, heard, todo, owed>>

\* Every stream is piped into itself: it flows again, and what it buffered goes first.
StartEcho ==
    LET ms == [c \in Channels |-> IF c \in Tracked THEN buffer[c] ELSE <<>>] IN
    /\ AtStep("echo")
    /\ echo' = TRUE
    /\ place' = "echoing"
    /\ mode' = [c \in Channels |-> IF c \in Tracked THEN "flowing" ELSE mode[c]]
    /\ buffer' = [c \in Channels |-> IF c \in Tracked THEN <<>> ELSE buffer[c]]
    /\ active' = [c \in Channels |-> active[c] \/ c \in Tracked]
    /\ \E n \in Outcomes(Uncorked, ms) : Write(Uncorked, ms, n)
    /\ UNCHANGED <<arrived, inbox, calls, opening, eaten, dropped, conn, watched, heard, todo, owed>>

\* The native library closes every channel.
CloseChannels ==
    LET some == {c \in Channels : chan[c] \in {"connecting", "open"}} IN
    /\ chan' = [c \in Channels |-> IF c \in some THEN "closed" ELSE chan[c]]
    /\ calls' = [c \in Channels |-> IF c \in some THEN calls[c] \cup {"closed"} ELSE calls[c]]

\* The handler closes the connection after its last step, and when a step fails.
HandlerCloses ==
    /\ place = "throw" \/ (place = "run" /\ todo = <<>>)
    /\ place' = "over"
    /\ conn' = "closed"
    /\ CloseChannels
    /\ UNCHANGED <<arrived, inbox, stream, opening, readVars, writeVars, watched, log, heard, todo, echo, owed>>

\* The client closes the connection, or MockRTCServerPeer.close() does: the echo ends.
ConnectionGoes ==
    /\ Quiescent
    /\ \/ conn = "connected" /\ conn' = "lost"
       \/ conn \in {"new", "connected"} /\ conn' = "closed"
    /\ CloseChannels
    /\ IF place = "echoing" THEN StepDone ELSE UNCHANGED <<place, todo>>
    /\ UNCHANGED <<arrived, inbox, stream, opening, readVars, writeVars, watched, log, heard, echo, owed>>

-----------------------------------------------------------------------------

HandlerStep == StartWait \/ StartWaitChannel \/ StartSend \/ StartCreate \/ StartEcho \/ HandlerCloses

Next ==
    \/ \E c \in Channels :
          \/ ClientOpens(c) \/ NativeOpens(c) \/ ClientSends(c) \/ NativeCloses(c) \/ NativeError(c)
          \/ ChannelArrives(c) \/ OpenLater(c) \/ OnOpen(c) \/ Deliver(c)
          \/ \E call \in {"closed", "error"} : OnClosed(c, call)
    \/ Connected \/ HandlerStep \/ ConnectionGoes

\* Node.js runs every queued callback and every continuation.
Fairness ==
    /\ WF_vars(HandlerStep)
    /\ \A c \in Channels :
          /\ WF_vars(ChannelArrives(c)) /\ WF_vars(OpenLater(c)) /\ WF_vars(OnOpen(c))
          /\ WF_vars(Deliver(c)) /\ WF_vars(\E call \in {"closed", "error"} : OnClosed(c, call))

Spec == Init /\ [][Next]_vars
FairSpec == Spec /\ Fairness

-----------------------------------------------------------------------------
(* Properties.                                                             *)

Messages == 1 .. MaxMessages
InOrder(s) == \A i, j \in 1 .. Len(s) : i < j /\ s[j] # Own => s[i] < s[j]   \* but for our own
Elements(s) == {s[i] : i \in 1 .. Len(s)}
Count(s, x) == Cardinality({i \in 1 .. Len(s) : s[i] = x})

\* The types of what the streams, the connection and the handler are in.
Typed ==
    /\ chan \in [Channels -> {"none", "connecting", "open", "closed"}]
    /\ arrived \in [Channels -> 0 .. MaxMessages] /\ inbox \in [Channels -> Seq(Messages)]
    /\ calls \in [Channels -> SUBSET {"open", "closed", "error"}]
    /\ stream \in [Channels -> {"none", "live", "gone"}]
    /\ opening \in [Channels -> {"corked", "immediate", "open"}]
    /\ buffer \in [Channels -> Seq(Messages)] /\ \A c \in Channels : Len(buffer[c]) <= HighWater
    /\ active \in [Channels -> BOOLEAN]
    /\ mode \in [Channels -> {"idle", "flowing", "paused"}]
    /\ pending \in [Channels -> Seq(Messages \cup {Own})] /\ sent \in [Channels -> Seq(Messages \cup {Own})]
    /\ conn \in {"new", "connected", "lost", "closed"} /\ watched \subseteq Channels
    /\ log \in [Channels -> Seq({"opened", "sent", "closed"})]
    /\ place \in {"start", "run", "waiting", "wait-channel", "sending", "creating", "echoing", "over", "throw"}
    /\ todo \in Seq(Steps) /\ echo \in BOOLEAN /\ owed \subseteq Channels
    /\ eaten \in [Channels -> Seq(Messages)] /\ dropped \in [Channels -> SUBSET Messages]

\* The type of every variable, and the size of the read buffer.
TypeOK == Typed /\ heard \in [Channels -> Seq(Messages)]

\* What a live stream was given it dropped, or it went once and in order through a step that
\* waited for it, an echo (already sent, or corked) and the read buffer: nothing is lost or
\* doubled between the readers that take over from each other.
NothingLost ==
    \A c \in Tracked :
        LET read == eaten[c] \o (sent[c] \o pending[c]) \o buffer[c]
        IN  /\ InOrder(read)
            /\ Elements(read) \ {Own} = (1 .. arrived[c]) \ (dropped[c] \cup Elements(inbox[c]))

\* A live stream refuses messages exactly while its read buffer is full, whoever reads it,
\* pauses it or takes from it in between.
RefusesWhenFull == \A c \in Tracked : active[c] <=> Len(buffer[c]) < HighWater

\* Subscribers hear once that a watched channel opened and once that it closed, and of every
\* message it was given; a message that was refused is announced only by a channel that then
\* closes, so until then they know exactly what was sent.  What the client sends they hear once
\* and in order from some message on, the newest included, also what the stream drops.
EventsTellAll ==
    \A c \in watched :
        /\ Count(log[c], "opened") = IF opening[c] = "open" THEN 1 ELSE 0
        /\ Count(log[c], "closed") = IF stream[c] = "gone" THEN 1 ELSE 0
        /\ Count(log[c], "sent") >= Len(sent[c])
        /\ stream[c] = "live" => Count(log[c], "sent") = Len(sent[c])
        /\ \A i \in 1 .. Len(heard[c]) : heard[c][i] = arrived[c] - Len(inbox[c]) - Len(heard[c]) + i

\* A step that waits for the client's next message is not left behind while a stream it
\* matches holds one.  The builder's waitForNextMessage says it waits until the client next
\* sends a message.
NextMessageCompletes == place = "waiting" => \A c \in Matching(Tracked) : buffer[c] = <<>>

\* Once an echo is reached, a stream answers everything it did not drop, also what was buffered
\* while earlier steps had it paused and what was written before it opened.
EchoAnswers ==
    \A c \in Channels :
        echo /\ stream[c] = "live" ~>
            \/ stream[c] = "gone"
            \/ (Elements(eaten[c] \o sent[c]) \ {Own}) \cup dropped[c] = 1 .. arrived[c]
=============================================================================
