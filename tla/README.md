# A TLA+ model of MockRTC

MockRTC stands in for one side of WebRTC sessions: tests create a mock peer, negotiate connections with it,
and the peer runs a handler (a list of steps) on every connection, possibly proxying it to a real peer. This
directory holds a model of the part of it that is concurrent: what happens to connections, handlers, data
channels, media, descriptions, requests and announced events when clients, the network, the native WebRTC
library and the JavaScript event loop take their steps in any order.

Contents: the inventory, how the model is built, the modules and the code, the runs, the proofs, what the
code does differently from what it says, what is not modelled, and the plan.

## 1. Inventory of the system

| Component | State | Operations and events | Properties that make it correct |
| --- | --- | --- | --- |
| `RTCConnection` (webrtc/rtc-connection.ts) | `rawConn` (native connection or null), local and remote description, tracked channels and tracks | constructor, `setRemoteDescription`, `getMirroredLocalOffer` and answer, `createDataChannel`, `waitUntilConnected`, `close`; native callbacks for state, channels, tracks | what it lets go of is closed; callbacks of a closed connection do nothing; its channels are those that exist |
| `MockRTCConnection` (webrtc/mockrtc-connection.ts) | control channel, `externalConnection` | control messages, attachment of an external connection, `proxyTrafficTo` | one external connection at most on each side; a closure is mirrored |
| `MockRTCServerPeer` (server/mockrtc-server-peer.ts) | `connections`, `unassignedExternalConnections`, recorded messages, one handler in progress for each connection | `createOffer`, `answerOffer`, `createExternalOffer`, `answerExternalOffer`, `close`, the handler loop, the announcements | `close()` reaches every session; events come once and in an order subscribers can follow; a handler's end closes its connection |
| Handler steps (handling/handler-step-impls.ts) | one external connection and some listeners, while a step runs | wait for a duration, a channel, a message, a track, media; create, send, close, echo, peer proxy, dynamic proxy | a step ends when its doc says |
| `DataChannelStream` (webrtc/datachannel-stream.ts) | read buffer, `_readActive`, corked writes, `_isOpen` | onMessage, onOpen, onClosed, onError, write, pause, pipe, destroy | messages are delivered once, in order, or dropped because the buffer was full |
| `MediaTrackStream` (webrtc/mediatrack-stream.ts) | the same for bytes of one track, and totals | the same | packets are accounted for, and the totals that are announced catch up |
| `MockRTCServer` (server/mockrtc-server.ts) | `_activePeers`, `rules`, the matching peer, the event emitter | `start`, `stop`, `reset`, `buildPeerFromDefinition`, `setRulesFromDefinitions`, `addRuleFromDefinition`, `matchConnection`, `on` | no session outlives its peer; a connection gets the steps of a rule that matches it |
| `MockRTCAdminPlugin` (server/mockrtc-admin-plugin.ts) | its server, and listeners that it registers on it once | GraphQL resolvers, subscriptions, `start`, `reset`, `stop` | a request is refused or served whole; events go out once and in order |
| Matchers (matching/) | none | predicates on SDP and URLs | the first rule that fits is taken |
| `MockRTCClient`, `MockRTCRemotePeer`, request builder (client/) | ids of peers and sessions that the client was given | one request for each call, subscriptions | each call settles |
| WebRTC hooks (webrtc-hooks.ts) | for each hooked browser connection: `selectedDescription`, `mockOffer`, the pending and current descriptions | hooked `createOffer`, `createAnswer`, `setLocalDescription`, `setRemoteDescription`, the attach message | the real negotiation and the mock one stay in step |
| Builders, entry points, type declarations | none, or local to a caller | fluent builders, process start-up | sequential |

How they interact. The native library (node-datachannel) runs on its own threads, changes the state of
connections and channels there, and queues callbacks for JavaScript. JavaScript runs one callback or one
request at a time, then every continuation of the promises that this resolved. `rawConn.state()` and
`rawChannel.isOpen()` read the native state of the moment, while callbacks report an older one; most of the
hard behaviour comes from there. Components call each other and listen to each other's node events
(`connection-connected`, `connection-closed`, `channel-created`, `external-connection-attached`, ...), which
are delivered inside the call that emits them.

The hard parts, in one list (every one is at its line in `PROJECT.json`, "hazards"): native state read
before its callback runs; a `close()` that is silent because the native connection closed first; closures that
cascade across mirrored connections; state read before an `await` and used after it (attachments); waits that
begin after the event they wait for; error paths of handlers half way through a proxy set-up; the listeners of
trackConnection, of which each serves one event; streams that change readers while messages arrive; full read
buffers; openings, messages and closures of a channel on separate callbacks; a single gathering listener for
all the descriptions of a connection; resets between the parts of a request; signalling calls of an
application that does not wait for each.

## 2. How the model is built

* One action is one run of JavaScript between two points where it gives up control, with every listener that
  runs inside it. The continuations of resolved promises come before the next callback or request: that is
  the guard `Quiescent`. Actions of the native thread do not have it: they happen at any time.
* The native library is modelled from how the code uses it: the states of a connection, the moves between
  them, and a queue of reported states for each connection; for a channel, its state, a queue of messages,
  and the other callbacks, which may overtake the messages and each other.
* Session descriptions, candidates, labels and contents of messages are abstracted. A description is known or
  not, or is named by the call that made it; a message is its number on its channel, and packets of a track
  are counted; steps name the set of channels that their label matches; a matcher reads traits of a connection.
* What depends on abstracted data is nondeterministic: whether mirroring media throws, whether the library
  refuses a description, whether sending succeeds, whether the candidates of a connection can still be read.
* The process survives an exception that a listener throws inside a native callback, and a rejection that nothing
  handles.
* Operators whose comment begins with "Faulty variant" are bugs that somebody could plausibly write in the
  code they stand beside. No specification uses them: each shows that one property notices that bug
  (`PROJECT.json`, "mutants").

## 3. Modules and code

| Module | Models |
| --- | --- |
| `RTCConnection` | a set of connections: `raw[c]` is `rawConn`, `native[c]` what `rawConn.state()` answers, `pend[c]` the queued state callbacks, `desc[c]` whether the remote description is known, `mirror` the pairs that mirror each other's closure. Actions: `Construct`, `SetRemoteDescription`, `RefuseDescription` (the library throws, which resets the description), `NativeChange`, `Close`, `StateCallback`, `MirrorClosure` |
| `MockRTCServerPeer` | extends it with the peer: `tracked` is `connections`, `unassigned` is `unassignedExternalConnections`, `control`, `external` the fields of MockRTCConnection, `claim` and `ready` the continuation behind an attach message, `pc`, `todo`, `target` the handler of each connection, `listen` the once-listeners of trackConnection, `events` what was announced |
| `SessionProtocol` | the abstract specification: event histories of sessions, and identifiers of external connections that can be used once |
| `Descriptions` | extends `RTCConnection` with the descriptions that a connection builds: `gathering` is `gatheringState()`, `listener` the one `onGatheringStateChange` that the library keeps, `calls` the descriptions asked for, each with its progress and its set-up channel |
| `DataChannels` | the channels of one connection with their streams, tracking, events and the steps that use them: `buffer`, `active`, `mode` are the read buffer, `_readActive` and the flowing state of the stream, `pending` what was written while corked, `stream` its life, `log` and `heard` what was announced, `heard` being the messages that arrive |
| `MediaTracks` | the tracks of a mock connection and of the one it is proxied to, as one record for each stream (`isLocal` tells a track that was added here from one that the client brought), `watched` those whose totals an interval announces, `place` and `todo` the handler with the steps about media |
| `MockRTCServer` | the server, the admin plugin and its remote clients: `active`, `rules`, `sess` the sessions of all peers, `call` the request of each thread of client code, `known` and `held` the handles that clients have, `lost` the sessions that the native side closed and whose callback is queued, `listener` the request that the gathering listener of a session would wake, `forwarding`, `queue` and `heard` the way of an event from the emitter to a subscriber |
| `WebRTCHooks` | one hooked browser connection: `calls` of the application with the place where each waits, `chain` and `native` the operations and the signalling state of the real connection, `chosen` the calls of setLocalDescription without an argument that are not over, `strayed` whether the application has left the order that the hooks follow, and the variables that the hooks share |
| `RTCConnection_proofs`, `MockRTCServerPeer_proofs`, `SessionProtocol_proofs`, `MockRTCServer_proofs`, `Descriptions_proofs`, `DataChannels_proofs`, `MediaTracks_proofs`, `WebRTCHooks_proofs` | theorems about the module that the name begins with, and their proofs; `SessionProtocol_proofs` shows that the peer implements `SessionProtocol` |
| `MCMockRTCServerPeer`, `MCDescriptions`, `MCDataChannels`, `MCMediaTracks`, `MCMockRTCServer` | instances for TLC: step lists, rules, symmetry, bounds |

Interfaces. `MockRTCServerPeer` changes the state of its connections only through the actions of
`RTCConnection` (`UsesConnections`, checked and proved), and `Descriptions` is built on those actions too. In the
peer a step that waits for channels, media or messages, sends or creates is one wait with every outcome;
`DataChannels` and `MediaTracks` open those steps up for one connection. `MockRTCServer` sees of a peer that its
sessions are made, connect and close, which is what `MockRTCServerPeer` announces of them, and gives the matching
peer the steps that the peer's `HandlerSteps` stand for. `WebRTCHooks` is in the page under test and sees the
peer as something that answers or refuses requests.

Names follow the code where TLA+ allows. `PROJECT.json` "map" has the lines of every definition.

Points where the code is subtle and the model follows it:

* `close()` drops `rawConn` first, and emits 'connection-closed' only if the native state was not closed yet
  (`CloseEmits`). When it was, the callback that would have emitted it is ignored later, because `rawConn`
  is null (`OnIgnored`).
* A closure runs through the mirrored pairs inside one call, and every connection that it closes emits and
  untracks inside that call too (`CloseCalls`, `Emitters`, `Announce`).
* `external-connection-attached` has two listeners: the announcement, which throws when the candidates of the
  external connection cannot be read, and a dynamic proxy step, which is then never resumed (`AttachThrows`). It
  must throw when that connection was dropped, cannot while it is connected, and may in between.
* The listener of `connection-connected` reads candidates too. When the native connection has moved on before its
  callback runs it may throw: the session is never announced, and the handler, whose listener comes after, waits for
  ever (`OnConnectedThrows`).
* The rejection of an attach message's wait is handled nowhere; the model, like a process that tolerates
  unhandled rejections, goes on.
* `proxyTrafficTo` registers its closure listener and mirrors in the microtasks of one turn, which the model
  makes one step.
* A paused stream is not resumed by a new 'data' listener, but it is by `pipe`; `_read` reopens a full stream
  when one message is taken from it; a failed write destroys the stream, which closes the channel;
  'wrote-data' is emitted even when sendMessage returned false. These are facts of Node.js streams (version
  20, which package.json requires) combined with datachannel-stream.ts. What Node.js does with the write
  callbacks of a destroyed stream differs between versions, and is left open.
* The wait for gathering registers its listener and then looks at the state (`Await`), so that it cannot miss
  the end of gathering; but it replaces the listener of an earlier wait, which then is never woken. Hence
  `NewestWaitSettles` speaks of the call that holds the listener.
* A set-up channel is made to have something to negotiate, and closed when the wait is over. A mirrored offer
  with a data stream makes one even on a connection that is connected, where it is announced at once:
  `SetupHidden` excludes just these offers. (The comment at rtc-connection.ts:318-320, "never gets created",
  is about the others.)
* A mirrored answer does not wait for gathering at all, though webrtc-hooks.ts:231-232 takes it that MockRTC
  always does: `DeliveredComplete` excludes it.
* proxyTrafficTo registers the mirrored closure before it pipes, and throws at a track that has no twin or one of
  another type or direction: some tracks may be piped by then, and the closure of the session takes the external
  connection with it (`StartProxy`, `HandlerCloses`).
* Only tracks that the client brought end a wait for a track (`Remote`); mirroring adds tracks of our own.
* Tracks are piped by proxyTrafficTo once: a track that comes later is not proxied. A second wait for media, like
  a second wait for messages, hears nothing of the tracks that the first one paused.
* A track's corked writes go out as one message when it opens; until then a pipe into it stops its source when
  the write buffer is full (`Flows`), and the source starts to drop.
* A request is served in one run up to its first real wait, so that a peer is looked up and makes its
  connection with no reset between (`CreateSession`); what comes after the wait does not look the peer up again
  (`Reply`). The wait, of a new session as of one that is described again (`Describe`), is on the one gathering
  listener of the session: it is lost when another request takes the listener, or when the session closes. A
  description that fails leaves its new session open, and the client without a handle (`BuildFails`).
* The plugin deserializes every matcher and step of a list before it calls the server, which clears its rules and
  then makes and adds the new ones one by one from the same definitions (`SetRules`, `Added`).
* `close()` of a peer announces nothing of a session that the native side had closed before (`lost`), and a reset
  then removes the listeners (`Reset`).
* `reset()` of the server removes every listener, those of the plugin included, and drops the matching peer, and
  nothing puts either back (`Reset`).
* The set functions of the hooks run their own awaits before the native operation is queued, while the native
  connection runs operations in the order in which they were queued (`chain`).
* setLocalDescription without an argument makes an offer or an answer as the signalling state of the real connection
  says at that moment, whatever was called for (`SetLocalChosen`); one with a description that the hooks did not make
  selects and shows it before it throws (`SetLocalForeign`).
* A description is selected when its set call begins, and the attach message reads the selection when the
  control channel opens (`ControlOpens`).

## 4. Runs

The first eight must pass, the others are the disagreements of section 6. `CHECK_DEADLOCK FALSE` is said in each,
because the system may stop: every session over and nothing to deliver is a normal end, and the numbers of
connections, messages and calls are bounded.

| Run | Instance | Shows |
| --- | --- | --- |
| `session` | one session under the matching peer, a list for every kind of step, one external connection that may be attached and one for peer proxies | a handler that ended left its connection closed (`HandlerEndsClosed`), a live connection is in the list that `close()` goes through (`LiveAreTracked`), event histories (`SessionHistory`), no premature disconnection (`DisconnectIsReal`), `close()` reaches what is proxied as well (`CloseReachesAll`); the peer implements `SessionProtocol` (`KeepsProtocol`) and uses its connections as `RTCConnection` allows (`UsesConnections`) |
| `two_sessions` | two sessions, one external connection; symmetry of the sessions | an external connection is never held twice (`OneHolder`), what was let go is closed (`ReleasedIsClosed`), a closure takes the mirrored partner with it in the same step (`MirroredCloseTogether`), and the inductive invariant `IInv` |
| `peer_liveness` | an echo or a dynamic proxy | a claim ends (`ClaimsSettle`), a loss reaches the partner (`LossReachesPartner`), a session whose connection went away ends (`GoneSessionsEnd`) |
| `channels` | one channel of the client, one of the server, two messages on each, a read buffer of one, two handlers | nothing is lost or doubled between readers (`NothingLost`), messages are refused exactly while the buffer is full (`RefusesWhenFull`), the events tell what happened and what was received (`EventsTellAll`), an echo answers everything that was not dropped (`EchoAnswers`) |
| `descriptions` | one connection that is described three times, overlapping, while it is connected, lost or closed | what is delivered has every candidate (`DeliveredComplete`), set-up channels stay hidden (`SetupHidden`), the newest wait ends (`NewestWaitSettles`) |
| `media` | one medium on both connections, two packets, buffers of one, three handlers | packets are accounted for (`PacketsAccounted`), totals are announced (`StatsCatchUp`), a pipe drains when its sink opens (`PipesDrain`) |
| `server` | two sessions, the matching peer and one that may be built, two threads of client code, of which the second asks for descriptions of sessions that exist, a list of rules that can be used and one that cannot | no session outlives its peer (`OpenAreReachable`), events come once and in order (`HeardInOrder`), a reset is heard of (`ResetIsHeard`), the loop that sets the rules never fails half way (`RulesAreWhole`), requests are answered but for waits that are lost (`CallsSettle`) |
| `hooks` | six calls of an application: two negotiations, begun by either side | while the application has not strayed, its calls are never refused (`NativeNeverRefuses`), what is shown is what was negotiated (`CurrentFits`, `ShownFits`), the attach message names a negotiated description (`AttachNamesNegotiated`); however it calls, calls end (`CallsSettle`) |

Bounds, all named. The sets of connections are pools: an identifier is constructed once, so their size bounds
how many connections there are. One session is enough for what concerns a handler and its connection; two race
for an external connection. `ShortQueues` (run `two_sessions`) lets one state change at a time
wait for its callback, and `LateConnected` (run `session`) lets another one overtake the callback that tells a session
that it is connected; the proofs have neither bound. `two_sessions` mirrors pairs only, while `MirroredClose`
is proved for any graph of mirrored connections. `MaxMessages` and `MaxPackets` are what the remote sides send;
with buffers of one (`HighWater`), two are enough to fill a buffer, drop, and find it open again. The write side
of a channel is never full: MaxMessages is below its limit of 16. In `DataChannels` nothing follows an echo, and
in `MediaTracks` nothing follows an echo or a proxy, since the builder of a handler adds these only as its final
step (handler-builder.ts:181-227). `MaxCalls` is the descriptions of a connection (three: the one that makes it,
and two that overlap) and the calls of an application (six: two negotiations of three calls each, whichever side begins them). In `server` the
subscription is for 'peer-disconnected', the event that closures and resets emit. `MaxTravel` lets one request travel at
a time while others wait for descriptions: a server serves one request after the other, so requests that travel
together differ only in their order. `Uses` gives the second thread the one operation whose waits overlap, and leaves
createExternalOffer out, which differs from answerExternalOffer in what it describes. A session closes natively
(`NativeCloses`) only once it was announced or while a request waits for its description: before that nothing tells
the case from an ordinary closure. `MaxRules` is one, and rules
of a list fit or fail one by one; the proofs cover any lists, threads and traits.

Fairness. Node.js runs every continuation, and delivers every queued callback: weak fairness on those
actions, for each connection, channel or track. `Descriptions` also assumes that the library ends the gathering that it
began, `MockRTCServer` that requests are served and descriptions built, and `WebRTCHooks` that requests are
answered, with a result or a refusal, and native operations end. Nothing is assumed of clients or the network,
and nothing of steps that wait for them. In `MockRTCServer` `Serve` and `Reply` are fair, and `Reply` is possible only
for the request that holds the gathering listener of a session that is open: `CallsSettle` leaves out the requests whose
session is closed or natively gone, and those that a later request replaced. `BuildFails` is not fair.

## 5. Proofs

TLAPS checks these theorems for every value of the constants:

* `RTCConnection_proofs`, for every set of connections and queues of any length: `ConnTypeCorrect`,
  `ReleasedAreClosed`, `QueuesCatchUp`, `MirroredClose`.
* `MockRTCServerPeer_proofs`, also for any list of steps and both kinds of peer: `IInvHolds`, `TypeCorrect`,
  `PeerUsesConnections`, `HandlersEndClosed`, `ExternalsHaveOneHolder`, `SessionHistories`, `LiveOnesAreTracked`,
  `DisconnectsAreReal`.
* `SessionProtocol_proofs`, for the same peers: `PeerKeepsProtocol`, the refinement of the peer to
  `SessionProtocol`, and `ClosesReachAll`.
* `MockRTCServer_proofs`, for any finite set of sessions, and any peers, threads of clients and rules:
  `TypeCorrect`, `Reachable`, `ResetsAreHeard`, `HeardOnceInOrder`, `RulesStayWhole`.
* `Descriptions_proofs`, for any connections and number of calls: `TypeCorrect`, `DeliveredAreComplete`,
  `SetupsAreHidden`.
* `DataChannels_proofs`, for any channels, number of messages, buffer size and handlers: `IInvHolds`,
  `TypeCorrect`, `NothingIsLost`, `RefusesFull`, `EventsTell`.
* `MediaTracks_proofs`, for any media, number of packets, buffer size and handlers: `IInvHolds`, `TypeCorrect`,
  `PacketsAccount`.
* `WebRTCHooks_proofs`, for any number of calls: `IInvHolds`, `TypeCorrect`, `NativeNeverRefusing`, `CurrentFit`,
  `ShownFit`, `AttachNames`.

So every invariant and action property of the passing runs, and both refinements, are theorems.

Assumptions: `ConnsAssumption` and `PeerAssumption`, which say that the pools of mock, external and proxy
connections partition the connections and that lists of steps are lists of steps; `ServerAssumption`, which says
that the sessions are finitely many (a reset announces them in some order), that the matching peer is not a
built one, and that lists of rules are lists within the bound; `DescriptionsAssumption` and `HooksAssumption`, that
the bound is a number; `ChannelsAssumption` and `TracksAssumption`, that the channels of the two sides differ, that
buffers have room for something, and that only the last step of a handler echoes or proxies, which is what the
builder makes (thenEcho, thenForwardTo and thenPassThrough are final steps).

The argument. For connections, `ReleasedIsClosed` needs the type invariant and `NothingEarly` (what was not
constructed has no native state), and the cascade of a closure is treated as a set: everything in `CloseCalls`
is dropped and closed at once. The proof that a closure is mirrored looks at one step. It needs that
mirrored connections were constructed (`MirroredExist`, an invariant), and that `CloseCalls`, the least set
with the calls made and the partners of those who announce, is closed under such partners
(`CloseCallsClosed`). `QueueCatchesUp` (a queue of callbacks ends with the present native state) is proved and no
run's property.

For the peer, `IInv` adds to the connections' invariant what the place of a handler says (`HandlerShape`: a
step is under way, a proxy's connection is known), that an external or proxy connection is used by one
session (`OneUser`, which strengthens `OneHolder` by the connection that a peer proxy step has made and not
yet attached: without it, the step that attaches could attach somebody else's), that the listeners which are
still registered are those of events not announced yet (`ListenersFit`: without it nothing keeps a second
announcement from coming), that a queued report of a loss tells of a real one (`LossIsReal`, without which
`DisconnectIsReal` is not inductive), and that nothing is known of sessions which do not exist. TLC checks
`IInv` in `two_sessions`. `PeerUsesConnections` is the refinement of the peer to `RTCConnection`: every action is a
step of `ConnNext` or leaves the connections alone. It carries the invariants of the connections over to the
peer.

For the server, the type invariant says what requests carry (`CallTypes`), and that requests stay possible
since handles are never taken away (`RequestsGrow`). `OpenAreReachable` is inductive with it: only a look-up makes
a session, and only a reset takes peers away. `ResetsAreHeard` follows for one step: by `OpenAreReachable` the
peers that a reset goes through have all the announced sessions, and the order in which those that are not natively
closed are announced has each of them (`OrdersAreSequences`). `RulesStayWhole` follows from what the plugin tests:
whatever list the server gets, its loop can use every definition of it. `HeardInOrder` needs that nothing travels before the subscription
(`EarlyFeed`), and two facts about parts of sequences that grow (`PartsOfLonger`).

For the refinement to `SessionProtocol`, a step is looked at twice. `LogsExtend`: since the listeners that are left
fit what was announced (`ListenersFit`), each announcement is one that the protocol allows next. `OffersMove`: an
external connection is constructed as unassigned, leaves the unassigned ones for one session or for none, and
comes to a session only from there; with `OneUser` before and after the step, `Holder` is then a function of
where the connection is (`HoldersAre`), and it moves as the protocol says (`HoldersMove`). `CloseReachesAll` follows
for one step: the live session is in the list (`LiveAreTracked`), the set that its closure closes has it, and since
its closure is announced inside the call that set has its partner (`CloseCallsClosed`); the partner was constructed
because somebody uses it (`OneUser`).

For descriptions, `DeliveredComplete` needs that a queued callback tells of a gathering that is over
(`ToldComplete`) and that the listener is that of a call of the same connection (`ListenerFits`). `SetupHidden`
needs that the first description of a connection is delivered before anything else is asked of it
(`FirstDelivered`), since the client has no session to ask with: while a set-up channel of it is open the native
connection is not started, and nothing can be announced on it.

For data channels, the invariant speaks of one channel at a time (`ChannelFits`), and an action leaves all channels
alone but one. What was given to a stream is its messages up to the number of the last that is not queued any
more; what was read, what was written back and what is buffered are, in this order, those that were not dropped
(`GivenFits`). That holds at every change of readers because nothing flows without a reader (`Reads`), and because
nothing but our own messages is written before the echo begins (`Writes`): without the second fact a step that reads
after something was echoed would break the order. `RefusesWhenFull` is a part of the invariant (`Refuses`).
`EventsTellAll` follows from counts (`Told`): as many openings and closures as the stream had, and as many messages
as it sent; a stream that a failed write destroyed may have announced more. That what was received is announced in
order has an invariant of its own on top (`HeardFits`): what was heard are the last of the messages delivered.

For media, the invariant is about the streams of all tracks together, since a pipe ties two (`Fits`). `Balanced` says
that what a source passed on was sent or is corked in its sink; its last argument is a message on its way from one
to the other in the middle of a step. It needs that a sink has one source (`SinksFit`), and that nothing is
piped or sent before the last step (`Unpiped`), so that every pipe begins in balance.

For the hooks, the invariant has two parts (`Always`). `Base` holds however the application calls: it is the type invariant,
and `TypeCorrect` follows from it. The other part, `IInv`, holds while the application has not strayed, and the other
theorems are claimed only then. It follows the calls: their order is that of WebRTC's signalling states (`Legal`), none
overtakes another on the native connection (`ChainFits`, `InOrder`), and the native state, the selected, pending and
current descriptions are what the calls that are over have left (`NativeFits`, `SelectedFits`, `PendingFits`). An
operation at the head of the chain is then one that the native state allows. `Awaited` is what makes `mockOffer` safe:
every call after a remote offer whose mock offer is awaited is an answer that waits for it, so nothing replaces it.

Three definitions of the model have the form they have because of the proofs: what uncorking sends when
writes fail is any shorter part of what was corked, in order (`Parts` in `DataChannels`); the calls
that wait for a mock offer are counted off (`Waiting` in `WebRTCHooks`, which the proofs use through least elements, by
a theorem of WellFoundedInduction); the final steps are named (`Pipes` in
`MediaTracks`).

Only model-checked: the liveness properties, since the prover has no support for proofs from fairness
(`ClaimsSettle`, `LossReachesPartner`, `GoneSessionsEnd`, `EchoAnswers`, `NewestWaitSettles`, `StatsCatchUp`,
`PipesDrain`, and `CallsSettle` of the server and of the hooks). The four properties of section 6 are violated.

## 6. Where the code and what it says differ

| Run | What the source says | What happens |
| --- | --- | --- |
| `wait_after_close` | "Connection closed while/before waiting until connected" (rtc-connection.ts:368) | the closure is only tested before the wait; a connection closed during it leaves the wait pending for ever |
| `external_replaced` | "Cannot attach mock connection to multiple external connections" (mockrtc-connection.ts:48) | the test is before an await and the assignment after it: two attachments in flight are both accepted, the second replaces the first |
| `next_message` | "Wait until the remote client next sends a message to us on any DataChannel" (handler-builder.ts:65) | the first wait pauses every channel, and the listener of a second one does not resume them: on those channels it waits for ever |
| `subscribers_after_reset` | "Subscribe to events to monitor WebRTC interactions across all peers managed by this MockRTC session" (mockrtc.ts:221-222) | a reset removes the listeners that the plugin registered when it built its resolvers (mockrtc-server.ts:60, mockrtc-admin-plugin.ts:235): no subscriber hears of anything after it |

The violated property of `wait_after_close` is a liveness property, refuted under the fairness of section 4.

Smaller ones, without a run: after a silent `close()` the closed connection stays in what mockrtc-server-peer.ts:33
calls "all currently open connections"; a proxy step that begins to listen after its closure was announced does
not end, though handler-step-impls.ts:220 says "until the connection closes"; the attach message may name a
description of a renegotiation that was begun, and not completed, before the control channel opened; an application that
begins a negotiation before the last one is over, or lets setLocalDescription choose while another description is being
set, gets descriptions of one negotiation mixed with those of the other, and its real connection may refuse them
(`NativeNeverRefuses` and `CurrentFits` are false without `~strayed`); a session whose candidates are read too late is
never announced; a request for a description waits for ever when its session closes or another request replaces its
listener.

## 7. Not modelled

* The text of descriptions: rewriting of SDP, certificates, candidates, mids. The check at rtc-connection.ts:273
  of the mids of a mirrored description is an outcome (`MirrorAnswer` and `MirrorOffer` may fail).
* The mirrored channels of a proxied session: reduced to whether setting them up throws. This is the hazard at
  mockrtc-connection.ts:148, which no property covers. Nor does any cover rtc-connection.ts:112, where a failed
  connection is not announced, since nothing in the source says that it should be.
* The opened and closed events of media tracks, and the totals of the last second before a closure, which are
  never announced. Recorded messages (`getSeenMessages`, `getAllMessages`), which are only read.
* In the hooks: rollbacks and provisional answers. What the hooked events do is left to the browser.
* Tracks that the remote side of an external connection adds by itself: those of an external connection are the ones
  that mirroring made. A connection that moves on natively before its 'connected' callback has run is in
  `MockRTCServerPeer`, and not in `MockRTCServer`, where a session connects and is announced in one step.
* Peers used in the process of the server, without the admin plugin. There, setAnswer of a local session does not
  wait for completeOffer (mockrtc-server-peer.ts:228-231); in `MockRTCServer` a call is over when it has been served.
* Backpressure of the writing side of a stream that is open, ending it, and allowHalfOpen.
* Builders, entry points and type declarations: sequential, or no code at all.

## 8. Plan

1. Done: `RTCConnection`, `MockRTCServerPeer`, `SessionProtocol` and `DataChannels`, with the proofs of the first two.
2. Done: `MockRTCServer` with the admin plugin and remote clients, and its proofs; `Descriptions`; `WebRTCHooks`;
   `MediaTracks`.
3. Done: the theorems of `Descriptions`, `DataChannels`, `MediaTracks` and `WebRTCHooks`; `CloseReachesAll` and the
   refinement `KeepsProtocol`.
4. Next, an abstract specification of a data channel as its readers see it, a queue that may refuse what comes while
   it is full, and `DataChannels` shown to implement it.
5. Proxied channels: two streams piped into each other across a mirrored pair of connections, on the stream
   operators of `DataChannels`.
