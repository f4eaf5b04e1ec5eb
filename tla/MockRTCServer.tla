--------------------------- MODULE MockRTCServer ---------------------------
(***************************************************************************)
(* A MockRTC session driven by remote clients: the MockRTCServer that owns *)
(* the peers and the rules, the admin plugin that serves requests on it    *)
(* and publishes its events, and the client's MockRTCRemotePeer handles.   *)
(*                                                                         *)
(* A client call is a request that travels, is served in one run of        *)
(* JavaScript, and then may wait for the description of a session, while   *)
(* other requests are served and the session may be reset.  What happens   *)
(* inside a peer is MockRTCServerPeer, and inside a description            *)
(* Descriptions; here a session is open, connected or closed.  A peer is   *)
(* named by its id, and a rule has one step, named by its type.            *)
(***************************************************************************)
EXTENDS Naturals, SequencesExt

CONSTANTS
    Sessions,    \* the connections that may be made
    Built,       \* the ids of peers that may be built
    Callers,     \* the threads of client code; each has one call under way
    RuleLists,   \* the rule lists that clients send
    TraitSets,   \* what the matchers can tell of a connection
    MaxRules,    \* bound: the rules that addRTCRule may grow the list to
    MaxTravel,   \* bound: the requests that travel at the same time
    Uses,        \* bound: Uses[k]: the operations that caller k calls
    Subscribed,  \* the type of event that the subscription is for; others have their own
    None

VARIABLES
    active,      \* the ids in _activePeers
    rules,       \* this.rules
    sess,        \* the sessions
    lost,        \* sessions natively closed, the callback that tells of it not yet run
    listener,    \* listener[s]: the caller whose wait the gathering listener of s ends, or None
    call,        \* call[k]: the request of caller k, None if it has none
    known,       \* peer ids that clients have
    held,        \* sessions that clients have a MockRTCSession for
    forwarding,  \* are the plugin's listeners registered on the server
    emitted,     \* the sessions that events of the Subscribed type told of
    from,        \* how many of them before the client subscribed, or None
    queue,       \* published to the subscription, not yet received
    heard        \* received by the client's callback

serverVars == <<active, rules, sess, known, held, forwarding, emitted>>
nativeVars == <<lost, listener>>
feedVars == <<from, queue, heard>>
vars == <<serverVars, nativeVars, call, feedVars>>

MatchingPeer == "matching-peer"
Peers == Built \cup {MatchingPeer}
EventTypes == {"peer-connected", "peer-disconnected"}

MatcherLookup == {"has-rtc-data-channel", "has-rtc-video-track", "has-rtc-audio-track",
                  "has-rtc-media-track", "rtc-page-hostname", "rtc-page-regex",
                  "rtc-user-agent-regex"}

StepLookup == {"wait-for-duration", "wait-for-rtc-data-channel", "wait-for-rtc-track",
               "wait-for-rtc-media", "wait-for-rtc-message", "create-rtc-data-channel",
               "send-rtc-data-message", "close-rtc-connection", "echo-rtc",
               "rtc-peer-proxy", "rtc-dynamic-proxy"}

Rules == UNION {{list[i] : i \in DOMAIN list} : list \in RuleLists}
Steps == {rule.steps : rule \in Rules}

\* A rule can be made of its definition if the types of its matchers and its step are known.
Usable(rule) == rule.matchers \subseteq MatcherLookup /\ rule.steps \in StepLookup

\* Faulty variant: the plugin passes the steps of a rule on as they came.
DeserializableMatchers(list) == \A i \in DOMAIN list : list[i].matchers \subseteq MatcherLookup

\* The plugin deserializes all the matchers and steps of a request before it calls the server.
Deserializable(list) == \A i \in DOMAIN list : Usable(list[i])

\* What the server's loop adds: a definition that it cannot use fails, and the others are added.
Added(list) == IF \A i \in DOMAIN list : Usable(list[i]) THEN list ELSE SelectSeq(list, Usable)

ASSUME ServerAssumption ==
    /\ IsFiniteSet(Sessions)
    /\ MatchingPeer \notin Built /\ MaxRules \in Nat /\ Subscribed \in EventTypes
    /\ \A list \in RuleLists : list \in Seq(Rules) /\ Len(list) <= MaxRules
    /\ \A t \in TraitSets : t.media \subseteq {"application", "video", "audio"}

\* Matchers read the traits of a mock connection, once, when it connects.
Unmade == [state |-> "none", peer |-> None, mock |-> FALSE, traits |-> None, steps |-> None]
Ended == [Unmade EXCEPT !.state = "closed"]

IsOpen(s) == sess[s].state \in {"open", "answered", "connected"}

\* After start() of the plugin, which starts a new server, and buildResolvers().
Init ==
    /\ active = {MatchingPeer} /\ known = {MatchingPeer}
    /\ rules = <<>>
    /\ sess = [s \in Sessions |-> Unmade]
    /\ call = [k \in Callers |-> None]
    /\ held = {} /\ lost = {}
    /\ listener = [s \in Sessions |-> None]
    /\ forwarding = TRUE
    /\ emitted = <<>> /\ queue = <<>> /\ heard = <<>>
    /\ from = None

-----------------------------------------------------------------------------
(* Matching.                                                               *)

\* A page that is unknown, or whose URL cannot be parsed, matches nothing.
Matches(matcher, t) ==
    CASE matcher = "has-rtc-data-channel" -> "application" \in t.media
      [] matcher = "has-rtc-video-track"  -> "video" \in t.media
      [] matcher = "has-rtc-audio-track"  -> "audio" \in t.media
      [] matcher = "has-rtc-media-track"  -> t.media \cap {"video", "audio"} # {}
      [] matcher \in {"rtc-page-hostname", "rtc-page-regex"} -> t.page = "listed"
      [] matcher = "rtc-user-agent-regex" -> t.agent = "listed"

Fits(rule, t) == \A matcher \in rule.matchers : Matches(matcher, t)

\* The steps of the first rule that fits, or else a dynamic proxy.
StepsFor(list, t) ==
    IF \E i \in DOMAIN list : Fits(list[i], t)
    THEN list[CHOOSE i \in DOMAIN list :
                 Fits(list[i], t) /\ \A j \in 1 .. i - 1 : ~Fits(list[j], t)].steps
    ELSE "rtc-dynamic-proxy"

-----------------------------------------------------------------------------
(* Events: eventEmitter, the plugin's listeners, pubsub and subscription.  *)

\* Faulty variant: the plugin has registered its listeners twice.
EmitTwice(t, new) ==
    IF t = Subscribed
    THEN /\ emitted' = emitted \o new
         /\ queue' = IF forwarding /\ from # None THEN queue \o new \o new ELSE queue
    ELSE UNCHANGED <<emitted, queue>>

\* Events of type t about the sessions in `new', in this order.
Emit(t, new) ==
    IF t = Subscribed
    THEN /\ emitted' = emitted \o new
         /\ queue' = IF forwarding /\ from # None THEN queue \o new ELSE queue
    ELSE UNCHANGED <<emitted, queue>>

Subscribe ==
    /\ from = None
    /\ from' = Len(emitted)
    /\ UNCHANGED <<serverVars, nativeVars, call, queue, heard>>

Receive ==
    /\ queue # <<>>
    /\ heard' = Append(heard, Head(queue))
    /\ queue' = Tail(queue)
    /\ UNCHANGED <<serverVars, nativeVars, call, from>>

-----------------------------------------------------------------------------
(* Requests.                                                               *)

Mocked == {"createOffer", "answerOffer"}
External == {"createExternalOffer", "answerExternalOffer"}
Answers == {"answerOffer", "answerExternalOffer"}

\* What a client can ask for: through the MockRTCClient, through the MockRTCRemotePeers that it
\* was given, and through the RemoteSessionApi of each session.
SetupRequests ==
    [op : {"createPeer"}, steps : Steps] \cup [op : {"setRTCRules"}, rules : RuleLists]
        \cup [op : {"addRTCRule"}, rules : {list \in RuleLists : Len(list) = 1}]
PeerRequests ==
    [op : Mocked, peer : known, traits : TraitSets] \cup [op : External, peer : known, traits : {None}]
SessionRequests == [op : {"describe", "completeOffer"}, session : held, traits : TraitSets]
Requests == SetupRequests \cup PeerRequests \cup SessionRequests

Asks(k, ops) == call[k] # None /\ call[k].op \in ops

\* Bounds: calls are not made that would need more peers or sessions than there are.
Fewer(ops, S) == Cardinality({k \in Callers : Asks(k, ops)}) < Cardinality(S)

Send(k, r) ==
    /\ call[k] = None /\ r.op \in Uses[k]
    /\ Cardinality({j \in Callers : call[j] # None /\ ~Asks(j, {"build"})}) < MaxTravel
    /\ r.op = "createPeer" => Fewer({r.op}, Built \ known)
    /\ r.op \in Mocked \cup External =>
          Fewer(Mocked \cup External, {s \in Sessions : sess[s].state = "none"})
    /\ call' = [call EXCEPT ![k] = r]
    /\ UNCHANGED <<serverVars, nativeVars, feedVars>>

\* The caller has its answer, which may be an error.
Settles(k) == call' = [call EXCEPT ![k] = None]

\* A step of an unknown type cannot be deserialized: no peer is built.
CreatePeer(k) ==
    /\ Asks(k, {"createPeer"})
    /\ IF call[k].steps \in StepLookup
       THEN \E p \in Built \ known : active' = active \cup {p} /\ known' = known \cup {p}
       ELSE UNCHANGED <<active, known>>
    /\ Settles(k)
    /\ UNCHANGED <<rules, sess, held, forwarding, emitted, nativeVars, feedVars>>

\* Faulty variant: the rules are not cleared.
SetRulesAppending(k) ==
    /\ Asks(k, {"setRTCRules"})
    /\ rules' = IF Deserializable(call[k].rules) THEN rules \o Added(call[k].rules) ELSE rules
    /\ Settles(k)
    /\ UNCHANGED <<active, sess, known, held, forwarding, emitted, nativeVars, feedVars>>

\* The rules are cleared, and then the new ones made and added one by one.
SetRules(k) ==
    /\ Asks(k, {"setRTCRules"})
    /\ rules' = IF Deserializable(call[k].rules) THEN Added(call[k].rules) ELSE rules
    /\ Settles(k)
    /\ UNCHANGED <<active, sess, known, held, forwarding, emitted, nativeVars, feedVars>>

Accepts(k) == Deserializable(call[k].rules) /\ Len(rules) < MaxRules

AddRule(k) ==
    /\ Asks(k, {"addRTCRule"})
    /\ rules' = IF Accepts(k) THEN rules \o Added(call[k].rules) ELSE rules
    /\ Settles(k)
    /\ UNCHANGED <<active, sess, known, held, forwarding, emitted, nativeVars, feedVars>>

\* Faulty variant: a request for an unknown peer waits for it.
RefuseLater(k) ==
    /\ Asks(k, Mocked \cup External)
    /\ call[k].peer \notin active
    /\ UNCHANGED vars

\* "Id matches no active peer".
Refuse(k) ==
    /\ Asks(k, Mocked \cup External)
    /\ call[k].peer \notin active
    /\ Settles(k)
    /\ UNCHANGED <<serverVars, nativeVars, feedVars>>

\* The description of s is asked for.  It may fail; a mirrored answer is read at once; anything
\* else replaces the gathering listener of s, and waits for gathering unless it is over.
Describe(k, s, answers) ==
    \/ Settles(k) /\ UNCHANGED <<held, listener>>
    \/ answers /\ Settles(k) /\ held' = held \cup {s} /\ UNCHANGED listener
    \/ Settles(k) /\ held' = held \cup {s} /\ listener' = [listener EXCEPT ![s] = None]
    \/ /\ call' = [call EXCEPT ![k] = [op |-> "build", session |-> s]]
       /\ listener' = [listener EXCEPT ![s] = k]
       /\ UNCHANGED held

\* What a request makes of a session that was not there before.
New(r) == [state |-> IF r.op \in Answers THEN "answered" ELSE "open", peer |-> r.peer,
           traits |-> r.traits, mock |-> r.op \in Mocked, steps |-> None]

\* Faulty variant: the peer is looked up in a run of its own, before the one that uses it.
CreateSessionLate(k) ==
    /\ Asks(k, Mocked \cup External)
    /\ \E s \in Sessions :
          /\ sess[s].state = "none"
          /\ sess' = [sess EXCEPT ![s] = New(call[k])]
          /\ Describe(k, s, call[k].op \in Answers)
    /\ UNCHANGED <<active, rules, known, forwarding, emitted, lost, feedVars>>

\* The peer is looked up, makes the connection and asks for its description in one run.  If
\* that fails the connection stays, and no client has a session for it.
CreateSession(k) ==
    /\ Asks(k, Mocked \cup External)
    /\ call[k].peer \in active
    /\ \E s \in Sessions :
          /\ sess[s].state = "none"
          /\ sess' = [sess EXCEPT ![s] = New(call[k])]
          /\ Describe(k, s, call[k].op \in Answers)
    /\ UNCHANGED <<active, rules, known, forwarding, emitted, lost, feedVars>>

\* createOffer, answerOffer and completeOffer of a session.  The peer and the session are
\* looked up, and either may be gone.  The metadata and the descriptions of the call may
\* change what matchers see, also if the library then refuses the description.
CallSession(k) ==
    /\ Asks(k, {"describe", "completeOffer"})
    /\ LET s == call[k].session
           completes == call[k].op = "completeOffer"
       IN
       \/ Settles(k) /\ UNCHANGED <<sess, held, listener>>
       \/ /\ sess[s].peer \in active /\ IsOpen(s)
          /\ IF completes
             THEN Settles(k) /\ UNCHANGED <<held, listener>>
             ELSE Describe(k, s, TRUE)
          /\ sess' = [sess EXCEPT
                ![s].state = IF @ = "open" /\ completes THEN "answered" ELSE @,
                ![s].traits = IF @ = None THEN None ELSE call[k].traits]
    /\ UNCHANGED <<active, rules, known, forwarding, emitted, lost, feedVars>>

\* The native side has gathered, and the reply gives the client the session, except that a
\* mirrored offer may fail.
Reply(k) ==
    /\ Asks(k, {"build"})
    /\ LET s == call[k].session IN
          /\ listener[s] = k /\ IsOpen(s) /\ s \notin lost
          /\ listener' = [listener EXCEPT ![s] = None]
          /\ held' = held \cup {s} \/ UNCHANGED held
    /\ Settles(k)
    /\ UNCHANGED <<active, rules, sess, known, forwarding, emitted, lost, feedVars>>

\* The connection was closed before the wait was over, which the native side may never tell.
BuildFails(k) ==
    /\ Asks(k, {"build"})
    /\ LET s == call[k].session IN
          /\ listener[s] = k /\ ~IsOpen(s)
          /\ listener' = [listener EXCEPT ![s] = None]
    /\ Settles(k)
    /\ UNCHANGED <<serverVars, lost, feedVars>>

-----------------------------------------------------------------------------
(* Sessions.                                                               *)

\* A built peer has its own steps, and an external connection none.
StepsOf(session) ==
    IF ~session.mock THEN None
    ELSE IF session.peer = MatchingPeer THEN StepsFor(rules, session.traits) ELSE "built"

\* A session that both sides have described connects; a mock one is announced and gets its steps.
Connect(s) ==
    /\ sess[s].state = "answered" /\ s \in held /\ s \notin lost
    /\ IF sess[s].mock THEN Emit("peer-connected", <<s>>) ELSE UNCHANGED <<emitted, queue>>
    /\ sess' = [sess EXCEPT ![s].state = "connected",
                            ![s].traits = None,
                            ![s].steps = StepsOf(sess[s])]
    /\ UNCHANGED <<active, rules, known, held, forwarding, nativeVars, call, from, heard>>

Announced(s) == sess[s].state = "connected" /\ sess[s].mock

\* The native side closes a connection, and queues the callback that tells of it.  Bound: of a
\* session that was not announced and that no call waits for, this shows only when it is closed.
NativeCloses(s) ==
    /\ Announced(s) \/ (IsOpen(s) /\ listener[s] # None)
    /\ lost' = lost \cup {s}
    /\ UNCHANGED <<serverVars, listener, call, feedVars>>

\* A session ends: by the callback, by its handler or its remote side, or because the
\* connection it is mirrored to has ended.  close() says nothing of a connection that is
\* natively closed, and the callback that would is then ignored.
Close(s) ==
    /\ IsOpen(s)
    /\ \/ Announced(s) /\ Emit("peer-disconnected", <<s>>)
       \/ ~Announced(s) /\ UNCHANGED <<emitted, queue>>
       \/ s \in lost /\ UNCHANGED <<emitted, queue>>
    /\ sess' = [sess EXCEPT ![s] = Ended]
    /\ lost' = lost \ {s}
    /\ UNCHANGED <<active, rules, known, held, forwarding, listener, call, from, heard>>

\* What a reset ends: the sessions of the active peers.
Ending == {s \in Sessions : IsOpen(s) /\ sess[s].peer \in active}

\* Faulty variant: the listeners are removed before the peers are closed.
ResetListenersFirst ==
    /\ active # {} \/ rules # <<>> \/ forwarding
    /\ sess' = [s \in Sessions |-> IF s \in Ending THEN Ended ELSE sess[s]]
    /\ lost' = lost \ Ending
    /\ active' = {} /\ rules' = <<>> /\ forwarding' = FALSE
    /\ UNCHANGED <<emitted, queue, known, held, listener, call, from, heard>>

\* reset() of the server, which the plugin calls for reset and stop: the active peers close
\* their sessions, which announce it as close() does, and then everything is forgotten, the
\* plugin's own listeners included.  Nothing puts the matching peer or the listeners back.
\* Closing waits for nothing but the end of the peers' close(), in one turn of the event loop.
Reset ==
    /\ active # {} \/ rules # <<>> \/ forwarding
    /\ \E told \in SetToSeqs({s \in Ending : Announced(s) /\ s \notin lost}) :
          Emit("peer-disconnected", told)
    /\ sess' = [s \in Sessions |-> IF s \in Ending THEN Ended ELSE sess[s]]
    /\ lost' = lost \ Ending
    /\ active' = {} /\ rules' = <<>> /\ forwarding' = FALSE
    /\ UNCHANGED <<known, held, listener, call, from, heard>>

-----------------------------------------------------------------------------
Serve(k) ==
    \/ CreatePeer(k) \/ SetRules(k) \/ AddRule(k)
    \/ Refuse(k) \/ CreateSession(k) \/ CallSession(k)

Next ==
    \/ \E k \in Callers :
          \/ \E r \in Requests : Send(k, r)
          \/ Serve(k) \/ Reply(k) \/ BuildFails(k)
    \/ \E s \in Sessions : Connect(s) \/ NativeCloses(s) \/ Close(s)
    \/ Subscribe \/ Receive
    \/ Reset

\* Requests are served, and connections gather.  BuildFails is not assumed: a connection that
\* is closed may never tell that it has gathered.
Fairness == \A k \in Callers : WF_vars(Serve(k)) /\ WF_vars(Reply(k))

Spec == Init /\ [][Next]_vars

FairSpec == Spec /\ Fairness

-----------------------------------------------------------------------------
(* Properties.                                                             *)

TypeOK ==
    /\ active \subseteq known /\ known \subseteq Peers
    /\ rules \in Seq(Rules) /\ Len(rules) <= MaxRules
    /\ sess \in [Sessions -> {Unmade, Ended} \cup
                    [state : {"open", "answered", "connected"}, peer : known,
                     mock : BOOLEAN, traits : TraitSets \cup {None},
                     steps : {None, "built", "rtc-dynamic-proxy"} \cup Steps]]
    /\ call \in [Callers -> {None} \cup Requests \cup [op : {"build"}, session : Sessions]]
    /\ held \subseteq {s \in Sessions : sess[s].state # "none"}
    /\ lost \subseteq {s \in Sessions : IsOpen(s)}
    /\ listener \in [Sessions -> Callers \cup {None}]
    /\ forwarding \in BOOLEAN
    /\ emitted \in Seq(Sessions) /\ queue \in Seq(Sessions) /\ heard \in Seq(Sessions)
    /\ from = None \/ from \in 0 .. Len(emitted)

\* Nothing outlives its peer: while requests and resets interleave, no session that is open
\* belongs to a peer that the server has forgotten, which no later reset would close.
OpenAreReachable == \A s \in Sessions : IsOpen(s) => sess[s].peer \in active

\* A subscriber hears every event from its subscription to the next reset, in order, once.
HeardInOrder ==
    from # None =>
        \E last \in from .. Len(emitted) :
            /\ heard \o queue = SubSeq(emitted, from + 1, last)
            /\ forwarding => last = Len(emitted)

\* A subscriber is told of the end of every session that a reset ends, unless the native side
\* had closed the session before and its callback was still to come: close() says nothing
\* then, and the callback comes too late.
ResetIsHeard ==
    [][Reset /\ forwarding /\ from # None /\ Subscribed = "peer-disconnected" =>
         \A s \in Sessions : Announced(s) /\ s \notin lost => \E i \in DOMAIN queue' : queue'[i] = s]_vars

\* Setting the rules is all or nothing, although the server clears them and then makes the new
\* ones one by one, each of which may fail: no connection is matched against a part of a list,
\* or against nothing because a list was refused.
RulesAreWhole ==
    [][\A k \in Callers : Asks(k, {"setRTCRules"}) /\ call'[k] = None
         => rules' = rules \/ rules' = call[k].rules]_vars

\* A request is answered in the end, whatever it names, unless it waits for the description of
\* a session that is closed meanwhile, or whose gathering listener a later request replaced.
CallsSettle ==
    \A k \in Callers :
        LET s == call[k].session IN
        call[k] # None ~> call[k] = None \/ (Asks(k, {"build"}) /\ (~IsOpen(s) \/ s \in lost \/ listener[s] # k))

-----------------------------------------------------------------------------
(* What the source says and the code does not do.                          *)

\* "Subscribe to events to monitor WebRTC interactions across all peers managed by this
\* MockRTC session".
SubscribersHearAll ==
    from # None => heard \o queue = SubSeq(emitted, from + 1, Len(emitted))
=============================================================================
