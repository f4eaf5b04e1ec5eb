----------------------- MODULE MockRTCServer_proofs -----------------------
(***************************************************************************)
(* Proofs about MockRTCServer, for any sessions, peers, clients, rules and *)
(* connections.                                                            *)
(***************************************************************************)
EXTENDS MockRTCServer, SequenceTheorems, FiniteSetTheorems, TLAPS

(* What the matching peer makes of a connection.                           *)

\* Whatever the rules, a connection gets the steps of one of them, or a dynamic proxy.
LEMMA StepsForType ==
    ASSUME NEW list \in Seq(Rules), NEW t
    PROVE  StepsFor(list, t) \in {"rtc-dynamic-proxy"} \cup Steps
<1>1. ASSUME NEW n \in Nat, n \in DOMAIN list, Fits(list[n], t)
      PROVE  \E i \in DOMAIN list : Fits(list[i], t) /\ \A j \in 1 .. i - 1 : ~Fits(list[j], t)
    <2> DEFINE S == {i \in DOMAIN list : Fits(list[i], t)}
    <2>1. S \subseteq Nat /\ S # {}
        BY <1>1
    <2>2. PICK i \in S : \A j \in S : i <= j
        <3> DEFINE R == {ss \in Nat \X Nat : ss[1] < ss[2]}
        <3>1. IsWellFoundedOn(R, Nat)
            BY NatLessThanWellFounded DEF OpToRel
        <3>2. \E i \in S : \A j \in S : ~(<<j, i>> \in R)
            <4> HIDE DEF R, S
            <4> QED BY <2>1, <3>1, WFMin
        <3>3. PICK i \in S : \A j \in S : ~(<<j, i>> \in R)
            BY <3>2
        <3>4. ASSUME NEW j \in S PROVE i <= j
            <4>1. i \in Nat /\ j \in Nat
                BY <2>1
            <4>2. ~(j < i)
                BY <3>3, <4>1
            <4>3. QED
                BY <4>1, <4>2
        <3>5. QED
            BY <3>4
    <2>3. \A j \in 1 .. i - 1 : ~Fits(list[j], t)
        BY <2>1, <2>2
    <2>4. QED
        BY <2>2, <2>3
<1>2. CASE \E i \in DOMAIN list : Fits(list[i], t)
    <2>1. PICK n \in DOMAIN list : Fits(list[n], t)
        BY <1>2
    <2>2. \E i \in DOMAIN list : Fits(list[i], t) /\ \A j \in 1 .. i - 1 : ~Fits(list[j], t)
        BY <1>1, <2>1
    <2> DEFINE first == CHOOSE i \in DOMAIN list :
                            Fits(list[i], t) /\ \A j \in 1 .. i - 1 : ~Fits(list[j], t)
    <2>3. first \in DOMAIN list
        BY <2>2
    <2>4. list[first] \in Rules
        BY <2>3
    <2>5. StepsFor(list, t) = list[first].steps
        BY <1>2 DEF StepsFor
    <2>6. QED
        BY <2>4, <2>5 DEF Steps
<1>3. CASE ~\E i \in DOMAIN list : Fits(list[i], t)
    BY <1>3 DEF StepsFor
<1>4. QED
    BY <1>2, <1>3

-----------------------------------------------------------------------------
(* Calls: what the kinds of calls carry.                                   *)

LEMMA CallTypes ==
    ASSUME TypeOK, NEW k \in Callers
    PROVE  /\ Asks(k, {"setRTCRules", "addRTCRule"}) => call[k].rules \in RuleLists
           /\ Asks(k, {"addRTCRule"}) => Len(call[k].rules) = 1
           /\ Asks(k, Mocked \cup External) =>
                 call[k].peer \in known /\ call[k].traits \in TraitSets \cup {None}
           /\ Asks(k, {"describe", "completeOffer"}) =>
                 call[k].session \in Sessions /\ call[k].traits \in TraitSets
           /\ Asks(k, {"build"}) => call[k].session \in Sessions
BY DEF TypeOK, Asks, Requests, SetupRequests, PeerRequests, SessionRequests, Mocked, External

\* Handles are never taken away from a client, so that what it may ask for stays.
LEMMA RequestsGrow ==
    ASSUME known \subseteq known', held \subseteq held'
    PROVE  Requests \subseteq Requests'
BY DEF Requests, SetupRequests, PeerRequests, SessionRequests

\* The length of two sequences joined.
LEMMA JoinTypes ==
    ASSUME NEW S, NEW a \in Seq(S), NEW b \in Seq(S)
    PROVE  a \o b \in Seq(S) /\ Len(a \o b) = Len(a) + Len(b)
BY ConcatProperties

-----------------------------------------------------------------------------
(* The type invariant.                                                     *)

\* The types that sessions have.
LEMMA SessTypes ==
    ASSUME TypeOK, NEW s \in Sessions, IsOpen(s)
    PROVE  sess[s] \in [state : {"open", "answered", "connected"}, peer : known,
                        mock : BOOLEAN, traits : TraitSets \cup {None},
                        steps : {None, "built", "rtc-dynamic-proxy"} \cup Steps]
BY DEF TypeOK, IsOpen, Unmade, Ended

\* The steps of any session.
LEMMA StepsOfType ==
    ASSUME TypeOK, NEW session
    PROVE  StepsOf(session) \in {None, "built", "rtc-dynamic-proxy"} \cup Steps
BY StepsForType DEF TypeOK, StepsOf

\* What is announced is a sequence of sessions.
LEMMA EmitTypes ==
    ASSUME TypeOK, NEW t, NEW new \in Seq(Sessions), Emit(t, new)
    PROVE  /\ emitted' \in Seq(Sessions) /\ queue' \in Seq(Sessions)
           /\ Len(emitted) <= Len(emitted')
<1>1. /\ emitted \in Seq(Sessions) /\ queue \in Seq(Sessions)
      /\ emitted \o new \in Seq(Sessions) /\ queue \o new \in Seq(Sessions)
      /\ Len(emitted \o new) = Len(emitted) + Len(new)
      /\ Len(emitted) \in Nat /\ Len(new) \in Nat
    BY ConcatProperties, LenProperties DEF TypeOK
<1>2. /\ emitted' = emitted \/ emitted' = emitted \o new
      /\ queue' = queue \/ queue' = queue \o new
    BY DEF Emit
<1>3. emitted' \in Seq(Sessions) /\ queue' \in Seq(Sessions)
    BY <1>1, <1>2
<1>4. Len(emitted) <= Len(emitted')
    <2>1. CASE emitted' = emitted
        BY <1>1, <2>1
    <2>2. CASE emitted' = emitted \o new
        BY <1>1, <2>2
    <2>3. QED
        BY <1>2, <2>1, <2>2
<1>5. QED
    BY <1>3, <1>4

\* The sessions of a reset, in some order, are a sequence without doubles that has them all.
LEMMA OrdersAreSequences ==
    ASSUME NEW S \in SUBSET Sessions, NEW told \in SetToSeqs(S)
    PROVE  told \in Seq(Sessions) /\ \A s \in S : \E i \in DOMAIN told : told[i] = s
<1>1. IsFiniteSet(S) /\ Cardinality(S) \in Nat
    BY ServerAssumption, FS_Subset, FS_CardinalityType
<1>2. told \in [1 .. Cardinality(S) -> S]
    BY DEF SetToSeqs
<1>3. told \in Injection(1 .. Cardinality(S), S)
    BY <1>2 DEF SetToSeqs, Injection, IsInjective
<1>4. IsFiniteSet(1 .. Cardinality(S)) /\ Cardinality(1 .. Cardinality(S)) = Cardinality(S)
    BY <1>1, FS_Interval
<1>5. told \in Surjection(1 .. Cardinality(S), S)
    BY <1>1, <1>3, <1>4, FS_Injection
<1>6. QED
    BY <1>1, <1>2, <1>5 DEF Surjection

\* One event, or none.
LEMMA AnnouncedTypes ==
    ASSUME TypeOK, NEW s \in Sessions, NEW t, Emit(t, <<s>>) \/ UNCHANGED <<emitted, queue>>
    PROVE  /\ emitted' \in Seq(Sessions) /\ queue' \in Seq(Sessions)
           /\ Len(emitted) <= Len(emitted')
<1>1. CASE Emit(t, <<s>>)
    <2>1. <<s>> \in Seq(Sessions)
        OBVIOUS
    <2>2. QED
        BY <1>1, <2>1, EmitTypes
<1>2. CASE UNCHANGED <<emitted, queue>>
    BY <1>2, LenProperties DEF TypeOK
<1>3. QED
    BY <1>1, <1>2

\* What a session may be, given the peers that clients know.
SessionTypes ==
    {Unmade, Ended} \cup
        [state : {"open", "answered", "connected"}, peer : known,
         mock : BOOLEAN, traits : TraitSets \cup {None},
         steps : {None, "built", "rtc-dynamic-proxy"} \cup Steps]

\* The parts of the type invariant that most steps keep as they are.
LEMMA KeepsCalls ==
    ASSUME TypeOK, known \subseteq known', held \subseteq held', NEW k,
           call' = call \/ call' = [call EXCEPT ![k] = None]
    PROVE  (call \in [Callers -> {None} \cup Requests \cup [op : {"build"}, session : Sessions]])'
<1>1. Requests \subseteq Requests'
    BY RequestsGrow
<1>2. call \in [Callers -> {None} \cup Requests' \cup [op : {"build"}, session : Sessions]]
    BY <1>1 DEF TypeOK
<1>3. QED
    BY <1>2

\* Sessions that are all set to one value keep their types, as the others do.
LEMMA KeepsSessions ==
    ASSUME TypeOK, known \subseteq known', NEW t,
           sess' = sess
             \/ \E S \in SUBSET Sessions : sess' = [s \in Sessions |-> IF s \in S THEN t ELSE sess[s]],
           t \in SessionTypes', t.state # "none"
    PROVE  /\ sess' \in [Sessions -> SessionTypes']
           /\ held \subseteq {s \in Sessions : sess'[s].state # "none"}
<1>1. SessionTypes \subseteq SessionTypes'
    BY DEF SessionTypes
<1>2. sess \in [Sessions -> SessionTypes] /\ held \subseteq {s \in Sessions : sess[s].state # "none"}
    BY DEF TypeOK, SessionTypes
<1>3. CASE sess' = sess
    BY <1>1, <1>2, <1>3
<1>4. CASE sess' # sess
    <2>1. PICK S \in SUBSET Sessions : sess' = [s \in Sessions |-> IF s \in S THEN t ELSE sess[s]]
        BY <1>4
    <2>2. \A s \in Sessions : sess'[s] \in SessionTypes'
        BY <1>1, <1>2, <2>1
    <2>3. \A s \in Sessions : sess[s].state # "none" => sess'[s].state # "none"
        BY <2>1
    <2>4. QED
        BY <1>2, <2>1, <2>2, <2>3
<1>5. QED
    BY <1>3, <1>4

\* The types of all but the native side, which RequestTypes to FeedTypes are about.
ServerTypes ==
    /\ active \subseteq known /\ known \subseteq Peers
    /\ rules \in Seq(Rules) /\ Len(rules) <= MaxRules
    /\ sess \in [Sessions -> SessionTypes]
    /\ call \in [Callers -> {None} \cup Requests \cup [op : {"build"}, session : Sessions]]
    /\ held \subseteq {s \in Sessions : sess[s].state # "none"}
    /\ forwarding \in BOOLEAN
    /\ emitted \in Seq(Sessions) /\ queue \in Seq(Sessions) /\ heard \in Seq(Sessions)
    /\ from = None \/ from \in 0 .. Len(emitted)

NativeTypes ==
    /\ lost \subseteq {s \in Sessions : IsOpen(s)}
    /\ listener \in [Sessions -> Callers \cup {None}]

LEMMA TypeParts == TypeOK <=> ServerTypes /\ NativeTypes
BY DEF TypeOK, ServerTypes, NativeTypes, SessionTypes

\* A description that is asked for: the call is settled or waits, and the caller may get the
\* session.
LEMMA DescribeTypes ==
    ASSUME TypeOK, known \subseteq known', NEW k \in Callers, NEW s \in Sessions, NEW answers,
           Describe(k, s, answers)
    PROVE  /\ (call \in [Callers -> {None} \cup Requests \cup [op : {"build"}, session : Sessions]])'
           /\ held' = held \/ held' = held \cup {s}
           /\ listener' \in [Sessions -> Callers \cup {None}]
<1>1. held' = held \/ held' = held \cup {s}
    BY DEF Describe
<1>2. listener' \in [Sessions -> Callers \cup {None}]
    BY DEF Describe, TypeOK
<1>3. call' = [call EXCEPT ![k] = None] \/ call' = [call EXCEPT ![k] = [op |-> "build", session |-> s]]
    BY DEF Describe, Settles
<1>4. CASE call' = [call EXCEPT ![k] = None]
    BY <1>1, <1>2, <1>4, KeepsCalls
<1>5. CASE call' = [call EXCEPT ![k] = [op |-> "build", session |-> s]]
    <2>1. Requests \subseteq Requests'
        BY <1>1, RequestsGrow
    <2>2. QED
        BY <1>1, <1>2, <1>5, <2>1 DEF TypeOK
<1>6. QED
    BY <1>3, <1>4, <1>5

\* What the server makes of a list that can be deserialized: the list.
LEMMA AddsAll ==
    ASSUME NEW list, Deserializable(list)
    PROVE  Added(list) = list
BY DEF Deserializable, Added

\* The types hold at the start.
LEMMA InitType == Init => TypeOK
<1> SUFFICES ASSUME Init PROVE ServerTypes /\ NativeTypes
    BY TypeParts
<1>1. /\ active \subseteq known /\ known \subseteq Peers
      /\ sess \in [Sessions -> SessionTypes]
      /\ call \in [Callers -> {None}]
      /\ held = {} /\ forwarding \in BOOLEAN /\ from = None
    BY DEF Init, Peers, SessionTypes
<1>2. rules \in Seq(Rules) /\ Len(rules) = 0
    BY EmptySeq DEF Init
<1>3. emitted \in Seq(Sessions) /\ queue \in Seq(Sessions) /\ heard \in Seq(Sessions)
    BY EmptySeq DEF Init
<1>4. MaxRules \in Nat
    BY ServerAssumption
<1>5. NativeTypes
    BY DEF Init, NativeTypes
<1>6. QED
    BY <1>1, <1>2, <1>3, <1>4, <1>5 DEF ServerTypes

\* Requests, their replies and the feed keep the types.
LEMMA RequestTypes ==
    ASSUME TypeOK, NEW k \in Callers,
           \/ \E r \in Requests : Send(k, r)
           \/ CreatePeer(k) \/ SetRules(k) \/ AddRule(k) \/ Refuse(k) \/ Reply(k) \/ BuildFails(k)
    PROVE  ServerTypes'
<1> USE DEF Settles
<1>1. ASSUME NEW r \in Requests, Send(k, r) PROVE ServerTypes'
    <2>1. /\ call' = [call EXCEPT ![k] = r]
          /\ UNCHANGED <<active, rules, sess, known, held, forwarding, emitted, from, queue, heard>>
        BY <1>1 DEF Send, serverVars, feedVars
    <2>2. Requests' = Requests
        BY <2>1 DEF Requests, SetupRequests, PeerRequests, SessionRequests
    <2>3. (call \in [Callers -> {None} \cup Requests \cup [op : {"build"}, session : Sessions]])'
        BY <2>1, <2>2 DEF TypeOK, ServerTypes, SessionTypes
    <2>4. QED
        BY <2>1, <2>3 DEF TypeOK, ServerTypes, SessionTypes
<1>2. CASE CreatePeer(k)
    <2>1. \E S \in SUBSET Built : active' = active \cup S /\ known' = known \cup S
        <3>1. CASE UNCHANGED <<active, known>>
            <4>1. {} \in SUBSET Built /\ active' = active \cup {} /\ known' = known \cup {}
                BY <3>1
            <4>2. QED
                BY <4>1
        <3>2. ASSUME NEW p \in Built \ known, active' = active \cup {p} /\ known' = known \cup {p}
              PROVE  \E S \in SUBSET Built : active' = active \cup S /\ known' = known \cup S
            BY <3>2
        <3>3. QED
            BY <1>2, <3>1, <3>2 DEF CreatePeer
    <2>2. /\ call' = [call EXCEPT ![k] = None]
          /\ UNCHANGED <<rules, sess, held, forwarding, emitted, from, queue, heard>>
        BY <1>2 DEF CreatePeer, feedVars
    <2>3. (call \in [Callers -> {None} \cup Requests \cup [op : {"build"}, session : Sessions]])'
        BY <2>1, <2>2, KeepsCalls
    <2>4. /\ active' \subseteq known' /\ known' \subseteq Peers
          /\ sess' \in [Sessions -> SessionTypes']
        BY <2>1, <2>2 DEF TypeOK, ServerTypes, SessionTypes, Peers
    <2>5. QED
        BY <2>2, <2>3, <2>4 DEF TypeOK, ServerTypes, SessionTypes
<1>3. ASSUME rules' \in Seq(Rules), Len(rules') <= MaxRules,
             call' = [call EXCEPT ![k] = None],
             UNCHANGED <<active, sess, known, held, forwarding, emitted, from, queue, heard>>
      PROVE  ServerTypes'
    <2>1. (call \in [Callers -> {None} \cup Requests \cup [op : {"build"}, session : Sessions]])'
        BY <1>3, KeepsCalls
    <2>2. QED
        BY <1>3, <2>1 DEF TypeOK, ServerTypes, SessionTypes
<1>4. CASE SetRules(k)
    <2>1. call[k].rules \in RuleLists
        BY <1>4, CallTypes DEF SetRules, Asks
    <2>2. rules' \in Seq(Rules) /\ Len(rules') <= MaxRules
        BY <1>4, <2>1, AddsAll, ServerAssumption DEF SetRules, TypeOK
    <2>3. QED
        BY <1>3, <1>4, <2>2 DEF SetRules, feedVars
<1>5. CASE AddRule(k)
    <2>1. call[k].rules \in RuleLists /\ Len(call[k].rules) = 1
        BY <1>5, CallTypes DEF AddRule, Asks
    <2>2. /\ call[k].rules \in Seq(Rules) /\ rules \in Seq(Rules)
          /\ Len(rules) \in Nat /\ MaxRules \in Nat /\ Len(rules) <= MaxRules
        BY <2>1, ServerAssumption, LenProperties DEF TypeOK, ServerTypes, SessionTypes
    <2>3. rules \o call[k].rules \in Seq(Rules) /\ Len(rules \o call[k].rules) = Len(rules) + 1
        BY <2>1, <2>2, JoinTypes
    <2>4. rules' \in Seq(Rules) /\ Len(rules') <= MaxRules
        BY <1>5, <2>2, <2>3, AddsAll DEF AddRule, Accepts
    <2>5. QED
        BY <1>3, <1>5, <2>4 DEF AddRule, feedVars
<1>6. CASE Refuse(k) \/ BuildFails(k)
    <2>1. /\ call' = [call EXCEPT ![k] = None]
          /\ UNCHANGED <<active, rules, sess, known, held, forwarding, emitted, from, queue, heard>>
        BY <1>6 DEF Refuse, BuildFails, serverVars, feedVars
    <2>2. QED
        BY <1>3, <2>1 DEF TypeOK, ServerTypes, SessionTypes
<1>7. CASE Reply(k)
    <2>1. call[k].session \in Sessions /\ sess[call[k].session].state # "none"
        BY <1>7, CallTypes DEF Reply, Asks, IsOpen
    <2>2. /\ held' = held \/ held' = held \cup {call[k].session}
          /\ call' = [call EXCEPT ![k] = None]
          /\ UNCHANGED <<active, rules, sess, known, forwarding, emitted, from, queue, heard>>
        BY <1>7 DEF Reply, feedVars
    <2>3. (call \in [Callers -> {None} \cup Requests \cup [op : {"build"}, session : Sessions]])'
        BY <2>2, KeepsCalls
    <2>4. QED
        BY <2>1, <2>2, <2>3 DEF TypeOK, ServerTypes, SessionTypes
<1>8. QED
    BY <1>1, <1>2, <1>4, <1>5, <1>6, <1>7

\* Sessions that are made, used, connected and closed keep the types.
LEMMA SessionStepTypes ==
    ASSUME TypeOK,
           \/ \E k \in Callers : CreateSession(k) \/ CallSession(k)
           \/ \E s \in Sessions : Connect(s) \/ NativeCloses(s) \/ Close(s)
           \/ Reset
    PROVE  ServerTypes'
<1>1. ASSUME NEW k \in Callers, CreateSession(k) PROVE ServerTypes'
    <2>1. call[k].peer \in known /\ call[k].traits \in TraitSets \cup {None}
        BY <1>1, CallTypes DEF CreateSession
    <2>2. PICK s \in Sessions : /\ sess' = [sess EXCEPT ![s] = New(call[k])]
                               /\ Describe(k, s, call[k].op \in Answers)
        BY <1>1 DEF CreateSession
    <2>3. UNCHANGED <<active, rules, known, forwarding, emitted, from, queue, heard>>
        BY <1>1 DEF CreateSession, feedVars
    <2>4. New(call[k]) \in SessionTypes' /\ New(call[k]).state # "none"
        BY <2>1, <2>3 DEF SessionTypes, New
    <2>5. sess' = [x \in Sessions |-> IF x \in {s} THEN New(call[k]) ELSE sess[x]]
        BY <2>2 DEF TypeOK
    <2>6. sess' \in [Sessions -> SessionTypes'] /\ held \subseteq {x \in Sessions : sess'[x].state # "none"}
        BY <2>3, <2>4, <2>5, KeepsSessions
    <2>7. /\ (call \in [Callers -> {None} \cup Requests \cup [op : {"build"}, session : Sessions]])'
          /\ held' = held \/ held' = held \cup {s}
        BY <2>2, <2>3, DescribeTypes
    <2>8. sess'[s].state # "none"
        BY <2>4, <2>5
    <2>9. QED
        BY <2>3, <2>6, <2>7, <2>8 DEF TypeOK, ServerTypes
<1>2. ASSUME NEW k \in Callers, CallSession(k) PROVE ServerTypes'
    <2>1. UNCHANGED <<active, rules, known, forwarding, emitted, from, queue, heard>>
        BY <1>2 DEF CallSession, feedVars
    <2>2. sess' \in [Sessions -> SessionTypes'] /\ held \subseteq {x \in Sessions : sess'[x].state # "none"}
        <3>1. CASE sess' = sess
            BY <2>1, <3>1 DEF TypeOK, ServerTypes, SessionTypes
        <3>2. CASE sess' # sess
            <4> DEFINE s == call[k].session
                       state == IF sess[s].state = "open" /\ call[k].op = "completeOffer"
                                THEN "answered" ELSE sess[s].state
                       traits == IF sess[s].traits = None THEN None ELSE call[k].traits
                       t == [sess[s] EXCEPT !.state = state, !.traits = traits]
            <4>1. s \in Sessions /\ call[k].traits \in TraitSets
                BY <1>2, CallTypes DEF CallSession
            <4>2. IsOpen(s) /\ sess' = [sess EXCEPT
                    ![s].state = IF @ = "open" /\ call[k].op = "completeOffer" THEN "answered" ELSE @,
                    ![s].traits = IF @ = None THEN None ELSE call[k].traits]
                BY <1>2, <3>2 DEF CallSession
            <4>3. sess' = [x \in Sessions |-> IF x \in {s} THEN t ELSE sess[x]]
                BY <4>1, <4>2 DEF TypeOK, ServerTypes, SessionTypes
            <4>4. t \in SessionTypes' /\ t.state # "none"
                <5>1. sess[s] \in [state : {"open", "answered", "connected"}, peer : known,
                                   mock : BOOLEAN, traits : TraitSets \cup {None},
                                   steps : {None, "built", "rtc-dynamic-proxy"} \cup Steps]
                    BY <4>1, <4>2, SessTypes
                <5>2. state \in {"open", "answered", "connected"} /\ traits \in TraitSets \cup {None}
                    BY <4>1, <5>1
                <5>3. t \in SessionTypes /\ t.state # "none"
                    <6> HIDE DEF state, traits, s
                    <6> QED BY <5>1, <5>2 DEF SessionTypes
                <5>4. QED
                    <6> HIDE DEF t
                    <6> QED BY <2>1, <5>3 DEF SessionTypes
            <4>5. QED
                <5> HIDE DEF t, s
                <5> QED BY <2>1, <4>1, <4>3, <4>4, KeepsSessions
        <3>3. QED
            BY <3>1, <3>2
    <2>3. call[k].session \in held /\ call[k].session \in Sessions
        BY <1>2 DEF CallSession, Asks, TypeOK, Requests, SetupRequests, PeerRequests, SessionRequests,
                    Mocked, External
    <2>4. /\ (call \in [Callers -> {None} \cup Requests \cup [op : {"build"}, session : Sessions]])'
          /\ held' = held
        <3>1. CASE Settles(k) /\ held' = held
            BY <2>1, <3>1, KeepsCalls DEF Settles
        <3>2. CASE Describe(k, call[k].session, TRUE)
            <4>1. /\ (call \in [Callers -> {None} \cup Requests \cup [op : {"build"}, session : Sessions]])'
                  /\ held' = held \/ held' = held \cup {call[k].session}
                <5> DEFINE s == call[k].session
                <5>1. s \in Sessions /\ Describe(k, s, TRUE) /\ known \subseteq known'
                    BY <2>1, <2>3, <3>2
                <5> HIDE DEF s
                <5>2. /\ (call \in [Callers -> {None} \cup Requests \cup [op : {"build"}, session : Sessions]])'
                      /\ held' = held \/ held' = held \cup {s}
                    BY <5>1, DescribeTypes
                <5> QED BY <5>2 DEF s
            <4>2. held \cup {call[k].session} = held
                BY <2>3
            <4>3. QED
                BY <4>1, <4>2
        <3>3. QED
            BY <1>2, <3>1, <3>2 DEF CallSession
    <2>5. QED
        BY <2>1, <2>2, <2>4 DEF TypeOK, ServerTypes
<1>3. ASSUME UNCHANGED <<rules, known, held, call, from, heard>>, active' \subseteq known,
             forwarding' \in BOOLEAN,
             emitted' \in Seq(Sessions), queue' \in Seq(Sessions), Len(emitted) <= Len(emitted'),
             sess' \in [Sessions -> SessionTypes'], held \subseteq {x \in Sessions : sess'[x].state # "none"}
      PROVE  ServerTypes'
    <2>1. (call \in [Callers -> {None} \cup Requests \cup [op : {"build"}, session : Sessions]])'
        BY <1>3, KeepsCalls
    <2>2. from' = None \/ from' \in 0 .. Len(emitted')
        BY <1>3 DEF TypeOK, ServerTypes, SessionTypes
    <2>3. QED
        BY <1>3, <2>1, <2>2 DEF TypeOK, ServerTypes, SessionTypes
<1>4. ASSUME NEW s \in Sessions, Connect(s) PROVE ServerTypes'
    <2> DEFINE t == [sess[s] EXCEPT !.state = "connected", !.traits = None, !.steps = StepsOf(sess[s])]
    <2>1. UNCHANGED <<active, rules, known, held, forwarding, call, from, heard>>
        BY <1>4 DEF Connect
    <2>2. sess' = [x \in Sessions |-> IF x \in {s} THEN t ELSE sess[x]]
        BY <1>4 DEF Connect, TypeOK
    <2>3. t \in SessionTypes' /\ t.state # "none"
        BY <1>4, <2>1, SessTypes, StepsOfType DEF Connect, IsOpen, SessionTypes
    <2>4. sess' \in [Sessions -> SessionTypes'] /\ held \subseteq {x \in Sessions : sess'[x].state # "none"}
        <3> HIDE DEF t
        <3> QED BY <2>1, <2>2, <2>3, KeepsSessions
    <2>5. emitted' \in Seq(Sessions) /\ queue' \in Seq(Sessions) /\ Len(emitted) <= Len(emitted')
        BY <1>4, AnnouncedTypes DEF Connect
    <2>6. QED
        BY <1>3, <2>1, <2>4, <2>5 DEF TypeOK, ServerTypes, SessionTypes
<1>5. ASSUME NEW s \in Sessions, Close(s) PROVE ServerTypes'
    <2>1. UNCHANGED <<active, rules, known, held, forwarding, call, from, heard>>
        BY <1>5 DEF Close
    <2>2. sess' = [x \in Sessions |-> IF x \in {s} THEN Ended ELSE sess[x]]
        BY <1>5 DEF Close, TypeOK
    <2>3. Ended \in SessionTypes' /\ Ended.state # "none"
        BY DEF SessionTypes, Ended, Unmade
    <2>4. sess' \in [Sessions -> SessionTypes'] /\ held \subseteq {x \in Sessions : sess'[x].state # "none"}
        BY <2>1, <2>2, <2>3, KeepsSessions
    <2>5. emitted' \in Seq(Sessions) /\ queue' \in Seq(Sessions) /\ Len(emitted) <= Len(emitted')
        BY <1>5, AnnouncedTypes DEF Close
    <2>6. QED
        BY <1>3, <2>1, <2>4, <2>5 DEF TypeOK, ServerTypes, SessionTypes
<1>6. CASE Reset
    <2>1. UNCHANGED <<known, held, call, from, heard>>
          /\ active' = {} /\ rules' = <<>> /\ forwarding' = FALSE
        BY <1>6 DEF Reset
    <2>2. /\ Ending \in SUBSET Sessions
          /\ sess' = [x \in Sessions |-> IF x \in Ending THEN Ended ELSE sess[x]]
        BY <1>6 DEF Reset, Ending
    <2>3. Ended \in SessionTypes' /\ Ended.state # "none"
        BY DEF SessionTypes, Ended, Unmade
    <2>4. sess' \in [Sessions -> SessionTypes'] /\ held \subseteq {x \in Sessions : sess'[x].state # "none"}
        BY <2>1, <2>2, <2>3, KeepsSessions
    <2>5. PICK told \in SetToSeqs({s \in Ending : Announced(s) /\ s \notin lost}) :
             Emit("peer-disconnected", told)
        BY <1>6 DEF Reset
    <2>6. told \in Seq(Sessions)
        BY <2>2, OrdersAreSequences
    <2>7. emitted' \in Seq(Sessions) /\ queue' \in Seq(Sessions) /\ Len(emitted) <= Len(emitted')
        BY <2>5, <2>6, EmitTypes
    <2>8. (call \in [Callers -> {None} \cup Requests \cup [op : {"build"}, session : Sessions]])'
        BY <2>1, KeepsCalls
    <2>9. rules' \in Seq(Rules) /\ Len(rules') <= MaxRules
        BY <2>1, EmptySeq, ServerAssumption
    <2>10. from' = None \/ from' \in 0 .. Len(emitted')
        BY <2>1, <2>7 DEF TypeOK, ServerTypes, SessionTypes
    <2>11. QED
        BY <2>1, <2>4, <2>7, <2>8, <2>9, <2>10 DEF TypeOK, ServerTypes, SessionTypes
<1>7. ASSUME NEW s \in Sessions, NativeCloses(s) PROVE ServerTypes'
    <2>1. UNCHANGED <<active, rules, sess, known, held, forwarding, emitted, call, from, queue, heard>>
        BY <1>7 DEF NativeCloses, serverVars, feedVars
    <2>2. QED
        BY <1>3, <2>1, LenProperties DEF TypeOK, SessionTypes
<1>8. QED
    BY <1>1, <1>2, <1>4, <1>5, <1>6, <1>7

\* The client's feed keeps the types.
LEMMA FeedTypes ==
    ASSUME TypeOK, Subscribe \/ Receive
    PROVE  ServerTypes'
<1>1. /\ UNCHANGED <<active, rules, sess, known, held, forwarding, emitted, call>>
      /\ Len(emitted) \in Nat
    BY LenProperties DEF TypeOK, Subscribe, Receive, serverVars
<1>2. (call \in [Callers -> {None} \cup Requests \cup [op : {"build"}, session : Sessions]])'
    BY <1>1, KeepsCalls
<1>3. queue' \in Seq(Sessions) /\ heard' \in Seq(Sessions)
    <2>1. CASE Subscribe
        BY <2>1 DEF Subscribe, TypeOK
    <2>2. CASE Receive
        BY <2>2, HeadTailProperties, AppendProperties DEF Receive, TypeOK
    <2>3. QED
        BY <2>1, <2>2
<1>4. from' = None \/ from' \in 0 .. Len(emitted')
    BY <1>1 DEF Subscribe, Receive, TypeOK
<1>5. QED
    BY <1>1, <1>2, <1>3, <1>4 DEF TypeOK, ServerTypes, SessionTypes

\* What is natively closed is open, and gathering listeners are callers.
LEMMA NativeStep ==
    ASSUME TypeOK, Next
    PROVE  NativeTypes'
<1>1. lost \subseteq Sessions /\ \A x \in lost : IsOpen(x)
    BY DEF TypeOK
<1>2. ASSUME lost' = lost, listener' \in [Sessions -> Callers \cup {None}],
             \A x \in lost : IsOpen(x)'
      PROVE  NativeTypes'
    BY <1>1, <1>2 DEF NativeTypes
<1>3. ASSUME UNCHANGED <<lost, sess>>, listener' \in [Sessions -> Callers \cup {None}]
      PROVE  NativeTypes'
    BY <1>1, <1>2, <1>3 DEF IsOpen
<1>4. ASSUME UNCHANGED <<lost, listener, sess>> PROVE NativeTypes'
    BY <1>3, <1>4 DEF TypeOK
<1>5. ASSUME NEW k \in Callers,
             \/ \E r \in Requests : Send(k, r)
             \/ CreatePeer(k) \/ SetRules(k) \/ AddRule(k) \/ Refuse(k)
      PROVE  NativeTypes'
    BY <1>4, <1>5 DEF Send, CreatePeer, SetRules, AddRule, Refuse, serverVars, nativeVars
<1>6. ASSUME NEW k \in Callers, Reply(k) \/ BuildFails(k) PROVE NativeTypes'
    <2>1. UNCHANGED <<lost, sess>>
        BY <1>6 DEF Reply, BuildFails, serverVars
    <2>2. listener' = [listener EXCEPT ![call[k].session] = None]
        BY <1>6 DEF Reply, BuildFails
    <2>3. listener' \in [Sessions -> Callers \cup {None}]
        BY <2>2 DEF TypeOK
    <2>4. QED
        BY <1>3, <2>1, <2>3
<1>7. ASSUME NEW k \in Callers, CreateSession(k) PROVE NativeTypes'
    <2>1. lost' = lost /\ known' = known
        BY <1>7 DEF CreateSession
    <2>2. PICK s \in Sessions : /\ sess[s].state = "none"
                               /\ sess' = [sess EXCEPT ![s] = New(call[k])]
                               /\ Describe(k, s, call[k].op \in Answers)
        BY <1>7 DEF CreateSession
    <2>3. listener' \in [Sessions -> Callers \cup {None}]
        BY <2>1, <2>2, DescribeTypes
    <2>4. \A x \in lost : IsOpen(x)'
        BY <1>1, <2>2 DEF IsOpen, TypeOK
    <2>5. QED
        BY <1>2, <2>1, <2>3, <2>4
<1>8. ASSUME NEW k \in Callers, CallSession(k) PROVE NativeTypes'
    <2>1. lost' = lost /\ known' = known
        BY <1>8 DEF CallSession
    <2> DEFINE s == call[k].session
    <2>2. s \in Sessions
        BY <1>8, CallTypes DEF CallSession
    <2>3. listener' \in [Sessions -> Callers \cup {None}]
        <3>1. CASE listener' = listener
            BY <3>1 DEF TypeOK
        <3>2. CASE Describe(k, s, TRUE)
            BY <2>1, <2>2, <3>2, DescribeTypes
        <3>3. QED
            BY <1>8, <3>1, <3>2 DEF CallSession
    <2>4. CASE sess' = sess
        BY <1>3, <2>1, <2>3, <2>4
    <2>5. CASE sess' # sess
        <3>1. IsOpen(s) /\ sess' = [sess EXCEPT
                ![s].state = IF @ = "open" /\ call[k].op = "completeOffer" THEN "answered" ELSE @,
                ![s].traits = IF @ = None THEN None ELSE call[k].traits]
            BY <1>8, <2>5 DEF CallSession
        <3>2. sess[s] \in [state : {"open", "answered", "connected"}, peer : known,
                           mock : BOOLEAN, traits : TraitSets \cup {None},
                           steps : {None, "built", "rtc-dynamic-proxy"} \cup Steps]
            BY <2>2, <3>1, SessTypes
        <3>3. sess'[s].state \in {"open", "answered", "connected"}
            BY <2>2, <3>1, <3>2 DEF TypeOK
        <3>4. \A x \in Sessions : x # s => sess'[x] = sess[x]
            BY <3>1 DEF TypeOK
        <3>5. \A x \in lost : IsOpen(x)'
            BY <1>1, <3>3, <3>4 DEF IsOpen
        <3>6. QED
            BY <1>2, <2>1, <2>3, <3>5
    <2>6. QED
        BY <2>4, <2>5
<1>9. ASSUME NEW s \in Sessions, Connect(s) PROVE NativeTypes'
    <2>1. UNCHANGED <<lost, listener>> /\ s \notin lost
        BY <1>9 DEF Connect, nativeVars
    <2>2. \A x \in lost : sess'[x] = sess[x]
        BY <1>1, <1>9, <2>1 DEF Connect, TypeOK
    <2>3. QED
        BY <1>1, <1>2, <2>1, <2>2 DEF IsOpen, TypeOK
<1>10. ASSUME NEW s \in Sessions, NativeCloses(s) PROVE NativeTypes'
    <2>1. UNCHANGED <<sess, listener>> /\ lost' = lost \cup {s} /\ IsOpen(s)
        BY <1>10 DEF NativeCloses, serverVars, Announced, IsOpen
    <2>2. QED
        BY <1>1, <2>1 DEF NativeTypes, IsOpen, TypeOK
<1>11. ASSUME NEW S \in SUBSET Sessions, listener' = listener, lost' = lost \ S,
              \A x \in Sessions : x \notin S => sess'[x] = sess[x]
       PROVE  NativeTypes'
    BY <1>1, <1>11 DEF NativeTypes, IsOpen, TypeOK
<1>12. ASSUME NEW s \in Sessions, Close(s) PROVE NativeTypes'
    <2>1. /\ listener' = listener /\ lost' = lost \ {s}
          /\ \A x \in Sessions : x \notin {s} => sess'[x] = sess[x]
        BY <1>12 DEF Close, TypeOK
    <2>2. QED
        BY <1>11, <2>1
<1>13. CASE Reset
    <2>1. /\ listener' = listener /\ lost' = lost \ Ending /\ Ending \in SUBSET Sessions
          /\ \A x \in Sessions : x \notin Ending => sess'[x] = sess[x]
        BY <1>13 DEF Reset, Ending
    <2>2. QED
        BY <1>11, <2>1
<1>14. CASE Subscribe \/ Receive
    BY <1>4, <1>14 DEF Subscribe, Receive, serverVars, nativeVars
<1>15. QED
    BY <1>5, <1>6, <1>7, <1>8, <1>9, <1>10, <1>12, <1>13, <1>14 DEF Next, Serve

\* Every step keeps the types.
LEMMA TypeStep == TypeOK /\ [Next]_vars => TypeOK'
<1> SUFFICES ASSUME TypeOK, [Next]_vars PROVE TypeOK'
    OBVIOUS
<1>1. CASE UNCHANGED vars
    <2>1. /\ UNCHANGED <<active, rules, sess, known, held, forwarding, emitted, call, from, queue, heard>>
          /\ UNCHANGED <<lost, listener>>
        BY <1>1 DEF vars, serverVars, nativeVars, feedVars
    <2>2. (call \in [Callers -> {None} \cup Requests \cup [op : {"build"}, session : Sessions]])'
        BY <2>1, KeepsCalls
    <2>3. QED
        BY <2>1, <2>2 DEF TypeOK, IsOpen
<1>2. CASE Next
    <2>1. ServerTypes'
        BY <1>2, RequestTypes, SessionStepTypes, FeedTypes DEF Next, Serve
    <2>2. NativeTypes'
        BY <1>2, NativeStep
    <2>3. (TypeOK <=> ServerTypes /\ NativeTypes)'
        BY TypeParts, PTL
    <2>4. QED
        BY <2>1, <2>2, <2>3
<1>3. QED
    BY <1>1, <1>2

\* Whatever is asked for, in any order and around resets, the peers, rules, sessions and calls
\* keep their types: no peer that the clients do not know of is active, the list of rules keeps
\* to its bound, and clients hold only sessions that were made.
THEOREM TypeCorrect == Spec => []TypeOK
BY InitType, TypeStep, PTL DEF Spec

-----------------------------------------------------------------------------
(* Sessions never outlive their peers.                                     *)

\* While requests and resets interleave in any order, no open session belongs to a peer that
\* the server has forgotten: a reset finds all of them.
THEOREM Reachable == Spec => []OpenAreReachable
<1>1. Init => OpenAreReachable
    BY DEF Init, OpenAreReachable, IsOpen, Unmade
<1>2. TypeOK /\ OpenAreReachable /\ [Next]_vars => OpenAreReachable'
    <2> SUFFICES ASSUME TypeOK, OpenAreReachable, [Next]_vars
                 PROVE  OpenAreReachable'
        OBVIOUS
    <2>1. ASSUME active \subseteq active', NEW S \in SUBSET Sessions, NEW t,
                 sess' = [x \in Sessions |-> IF x \in S THEN t ELSE sess[x]],
                 t.state = "closed" \/ t.peer \in active
          PROVE  OpenAreReachable'
        BY <2>1 DEF OpenAreReachable, IsOpen
    <2>2. CASE active \subseteq active' /\ sess' = sess
        BY <2>2 DEF OpenAreReachable, IsOpen
    <2>3. ASSUME NEW k \in Callers, CreateSession(k) PROVE OpenAreReachable'
        <3>1. call[k].peer \in active /\ active' = active
            BY <2>3 DEF CreateSession
        <3>2. PICK s \in Sessions : sess' = [sess EXCEPT ![s] = New(call[k])]
            BY <2>3 DEF CreateSession
        <3>3. QED
            BY <3>1, <3>2 DEF TypeOK, OpenAreReachable, IsOpen, New
    <2>4. ASSUME NEW k \in Callers, CallSession(k) PROVE OpenAreReachable'
        <3>1. active' = active
            BY <2>4 DEF CallSession
        <3>2. CASE sess' = sess
            BY <2>2, <3>1, <3>2
        <3>3. CASE sess' # sess
            <4> DEFINE s == call[k].session
            <4>1. s \in Sessions /\ sess[s].peer \in active
                BY <2>4, <3>3, CallTypes DEF CallSession
            <4> DEFINE state == IF sess[s].state = "open" /\ call[k].op = "completeOffer"
                                THEN "answered" ELSE sess[s].state
                       traits == IF sess[s].traits = None THEN None ELSE call[k].traits
                       t == [sess[s] EXCEPT !.state = state, !.traits = traits]
            <4>2. sess' = [x \in Sessions |-> IF x \in {s} THEN t ELSE sess[x]]
                BY <2>4, <3>3, <4>1 DEF CallSession, TypeOK
            <4>3. t.peer = sess[s].peer
                <5> HIDE DEF state, traits, s
                <5> QED OBVIOUS
            <4>4. QED
                <5> HIDE DEF t, s
                <5> QED BY <2>1, <3>1, <4>1, <4>2, <4>3
        <3>4. QED
            BY <3>2, <3>3
    <2>5. ASSUME NEW s \in Sessions, Connect(s) PROVE OpenAreReachable'
        <3>1. active' = active /\ IsOpen(s)
            BY <2>5 DEF Connect, IsOpen
        <3>2. \A x \in Sessions : sess'[x].peer = sess[x].peer /\ (x # s => sess'[x] = sess[x])
            BY <2>5 DEF Connect, TypeOK
        <3>3. QED
            BY <3>1, <3>2 DEF OpenAreReachable, IsOpen
    <2>6. ASSUME NEW s \in Sessions, Close(s) PROVE OpenAreReachable'
        <3>1. active' = active /\ sess' = [x \in Sessions |-> IF x \in {s} THEN Ended ELSE sess[x]]
            BY <2>6 DEF Close, TypeOK
        <3>2. QED
            BY <2>1, <3>1 DEF Ended, Unmade
    <2>7. CASE Reset
        <3>1. \A x \in Sessions : IsOpen(x) => sess'[x] = Ended
            BY <2>7 DEF Reset, Ending, OpenAreReachable
        <3>2. \A x \in Sessions : ~IsOpen(x) => sess'[x] = sess[x]
            BY <2>7 DEF Reset, Ending
        <3>3. QED
            BY <3>1, <3>2 DEF OpenAreReachable, IsOpen, Ended, Unmade
    <2>8. ASSUME NEW k \in Callers,
                 \/ \E r \in Requests : Send(k, r)
                 \/ CreatePeer(k) \/ SetRules(k) \/ AddRule(k) \/ Refuse(k) \/ Reply(k) \/ BuildFails(k)
          PROVE  OpenAreReachable'
        BY <2>2, <2>8 DEF Send, CreatePeer, SetRules, AddRule, Refuse, Reply, BuildFails, serverVars
    <2>9. CASE (\E s \in Sessions : NativeCloses(s)) \/ Subscribe \/ Receive \/ UNCHANGED vars
        BY <2>2, <2>9 DEF NativeCloses, Subscribe, Receive, vars, serverVars
    <2>10. QED
        BY <2>3, <2>4, <2>5, <2>6, <2>7, <2>8, <2>9 DEF Next, Serve
<1>3. QED
    BY <1>1, <1>2, TypeCorrect, PTL DEF Spec

-----------------------------------------------------------------------------
(* Events.                                                                 *)

\* A reset tells the subscriber of the end of every announced session that is not lost.
LEMMA ResetTells ==
    ASSUME TypeOK, OpenAreReachable, Reset, forwarding, from # None,
           Subscribed = "peer-disconnected", NEW s \in Sessions, Announced(s), s \notin lost
    PROVE  \E i \in DOMAIN queue' : queue'[i] = s
<1> DEFINE ending == {x \in Ending : Announced(x) /\ x \notin lost}
<1>1. PICK told \in SetToSeqs(ending) : Emit("peer-disconnected", told)
    BY DEF Reset
<1>2. s \in ending
    BY DEF Ending, OpenAreReachable, Announced, IsOpen
<1>3. told \in Seq(Sessions) /\ \E i \in DOMAIN told : told[i] = s
    <2>1. ending \in SUBSET Sessions
        BY DEF Ending
    <2> HIDE DEF ending
    <2>2. QED
        BY <1>1, <1>2, <2>1, OrdersAreSequences
<1>4. queue \in Seq(Sessions) /\ queue' = queue \o told
    BY <1>1 DEF Emit, TypeOK
<1>5. PICK i \in DOMAIN told : told[i] = s
    BY <1>3
<1>6. /\ Len(queue) \in Nat /\ Len(told) \in Nat /\ i \in 1 .. Len(told)
      /\ DOMAIN queue' = 1 .. Len(queue) + Len(told)
      /\ \A j \in 1 .. Len(queue) + Len(told) :
            queue'[j] = IF j <= Len(queue) THEN queue[j] ELSE told[j - Len(queue)]
    <2>1. queue' \in Seq(Sessions) /\ Len(queue') = Len(queue) + Len(told)
        BY <1>3, <1>4, JoinTypes
    <2>2. \A j \in 1 .. Len(queue) + Len(told) :
             queue'[j] = IF j <= Len(queue) THEN queue[j] ELSE told[j - Len(queue)]
        BY <1>3, <1>4, ConcatProperties
    <2>3. QED
        BY <1>3, <1>4, <1>5, <2>1, <2>2, LenProperties
<1>7. queue'[Len(queue) + i] = s
    BY <1>5, <1>6
<1>8. QED
    BY <1>6, <1>7

\* A subscriber is told of the end of every session that a reset ends, however many sessions
\* there are and whatever else is under way, if the native side had not closed it before.
THEOREM ResetsAreHeard == Spec => ResetIsHeard
<1>1. TypeOK /\ OpenAreReachable /\ [Next]_vars
         => [Reset /\ forwarding /\ from # None /\ Subscribed = "peer-disconnected" =>
                \A s \in Sessions : Announced(s) /\ s \notin lost => \E i \in DOMAIN queue' : queue'[i] = s]_vars
    BY ResetTells
<1>2. QED
    BY <1>1, TypeCorrect, Reachable, PTL DEF Spec, ResetIsHeard

\* It does not matter which of three sequences are joined first.
LEMMA JoinAssociative ==
    \A S : \A a, b, c \in Seq(S) : (a \o b) \o c = a \o (b \o c)
<1> SUFFICES ASSUME NEW S, NEW a \in Seq(S), NEW b \in Seq(S), NEW c \in Seq(S)
             PROVE  (a \o b) \o c = a \o (b \o c)
    OBVIOUS
<1> QED BY ConcatAssociative

\* A part of a sequence stays what it is when the sequence grows, and grows with it.
LEMMA PartsOfLonger ==
    ASSUME NEW S, NEW e \in Seq(S), NEW new \in Seq(S), NEW f \in 0 .. Len(e), NEW l \in f .. Len(e)
    PROVE  /\ SubSeq(e \o new, f + 1, l) = SubSeq(e, f + 1, l)
           /\ SubSeq(e \o new, f + 1, Len(e \o new)) = SubSeq(e, f + 1, Len(e)) \o new
<1>1. /\ e \o new \in Seq(S) /\ Len(e \o new) = Len(e) + Len(new)
      /\ Len(e) \in Nat /\ Len(new) \in Nat /\ f \in Nat /\ l \in Nat
    BY ConcatProperties, LenProperties
<1>2. /\ \A i \in 1 .. Len(e) : e[i] \in S /\ (e \o new)[i] = e[i]
      /\ \A i \in 1 .. Len(e) + Len(new) : (e \o new)[i] \in S
      /\ \A i \in 1 .. Len(new) : (e \o new)[Len(e) + i] = new[i]
    <2>1. \A i \in 1 .. Len(e) + Len(new) :
             (e \o new)[i] = IF i <= Len(e) THEN e[i] ELSE new[i - Len(e)]
        BY ConcatProperties
    <2>2. (\A i \in 1 .. Len(e) : e[i] \in S) /\ (\A i \in 1 .. Len(new) : new[i] \in S)
        BY LenProperties
    <2>3. \A i \in 1 .. Len(e) + Len(new) : (e \o new)[i] \in S
        BY <1>1, <2>1, <2>2
    <2>4. \A i \in 1 .. Len(new) : (e \o new)[Len(e) + i] = new[i]
        BY <1>1, <2>1
    <2>5. QED
        BY <1>1, <2>1, <2>2, <2>3, <2>4
<1>3. ASSUME NEW n \in f .. Len(e)
      PROVE  /\ SubSeq(e, f + 1, n) \in Seq(S) /\ Len(SubSeq(e, f + 1, n)) = n - f
             /\ SubSeq(e \o new, f + 1, n) = SubSeq(e, f + 1, n)
    <2>1. f + 1 \in Int /\ n \in Int /\ \A i \in f + 1 .. n : e[i] \in S /\ (e \o new)[i] \in S
        BY <1>1, <1>2
    <2>2. /\ SubSeq(e, f + 1, n) \in Seq(S) /\ Len(SubSeq(e, f + 1, n)) = n - f
          /\ \A i \in 1 .. n - f : SubSeq(e, f + 1, n)[i] = e[f + i]
        BY <1>1, <2>1, SubSeqProperties
    <2>3. /\ SubSeq(e \o new, f + 1, n) \in Seq(S) /\ Len(SubSeq(e \o new, f + 1, n)) = n - f
          /\ \A i \in 1 .. n - f : SubSeq(e \o new, f + 1, n)[i] = (e \o new)[f + i]
        BY <1>1, <2>1, SubSeqProperties
    <2>4. \A i \in 1 .. n - f : SubSeq(e \o new, f + 1, n)[i] = SubSeq(e, f + 1, n)[i]
        BY <1>1, <1>2, <2>2, <2>3
    <2>5. QED
        BY <2>2, <2>3, <2>4, SeqEqual
<1>4. SubSeq(e \o new, f + 1, Len(e \o new)) = SubSeq(e, f + 1, Len(e)) \o new
    <2>1. SubSeq(e \o new, Len(e) + 1, Len(e \o new)) = new
        <3>1. Len(e) + 1 \in Int /\ Len(e \o new) \in Int
              /\ \A i \in Len(e) + 1 .. Len(e \o new) : (e \o new)[i] \in S
            BY <1>1, <1>2
        <3>2. /\ SubSeq(e \o new, Len(e) + 1, Len(e \o new)) \in Seq(S)
              /\ Len(SubSeq(e \o new, Len(e) + 1, Len(e \o new))) = Len(new)
              /\ \A i \in 1 .. Len(new) :
                    SubSeq(e \o new, Len(e) + 1, Len(e \o new))[i] = (e \o new)[Len(e) + i]
            BY <1>1, <3>1, SubSeqProperties, SMTT(30)
        <3>3. QED
            BY <1>2, <3>2, SeqEqual
    <2>2. SubSeq(e \o new, f + 1, Len(e)) \o SubSeq(e \o new, Len(e) + 1, Len(e \o new))
            = SubSeq(e \o new, f + 1, Len(e \o new))
        <3>1. f + 1 \in 1 .. Len(e \o new) + 1 /\ Len(e) \in (f + 1) - 1 .. Len(e \o new)
              /\ Len(e \o new) \in Len(e) .. Len(e \o new)
            BY <1>1
        <3>2. QED
            BY <1>1, <3>1, ConcatAdjacentSubSeq
    <2>3. SubSeq(e \o new, f + 1, Len(e)) = SubSeq(e, f + 1, Len(e))
        BY <1>1, <1>3
    <2>4. QED
        BY <2>1, <2>2, <2>3
<1>5. QED
    BY <1>3, <1>4

\* Before the subscription nothing travels to the client.
EarlyFeed == from = None => queue = <<>> /\ heard = <<>>

FeedInv == EarlyFeed /\ HeardInOrder

\* Events keep the feed in order.
LEMMA EmitKeepsFeed ==
    ASSUME TypeOK, FeedInv, NEW t, NEW new \in Seq(Sessions), Emit(t, new),
           UNCHANGED <<from, heard>>, forwarding' => forwarding
    PROVE  FeedInv'
<1>1. CASE from = None
    BY <1>1 DEF FeedInv, EarlyFeed, HeardInOrder, Emit
<1>2. CASE from # None
    <2>1. /\ from \in 0 .. Len(emitted) /\ emitted \in Seq(Sessions)
          /\ heard \in Seq(Sessions) /\ queue \in Seq(Sessions) /\ Len(emitted) \in Nat
        BY <1>2, LenProperties DEF TypeOK
    <2>2. PICK last \in from .. Len(emitted) :
             /\ heard \o queue = SubSeq(emitted, from + 1, last)
             /\ forwarding => last = Len(emitted)
        BY <1>2 DEF FeedInv, HeardInOrder
    <2>3. CASE UNCHANGED <<emitted, queue>>
        BY <1>2, <2>2, <2>3 DEF FeedInv, EarlyFeed, HeardInOrder
    <2>4. CASE emitted' = emitted \o new /\ ~forwarding /\ queue' = queue
        <3>1. Len(emitted') = Len(emitted) + Len(new) /\ Len(new) \in Nat
            BY <2>1, <2>4, JoinTypes, LenProperties
        <3>2. heard' \o queue' = SubSeq(emitted', from' + 1, last)
            BY <2>1, <2>2, <2>4, PartsOfLonger
        <3>3. last \in from' .. Len(emitted')
            BY <2>1, <3>1
        <3>4. QED
            BY <1>2, <2>4, <3>2, <3>3 DEF FeedInv, EarlyFeed, HeardInOrder
    <2>5. CASE emitted' = emitted \o new /\ forwarding /\ queue' = queue \o new
        <3>1. Len(emitted') = Len(emitted) + Len(new) /\ Len(new) \in Nat
            BY <2>1, <2>5, JoinTypes, LenProperties
        <3>2. heard' \o queue' = (heard \o queue) \o new
            <4>1. heard \in Seq(Sessions) /\ queue \in Seq(Sessions) /\ new \in Seq(Sessions)
                BY <2>1
            <4>2. (heard \o queue) \o new = heard \o (queue \o new)
                <5> HIDE <3>1
                <5> QED BY <4>1, JoinAssociative, SMTT(40)
            <4>3. QED
                BY <2>5, <4>2
        <3>3. heard \o queue = SubSeq(emitted, from + 1, Len(emitted))
            BY <2>2, <2>5
        <3>4. SubSeq(emitted', from' + 1, Len(emitted')) = SubSeq(emitted, from + 1, Len(emitted)) \o new
            <4>1. Len(emitted) \in from .. Len(emitted)
                BY <2>1
            <4>2. QED
                BY <2>1, <2>5, <4>1, PartsOfLonger
        <3>5. Len(emitted') \in from' .. Len(emitted')
            BY <2>1, <3>1
        <3>6. QED
            BY <1>2, <3>2, <3>3, <3>4, <3>5 DEF FeedInv, EarlyFeed, HeardInOrder
    <2>6. QED
        BY <1>2, <2>3, <2>4, <2>5 DEF Emit, TypeOK
<1>3. QED
    BY <1>1, <1>2

\* A client that receives keeps what it heard and what travels together.
LEMMA FeedKeepsOrder ==
    ASSUME TypeOK, FeedInv, Subscribe \/ Receive
    PROVE  FeedInv'
<1>1. CASE Subscribe
    <2>1. /\ queue' = <<>> /\ heard' = <<>> /\ from' = Len(emitted) /\ emitted' = emitted
          /\ forwarding' = forwarding /\ Len(emitted) \in Nat
        BY <1>1, LenProperties DEF Subscribe, FeedInv, EarlyFeed, serverVars, TypeOK
    <2>2. heard' \o queue' = <<>>
        <3>1. <<>> \in Seq(Sessions)
            BY EmptySeq
        <3>2. QED
            BY <2>1, <3>1, ConcatEmptySeq
    <2>3. SubSeq(emitted', from' + 1, Len(emitted')) = <<>>
        <3>1. from' + 1 \in Int /\ Len(emitted') \in Int /\ Len(emitted') < from' + 1
            BY <2>1
        <3>2. QED
            BY <3>1, SubSeqEmpty
    <2>4. Len(emitted') \in from' .. Len(emitted')
        BY <2>1
    <2>5. QED
        BY <2>1, <2>2, <2>3, <2>4 DEF FeedInv, EarlyFeed, HeardInOrder
<1>2. CASE Receive
    <2>1. /\ queue # <<>> /\ heard' = Append(heard, Head(queue)) /\ queue' = Tail(queue)
          /\ UNCHANGED <<from, emitted, forwarding>>
        BY <1>2 DEF Receive, serverVars
    <2>2. heard \in Seq(Sessions) /\ queue \in Seq(Sessions)
        BY DEF TypeOK
    <2>3. heard' \o queue' = heard \o queue
        <3>1. Head(queue) \in Sessions /\ Tail(queue) \in Seq(Sessions) /\ <<Head(queue)>> \in Seq(Sessions)
            BY <2>1, <2>2, HeadTailProperties
        <3>2. heard' = heard \o <<Head(queue)>>
            BY <2>1, <2>2, <3>1, AppendIsConcat
        <3>3. <<Head(queue)>> \o Tail(queue) = queue
            BY <2>1, <2>2
        <3>4. QED
            BY <2>1, <2>2, <3>1, <3>2, <3>3, ConcatAssociative
    <2>4. from # None
        BY <2>1 DEF FeedInv, EarlyFeed
    <2>5. QED
        BY <2>1, <2>3, <2>4 DEF FeedInv, EarlyFeed, HeardInOrder
<1>3. QED
    BY <1>1, <1>2

\* A subscriber hears every event of its type from its subscription to the next reset, in the
\* order in which they happened and once, whenever it subscribes and however slow it is.
THEOREM HeardOnceInOrder == Spec => []HeardInOrder
<1>1. Init => FeedInv
    BY DEF Init, FeedInv, EarlyFeed, HeardInOrder
<1>2. TypeOK /\ FeedInv /\ [Next]_vars => FeedInv'
    <2> SUFFICES ASSUME TypeOK, FeedInv, [Next]_vars PROVE FeedInv'
        OBVIOUS
    <2>1. CASE UNCHANGED <<emitted, from, queue, heard>> /\ (forwarding' => forwarding)
        BY <2>1 DEF FeedInv, EarlyFeed, HeardInOrder
    <2>2. ASSUME NEW s \in Sessions, Connect(s) \/ Close(s) PROVE FeedInv'
        <3>1. UNCHANGED <<forwarding, from, heard>> /\ <<s>> \in Seq(Sessions)
            BY <2>2 DEF Connect, Close
        <3>2. CASE UNCHANGED <<emitted, queue>>
            BY <2>1, <3>1, <3>2
        <3>3. ASSUME NEW t, Emit(t, <<s>>) PROVE FeedInv'
            BY <3>1, <3>3, EmitKeepsFeed
        <3>4. QED
            BY <2>2, <3>2, <3>3 DEF Connect, Close
    <2>3. CASE Reset
        <3>1. PICK told \in SetToSeqs({s \in Ending : Announced(s) /\ s \notin lost}) :
                 Emit("peer-disconnected", told)
            BY <2>3 DEF Reset
        <3>2. told \in Seq(Sessions)
            <4>1. {s \in Ending : Announced(s) /\ s \notin lost} \in SUBSET Sessions
                BY DEF Ending
            <4>2. QED
                BY <4>1, OrdersAreSequences
        <3>3. UNCHANGED <<from, heard>> /\ (forwarding' => forwarding)
            BY <2>3 DEF Reset
        <3>4. QED
            BY <3>1, <3>2, <3>3, EmitKeepsFeed
    <2>4. CASE Subscribe \/ Receive
        BY <2>4, FeedKeepsOrder
    <2>5. ASSUME NEW k \in Callers,
                 (\E r \in Requests : Send(k, r)) \/ Serve(k) \/ Reply(k) \/ BuildFails(k)
          PROVE  FeedInv'
        BY <2>1, <2>5 DEF Send, Serve, CreatePeer, SetRules, AddRule, Refuse, CreateSession,
                          CallSession, Reply, BuildFails, serverVars, feedVars
    <2>6. CASE (\E s \in Sessions : NativeCloses(s)) \/ UNCHANGED vars
        BY <2>1, <2>6 DEF NativeCloses, vars, serverVars, feedVars
    <2>7. QED
        BY <2>2, <2>3, <2>4, <2>5, <2>6 DEF Next
<1>3. FeedInv => HeardInOrder
    BY DEF FeedInv
<1>4. QED
    BY <1>1, <1>2, <1>3, TypeCorrect, PTL DEF Spec

-----------------------------------------------------------------------------
(* Rules.                                                                  *)

\* Only the request that sets the rules settles a call that sets them.  What the plugin lets
\* through, the server's loop never fails on: the list is taken over whole, or, when the plugin
\* refuses it, the old one stays.
THEOREM RulesStayWhole == Spec => RulesAreWhole
<1>1. TypeOK /\ [Next]_vars
         => [\A k \in Callers : Asks(k, {"setRTCRules"}) /\ call'[k] = None
                => rules' = rules \/ rules' = call[k].rules]_vars
    <2> SUFFICES ASSUME TypeOK, Next, NEW k \in Callers, Asks(k, {"setRTCRules"}), call'[k] = None
                 PROVE  rules' = rules \/ rules' = call[k].rules
        OBVIOUS
    <2>1. ASSUME NEW j \in Callers, SetRules(j) PROVE rules' = rules \/ rules' = call[k].rules
        <3>1. call' = [call EXCEPT ![j] = None]
            BY <2>1 DEF SetRules, Settles
        <3>2. CASE j = k
            BY <2>1, <3>2, AddsAll DEF SetRules
        <3>3. CASE j # k
            BY <3>1, <3>3 DEF Asks, TypeOK
        <3>4. QED
            BY <3>2, <3>3
    <2>2. ASSUME NEW j \in Callers, AddRule(j) PROVE rules' = rules
        <3>1. call' = [call EXCEPT ![j] = None] /\ Asks(j, {"addRTCRule"})
            BY <2>2 DEF AddRule, Settles
        <3>2. j # k
            BY <3>1 DEF Asks
        <3>3. QED
            BY <3>1, <3>2 DEF Asks, TypeOK
    <2>3. CASE Reset
        BY <2>3 DEF Reset, Asks
    <2>4. ASSUME NEW j \in Callers,
                 \/ \E r \in Requests : Send(j, r)
                 \/ CreatePeer(j) \/ Refuse(j) \/ CreateSession(j) \/ CallSession(j)
                 \/ Reply(j) \/ BuildFails(j)
          PROVE  rules' = rules
        BY <2>4 DEF Send, CreatePeer, Refuse, CreateSession, CallSession, Reply, BuildFails, serverVars
    <2>5. CASE (\E s \in Sessions : Connect(s) \/ NativeCloses(s) \/ Close(s)) \/ Subscribe \/ Receive
        BY <2>5 DEF Connect, NativeCloses, Close, Subscribe, Receive, serverVars
    <2>6. QED
        BY <2>1, <2>2, <2>3, <2>4, <2>5 DEF Next, Serve
<1>2. QED
    BY <1>1, TypeCorrect, PTL DEF Spec, RulesAreWhole
=============================================================================
