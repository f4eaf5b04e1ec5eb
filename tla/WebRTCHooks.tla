---------------------------- MODULE WebRTCHooks ----------------------------
(***************************************************************************)
(* An RTCPeerConnection hooked by hookWebRTCConnection                     *)
(* (src/webrtc-hooks.ts).  Each signalling call of the application becomes *)
(* native calls on the hooked connection and requests to the mock peer.    *)
(* The native connection runs its calls one at a time in the order they    *)
(* were made (the operations chain of WebRTC); requests are answered in    *)
(* any order.  The application calls in an order that WebRTC allows, but   *)
(* may make a call before the one before it is over.  That takes it where  *)
(* the hooks do not follow when it begins a negotiation before the last    *)
(* one is over, lets them choose a description while others are being set, *)
(* or sets one that they did not make; the model has all that, and notes   *)
(* it in `strayed'.                                                        *)
(*                                                                         *)
(* A call is named by its number, and so is the description it makes: the  *)
(* offer or answer of a create call, the remote offer of a set call.       *)
(***************************************************************************)
EXTENDS Naturals, Sequences, FiniteSets

CONSTANT MaxCalls   \* bound: how many calls the application makes

ASSUME HooksAssumption == MaxCalls \in Nat

VARIABLES
    calls,          \* the calls so far
    intent,         \* what the application has called for: "stable", "offering", "answering"
    chosen,         \* create calls of a setLocalDescription() without argument that has not gone on
    strayed,        \* has the application done what the hooks do not follow
    native,         \* signalingState of the real connection
    chain,          \* calls with a native operation that waits for its turn
    lastOffer,      \* the offer, and
    lastAnswer,     \* the answer, that the native connection created last
    selected,       \* selectedDescription: the create call it is from, 0 if none
    mockOffer,      \* mockOffer: the setRemoteDescription call that asked for it, 0 if none
    pendingLocal, pendingRemote,   \* what the hooked properties show, 0 if null
    currentLocal, currentRemote,
    attached        \* id in the attach-external message, once it is sent; 0 before

appVars == <<calls, intent, chosen, strayed>>
nativeVars == <<native, chain, lastOffer, lastAnswer>>
shownVars == <<pendingLocal, pendingRemote, currentLocal, currentRemote>>
vars == <<appVars, nativeVars, selected, mockOffer, shownVars, attached>>

Numbers == 1 .. Len(calls)

Kinds == {"createOffer", "createAnswer", "setLocalOffer", "setLocalAnswer",
          "setRemoteOffer", "setRemoteAnswer"}
Completing == {"setLocalAnswer", "setRemoteAnswer"}
Sets == Completing \cup {"setLocalOffer", "setRemoteOffer"}

\* A call is in its main part at "mock-offer" (awaiting mockOffer), "peer" (a request),
\* "native", "done" or "failed"; `half' is the setAnswer of Promise.all beside it.  `of' is
\* the description it is about.
Resolved(i) == calls[i].at = "done" /\ calls[i].half \in {"none", "done"}
Failed(i) == calls[i].at = "failed" \/ calls[i].half = "failed"
Settled(i) == Resolved(i) \/ Failed(i)

Init ==
    /\ calls = <<>> /\ intent = "stable" /\ chosen = {} /\ strayed = FALSE
    /\ native = "stable" /\ chain = <<>> /\ lastOffer = 0 /\ lastAnswer = 0
    /\ selected = 0 /\ mockOffer = 0
    /\ pendingLocal = 0 /\ pendingRemote = 0 /\ currentLocal = 0 /\ currentRemote = 0
    /\ attached = 0

-----------------------------------------------------------------------------
(* The application.                                                        *)

\* It gives up when a call fails.
MayCall == Len(calls) + Cardinality(chosen) < MaxCalls /\ \A i \in Numbers : ~Failed(i)

\* It begins a negotiation when it has called for the end of the last one.
MayNegotiate == MayCall /\ intent = "stable"

\* Negotiations that were called for are over.
Over == chosen = {} /\ \A i \in Numbers : calls[i].kind \in Completing => Resolved(i)

\* A call that the hooks do not follow, unless ok.
Strays(ok) == strayed' = (strayed \/ ~ok)

\* The newest description that call kind has made for this negotiation.
Newest(i, kind) ==
    /\ calls[i].kind = kind /\ calls[i].at = "done" /\ i \notin chosen
    /\ \A j \in i + 1 .. Len(calls) : calls[j].kind \notin {kind, "setRemoteOffer"} \cup Completing

New == Len(calls) + 1

Call(kind, at, half, of) ==
    calls' = Append(calls, [kind |-> kind, at |-> at, half |-> half, of |-> of])

Enqueue(i) == chain' = Append(chain, i)

\* A call goes to the native connection at once, or waits for something else first.
Begin(kind, at, half, of) ==
    /\ Call(kind, at, half, of)
    /\ IF at = "native" THEN Enqueue(New) ELSE UNCHANGED chain

CreateOffer ==
    /\ MayNegotiate
    /\ Begin("createOffer", "native", "none", 0)
    /\ Strays(Over)
    /\ UNCHANGED <<intent, chosen, native, lastOffer, lastAnswer, selected, mockOffer, shownVars, attached>>

\* setLocalDescription() with an offer remembers and selects it before anything else.
LocalOffer(i) ==
    /\ pendingLocal' = i /\ selected' = i
    /\ Begin("setLocalOffer", "native", "none", i)

SetLocalOffer(i) ==
    /\ MayNegotiate /\ i \in Numbers /\ Newest(i, "createOffer")
    /\ LocalOffer(i)
    /\ intent' = "offering"
    /\ Strays(Over)
    /\ UNCHANGED <<chosen, native, lastOffer, lastAnswer, mockOffer, pendingRemote, currentLocal, currentRemote, attached>>

\* Faulty variant: the answer is not passed on to the external connection.
SetRemoteAnswerAlone ==
    /\ MayCall /\ intent = "offering" /\ (chosen = {} \/ pendingLocal # 0)
    /\ Begin("setRemoteAnswer", "peer", "none", selected)
    /\ intent' = "stable"
    /\ Strays(chosen = {})
    /\ UNCHANGED <<chosen, native, lastOffer, lastAnswer, selected, mockOffer, shownVars, attached>>

\* setRemoteDescription() with the answer of the remote side to the offer that was set: the
\* external connection is told, and the mock peer asked for an answer to the real offer.  That
\* throws when an answer is selected by now.
SetRemoteAnswer ==
    /\ MayCall /\ intent = "offering" /\ (chosen = {} \/ pendingLocal # 0)
    /\ IF selected # 0 /\ calls[selected].kind = "createOffer"
       THEN Begin("setRemoteAnswer", "peer", "pending", selected)
       ELSE Begin("setRemoteAnswer", "failed", "none", 0)
    /\ intent' = "stable"
    /\ Strays(chosen = {})
    /\ UNCHANGED <<chosen, native, lastOffer, lastAnswer, selected, mockOffer, shownVars, attached>>

\* setRemoteDescription() with an offer asks the mock peer for one that mirrors it.
SetRemoteOffer ==
    /\ MayNegotiate
    /\ pendingRemote' = New /\ mockOffer' = New
    /\ Begin("setRemoteOffer", "peer", "none", New)
    /\ intent' = "answering"
    /\ Strays(Over)
    /\ UNCHANGED <<chosen, native, lastOffer, lastAnswer, selected, pendingLocal, currentLocal, currentRemote, attached>>

\* Faulty variant: the mock offer is not awaited.
CreateAnswerAtOnce ==
    /\ MayCall /\ intent = "answering"
    /\ Begin("createAnswer", "native", "none", 0)
    /\ Strays(chosen = {})
    /\ UNCHANGED <<intent, chosen, native, lastOffer, lastAnswer, selected, mockOffer, shownVars, attached>>

\* What awaits the mock offer continues at once when it is there already.
OnceOffered ==
    CASE calls[mockOffer].at = "peer" -> "mock-offer"
      [] calls[mockOffer].at = "failed" -> "failed"
      [] OTHER -> "native"

CreateAnswer ==
    /\ MayCall /\ intent = "answering"
    /\ Begin("createAnswer", OnceOffered, "none", 0)
    /\ Strays(chosen = {})
    /\ UNCHANGED <<intent, chosen, native, lastOffer, lastAnswer, selected, mockOffer, shownVars, attached>>

\* setLocalDescription() with an answer awaits the mock offer, to complete it.
LocalAnswer(i) ==
    /\ selected' = i
    /\ Begin("setLocalAnswer", OnceOffered, IF OnceOffered = "failed" THEN "none" ELSE "pending", i)
    /\ UNCHANGED pendingLocal

SetLocalAnswer(i) ==
    /\ MayCall /\ intent = "answering" /\ i \in Numbers /\ Newest(i, "createAnswer")
    /\ LocalAnswer(i)
    /\ intent' = "stable"
    /\ Strays(chosen = {})
    /\ UNCHANGED <<chosen, native, lastOffer, lastAnswer, mockOffer, pendingRemote, currentLocal, currentRemote, attached>>

\* setLocalDescription() without argument calls the hooked createOffer() or createAnswer(), as
\* the native signalling state says.
SetLocalChosen ==
    /\ MayCall /\ Len(calls) + Cardinality(chosen) + 1 < MaxCalls
    /\ intent # "offering"
    /\ IF native = "have-remote-offer" THEN Begin("createAnswer", OnceOffered, "none", 0)
       ELSE Begin("createOffer", "native", "none", 0)
    /\ chosen' = chosen \cup {New}
    /\ intent' = IF intent = "stable" THEN "offering" ELSE "stable"
    /\ Strays(chosen = {} /\ \A i \in Numbers : calls[i].kind \in Sets => Resolved(i))
    /\ UNCHANGED <<native, lastOffer, lastAnswer, selected, mockOffer, shownVars, attached>>

\* It goes on with what was made.
ChosenIsSet(i) ==
    /\ i \in chosen /\ calls[i].at = "done"
    /\ chosen' = chosen \ {i}
    /\ IF calls[i].kind = "createOffer" THEN LocalOffer(i) ELSE LocalAnswer(i)
    /\ UNCHANGED <<intent, strayed, native, lastOffer, lastAnswer, mockOffer, pendingRemote, currentLocal, currentRemote, attached>>

\* A description that the hooks did not make: it is selected, and shown if it is an offer, by
\* the time that throws.
SetLocalForeign(kind) ==
    /\ MayCall
    /\ IF kind = "setLocalOffer" THEN intent = "stable" /\ pendingLocal' = New
       ELSE intent = "answering" /\ UNCHANGED pendingLocal
    /\ selected' = 0
    /\ Begin(kind, "failed", "none", New)
    /\ Strays(FALSE)
    /\ UNCHANGED <<intent, chosen, native, lastOffer, lastAnswer, mockOffer, pendingRemote, currentLocal, currentRemote, attached>>

-----------------------------------------------------------------------------
(* Continuations.                                                          *)

\* Faulty variant: the pending descriptions are not reset.
SwapKeeping(i) ==
    /\ currentLocal' = IF calls[i].kind = "setLocalAnswer" THEN calls[i].of ELSE pendingLocal
    /\ currentRemote' = IF calls[i].kind = "setLocalAnswer" THEN pendingRemote ELSE calls[i].of
    /\ UNCHANGED <<pendingLocal, pendingRemote>>

\* The last lines of the set calls: what was pending is now current.
Swap(i) ==
    /\ currentLocal' = IF calls[i].kind = "setLocalAnswer" THEN calls[i].of ELSE pendingLocal
    /\ currentRemote' = IF calls[i].kind = "setLocalAnswer" THEN pendingRemote ELSE calls[i].of
    /\ pendingLocal' = 0 /\ pendingRemote' = 0

\* Faulty variant: setAnswer() is not awaited.
BecomesAlone(i, c) ==
    /\ calls' = [calls EXCEPT ![i] = c]
    /\ IF c.kind \in Completing /\ c.at = "done" /\ calls[i].at # "done"
       THEN Swap(i) ELSE UNCHANGED shownVars

\* Call i, whose record becomes c, swaps when both of its parts are done.
Becomes(i, c) ==
    /\ calls' = [calls EXCEPT ![i] = c]
    /\ IF c.kind \in Completing /\ c.at = "done" /\ c.half \in {"none", "done"}
       THEN Swap(i) ELSE UNCHANGED shownVars

\* The native connection does the operation of call i, if its state allows that.
NativeAllows(i) ==
    LET c == calls[i] IN
    CASE c.kind = "createOffer"     -> native \in {"stable", "have-local-offer"}
      [] c.kind = "createAnswer"    -> native = "have-remote-offer"
      [] c.kind = "setLocalOffer"   -> native \in {"stable", "have-local-offer"} /\ lastOffer = c.of
      [] c.kind = "setLocalAnswer"  -> native = "have-remote-offer" /\ lastAnswer = c.of
      [] c.kind = "setRemoteOffer"  -> native \in {"stable", "have-remote-offer"}
      [] c.kind = "setRemoteAnswer" -> native = "have-local-offer" /\ lastOffer = c.of

NativeRun ==
    LET i == Head(chain) c == calls[i] IN
    /\ chain # <<>>
    /\ chain' = Tail(chain)
    /\ IF ~NativeAllows(i)
       THEN Becomes(i, [c EXCEPT !.at = "failed"]) /\ UNCHANGED <<native, lastOffer, lastAnswer>>
       ELSE /\ native' = CASE c.kind \in Completing -> "stable"
                           [] c.kind = "setLocalOffer" -> "have-local-offer"
                           [] c.kind = "setRemoteOffer" -> "have-remote-offer"
                           [] OTHER -> native
            /\ lastOffer' = IF c.kind = "createOffer" THEN i ELSE lastOffer
            /\ lastAnswer' = IF c.kind = "createAnswer" THEN i ELSE lastAnswer
            /\ Becomes(i, CASE c.kind = "createOffer" -> [c EXCEPT !.at = "peer"]
                            [] c.kind = "createAnswer" ->
                                 [c EXCEPT !.at = IF pendingRemote = 0 THEN "failed" ELSE "peer", !.of = pendingRemote]
                            [] OTHER -> [c EXCEPT !.at = "done"])
    /\ UNCHANGED <<intent, chosen, strayed, selected, mockOffer, attached>>

\* Call j awaits the mock offer that call i asked for, the last one when j was made.
Awaits(j, i) ==
    /\ calls[j].at = "mock-offer" /\ i < j
    /\ \A n \in i + 1 .. j - 1 : calls[n].kind # "setRemoteOffer"

\* The calls that do, in the order they were made.
Waiting(i) ==
    LET W == {j \in Numbers : Awaits(j, i)} IN
    [n \in 1 .. Cardinality(W) |-> CHOOSE j \in W : Cardinality({k \in W : k <= j}) = n]

\* The mock offer arrives: first its own call goes on, then those that await it.
MockOfferArrives(i) ==
    /\ calls[i].kind = "setRemoteOffer" /\ calls[i].at = "peer"
    /\ calls' = [j \in Numbers |-> IF j = i \/ Awaits(j, i)
                                   THEN [calls[j] EXCEPT !.at = "native"] ELSE calls[j]]
    /\ chain' = Append(chain, i) \o Waiting(i)
    /\ UNCHANGED <<intent, chosen, strayed, native, lastOffer, lastAnswer, selected, mockOffer, shownVars, attached>>

\* The peer replies to any other request: a create call is over, and the answer to the real
\* offer is set on the native connection.
PeerReplies(i) ==
    /\ calls[i].kind # "setRemoteOffer" /\ calls[i].at = "peer"
    /\ IF calls[i].kind = "setRemoteAnswer"
       THEN calls' = [calls EXCEPT ![i].at = "native"] /\ Enqueue(i)
       ELSE calls' = [calls EXCEPT ![i].at = "done"] /\ UNCHANGED chain
    /\ UNCHANGED <<intent, chosen, strayed, native, lastOffer, lastAnswer, selected, mockOffer, shownVars, attached>>

\* The setAnswer() beside the main part.
HalfReplies(i) ==
    /\ calls[i].half = "pending" /\ calls[i].at # "mock-offer"
    /\ Becomes(i, [calls[i] EXCEPT !.half = "done"])
    /\ UNCHANGED <<intent, chosen, strayed, nativeVars, selected, mockOffer, attached>>

\* Faulty variant: what awaits the mock offer is not told.
PeerRefusesAlone(i) ==
    /\ \/ calls[i].at = "peer" /\ calls' = [calls EXCEPT ![i].at = "failed"]
       \/ calls[i].half = "pending" /\ calls[i].at # "mock-offer" /\ calls' = [calls EXCEPT ![i].half = "failed"]
    /\ UNCHANGED <<intent, chosen, strayed, nativeVars, selected, mockOffer, shownVars, attached>>

\* The peer refuses a request.  What awaits the mock offer fails with it, and asks for nothing.
PeerRefuses(i) ==
    /\ \/ /\ calls[i].at = "peer"
          /\ calls' = [j \in Numbers |->
                IF j = i THEN [calls[j] EXCEPT !.at = "failed"]
                ELSE IF calls[i].kind = "setRemoteOffer" /\ Awaits(j, i)
                THEN [calls[j] EXCEPT !.at = "failed", !.half = "none"] ELSE calls[j]]
       \/ calls[i].half = "pending" /\ calls[i].at # "mock-offer" /\ calls' = [calls EXCEPT ![i].half = "failed"]
    /\ UNCHANGED <<intent, chosen, strayed, nativeVars, selected, mockOffer, shownVars, attached>>

\* Faulty variant: the message names the description that was created last.
ControlOpensNewest ==
    /\ attached = 0
    /\ \E i \in Numbers :
          /\ calls[i].kind \in Completing /\ calls[i].at = "done"
          /\ calls[i].kind = "setLocalAnswer" => calls[i].half # "failed"
    /\ attached' = IF lastAnswer > lastOffer THEN lastAnswer ELSE lastOffer
    /\ UNCHANGED <<appVars, nativeVars, selected, mockOffer, shownVars>>

\* Internal and mock connection have connected, and the control channel opens.  (If no
\* description is selected, that throws and sends nothing.)
ControlOpens ==
    /\ attached = 0
    /\ \E i \in Numbers :
          /\ calls[i].kind \in Completing /\ calls[i].at = "done"
          /\ calls[i].kind = "setLocalAnswer" => calls[i].half # "failed"
    /\ attached' = selected
    /\ UNCHANGED <<appVars, nativeVars, selected, mockOffer, shownVars>>

\* Promises that are resolved continue before anything else happens.
Quiescent == \A i \in chosen : calls[i].at # "done"

Next ==
    \/ \E i \in Numbers : ChosenIsSet(i)
    \/ /\ Quiescent
       /\ \/ CreateOffer \/ SetRemoteAnswer \/ SetRemoteOffer \/ CreateAnswer \/ SetLocalChosen
          \/ SetLocalForeign("setLocalOffer") \/ SetLocalForeign("setLocalAnswer")
          \/ \E i \in Numbers :
                \/ SetLocalOffer(i) \/ SetLocalAnswer(i)
                \/ MockOfferArrives(i) \/ PeerReplies(i) \/ HalfReplies(i) \/ PeerRefuses(i)
          \/ NativeRun \/ ControlOpens

\* Requests are answered, native operations end, and promises continue.
Fairness ==
    /\ WF_vars(Quiescent /\ NativeRun)
    /\ \A i \in 1 .. MaxCalls :
          /\ WF_vars(i \in Numbers /\ ChosenIsSet(i))
          /\ WF_vars(i \in Numbers /\ Quiescent /\ (MockOfferArrives(i) \/ PeerReplies(i)))
          /\ WF_vars(i \in Numbers /\ Quiescent /\ HalfReplies(i))

Spec == Init /\ [][Next]_vars

FairSpec == Spec /\ Fairness

-----------------------------------------------------------------------------
(* Properties.                                                             *)

TypeOK ==
    /\ calls \in Seq([kind : Kinds, at : {"mock-offer", "peer", "native", "done", "failed"},
                      half : {"none", "pending", "done", "failed"}, of : 0 .. MaxCalls])
    /\ \A i \in Numbers : calls[i].of <= Len(calls)
    /\ \A i \in Numbers : IF calls[i].kind \in Completing THEN calls[i].half # "none" \/ calls[i].at = "failed"
                         ELSE calls[i].half = "none"
    /\ chosen \subseteq Numbers /\ strayed \in BOOLEAN
    /\ intent \in {"stable", "offering", "answering"}
    /\ native \in {"stable", "have-local-offer", "have-remote-offer"}
    /\ chain \in Seq(Numbers)
    /\ {lastOffer, lastAnswer, selected, mockOffer, attached} \subseteq 0 .. Len(calls)
    /\ {pendingLocal, pendingRemote, currentLocal, currentRemote} \subseteq 0 .. Len(calls)

\* Calls in a legal order succeed though the application does not wait for each: what the
\* hooks do between a call and its native operation never makes the native connection refuse.
\* That holds until the application strays, and not beyond: a negotiation that is begun
\* before the last one is over is mixed up with it.
NativeNeverRefuses == ~strayed /\ chain # <<>> => NativeAllows(Head(chain))

\* The current descriptions of an application that has not strayed are an offer and the answer
\* to it, and are shown only when both connections were told of them.
CurrentFits ==
    ~strayed /\ currentLocal # 0 =>
        /\ \/ calls[currentLocal].kind = "createOffer" /\ currentRemote = currentLocal
           \/ calls[currentLocal].kind = "createAnswer" /\ currentRemote = calls[currentLocal].of
        /\ \E i \in Numbers : calls[i].kind \in Completing /\ calls[i].of = currentLocal /\ Resolved(i)

\* What the hooked properties show is what the native connection is at, whenever all the calls
\* are over and none has failed, and the application has not strayed.
ShownFits ==
    ~strayed /\ (\A i \in Numbers : Resolved(i)) =>
        /\ pendingLocal # 0 <=> native = "have-local-offer"
        /\ pendingRemote # 0 <=> native = "have-remote-offer"

\* While nothing is under way on the native connection of an application that has not strayed,
\* the attach message names the external connection of a negotiation that made it stable.  (A
\* renegotiation that is begun before the control channel opens makes it name a connection
\* that may never be answered.)
AttachNamesNegotiated ==
    [][ControlOpens /\ ~strayed /\ native = "stable" /\ chain = <<>> =>
         \E i \in Numbers : calls[i].kind \in Completing /\ calls[i].of = attached' /\ calls[i].at = "done"]_vars

\* Every call is over in the end, however the application calls: when the mock offer cannot be
\* made, so is the wait for it.
CallsSettle ==
    \A i \in 1 .. MaxCalls :
        i \in Numbers ~> i \in Numbers /\ Settled(i) /\ (i \in chosen => calls[i].at = "failed")
=============================================================================
