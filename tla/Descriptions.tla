---------------------------- MODULE Descriptions ----------------------------
(***************************************************************************)
(* How an RTCConnection builds the session descriptions that it hands out  *)
(* (buildLocalDescription, getMirroredLocalOffer, getMirroredLocalAnswer   *)
(* and the sessionApi of src/webrtc/rtc-connection.ts), while the          *)
(* connection lives through what RTCConnection describes.                  *)
(*                                                                         *)
(* A call builds one description.  Most wait until the native connection   *)
(* has gathered its candidates; the library keeps one listener for that    *)
(* (`listener').  A connection that has nothing to negotiate gets a set-up *)
(* channel, which must be gone before the remote side can see it.  The     *)
(* texts of descriptions are left out, except whether there are tracks and *)
(* a data stream to mirror.                                                *)
(***************************************************************************)
EXTENDS RTCConnection

CONSTANT MaxCalls   \* bound: how many descriptions are asked for

ASSUME DescriptionsAssumption == MaxCalls \in Nat

VARIABLES
    gathering,   \* gathering[c]: the native gatheringState()
    told,        \* connections whose 'complete' callback is queued
    listener,    \* listener[c]: the call whose onGatheringStateChange is registered, 0 if none
    calls        \* the calls so far: the connection, kind, progress and set-up channel of each

descVars == <<gathering, told, listener, calls>>
vars == <<connVars, descVars>>

Kinds == {"build-offer", "build-answer", "mirror-offer", "mirror-answer"}
Answers == {"build-answer", "mirror-answer"}

Numbers == 1 .. Len(calls)
Of(c) == {i \in Numbers : calls[i].conn = c}

\* The call that made the connection (the peer makes the connection to serve it).
Maker(c) == CHOOSE i \in Of(c) : \A j \in Of(c) : i <= j

\* The session of c, which later calls need, is handed out with the first description.
Exposed(c) == Of(c) # {} /\ calls[Maker(c)].progress = "delivered"

\* Promises that are resolved continue before the next callback.
Quiescent == \A i \in Numbers : calls[i].progress # "resumed"

Init ==
    /\ NoConns
    /\ gathering = [c \in Conns |-> "new"]
    /\ told = {}
    /\ listener = [c \in Conns |-> 0]
    /\ calls = <<>>

-----------------------------------------------------------------------------
(* Starting a description.                                                 *)

Record(c, kind, progress, setup) ==
    calls' = Append(calls, [conn |-> c, kind |-> kind, progress |-> progress, setup |-> setup])

\* Anything to negotiate makes the library gather candidates, once; that may be over at once,
\* and then its callback is queued.
Gather(c, g) ==
    /\ IF gathering[c] = "new" THEN g \in {"in-progress", "complete"} ELSE g = gathering[c]
    /\ gathering' = [gathering EXCEPT ![c] = g]
    /\ told' = IF gathering[c] = "new" /\ g = "complete" THEN told \cup {c} ELSE told

\* Faulty variant: no look at the state after the listener is registered.
AwaitUnchecked(c, kind, setup) ==
    \E g \in {"in-progress", "complete"} :
        /\ Gather(c, g)
        /\ listener' = [listener EXCEPT ![c] = Len(calls) + 1]
        /\ Record(c, kind, "waiting", setup)

\* Faulty variant: the description is read without waiting.
AwaitNothing(c, kind, setup) ==
    \E g \in {"in-progress", "complete"} :
        /\ Gather(c, g)
        /\ listener' = [listener EXCEPT ![c] = Len(calls) + 1]
        /\ Record(c, kind, "resumed", setup)

\* Register the listener, which replaces an earlier one, and wait unless gathering is over.
Await(c, kind, setup) ==
    \E g \in {"in-progress", "complete"} :
        /\ Gather(c, g)
        /\ listener' = [listener EXCEPT ![c] = Len(calls) + 1]
        /\ Record(c, kind, IF g = "complete" THEN "resumed" ELSE "waiting", setup)

\* Faulty variant: no set-up channel, so that there is nothing to gather for.
BuildOfferBare(c) ==
    IF gathering[c] # "new" THEN Await(c, "build-offer", "none")
    ELSE /\ listener' = [listener EXCEPT ![c] = Len(calls) + 1]
         /\ Record(c, "build-offer", "waiting", "none")
         /\ UNCHANGED <<gathering, told>>

\* buildLocalDescription() makes a set-up channel when gathering has not begun.
BuildOffer(c) ==
    Await(c, "build-offer", IF gathering[c] = "new" THEN "open" ELSE "none")

\* getMirroredLocalOffer() adds the tracks to mirror, and makes a set-up channel for a data
\* stream, or when it has nothing else.  The native setLocalDescription() throws in the wrong
\* signalling state of a connection that was negotiated before.
MirrorOffer(c) ==
    \E data \in BOOLEAN, media \in BOOLEAN :
        LET setup == IF data \/ (gathering[c] = "new" /\ ~media) THEN "open" ELSE "none" IN
        \/ Await(c, "mirror-offer", setup)
        \/ /\ desc[c]
           /\ Record(c, "mirror-offer", "failed", setup)
           /\ UNCHANGED <<gathering, told, listener>>

\* answerOffer(): the remote offer makes the library gather, so that no set-up channel is
\* needed, and the answer is built.
BuildAnswer(c) == Await(c, "build-answer", "none")

\* getMirroredLocalAnswer() reads what the library has by now.  Mirroring throws when the
\* tracks do not correspond.
MirrorAnswer(c) ==
    /\ \E g \in {"in-progress", "complete"} : Gather(c, g)
    /\ \E result \in {"delivered", "failed"} : Record(c, "mirror-answer", result, "none")
    /\ UNCHANGED listener

Build(c, kind) ==
    \/ kind = "build-offer" /\ BuildOffer(c)
    \/ kind = "mirror-offer" /\ MirrorOffer(c)
    \/ kind = "build-answer" /\ BuildAnswer(c)
    \/ kind = "mirror-answer" /\ MirrorAnswer(c)

\* A peer makes connection c to offer, or to answer an offer, and asks it for the description.
FirstCall(c, kind) ==
    /\ Quiescent /\ Len(calls) < MaxCalls
    /\ raw[c] = "none"
    /\ raw' = [raw EXCEPT ![c] = "open"]
    /\ desc' = [desc EXCEPT ![c] = kind \in Answers]
    /\ native' = [native EXCEPT ![c] = IF kind \in Answers THEN "connecting" ELSE @]
    /\ UNCHANGED <<pend, mirror>>
    /\ Build(c, kind)

\* A renegotiation through the session of c.
LaterCall(c, kind) ==
    /\ Quiescent /\ Len(calls) < MaxCalls
    /\ Exposed(c) /\ raw[c] = "open"
    /\ IF kind \in Answers THEN SetRemoteDescription(c) ELSE UNCHANGED connVars
    /\ Build(c, kind)

\* The library refuses the offer to answer, after setRemoteDescription() has remembered it.
OfferRefused(c) ==
    /\ Quiescent /\ Len(calls) < MaxCalls
    /\ Exposed(c) /\ raw[c] = "open"
    /\ RefuseDescription(c)
    /\ Record(c, "build-answer", "failed", "none")
    /\ UNCHANGED <<gathering, told, listener>>

\* Every call on a closed connection throws.
CallOnClosed(c, kind) ==
    /\ Quiescent /\ Len(calls) < MaxCalls
    /\ Exposed(c) /\ raw[c] = "null"
    /\ Record(c, kind, "failed", "none")
    /\ UNCHANGED <<connVars, gathering, told, listener>>

\* completeOffer(), once an offer was delivered.
CompleteOffer(c) ==
    /\ Quiescent
    /\ \E i \in Of(c) : calls[i].progress = "delivered" /\ calls[i].kind \notin Answers
    /\ SetRemoteDescription(c)
    /\ UNCHANGED descVars

-----------------------------------------------------------------------------
(* Gathering, and what follows it.                                         *)

GatheringEnds(c) ==
    /\ gathering[c] = "in-progress" /\ native[c] # "closed"
    /\ gathering' = [gathering EXCEPT ![c] = "complete"]
    /\ told' = told \cup {c}
    /\ UNCHANGED <<connVars, listener, calls>>

\* The callback resolves the wait of the call that registered last.
GatheringCallback(c) ==
    /\ Quiescent
    /\ c \in told
    /\ told' = told \ {c}
    /\ calls' = [i \in Numbers |->
            IF i = listener[c] /\ calls[i].progress = "waiting"
            THEN [calls[i] EXCEPT !.progress = "resumed"] ELSE calls[i]]
    /\ UNCHANGED <<connVars, gathering, listener>>

\* A connection that is closed may drop its callbacks.
CallbackDropped(c) ==
    /\ c \in told /\ native[c] = "closed"
    /\ told' = told \ {c}
    /\ UNCHANGED <<connVars, gathering, listener, calls>>

\* Faulty variant: the set-up channel is left to the connection.
ResumeKeepingSetup(i) ==
    /\ calls[i].progress = "resumed"
    /\ \/ /\ raw[calls[i].conn] = "open"
          /\ calls' = [calls EXCEPT ![i].progress = "delivered"]
       \/ /\ raw[calls[i].conn] = "null" \/ calls[i].kind = "mirror-offer"
          /\ calls' = [calls EXCEPT ![i].progress = "failed"]
    /\ UNCHANGED <<connVars, gathering, told, listener>>

\* The wait is over: throw if the connection was closed meanwhile, or else close the set-up
\* channel and deliver.  A mirrored offer throws when the tracks do not correspond.
Resume(i) ==
    /\ calls[i].progress = "resumed"
    /\ IF raw[calls[i].conn] = "null"
       THEN calls' = [calls EXCEPT ![i].progress = "failed"]
       ELSE \E result \in {"delivered"} \cup (IF calls[i].kind = "mirror-offer" THEN {"failed"} ELSE {}) :
              calls' = [calls EXCEPT ![i].progress = result,
                                     ![i].setup = IF @ = "none" THEN "none" ELSE "closed"]
    /\ UNCHANGED <<connVars, gathering, told, listener>>

\* On a connection that is connected, an open channel is announced to the remote side.
SetupOpens(i) ==
    /\ calls[i].setup = "open"
    /\ native[calls[i].conn] = "connected"
    /\ calls' = [calls EXCEPT ![i].setup = "visible"]
    /\ UNCHANGED <<connVars, gathering, told, listener>>

-----------------------------------------------------------------------------
\* Whatever else happens to a connection.  A partner that it is mirrored with can only close it.
Elsewhere ==
    /\ \E c \in Conns :
          \/ \E s \in NativeStates : NativeChange(c, s)
          \/ Close({c})
          \/ Quiescent /\ StateCallback(c)
    /\ UNCHANGED descVars

Next ==
    \/ \E c \in Conns :
          \/ \E kind \in Kinds : FirstCall(c, kind) \/ LaterCall(c, kind) \/ CallOnClosed(c, kind)
          \/ OfferRefused(c) \/ CompleteOffer(c)
          \/ GatheringEnds(c) \/ GatheringCallback(c) \/ CallbackDropped(c)
    \/ \E i \in Numbers : Resume(i) \/ SetupOpens(i)
    \/ Elsewhere

\* The library ends what it gathers, and the event loop delivers callbacks and continuations.
Fairness ==
    /\ \A c \in Conns : WF_vars(GatheringEnds(c)) /\ WF_vars(GatheringCallback(c))
    /\ \A i \in 1 .. MaxCalls : WF_vars(i \in Numbers /\ Resume(i))

Spec == Init /\ [][Next]_vars

FairSpec == Spec /\ Fairness

-----------------------------------------------------------------------------
(* Properties.                                                             *)

\* Types, and: what waits for gathering has begun it ("it will not resolve if no DataChannel,
\* other tracks or remote description have been provided beforehand").
TypeOK ==
    /\ ConnTypeOK
    /\ gathering \in [Conns -> {"new", "in-progress", "complete"}]
    /\ told \subseteq Conns
    /\ listener \in [Conns -> 0 .. MaxCalls]
    /\ calls \in Seq([conn : Conns, kind : Kinds,
                      progress : {"waiting", "resumed", "delivered", "failed"},
                      setup : {"none", "open", "visible", "closed"}])
    /\ \A c \in Conns : listener[c] # 0 => gathering[c] # "new"

\* A description that waits for gathering has all the candidates when it is delivered,
\* whatever else was asked of the connection in between ("waiting until gathering is
\* complete to provide a full result").
DeliveredComplete ==
    \A i \in Numbers :
        calls[i].progress = "delivered" /\ calls[i].kind # "mirror-answer"
            => gathering[calls[i].conn] = "complete"

\* The set-up channel of the negotiation that makes a connection, and of every description
\* that is not a mirrored offer, is never visible to the remote side ("we remove it before
\* the offer is delivered, so it's never visible remotely").
SetupHidden ==
    \A i \in Numbers :
        calls[i].setup = "visible" => calls[i].kind = "mirror-offer" /\ i # Maker(calls[i].conn)

\* Call i waits for gathering.
Waits(i) == i \in Numbers /\ calls[i].progress = "waiting"

\* The newest wait ends, by its callback or because gathering was over when it began, unless
\* the connection is closed meanwhile or the listener is lost to a later call.
NewestWaitSettles ==
    \A i \in 1 .. MaxCalls :
        LET Listens == Waits(i) /\ listener[calls[i].conn] = i /\ native[calls[i].conn] # "closed"
        IN Listens ~> ~Listens
=============================================================================
