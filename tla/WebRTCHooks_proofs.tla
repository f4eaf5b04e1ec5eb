------------------------- MODULE WebRTCHooks_proofs -------------------------
(* Proofs about WebRTCHooks, for every number of calls.                    *)
EXTENDS WebRTCHooks, SequenceTheorems, FiniteSetTheorems, WellFoundedInduction, TLAPS

CallRecord ==
    [kind : Kinds, at : {"mock-offer", "peer", "native", "done", "failed"},
     half : {"none", "pending", "done", "failed"}, of : 0 .. MaxCalls]

Creates == {"createOffer", "createAnswer"}
Openers == {"setLocalOffer", "setRemoteOffer"}

\* The calls that an application may make while nothing is being negotiated.
Beginners == {"createOffer"} \cup Openers

IsSet(i) == calls[i].kind \in Openers \cup Completing

-----------------------------------------------------------------------------
(* The order in which the application calls.                               *)

\* How far the negotiation is as far as calls were made: a setLocalDescription() without
\* argument counts when it has gone on.
Reached == IF chosen = {} THEN intent ELSE IF intent = "offering" THEN "stable" ELSE "answering"

\* s is the last set call before call k.
LastSet(s, k) ==
    s \in Numbers /\ s < k /\ IsSet(s) /\ \A j \in Numbers : s < j /\ j < k => ~IsSet(j)

\* Before call k, every negotiation that was begun was completed.
StableBefore(k) ==
    \/ \A j \in Numbers : j < k => ~IsSet(j)
    \/ \E s \in Numbers : LastSet(s, k) /\ calls[s].kind \in Completing

OpenBefore(k, kind) == \E s \in Numbers : LastSet(s, k) /\ calls[s].kind = kind

\* The calls of the application follow the signalling states of WebRTC.
Legal ==
    /\ \A k \in Numbers :
          /\ calls[k].kind \in Beginners => StableBefore(k)
          /\ calls[k].kind = "setRemoteAnswer" => OpenBefore(k, "setLocalOffer")
          /\ calls[k].kind \in {"createAnswer", "setLocalAnswer"} => OpenBefore(k, "setRemoteOffer")
    /\ Reached = "stable" => StableBefore(Len(calls) + 1)
    /\ Reached = "offering" => OpenBefore(Len(calls) + 1, "setLocalOffer")
    /\ Reached = "answering" => OpenBefore(Len(calls) + 1, "setRemoteOffer")

\* A negotiation begins when those before it are over, and nothing follows a call that is to
\* complete one before it has.
OneAtATime ==
    \A j, k \in Numbers :
        j < k => /\ calls[k].kind \in Beginners /\ IsSet(j) => Resolved(j)
                 /\ calls[j].kind \in Completing => Resolved(j)

-----------------------------------------------------------------------------
(* How far the calls are.                                                  *)

\* Where a call may be, by its kind.
Places ==
    \A i \in Numbers :
        /\ calls[i].kind \notin Completing => calls[i].half = "none"
        /\ calls[i].kind \in {"setLocalOffer", "setLocalAnswer"} => calls[i].at \in {"native", "done"}

\* The chain has the calls that wait for the native connection, in the order they were made.
ChainFits ==
    /\ \A m, n \in 1 .. Len(chain) : m < n => chain[m] < chain[n]
    /\ \A i \in Numbers : calls[i].at = "native" <=> \E m \in 1 .. Len(chain) : chain[m] = i

\* No call overtakes one that waits for the native connection.
InOrder ==
    \A i, k \in Numbers :
        i < k /\ calls[i].at = "native" =>
            calls[k].at # "done" /\ (calls[k].kind \in Creates => calls[k].at # "peer")

\* While the mock offer is awaited, so is it by every call that follows, and only then.
Awaited ==
    /\ \A i, k \in Numbers :
          i < k /\ calls[i].kind = "setRemoteOffer" /\ calls[i].at = "peer" =>
              calls[k].kind = "createAnswer" /\ calls[k].at = "mock-offer"
    /\ \A k \in Numbers : calls[k].at = "mock-offer" =>
          calls[k].kind = "createAnswer" /\ \A o \in Numbers : LastSet(o, k) => calls[o].at = "peer"

\* What the opener o of a negotiation is to a later call of it.
Opened ==
    \A o, k \in Numbers : LastSet(o, k) =>
        /\ calls[k].kind = "setRemoteAnswer" => calls[k].of = calls[o].of
        /\ calls[k].kind = "setLocalAnswer" => calls[o].at = "done" /\ o < calls[k].of
        /\ calls[k].kind = "createAnswer" =>
              /\ calls[k].at = "native" => calls[o].at \in {"native", "done"}
              /\ calls[k].at \in {"peer", "done"} => calls[k].of = o

\* A set call is about the newest description of its kind.
About ==
    \A i \in Numbers : calls[i].kind \in {"setLocalOffer", "setLocalAnswer"} =>
        LET create == IF calls[i].kind = "setLocalOffer" THEN "createOffer" ELSE "createAnswer" IN
        /\ calls[i].of \in Numbers /\ calls[i].of < i
        /\ calls[calls[i].of].kind = create /\ calls[calls[i].of].at = "done"
        /\ \A j \in Numbers : calls[i].of < j /\ j < i => calls[j].kind # create

-----------------------------------------------------------------------------
(* The state that the calls leave.                                         *)

NativeFits ==
    /\ (\A o \in Numbers : calls[o].kind \in Openers /\ calls[o].at = "done" =>
          \E c \in Numbers : o < c /\ calls[c].kind \in Completing /\ calls[c].at = "done")
             => native = "stable"
    /\ \A o \in Numbers :
          /\ calls[o].kind \in Openers /\ calls[o].at = "done"
          /\ \A j \in Numbers : o < j /\ IsSet(j) => calls[j].at # "done"
          => native = IF calls[o].kind = "setLocalOffer" THEN "have-local-offer" ELSE "have-remote-offer"

\* The native connection made the newest description last, if it has made it.
NewestFits ==
    \A k \in Numbers :
        calls[k].at \in {"peer", "done"} /\ (\A j \in Numbers : k < j => calls[j].kind # calls[k].kind) =>
            /\ calls[k].kind = "createOffer" => lastOffer = k
            /\ calls[k].kind = "createAnswer" => lastAnswer = k

SelectedFits ==
    \A i \in Numbers :
        /\ IsSet(i) /\ calls[i].kind # "setRemoteOffer"
        /\ \A j \in Numbers : i < j /\ IsSet(j) => calls[j].kind = "setRemoteOffer"
        => selected = calls[i].of

MockOfferFits ==
    \A o \in Numbers :
        calls[o].kind = "setRemoteOffer" /\ (\A j \in Numbers : o < j => ~IsSet(j)) => mockOffer = o

\* The description that began a negotiation is pending until the negotiation is over.
PendingFits ==
    /\ Reached = "stable" /\ (\A c \in Numbers : calls[c].kind \in Completing => Resolved(c)) =>
          pendingLocal = 0 /\ pendingRemote = 0
    /\ \A o \in Numbers :
          /\ calls[o].kind \in Openers
          /\ \A c \in Numbers : o < c /\ calls[c].kind \in Completing => ~Resolved(c)
          => IF calls[o].kind = "setLocalOffer" THEN pendingLocal = calls[o].of /\ pendingRemote = 0
             ELSE pendingLocal = 0 /\ pendingRemote = o

CurrentDone == currentLocal # 0 => calls[currentLocal].at = "done"

\* What currentLocalDescription and currentRemoteDescription name.
CurrentNamed ==
    currentLocal # 0 =>
        /\ \/ calls[currentLocal].kind = "createOffer" /\ currentRemote = currentLocal
           \/ calls[currentLocal].kind = "createAnswer" /\ currentRemote = calls[currentLocal].of
        /\ \E i \in Numbers : calls[i].kind \in Completing /\ calls[i].of = currentLocal /\ Resolved(i)

\* A setLocalDescription() without argument that has not gone on was made when every set call
\* was over, and nothing follows it.
ChosenFits ==
    chosen # {} =>
        /\ chosen = {Len(calls)} /\ Len(calls) \in Numbers /\ intent \in {"offering", "stable"}
        /\ calls[Len(calls)].kind = IF intent = "offering" THEN "createOffer" ELSE "createAnswer"
        /\ \A j \in Numbers : IsSet(j) => Resolved(j)

Bounded == Len(calls) + Cardinality(chosen) <= MaxCalls

\* What holds while the application has not strayed.
IInv ==
    /\ TypeOK /\ Bounded /\ ChosenFits /\ Legal /\ OneAtATime
    /\ Places /\ ChainFits /\ InOrder /\ Awaited /\ Opened /\ About
    /\ NativeFits /\ NewestFits /\ SelectedFits /\ MockOfferFits
    /\ PendingFits /\ CurrentNamed /\ CurrentDone

-----------------------------------------------------------------------------
(* Facts about calls.                                                      *)

LEMMA TypeFacts ==
    ASSUME TypeOK
    PROVE  /\ calls \in Seq(CallRecord) /\ Len(calls) \in Nat
           /\ Numbers \subseteq Nat /\ \A i \in Numbers : calls[i] \in CallRecord /\ 1 <= i /\ i <= Len(calls)
           /\ chain \in Seq(Numbers) /\ Len(chain) \in Nat
<1>1. calls \in Seq(CallRecord)
    BY DEF TypeOK, CallRecord
<1>2. Len(calls) \in Nat /\ \A i \in 1 .. Len(calls) : calls[i] \in CallRecord
    BY <1>1
<1>3. chain \in Seq(Numbers)
    BY DEF TypeOK
<1>4. QED BY <1>1, <1>2, <1>3 DEF Numbers

\* A sequence over a set is one over a larger set.
LEMMA WiderSeq ==
    ASSUME NEW S, NEW T, S \subseteq T, NEW q \in Seq(S)
    PROVE  q \in Seq(T)
<1>1. Len(q) \in Nat /\ q \in [1 .. Len(q) -> S]
    OBVIOUS
<1>2. q \in [1 .. Len(q) -> T]
    BY <1>1
<1>3. QED BY <1>1, <1>2, SeqDef

\* The kinds are those named.
LEMMA KindsApart ==
    /\ Kinds = Creates \cup Openers \cup Completing
    /\ Creates \cap Openers = {} /\ Creates \cap Completing = {} /\ Openers \cap Completing = {}
    /\ Beginners \cap Completing = {} /\ Openers \subseteq Beginners
BY DEF Kinds, Creates, Openers, Completing, Beginners

\* There is one last set call before call k.
LEMMA OneLastSet ==
    ASSUME TypeOK, NEW k \in Nat, NEW s \in Numbers, NEW t \in Numbers, LastSet(s, k), LastSet(t, k)
    PROVE  s = t
BY TypeFacts DEF LastSet

\* A completing call is resolved only when it is done.
LEMMA ResolvedDone ==
    ASSUME NEW i, Resolved(i)
    PROVE  calls[i].at = "done"
BY DEF Resolved

\* The call of an opener is resolved when it is done.
LEMMA OpenerResolved ==
    ASSUME Places, NEW i \in Numbers, calls[i].kind \notin Completing
    PROVE  Resolved(i) <=> calls[i].at = "done"
BY DEF Places, Resolved

\* When a completing call is done, so is every set call before it.
LEMMA CompletedDone ==
    ASSUME IInv, NEW c \in Numbers, calls[c].kind \in Completing, calls[c].at = "done",
           NEW j \in Numbers, j < c, IsSet(j)
    PROVE  calls[j].at = "done"
<1> USE TypeFacts DEF IInv
<1>1. PICK o \in Numbers : LastSet(o, c) /\ calls[o].kind \in Openers
    BY DEF Legal, OpenBefore, Completing, Openers
<1>2. calls[o].at = "done"
    <2>1. CASE calls[c].kind = "setLocalAnswer"
        BY <2>1, <1>1 DEF Opened
    <2>2. CASE calls[c].kind = "setRemoteAnswer"
        <3>1. PICK q \in Numbers : LastSet(q, c) /\ calls[q].kind = "setLocalOffer"
            BY <2>2 DEF Legal, OpenBefore
        <3>2. q = o
            BY <1>1, <3>1, OneLastSet
        <3>3. calls[o].at \in {"native", "done"} /\ o < c
            BY <3>1, <3>2 DEF Places, LastSet
        <3>4. QED BY <3>3 DEF InOrder
    <2>3. QED BY <2>1, <2>2 DEF Completing
<1>3. CASE j = o
    BY <1>2, <1>3
<1>4. CASE j < o
    <2>1. Resolved(j)
        BY <1>1, <1>4 DEF OneAtATime, Beginners
    <2>2. QED BY <2>1, ResolvedDone
<1>5. CASE o < j
    BY <1>1, <1>5 DEF LastSet
<1>6. QED BY <1>3, <1>4, <1>5

\* While nothing is negotiated and what completed is resolved, every set call is.
LEMMA StableAllDone ==
    ASSUME IInv, Reached = "stable", \A c \in Numbers : calls[c].kind \in Completing => Resolved(c),
           NEW j \in Numbers, IsSet(j)
    PROVE  /\ Resolved(j)
           /\ calls[j].kind \in Openers => \E c \in Numbers : j < c /\ calls[c].kind \in Completing
<1> USE TypeFacts, KindsApart DEF IInv
<1>1. PICK s \in Numbers : LastSet(s, Len(calls) + 1) /\ calls[s].kind \in Completing
    BY DEF Legal, StableBefore
<1>2. j <= s
    BY <1>1 DEF LastSet
<1>3. CASE j = s
    BY <1>1, <1>3
<1>4. CASE j < s
    <2>1. calls[s].at = "done"
        BY <1>1, ResolvedDone
    <2>2. calls[j].at = "done"
        BY <1>1, <1>4, <2>1, CompletedDone
    <2>3. QED BY <1>1, <1>4, <2>2, OpenerResolved
<1>5. QED BY <1>2, <1>3, <1>4

\* While a negotiation is open, what was to complete one before it has.
LEMMA CompletedResolved ==
    ASSUME IInv, Reached \in {"offering", "answering"}, NEW c \in Numbers, calls[c].kind \in Completing
    PROVE  Resolved(c)
<1> USE TypeFacts, KindsApart DEF IInv
<1>1. PICK o \in Numbers : LastSet(o, Len(calls) + 1) /\ calls[o].kind \in Openers
    BY DEF Legal, OpenBefore, Openers
<1>2. c < o
    BY <1>1 DEF LastSet, IsSet
<1>3. QED BY <1>1, <1>2 DEF OneAtATime

\* Every set call is over when nothing is negotiated and what completed is resolved.
LEMMA NegotiateWaited ==
    ASSUME IInv, Reached = "stable", \A c \in Numbers : calls[c].kind \in Completing => Resolved(c)
    PROVE  \A j \in Numbers : IsSet(j) => Resolved(j) /\ calls[j].at = "done"
<1>1. \A j \in Numbers : IsSet(j) => Resolved(j)
    BY StableAllDone
<1>2. QED BY <1>1, ResolvedDone

-----------------------------------------------------------------------------
(* Types.                                                                  *)

\* Calls that were made are no more than the bound.
LEMMA Room ==
    ASSUME TypeOK, Bounded
    PROVE  IsFiniteSet(chosen) /\ Cardinality(chosen) \in Nat /\ Len(calls) <= MaxCalls
<1>1. 1 \in Int /\ Len(calls) \in Int /\ chosen \in SUBSET (1 .. Len(calls))
    BY TypeFacts DEF TypeOK, Numbers
<1>2. IsFiniteSet(chosen)
    BY <1>1, FS_Interval, FS_Subset
<1>3. Cardinality(chosen) \in Nat
    BY <1>2, FS_CardinalityType
<1>4. Len(calls) \in Nat
    BY TypeFacts
<1>5. QED BY <1>2, <1>3, <1>4, HooksAssumption DEF Bounded

LEMMA RoomNext ==
    ASSUME TypeOK', Bounded'
    PROVE  Len(calls') <= MaxCalls
<1>1. calls' \in Seq(CallRecord) /\ chosen' \in SUBSET (1 .. Len(calls'))
    BY DEF TypeOK, Numbers, CallRecord
<1>2. Len(calls') \in Nat /\ 1 \in Int /\ Len(calls') \in Int
    BY <1>1
<1>3. IsFiniteSet(chosen')
    BY <1>1, <1>2, FS_Interval, FS_Subset
<1>4. Cardinality(chosen') \in Nat
    BY <1>3, FS_CardinalityType
<1>5. QED BY <1>2, <1>4, HooksAssumption DEF Bounded

LEMMA Updated ==
    ASSUME TypeOK, NEW i \in Numbers, NEW q \in CallRecord, calls' = [calls EXCEPT ![i] = q]
    PROVE  /\ calls' \in Seq(CallRecord) /\ Len(calls') = Len(calls) /\ Numbers' = Numbers
           /\ calls'[i] = q /\ \A j \in Numbers \ {i} : calls'[j] = calls[j]
<1>1. calls \in Seq(CallRecord) /\ i \in 1 .. Len(calls)
    BY TypeFacts DEF Numbers
<1>2. calls' \in Seq(CallRecord) /\ Len(calls') = Len(calls)
    BY <1>1
<1>3. calls'[i] = q /\ \A j \in 1 .. Len(calls) : j # i => calls'[j] = calls[j]
    BY <1>1
<1>4. QED BY <1>2, <1>3 DEF Numbers


\* A call and its setAnswer().
Shaped(c) == IF c.kind \in Completing THEN c.half # "none" \/ c.at = "failed" ELSE c.half = "none"

CallsOK ==
    /\ calls \in Seq(CallRecord)
    /\ \A i \in Numbers : calls[i].of <= Len(calls) /\ Shaped(calls[i])

\* The rest of the types.
RestOK ==
    /\ chosen \subseteq Numbers /\ strayed \in BOOLEAN
    /\ intent \in {"stable", "offering", "answering"}
    /\ native \in {"stable", "have-local-offer", "have-remote-offer"}
    /\ {lastOffer, lastAnswer, selected, mockOffer, attached} \subseteq 0 .. Len(calls)
    /\ {pendingLocal, pendingRemote, currentLocal, currentRemote} \subseteq 0 .. Len(calls)

\* The calls that may wait in the chain: none that awaits the mock offer, or that has failed
\* without asking for anything.
Ready == {j \in Numbers : calls[j].at # "mock-offer" /\ (calls[j].kind \in Completing => calls[j].half # "none")}

\* What holds however the application calls.
Base == TypeOK /\ Bounded /\ chain \in Seq(Ready)

LEMMA TypeParts ==
    ASSUME TypeOK
    PROVE  CallsOK /\ RestOK
BY DEF TypeOK, CallsOK, RestOK, CallRecord, Shaped

LEMMA TypesNext ==
    ASSUME CallsOK', RestOK', chain' \in Seq(Ready')
    PROVE  TypeOK'
<1>1. chain' \in Seq(Numbers')
    <2>1. Ready' \subseteq Numbers'
        BY DEF Ready
    <2>2. QED BY <2>1, WiderSeq
<1>2. calls' \in Seq([kind : Kinds, at : {"mock-offer", "peer", "native", "done", "failed"},
                      half : {"none", "pending", "done", "failed"}, of : 0 .. MaxCalls])
    BY DEF CallsOK, CallRecord
<1>3. \A i \in Numbers' : calls'[i].of <= Len(calls')
    BY DEF CallsOK
<1>4. \A i \in Numbers' : IF calls'[i].kind \in Completing THEN calls'[i].half # "none" \/ calls'[i].at = "failed"
                          ELSE calls'[i].half = "none"
    BY DEF CallsOK, Shaped
<1>5. QED BY <1>1, <1>2, <1>3, <1>4 DEF TypeOK, RestOK

\* A call is made that is rightly shaped and about a description that was made.
LEMMA Begun ==
    ASSUME Base, NEW n, n = Len(calls) + 1, n <= MaxCalls,
           NEW kind \in Kinds, NEW at \in {"mock-offer", "peer", "native", "done", "failed"},
           NEW half \in {"none", "pending", "done", "failed"}, NEW of \in 0 .. n,
           IF kind \in Completing THEN half # "none" \/ at = "failed" ELSE half = "none",
           Begin(kind, at, half, of)
    PROVE  /\ n \in Nat /\ Len(calls') = n /\ Numbers' = Numbers \cup {n} /\ n \notin Numbers
           /\ CallsOK' /\ chain' \in Seq(Ready')
<1> USE DEF Base
<1>0. Len(calls) \in Nat /\ MaxCalls \in Nat /\ calls \in Seq(CallRecord)
    BY TypeFacts, HooksAssumption
<1>1. PICK r : r = [kind |-> kind, at |-> at, half |-> half, of |-> of]
    OBVIOUS
<1>2. r \in CallRecord /\ r.of = of /\ Shaped(r)
      /\ r.kind = kind /\ r.at = at /\ r.half = half
    <2>1. of \in 0 .. MaxCalls
        BY <1>0
    <2>2. QED BY <1>1, <2>1 DEF CallRecord, Shaped
<1>3. calls' = Append(calls, r)
    BY <1>1 DEF Begin, Call
<1>4. n \in Nat /\ Len(calls') = n /\ calls' \in Seq(CallRecord) /\ calls'[n] = r
      /\ \A i \in 1 .. Len(calls) : calls'[i] = calls[i]
    BY <1>0, <1>2, <1>3
<1>5. Numbers' = Numbers \cup {n} /\ n \notin Numbers /\ \A i \in Numbers : calls'[i] = calls[i]
    BY <1>0, <1>4 DEF Numbers
<1>6. CallsOK'
    <2>1. \A i \in Numbers : calls[i].of <= Len(calls) /\ Shaped(calls[i]) /\ calls[i].of \in Nat
        BY TypeParts, TypeFacts DEF CallsOK, CallRecord
    <2>2. \A i \in Numbers : calls'[i].of <= n /\ Shaped(calls'[i])
        BY <2>1, <1>0, <1>5
    <2>3. calls'[n].of <= n /\ Shaped(calls'[n])
        BY <1>2, <1>4
    <2>4. QED BY <2>2, <2>3, <1>4, <1>5 DEF CallsOK
<1>7. Ready \subseteq Ready'
    BY <1>5 DEF Ready
<1>8. chain' \in Seq(Ready')
    <2>1. chain \in Seq(Ready')
        BY <1>7, WiderSeq
    <2>2. CASE at = "native"
        <3>1. n \in Ready'
            BY <2>2, <1>2, <1>4, <1>5 DEF Ready, Shaped
        <3>2. chain' = Append(chain, n)
            BY <2>2 DEF Begin, Enqueue, New
        <3>3. QED BY <2>1, <3>1, <3>2
    <2>3. CASE at # "native"
        BY <2>1, <2>3 DEF Begin
    <2>4. QED BY <2>2, <2>3
<1>9. QED BY <1>4, <1>5, <1>6, <1>8

\* What a call remembers and shows is named.
LEMMA BegunRest ==
    ASSUME TypeOK, NEW n \in Nat, n = Len(calls) + 1, Len(calls') = n, Numbers' = Numbers \cup {n},
           CallsOK', chain' \in Seq(Ready'),
           {selected', mockOffer', pendingLocal', pendingRemote'} \subseteq 0 .. n,
           UNCHANGED <<native, lastOffer, lastAnswer, currentLocal, currentRemote, attached>>,
           intent' \in {"stable", "offering", "answering"},
           chosen' \subseteq chosen \cup {n}, strayed' \in BOOLEAN
    PROVE  TypeOK'
<1>1. Len(calls) \in Nat /\ RestOK
    BY TypeParts, TypeFacts
<1>2. \A x \in 0 .. Len(calls) : x \in 0 .. n
    BY <1>1
<1>3. {lastOffer', lastAnswer', selected', mockOffer', attached'} \subseteq 0 .. n
    BY <1>1, <1>2 DEF RestOK
<1>4. {pendingLocal', pendingRemote', currentLocal', currentRemote'} \subseteq 0 .. n
    BY <1>1, <1>2 DEF RestOK
<1>5. chosen' \subseteq Numbers' /\ native' \in {"stable", "have-local-offer", "have-remote-offer"}
    BY <1>1 DEF RestOK
<1>6. RestOK'
    BY <1>3, <1>4, <1>5 DEF RestOK
<1>7. QED BY <1>6, TypesNext

\* A step of the application that makes call n; room is kept for those that go on.
LEMMA CalledBase ==
    ASSUME Base, MayCall, NEW n, n = Len(calls) + 1,
           NEW kind \in Kinds, NEW at \in {"mock-offer", "peer", "native", "done", "failed"},
           NEW half \in {"none", "pending", "done", "failed"}, NEW of \in 0 .. n,
           IF kind \in Completing THEN half # "none" \/ at = "failed" ELSE half = "none",
           Begin(kind, at, half, of),
           {selected', mockOffer', pendingLocal', pendingRemote'} \subseteq 0 .. n,
           UNCHANGED <<native, lastOffer, lastAnswer, currentLocal, currentRemote, attached>>,
           intent' \in {"stable", "offering", "answering"}, strayed' \in BOOLEAN,
           \/ chosen' = chosen
           \/ chosen' = chosen \cup {n} /\ Len(calls) + Cardinality(chosen) + 1 < MaxCalls
    PROVE  Base'
<1> USE DEF Base
<1>1. Len(calls) \in Nat /\ MaxCalls \in Nat /\ Cardinality(chosen) \in Nat /\ IsFiniteSet(chosen)
    BY Room, TypeFacts, HooksAssumption
<1>2. Len(calls) + Cardinality(chosen) < MaxCalls
    BY DEF MayCall
<1>3. n <= MaxCalls /\ n \in Nat
    BY <1>1, <1>2
<1>4. /\ Len(calls') = n /\ Numbers' = Numbers \cup {n} /\ n \notin Numbers
      /\ CallsOK' /\ chain' \in Seq(Ready')
    BY <1>3, Begun
<1>5. TypeOK'
    <2>1. chosen' \subseteq chosen \cup {n}
        OBVIOUS
    <2>2. QED BY <1>3, <1>4, <2>1, BegunRest
<1>6. Bounded'
    <2>1. CASE chosen' = chosen
        BY <2>1, <1>1, <1>2, <1>4 DEF Bounded
    <2>2. CASE chosen' = chosen \cup {n} /\ Len(calls) + Cardinality(chosen) + 1 < MaxCalls
        <3>1. n \notin chosen
            BY <1>4 DEF TypeOK
        <3>2. Cardinality(chosen') = Cardinality(chosen) + 1
            BY <2>2, <3>1, <1>1, FS_AddElement
        <3>3. PICK c : c = Cardinality(chosen)
            OBVIOUS
        <3>4. c \in Nat /\ Len(calls) + c + 1 < MaxCalls /\ Cardinality(chosen') = c + 1
            BY <2>2, <3>2, <3>3, <1>1
        <3>5. n + (c + 1) <= MaxCalls
            BY <3>4, <1>1
        <3>6. QED BY <3>4, <3>5, <1>4 DEF Bounded
    <2>3. QED BY <2>1, <2>2
<1>7. QED BY <1>4, <1>5, <1>6

\* What the variables name are calls that were made.
LEMMA NamesFacts ==
    ASSUME TypeOK, NEW n, n = Len(calls) + 1
    PROVE  /\ n \in Nat /\ {0, n, selected, mockOffer, pendingLocal, pendingRemote} \subseteq 0 .. n
           /\ \A i \in Numbers : i \in 0 .. n
           /\ intent \in {"stable", "offering", "answering"} /\ strayed \in BOOLEAN
<1>1. Len(calls) \in Nat /\ {selected, mockOffer} \subseteq 0 .. Len(calls)
      /\ {pendingLocal, pendingRemote} \subseteq 0 .. Len(calls)
    BY TypeFacts DEF TypeOK
<1>2. \A x \in 0 .. Len(calls) : x \in 0 .. n
    BY <1>1
<1>3. {0, n} \subseteq 0 .. n /\ n \in Nat
    BY <1>1
<1>4. \A i \in Numbers : i \in 0 .. n
    BY <1>1 DEF Numbers
<1>5. QED BY <1>1, <1>2, <1>3, <1>4 DEF TypeOK

LEMMA StraysBoolean ==
    ASSUME TypeOK, NEW ok \in BOOLEAN, Strays(ok)
    PROVE  strayed' \in BOOLEAN /\ (~strayed' => ~strayed /\ ok)
BY DEF Strays, TypeOK

\* Every call of the application keeps the types.
LEMMA CreateOfferBase ==
    ASSUME Base, CreateOffer
    PROVE  Base'
<1> USE DEF Base
<1>0. PICK n : n = Len(calls) + 1
    OBVIOUS
<1>1. strayed' \in BOOLEAN
    BY StraysBoolean DEF CreateOffer, Over
<1>2. QED BY <1>0, <1>1, NamesFacts, CalledBase DEF CreateOffer, MayNegotiate, Kinds, Completing, shownVars

LEMMA SetRemoteOfferBase ==
    ASSUME Base, SetRemoteOffer
    PROVE  Base'
<1> USE DEF Base
<1>0. PICK n : n = Len(calls) + 1
    OBVIOUS
<1>1. strayed' \in BOOLEAN
    BY StraysBoolean DEF SetRemoteOffer, Over
<1>2. /\ MayCall /\ Begin("setRemoteOffer", "peer", "none", n) /\ intent' = "answering" /\ chosen' = chosen
      /\ UNCHANGED <<native, lastOffer, lastAnswer, currentLocal, currentRemote, attached>>
      /\ selected' = selected /\ mockOffer' = n /\ pendingLocal' = pendingLocal /\ pendingRemote' = n
    BY <1>0 DEF SetRemoteOffer, MayNegotiate, New
<1>3. {selected', mockOffer', pendingLocal', pendingRemote'} \subseteq 0 .. n /\ n \in 0 .. n
    BY <1>0, <1>2, NamesFacts
<1>4. QED BY <1>0, <1>1, <1>2, <1>3, CalledBase DEF Kinds, Completing

LEMMA SetRemoteAnswerBase ==
    ASSUME Base, SetRemoteAnswer
    PROVE  Base'
<1> USE DEF Base
<1>0. PICK n : n = Len(calls) + 1
    OBVIOUS
<1>1. strayed' \in BOOLEAN
    BY StraysBoolean DEF SetRemoteAnswer
<1>2. PICK at \in {"peer", "failed"}, half \in {"pending", "none"}, of \in {selected, 0} :
          /\ Begin("setRemoteAnswer", at, half, of)
          /\ half # "none" \/ at = "failed"
    BY DEF SetRemoteAnswer
<1>3. /\ MayCall /\ intent' = "stable" /\ chosen' = chosen
      /\ UNCHANGED <<native, lastOffer, lastAnswer, currentLocal, currentRemote, attached>>
      /\ selected' = selected /\ mockOffer' = mockOffer /\ pendingLocal' = pendingLocal /\ pendingRemote' = pendingRemote
    BY DEF SetRemoteAnswer, shownVars
<1>4. {selected', mockOffer', pendingLocal', pendingRemote'} \subseteq 0 .. n /\ of \in 0 .. n
    BY <1>0, <1>2, <1>3, NamesFacts
<1>5. QED BY <1>0, <1>1, <1>2, <1>3, <1>4, CalledBase DEF Kinds, Completing

LEMMA CreateAnswerBase ==
    ASSUME Base, CreateAnswer
    PROVE  Base'
<1> USE DEF Base
<1>0. PICK n : n = Len(calls) + 1
    OBVIOUS
<1>1. strayed' \in BOOLEAN
    BY StraysBoolean DEF CreateAnswer
<1>2. OnceOffered \in {"mock-offer", "failed", "native"}
    BY DEF OnceOffered
<1>3. MayCall /\ Begin("createAnswer", OnceOffered, "none", 0) /\ intent' = intent /\ chosen' = chosen
      /\ UNCHANGED <<native, lastOffer, lastAnswer, currentLocal, currentRemote, attached>>
      /\ selected' = selected /\ mockOffer' = mockOffer /\ pendingLocal' = pendingLocal /\ pendingRemote' = pendingRemote
    BY DEF CreateAnswer, shownVars
<1>4. {selected', mockOffer', pendingLocal', pendingRemote'} \subseteq 0 .. n /\ 0 \in 0 .. n
      /\ intent' \in {"stable", "offering", "answering"}
    BY <1>0, <1>3, NamesFacts
<1>5. QED BY <1>0, <1>1, <1>2, <1>3, <1>4, CalledBase DEF Kinds, Completing

LEMMA SetLocalOfferBase ==
    ASSUME Base, NEW i \in Numbers, SetLocalOffer(i)
    PROVE  Base'
<1> USE DEF Base
<1>0. PICK n : n = Len(calls) + 1
    OBVIOUS
<1>1. strayed' \in BOOLEAN
    BY StraysBoolean DEF SetLocalOffer, Over
<1>2. /\ MayCall /\ Begin("setLocalOffer", "native", "none", i) /\ intent' = "offering" /\ chosen' = chosen
      /\ UNCHANGED <<native, lastOffer, lastAnswer, currentLocal, currentRemote, attached>>
      /\ selected' = i /\ mockOffer' = mockOffer /\ pendingLocal' = i /\ pendingRemote' = pendingRemote
    BY DEF SetLocalOffer, LocalOffer, MayNegotiate
<1>3. {selected', mockOffer', pendingLocal', pendingRemote'} \subseteq 0 .. n /\ i \in 0 .. n
    BY <1>0, <1>2, NamesFacts
<1>4. QED BY <1>0, <1>1, <1>2, <1>3, CalledBase DEF Kinds, Completing

LEMMA SetLocalAnswerBase ==
    ASSUME Base, NEW i \in Numbers, SetLocalAnswer(i)
    PROVE  Base'
<1> USE DEF Base
<1>0. PICK n : n = Len(calls) + 1
    OBVIOUS
<1>1. strayed' \in BOOLEAN
    BY StraysBoolean DEF SetLocalAnswer
<1>2. PICK at \in {"mock-offer", "failed", "native"}, half \in {"none", "pending"} :
          Begin("setLocalAnswer", at, half, i) /\ (half # "none" \/ at = "failed")
    BY DEF SetLocalAnswer, LocalAnswer, OnceOffered
<1>3. /\ MayCall /\ intent' = "stable" /\ chosen' = chosen
      /\ UNCHANGED <<native, lastOffer, lastAnswer, currentLocal, currentRemote, attached>>
      /\ selected' = i /\ mockOffer' = mockOffer /\ pendingLocal' = pendingLocal /\ pendingRemote' = pendingRemote
    BY DEF SetLocalAnswer, LocalAnswer
<1>4. {selected', mockOffer', pendingLocal', pendingRemote'} \subseteq 0 .. n /\ i \in 0 .. n
    BY <1>0, <1>3, NamesFacts
<1>5. QED BY <1>0, <1>1, <1>2, <1>3, <1>4, CalledBase DEF Kinds, Completing

LEMMA SetLocalChosenBase ==
    ASSUME Base, SetLocalChosen
    PROVE  Base'
<1> USE DEF Base
<1>0. PICK n : n = Len(calls) + 1
    OBVIOUS
<1>1. strayed' \in BOOLEAN
    BY StraysBoolean DEF SetLocalChosen
<1>2. PICK kind \in {"createOffer", "createAnswer"}, at \in {"mock-offer", "failed", "native"} :
          Begin(kind, at, "none", 0)
    BY DEF SetLocalChosen, OnceOffered
<1>3. /\ MayCall /\ Len(calls) + Cardinality(chosen) + 1 < MaxCalls /\ chosen' = chosen \cup {n}
      /\ intent' \in {"stable", "offering", "answering"}
      /\ UNCHANGED <<native, lastOffer, lastAnswer, currentLocal, currentRemote, attached>>
      /\ selected' = selected /\ mockOffer' = mockOffer /\ pendingLocal' = pendingLocal /\ pendingRemote' = pendingRemote
    BY <1>0 DEF SetLocalChosen, New, shownVars
<1>4. {selected', mockOffer', pendingLocal', pendingRemote'} \subseteq 0 .. n /\ 0 \in 0 .. n
    BY <1>0, <1>3, NamesFacts
<1>5. QED BY <1>0, <1>1, <1>2, <1>3, <1>4, CalledBase DEF Kinds, Completing

LEMMA SetLocalForeignBase ==
    ASSUME Base, NEW kind \in {"setLocalOffer", "setLocalAnswer"}, SetLocalForeign(kind)
    PROVE  Base'
<1> USE DEF Base
<1>0. PICK n : n = Len(calls) + 1
    OBVIOUS
<1>1. strayed' \in BOOLEAN
    BY StraysBoolean DEF SetLocalForeign
<1>2. /\ MayCall /\ Begin(kind, "failed", "none", n) /\ intent' = intent /\ chosen' = chosen
      /\ UNCHANGED <<native, lastOffer, lastAnswer, currentLocal, currentRemote, attached>>
      /\ selected' = 0 /\ mockOffer' = mockOffer /\ pendingLocal' \in {n, pendingLocal} /\ pendingRemote' = pendingRemote
    BY <1>0 DEF SetLocalForeign, New
<1>3. {selected', mockOffer', pendingLocal', pendingRemote'} \subseteq 0 .. n /\ n \in 0 .. n
      /\ intent' \in {"stable", "offering", "answering"}
    BY <1>0, <1>2, NamesFacts
<1>4. kind \in Kinds /\ (IF kind \in Completing THEN "none" # "none" \/ "failed" = "failed" ELSE "none" = "none")
    BY DEF Kinds
<1>5. QED BY <1>0, <1>1, <1>2, <1>3, <1>4, CalledBase

LEMMA ChosenIsSetBase ==
    ASSUME Base, NEW i \in Numbers, ChosenIsSet(i)
    PROVE  Base'
<1> USE DEF Base
<1>0. PICK n : n = Len(calls) + 1
    OBVIOUS
<1>1. IsFiniteSet(chosen) /\ Cardinality(chosen) \in Nat /\ Len(calls) \in Nat /\ MaxCalls \in Nat
    BY Room, TypeFacts, HooksAssumption
<1>2. PICK kind \in {"setLocalOffer", "setLocalAnswer"}, at \in {"mock-offer", "failed", "native"},
           half \in {"none", "pending"} :
          /\ Begin(kind, at, half, i)
          /\ IF kind \in Completing THEN half # "none" \/ at = "failed" ELSE half = "none"
    BY DEF ChosenIsSet, LocalOffer, LocalAnswer, OnceOffered, Completing
<1>3. /\ i \in chosen /\ chosen' = chosen \ {i} /\ intent' = intent /\ strayed' = strayed
      /\ UNCHANGED <<native, lastOffer, lastAnswer, currentLocal, currentRemote, attached>>
      /\ selected' = i /\ mockOffer' = mockOffer /\ pendingLocal' \in {i, pendingLocal} /\ pendingRemote' = pendingRemote
    BY DEF ChosenIsSet, LocalOffer, LocalAnswer
<1>4. /\ {selected', mockOffer', pendingLocal', pendingRemote'} \subseteq 0 .. n /\ i \in 0 .. n
      /\ intent' \in {"stable", "offering", "answering"} /\ strayed' \in BOOLEAN
    BY <1>0, <1>3, NamesFacts
<1>5. Cardinality(chosen') = Cardinality(chosen) - 1 /\ IsFiniteSet(chosen') /\ Cardinality(chosen') \in Nat
    <2>1. Cardinality(chosen') = Cardinality(chosen) - 1 /\ IsFiniteSet(chosen')
        BY <1>1, <1>3, FS_RemoveElement
    <2>2. QED BY <2>1, FS_CardinalityType
<1>6. n \in Nat /\ n <= MaxCalls /\ n + Cardinality(chosen') <= MaxCalls
    BY <1>0, <1>1, <1>5 DEF Bounded
<1>7. /\ Len(calls') = n /\ Numbers' = Numbers \cup {n}
      /\ CallsOK' /\ chain' \in Seq(Ready')
    <2>1. kind \in Kinds /\ at \in {"mock-offer", "peer", "native", "done", "failed"}
          /\ half \in {"none", "pending", "done", "failed"}
        BY DEF Kinds, Completing
    <2>2. QED BY <1>0, <1>2, <1>4, <1>6, <2>1, Begun
<1>8. TypeOK'
    <2>1. chosen' \subseteq chosen \cup {n}
        BY <1>3
    <2>2. QED BY <1>0, <1>3, <1>4, <1>6, <1>7, <2>1, BegunRest
<1>9. Bounded'
    BY <1>6, <1>7 DEF Bounded
<1>10. QED BY <1>7, <1>8, <1>9

-----------------------------------------------------------------------------
(* Types of the continuations.                                             *)

\* No call is made.
LEMMA GoneOn ==
    ASSUME Base, CallsOK', chain' \in Seq(Ready'), Len(calls') = Len(calls),
           UNCHANGED <<intent, chosen, strayed, selected, mockOffer>>,
           native' \in {"stable", "have-local-offer", "have-remote-offer"},
           {lastOffer', lastAnswer', attached'} \subseteq 0 .. Len(calls),
           {pendingLocal', pendingRemote', currentLocal', currentRemote'} \subseteq 0 .. Len(calls)
    PROVE  Base'
<1> USE DEF Base
<1>1. RestOK /\ Numbers' = Numbers
    BY TypeParts DEF Numbers
<1>2. RestOK'
    BY <1>1 DEF RestOK
<1>3. TypeOK'
    BY <1>2, TypesNext
<1>4. Bounded'
    BY DEF Bounded
<1>5. QED BY <1>3, <1>4

\* The native connection and what is shown are named rightly.
LEMMA OldNames ==
    ASSUME TypeOK
    PROVE  /\ native \in {"stable", "have-local-offer", "have-remote-offer"}
           /\ {lastOffer, lastAnswer, attached, selected} \subseteq 0 .. Len(calls)
           /\ {pendingLocal, pendingRemote, currentLocal, currentRemote} \subseteq 0 .. Len(calls)
BY DEF TypeOK

\* Every call keeps what it is about, and may be where it may be.
LEMMA AllShaped ==
    ASSUME Base, NEW l, l = Len(calls),
           calls' \in [1 .. l -> CallRecord],
           \A j \in Numbers : calls'[j].of <= l /\ Shaped(calls'[j])
    PROVE  Len(calls') = Len(calls) /\ Numbers' = Numbers /\ CallsOK'
<1>1. l \in Nat
    BY TypeFacts DEF Base
<1>2. calls' \in Seq(CallRecord) /\ Len(calls') = l
    BY <1>1, SeqDef
<1>3. Numbers' = Numbers
    BY <1>2 DEF Numbers
<1>4. QED BY <1>2, <1>3 DEF CallsOK

\* One call goes on.
LEMMA OneGoesOn ==
    ASSUME Base, NEW i \in Numbers, NEW c \in CallRecord, calls' = [calls EXCEPT ![i] = c],
           c.of <= Len(calls), Shaped(c),
           i \in Ready => c.at # "mock-offer" /\ (c.kind \in Completing => c.half # "none")
    PROVE  /\ Len(calls') = Len(calls) /\ Numbers' = Numbers /\ CallsOK' /\ Ready \subseteq Ready'
           /\ calls'[i] = c
<1> USE DEF Base
<1>1. /\ calls' \in Seq(CallRecord) /\ Len(calls') = Len(calls) /\ Numbers' = Numbers
      /\ calls'[i] = c /\ \A j \in Numbers \ {i} : calls'[j] = calls[j]
    BY Updated
<1>2. CallsOK'
    <2>1. \A j \in Numbers : calls[j].of <= Len(calls) /\ Shaped(calls[j])
        BY TypeParts DEF CallsOK
    <2>2. \A j \in Numbers : calls'[j].of <= Len(calls) /\ Shaped(calls'[j])
        BY <1>1, <2>1
    <2>3. QED BY <1>1, <2>2 DEF CallsOK
<1>3. Ready \subseteq Ready'
    BY <1>1 DEF Ready
<1>4. QED BY <1>1, <1>2, <1>3

LEMMA BecomesBase ==
    ASSUME Base, NEW i \in Numbers, NEW c \in CallRecord, Becomes(i, c), c.of <= Len(calls), Shaped(c),
           i \in Ready => c.at # "mock-offer" /\ (c.kind \in Completing => c.half # "none")
    PROVE  /\ Len(calls') = Len(calls) /\ CallsOK' /\ Ready \subseteq Ready'
           /\ {pendingLocal', pendingRemote', currentLocal', currentRemote'} \subseteq 0 .. Len(calls)
<1> USE DEF Base
<1>1. Len(calls') = Len(calls) /\ CallsOK' /\ Ready \subseteq Ready'
    BY OneGoesOn DEF Becomes
<1>2. {pendingLocal, pendingRemote, currentLocal, currentRemote} \subseteq 0 .. Len(calls)
    BY OldNames
<1>3. calls[i].of \in 0 .. Len(calls) /\ 0 \in 0 .. Len(calls)
    <2>1. calls[i].of <= Len(calls) /\ calls[i].of \in Nat /\ Len(calls) \in Nat
        BY TypeFacts, TypeParts, HooksAssumption DEF CallsOK, CallRecord
    <2>2. QED BY <2>1
<1>4. {pendingLocal', pendingRemote', currentLocal', currentRemote'} \subseteq 0 .. Len(calls)
    <2>1. CASE c.kind \in Completing /\ c.at = "done" /\ c.half \in {"none", "done"}
        BY <2>1, <1>2, <1>3 DEF Becomes, Swap
    <2>2. CASE ~(c.kind \in Completing /\ c.at = "done" /\ c.half \in {"none", "done"})
        BY <2>2, <1>2 DEF Becomes, shownVars
    <2>3. QED BY <2>1, <2>2
<1>5. QED BY <1>1, <1>4

\* What is known of a call that was made.
LEMMA OldCall ==
    ASSUME Base, NEW i \in Numbers
    PROVE  calls[i] \in CallRecord /\ calls[i].of <= Len(calls) /\ Shaped(calls[i])
           /\ calls[i].of \in Nat /\ Len(calls) \in Nat /\ i \in Nat /\ i <= Len(calls)
BY TypeFacts, TypeParts, HooksAssumption DEF Base, CallsOK, CallRecord

LEMMA NativeRunBase ==
    ASSUME Base, NativeRun
    PROVE  Base'
<1> USE DEF Base
<1>0. PICK i : i = Head(chain)
    OBVIOUS
<1>1. i \in Ready /\ i \in Numbers /\ Tail(chain) \in Seq(Ready)
    BY <1>0 DEF NativeRun, Ready
<1>2. calls[i] \in CallRecord /\ calls[i].of <= Len(calls) /\ Shaped(calls[i])
      /\ calls[i].of \in Nat /\ Len(calls) \in Nat /\ i \in Nat /\ i <= Len(calls)
    BY <1>1, OldCall
<1>3. pendingRemote \in 0 .. Len(calls) /\ Len(calls) <= MaxCalls
    BY Room, OldNames
<1>4. calls[i].kind \in Completing => calls[i].half # "none"
    BY <1>1 DEF Ready
<1>5. PICK at \in {"failed", "peer", "done"}, of \in {calls[i].of, pendingRemote} :
          Becomes(i, [calls[i] EXCEPT !.at = at, !.of = of])
    <2>1. calls[i] = [calls[i] EXCEPT !.of = calls[i].of]
        BY <1>2 DEF CallRecord
    <2>2. \A at : [calls[i] EXCEPT !.at = at] = [calls[i] EXCEPT !.at = at, !.of = calls[i].of]
        BY <1>2 DEF CallRecord
    <2>3. \/ \E at \in {"failed", "peer", "done"} : Becomes(i, [calls[i] EXCEPT !.at = at])
          \/ \E at \in {"failed", "peer"} : Becomes(i, [calls[i] EXCEPT !.at = at, !.of = pendingRemote])
        <3>1. CASE ~NativeAllows(i)
            BY <3>1, <1>0 DEF NativeRun
        <3>2. CASE NativeAllows(i)
            <4>1. Becomes(i, CASE calls[i].kind = "createOffer" -> [calls[i] EXCEPT !.at = "peer"]
                            [] calls[i].kind = "createAnswer" ->
                                 [calls[i] EXCEPT !.at = IF pendingRemote = 0 THEN "failed" ELSE "peer", !.of = pendingRemote]
                            [] OTHER -> [calls[i] EXCEPT !.at = "done"])
                BY <3>2, <1>0 DEF NativeRun
            <4>2. CASE calls[i].kind = "createOffer"
                BY <4>1, <4>2
            <4>3. CASE calls[i].kind = "createAnswer"
                <5>1. Becomes(i, [calls[i] EXCEPT !.at = IF pendingRemote = 0 THEN "failed" ELSE "peer", !.of = pendingRemote])
                    BY <4>1, <4>3
                <5>2. CASE pendingRemote = 0
                    BY <5>1, <5>2
                <5>3. CASE pendingRemote # 0
                    BY <5>1, <5>3
                <5>4. QED BY <5>2, <5>3
            <4>4. CASE calls[i].kind \notin {"createOffer", "createAnswer"}
                BY <4>1, <4>4
            <4>5. QED BY <4>2, <4>3, <4>4
        <3>3. QED BY <3>1, <3>2
    <2>4. QED BY <2>2, <2>3
<1>6. PICK c : c = [calls[i] EXCEPT !.at = at, !.of = of]
    OBVIOUS
<1>7. /\ c \in CallRecord /\ c.of <= Len(calls) /\ Shaped(c) /\ c.at # "mock-offer"
      /\ c.kind \in Completing => c.half # "none"
    <2>1. of <= Len(calls) /\ of \in 0 .. MaxCalls
        BY <1>2, <1>3, HooksAssumption DEF CallRecord
    <2>2. c.kind = calls[i].kind /\ c.half = calls[i].half /\ c.at = at /\ c.of = of /\ c \in CallRecord
        BY <1>2, <1>6, <2>1 DEF CallRecord
    <2>3. QED BY <1>2, <1>4, <2>1, <2>2 DEF Shaped
<1>8. /\ Len(calls') = Len(calls) /\ CallsOK' /\ Ready \subseteq Ready'
      /\ {pendingLocal', pendingRemote', currentLocal', currentRemote'} \subseteq 0 .. Len(calls)
    <2>1. Becomes(i, c)
        BY <1>5, <1>6
    <2>2. QED BY <2>1, <1>1, <1>7, BecomesBase
<1>9. chain' \in Seq(Ready')
    BY <1>1, <1>8, WiderSeq DEF NativeRun
<1>10. /\ UNCHANGED <<intent, chosen, strayed, selected, mockOffer, attached>>
       /\ native' \in {"stable", "have-local-offer", "have-remote-offer"}
       /\ lastOffer' \in {i, lastOffer} /\ lastAnswer' \in {i, lastAnswer}
    <2>1. CASE ~NativeAllows(i)
        BY <2>1, <1>0, OldNames DEF NativeRun
    <2>2. CASE NativeAllows(i)
        <3>1. native' = CASE calls[i].kind \in Completing -> "stable"
                           [] calls[i].kind = "setLocalOffer" -> "have-local-offer"
                           [] calls[i].kind = "setRemoteOffer" -> "have-remote-offer"
                           [] OTHER -> native
            BY <2>2, <1>0 DEF NativeRun
        <3>2. native' \in {"stable", "have-local-offer", "have-remote-offer"}
            BY <3>1, OldNames DEF Completing
        <3>3. QED BY <2>2, <3>2, <1>0 DEF NativeRun
    <2>3. QED BY <2>1, <2>2
<1>11. {lastOffer', lastAnswer', attached'} \subseteq 0 .. Len(calls)
    <2>1. i \in 0 .. Len(calls)
        BY <1>2
    <2>2. QED BY <2>1, <1>10, OldNames
<1>12. QED BY <1>8, <1>9, <1>10, <1>11, GoneOn

\* A set of numbers has a least element.
LEMMA Least ==
    ASSUME NEW T \in SUBSET Nat, T # {}
    PROVE  \E x \in T : \A y \in T : x <= y
<1>1. PICK R : R = OpToRel(<, Nat)
    OBVIOUS
<1>2. IsWellFoundedOn(R, Nat)
    BY <1>1, NatLessThanWellFounded
<1>3. PICK x \in T : \A y \in T : ~ (<<y, x>> \in R)
    BY <1>2, WFMin
<1>4. \A y \in T : ~(y < x)
    BY <1>1, <1>3 DEF OpToRel
<1>5. QED BY <1>4

\* In a set of numbers there is an element of every rank.
LEMMA Ranks ==
    ASSUME NEW l \in Nat, NEW W \in SUBSET (1 .. l), NEW n \in 1 .. Cardinality(W)
    PROVE  \E j \in W : Cardinality({k \in W : k <= j}) = n
<1> DEFINE Below(m) == {k \in W : k <= m}
<1>w. \A k \in W : k \in Nat /\ 1 <= k /\ k <= l
    OBVIOUS
<1>1. ASSUME NEW m \in Nat PROVE IsFiniteSet(Below(m)) /\ Cardinality(Below(m)) \in Nat
    <2>1. Below(m) \in SUBSET (1 .. l)
        OBVIOUS
    <2>2. IsFiniteSet(1 .. l)
        <3>1. 1 \in Int /\ l \in Int
            OBVIOUS
        <3>2. QED BY <3>1, FS_Interval
    <2> HIDE DEF Below
    <2>3. IsFiniteSet(Below(m))
        BY <2>1, <2>2, FS_Subset
    <2>4. QED BY <2>3, FS_CardinalityType
<1>2. Below(0) = {} /\ Below(l) = W
    <2>1. Below(0) = {}
        <3>1. \A k \in W : ~(k <= 0)
            BY <1>w
        <3>2. QED BY <3>1, Zenon
    <2>2. Below(l) = W
        <3>1. \A k \in W : k <= l
            BY <1>w
        <3>2. QED BY <3>1, Zenon
    <2>3. QED BY <2>1, <2>2
<1>3. ASSUME NEW m \in Nat, m > 0
      PROVE  /\ m \in W => Below(m) = Below(m - 1) \cup {m} /\ m \notin Below(m - 1)
             /\ m \notin W => Below(m) = Below(m - 1)
    <2>0. \A k \in W : (k <= m <=> k = m \/ k <= m - 1) /\ ~(m <= m - 1)
        BY <1>3, <1>w
    <2>1. m \in W => Below(m) = Below(m - 1) \cup {m} /\ m \notin Below(m - 1)
        BY <2>0, Zenon
    <2>2. m \notin W => Below(m) = Below(m - 1)
        BY <2>0, Zenon
    <2>3. QED BY <2>1, <2>2
<1> DEFINE T == {m \in Nat : n <= Cardinality(Below(m))}
<1>4. l \in T
    <2>1. Cardinality(Below(l)) \in Nat /\ Cardinality(Below(l)) = Cardinality(W)
        BY <1>1, <1>2
    <2>2. QED BY <2>1
<1>5. PICK x \in T : \A y \in T : x <= y
    BY <1>4, Least
<1>t. T \subseteq Nat /\ \A m \in Nat : m \in T <=> n <= Cardinality(Below(m))
    OBVIOUS
<1>n. n \in Nat /\ n > 0
    <2>1. IsFiniteSet(Below(l))
        BY <1>1
    <2>2. Cardinality(W) \in Nat
        BY <1>1, <1>2
    <2>3. QED BY <2>2
<1>6. x # 0
    BY <1>2, FS_EmptySet
<1> HIDE DEF T
<1> HIDE DEF Below
<1>7. x - 1 \in Nat /\ x \in Nat /\ x > 0 /\ n <= Cardinality(Below(x)) /\ x - 1 \notin T
    <2>1. x \in Nat /\ n <= Cardinality(Below(x))
        BY <1>5, <1>t
    <2>2. x - 1 \in Nat /\ x > 0 /\ ~(x <= x - 1)
        BY <2>1, <1>6
    <2>3. QED BY <2>1, <2>2, <1>5
<1>8. Cardinality(Below(x - 1)) < n
    <2>1. ~(n <= Cardinality(Below(x - 1))) /\ Cardinality(Below(x - 1)) \in Nat
        BY <1>1, <1>7, <1>t
    <2>2. QED BY <2>1, <1>n
<1>9. x \in W
    BY <1>3, <1>7, <1>8, <1>1
<1>10. Cardinality(Below(x)) = Cardinality(Below(x - 1)) + 1
    BY <1>1, <1>3, <1>7, <1>9, FS_AddElement
<1>11. Cardinality(Below(x)) = n
    BY <1>1, <1>7, <1>8, <1>10
<1>12. QED BY <1>9, <1>11 DEF Below

\* What awaits the mock offer of call i.
LEMMA WaitingType ==
    ASSUME TypeOK, NEW i \in Numbers
    PROVE  Waiting(i) \in Seq({j \in Numbers : Awaits(j, i)})
<1> DEFINE W == {j \in Numbers : Awaits(j, i)}
<1>1. PICK l : l = Len(calls)
    OBVIOUS
<1>2. l \in Nat /\ Numbers = 1 .. l /\ W \in SUBSET (1 .. l)
    BY <1>1, TypeFacts DEF Numbers
<1>3. Waiting(i) = [n \in 1 .. Cardinality(W) |-> CHOOSE j \in W : Cardinality({k \in W : k <= j}) = n]
    BY DEF Waiting
<1> HIDE DEF W
<1>4. Cardinality(W) \in Nat
    <2>1. IsFiniteSet(1 .. l)
        BY <1>2, FS_Interval
    <2>2. IsFiniteSet(W)
        BY <2>1, <1>2, FS_Subset
    <2>3. QED BY <2>2, FS_CardinalityType
<1>5. ASSUME NEW n \in 1 .. Cardinality(W)
      PROVE  (CHOOSE j \in W : Cardinality({k \in W : k <= j}) = n) \in W
    <2>1. \E j \in W : Cardinality({k \in W : k <= j}) = n
        BY <1>2, Ranks
    <2>2. QED BY <2>1
<1>6. Waiting(i) \in [1 .. Cardinality(W) -> W]
    BY <1>3, <1>5
<1>7. Waiting(i) \in Seq(W)
    BY <1>4, <1>6, SeqDef
<1>8. QED BY <1>7 DEF W

LEMMA MockOfferArrivesBase ==
    ASSUME Base, NEW i \in Numbers, MockOfferArrives(i)
    PROVE  Base'
<1> USE DEF Base
<1>0. PICK l : l = Len(calls)
    OBVIOUS
<1>1. Numbers = 1 .. l /\ l \in Nat
    BY <1>0, TypeFacts DEF Numbers
<1>2. ASSUME NEW j \in Numbers
      PROVE  /\ calls'[j] \in CallRecord /\ calls'[j].of <= l /\ Shaped(calls'[j])
             /\ j = i \/ Awaits(j, i) => j \in Ready'
             /\ j \in Ready => j \in Ready'
    <2>1. calls[j] \in CallRecord /\ calls[j].of <= l /\ Shaped(calls[j])
        BY <1>0, OldCall
    <2>2. calls'[j] = IF j = i \/ Awaits(j, i) THEN [calls[j] EXCEPT !.at = "native"] ELSE calls[j]
        BY DEF MockOfferArrives
    <2>3. Numbers' = Numbers
        <3>1. calls' \in [1 .. l -> {calls'[k] : k \in Numbers}]
            BY <1>1 DEF MockOfferArrives
        <3>2. Len(calls') = l
            BY <3>1, <1>1, SeqDef
        <3>3. QED BY <3>2, <1>1 DEF Numbers
    <2>4. CASE j = i \/ Awaits(j, i)
        <3>1. calls[j].at \in {"peer", "mock-offer"}
            BY <2>4 DEF MockOfferArrives, Awaits
        <3>2. PICK c : c = [calls[j] EXCEPT !.at = "native"]
            OBVIOUS
        <3>3. /\ c \in CallRecord /\ c.at = "native" /\ c.kind = calls[j].kind /\ c.half = calls[j].half
              /\ c.of = calls[j].of
            BY <2>1, <3>2 DEF CallRecord
        <3>4. calls'[j] = c
            BY <2>2, <2>4, <3>2
        <3>5. calls[j].kind \in Completing => calls[j].half # "none"
            BY <2>1, <3>1 DEF Shaped
        <3>6. QED BY <2>1, <2>3, <3>3, <3>4, <3>5 DEF Shaped, Ready
    <2>5. CASE ~(j = i \/ Awaits(j, i))
        BY <2>1, <2>2, <2>3, <2>5 DEF Ready
    <2>6. QED BY <2>4, <2>5
<1>3. calls' \in [1 .. l -> CallRecord]
    <2>1. calls' = [j \in Numbers |-> IF j = i \/ Awaits(j, i) THEN [calls[j] EXCEPT !.at = "native"] ELSE calls[j]]
        BY DEF MockOfferArrives
    <2>2. QED BY <2>1, <1>1, <1>2
<1>4. Len(calls') = Len(calls) /\ Numbers' = Numbers /\ CallsOK'
    BY <1>0, <1>2, <1>3, AllShaped
<1>5. chain' \in Seq(Ready')
    <2>1. chain \in Seq(Ready')
        <3>1. Ready \subseteq Ready'
            BY <1>2 DEF Ready
        <3>2. QED BY <3>1, WiderSeq
    <2>2. i \in Ready'
        BY <1>2
    <2>3. Waiting(i) \in Seq(Ready')
        <3>1. {j \in Numbers : Awaits(j, i)} \subseteq Ready'
            BY <1>2
        <3>2. QED BY <3>1, WaitingType, WiderSeq
    <2>4. PICK w : w = Waiting(i)
        OBVIOUS
    <2>5. chain' = Append(chain, i) \o w /\ w \in Seq(Ready')
        BY <2>3, <2>4 DEF MockOfferArrives
    <2>6. Append(chain, i) \in Seq(Ready')
        BY <2>1, <2>2
    <2>7. QED BY <2>5, <2>6, ConcatProperties
<1>6. /\ UNCHANGED <<intent, chosen, strayed, native, lastOffer, lastAnswer, selected, mockOffer, attached>>
      /\ UNCHANGED <<pendingLocal, pendingRemote, currentLocal, currentRemote>>
    BY DEF MockOfferArrives, shownVars
<1>7. QED BY <1>4, <1>5, <1>6, OldNames, GoneOn

LEMMA PeerRepliesBase ==
    ASSUME Base, NEW i \in Numbers, PeerReplies(i)
    PROVE  Base'
<1> USE DEF Base
<1>1. calls[i] \in CallRecord /\ calls[i].of <= Len(calls) /\ Shaped(calls[i]) /\ calls[i].at = "peer"
    BY OldCall DEF PeerReplies
<1>2. PICK at \in {"native", "done"} :
          /\ calls' = [calls EXCEPT ![i].at = at]
          /\ chain' = IF at = "native" THEN Append(chain, i) ELSE chain
    BY DEF PeerReplies, Enqueue
<1>3. PICK c : c = [calls[i] EXCEPT !.at = at]
    OBVIOUS
<1>4. /\ c \in CallRecord /\ c.at = at /\ c.kind = calls[i].kind /\ c.half = calls[i].half /\ c.of = calls[i].of
      /\ calls' = [calls EXCEPT ![i] = c]
    BY <1>1, <1>2, <1>3 DEF CallRecord
<1>5. c.kind \in Completing => c.half # "none"
    BY <1>1, <1>4 DEF Shaped
<1>6. /\ Len(calls') = Len(calls) /\ Numbers' = Numbers /\ CallsOK' /\ Ready \subseteq Ready' /\ calls'[i] = c
    <2>1. Shaped(c) /\ c.at # "mock-offer" /\ c.of <= Len(calls)
        BY <1>1, <1>4 DEF Shaped
    <2>2. QED BY <2>1, <1>4, <1>5, OneGoesOn
<1>7. chain' \in Seq(Ready')
    <2>1. i \in Ready'
        BY <1>4, <1>5, <1>6 DEF Ready
    <2>2. chain \in Seq(Ready')
        BY <1>6, WiderSeq
    <2>3. QED BY <2>1, <2>2, <1>2
<1>8. /\ UNCHANGED <<intent, chosen, strayed, native, lastOffer, lastAnswer, selected, mockOffer, attached>>
      /\ UNCHANGED <<pendingLocal, pendingRemote, currentLocal, currentRemote>>
    BY DEF PeerReplies, shownVars
<1>9. QED BY <1>6, <1>7, <1>8, OldNames, GoneOn

\* The setAnswer() beside the main part succeeds or fails.
LEMMA HalfBase ==
    ASSUME Base, NEW i \in Numbers, NEW half \in {"done", "failed"}, calls[i].half = "pending",
           Becomes(i, [calls[i] EXCEPT !.half = half]),
           UNCHANGED <<intent, chosen, strayed, nativeVars, selected, mockOffer, attached>>
    PROVE  Base'
<1> USE DEF Base
<1>1. calls[i] \in CallRecord /\ calls[i].of <= Len(calls) /\ Shaped(calls[i])
    BY OldCall
<1>2. PICK c : c = [calls[i] EXCEPT !.half = half]
    OBVIOUS
<1>3. /\ c \in CallRecord /\ c.at = calls[i].at /\ c.kind = calls[i].kind /\ c.half = half /\ c.of = calls[i].of
    BY <1>1, <1>2 DEF CallRecord
<1>4. Shaped(c) /\ (i \in Ready => c.at # "mock-offer" /\ (c.kind \in Completing => c.half # "none"))
    BY <1>1, <1>3 DEF Shaped, Ready
<1>5. /\ Len(calls') = Len(calls) /\ CallsOK' /\ Ready \subseteq Ready'
      /\ {pendingLocal', pendingRemote', currentLocal', currentRemote'} \subseteq 0 .. Len(calls)
    BY <1>1, <1>2, <1>3, <1>4, BecomesBase
<1>6. chain' = chain /\ native' = native /\ lastOffer' = lastOffer /\ lastAnswer' = lastAnswer
    BY DEF nativeVars
<1>7. chain' \in Seq(Ready')
    BY <1>5, <1>6, WiderSeq
<1>8. QED BY <1>5, <1>6, <1>7, OldNames, GoneOn

\* What PeerRefuses makes of call j when it refuses the request of call i.
Refused(j, i) ==
    IF j = i THEN [calls[j] EXCEPT !.at = "failed"]
    ELSE IF calls[i].kind = "setRemoteOffer" /\ Awaits(j, i)
    THEN [calls[j] EXCEPT !.at = "failed", !.half = "none"] ELSE calls[j]

LEMMA RefuseBase ==
    ASSUME Base, NEW i \in Numbers, calls[i].at = "peer", calls' = [j \in Numbers |-> Refused(j, i)],
           UNCHANGED <<intent, chosen, strayed, nativeVars, selected, mockOffer, shownVars, attached>>
    PROVE  Base'
<1> USE DEF Base
<1>0. PICK l : l = Len(calls)
    OBVIOUS
<1>1. Numbers = 1 .. l /\ l \in Nat
    BY <1>0, TypeFacts DEF Numbers
<1>2. ASSUME NEW j \in Numbers
      PROVE  /\ calls'[j] \in CallRecord /\ calls'[j].of <= l /\ Shaped(calls'[j])
             /\ j \in Ready => calls'[j].at # "mock-offer" /\ (calls'[j].kind \in Completing => calls'[j].half # "none")
    <2>1. calls[j] \in CallRecord /\ calls[j].of <= l /\ Shaped(calls[j])
        BY <1>0, OldCall
    <2>2. calls'[j] = Refused(j, i)
        OBVIOUS
    <2>3. CASE j = i
        <3>1. PICK c : c = [calls[j] EXCEPT !.at = "failed"]
            OBVIOUS
        <3>2. /\ c \in CallRecord /\ c.at = "failed" /\ c.kind = calls[j].kind /\ c.half = calls[j].half
              /\ c.of = calls[j].of
            BY <2>1, <3>1 DEF CallRecord
        <3>3. calls'[j] = c
            BY <2>2, <2>3, <3>1 DEF Refused
        <3>4. QED BY <2>1, <3>2, <3>3 DEF Shaped, Ready
    <2>4. CASE j # i /\ calls[i].kind = "setRemoteOffer" /\ Awaits(j, i)
        <3>1. PICK c : c = [calls[j] EXCEPT !.at = "failed", !.half = "none"]
            OBVIOUS
        <3>2. c \in CallRecord /\ c.at = "failed" /\ c.kind = calls[j].kind /\ c.half = "none" /\ c.of = calls[j].of
            BY <2>1, <3>1 DEF CallRecord
        <3>3. calls'[j] = c
            BY <2>2, <2>4, <3>1 DEF Refused
        <3>4. j \notin Ready
            BY <2>4 DEF Awaits, Ready
        <3>5. QED BY <2>1, <3>2, <3>3, <3>4 DEF Shaped
    <2>5. CASE j # i /\ ~(calls[i].kind = "setRemoteOffer" /\ Awaits(j, i))
        BY <2>1, <2>2, <2>5 DEF Refused, Ready
    <2>6. QED BY <2>3, <2>4, <2>5
<1>3. calls' \in [1 .. l -> CallRecord]
    BY <1>1, <1>2
<1>4. Len(calls') = Len(calls) /\ Numbers' = Numbers /\ CallsOK'
    BY <1>0, <1>2, <1>3, AllShaped
<1>5. chain' \in Seq(Ready')
    <2>1. Ready \subseteq Ready'
        BY <1>2, <1>4 DEF Ready
    <2>2. QED BY <2>1, WiderSeq DEF nativeVars
<1>6. /\ UNCHANGED <<native, lastOffer, lastAnswer>>
      /\ UNCHANGED <<pendingLocal, pendingRemote, currentLocal, currentRemote>>
    BY DEF nativeVars, shownVars
<1>7. QED BY <1>4, <1>5, <1>6, OldNames, GoneOn

\* A refused setAnswer() shows nothing.
LEMMA HalfFails ==
    ASSUME TypeOK, NEW i \in Numbers, calls' = [calls EXCEPT ![i].half = "failed"], UNCHANGED shownVars
    PROVE  Becomes(i, [calls[i] EXCEPT !.half = "failed"])
<1>1. [calls[i] EXCEPT !.half = "failed"].half = "failed"
    BY TypeFacts DEF CallRecord
<1>2. QED BY <1>1 DEF Becomes

\* The control channel opens, or nothing happens.
LEMMA IdleBase ==
    ASSUME Base, UNCHANGED <<appVars, nativeVars, selected, mockOffer, shownVars>>,
           attached' \in {attached, selected}
    PROVE  Base'
<1> USE DEF Base
<1>1. /\ UNCHANGED <<calls, intent, chosen, strayed, native, chain, lastOffer, lastAnswer, selected, mockOffer>>
      /\ UNCHANGED <<pendingLocal, pendingRemote, currentLocal, currentRemote>>
    BY DEF appVars, nativeVars, shownVars
<1>2. CallsOK' /\ Ready' = Ready
    BY <1>1, TypeParts DEF CallsOK, Ready, Numbers
<1>3. {lastOffer', lastAnswer', attached'} \subseteq 0 .. Len(calls)
    BY <1>1, OldNames
<1>4. QED BY <1>1, <1>2, <1>3, OldNames, GoneOn

\* The first disjunct of PeerRefuses, and the second.
LEMMA RefusesEither ==
    ASSUME TypeOK, NEW i \in Numbers, PeerRefuses(i)
    PROVE  /\ UNCHANGED <<intent, chosen, strayed, nativeVars, selected, mockOffer, shownVars, attached>>
           /\ \/ calls[i].at = "peer" /\ calls' = [j \in Numbers |-> Refused(j, i)]
              \/ calls[i].half = "pending" /\ Becomes(i, [calls[i] EXCEPT !.half = "failed"])
<1>1. UNCHANGED <<intent, chosen, strayed, nativeVars, selected, mockOffer, shownVars, attached>>
    BY DEF PeerRefuses
<1>2. \/ calls[i].at = "peer" /\ calls' = [j \in Numbers |-> Refused(j, i)]
      \/ calls[i].half = "pending" /\ calls' = [calls EXCEPT ![i].half = "failed"]
    BY DEF PeerRefuses, Refused
<1>3. QED BY <1>1, <1>2, HalfFails

LEMMA BaseStep ==
    ASSUME Base, [Next]_vars
    PROVE  Base'
<1>1. CASE CreateOffer
    BY <1>1, CreateOfferBase
<1>2. CASE SetRemoteAnswer
    BY <1>2, SetRemoteAnswerBase
<1>3. CASE SetRemoteOffer
    BY <1>3, SetRemoteOfferBase
<1>4. CASE CreateAnswer
    BY <1>4, CreateAnswerBase
<1>5. CASE SetLocalChosen
    BY <1>5, SetLocalChosenBase
<1>6. ASSUME NEW kind \in {"setLocalOffer", "setLocalAnswer"}, SetLocalForeign(kind) PROVE Base'
    BY <1>6, SetLocalForeignBase
<1>7. ASSUME NEW i \in Numbers, SetLocalOffer(i) PROVE Base'
    BY <1>7, SetLocalOfferBase
<1>8. ASSUME NEW i \in Numbers, SetLocalAnswer(i) PROVE Base'
    BY <1>8, SetLocalAnswerBase
<1>9. ASSUME NEW i \in Numbers, ChosenIsSet(i) PROVE Base'
    BY <1>9, ChosenIsSetBase
<1>10. ASSUME NEW i \in Numbers, MockOfferArrives(i) PROVE Base'
    BY <1>10, MockOfferArrivesBase
<1>11. ASSUME NEW i \in Numbers, PeerReplies(i) PROVE Base'
    BY <1>11, PeerRepliesBase
<1>12. ASSUME NEW i \in Numbers, HalfReplies(i) PROVE Base'
    BY <1>12, HalfBase DEF HalfReplies
<1>13. ASSUME NEW i \in Numbers, PeerRefuses(i) PROVE Base'
    <2>1. TypeOK
        BY DEF Base
    <2>2. QED BY <1>13, <2>1, RefusesEither, RefuseBase, HalfBase
<1>14. CASE NativeRun
    BY <1>14, NativeRunBase
<1>15. CASE ControlOpens
    BY <1>15, IdleBase DEF ControlOpens
<1>16. CASE UNCHANGED vars
    BY <1>16, IdleBase DEF vars
<1>17. QED BY <1>1, <1>2, <1>3, <1>4, <1>5, <1>6, <1>7, <1>8, <1>9, <1>10, <1>11, <1>12, <1>13, <1>14, <1>15, <1>16 DEF Next

-----------------------------------------------------------------------------
(* A new call.                                                             *)

\* Call n, whose record is r, is made.
Made(n, r) ==
    /\ n = Len(calls) + 1 /\ n <= MaxCalls /\ r \in CallRecord
    /\ calls' = Append(calls, r)

LEMMA MadeKeeps ==
    ASSUME TypeOK, NEW n, NEW r, Made(n, r)
    PROVE  /\ n \in Nat /\ Len(calls') = n /\ calls' \in Seq(CallRecord)
           /\ Numbers' = Numbers \cup {n} /\ n \notin Numbers /\ \A i \in Numbers : i \in Nat /\ i < n
           /\ calls'[n] = r /\ \A i \in Numbers : calls'[i] = calls[i]
<1> USE TypeFacts
<1>1. n \in Nat /\ n = Len(calls) + 1 /\ r \in CallRecord /\ calls' = Append(calls, r)
    BY DEF Made
<1>2. calls' \in Seq(CallRecord) /\ Len(calls') = n /\ calls'[n] = r
    BY <1>1
<1>3. \A i \in 1 .. Len(calls) : calls'[i] = calls[i]
    BY <1>1
<1>4. QED BY <1>1, <1>2, <1>3 DEF Numbers

\* What was before a call stays, and the new call is before those to come.
LEMMA MadeLast ==
    ASSUME TypeOK, NEW n, NEW r, Made(n, r)
    PROVE  /\ \A s \in Numbers, k \in Numbers \cup {n} : LastSet(s, k)' <=> LastSet(s, k)
           /\ \A k \in Numbers \cup {n} : ~LastSet(n, k)'
           /\ \A k \in Numbers \cup {n} : StableBefore(k)' <=> StableBefore(k)
           /\ \A k \in Numbers \cup {n}, kind \in Kinds : OpenBefore(k, kind)' <=> OpenBefore(k, kind)
           /\ r.kind \in Openers \cup Completing => LastSet(n, n + 1)'
           /\ r.kind \notin Openers \cup Completing => \A s \in Numbers : LastSet(s, n + 1)' <=> LastSet(s, n)
<1> USE TypeFacts
<1>1. /\ n \in Nat /\ Len(calls') = n
      /\ Numbers' = Numbers \cup {n} /\ n \notin Numbers /\ \A i \in Numbers : i \in Nat /\ i < n
      /\ calls'[n] = r /\ \A i \in Numbers : calls'[i] = calls[i]
    BY MadeKeeps
<1>2. (IsSet(n)' <=> r.kind \in Openers \cup Completing) /\ \A i \in Numbers : IsSet(i)' <=> IsSet(i)
    BY <1>1 DEF IsSet
<1>3. \A s \in Numbers, k \in Numbers \cup {n} : LastSet(s, k)' <=> LastSet(s, k)
    BY <1>1, <1>2 DEF LastSet
<1>4. \A k \in Numbers \cup {n} : ~LastSet(n, k)'
    BY <1>1 DEF LastSet
<1>5. \A k \in Numbers \cup {n} : StableBefore(k)' <=> StableBefore(k)
    BY <1>1, <1>2, <1>3, <1>4 DEF StableBefore
<1>6. \A k \in Numbers \cup {n}, kind \in Kinds : OpenBefore(k, kind)' <=> OpenBefore(k, kind)
    BY <1>1, <1>3, <1>4 DEF OpenBefore
<1>7. r.kind \in Openers \cup Completing => LastSet(n, n + 1)'
    BY <1>1, <1>2 DEF LastSet
<1>8. ASSUME r.kind \notin Openers \cup Completing, NEW s \in Numbers
      PROVE  LastSet(s, n + 1)' <=> LastSet(s, n)
    BY <1>1, <1>2, <1>8 DEF LastSet
<1>9. QED BY <1>3, <1>4, <1>5, <1>6, <1>7, <1>8

\* Before call k the application may make a call of the kind.
MayMake(k, kind) ==
    /\ kind \in Beginners => StableBefore(k)
    /\ kind = "setRemoteAnswer" => OpenBefore(k, "setLocalOffer")
    /\ kind \in {"createAnswer", "setLocalAnswer"} => OpenBefore(k, "setRemoteOffer")

\* What a new call does to Reached.
Intends(kind) ==
    /\ kind \in Creates => Reached' = Reached
    /\ kind = "setLocalOffer" => Reached' = "offering"
    /\ kind = "setRemoteOffer" => Reached' = "answering"
    /\ kind \in Completing => Reached' = "stable"

LEMMA MadeLegal ==
    ASSUME IInv, NEW n, NEW r, Made(n, r), MayMake(n, r.kind), Intends(r.kind)
    PROVE  Legal'
<1> USE TypeFacts, KindsApart DEF IInv
<1>1. /\ n \in Nat /\ Len(calls') = n /\ n = Len(calls) + 1
      /\ Numbers' = Numbers \cup {n} /\ n \notin Numbers
      /\ calls'[n] = r /\ (\A i \in Numbers : calls'[i] = calls[i]) /\ r.kind \in Kinds
    BY MadeKeeps DEF Made, CallRecord
<1>2. {"setLocalOffer", "setRemoteOffer"} \subseteq Kinds
    BY DEF Kinds
<1>3. ASSUME NEW k \in Numbers', NEW kind, kind = calls'[k].kind
      PROVE  MayMake(k, kind)'
    <2>1. k \in Numbers \cup {n} /\ MayMake(k, kind)
        BY <1>1, <1>3 DEF Legal, MayMake
    <2>2. (StableBefore(k)' <=> StableBefore(k)) /\ \A t \in Kinds : OpenBefore(k, t)' <=> OpenBefore(k, t)
        BY <2>1, MadeLast
    <2>3. QED BY <2>1, <2>2, <1>2 DEF MayMake
<1>4. ASSUME NEW m, m = n + 1
      PROVE  /\ Reached' = "stable" => StableBefore(m)'
             /\ Reached' = "offering" => OpenBefore(m, "setLocalOffer")'
             /\ Reached' = "answering" => OpenBefore(m, "setRemoteOffer")'
    <2>1. CASE r.kind \in Openers \cup Completing
        <3>1. LastSet(n, m)'
            BY <1>4, <2>1, MadeLast
        <3>2. QED BY <1>1, <2>1, <3>1 DEF StableBefore, OpenBefore, Intends, Openers, Completing, Creates
    <2>2. CASE r.kind \in Creates
        <3>1. Reached' = Reached
            BY <2>2 DEF Intends
        <3>2. \A s \in Numbers : LastSet(s, m)' <=> LastSet(s, n)
            BY <1>4, <2>2, MadeLast
        <3>3. StableBefore(n) => StableBefore(m)'
            <4>1. CASE \A j \in Numbers : j < n => ~IsSet(j)
                <5>1. \A j \in Numbers : j < n
                    BY MadeKeeps
                <5>2. \A j \in Numbers' : ~IsSet(j)'
                    BY <4>1, <5>1, <1>1, <2>2 DEF IsSet
                <5>3. QED BY <5>2 DEF StableBefore
            <4>2. CASE \E s \in Numbers : LastSet(s, n) /\ calls[s].kind \in Completing
                BY <4>2, <3>2, <1>1 DEF StableBefore
            <4>3. QED BY <4>1, <4>2 DEF StableBefore
        <3>4. \A kind : OpenBefore(n, kind) => OpenBefore(m, kind)'
            BY <3>2, <1>1 DEF OpenBefore
        <3>5. QED BY <3>1, <3>3, <3>4, <1>1 DEF Legal
    <2>3. QED BY <2>1, <2>2, <1>1
<1>5. /\ Reached' = "stable" => StableBefore(Len(calls) + 1)'
      /\ Reached' = "offering" => OpenBefore(Len(calls) + 1, "setLocalOffer")'
      /\ Reached' = "answering" => OpenBefore(Len(calls) + 1, "setRemoteOffer")'
    <2>1. PICK m : m = n + 1
        OBVIOUS
    <2>2. Len(calls') + 1 = m
        BY <1>1, <2>1
    <2>3. QED BY <1>4, <2>1, <2>2 DEF StableBefore, OpenBefore, LastSet
<1>6. ASSUME NEW k \in Numbers'
      PROVE  /\ calls'[k].kind \in Beginners => StableBefore(k)'
             /\ calls'[k].kind = "setRemoteAnswer" => OpenBefore(k, "setLocalOffer")'
             /\ calls'[k].kind \in {"createAnswer", "setLocalAnswer"} => OpenBefore(k, "setRemoteOffer")'
    BY <1>3 DEF MayMake
<1>7. QED BY <1>5, <1>6 DEF Legal

\* Where a call begins, and what it waits for.
Begins(n, r) ==
    /\ r.at \in {"mock-offer", "peer", "native"}
    /\ r.kind \in Creates => r.at # "peer"
    /\ r.kind \notin Completing => r.half = "none"
    /\ r.kind \in {"setLocalOffer", "setLocalAnswer"} => r.at = "native"
    /\ IF r.at = "native" THEN chain' = Append(chain, n) ELSE chain' = chain
    /\ UNCHANGED <<native, lastOffer, lastAnswer>>

\* A new call is made when those it must wait for are over.
Waited(r) ==
    /\ \A c \in Numbers : calls[c].kind \in Completing => Resolved(c)
    /\ r.kind \in Beginners => \A j \in Numbers : IsSet(j) => Resolved(j)

\* What a new call does to its opener and to the description it is about.
Relates(n, r) ==
    /\ \A i \in Numbers : calls[i].kind = "setRemoteOffer" /\ calls[i].at = "peer" =>
          r.kind = "createAnswer" /\ r.at = "mock-offer"
    /\ r.at = "mock-offer" => r.kind = "createAnswer"
    /\ \A o \in Numbers : LastSet(o, n) =>
          /\ r.at = "mock-offer" => calls[o].at = "peer"
          /\ r.kind = "setRemoteAnswer" => r.of = calls[o].of
          /\ r.kind = "setLocalAnswer" => calls[o].at = "done" /\ o < r.of
          /\ r.kind = "createAnswer" /\ r.at = "native" => calls[o].at \in {"native", "done"}
    /\ r.kind \in {"setLocalOffer", "setLocalAnswer"} =>
          LET create == IF r.kind = "setLocalOffer" THEN "createOffer" ELSE "createAnswer" IN
          /\ r.of \in Numbers /\ calls[r.of].kind = create /\ calls[r.of].at = "done"
          /\ \A j \in Numbers : r.of < j => calls[j].kind # create

\* A new call does nothing to those before it, and is not over.
LEMMA MadeInOrder ==
    ASSUME IInv, NEW n, NEW r, Made(n, r), Begins(n, r), Waited(r)
    PROVE  OneAtATime' /\ Places' /\ ChainFits' /\ InOrder' /\ NativeFits' /\ NewestFits'
<1> USE DEF IInv
<1>1. /\ n \in Nat /\ Numbers' = Numbers \cup {n} /\ n \notin Numbers /\ \A i \in Numbers : i \in Nat /\ i < n
      /\ calls'[n] = r /\ \A i \in Numbers : calls'[i] = calls[i]
    BY MadeKeeps
<1>2. /\ ~Resolved(n)' /\ \A i \in Numbers : Resolved(i)' <=> Resolved(i)
      /\ \A i \in Numbers : IsSet(i)' <=> IsSet(i)
    BY <1>1 DEF Resolved, Begins, IsSet
<1>3. OneAtATime'
    <2> SUFFICES ASSUME NEW j \in Numbers, NEW k \in Numbers', j < k
                 PROVE  /\ calls'[k].kind \in Beginners /\ IsSet(j)' => Resolved(j)'
                        /\ calls'[j].kind \in Completing => Resolved(j)'
        BY <1>1 DEF OneAtATime
    <2>1. CASE k = n
        BY <2>1, <1>1, <1>2 DEF Waited
    <2>2. CASE k \in Numbers
        BY <2>2, <1>1, <1>2 DEF OneAtATime
    <2>3. QED BY <2>1, <2>2, <1>1
<1>4. Places'
    <2> SUFFICES ASSUME NEW i \in Numbers'
                 PROVE  /\ calls'[i].kind \notin Completing => calls'[i].half = "none"
                        /\ calls'[i].kind \in {"setLocalOffer", "setLocalAnswer"}
                              => calls'[i].at \in {"native", "done"}
        BY DEF Places
    <2>1. CASE i = n
        BY <2>1, <1>1 DEF Begins
    <2>2. CASE i \in Numbers
        BY <2>2, <1>1 DEF Places
    <2>3. QED BY <2>1, <2>2, <1>1
<1>5. ChainFits'
    <2>1. CASE r.at # "native"
        <3>1. chain' = chain /\ Len(chain) \in Nat /\ \A m \in 1 .. Len(chain) : chain[m] \in Numbers
            BY <2>1, TypeFacts DEF Begins
        <3>2. ASSUME NEW i \in Numbers'
              PROVE  calls'[i].at = "native" <=> \E m \in 1 .. Len(chain) : chain[m] = i
            <4>1. CASE i = n
                BY <2>1, <3>1, <4>1, <1>1
            <4>2. CASE i \in Numbers
                BY <4>2, <1>1 DEF ChainFits
            <4>3. QED BY <4>1, <4>2, <1>1
        <3>3. QED BY <3>1, <3>2 DEF ChainFits
    <2>2. CASE r.at = "native"
        <3>1. chain' = Append(chain, n) /\ chain \in Seq(Nat)
            <4>1. Numbers \subseteq Nat /\ chain \in Seq(Numbers)
                BY TypeFacts
            <4>2. QED BY <2>2, <4>1, WiderSeq DEF Begins
        <3>2. /\ Len(chain) \in Nat /\ Len(chain') = Len(chain) + 1 /\ chain'[Len(chain) + 1] = n
              /\ \A m \in 1 .. Len(chain) : chain'[m] = chain[m] /\ chain[m] \in Numbers
            <4>1. Len(chain) \in Nat /\ \A m \in 1 .. Len(chain) : chain[m] \in Numbers
                BY TypeFacts
            <4>2. QED BY <4>1, <3>1, <1>1
        <3>3. ASSUME NEW m \in 1 .. Len(chain'), NEW l \in 1 .. Len(chain'), m < l
              PROVE  chain'[m] < chain'[l]
            <4>1. m \in 1 .. Len(chain)
                BY <3>2, <3>3
            <4>2. CASE l = Len(chain) + 1
                BY <4>1, <4>2, <3>2, <1>1
            <4>3. CASE l \in 1 .. Len(chain)
                BY <4>1, <4>3, <3>2, <3>3 DEF ChainFits
            <4>4. QED BY <4>2, <4>3, <3>2
        <3>4. ASSUME NEW i \in Numbers'
              PROVE  calls'[i].at = "native" <=> \E m \in 1 .. Len(chain') : chain'[m] = i
            <4>1. CASE i = n
                BY <4>1, <2>2, <3>2, <1>1
            <4>2. CASE i \in Numbers
                <5>1. i # n /\ calls'[i] = calls[i]
                    BY <4>2, <1>1
                <5>2. \A m \in 1 .. Len(chain') : m \in 1 .. Len(chain) \/ m = Len(chain) + 1
                    BY <3>2
                <5>3. \A m \in 1 .. Len(chain) : m \in 1 .. Len(chain')
                    BY <3>2
                <5>4. (\E m \in 1 .. Len(chain') : chain'[m] = i) <=> (\E m \in 1 .. Len(chain) : chain[m] = i)
                    BY <5>1, <5>2, <5>3, <3>2
                <5>5. QED BY <4>2, <5>1, <5>4 DEF ChainFits
            <4>3. QED BY <4>1, <4>2, <1>1
        <3>5. QED BY <3>3, <3>4 DEF ChainFits
    <2>3. QED BY <2>1, <2>2
<1>6. InOrder'
    <2> SUFFICES ASSUME NEW i \in Numbers, NEW k \in Numbers', i < k, calls'[i].at = "native"
                 PROVE  calls'[k].at # "done" /\ (calls'[k].kind \in Creates => calls'[k].at # "peer")
        BY <1>1 DEF InOrder
    <2>1. CASE k = n
        BY <2>1, <1>1 DEF Begins
    <2>2. CASE k \in Numbers
        BY <2>2, <1>1 DEF InOrder
    <2>3. QED BY <2>1, <2>2, <1>1
<1>7. NativeFits'
    <2>1. r.at # "done" /\ native' = native
        BY DEF Begins
    <2>2. (\A o \in Numbers' : calls'[o].kind \in Openers /\ calls'[o].at = "done" =>
             \E c \in Numbers' : o < c /\ calls'[c].kind \in Completing /\ calls'[c].at = "done")
          => native' = "stable"
        BY <2>1, <1>1 DEF NativeFits
    <2>3. ASSUME NEW o \in Numbers', calls'[o].kind \in Openers, calls'[o].at = "done",
                 \A j \in Numbers' : o < j /\ IsSet(j)' => calls'[j].at # "done"
          PROVE  native' = IF calls'[o].kind = "setLocalOffer" THEN "have-local-offer" ELSE "have-remote-offer"
        <3>1. o \in Numbers /\ calls'[o] = calls[o]
            BY <2>1, <2>3, <1>1
        <3>2. \A j \in Numbers : o < j /\ IsSet(j) => calls[j].at # "done"
            BY <2>3, <1>1, <1>2
        <3>3. QED BY <2>1, <2>3, <3>1, <3>2 DEF NativeFits
    <2>4. QED BY <2>2, <2>3 DEF NativeFits
<1>8. NewestFits'
    <2> SUFFICES ASSUME NEW k \in Numbers', calls'[k].at \in {"peer", "done"},
                        \A j \in Numbers' : k < j => calls'[j].kind # calls'[k].kind
                 PROVE  /\ calls'[k].kind = "createOffer" => lastOffer' = k
                        /\ calls'[k].kind = "createAnswer" => lastAnswer' = k
        BY DEF NewestFits
    <2>1. CASE k = n
        BY <2>1, <1>1 DEF Begins, Creates
    <2>2. CASE k \in Numbers
        <3>1. \A j \in Numbers : k < j => calls[j].kind # calls[k].kind
            BY <2>2, <1>1
        <3>2. QED BY <2>2, <3>1, <1>1 DEF NewestFits, Begins
    <2>3. QED BY <2>1, <2>2, <1>1
<1>9. QED BY <1>3, <1>4, <1>5, <1>6, <1>7, <1>8

\* What a new call is about.
LEMMA MadeAbout ==
    ASSUME IInv, NEW n, NEW r, Made(n, r), Begins(n, r), Relates(n, r)
    PROVE  Awaited' /\ Opened' /\ About'
<1> USE DEF IInv
<1>1. /\ n \in Nat /\ Numbers' = Numbers \cup {n} /\ n \notin Numbers /\ \A i \in Numbers : i \in Nat /\ i < n
      /\ calls'[n] = r /\ \A i \in Numbers : calls'[i] = calls[i]
    BY MadeKeeps
<1>2. /\ \A s \in Numbers, k \in Numbers \cup {n} : LastSet(s, k)' <=> LastSet(s, k)
      /\ \A k \in Numbers \cup {n} : ~LastSet(n, k)'
    BY MadeLast
<1>3. Awaited'
    <2>1. ASSUME NEW i \in Numbers, NEW k \in Numbers', i < k, calls[i].kind = "setRemoteOffer", calls[i].at = "peer"
          PROVE  calls'[k].kind = "createAnswer" /\ calls'[k].at = "mock-offer"
        <3>1. CASE k = n
            BY <2>1, <3>1, <1>1 DEF Relates
        <3>2. CASE k \in Numbers
            BY <2>1, <3>2, <1>1 DEF Awaited
        <3>3. QED BY <3>1, <3>2, <1>1
    <2>2. ASSUME NEW k \in Numbers', calls'[k].at = "mock-offer"
          PROVE  calls'[k].kind = "createAnswer" /\ \A o \in Numbers' : LastSet(o, k)' => calls'[o].at = "peer"
        <3>1. CASE k = n
            BY <2>2, <3>1, <1>1, <1>2 DEF Relates
        <3>2. CASE k \in Numbers
            <4>1. calls[k].kind = "createAnswer" /\ \A o \in Numbers : LastSet(o, k) => calls[o].at = "peer"
                BY <2>2, <3>2, <1>1 DEF Awaited
            <4>2. QED BY <3>2, <4>1, <1>1, <1>2
        <3>3. QED BY <3>1, <3>2, <1>1
    <2>3. ~(\E k \in Numbers' : n < k)
        BY <1>1
    <2>4. ASSUME NEW i \in Numbers', NEW k \in Numbers', i < k, calls'[i].kind = "setRemoteOffer", calls'[i].at = "peer"
          PROVE  calls'[k].kind = "createAnswer" /\ calls'[k].at = "mock-offer"
        <3>1. i \in Numbers /\ calls'[i] = calls[i]
            BY <2>4, <2>3, <1>1
        <3>2. QED BY <2>1, <2>4, <3>1
    <2>5. QED BY <2>2, <2>4 DEF Awaited
<1>4. Opened'
    <2> SUFFICES ASSUME NEW o \in Numbers', NEW k \in Numbers', LastSet(o, k)'
                 PROVE  /\ calls'[k].kind = "setRemoteAnswer" => calls'[k].of = calls'[o].of
                        /\ calls'[k].kind = "setLocalAnswer" => calls'[o].at = "done" /\ o < calls'[k].of
                        /\ calls'[k].kind = "createAnswer" =>
                              /\ calls'[k].at = "native" => calls'[o].at \in {"native", "done"}
                              /\ calls'[k].at \in {"peer", "done"} => calls'[k].of = o
        BY DEF Opened
    <2>1. o \in Numbers /\ LastSet(o, k) /\ calls'[o] = calls[o]
        BY <1>1, <1>2
    <2>2. CASE k = n
        <3>1. r.kind = "createAnswer" => r.at \notin {"peer", "done"}
            BY DEF Begins, Creates
        <3>2. QED BY <2>1, <2>2, <3>1, <1>1 DEF Relates
    <2>3. CASE k \in Numbers
        BY <2>1, <2>3, <1>1 DEF Opened
    <2>4. QED BY <2>2, <2>3, <1>1
<1>5. About'
    <2> SUFFICES ASSUME NEW i \in Numbers', calls'[i].kind \in {"setLocalOffer", "setLocalAnswer"},
                        NEW create, create = IF calls'[i].kind = "setLocalOffer" THEN "createOffer" ELSE "createAnswer"
                 PROVE  /\ calls'[i].of \in Numbers' /\ calls'[i].of < i
                        /\ calls'[calls'[i].of].kind = create /\ calls'[calls'[i].of].at = "done"
                        /\ \A j \in Numbers' : calls'[i].of < j /\ j < i => calls'[j].kind # create
        BY DEF About
    <2>1. CASE i = n
        <3>1. /\ r.of \in Numbers /\ calls[r.of].kind = create /\ calls[r.of].at = "done"
              /\ \A j \in Numbers : r.of < j => calls[j].kind # create
            BY <2>1, <1>1 DEF Relates
        <3>2. QED BY <2>1, <3>1, <1>1
    <2>2. CASE i \in Numbers
        <3>1. /\ calls[i].of \in Numbers /\ calls[i].of < i
              /\ calls[calls[i].of].kind = create /\ calls[calls[i].of].at = "done"
              /\ \A j \in Numbers : calls[i].of < j /\ j < i => calls[j].kind # create
            BY <2>2, <1>1 DEF About
        <3>2. calls'[i] = calls[i] /\ calls'[calls[i].of] = calls[calls[i].of] /\ ~(n < i)
            BY <2>2, <3>1, <1>1
        <3>3. ASSUME NEW j \in Numbers', calls[i].of < j, j < i PROVE calls'[j].kind # create
            BY <3>1, <3>2, <3>3, <1>1
        <3>4. QED BY <3>1, <3>2, <3>3, <1>1
    <2>3. QED BY <2>1, <2>2, <1>1
<1>6. QED BY <1>3, <1>4, <1>5

\* What a new call remembers and shows.
Shows(n, r) ==
    /\ selected' = IF r.kind \in {"setLocalOffer", "setLocalAnswer", "setRemoteAnswer"} THEN r.of ELSE selected
    /\ mockOffer' = IF r.kind = "setRemoteOffer" THEN n ELSE mockOffer
    /\ pendingLocal' = IF r.kind = "setLocalOffer" THEN r.of ELSE pendingLocal
    /\ pendingRemote' = IF r.kind = "setRemoteOffer" THEN n ELSE pendingRemote
    /\ UNCHANGED <<currentLocal, currentRemote, attached>>

LEMMA MadeShown ==
    ASSUME IInv, NEW n, NEW r, Made(n, r), Begins(n, r), Shows(n, r)
    PROVE  SelectedFits' /\ MockOfferFits' /\ CurrentNamed' /\ CurrentDone'
<1> USE DEF IInv
<1>1. /\ n \in Nat /\ Numbers' = Numbers \cup {n} /\ n \notin Numbers /\ \A i \in Numbers : i \in Nat /\ i < n
      /\ calls'[n] = r /\ \A i \in Numbers : calls'[i] = calls[i]
    BY MadeKeeps
<1>2. (IsSet(n)' <=> r.kind \in Openers \cup Completing) /\ \A i \in Numbers : IsSet(i)' <=> IsSet(i)
    BY <1>1 DEF IsSet
<1>3. SelectedFits'
    <2> SUFFICES ASSUME NEW i \in Numbers', IsSet(i)', calls'[i].kind # "setRemoteOffer",
                        \A j \in Numbers' : i < j /\ IsSet(j)' => calls'[j].kind = "setRemoteOffer"
                 PROVE  selected' = calls'[i].of
        BY DEF SelectedFits
    <2>1. CASE i = n
        BY <2>1, <1>1, <1>2 DEF Shows, Openers, Completing
    <2>2. CASE i \in Numbers
        <3>1. \A j \in Numbers : i < j /\ IsSet(j) => calls[j].kind = "setRemoteOffer"
            BY <1>1, <1>2
        <3>2. selected = calls[i].of
            BY <2>2, <3>1, <1>1, <1>2 DEF SelectedFits
        <3>3. r.kind \notin {"setLocalOffer", "setLocalAnswer", "setRemoteAnswer"}
            BY <2>2, <1>1, <1>2 DEF Openers, Completing
        <3>4. QED BY <2>2, <3>2, <3>3, <1>1 DEF Shows
    <2>3. QED BY <2>1, <2>2, <1>1
<1>4. MockOfferFits'
    <2> SUFFICES ASSUME NEW o \in Numbers', calls'[o].kind = "setRemoteOffer",
                        \A j \in Numbers' : o < j => ~IsSet(j)'
                 PROVE  mockOffer' = o
        BY DEF MockOfferFits
    <2>1. CASE o = n
        BY <2>1, <1>1 DEF Shows
    <2>2. CASE o \in Numbers
        <3>1. \A j \in Numbers : o < j => ~IsSet(j)
            BY <1>1, <1>2
        <3>2. mockOffer = o
            BY <2>2, <3>1, <1>1 DEF MockOfferFits
        <3>3. r.kind # "setRemoteOffer"
            BY <2>2, <1>1, <1>2 DEF Openers
        <3>4. QED BY <3>2, <3>3 DEF Shows
    <2>3. QED BY <2>1, <2>2, <1>1
<1>5. currentLocal' = currentLocal /\ currentRemote' = currentRemote
      /\ (currentLocal # 0 => currentLocal \in Numbers)
    BY TypeFacts DEF Shows, TypeOK, Numbers
<1>6. CurrentDone'
    BY <1>1, <1>5 DEF CurrentDone
<1>7. CurrentNamed'
    <2> SUFFICES ASSUME currentLocal # 0
                 PROVE  /\ \/ calls'[currentLocal].kind = "createOffer" /\ currentRemote = currentLocal
                           \/ calls'[currentLocal].kind = "createAnswer" /\ currentRemote = calls'[currentLocal].of
                        /\ \E i \in Numbers' : calls'[i].kind \in Completing /\ calls'[i].of = currentLocal /\ Resolved(i)'
        BY <1>5 DEF CurrentNamed
    <2>1. PICK i \in Numbers : calls[i].kind \in Completing /\ calls[i].of = currentLocal /\ Resolved(i)
        BY DEF CurrentNamed
    <2>2. Resolved(i)'
        BY <2>1, <1>1 DEF Resolved
    <2>3. QED BY <2>1, <2>2, <1>1, <1>5 DEF CurrentNamed
<1>8. QED BY <1>3, <1>4, <1>6, <1>7

\* A call that begins a negotiation makes its description pending; others leave what is.
LEMMA MadePending ==
    ASSUME IInv, NEW n, NEW r, Made(n, r), Begins(n, r), Waited(r), Intends(r.kind), Shows(n, r),
           r.kind \in Openers => Reached = "stable"
    PROVE  PendingFits'
<1> USE DEF IInv
<1>1. /\ n \in Nat /\ Numbers' = Numbers \cup {n} /\ n \notin Numbers /\ \A i \in Numbers : i \in Nat /\ i < n
      /\ calls'[n] = r /\ \A i \in Numbers : calls'[i] = calls[i]
    BY MadeKeeps
<1>2. /\ ~Resolved(n)' /\ \A i \in Numbers : Resolved(i)' <=> Resolved(i)
    BY <1>1 DEF Resolved, Begins
<1>k. r.kind \in Creates \cup Openers \cup Completing
    BY KindsApart DEF Made, CallRecord
<1>3. CASE r.kind \in Openers
    <2>1. pendingLocal = 0 /\ pendingRemote = 0
        BY <1>3 DEF Waited, PendingFits
    <2>2. IF r.kind = "setLocalOffer" THEN pendingLocal' = r.of /\ pendingRemote' = 0
          ELSE pendingLocal' = 0 /\ pendingRemote' = n
        BY <1>3, <2>1 DEF Shows, Openers
    <2>3. ASSUME NEW o \in Numbers, calls[o].kind \in Openers
          PROVE  \E c \in Numbers : o < c /\ calls[c].kind \in Completing /\ Resolved(c)
        <3>1. IsSet(o)
            BY <2>3 DEF IsSet
        <3>2. \A c \in Numbers : calls[c].kind \in Completing => Resolved(c)
            BY DEF Waited
        <3>3. QED BY <1>3, <2>3, <3>1, <3>2, StableAllDone
    <2>4. Reached' # "stable"
        BY <1>3 DEF Intends, Openers
    <2>5. ASSUME NEW o \in Numbers', calls'[o].kind \in Openers,
                 \A c \in Numbers' : o < c /\ calls'[c].kind \in Completing => ~Resolved(c)'
          PROVE  o = n
        BY <2>3, <2>5, <1>1, <1>2
    <2>6. QED BY <2>2, <2>4, <2>5, <1>1 DEF PendingFits
<1>4. CASE r.kind \notin Openers
    <2>1. pendingLocal' = pendingLocal /\ pendingRemote' = pendingRemote
        BY <1>4 DEF Shows, Openers
    <2>2. ASSUME NEW o \in Numbers', calls'[o].kind \in Openers,
                 \A c \in Numbers' : o < c /\ calls'[c].kind \in Completing => ~Resolved(c)'
          PROVE  IF calls'[o].kind = "setLocalOffer" THEN pendingLocal' = calls'[o].of /\ pendingRemote' = 0
                 ELSE pendingLocal' = 0 /\ pendingRemote' = o
        <3>1. o \in Numbers /\ calls'[o] = calls[o]
            BY <1>4, <2>2, <1>1
        <3>2. \A c \in Numbers : o < c /\ calls[c].kind \in Completing => ~Resolved(c)
            BY <2>2, <1>1, <1>2
        <3>3. QED BY <2>1, <2>2, <3>1, <3>2 DEF PendingFits
    <2>3. ASSUME Reached' = "stable", \A c \in Numbers' : calls'[c].kind \in Completing => Resolved(c)'
          PROVE  pendingLocal' = 0 /\ pendingRemote' = 0
        <3>1. r.kind \in Creates
            BY <2>3, <1>1, <1>2, <1>4, <1>k
        <3>2. Reached = "stable" /\ \A c \in Numbers : calls[c].kind \in Completing => Resolved(c)
            BY <2>3, <3>1 DEF Waited, Intends
        <3>3. QED BY <2>1, <3>2 DEF PendingFits
    <2>4. QED BY <2>2, <2>3 DEF PendingFits
<1>5. QED BY <1>3, <1>4

\* The application makes a call.
LEMMA MadeStep ==
    ASSUME IInv, TypeOK', Bounded', ChosenFits',
           NEW n, NEW r, Made(n, r), Begins(n, r), Waited(r), Relates(n, r), Shows(n, r),
           Intends(r.kind), MayMake(n, r.kind), r.kind \in Openers => Reached = "stable"
    PROVE  IInv'
<1>1. Legal'
    BY MadeLegal
<1>2. OneAtATime' /\ Places' /\ ChainFits' /\ InOrder' /\ NativeFits' /\ NewestFits'
    BY MadeInOrder
<1>3. Awaited' /\ Opened' /\ About'
    BY MadeAbout
<1>4. SelectedFits' /\ MockOfferFits' /\ CurrentNamed' /\ CurrentDone'
    BY MadeShown
<1>5. PendingFits'
    BY MadePending
<1>6. QED BY <1>1, <1>2, <1>3, <1>4, <1>5 DEF IInv

-----------------------------------------------------------------------------
(* The steps of an application that does not stray.                        *)

\* A call that begins as kind, at, half and of say.
LEMMA NewCall ==
    ASSUME TypeOK, TypeOK', Bounded', NEW n, n = Len(calls) + 1,
           NEW kind \in Kinds, NEW at \in {"mock-offer", "peer", "native", "done", "failed"},
           NEW half \in {"none", "pending", "done", "failed"}, NEW of \in 0 .. n,
           Begin(kind, at, half, of),
           NEW r, r = [kind |-> kind, at |-> at, half |-> half, of |-> of]
    PROVE  /\ n \in Nat /\ (\A j \in Numbers : j < n) /\ Made(n, r)
           /\ r.kind = kind /\ r.at = at /\ r.half = half /\ r.of = of
           /\ chain' = IF at = "native" THEN Append(chain, n) ELSE chain
<1>1. n \in Nat /\ Len(calls) \in Nat /\ MaxCalls \in Nat /\ calls \in Seq(CallRecord) /\ \A j \in Numbers : j < n
    BY TypeFacts, HooksAssumption
<1>2. calls' = Append(calls, r) /\ chain' = IF at = "native" THEN Append(chain, n) ELSE chain
    BY DEF Begin, Call, Enqueue, New
<1>3. Len(calls') = n
    BY <1>1, <1>2
<1>4. n <= MaxCalls
    BY <1>3, RoomNext
<1>5. of \in 0 .. MaxCalls
    BY <1>1, <1>4
<1>6. r \in CallRecord /\ r.kind = kind /\ r.at = at /\ r.half = half /\ r.of = of
    BY <1>5 DEF CallRecord
<1>7. QED BY <1>1, <1>2, <1>4, <1>6 DEF Made

\* createOffer() while nothing is negotiated.
LEMMA OfferMade ==
    ASSUME IInv, TypeOK', Bounded', ChosenFits', Begin("createOffer", "native", "none", 0),
           Reached = "stable", \A c \in Numbers : calls[c].kind \in Completing => Resolved(c), Reached' = Reached,
           UNCHANGED <<native, lastOffer, lastAnswer, selected, mockOffer, shownVars, attached>>
    PROVE  IInv'
<1> USE DEF IInv
<1>0. PICK n : n = Len(calls) + 1
    OBVIOUS
<1>1. PICK r : r = [kind |-> "createOffer", at |-> "native", half |-> "none", of |-> 0]
    OBVIOUS
<1>2. /\ n \in Nat /\ (\A j \in Numbers : j < n) /\ Made(n, r)
      /\ r.kind = "createOffer" /\ r.at = "native" /\ r.half = "none" /\ r.of = 0
      /\ chain' = Append(chain, n)
    <2>1. "createOffer" \in Kinds /\ 0 \in 0 .. n
        BY <1>0, NamesFacts DEF Kinds
    <2>2. QED BY <1>0, <1>1, <2>1, NewCall
<1>3. StableBefore(n)
    BY <1>0 DEF Legal
<1>4. Begins(n, r) /\ Shows(n, r) /\ Intends(r.kind)
    BY <1>2 DEF Begins, Shows, Intends, Creates, Completing, shownVars
<1>5. \A j \in Numbers : IsSet(j) => Resolved(j) /\ calls[j].at = "done"
    BY NegotiateWaited
<1>6. Waited(r)
    BY <1>5 DEF Waited
<1>7. Relates(n, r)
    <2>1. \A i \in Numbers : ~(calls[i].kind = "setRemoteOffer" /\ calls[i].at = "peer")
        BY <1>5 DEF IsSet, Openers
    <2>2. QED BY <2>1, <1>2 DEF Relates
<1>8. MayMake(n, r.kind)
    BY <1>2, <1>3 DEF MayMake
<1>9. QED BY <1>2, <1>4, <1>6, <1>7, <1>8, MadeStep

\* setLocalDescription() with the newest offer.
LEMMA OfferSet ==
    ASSUME IInv, TypeOK', Bounded', ChosenFits', NEW i \in Numbers, LocalOffer(i),
           Reached = "stable", \A c \in Numbers : calls[c].kind \in Completing => Resolved(c), Reached' = "offering",
           calls[i].kind = "createOffer", calls[i].at = "done",
           \A j \in Numbers : i < j => calls[j].kind # "createOffer",
           UNCHANGED <<native, lastOffer, lastAnswer, mockOffer, pendingRemote, currentLocal, currentRemote, attached>>
    PROVE  IInv'
<1> USE DEF IInv
<1>0. PICK n : n = Len(calls) + 1
    OBVIOUS
<1>1. PICK r : r = [kind |-> "setLocalOffer", at |-> "native", half |-> "none", of |-> i]
    OBVIOUS
<1>2. /\ n \in Nat /\ (\A j \in Numbers : j < n) /\ Made(n, r)
      /\ r.kind = "setLocalOffer" /\ r.at = "native" /\ r.half = "none" /\ r.of = i
      /\ chain' = Append(chain, n)
    <2>1. "setLocalOffer" \in Kinds /\ i \in 0 .. n
        BY <1>0, NamesFacts DEF Kinds
    <2>2. Begin("setLocalOffer", "native", "none", i)
        BY DEF LocalOffer
    <2>3. QED BY <1>0, <1>1, <2>1, <2>2, NewCall
<1>3. StableBefore(n)
    BY <1>0 DEF Legal
<1>4. Begins(n, r) /\ Shows(n, r) /\ Intends(r.kind)
    BY <1>2 DEF Begins, Shows, Intends, Creates, Completing, LocalOffer
<1>5. \A j \in Numbers : IsSet(j) => Resolved(j) /\ calls[j].at = "done"
    BY NegotiateWaited
<1>6. Waited(r)
    BY <1>5 DEF Waited
<1>7. Relates(n, r)
    <2>1. \A j \in Numbers : ~(calls[j].kind = "setRemoteOffer" /\ calls[j].at = "peer")
        BY <1>5 DEF IsSet, Openers
    <2>2. QED BY <2>1, <1>2 DEF Relates
<1>8. MayMake(n, r.kind)
    BY <1>2, <1>3 DEF MayMake
<1>9. QED BY <1>2, <1>4, <1>6, <1>7, <1>8, MadeStep

\* setRemoteDescription() with an offer.
LEMMA RemoteOfferSet ==
    ASSUME IInv, TypeOK', Bounded', ChosenFits', SetRemoteOffer,
           Reached = "stable", \A c \in Numbers : calls[c].kind \in Completing => Resolved(c), Reached' = "answering"
    PROVE  IInv'
<1> USE DEF IInv
<1>0. PICK n : n = Len(calls) + 1
    OBVIOUS
<1>1. PICK r : r = [kind |-> "setRemoteOffer", at |-> "peer", half |-> "none", of |-> n]
    OBVIOUS
<1>a. /\ Begin("setRemoteOffer", "peer", "none", n) /\ pendingRemote' = n /\ mockOffer' = n
      /\ UNCHANGED <<native, lastOffer, lastAnswer, selected, pendingLocal, currentLocal, currentRemote, attached>>
    BY <1>0 DEF SetRemoteOffer, New
<1>2. /\ n \in Nat /\ (\A j \in Numbers : j < n) /\ Made(n, r)
      /\ r.kind = "setRemoteOffer" /\ r.at = "peer" /\ r.half = "none" /\ r.of = n
      /\ chain' = chain
    <2>1. "setRemoteOffer" \in Kinds /\ n \in 0 .. n
        BY <1>0, NamesFacts DEF Kinds
    <2>2. QED BY <1>0, <1>1, <1>a, <2>1, NewCall
<1>3. StableBefore(n)
    BY <1>0 DEF Legal
<1>4. Begins(n, r) /\ Shows(n, r) /\ Intends(r.kind)
    BY <1>2, <1>a DEF Begins, Shows, Intends, Creates, Completing
<1>5. \A j \in Numbers : IsSet(j) => Resolved(j) /\ calls[j].at = "done"
    BY NegotiateWaited
<1>6. Waited(r)
    BY <1>5 DEF Waited
<1>7. Relates(n, r)
    <2>1. \A j \in Numbers : ~(calls[j].kind = "setRemoteOffer" /\ calls[j].at = "peer")
        BY <1>5 DEF IsSet, Openers
    <2>2. QED BY <2>1, <1>2 DEF Relates
<1>8. MayMake(n, r.kind)
    BY <1>2, <1>3 DEF MayMake
<1>9. QED BY <1>2, <1>4, <1>6, <1>7, <1>8, MadeStep

\* setRemoteDescription() with an answer: the offer that was set is the one selected.
LEMMA RemoteAnswerSet ==
    ASSUME IInv, TypeOK', Bounded', ChosenFits', SetRemoteAnswer, Reached = "offering", Reached' = "stable"
    PROVE  IInv'
<1> USE DEF IInv
<1>0. PICK n : n = Len(calls) + 1
    OBVIOUS
<1>1. PICK r : r = [kind |-> "setRemoteAnswer", at |-> "peer", half |-> "pending", of |-> selected]
    OBVIOUS
<1>2. OpenBefore(n, "setLocalOffer")
    BY <1>0 DEF Legal
<1>3. PICK o \in Numbers : LastSet(o, n) /\ calls[o].kind = "setLocalOffer"
    BY <1>2 DEF OpenBefore
<1>4. n \in Nat /\ \A j \in Numbers : j < n
    BY <1>0, TypeFacts
<1>5. selected = calls[o].of
    BY <1>3, <1>4 DEF SelectedFits, LastSet
<1>6. selected # 0 /\ calls[selected].kind = "createOffer"
    <2>1. selected \in Numbers /\ calls[selected].kind = "createOffer"
        BY <1>3, <1>5 DEF About
    <2>2. QED BY <2>1, TypeFacts
<1>a. /\ Begin("setRemoteAnswer", "peer", "pending", selected)
      /\ UNCHANGED <<native, lastOffer, lastAnswer, selected, mockOffer, shownVars, attached>>
    BY <1>6 DEF SetRemoteAnswer
<1>7. /\ Made(n, r)
      /\ r.kind = "setRemoteAnswer" /\ r.at = "peer" /\ r.half = "pending" /\ r.of = selected
      /\ chain' = chain
    <2>1. "setRemoteAnswer" \in Kinds /\ selected \in 0 .. n
        BY <1>0, NamesFacts DEF Kinds, Completing
    <2>2. QED BY <1>0, <1>1, <1>a, <2>1, NewCall
<1>8. Begins(n, r) /\ Shows(n, r) /\ Intends(r.kind)
    BY <1>7, <1>a DEF Begins, Shows, Intends, Creates, Completing, shownVars
<1>9. \A c \in Numbers : calls[c].kind \in Completing => Resolved(c)
    BY CompletedResolved
<1>10. Relates(n, r)
    <2>1. ASSUME NEW j \in Numbers, calls[j].kind = "setRemoteOffer" PROVE calls[j].at # "peer"
        <3>1. j < o
            BY <1>4, <1>3, <2>1, TypeFacts DEF LastSet, IsSet, Openers
        <3>2. Resolved(j)
            BY <1>3, <2>1, <3>1 DEF OneAtATime, Beginners, Openers, IsSet
        <3>3. QED BY <3>2, ResolvedDone
    <2>2. ASSUME NEW q \in Numbers, LastSet(q, n) PROVE q = o
        BY <1>4, <1>3, <2>2, OneLastSet
    <2>3. QED BY <2>1, <2>2, <1>7, <1>5 DEF Relates
<1>11. MayMake(n, r.kind) /\ Waited(r)
    BY <1>2, <1>7, <1>9 DEF MayMake, Waited, Beginners, Openers
<1>12. QED BY <1>7, <1>8, <1>10, <1>11, MadeStep DEF Openers

\* createAnswer() to the remote offer that was set.
LEMMA AnswerMade ==
    ASSUME IInv, TypeOK', Bounded', ChosenFits', Begin("createAnswer", OnceOffered, "none", 0),
           Reached = "answering", Reached' = Reached, \A j \in Numbers : ~Failed(j),
           UNCHANGED <<native, lastOffer, lastAnswer, selected, mockOffer, shownVars, attached>>
    PROVE  IInv'
<1> USE DEF IInv
<1>0. PICK n : n = Len(calls) + 1
    OBVIOUS
<1>a. PICK at : at = OnceOffered
    OBVIOUS
<1>1. PICK r : r = [kind |-> "createAnswer", at |-> at, half |-> "none", of |-> 0]
    OBVIOUS
<1>2. OpenBefore(n, "setRemoteOffer")
    BY <1>0 DEF Legal
<1>3. PICK o \in Numbers : LastSet(o, n) /\ calls[o].kind = "setRemoteOffer"
    BY <1>2 DEF OpenBefore
<1>4. n \in Nat /\ \A j \in Numbers : j < n
    BY <1>0, TypeFacts
<1>5. mockOffer = o
    BY <1>3, <1>4 DEF MockOfferFits, LastSet
<1>6. calls[o].at \in {"peer", "native", "done"}
    <2>1. ~Failed(o) /\ calls[o] \in CallRecord
        BY TypeFacts
    <2>2. calls[o].at # "mock-offer"
        BY <1>3 DEF Awaited
    <2>3. QED BY <2>1, <2>2 DEF Failed, CallRecord
<1>7. at = IF calls[o].at = "peer" THEN "mock-offer" ELSE "native"
    BY <1>a, <1>5, <1>6 DEF OnceOffered
<1>8. /\ Made(n, r)
      /\ r.kind = "createAnswer" /\ r.at = at /\ r.half = "none" /\ r.of = 0
      /\ chain' = IF at = "native" THEN Append(chain, n) ELSE chain
    <2>1. "createAnswer" \in Kinds /\ 0 \in 0 .. n /\ at \in {"mock-offer", "peer", "native", "done", "failed"}
        BY <1>0, <1>7, NamesFacts DEF Kinds
    <2>2. QED BY <1>0, <1>1, <1>a, <2>1, NewCall
<1>9. Begins(n, r) /\ Shows(n, r) /\ Intends(r.kind)
    BY <1>7, <1>8 DEF Begins, Shows, Intends, Creates, Completing, shownVars
<1>10. \A c \in Numbers : calls[c].kind \in Completing => Resolved(c)
    BY CompletedResolved
<1>11. Relates(n, r)
    <2>1. ASSUME NEW j \in Numbers, calls[j].kind = "setRemoteOffer", calls[j].at = "peer"
          PROVE  r.at = "mock-offer"
        <3>1. j <= o
            BY <1>4, <1>3, <2>1, TypeFacts DEF LastSet, IsSet, Openers
        <3>2. CASE j = o
            BY <3>2, <2>1, <1>7, <1>8
        <3>3. CASE j < o
            BY <3>3, <2>1, <1>3 DEF Awaited
        <3>4. QED BY <3>1, <3>2, <3>3, TypeFacts
    <2>2. ASSUME NEW q \in Numbers, LastSet(q, n) PROVE q = o
        BY <1>4, <1>3, <2>2, OneLastSet
    <2>3. QED BY <2>1, <2>2, <1>6, <1>7, <1>8 DEF Relates
<1>12. MayMake(n, r.kind) /\ Waited(r)
    BY <1>2, <1>8, <1>10 DEF MayMake, Waited, Beginners, Openers
<1>13. QED BY <1>8, <1>9, <1>11, <1>12, MadeStep DEF Openers

\* setLocalDescription() with the newest answer: the mock offer has been set.
LEMMA AnswerSet ==
    ASSUME IInv, TypeOK', Bounded', ChosenFits', NEW i \in Numbers, LocalAnswer(i),
           Reached = "answering", Reached' = "stable",
           \A j \in Numbers : calls[j].kind = "setRemoteOffer" => calls[j].at # "failed",
           calls[i].kind = "createAnswer", calls[i].at = "done",
           \A j \in Numbers : i < j => calls[j].kind \notin {"createAnswer", "setRemoteOffer"},
           UNCHANGED <<native, lastOffer, lastAnswer, mockOffer, pendingRemote, currentLocal, currentRemote, attached>>
    PROVE  IInv'
<1> USE DEF IInv
<1>0. PICK n : n = Len(calls) + 1
    OBVIOUS
<1>1. PICK r : r = [kind |-> "setLocalAnswer", at |-> "native", half |-> "pending", of |-> i]
    OBVIOUS
<1>2. OpenBefore(n, "setRemoteOffer")
    BY <1>0 DEF Legal
<1>3. PICK o \in Numbers : LastSet(o, n) /\ calls[o].kind = "setRemoteOffer"
    BY <1>2 DEF OpenBefore
<1>4. n \in Nat /\ i \in 0 .. n /\ \A j \in Numbers : j < n
    BY <1>0, TypeFacts, NamesFacts
<1>5. o < i
    BY <1>3, TypeFacts
<1>6. calls[o].at = "done"
    <2>1. calls[o].at # "native" /\ calls[o].at # "peer"
        BY <1>3, <1>5 DEF InOrder, Awaited
    <2>2. calls[o].at # "failed" /\ calls[o].at # "mock-offer"
        BY <1>3 DEF Awaited
    <2>3. QED BY <2>1, <2>2, TypeFacts DEF CallRecord
<1>7. mockOffer = o
    BY <1>3, <1>4 DEF MockOfferFits, LastSet
<1>a. OnceOffered = "native"
    BY <1>6, <1>7 DEF OnceOffered
<1>b. Begin("setLocalAnswer", "native", "pending", i) /\ selected' = i /\ pendingLocal' = pendingLocal
    BY <1>a DEF LocalAnswer
<1>8. /\ Made(n, r)
      /\ r.kind = "setLocalAnswer" /\ r.at = "native" /\ r.half = "pending" /\ r.of = i
      /\ chain' = Append(chain, n)
    <2>1. "setLocalAnswer" \in Kinds
        BY DEF Kinds, Completing
    <2>2. QED BY <1>0, <1>1, <1>4, <1>b, <2>1, NewCall
<1>9. Begins(n, r) /\ Shows(n, r) /\ Intends(r.kind)
    BY <1>8, <1>b DEF Begins, Shows, Intends, Creates, Completing
<1>10. \A c \in Numbers : calls[c].kind \in Completing => Resolved(c)
    BY CompletedResolved
<1>11. Relates(n, r)
    <2>1. ASSUME NEW j \in Numbers, calls[j].kind = "setRemoteOffer" PROVE calls[j].at # "peer"
        <3>1. j < i
            BY <2>1, TypeFacts
        <3>2. QED BY <2>1, <3>1 DEF Awaited
    <2>2. ASSUME NEW q \in Numbers, LastSet(q, n) PROVE q = o
        BY <1>4, <1>3, <2>2, OneLastSet
    <2>3. QED BY <2>1, <2>2, <1>8, <1>5, <1>6 DEF Relates
<1>12. MayMake(n, r.kind) /\ Waited(r)
    BY <1>2, <1>8, <1>10 DEF MayMake, Waited, Beginners, Openers
<1>13. QED BY <1>8, <1>9, <1>11, <1>12, MadeStep DEF Openers

\* What the native connection is at when every set call is over.
LEMMA NativeReached ==
    ASSUME IInv, \A j \in Numbers : IsSet(j) => Resolved(j)
    PROVE  /\ Reached = "stable" => native = "stable"
           /\ Reached = "answering" => native = "have-remote-offer"
<1> USE TypeFacts, KindsApart DEF IInv
<1>1. ASSUME Reached = "stable" PROVE native = "stable"
    <2>1. \A c \in Numbers : calls[c].kind \in Completing => Resolved(c)
        BY DEF IsSet
    <2>2. ASSUME NEW o \in Numbers, calls[o].kind \in Openers
          PROVE  \E c \in Numbers : o < c /\ calls[c].kind \in Completing /\ calls[c].at = "done"
        <3>1. PICK c \in Numbers : o < c /\ calls[c].kind \in Completing
            BY <1>1, <2>1, <2>2, StableAllDone DEF IsSet
        <3>2. QED BY <2>1, <3>1, ResolvedDone
    <2>3. QED BY <2>2 DEF NativeFits
<1>2. ASSUME Reached = "answering" PROVE native = "have-remote-offer"
    <2>1. PICK o \in Numbers : LastSet(o, Len(calls) + 1) /\ calls[o].kind = "setRemoteOffer"
        BY <1>2 DEF Legal, OpenBefore
    <2>2. calls[o].at = "done"
        BY <2>1, ResolvedDone DEF LastSet
    <2>3. \A j \in Numbers : o < j => ~IsSet(j)
        BY <2>1 DEF LastSet
    <2>4. QED BY <2>1, <2>2, <2>3 DEF NativeFits, Openers
<1>3. QED BY <1>1, <1>2

\* Each step of the application, while it has not strayed.
LEMMA CreateOfferStep ==
    ASSUME IInv, TypeOK', Bounded', CreateOffer, Over
    PROVE  IInv'
<1>1. chosen = {} /\ chosen' = {} /\ intent = "stable" /\ intent' = "stable"
    BY DEF CreateOffer, MayNegotiate, Over
<1>2. Reached = "stable" /\ Reached' = Reached /\ ChosenFits'
    BY <1>1 DEF Reached, ChosenFits
<1>3. QED BY <1>2, OfferMade DEF CreateOffer, Over

LEMMA SetLocalOfferStep ==
    ASSUME IInv, TypeOK', Bounded', NEW i \in Numbers, SetLocalOffer(i), Over
    PROVE  IInv'
<1>1. chosen = {} /\ chosen' = {} /\ intent = "stable" /\ intent' = "offering"
    BY DEF SetLocalOffer, MayNegotiate, Over
<1>2. Reached = "stable" /\ Reached' = "offering" /\ ChosenFits'
    BY <1>1 DEF Reached, ChosenFits
<1>3. /\ calls[i].kind = "createOffer" /\ calls[i].at = "done"
      /\ \A j \in Numbers : i < j => calls[j].kind # "createOffer"
    <2>1. Newest(i, "createOffer")
        BY DEF SetLocalOffer
    <2>2. \A j \in Numbers : i < j => j \in i + 1 .. Len(calls)
        BY TypeFacts DEF IInv
    <2>3. QED BY <2>1, <2>2 DEF Newest
<1>4. QED BY <1>2, <1>3, OfferSet DEF SetLocalOffer, Over

LEMMA SetRemoteOfferStep ==
    ASSUME IInv, TypeOK', Bounded', SetRemoteOffer, Over
    PROVE  IInv'
<1>1. chosen = {} /\ chosen' = {} /\ intent = "stable" /\ intent' = "answering"
    BY DEF SetRemoteOffer, MayNegotiate, Over
<1>2. Reached = "stable" /\ Reached' = "answering" /\ ChosenFits'
    BY <1>1 DEF Reached, ChosenFits
<1>3. QED BY <1>2, RemoteOfferSet DEF Over

LEMMA SetRemoteAnswerStep ==
    ASSUME IInv, TypeOK', Bounded', SetRemoteAnswer, chosen = {}
    PROVE  IInv'
<1>1. chosen' = {} /\ intent = "offering" /\ intent' = "stable"
    BY DEF SetRemoteAnswer
<1>2. Reached = "offering" /\ Reached' = "stable" /\ ChosenFits'
    BY <1>1 DEF Reached, ChosenFits
<1>3. QED BY <1>2, RemoteAnswerSet

LEMMA CreateAnswerStep ==
    ASSUME IInv, TypeOK', Bounded', CreateAnswer, chosen = {}
    PROVE  IInv'
<1>1. chosen' = {} /\ intent = "answering" /\ intent' = "answering"
    BY DEF CreateAnswer
<1>2. Reached = "answering" /\ Reached' = Reached /\ ChosenFits'
    BY <1>1 DEF Reached, ChosenFits
<1>3. QED BY <1>2, AnswerMade DEF CreateAnswer, MayCall

LEMMA SetLocalAnswerStep ==
    ASSUME IInv, TypeOK', Bounded', NEW i \in Numbers, SetLocalAnswer(i), chosen = {}
    PROVE  IInv'
<1>1. chosen' = {} /\ intent = "answering" /\ intent' = "stable"
    BY DEF SetLocalAnswer
<1>2. Reached = "answering" /\ Reached' = "stable" /\ ChosenFits'
    BY <1>1 DEF Reached, ChosenFits
<1>3. /\ calls[i].kind = "createAnswer" /\ calls[i].at = "done"
      /\ \A j \in Numbers : i < j => calls[j].kind \notin {"createAnswer", "setRemoteOffer"}
    <2>1. Newest(i, "createAnswer")
        BY DEF SetLocalAnswer
    <2>2. \A j \in Numbers : i < j => j \in i + 1 .. Len(calls)
        BY TypeFacts DEF IInv
    <2>3. QED BY <2>1, <2>2 DEF Newest
<1>4. \A j \in Numbers : calls[j].at # "failed"
    BY DEF SetLocalAnswer, MayCall, Failed
<1>5. QED BY <1>2, <1>3, <1>4, AnswerSet DEF SetLocalAnswer

LEMMA SetLocalChosenStep ==
    ASSUME IInv, TypeOK', Bounded', SetLocalChosen,
           chosen = {}, \A j \in Numbers : calls[j].kind \in Sets => Resolved(j)
    PROVE  IInv'
<1>0. PICK n : n = Len(calls) + 1
    OBVIOUS
<1>1. /\ chosen' = {n} /\ intent' = IF intent = "stable" THEN "offering" ELSE "stable"
      /\ UNCHANGED <<native, lastOffer, lastAnswer, selected, mockOffer, shownVars, attached>>
      /\ \A j \in Numbers : ~Failed(j)
    BY <1>0 DEF SetLocalChosen, New, MayCall
<1>2. intent \in {"stable", "answering"} /\ Reached = intent /\ Reached' = intent
    <2>1. intent \in {"stable", "answering"}
        BY DEF SetLocalChosen, IInv, TypeOK
    <2>2. chosen' # {}
        BY <1>1
    <2>3. QED BY <1>1, <2>1, <2>2 DEF Reached
<1>3. \A j \in Numbers : IsSet(j) => Resolved(j)
    BY DEF IsSet, Sets, Openers
<1>4. IF intent = "answering" THEN Begin("createAnswer", OnceOffered, "none", 0)
      ELSE Begin("createOffer", "native", "none", 0)
    <2>1. (intent = "stable" => native = "stable") /\ (intent = "answering" => native = "have-remote-offer")
        BY <1>2, <1>3, NativeReached
    <2>2. QED BY <1>2, <2>1 DEF SetLocalChosen
<1>5. ChosenFits'
    <2>1. PICK kind, at :
              /\ calls' = Append(calls, [kind |-> kind, at |-> at, half |-> "none", of |-> 0])
              /\ kind = IF intent = "answering" THEN "createAnswer" ELSE "createOffer"
        BY <1>4 DEF Begin, Call
    <2>2. PICK r : r = [kind |-> kind, at |-> at, half |-> "none", of |-> 0]
        OBVIOUS
    <2>3. r.kind = kind /\ calls' = Append(calls, r)
        BY <2>1, <2>2
    <2>4. Len(calls) \in Nat /\ n \in Nat /\ Numbers = 1 .. Len(calls) /\ calls \in Seq(CallRecord)
        BY <1>0, TypeFacts DEF IInv, Numbers
    <2>5. calls' \in Seq(CallRecord)
        BY DEF TypeOK, CallRecord
    <2>6. Len(calls') = n /\ calls'[n] = r /\ \A j \in 1 .. Len(calls) : calls'[j] = calls[j]
        BY <2>3, <2>4, <1>0
    <2>7. Numbers' = Numbers \cup {n} /\ \A j \in Numbers : calls'[j] = calls[j]
        BY <2>4, <2>6, <1>0 DEF Numbers
    <2>8. ASSUME NEW j \in Numbers', IsSet(j)' PROVE Resolved(j)'
        <3>1. j # n
            BY <2>1, <2>3, <2>6, <2>8 DEF IsSet, Openers, Completing
        <3>2. j \in Numbers /\ calls'[j] = calls[j]
            BY <3>1, <2>7
        <3>3. QED BY <3>2, <2>8, <1>3 DEF IsSet, Resolved
    <2>9. calls'[n].kind = IF intent' = "offering" THEN "createOffer" ELSE "createAnswer"
        BY <1>1, <1>2, <2>1, <2>3, <2>6
    <2>10. intent' \in {"offering", "stable"}
        BY <1>1
    <2>11. QED BY <1>1, <2>6, <2>7, <2>8, <2>9, <2>10 DEF ChosenFits
<1>6. CASE intent = "stable"
    <2>1. \A c \in Numbers : calls[c].kind \in Completing => Resolved(c)
        BY <1>3 DEF IsSet
    <2>2. Reached = "stable" /\ Reached' = Reached
        BY <1>2, <1>6
    <2>3. Begin("createOffer", "native", "none", 0)
        BY <1>4, <1>6
    <2>4. QED BY <1>1, <1>5, <2>1, <2>2, <2>3, OfferMade
<1>7. CASE intent = "answering"
    <2>1. Reached = "answering" /\ Reached' = Reached
        BY <1>2, <1>7
    <2>2. Begin("createAnswer", OnceOffered, "none", 0)
        BY <1>4, <1>7
    <2>3. QED BY <1>1, <1>5, <2>1, <2>2, AnswerMade
<1>8. QED BY <1>2, <1>6, <1>7

LEMMA ChosenIsSetStep ==
    ASSUME IInv, TypeOK', Bounded', NEW i \in Numbers, ChosenIsSet(i)
    PROVE  IInv'
<1>1. /\ i \in chosen /\ calls[i].at = "done" /\ chosen' = chosen \ {i} /\ intent' = intent
      /\ UNCHANGED <<native, lastOffer, lastAnswer, mockOffer, pendingRemote, currentLocal, currentRemote, attached>>
      /\ IF calls[i].kind = "createOffer" THEN LocalOffer(i) ELSE LocalAnswer(i)
    BY DEF ChosenIsSet
<1>2. /\ chosen = {Len(calls)} /\ intent \in {"offering", "stable"}
      /\ calls[Len(calls)].kind = IF intent = "offering" THEN "createOffer" ELSE "createAnswer"
      /\ \A j \in Numbers : IsSet(j) => Resolved(j)
    BY <1>1 DEF IInv, ChosenFits
<1>3. i = Len(calls) /\ chosen' = {} /\ ChosenFits' /\ \A j \in Numbers : ~(i < j)
    <2>1. i = Len(calls) /\ chosen' = {}
        BY <1>1, <1>2
    <2>2. QED BY <2>1, TypeFacts DEF IInv, ChosenFits
<1>4. CASE intent = "offering"
    <2>1. Reached = "stable" /\ Reached' = "offering"
        BY <1>1, <1>3, <1>4 DEF Reached
    <2>2. calls[i].kind = "createOffer" /\ LocalOffer(i)
        BY <1>1, <1>2, <1>3, <1>4
    <2>3. \A c \in Numbers : calls[c].kind \in Completing => Resolved(c)
        BY <1>2 DEF IsSet
    <2>4. QED BY <1>1, <1>3, <2>1, <2>2, <2>3, OfferSet
<1>5. CASE intent = "stable"
    <2>1. Reached = "answering" /\ Reached' = "stable"
        BY <1>1, <1>3, <1>5 DEF Reached
    <2>2. calls[i].kind = "createAnswer" /\ LocalAnswer(i)
        BY <1>1, <1>2, <1>3, <1>5
    <2>3. \A j \in Numbers : calls[j].kind = "setRemoteOffer" => calls[j].at # "failed"
        BY <1>2, ResolvedDone DEF IsSet, Openers
    <2>4. QED BY <1>1, <1>3, <2>1, <2>2, <2>3, AnswerSet
<1>6. QED BY <1>2, <1>4, <1>5

-----------------------------------------------------------------------------
(* Continuations.                                                          *)

\* Calls go on as they may, and no call is made.
Continue ==
    /\ Len(calls') = Len(calls) /\ UNCHANGED <<intent, chosen, selected, mockOffer>>
    /\ calls' \in Seq(CallRecord)
    /\ \A i \in Numbers :
          /\ calls'[i].kind = calls[i].kind
          /\ calls[i].at = "done" => calls'[i].at = "done"
          /\ Resolved(i) => Resolved(i)'
          /\ calls'[i].of # calls[i].of => calls[i].kind = "createAnswer" /\ calls[i].at = "native"

LEMMA ContinueKeeps ==
    ASSUME IInv, Continue
    PROVE  /\ Numbers' = Numbers
           /\ \A i \in Numbers : IsSet(i)' <=> IsSet(i)
           /\ \A s, k \in Numbers : LastSet(s, k)' <=> LastSet(s, k)
           /\ Legal' /\ OneAtATime' /\ About' /\ SelectedFits' /\ MockOfferFits' /\ ChosenFits'
<1> USE DEF IInv
<1>1. /\ Numbers' = Numbers /\ Len(calls') = Len(calls)
      /\ \A i \in Numbers : calls'[i].kind = calls[i].kind
      /\ \A i \in Numbers : Resolved(i) => Resolved(i)'
    BY DEF Continue, Numbers
<1>2. \A i \in Numbers : IsSet(i)' <=> IsSet(i)
    BY <1>1 DEF IsSet
<1>3. ASSUME NEW k PROVE \A s \in Numbers : LastSet(s, k)' <=> LastSet(s, k)
    BY <1>1, <1>2 DEF LastSet
<1>4. ASSUME NEW k PROVE StableBefore(k)' <=> StableBefore(k)
    BY <1>1, <1>2, <1>3 DEF StableBefore
<1>5. ASSUME NEW k, NEW kind PROVE OpenBefore(k, kind)' <=> OpenBefore(k, kind)
    BY <1>1, <1>3 DEF OpenBefore
<1>6. Legal'
    <2>1. \A k \in Numbers :
             /\ calls'[k].kind \in Beginners => StableBefore(k)'
             /\ calls'[k].kind = "setRemoteAnswer" => OpenBefore(k, "setLocalOffer")'
             /\ calls'[k].kind \in {"createAnswer", "setLocalAnswer"} => OpenBefore(k, "setRemoteOffer")'
        BY <1>1, <1>4, <1>5 DEF Legal
    <2>2. /\ Reached' = "stable" => StableBefore(Len(calls) + 1)'
          /\ Reached' = "offering" => OpenBefore(Len(calls) + 1, "setLocalOffer")'
          /\ Reached' = "answering" => OpenBefore(Len(calls) + 1, "setRemoteOffer")'
        <3>1. Reached' = Reached
            BY DEF Continue, Reached
        <3>2. PICK m : m = Len(calls) + 1
            OBVIOUS
        <3>3. /\ Reached = "stable" => StableBefore(m)
              /\ Reached = "offering" => OpenBefore(m, "setLocalOffer")
              /\ Reached = "answering" => OpenBefore(m, "setRemoteOffer")
            BY <3>2 DEF Legal
        <3>4. /\ Reached = "stable" => StableBefore(m)'
              /\ Reached = "offering" => OpenBefore(m, "setLocalOffer")'
              /\ Reached = "answering" => OpenBefore(m, "setRemoteOffer")'
            BY <3>3, <1>4, <1>5
        <3>5. QED BY <3>1, <3>2, <3>4, <1>1 DEF StableBefore, OpenBefore, LastSet
    <2>3. QED BY <1>1, <2>1, <2>2 DEF Legal
<1>7. OneAtATime'
    BY <1>1, <1>2 DEF OneAtATime
<1>8. \A i \in Numbers : calls[i].kind # "createAnswer" \/ calls[i].at = "done" => calls'[i].of = calls[i].of
    BY DEF Continue
<1>9. About'
    <2> SUFFICES ASSUME NEW i \in Numbers, calls[i].kind \in {"setLocalOffer", "setLocalAnswer"},
                        NEW create, create = IF calls[i].kind = "setLocalOffer" THEN "createOffer" ELSE "createAnswer"
                 PROVE  /\ calls'[i].of \in Numbers /\ calls'[i].of < i
                        /\ calls'[calls'[i].of].kind = create /\ calls'[calls'[i].of].at = "done"
                        /\ \A j \in Numbers : calls'[i].of < j /\ j < i => calls'[j].kind # create
        BY <1>1 DEF About
    <2>1. /\ calls[i].of \in Numbers /\ calls[i].of < i
          /\ calls[calls[i].of].kind = create /\ calls[calls[i].of].at = "done"
          /\ \A j \in Numbers : calls[i].of < j /\ j < i => calls[j].kind # create
        BY DEF About
    <2>2. calls'[i].of = calls[i].of
        BY <1>8
    <2>3. calls'[calls[i].of].at = "done"
        BY <2>1 DEF Continue
    <2>4. QED BY <2>1, <2>2, <2>3, <1>1
<1>10. SelectedFits'
    <2> SUFFICES ASSUME NEW i \in Numbers, IsSet(i), calls[i].kind # "setRemoteOffer",
                        \A j \in Numbers : i < j /\ IsSet(j) => calls[j].kind = "setRemoteOffer"
                 PROVE  selected' = calls'[i].of
        BY <1>1, <1>2 DEF SelectedFits
    <2>1. calls[i].kind # "createAnswer"
        BY DEF IsSet, Openers, Completing
    <2>2. QED BY <2>1, <1>8 DEF SelectedFits, Continue
<1>11. MockOfferFits'
    BY <1>1, <1>2 DEF MockOfferFits, Continue
<1>12. ChosenFits'
    <2>1. chosen' = chosen /\ intent' = intent
        BY DEF Continue
    <2>2. chosen # {} =>
            /\ chosen = {Len(calls)} /\ Len(calls) \in Numbers /\ intent \in {"offering", "stable"}
            /\ calls[Len(calls)].kind = IF intent = "offering" THEN "createOffer" ELSE "createAnswer"
            /\ \A j \in Numbers : IsSet(j) => Resolved(j)
        BY DEF ChosenFits
    <2>3. QED BY <2>1, <2>2, <1>1, <1>2 DEF ChosenFits
<1>13. QED BY <1>1, <1>2, <1>3, <1>6, <1>7, <1>9, <1>10, <1>11, <1>12

\* Nothing that is shown changes while no call that completes a negotiation is over.
LEMMA ContinueQuietly ==
    ASSUME IInv, Continue, UNCHANGED shownVars,
           \A c \in Numbers : calls[c].kind \in Completing /\ Resolved(c)' => Resolved(c)
    PROVE  PendingFits' /\ CurrentNamed' /\ CurrentDone'
<1> USE DEF IInv
<1>1. /\ Numbers' = Numbers /\ Reached' = Reached
      /\ \A i \in Numbers : calls'[i].kind = calls[i].kind
      /\ \A i \in Numbers : calls[i].kind \in Completing => (Resolved(i)' <=> Resolved(i))
      /\ \A i \in Numbers : calls[i].kind # "createAnswer" \/ calls[i].at = "done" => calls'[i].of = calls[i].of
    BY DEF Continue, Numbers, Reached
<1>2. UNCHANGED <<pendingLocal, pendingRemote, currentLocal, currentRemote>>
    BY DEF shownVars
<1>3. currentLocal # 0 => currentLocal \in Numbers
    BY TypeFacts DEF TypeOK, Numbers
<1>4. CurrentDone'
    BY <1>2, <1>3 DEF CurrentDone, Continue
<1>5. CurrentNamed'
    <2> SUFFICES ASSUME currentLocal # 0
                 PROVE  /\ \/ calls'[currentLocal].kind = "createOffer" /\ currentRemote = currentLocal
                           \/ calls'[currentLocal].kind = "createAnswer" /\ currentRemote = calls'[currentLocal].of
                        /\ \E i \in Numbers : calls'[i].kind \in Completing /\ calls'[i].of = currentLocal /\ Resolved(i)'
        BY <1>1, <1>2 DEF CurrentNamed
    <2>1. PICK i \in Numbers : calls[i].kind \in Completing /\ calls[i].of = currentLocal /\ Resolved(i)
        BY DEF CurrentNamed
    <2>2. calls'[i].kind \in Completing /\ calls'[i].of = currentLocal /\ Resolved(i)'
        BY <2>1, <1>1 DEF Completing
    <2>3. calls'[currentLocal].kind = calls[currentLocal].kind /\ calls'[currentLocal].of = calls[currentLocal].of
        BY <1>1, <1>3 DEF CurrentDone
    <2>4. QED BY <2>2, <2>3 DEF CurrentNamed
<1>6. PendingFits'
    <2>1. ASSUME NEW o \in Numbers, calls[o].kind \in Openers,
                 \A c \in Numbers : o < c /\ calls[c].kind \in Completing => ~Resolved(c)'
          PROVE  IF calls[o].kind = "setLocalOffer" THEN pendingLocal' = calls'[o].of /\ pendingRemote' = 0
                 ELSE pendingLocal' = 0 /\ pendingRemote' = o
        <3>1. calls'[o].of = calls[o].of
            BY <2>1, <1>1 DEF Openers
        <3>2. \A c \in Numbers : o < c /\ calls[c].kind \in Completing => ~Resolved(c)
            BY <2>1, <1>1
        <3>3. QED BY <2>1, <3>1, <3>2, <1>2 DEF PendingFits
    <2>2. ASSUME Reached' = "stable", \A c \in Numbers : calls[c].kind \in Completing => Resolved(c)'
          PROVE  pendingLocal' = 0 /\ pendingRemote' = 0
        BY <2>2, <1>1, <1>2 DEF PendingFits
    <2>3. QED BY <2>1, <2>2, <1>1 DEF PendingFits
<1>7. QED BY <1>4, <1>5, <1>6

\* A call that completes a negotiation shows its offer and answer.
LEMMA ContinueSwapping ==
    ASSUME IInv, Continue, NEW i \in Numbers, calls[i].kind \in Completing, ~Resolved(i), Resolved(i)', Swap(i)
    PROVE  PendingFits' /\ CurrentNamed' /\ CurrentDone'
<1> USE DEF IInv
<1>1. /\ Numbers' = Numbers /\ Numbers \subseteq Nat
      /\ \A j \in Numbers : calls'[j].kind = calls[j].kind
      /\ \A j \in Numbers : calls[j].kind # "createAnswer" \/ calls[j].at = "done" => calls'[j].of = calls[j].of
      /\ \A j \in Numbers : calls[j].at = "done" => calls'[j].at = "done"
    BY TypeFacts DEF Continue, Numbers
<1>2. calls'[i].of = calls[i].of
    BY <1>1 DEF Completing
<1>3. PICK o \in Numbers : LastSet(o, i) /\ calls[o].kind = IF calls[i].kind = "setLocalAnswer" THEN "setRemoteOffer" ELSE "setLocalOffer"
    BY DEF Legal, OpenBefore, Completing
<1>4. \A c \in Numbers : o < c /\ calls[c].kind \in Completing => ~Resolved(c)
    <2> SUFFICES ASSUME NEW c \in Numbers, o < c, calls[c].kind \in Completing PROVE c = i
        OBVIOUS
    <2>1. ~(c < i)
        BY <1>3 DEF LastSet, IsSet
    <2>2. ~(i < c)
        BY DEF OneAtATime
    <2>3. QED BY <2>1, <2>2, <1>1
<1>5. IF calls[o].kind = "setLocalOffer" THEN pendingLocal = calls[o].of /\ pendingRemote = 0
      ELSE pendingLocal = 0 /\ pendingRemote = o
    BY <1>3, <1>4 DEF PendingFits, Openers
<1>6. /\ currentLocal' = calls[i].of /\ calls[i].of \in Numbers /\ calls[calls[i].of].at = "done"
      /\ currentRemote' \in Numbers
      /\ \/ calls[currentLocal'].kind = "createOffer" /\ currentRemote' = currentLocal'
         \/ calls[currentLocal'].kind = "createAnswer" /\ currentRemote' = calls[currentLocal'].of
    <2>1. CASE calls[i].kind = "setLocalAnswer"
        <3>1. /\ calls[i].of \in Numbers /\ calls[i].of < i
              /\ calls[calls[i].of].kind = "createAnswer" /\ calls[calls[i].of].at = "done"
            BY <2>1 DEF About
        <3>2. o < calls[i].of
            BY <2>1, <1>3 DEF Opened
        <3>3. LastSet(o, calls[i].of)
            <4>1. o \in Numbers /\ IsSet(o) /\ \A j \in Numbers : o < j /\ j < i => ~IsSet(j)
                BY <1>3 DEF LastSet
            <4>2. ASSUME NEW j \in Numbers, j < calls[i].of PROVE j < i
                <5>1. j \in Nat /\ i \in Nat /\ calls[i].of \in Nat /\ calls[i].of < i
                    BY <3>1, <1>1
                <5>2. QED BY <4>2, <5>1
            <4>3. QED BY <3>1, <3>2, <4>1, <4>2 DEF LastSet
        <3>4. calls[calls[i].of].of = o
            BY <3>1, <3>3 DEF Opened
        <3>5. currentLocal' = calls[i].of /\ currentRemote' = o
            BY <2>1, <1>3, <1>5 DEF Swap
        <3>6. QED BY <3>1, <3>4, <3>5
    <2>2. CASE calls[i].kind = "setRemoteAnswer"
        <3>1. calls[o].kind = "setLocalOffer" /\ calls[i].of = calls[o].of
            BY <2>2, <1>3 DEF Opened
        <3>2. calls[o].of \in Numbers /\ calls[calls[o].of].kind = "createOffer" /\ calls[calls[o].of].at = "done"
            BY <3>1 DEF About
        <3>3. currentLocal' = calls[o].of /\ currentRemote' = calls[i].of
            BY <2>2, <3>1, <1>5 DEF Swap
        <3>4. QED BY <3>1, <3>2, <3>3
    <2>3. QED BY <2>1, <2>2 DEF Completing
<1>7. pendingLocal' = 0 /\ pendingRemote' = 0
    BY DEF Swap
<1>8. calls'[currentLocal'].kind = calls[currentLocal'].kind /\ calls'[currentLocal'].of = calls[currentLocal'].of
      /\ calls'[currentLocal'].at = "done"
    BY <1>1, <1>6
<1>9. CurrentDone'
    BY <1>8 DEF CurrentDone
<1>10. CurrentNamed'
    <2>1. calls'[i].kind \in Completing /\ calls'[i].of = currentLocal'
        BY <1>1, <1>2, <1>6
    <2>2. QED BY <2>1, <1>1, <1>6, <1>8 DEF CurrentNamed
<1>11. PendingFits'
    <2>1. ASSUME NEW q \in Numbers, calls[q].kind \in Openers,
                 \A c \in Numbers : q < c /\ calls[c].kind \in Completing => ~Resolved(c)'
          PROVE  FALSE
        <3>1. ~(q < i)
            BY <2>1
        <3>2. ~(i < q)
            BY DEF OneAtATime
        <3>3. q = i
            BY <3>1, <3>2, <1>1
        <3>4. QED BY <2>1, <3>3 DEF Openers, Completing
    <2>2. QED BY <2>1, <1>1, <1>7 DEF PendingFits
<1>12. QED BY <1>9, <1>10, <1>11

\* A call that is not over becomes q.
LEMMA BecomesContinues ==
    ASSUME IInv, NEW i \in Numbers, NEW q \in CallRecord, Becomes(i, q), ~Resolved(i),
           UNCHANGED <<intent, chosen, selected, mockOffer>>, q.kind = calls[i].kind,
           calls[i].at = "done" => q.at = "done",
           q.of # calls[i].of => calls[i].kind = "createAnswer" /\ calls[i].at = "native"
    PROVE  /\ Continue
           /\ calls'[i] = q /\ \A j \in Numbers \ {i} : calls'[j] = calls[j]
           /\ PendingFits' /\ CurrentNamed' /\ CurrentDone'
<1>0. TypeOK /\ calls' = [calls EXCEPT ![i] = q]
    BY DEF IInv, Becomes
<1>1. /\ calls' \in Seq(CallRecord) /\ Len(calls') = Len(calls)
      /\ calls'[i] = q /\ \A j \in Numbers \ {i} : calls'[j] = calls[j]
    BY <1>0, Updated
<1>2. \A j \in Numbers \ {i} : Resolved(j)' <=> Resolved(j)
    BY <1>1 DEF Resolved
<1>3. Continue
    <2> SUFFICES ASSUME NEW j \in Numbers
                 PROVE  /\ calls'[j].kind = calls[j].kind
                        /\ calls[j].at = "done" => calls'[j].at = "done"
                        /\ Resolved(j) => Resolved(j)'
                        /\ calls'[j].of # calls[j].of => calls[j].kind = "createAnswer" /\ calls[j].at = "native"
        BY <1>1 DEF Continue
    <2>1. CASE j = i
        BY <2>1, <1>1
    <2>2. CASE j # i
        BY <2>2, <1>1, <1>2
    <2>3. QED BY <2>1, <2>2
<1>4. CASE q.kind \in Completing /\ q.at = "done" /\ q.half \in {"none", "done"}
    <2>1. Resolved(i)' /\ Swap(i)
        BY <1>1, <1>4 DEF Resolved, Becomes
    <2>2. QED BY <1>1, <1>3, <1>4, <2>1, ContinueSwapping
<1>5. CASE ~(q.kind \in Completing /\ q.at = "done" /\ q.half \in {"none", "done"})
    <2>1. UNCHANGED shownVars
        BY <1>5 DEF Becomes
    <2>2. ~(calls[i].kind \in Completing /\ Resolved(i)')
        BY <1>1, <1>5 DEF Resolved
    <2>3. \A c \in Numbers : calls[c].kind \in Completing /\ Resolved(c)' => Resolved(c)
        BY <1>2, <2>2
    <2>4. QED BY <1>1, <1>3, <2>1, <2>3, ContinueQuietly
<1>6. QED BY <1>4, <1>5

-----------------------------------------------------------------------------
(* The native connection.                                                  *)

\* The chain without its first call.
LEMMA ChainHead ==
    ASSUME IInv, chain # <<>>
    PROVE  /\ Head(chain) \in Numbers /\ calls[Head(chain)].at = "native"
           /\ \A j \in Numbers : j < Head(chain) => calls[j].at # "native"
           /\ Tail(chain) \in Seq(Numbers)
           /\ \A m, n \in 1 .. Len(Tail(chain)) : m < n => Tail(chain)[m] < Tail(chain)[n]
           /\ \A j \in Numbers : (\E m \in 1 .. Len(Tail(chain)) : Tail(chain)[m] = j)
                                    <=> j # Head(chain) /\ calls[j].at = "native"
<1>1. /\ TypeOK /\ \A m, n \in 1 .. Len(chain) : m < n => chain[m] < chain[n]
      /\ \A i \in Numbers : calls[i].at = "native" <=> \E m \in 1 .. Len(chain) : chain[m] = i
    BY DEF IInv, ChainFits
<1>2. /\ chain \in Seq(Numbers) /\ Len(chain) \in Nat /\ 1 \in 1 .. Len(chain) /\ Numbers \subseteq Nat
      /\ Head(chain) = chain[1] /\ \A m \in 1 .. Len(chain) : chain[m] \in Numbers
    BY <1>1, TypeFacts
<1>3. /\ Tail(chain) \in Seq(Numbers) /\ Len(Tail(chain)) = Len(chain) - 1
      /\ \A m \in 1 .. Len(Tail(chain)) : Tail(chain)[m] = chain[m + 1]
    BY <1>2
<1>4. Head(chain) \in Numbers /\ calls[Head(chain)].at = "native"
    BY <1>1, <1>2
<1>5. ASSUME NEW m \in 1 .. Len(chain), m # 1 PROVE Head(chain) < chain[m]
    BY <1>1, <1>2, <1>5
<1>6. ASSUME NEW j \in Numbers, j < Head(chain) PROVE calls[j].at # "native"
    <2>1. j \in Nat /\ chain[1] \in Nat /\ j < chain[1]
        BY <1>2, <1>6
    <2>2. ASSUME NEW m \in 1 .. Len(chain), chain[m] = j PROVE FALSE
        <3>1. m = 1
            BY <2>1, <2>2, <1>2, <1>5
        <3>2. QED BY <2>1, <2>2, <3>1
    <2>3. QED BY <1>1, <2>2
<1>7. ASSUME NEW m \in 1 .. Len(Tail(chain)), NEW n \in 1 .. Len(Tail(chain)), m < n
      PROVE  Tail(chain)[m] < Tail(chain)[n]
    BY <1>1, <1>2, <1>3, <1>7
<1>8. ASSUME NEW j \in Numbers
      PROVE  (\E m \in 1 .. Len(Tail(chain)) : Tail(chain)[m] = j) <=> j # Head(chain) /\ calls[j].at = "native"
    <2>1. ASSUME NEW m \in 1 .. Len(Tail(chain)), Tail(chain)[m] = j
          PROVE  j # Head(chain) /\ calls[j].at = "native"
        <3>1. m + 1 \in 1 .. Len(chain) /\ m + 1 # 1 /\ chain[m + 1] = j
            BY <1>2, <1>3, <2>1
        <3>2. Head(chain) < j /\ Head(chain) \in Nat
            BY <3>1, <1>2, <1>5
        <3>3. QED BY <3>1, <3>2, <1>1
    <2>2. ASSUME j # Head(chain), calls[j].at = "native"
          PROVE  \E m \in 1 .. Len(Tail(chain)) : Tail(chain)[m] = j
        <3>1. PICK m \in 1 .. Len(chain) : chain[m] = j
            BY <2>2, <1>1
        <3>2. m # 1
            BY <2>2, <3>1, <1>2
        <3>3. m - 1 \in 1 .. Len(Tail(chain)) /\ Tail(chain)[m - 1] = chain[(m - 1) + 1]
            BY <3>2, <1>2, <1>3
        <3>4. (m - 1) + 1 = m
            BY <1>2
        <3>5. QED BY <3>1, <3>3, <3>4
    <2>3. QED BY <2>1, <2>2
<1>9. QED BY <1>3, <1>4, <1>6, <1>7, <1>8

\* The native connection never refuses what is called in a legal order.
LEMMA NativeAllowed ==
    ASSUME IInv, chain # <<>>
    PROVE  NativeAllows(Head(chain))
<1> USE DEF IInv
<1> DEFINE i == Head(chain)
<1>1. /\ i \in Numbers /\ calls[i].at = "native" /\ calls[i].kind \in Kinds /\ Numbers \subseteq Nat
      /\ \A j \in Numbers : j < i => calls[j].at # "native"
    BY ChainHead, TypeFacts DEF CallRecord
<1> HIDE DEF i
<1>2. \A j \in Numbers : i < j => calls[j].at # "done"
    BY <1>1 DEF InOrder
<1>3. ASSUME calls[i].kind \in Beginners PROVE native = "stable"
    <2> SUFFICES ASSUME NEW o \in Numbers, calls[o].kind \in Openers, calls[o].at = "done"
                 PROVE  \E c \in Numbers : o < c /\ calls[c].kind \in Completing /\ calls[c].at = "done"
        BY DEF NativeFits
    <2>1. o < i /\ IsSet(o)
        <3>1. o # i /\ ~(i < o)
            BY <1>1, <1>2
        <3>2. QED BY <3>1, <1>1 DEF IsSet
    <2>2. PICK s \in Numbers : LastSet(s, i) /\ calls[s].kind \in Completing
        BY <1>1, <1>3, <2>1 DEF Legal, StableBefore
    <2>3. o # s /\ ~(s < o)
        BY <2>1, <2>2 DEF LastSet, Openers, Completing
    <2>4. Resolved(s)
        BY <1>1, <1>3, <2>2 DEF OneAtATime, LastSet
    <2>5. o < s /\ calls[s].at = "done"
        BY <2>3, <2>4, <1>1, ResolvedDone
    <2>6. QED BY <2>2, <2>5
<1>4. ASSUME NEW o \in Numbers, LastSet(o, i), calls[o].kind \in Openers, calls[o].at \in {"native", "done"}
      PROVE  native = IF calls[o].kind = "setLocalOffer" THEN "have-local-offer" ELSE "have-remote-offer"
    <2>1. o < i /\ calls[o].at = "done"
        BY <1>1, <1>4 DEF LastSet
    <2>2. ASSUME NEW j \in Numbers, o < j, IsSet(j) PROVE calls[j].at # "done"
        <3>1. ~(j < i)
            BY <1>4, <2>2 DEF LastSet
        <3>2. CASE j = i
            BY <3>2, <1>1
        <3>3. CASE i < j
            BY <3>3, <1>2
        <3>4. j \in Nat /\ i \in Nat
            BY <1>1
        <3>5. j < i \/ j = i \/ i < j
            BY <3>4
        <3>6. QED BY <3>1, <3>2, <3>3, <3>5
    <2>3. QED BY <1>4, <2>1, <2>2 DEF NativeFits
\* Nothing is created for another negotiation before i is over.
<1>5. ASSUME NEW j \in Numbers, i < j, IsSet(i) PROVE calls[j].kind # "createOffer"
    <2>1. ~Resolved(i)
        BY <1>1, ResolvedDone
    <2>2. QED BY <1>1, <1>5, <2>1 DEF OneAtATime, Beginners
<1>6. CASE calls[i].kind = "createOffer"
    BY <1>3, <1>6 DEF NativeAllows, Beginners, i
<1>7. CASE calls[i].kind = "setRemoteOffer"
    BY <1>3, <1>7 DEF NativeAllows, Beginners, Openers, i
<1>8. CASE calls[i].kind = "setLocalOffer"
    <2>1. native = "stable"
        BY <1>3, <1>8 DEF Beginners, Openers
    <2>2. /\ calls[i].of \in Numbers /\ calls[i].of < i
          /\ calls[calls[i].of].kind = "createOffer" /\ calls[calls[i].of].at = "done"
          /\ \A j \in Numbers : calls[i].of < j /\ j < i => calls[j].kind # "createOffer"
        BY <1>1, <1>8 DEF About
    <2>3. ASSUME NEW j \in Numbers, calls[i].of < j PROVE calls[j].kind # "createOffer"
        <3>1. CASE j = i
            BY <3>1, <1>8
        <3>2. CASE i < j
            BY <3>2, <1>5, <1>8 DEF IsSet, Openers
        <3>3. CASE j < i
            BY <3>3, <2>2, <2>3
        <3>4. QED BY <3>1, <3>2, <3>3, <1>1
    <2>4. lastOffer = calls[i].of
        BY <2>2, <2>3 DEF NewestFits
    <2>5. QED BY <1>8, <2>1, <2>4 DEF NativeAllows, i
<1>9. CASE calls[i].kind = "setRemoteAnswer"
    <2>1. PICK o \in Numbers : LastSet(o, i) /\ calls[o].kind = "setLocalOffer"
        BY <1>1, <1>9 DEF Legal, OpenBefore
    <2>2. native = "have-local-offer"
        <3>1. calls[o].at \in {"native", "done"}
            BY <2>1 DEF Places
        <3>2. QED BY <1>4, <2>1, <3>1 DEF Openers
    <2>3. calls[i].of = calls[o].of
        BY <1>1, <1>9, <2>1 DEF Opened
    <2>4. /\ calls[o].of \in Numbers /\ calls[o].of < o
          /\ calls[calls[o].of].kind = "createOffer" /\ calls[calls[o].of].at = "done"
          /\ \A j \in Numbers : calls[o].of < j /\ j < o => calls[j].kind # "createOffer"
        BY <2>1 DEF About
    <2>5. ASSUME NEW j \in Numbers, calls[o].of < j PROVE calls[j].kind # "createOffer"
        <3>1. CASE j = i \/ j = o
            BY <3>1, <1>9, <2>1
        <3>2. CASE i < j
            BY <3>2, <1>5, <1>9 DEF IsSet, Completing
        <3>3. CASE j < o
            BY <3>3, <2>4, <2>5
        <3>4. CASE o < j /\ j < i
            <4>1. ASSUME calls[j].kind = "createOffer" PROVE FALSE
                <5>1. Resolved(o) /\ StableBefore(j)
                    BY <4>1, <3>4, <2>1 DEF OneAtATime, Legal, LastSet, Beginners
                <5>2. LastSet(o, j)
                    <6>1. ASSUME NEW k \in Numbers, o < k, k < j PROVE ~IsSet(k)
                        <7>1. k < i
                            BY <6>1, <3>4, <1>1
                        <7>2. QED BY <6>1, <7>1, <2>1 DEF LastSet
                    <6>2. QED BY <6>1, <3>4, <2>1 DEF LastSet
                <5>3. PICK s \in Numbers : LastSet(s, j) /\ calls[s].kind \in Completing
                    BY <5>1, <5>2 DEF StableBefore, LastSet
                <5>4. s = o
                    BY <5>2, <5>3, <1>1, OneLastSet
                <5>5. QED BY <5>3, <5>4, <2>1 DEF Completing
            <4>2. QED BY <4>1
        <3>5. QED BY <3>1, <3>2, <3>3, <3>4, <1>1
    <2>6. lastOffer = calls[i].of
        BY <2>3, <2>4, <2>5 DEF NewestFits
    <2>7. QED BY <1>9, <2>2, <2>6 DEF NativeAllows, i
<1>10. CASE calls[i].kind = "createAnswer"
    <2>1. PICK o \in Numbers : LastSet(o, i) /\ calls[o].kind = "setRemoteOffer"
        BY <1>1, <1>10 DEF Legal, OpenBefore
    <2>2. calls[o].at \in {"native", "done"}
        BY <1>1, <1>10, <2>1 DEF Opened
    <2>3. native = "have-remote-offer"
        BY <1>4, <2>1, <2>2 DEF Openers
    <2>4. QED BY <1>10, <2>3 DEF NativeAllows, i
<1>11. CASE calls[i].kind = "setLocalAnswer"
    <2>1. PICK o \in Numbers : LastSet(o, i) /\ calls[o].kind = "setRemoteOffer"
        BY <1>1, <1>11 DEF Legal, OpenBefore
    <2>2. native = "have-remote-offer"
        <3>1. calls[o].at = "done"
            BY <1>1, <1>11, <2>1 DEF Opened
        <3>2. QED BY <1>4, <2>1, <3>1 DEF Openers
    <2>3. /\ calls[i].of \in Numbers /\ calls[i].of < i
          /\ calls[calls[i].of].kind = "createAnswer" /\ calls[calls[i].of].at = "done"
          /\ \A j \in Numbers : calls[i].of < j /\ j < i => calls[j].kind # "createAnswer"
        BY <1>1, <1>11 DEF About
    <2>4. ASSUME NEW j \in Numbers, calls[i].of < j PROVE calls[j].kind # "createAnswer"
        <3>1. CASE j = i
            BY <3>1, <1>11
        <3>2. CASE i < j
            <4>1. ~Resolved(i)
                BY <1>1, ResolvedDone
            <4>2. QED BY <4>1, <3>2, <1>1, <1>11 DEF OneAtATime, Completing
        <3>3. CASE j < i
            BY <3>3, <2>3, <2>4
        <3>4. QED BY <3>1, <3>2, <3>3, <1>1
    <2>5. lastAnswer = calls[i].of
        BY <2>3, <2>4 DEF NewestFits
    <2>6. QED BY <1>11, <2>2, <2>5 DEF NativeAllows, i
<1>12. QED BY <1>1, <1>6, <1>7, <1>8, <1>9, <1>10, <1>11 DEF Kinds

\* The remote offer that a waiting createAnswer() is about is pending.
LEMMA PendingNamed ==
    ASSUME IInv, NEW i \in Numbers, calls[i].kind = "createAnswer", calls[i].at = "native"
    PROVE  pendingRemote # 0 /\ \A o \in Numbers : LastSet(o, i) => pendingRemote = o
<1> USE TypeFacts DEF IInv
<1>1. PICK o \in Numbers : LastSet(o, i) /\ calls[o].kind = "setRemoteOffer"
    BY DEF Legal, OpenBefore
<1>2. o \in Nat /\ o # 0 /\ o < i
    BY <1>1 DEF LastSet, Numbers
<1>3. ASSUME NEW c \in Numbers, o < c, calls[c].kind \in Completing PROVE ~Resolved(c)
    <2>1. ~(c < i)
        BY <1>1, <1>3 DEF LastSet, IsSet
    <2>2. c # i
        BY <1>3, KindsApart DEF Completing
    <2>3. i < c
        BY <2>1, <2>2
    <2>4. calls[c].at # "done"
        BY <2>3 DEF InOrder
    <2>5. QED BY <2>4 DEF Resolved
<1>4. pendingRemote = o
    BY <1>1, <1>3 DEF PendingFits, Openers
<1>5. QED BY <1>1, <1>2, <1>4, OneLastSet

\* What the native connection makes of the call r.
Ran(r) ==
    IF r.kind = "createOffer" THEN [r EXCEPT !.at = "peer"]
    ELSE IF r.kind = "createAnswer" THEN [r EXCEPT !.at = "peer", !.of = pendingRemote]
    ELSE [r EXCEPT !.at = "done"]

\* The native connection runs call i.
RunsOf(i) ==
    /\ native' = IF calls[i].kind \in Completing THEN "stable"
                 ELSE IF calls[i].kind = "setLocalOffer" THEN "have-local-offer"
                 ELSE IF calls[i].kind = "setRemoteOffer" THEN "have-remote-offer"
                 ELSE native
    /\ lastOffer' = IF calls[i].kind = "createOffer" THEN i ELSE lastOffer
    /\ lastAnswer' = IF calls[i].kind = "createAnswer" THEN i ELSE lastAnswer
    /\ chain' = Tail(chain) /\ Becomes(i, Ran(calls[i]))
    /\ UNCHANGED <<intent, chosen, selected, mockOffer, attached>>

LEMMA NativeRuns ==
    ASSUME IInv, NativeRun, NEW i, i = Head(chain)
    PROVE  RunsOf(i)
<1>1. chain # <<>> /\ UNCHANGED <<intent, chosen, selected, mockOffer, attached>> /\ chain' = Tail(chain)
    BY DEF NativeRun
<1>2. NativeAllows(i) /\ calls[i].kind \in Kinds
    BY <1>1, NativeAllowed, ChainHead, TypeFacts DEF IInv, CallRecord
<1>3. /\ native' = CASE calls[i].kind \in Completing -> "stable"
                     [] calls[i].kind = "setLocalOffer" -> "have-local-offer"
                     [] calls[i].kind = "setRemoteOffer" -> "have-remote-offer"
                     [] OTHER -> native
      /\ lastOffer' = IF calls[i].kind = "createOffer" THEN i ELSE lastOffer
      /\ lastAnswer' = IF calls[i].kind = "createAnswer" THEN i ELSE lastAnswer
      /\ Becomes(i, CASE calls[i].kind = "createOffer" -> [calls[i] EXCEPT !.at = "peer"]
                      [] calls[i].kind = "createAnswer" ->
                           [calls[i] EXCEPT !.at = IF pendingRemote = 0 THEN "failed" ELSE "peer", !.of = pendingRemote]
                      [] OTHER -> [calls[i] EXCEPT !.at = "done"])
    BY <1>2 DEF NativeRun
<1>4. native' = IF calls[i].kind \in Completing THEN "stable"
                ELSE IF calls[i].kind = "setLocalOffer" THEN "have-local-offer"
                ELSE IF calls[i].kind = "setRemoteOffer" THEN "have-remote-offer"
                ELSE native
    BY <1>2, <1>3 DEF Kinds, Completing
<1>5. Becomes(i, Ran(calls[i]))
    <2>1. (CASE calls[i].kind = "createOffer" -> [calls[i] EXCEPT !.at = "peer"]
            [] calls[i].kind = "createAnswer" ->
                 [calls[i] EXCEPT !.at = IF pendingRemote = 0 THEN "failed" ELSE "peer", !.of = pendingRemote]
            [] OTHER -> [calls[i] EXCEPT !.at = "done"]) = Ran(calls[i])
        <3>1. calls[i].kind = "createAnswer" => pendingRemote # 0
            BY <1>1, ChainHead, PendingNamed
        <3>2. QED BY <1>2, <3>1 DEF Kinds, Ran
    <2>2. QED BY <1>3, <2>1
<1>6. QED BY <1>1, <1>3, <1>4, <1>5 DEF RunsOf

\* The native connection runs its next call.
LEMMA NativeRunStep ==
    ASSUME IInv, TypeOK', Bounded', NativeRun
    PROVE  IInv'
<1> USE DEF IInv
<1>0. PICK i : i = Head(chain)
    OBVIOUS
<1>c. PICK q : q = Ran(calls[i])
    OBVIOUS
<1>1. /\ i \in Numbers /\ i \in Nat /\ calls[i].at = "native" /\ calls[i] \in CallRecord /\ Numbers \subseteq Nat
      /\ \A j \in Numbers : j < i => calls[j].at # "native"
    BY <1>0, ChainHead, TypeFacts DEF NativeRun
<1>2. RunsOf(i)
    BY <1>0, NativeRuns
<1>3. /\ q \in CallRecord /\ q.kind = calls[i].kind /\ q.half = calls[i].half
      /\ q.at = IF q.kind \in Creates THEN "peer" ELSE "done"
      /\ q.of = IF q.kind = "createAnswer" THEN pendingRemote ELSE calls[i].of
    <2>1. pendingRemote \in 0 .. MaxCalls
        <3>1. pendingRemote \in 0 .. Len(calls) /\ Len(calls) <= MaxCalls
            BY Room DEF TypeOK
        <3>2. QED BY <3>1, TypeFacts, HooksAssumption
    <2>2. QED BY <1>1, <1>c, <2>1 DEF Ran, CallRecord, Creates
<1>4. ~Resolved(i)
    BY <1>1 DEF Resolved
<1>5. /\ Continue
      /\ calls'[i] = q /\ \A j \in Numbers \ {i} : calls'[j] = calls[j]
      /\ PendingFits' /\ CurrentNamed' /\ CurrentDone'
    <2>1. Becomes(i, q) /\ UNCHANGED <<intent, chosen, selected, mockOffer>>
        BY <1>2, <1>c DEF RunsOf
    <2>2. QED BY <2>1, <1>1, <1>3, <1>4, BecomesContinues
<1>6. /\ Numbers' = Numbers
      /\ \A s, k \in Numbers : LastSet(s, k)' <=> LastSet(s, k)
      /\ \A j \in Numbers : IsSet(j)' <=> IsSet(j)
      /\ Legal' /\ OneAtATime' /\ About' /\ SelectedFits' /\ MockOfferFits' /\ ChosenFits'
    BY <1>5, ContinueKeeps
<1>7. \A j \in Numbers : i < j => calls[j].at # "done" /\ (calls[j].kind \in Creates => calls[j].at # "peer")
    BY <1>1 DEF InOrder
<1>8. \A j \in Numbers : calls'[j].kind = calls[j].kind
    BY <1>5 DEF Continue
<1>10. Places'
    <2> SUFFICES ASSUME NEW j \in Numbers
                 PROVE  /\ calls'[j].kind \notin Completing => calls'[j].half = "none"
                        /\ calls'[j].kind \in {"setLocalOffer", "setLocalAnswer"} => calls'[j].at \in {"native", "done"}
        BY <1>6 DEF Places
    <2>1. CASE j = i
        BY <2>1, <1>3, <1>5 DEF Places, Creates
    <2>2. CASE j # i
        BY <2>2, <1>5 DEF Places
    <2>3. QED BY <2>1, <2>2
<1>11. ChainFits'
    <2>1. /\ chain' = Tail(chain)
          /\ \A m, n \in 1 .. Len(Tail(chain)) : m < n => Tail(chain)[m] < Tail(chain)[n]
          /\ \A j \in Numbers : (\E m \in 1 .. Len(Tail(chain)) : Tail(chain)[m] = j) <=> j # i /\ calls[j].at = "native"
        BY <1>0, <1>2, ChainHead DEF NativeRun, RunsOf
    <2>2. \A j \in Numbers : calls'[j].at = "native" <=> j # i /\ calls[j].at = "native"
        BY <1>3, <1>5
    <2>3. QED BY <2>1, <2>2, <1>6 DEF ChainFits
<1>12. InOrder'
    <2> SUFFICES ASSUME NEW a \in Numbers, NEW b \in Numbers, a < b, calls'[a].at = "native"
                 PROVE  calls'[b].at # "done" /\ (calls'[b].kind \in Creates => calls'[b].at # "peer")
        BY <1>6 DEF InOrder
    <2>1. a # i /\ calls[a].at = "native" /\ ~(a < i)
        BY <1>1, <1>3, <1>5
    <2>2. a \in Nat /\ b \in Nat
        BY <1>1
    <2>3. b # i
        BY <2>1, <2>2, <1>1
    <2>4. QED BY <2>1, <2>3, <1>5 DEF InOrder
<1>13. Awaited'
    <2>1. ASSUME NEW a \in Numbers, NEW b \in Numbers, a < b, calls'[a].kind = "setRemoteOffer", calls'[a].at = "peer"
          PROVE  calls'[b].kind = "createAnswer" /\ calls'[b].at = "mock-offer"
        <3>1. a # i
            BY <2>1, <1>3, <1>5 DEF Creates
        <3>2. calls[b].kind = "createAnswer" /\ calls[b].at = "mock-offer"
            BY <2>1, <3>1, <1>5 DEF Awaited
        <3>3. b # i
            BY <3>2, <1>1
        <3>4. QED BY <3>2, <3>3, <1>5
    <2>2. ASSUME NEW k \in Numbers, calls'[k].at = "mock-offer"
          PROVE  calls'[k].kind = "createAnswer" /\ \A o \in Numbers : LastSet(o, k)' => calls'[o].at = "peer"
        <3>1. k # i
            BY <2>2, <1>3, <1>5 DEF Creates
        <3>2. calls[k].kind = "createAnswer" /\ \A o \in Numbers : LastSet(o, k) => calls[o].at = "peer"
            BY <2>2, <3>1, <1>5 DEF Awaited
        <3>3. \A o \in Numbers : calls[o].at = "peer" => o # i
            BY <1>1
        <3>4. QED BY <3>1, <3>2, <3>3, <1>5, <1>6
    <2>3. QED BY <2>1, <2>2, <1>6 DEF Awaited
<1>14. Opened'
    <2> SUFFICES ASSUME NEW o \in Numbers, NEW k \in Numbers, LastSet(o, k)
                 PROVE  /\ calls'[k].kind = "setRemoteAnswer" => calls'[k].of = calls'[o].of
                        /\ calls'[k].kind = "setLocalAnswer" => calls'[o].at = "done" /\ o < calls'[k].of
                        /\ calls'[k].kind = "createAnswer" =>
                              /\ calls'[k].at = "native" => calls'[o].at \in {"native", "done"}
                              /\ calls'[k].at \in {"peer", "done"} => calls'[k].of = o
        BY <1>6 DEF Opened
    <2>1. calls[o].kind # "createAnswer" /\ calls[o].kind \notin Creates
        BY DEF LastSet, IsSet, Openers, Completing, Creates
    <2>2. calls'[o].of = calls[o].of /\ (calls[o].at \in {"native", "done"} => calls'[o].at \in {"native", "done"})
          /\ (calls[o].at = "done" => calls'[o].at = "done")
        <3>1. CASE o = i
            BY <3>1, <2>1, <1>3, <1>5
        <3>2. CASE o # i
            BY <3>2, <1>5
        <3>3. QED BY <3>1, <3>2
    <2>3. CASE k # i
        BY <2>2, <2>3, <1>5 DEF Opened
    <2>4. CASE k = i /\ calls[k].kind # "createAnswer"
        BY <2>2, <2>4, <1>3, <1>5 DEF Opened
    <2>5. CASE k = i /\ calls[k].kind = "createAnswer"
        <3>1. pendingRemote = o
            BY <2>5, <1>1, PendingNamed
        <3>2. QED BY <2>5, <3>1, <1>3, <1>5 DEF Creates
    <2>6. QED BY <2>3, <2>4, <2>5
<1>15. NativeFits'
    <2>0. \A j \in Numbers : i < j => calls'[j].at # "done"
        BY <1>1, <1>5, <1>7
    <2>1. CASE calls[i].kind \in Completing
        <3>1. native' = "stable" /\ calls'[i].at = "done" /\ IsSet(i)' /\ calls'[i].kind \notin Openers
            BY <2>1, <1>2, <1>3, <1>5, <1>6 DEF RunsOf, Completing, Creates, Openers, IsSet
        <3>2. ASSUME NEW o \in Numbers, calls'[o].kind \in Openers, calls'[o].at = "done",
                     \A j \in Numbers : o < j /\ IsSet(j)' => calls'[j].at # "done"
              PROVE  FALSE
            <4>1. ~(o < i) /\ ~(i < o) /\ o # i
                BY <3>1, <3>2, <2>0, <1>1
            <4>2. o \in Nat /\ i \in Nat
                BY <1>1
            <4>3. QED BY <4>1, <4>2
        <3>3. QED BY <3>1, <3>2, <1>6 DEF NativeFits
    <2>2. CASE calls[i].kind \in Openers
        <3>1. native' = (IF calls'[i].kind = "setLocalOffer" THEN "have-local-offer" ELSE "have-remote-offer")
              /\ calls'[i].at = "done" /\ IsSet(i)' /\ calls'[i].kind \in Openers
            BY <2>2, <1>2, <1>3, <1>5, <1>6 DEF RunsOf, Completing, Creates, Openers, IsSet
        <3>2. ASSUME NEW o \in Numbers, calls'[o].kind \in Openers, calls'[o].at = "done",
                     \A j \in Numbers : o < j /\ IsSet(j)' => calls'[j].at # "done"
              PROVE  o = i
            <4>1. ~(o < i) /\ ~(i < o)
                BY <3>1, <3>2, <2>0, <1>1
            <4>2. o \in Nat /\ i \in Nat
                BY <1>1
            <4>3. QED BY <4>1, <4>2
        <3>3. ~ \A o \in Numbers : calls'[o].kind \in Openers /\ calls'[o].at = "done" =>
                    \E c \in Numbers : o < c /\ calls'[c].kind \in Completing /\ calls'[c].at = "done"
            BY <3>1, <2>0, <1>1
        <3>4. QED BY <3>1, <3>2, <3>3, <1>6 DEF NativeFits
    <2>3. CASE calls[i].kind \in Creates
        <3>1. native' = native /\ ~IsSet(i) /\ calls[i].kind \notin Openers \cup Completing
            BY <2>3, <1>2 DEF RunsOf, Completing, Creates, Openers, IsSet
        <3>2. \A j \in Numbers : IsSet(j) => calls'[j] = calls[j]
            BY <3>1, <1>5
        <3>3. \A j \in Numbers : calls[j].kind \in Openers \cup Completing => calls'[j] = calls[j]
            BY <3>1, <1>5
        <3>4. ASSUME NEW o \in Numbers, calls'[o].kind \in Openers, calls'[o].at = "done",
                     \A j \in Numbers : o < j /\ IsSet(j)' => calls'[j].at # "done"
              PROVE  native = IF calls'[o].kind = "setLocalOffer" THEN "have-local-offer" ELSE "have-remote-offer"
            <4>1. calls'[o] = calls[o]
                BY <3>3, <3>4, <1>8
            <4>2. \A j \in Numbers : o < j /\ IsSet(j) => calls[j].at # "done"
                BY <3>2, <3>4, <1>6
            <4>3. QED BY <3>4, <4>1, <4>2 DEF NativeFits
        <3>5. ASSUME \A o \in Numbers : calls'[o].kind \in Openers /\ calls'[o].at = "done" =>
                        \E c \in Numbers : o < c /\ calls'[c].kind \in Completing /\ calls'[c].at = "done"
              PROVE  native = "stable"
            <4>1. ASSUME NEW o \in Numbers, calls[o].kind \in Openers, calls[o].at = "done"
                  PROVE  \E c \in Numbers : o < c /\ calls[c].kind \in Completing /\ calls[c].at = "done"
                <5>1. calls'[o].kind \in Openers /\ calls'[o].at = "done"
                    BY <4>1, <3>3
                <5>2. PICK c \in Numbers : o < c /\ calls'[c].kind \in Completing /\ calls'[c].at = "done"
                    BY <3>5, <5>1
                <5>3. calls'[c] = calls[c]
                    BY <5>2, <3>3, <1>8
                <5>4. QED BY <5>2, <5>3
            <4>2. QED BY <4>1 DEF NativeFits
        <3>6. QED BY <3>1, <3>4, <3>5, <1>6 DEF NativeFits
    <2>4. QED BY <2>1, <2>2, <2>3, <1>1, KindsApart DEF CallRecord
<1>16. NewestFits'
    <2> SUFFICES ASSUME NEW k \in Numbers, calls'[k].at \in {"peer", "done"},
                        \A j \in Numbers : k < j => calls'[j].kind # calls'[k].kind
                 PROVE  /\ calls'[k].kind = "createOffer" => lastOffer' = k
                        /\ calls'[k].kind = "createAnswer" => lastAnswer' = k
        BY <1>6 DEF NewestFits
    <2>1. CASE k = i
        BY <2>1, <1>2, <1>8 DEF RunsOf
    <2>2. CASE k # i /\ calls[k].kind \in Creates
        <3>1. calls[k].at \in {"peer", "done"} /\ \A j \in Numbers : k < j => calls[j].kind # calls[k].kind
            BY <2>2, <1>5, <1>8
        <3>2. ~(i < k)
            BY <2>2, <3>1, <1>7
        <3>3. k \in Nat /\ i \in Nat
            BY <1>1
        <3>4. k < i
            BY <2>2, <3>2, <3>3
        <3>5. calls[i].kind # calls[k].kind
            BY <3>1, <3>4, <1>1
        <3>6. QED BY <3>1, <3>5, <1>2, <1>8 DEF NewestFits, RunsOf
    <2>3. CASE calls[k].kind \notin Creates
        BY <2>3, <1>8 DEF Creates
    <2>4. QED BY <2>1, <2>2, <2>3
<1>17. QED BY <1>5, <1>6, <1>10, <1>11, <1>12, <1>13, <1>14, <1>15, <1>16

-----------------------------------------------------------------------------
(* The mock peer.                                                          *)

\* When the mock offer is awaited for call i, every later call awaits it, and no other.
LEMMA AwaitedBy ==
    ASSUME IInv, NEW i \in Numbers, calls[i].kind = "setRemoteOffer", calls[i].at = "peer"
    PROVE  /\ \A j \in Numbers : calls[j].at = "mock-offer" <=> i < j
           /\ \A j \in Numbers : i < j => calls[j].kind = "createAnswer"
           /\ \A j \in Numbers : calls[j].kind = "setRemoteOffer" /\ calls[j].at = "peer" => j = i
<1> USE DEF IInv
<1>1. Numbers \subseteq Nat
    BY TypeFacts
<1>2. \A j \in Numbers : i < j => calls[j].kind = "createAnswer" /\ calls[j].at = "mock-offer"
    BY DEF Awaited
<1>3. ASSUME NEW j \in Numbers, calls[j].kind = "setRemoteOffer", calls[j].at = "peer" PROVE j = i
    <2>1. ~(i < j) /\ ~(j < i)
        BY <1>2, <1>3 DEF Awaited
    <2>2. i \in Nat /\ j \in Nat
        BY <1>1
    <2>3. QED BY <2>1, <2>2
<1>4. ASSUME NEW j \in Numbers, calls[j].at = "mock-offer" PROVE i < j
    <2>1. calls[j].kind = "createAnswer" /\ \A o \in Numbers : LastSet(o, j) => calls[o].at = "peer"
        BY <1>4 DEF Awaited
    <2>2. PICK o \in Numbers : LastSet(o, j) /\ calls[o].kind = "setRemoteOffer"
        BY <2>1 DEF Legal, OpenBefore
    <2>3. o = i
        BY <2>1, <2>2, <1>3
    <2>4. QED BY <2>2, <2>3 DEF LastSet
<1>5. QED BY <1>2, <1>3, <1>4

\* What awaits the mock offer awaits the one for call i.
LEMMA AwaitingAll ==
    ASSUME IInv, NEW i \in Numbers, calls[i].kind = "setRemoteOffer", calls[i].at = "peer"
    PROVE  \A j \in Numbers : (Awaits(j, i) <=> i < j) /\ (Awaits(j, i) <=> calls[j].at = "mock-offer")
<1>1. ASSUME NEW j \in Numbers, i < j PROVE Awaits(j, i)
    <2>1. \A k \in Numbers : i < k => calls[k].kind # "setRemoteOffer"
        BY AwaitedBy
    <2>2. \A n \in i + 1 .. j - 1 : n \in Numbers /\ i < n
        BY <1>1, TypeFacts DEF IInv, Numbers
    <2>3. QED BY <1>1, <2>1, <2>2, AwaitedBy DEF Awaits
<1>2. QED BY <1>1, AwaitedBy DEF Awaits

\* They go on in the order they were made.
LEMMA WaitingFits ==
    ASSUME IInv, NEW i \in Numbers, calls[i].kind = "setRemoteOffer", calls[i].at = "peer",
           NEW l, l = Len(calls)
    PROVE  /\ i \in Nat /\ l \in Nat /\ i <= l
           /\ Waiting(i) = [n \in 1 .. l - i |-> i + n] /\ Waiting(i) \in Seq(Numbers) /\ Len(Waiting(i)) = l - i
<1>1. i \in Nat /\ l \in Nat /\ 1 <= i /\ i <= l /\ Numbers = 1 .. l
    BY TypeFacts DEF IInv, Numbers
<1> DEFINE W == {j \in Numbers : Awaits(j, i)}
<1>2. W = i + 1 .. l
    <2>1. W = {j \in Numbers : i < j}
        BY AwaitingAll
    <2>2. QED BY <2>1, <1>1
<1>3. Waiting(i) = [n \in 1 .. Cardinality(W) |-> CHOOSE j \in W : Cardinality({k \in W : k <= j}) = n]
    BY DEF Waiting
<1> HIDE DEF W
<1>4. Cardinality(W) = l - i
    <2>1. i + 1 \in Int /\ l \in Int
        BY <1>1
    <2>2. Cardinality(W) = IF i + 1 > l THEN 0 ELSE l - (i + 1) + 1
        BY <2>1, <1>2, FS_Interval
    <2>3. QED BY <2>2, <1>1
<1>5. ASSUME NEW j \in W PROVE Cardinality({k \in W : k <= j}) = j - i
    <2>1. {k \in W : k <= j} = i + 1 .. j /\ i + 1 \in Int /\ j \in Int /\ i + 1 <= j
        BY <1>1, <1>2
    <2>2. Cardinality(i + 1 .. j) = IF i + 1 > j THEN 0 ELSE j - (i + 1) + 1
        BY <2>1, FS_Interval
    <2>3. i \in Nat /\ j \in Nat
        BY <1>1, <1>2
    <2>4. (IF i + 1 > j THEN 0 ELSE j - (i + 1) + 1) = j - i
        BY <2>1, <2>3
    <2>5. QED BY <2>1, <2>2, <2>4
<1>6. ASSUME NEW n \in 1 .. l - i
      PROVE  (CHOOSE j \in W : Cardinality({k \in W : k <= j}) = n) = i + n
    <2>1. i + n \in W /\ (i + n) - i = n
        BY <1>1, <1>2
    <2>2. Cardinality({k \in W : k <= i + n}) = n
        BY <2>1, <1>5
    <2>3. ASSUME NEW j \in W, Cardinality({k \in W : k <= j}) = n PROVE j = i + n
        <3>1. j - i = n
            BY <2>3, <1>5
        <3>2. j \in Nat
            BY <1>1, <1>2
        <3>3. QED BY <3>1, <3>2, <1>1
    <2>4. QED BY <2>1, <2>2, <2>3
<1>7. Waiting(i) = [n \in 1 .. l - i |-> i + n]
    BY <1>3, <1>4, <1>6
<1>8. l - i \in Nat /\ \A n \in 1 .. l - i : i + n \in Numbers
    BY <1>1
<1>9. [n \in 1 .. l - i |-> i + n] \in [1 .. l - i -> Numbers]
    BY <1>8
<1>10. Waiting(i) \in Seq(Numbers)
    BY <1>7, <1>8, <1>9, SeqDef
<1>11. Len(Waiting(i)) = l - i
    BY <1>7, <1>8
<1>12. QED BY <1>1, <1>7, <1>10, <1>11

\* What the chain c has, and in what order.
Increasing(c) == \A m, n \in 1 .. Len(c) : m < n => c[m] < c[n]
Has(c, j) == \E m \in 1 .. Len(c) : c[m] = j

\* The elements of a sequence to which one element and another sequence are added.
LEMMA Joined ==
    ASSUME NEW S, NEW s \in Seq(S), NEW e \in S, NEW t \in Seq(S), NEW h, h = Len(s), NEW d, d = Len(t),
           NEW q, q = Append(s, e) \o t
    PROVE  /\ q \in Seq(S) /\ Len(q) = h + 1 + d
           /\ \A m \in 1 .. h : q[m] = s[m]
           /\ q[h + 1] = e
           /\ \A m \in h + 2 .. h + 1 + d : q[m] = t[m - (h + 1)]
<1>0. h \in Nat /\ d \in Nat
    OBVIOUS
<1>1. PICK p : p = Append(s, e)
    OBVIOUS
<1>2. p \in Seq(S) /\ Len(p) = h + 1 /\ p[h + 1] = e /\ \A m \in 1 .. h : p[m] = s[m]
    BY <1>1
<1>3. /\ p \o t \in Seq(S) /\ Len(p \o t) = Len(p) + Len(t)
      /\ \A m \in 1 .. Len(p) + Len(t) : (p \o t)[m] = IF m <= Len(p) THEN p[m] ELSE t[m - Len(p)]
    BY <1>2, ConcatProperties
<1>4. q = p \o t
    BY <1>1
<1>5. q \in Seq(S) /\ Len(q) = h + 1 + d
    BY <1>2, <1>3, <1>4
<1>6. \A m \in 1 .. h + 1 + d : q[m] = IF m <= h + 1 THEN p[m] ELSE t[m - (h + 1)]
    BY <1>2, <1>3, <1>4
<1>7. ASSUME NEW m \in 1 .. h PROVE q[m] = s[m]
    <2>1. m \in 1 .. h + 1 + d /\ m <= h + 1
        BY <1>0
    <2>2. QED BY <2>1, <1>2, <1>6
<1>8. q[h + 1] = e
    <2>1. h + 1 \in 1 .. h + 1 + d /\ h + 1 <= h + 1
        BY <1>0
    <2>2. QED BY <2>1, <1>2, <1>6
<1>9. ASSUME NEW m \in h + 2 .. h + 1 + d PROVE q[m] = t[m - (h + 1)]
    <2>1. m \in 1 .. h + 1 + d /\ ~(m <= h + 1)
        BY <1>0
    <2>2. QED BY <2>1, <1>6
<1>10. QED BY <1>5, <1>7, <1>8, <1>9

\* The chain when the mock offer of call i has arrived.
LEMMA ChainArrives ==
    ASSUME IInv, NEW i \in Numbers, calls[i].kind = "setRemoteOffer", calls[i].at = "peer",
           NEW q, q = Append(chain, i) \o Waiting(i)
    PROVE  /\ q \in Seq(Numbers)
           /\ Increasing(q)
           /\ \A j \in Numbers : Has(q, j) <=> calls[j].at = "native" \/ i <= j
<1>0. PICK l : l = Len(calls)
    OBVIOUS
<1>1. i \in Nat /\ l \in Nat /\ i <= l /\ Numbers = 1 .. l
    BY <1>0, WaitingFits DEF Numbers
<1>d. PICK d : d = l - i
    OBVIOUS
<1>e. d \in Nat /\ l = i + d
    BY <1>1, <1>d
<1>2. Waiting(i) = [n \in 1 .. d |-> i + n] /\ Waiting(i) \in Seq(Numbers) /\ Len(Waiting(i)) = d
    BY <1>0, <1>d, WaitingFits
<1>3. PICK h : h = Len(chain)
    OBVIOUS
<1>4. h \in Nat /\ chain \in Seq(Numbers) /\ (\A m \in 1 .. h : chain[m] \in Numbers)
    BY <1>3, TypeFacts DEF IInv
<1>5. /\ Append(chain, i) \in Seq(Numbers) /\ Len(Append(chain, i)) = h + 1
      /\ Append(chain, i)[h + 1] = i /\ \A m \in 1 .. h : Append(chain, i)[m] = chain[m]
    BY <1>3, <1>4
<1>6. /\ q \in Seq(Numbers) /\ Len(q) = h + 1 + d
      /\ \A m \in 1 .. h : q[m] = chain[m]
      /\ q[h + 1] = i
      /\ \A m \in h + 2 .. h + 1 + d : q[m] = i + (m - (h + 1))
    <2>1. PICK w : w = Waiting(i)
        OBVIOUS
    <2>2. w \in Seq(Numbers) /\ d = Len(w) /\ q = Append(chain, i) \o w
        BY <1>2, <2>1
    <2>3. /\ q \in Seq(Numbers) /\ Len(q) = h + 1 + d
          /\ \A m \in 1 .. h : q[m] = chain[m]
          /\ q[h + 1] = i
          /\ \A m \in h + 2 .. h + 1 + d : q[m] = w[m - (h + 1)]
        BY <1>3, <1>4, <2>2, Joined
    <2>4. ASSUME NEW m \in h + 2 .. h + 1 + d PROVE q[m] = i + (m - (h + 1))
        <3>1. m - (h + 1) \in 1 .. d
            BY <1>e, <1>4
        <3>2. w = [n \in 1 .. d |-> i + n]
            BY <1>2, <2>1
        <3>3. QED BY <2>3, <3>1, <3>2
    <2>5. QED BY <2>3, <2>4
<1>i. \A m \in 1 .. Len(q) : m \in 1 .. h \/ m = h + 1 \/ m \in h + 2 .. h + 1 + d
    <2>1. \A m \in 1 .. h + 1 + d : m \in 1 .. h \/ m = h + 1 \/ m \in h + 2 .. h + 1 + d
        BY <1>4, <1>e
    <2>2. QED BY <2>1, <1>6
<1>7. \A m \in 1 .. h : calls[chain[m]].at = "native" /\ chain[m] < i /\ chain[m] \in Nat
    <2> SUFFICES ASSUME NEW m \in 1 .. h
                 PROVE  calls[chain[m]].at = "native" /\ chain[m] < i /\ chain[m] \in Nat
        OBVIOUS
    <2>1. chain[m] \in Numbers /\ calls[chain[m]].at = "native"
        BY <1>3, <1>4 DEF IInv, ChainFits
    <2>2. chain[m] # i /\ ~(i < chain[m])
        BY <2>1, AwaitedBy
    <2>3. chain[m] \in Nat
        BY <2>1, <1>1
    <2>4. QED BY <2>1, <2>2, <2>3, <1>1
<1>8. ASSUME NEW m \in 1 .. Len(q), NEW n \in 1 .. Len(q), m < n PROVE q[m] < q[n]
    <2>1. CASE n \in 1 .. h
        <3>1. m \in 1 .. h
            BY <2>1, <1>4, <1>8
        <3>2. QED BY <2>1, <3>1, <1>3, <1>6, <1>8 DEF IInv, ChainFits
    <2>2. CASE n = h + 1
        <3>1. m \in 1 .. h
            BY <2>2, <1>4, <1>8
        <3>2. QED BY <2>2, <3>1, <1>6, <1>7
    <2>3. CASE n \in h + 2 .. h + 1 + d
        <3>1. q[n] = i + (n - (h + 1)) /\ n - (h + 1) \in Nat /\ n - (h + 1) > 0
            <4>1. q[n] = i + (n - (h + 1))
                BY <2>3, <1>6
            <4>2. QED BY <4>1, <2>3, <1>e, <1>4
        <3>2. CASE m \in 1 .. h
            <4>1. q[m] < i /\ q[m] \in Nat
                BY <3>2, <1>6, <1>7
            <4>2. QED BY <3>1, <4>1, <1>1
        <3>3. CASE m = h + 1
            BY <3>1, <3>3, <1>1, <1>6
        <3>4. CASE m \in h + 2 .. h + 1 + d
            <4>1. q[m] = i + (m - (h + 1))
                BY <3>4, <1>6
            <4>2. QED BY <3>1, <3>4, <4>1, <2>3, <1>1, <1>4, <1>8
        <3>5. QED BY <3>2, <3>3, <3>4, <1>i
    <2>4. QED BY <2>1, <2>2, <2>3, <1>i
<1>9. ASSUME NEW j \in Numbers
      PROVE  (\E m \in 1 .. Len(q) : q[m] = j) <=> calls[j].at = "native" \/ i <= j
    <2>1. ASSUME NEW m \in 1 .. Len(q), q[m] = j PROVE calls[j].at = "native" \/ i <= j
        <3>1. CASE m \in 1 .. h
            BY <3>1, <2>1, <1>6, <1>7
        <3>2. CASE m = h + 1
            BY <3>2, <2>1, <1>1, <1>6
        <3>3. CASE m \in h + 2 .. h + 1 + d
            <4>1. q[m] = i + (m - (h + 1))
                BY <3>3, <1>6
            <4>2. m - (h + 1) \in Nat
                BY <3>3, <1>e, <1>4
            <4>3. QED BY <4>1, <4>2, <2>1, <1>1
        <3>4. QED BY <3>1, <3>2, <3>3, <1>i
    <2>2. ASSUME calls[j].at = "native" PROVE \E m \in 1 .. Len(q) : q[m] = j
        <3>1. PICK m \in 1 .. h : chain[m] = j
            BY <2>2, <1>3 DEF IInv, ChainFits
        <3>2. m \in 1 .. Len(q)
            BY <1>e, <1>4, <1>6
        <3>3. QED BY <3>1, <3>2, <1>6
    <2>3. ASSUME i <= j PROVE \E m \in 1 .. Len(q) : q[m] = j
        <3>1. j \in Nat /\ j <= l
            BY <1>1
        <3>2. CASE j = i
            <4>1. h + 1 \in 1 .. Len(q)
                BY <1>e, <1>4, <1>6
            <4>2. QED BY <3>2, <4>1, <1>6
        <3>3. CASE j # i
            <4>0. PICK e : e = j - i
                OBVIOUS
            <4>e. e \in 1 .. d /\ e \in Nat /\ j = i + e
                BY <4>0, <3>1, <3>3, <2>3, <1>1, <1>e
            <4>1. PICK m : m = h + 1 + e
                OBVIOUS
            <4>f. m \in h + 2 .. h + 1 + d /\ m - (h + 1) = e
                BY <4>1, <4>e, <1>e, <1>4
            <4>2. m \in h + 2 .. h + 1 + d /\ i + (m - (h + 1)) = j
                BY <4>e, <4>f
            <4>3. m \in 1 .. Len(q)
                BY <4>2, <1>1, <1>4, <1>6
            <4>4. QED BY <4>2, <4>3, <1>6
        <3>4. QED BY <3>2, <3>3
    <2>4. QED BY <2>1, <2>2, <2>3
<1>10. QED BY <1>6, <1>8, <1>9 DEF Increasing, Has

\* The mock offer arrives.
LEMMA MockOfferArrivesStep ==
    ASSUME IInv, TypeOK', Bounded', NEW i \in Numbers, MockOfferArrives(i)
    PROVE  IInv'
<1> USE DEF IInv
<1>0. PICK l : l = Len(calls)
    OBVIOUS
<1>1. /\ calls[i].kind = "setRemoteOffer" /\ calls[i].at = "peer"
      /\ UNCHANGED <<intent, chosen, native, lastOffer, lastAnswer, selected, mockOffer, attached>> /\ UNCHANGED shownVars
      /\ chain' = Append(chain, i) \o Waiting(i)
    BY DEF MockOfferArrives
<1>2. /\ \A j \in Numbers : calls[j].at = "mock-offer" <=> i < j
      /\ \A j \in Numbers : i < j => calls[j].kind = "createAnswer"
      /\ \A j \in Numbers : calls[j].kind = "setRemoteOffer" /\ calls[j].at = "peer" => j = i
    BY <1>1, AwaitedBy
<1>3. Numbers \subseteq Nat /\ Numbers = 1 .. l /\ l \in Nat /\ \A j \in Numbers : calls[j] \in CallRecord
    BY <1>0, TypeFacts DEF Numbers
\* The calls from i on are native now, and the others as they were.
<1>a. calls' = [j \in Numbers |-> IF j = i \/ calls[j].at = "mock-offer" THEN [calls[j] EXCEPT !.at = "native"] ELSE calls[j]]
    BY <1>1, AwaitingAll DEF MockOfferArrives
<1>4. \A j \in Numbers : calls'[j] = IF j = i \/ calls[j].at = "mock-offer" THEN [calls[j] EXCEPT !.at = "native"] ELSE calls[j]
    BY <1>a
<1>5. \A j \in Numbers : i <= j => calls'[j] = [calls[j] EXCEPT !.at = "native"]
    <2> SUFFICES ASSUME NEW j \in Numbers, i <= j PROVE j = i \/ calls[j].at = "mock-offer"
        BY <1>4
    <2>1. i \in Nat /\ j \in Nat
        BY <1>3
    <2>2. j = i \/ i < j
        BY <2>1
    <2>3. QED BY <2>2, <1>2
<1>6. \A j \in Numbers : j < i => calls'[j] = calls[j]
    <2> SUFFICES ASSUME NEW j \in Numbers, j < i PROVE ~(j = i \/ calls[j].at = "mock-offer")
        BY <1>4
    <2>1. i \in Nat /\ j \in Nat
        BY <1>3
    <2>2. j # i /\ ~(i < j)
        BY <2>1
    <2>3. QED BY <2>2, <1>2
<1>7. \A j \in Numbers : i <= j => /\ calls'[j].at = "native" /\ calls'[j].kind = calls[j].kind
                                   /\ calls'[j].half = calls[j].half /\ calls'[j].of = calls[j].of
                                   /\ calls[j].at \notin {"native", "done", "failed"}
    <2> SUFFICES ASSUME NEW j \in Numbers, i <= j
                 PROVE  /\ calls'[j].at = "native" /\ calls'[j].kind = calls[j].kind
                        /\ calls'[j].half = calls[j].half /\ calls'[j].of = calls[j].of
                        /\ calls[j].at \notin {"native", "done", "failed"}
        OBVIOUS
    <2>1. i \in Nat /\ j \in Nat
        BY <1>3
    <2>2. j = i \/ i < j
        BY <2>1
    <2>3. QED BY <2>2, <1>1, <1>2, <1>3, <1>5, ZenonT(40) DEF CallRecord
<1>8. \A j \in Numbers : i <= j \/ j < i
    BY <1>3
<1>9. \A j \in Numbers : /\ calls'[j].kind = calls[j].kind /\ calls'[j].half = calls[j].half /\ calls'[j].of = calls[j].of
                         /\ calls'[j].at = "done" <=> calls[j].at = "done"
                         /\ Resolved(j)' <=> Resolved(j)
    <2>1. \A j \in Numbers : /\ calls'[j].kind = calls[j].kind /\ calls'[j].half = calls[j].half /\ calls'[j].of = calls[j].of
                             /\ calls'[j].at = "done" <=> calls[j].at = "done"
        BY <1>6, <1>7, <1>8
    <2>2. QED BY <2>1 DEF Resolved
<1>10. calls' \in Seq(CallRecord) /\ Len(calls') = Len(calls)
    <2>1. \A j \in Numbers : calls'[j] \in CallRecord
        <3> SUFFICES ASSUME NEW j \in Numbers PROVE calls'[j] \in CallRecord
            OBVIOUS
        <3>1. [calls[j] EXCEPT !.at = "native"] \in CallRecord /\ calls[j] \in CallRecord
            BY <1>3 DEF CallRecord
        <3>2. QED BY <3>1, <1>5, <1>6, <1>8
    <2>2. calls' \in [1 .. l -> CallRecord]
        BY <2>1, <1>a, <1>3
    <2>3. QED BY <2>2, <1>0, <1>3, SeqDef
<1>11. Continue
    BY <1>1, <1>9, <1>10 DEF Continue
<1>12. /\ Numbers' = Numbers
       /\ \A s, k \in Numbers : LastSet(s, k)' <=> LastSet(s, k)
       /\ \A j \in Numbers : IsSet(j)' <=> IsSet(j)
       /\ Legal' /\ OneAtATime' /\ About' /\ SelectedFits' /\ MockOfferFits' /\ ChosenFits'
    BY <1>11, ContinueKeeps
<1>13. PendingFits' /\ CurrentNamed' /\ CurrentDone'
    BY <1>1, <1>9, <1>11, ContinueQuietly
<1>14. /\ chain' \in Seq(Numbers)
       /\ \A m, n \in 1 .. Len(chain') : m < n => chain'[m] < chain'[n]
       /\ \A j \in Numbers : (\E m \in 1 .. Len(chain') : chain'[m] = j) <=> calls[j].at = "native" \/ i <= j
    <2>1. PICK q : q = Append(chain, i) \o Waiting(i)
        OBVIOUS
    <2>2. /\ q \in Seq(Numbers)
          /\ Increasing(q)
          /\ \A j \in Numbers : Has(q, j) <=> calls[j].at = "native" \/ i <= j
        BY <2>1, <1>1, ChainArrives
    <2>3. chain' = q
        BY <2>1, <1>1
    <2>4. QED BY <2>2, <2>3 DEF Increasing, Has
<1>16. Places'
    <2>1. \A j \in Numbers : calls[j].kind \in {"setLocalOffer", "setLocalAnswer"} => j < i
        <3>1. \A j \in Numbers : i < j => calls[j].kind \notin {"setLocalOffer", "setLocalAnswer"}
            BY <1>2
        <3>2. calls[i].kind \notin {"setLocalOffer", "setLocalAnswer"}
            BY <1>1
        <3>3. QED BY <3>1, <3>2, <1>3
    <2>2. QED BY <2>1, <1>6, <1>9, <1>12 DEF Places
<1>17. ChainFits'
    <2>1. \A j \in Numbers : calls'[j].at = "native" <=> calls[j].at = "native" \/ i <= j
        BY <1>6, <1>7, <1>8
    <2>2. QED BY <2>1, <1>12, <1>14 DEF ChainFits
<1>18. InOrder'
    <2> SUFFICES ASSUME NEW a \in Numbers, NEW b \in Numbers, a < b, calls'[a].at = "native"
                 PROVE  calls'[b].at # "done" /\ (calls'[b].kind \in Creates => calls'[b].at # "peer")
        BY <1>12 DEF InOrder
    <2>1. CASE i <= b
        BY <2>1, <1>7
    <2>2. CASE b < i
        <3>1. a \in Nat /\ b \in Nat /\ i \in Nat
            BY <1>3
        <3>2. a < i
            BY <2>2, <3>1
        <3>3. QED BY <2>2, <3>2, <1>6 DEF InOrder
    <2>3. QED BY <2>1, <2>2, <1>8
<1>19. Awaited'
    <2>1. ASSUME NEW a \in Numbers, calls'[a].kind = "setRemoteOffer", calls'[a].at = "peer"
          PROVE  FALSE
        <3>1. a < i
            BY <2>1, <1>7, <1>8
        <3>2. calls[a].kind = "setRemoteOffer" /\ calls[a].at = "peer"
            BY <2>1, <3>1, <1>6
        <3>3. a = i /\ a \in Nat
            BY <3>2, <1>2, <1>3
        <3>4. QED BY <3>1, <3>3
    <2>2. ASSUME NEW k \in Numbers, calls'[k].at = "mock-offer"
          PROVE  FALSE
        <3>1. k < i
            BY <2>2, <1>7, <1>8
        <3>2. i < k
            BY <2>2, <3>1, <1>2, <1>6
        <3>3. k \in Nat /\ i \in Nat
            BY <1>3
        <3>4. QED BY <3>1, <3>2, <3>3
    <2>3. QED BY <2>1, <2>2, <1>12 DEF Awaited
<1>20. Opened'
    <2> SUFFICES ASSUME NEW o \in Numbers, NEW k \in Numbers, LastSet(o, k)
                 PROVE  /\ calls'[k].kind = "setRemoteAnswer" => calls'[k].of = calls'[o].of
                        /\ calls'[k].kind = "setLocalAnswer" => calls'[o].at = "done" /\ o < calls'[k].of
                        /\ calls'[k].kind = "createAnswer" =>
                              /\ calls'[k].at = "native" => calls'[o].at \in {"native", "done"}
                              /\ calls'[k].at \in {"peer", "done"} => calls'[k].of = o
        BY <1>12 DEF Opened
    <2>1. calls'[k].kind = "setRemoteAnswer" => calls'[k].of = calls'[o].of
        BY <1>9 DEF Opened
    <2>2. calls'[k].kind = "setLocalAnswer" => calls'[o].at = "done" /\ o < calls'[k].of
        BY <1>9 DEF Opened
    <2>3. ASSUME calls'[k].kind = "createAnswer", calls'[k].at = "native" PROVE calls'[o].at \in {"native", "done"}
        <3>1. CASE i <= o
            BY <3>1, <1>7
        <3>2. CASE o < i /\ k < i
            <4>1. calls[k].kind = "createAnswer" /\ calls[k].at = "native"
                BY <2>3, <3>2, <1>6
            <4>2. calls[o].at \in {"native", "done"}
                BY <4>1 DEF Opened
            <4>3. QED BY <4>2, <3>2, <1>6
        <3>3. CASE o < i /\ i <= k
            <4>1. i # k /\ IsSet(i)
                BY <2>3, <1>1, <1>9 DEF IsSet, Openers
            <4>2. i \in Nat /\ k \in Nat
                BY <1>3
            <4>3. i < k
                BY <4>1, <4>2, <3>3
            <4>4. QED BY <4>1, <4>3, <3>3 DEF LastSet
        <3>4. QED BY <3>1, <3>2, <3>3, <1>8
    <2>4. ASSUME calls'[k].kind = "createAnswer", calls'[k].at \in {"peer", "done"} PROVE calls'[k].of = o
        <3>1. k < i
            BY <2>4, <1>7, <1>8
        <3>2. calls'[k] = calls[k]
            BY <3>1, <1>6
        <3>3. QED BY <2>4, <3>2 DEF Opened
    <2>5. QED BY <2>1, <2>2, <2>3, <2>4
<1>21. NativeFits'
    BY <1>1, <1>9, <1>12 DEF NativeFits
<1>22. NewestFits'
    <2> SUFFICES ASSUME NEW k \in Numbers, calls'[k].at \in {"peer", "done"},
                        \A j \in Numbers : k < j => calls'[j].kind # calls'[k].kind
                 PROVE  /\ calls'[k].kind = "createOffer" => lastOffer' = k
                        /\ calls'[k].kind = "createAnswer" => lastAnswer' = k
        BY <1>12 DEF NewestFits
    <2>1. k < i
        BY <1>7, <1>8
    <2>2. calls'[k] = calls[k] /\ \A j \in Numbers : k < j => calls[j].kind # calls[k].kind
        BY <2>1, <1>6, <1>9
    <2>3. QED BY <2>2, <1>1 DEF NewestFits
<1>23. QED BY <1>12, <1>13, <1>16, <1>17, <1>18, <1>19, <1>20, <1>21, <1>22

\* The peer replies to a request for an offer or an answer.
LEMMA CreateRepliesStep ==
    ASSUME IInv, TypeOK', Bounded', NEW i \in Numbers, PeerReplies(i), calls[i].kind # "setRemoteAnswer"
    PROVE  IInv'
<1> USE DEF IInv
<1>c. PICK q : q = [calls[i] EXCEPT !.at = "done"]
    OBVIOUS
<1>1. /\ i \in Nat /\ calls[i].at = "peer" /\ calls[i].kind # "setRemoteOffer" /\ calls[i] \in CallRecord /\ Numbers \subseteq Nat
      /\ calls' = [calls EXCEPT ![i].at = "done"] /\ chain' = chain
      /\ UNCHANGED <<intent, chosen, native, lastOffer, lastAnswer, selected, mockOffer, attached>> /\ UNCHANGED shownVars
    BY TypeFacts DEF PeerReplies
<1>2. /\ q \in CallRecord /\ q.kind = calls[i].kind /\ q.half = calls[i].half /\ q.of = calls[i].of /\ q.at = "done"
    BY <1>1, <1>c DEF CallRecord
<1>3. calls[i].kind \in Creates /\ ~IsSet(i) /\ calls[i].kind \notin Openers \cup Completing
    BY <1>1, KindsApart DEF Places, IsSet, CallRecord, Creates, Openers, Completing
<1>4. /\ Continue
      /\ calls'[i] = q /\ \A j \in Numbers \ {i} : calls'[j] = calls[j]
      /\ PendingFits' /\ CurrentNamed' /\ CurrentDone'
    <2>1. calls' = [calls EXCEPT ![i] = q]
        BY <1>1, <1>c
    <2>2. Becomes(i, q)
        BY <2>1, <1>1, <1>2, <1>3 DEF Becomes
    <2>3. ~Resolved(i)
        BY <1>1 DEF Resolved
    <2>4. UNCHANGED <<intent, chosen, selected, mockOffer>>
        BY <1>1
    <2>5. QED BY <2>2, <2>3, <2>4, <1>1, <1>2, BecomesContinues
<1>5. /\ Numbers' = Numbers
      /\ \A s, k \in Numbers : LastSet(s, k)' <=> LastSet(s, k)
      /\ \A j \in Numbers : IsSet(j)' <=> IsSet(j)
      /\ Legal' /\ OneAtATime' /\ About' /\ SelectedFits' /\ MockOfferFits' /\ ChosenFits'
    BY <1>4, ContinueKeeps
<1>6. \A j \in Numbers : calls'[j].kind = calls[j].kind /\ calls'[j].half = calls[j].half /\ calls'[j].of = calls[j].of
    <2> SUFFICES ASSUME NEW j \in Numbers
                 PROVE  calls'[j].kind = calls[j].kind /\ calls'[j].half = calls[j].half /\ calls'[j].of = calls[j].of
        OBVIOUS
    <2>1. CASE j = i
        BY <2>1, <1>2, <1>4
    <2>2. CASE j # i
        BY <2>2, <1>4
    <2>3. QED BY <2>1, <2>2
<1>8. \A j \in Numbers : IsSet(j) => calls'[j] = calls[j]
    BY <1>3, <1>4
<1>9. Places'
    <2>1. \A j \in Numbers : calls[j].kind \in {"setLocalOffer", "setLocalAnswer"} => calls'[j].at = calls[j].at
        BY <1>3, <1>4 DEF Openers, Completing
    <2>2. QED BY <2>1, <1>5, <1>6 DEF Places
<1>10. ChainFits'
    <2>1. \A j \in Numbers : calls'[j].at = "native" <=> calls[j].at = "native"
        BY <1>1, <1>2, <1>4
    <2>2. QED BY <2>1, <1>1, <1>5 DEF ChainFits
<1>11. InOrder'
    <2> SUFFICES ASSUME NEW a \in Numbers, NEW b \in Numbers, a < b, calls'[a].at = "native"
                 PROVE  calls'[b].at # "done" /\ (calls'[b].kind \in Creates => calls'[b].at # "peer")
        BY <1>5 DEF InOrder
    <2>1. a # i /\ calls[a].at = "native"
        BY <1>2, <1>4
    <2>2. calls[b].at # "done" /\ (calls[b].kind \in Creates => calls[b].at # "peer")
        BY <2>1 DEF InOrder
    <2>3. b # i
        BY <2>2, <1>1, <1>3
    <2>4. QED BY <2>2, <2>3, <1>4
<1>12. Awaited'
    <2>1. ASSUME NEW a \in Numbers, NEW b \in Numbers, a < b, calls'[a].kind = "setRemoteOffer", calls'[a].at = "peer"
          PROVE  calls'[b].kind = "createAnswer" /\ calls'[b].at = "mock-offer"
        <3>1. a # i
            BY <2>1, <1>2, <1>4
        <3>2. calls[b].kind = "createAnswer" /\ calls[b].at = "mock-offer"
            BY <2>1, <3>1, <1>4 DEF Awaited
        <3>3. b # i
            BY <3>2, <1>1
        <3>4. QED BY <3>2, <3>3, <1>4
    <2>2. ASSUME NEW k \in Numbers, calls'[k].at = "mock-offer"
          PROVE  calls'[k].kind = "createAnswer" /\ \A o \in Numbers : LastSet(o, k)' => calls'[o].at = "peer"
        <3>1. k # i
            BY <2>2, <1>2, <1>4
        <3>2. calls[k].kind = "createAnswer" /\ \A o \in Numbers : LastSet(o, k) => calls[o].at = "peer"
            BY <2>2, <3>1, <1>4 DEF Awaited
        <3>3. \A o \in Numbers : LastSet(o, k) => calls'[o] = calls[o]
            BY <1>8 DEF LastSet
        <3>4. QED BY <3>1, <3>2, <3>3, <1>4, <1>5
    <2>3. QED BY <2>1, <2>2, <1>5 DEF Awaited
<1>13. Opened'
    <2> SUFFICES ASSUME NEW o \in Numbers, NEW k \in Numbers, LastSet(o, k)
                 PROVE  /\ calls'[k].kind = "setRemoteAnswer" => calls'[k].of = calls'[o].of
                        /\ calls'[k].kind = "setLocalAnswer" => calls'[o].at = "done" /\ o < calls'[k].of
                        /\ calls'[k].kind = "createAnswer" =>
                              /\ calls'[k].at = "native" => calls'[o].at \in {"native", "done"}
                              /\ calls'[k].at \in {"peer", "done"} => calls'[k].of = o
        BY <1>5 DEF Opened
    <2>1. calls'[o] = calls[o]
        BY <1>8 DEF LastSet
    <2>2. calls'[k].at \in {"peer", "done"} => calls[k].at \in {"peer", "done"}
        BY <1>1, <1>4
    <2>3. calls'[k].at = "native" => calls[k].at = "native"
        BY <1>2, <1>4
    <2>4. QED BY <2>1, <2>2, <2>3, <1>6 DEF Opened
<1>14. NativeFits'
    <2>1. \A j \in Numbers : calls[j].kind \in Openers \cup Completing => calls'[j] = calls[j]
        BY <1>3, <1>4
    <2>2. \A j \in Numbers : calls[j].kind \in Openers => calls'[j].at = calls[j].at
        BY <2>1
    <2>3. \A j \in Numbers : calls[j].kind \in Completing => calls'[j].at = calls[j].at
        BY <2>1
    <2>4. \A j \in Numbers : IsSet(j) => calls'[j].at = calls[j].at
        BY <1>8
    <2>5. QED BY <2>2, <2>3, <2>4, <1>1, <1>5, <1>6 DEF NativeFits
<1>15. NewestFits'
    <2>1. \A k \in Numbers : calls'[k].at \in {"peer", "done"} => calls[k].at \in {"peer", "done"}
        BY <1>1, <1>4
    <2>2. QED BY <2>1, <1>1, <1>5, <1>6 DEF NewestFits
<1>16. QED BY <1>4, <1>5, <1>9, <1>10, <1>11, <1>12, <1>13, <1>14, <1>15

\* A call that no other follows joins the chain.
LEMMA ChainGrows ==
    ASSUME TypeOK, ChainFits, NEW i \in Numbers, \A j \in Numbers : j <= i, calls[i].at # "native",
           NEW q, q = Append(chain, i)
    PROVE  /\ q \in Seq(Numbers)
           /\ Increasing(q)
           /\ \A j \in Numbers : Has(q, j) <=> calls[j].at = "native" \/ j = i
<1>1. PICK h : h = Len(chain)
    OBVIOUS
<1>2. h \in Nat /\ chain \in Seq(Numbers) /\ (\A m \in 1 .. h : chain[m] \in Numbers) /\ Numbers \subseteq Nat
    BY <1>1, TypeFacts
<1>3. q \in Seq(Numbers) /\ Len(q) = h + 1 /\ q[h + 1] = i /\ \A m \in 1 .. h : q[m] = chain[m]
    BY <1>1, <1>2
<1>4. ASSUME NEW m \in 1 .. h PROVE q[m] \in Nat /\ q[m] < i /\ q[m] \in Numbers /\ calls[q[m]].at = "native"
    <2>1. q[m] = chain[m] /\ chain[m] \in Numbers
        BY <1>2, <1>3
    <2>2. calls[q[m]].at = "native"
        BY <2>1, <1>1 DEF ChainFits
    <2>3. q[m] # i /\ q[m] <= i /\ q[m] \in Nat /\ i \in Nat
        BY <2>1, <2>2, <1>2
    <2>4. QED BY <2>1, <2>2, <2>3
<1>5. \A m \in 1 .. Len(q) : m \in 1 .. h \/ m = h + 1
    BY <1>2, <1>3
<1>6. ASSUME NEW m \in 1 .. Len(q), NEW n \in 1 .. Len(q), m < n PROVE q[m] < q[n]
    <2>1. m \in 1 .. h
        BY <1>2, <1>3, <1>6
    <2>2. CASE n = h + 1
        BY <2>1, <2>2, <1>3, <1>4
    <2>3. CASE n \in 1 .. h
        BY <2>1, <2>3, <1>1, <1>3, <1>6 DEF ChainFits
    <2>4. QED BY <2>2, <2>3, <1>5
<1>7. ASSUME NEW j \in Numbers
      PROVE  (\E m \in 1 .. Len(q) : q[m] = j) <=> calls[j].at = "native" \/ j = i
    <2>1. ASSUME NEW m \in 1 .. Len(q), q[m] = j PROVE calls[j].at = "native" \/ j = i
        BY <2>1, <1>3, <1>4, <1>5
    <2>2. ASSUME calls[j].at = "native" PROVE \E m \in 1 .. Len(q) : q[m] = j
        <3>1. PICK m \in 1 .. h : chain[m] = j
            BY <2>2, <1>1 DEF ChainFits
        <3>2. m \in 1 .. Len(q)
            BY <1>2, <1>3
        <3>3. QED BY <3>1, <3>2, <1>3
    <2>3. ASSUME j = i PROVE \E m \in 1 .. Len(q) : q[m] = j
        <3>1. h + 1 \in 1 .. Len(q)
            BY <1>2, <1>3
        <3>2. QED BY <3>1, <2>3, <1>3
    <2>4. QED BY <2>1, <2>2, <2>3
<1>8. QED BY <1>3, <1>6, <1>7 DEF Increasing, Has

\* The peer answers the real offer.
LEMMA AnswerRepliesStep ==
    ASSUME IInv, TypeOK', Bounded', NEW i \in Numbers, PeerReplies(i), calls[i].kind = "setRemoteAnswer"
    PROVE  IInv'
<1> USE DEF IInv
<1>c. PICK q : q = [calls[i] EXCEPT !.at = "native"]
    OBVIOUS
<1>1. /\ i \in Nat /\ calls[i].at = "peer" /\ calls[i] \in CallRecord /\ Numbers \subseteq Nat
      /\ calls' = [calls EXCEPT ![i].at = "native"] /\ chain' = Append(chain, i)
      /\ UNCHANGED <<intent, chosen, native, lastOffer, lastAnswer, selected, mockOffer, attached>> /\ UNCHANGED shownVars
    BY TypeFacts DEF PeerReplies, Enqueue
<1>2. /\ q \in CallRecord /\ q.kind = calls[i].kind /\ q.half = calls[i].half /\ q.of = calls[i].of /\ q.at = "native"
    BY <1>1, <1>c DEF CallRecord
<1>3. ~Resolved(i) /\ calls[i].kind \in Completing
    BY <1>1 DEF Resolved, Completing
<1>4. /\ Continue
      /\ calls'[i] = q /\ \A j \in Numbers \ {i} : calls'[j] = calls[j]
      /\ PendingFits' /\ CurrentNamed' /\ CurrentDone'
    <2>1. calls' = [calls EXCEPT ![i] = q]
        BY <1>1, <1>c
    <2>2. Becomes(i, q)
        BY <2>1, <1>1, <1>2 DEF Becomes
    <2>3. UNCHANGED <<intent, chosen, selected, mockOffer>>
        BY <1>1
    <2>4. QED BY <2>2, <2>3, <1>1, <1>2, <1>3, BecomesContinues
<1>5. /\ Numbers' = Numbers
      /\ \A s, k \in Numbers : LastSet(s, k)' <=> LastSet(s, k)
      /\ \A j \in Numbers : IsSet(j)' <=> IsSet(j)
      /\ Legal' /\ OneAtATime' /\ About' /\ SelectedFits' /\ MockOfferFits' /\ ChosenFits'
    BY <1>4, ContinueKeeps
<1>6. \A j \in Numbers : calls'[j].kind = calls[j].kind /\ calls'[j].half = calls[j].half /\ calls'[j].of = calls[j].of
    <2> SUFFICES ASSUME NEW j \in Numbers
                 PROVE  calls'[j].kind = calls[j].kind /\ calls'[j].half = calls[j].half /\ calls'[j].of = calls[j].of
        OBVIOUS
    <2>1. CASE j = i
        BY <2>1, <1>2, <1>4
    <2>2. CASE j # i
        BY <2>2, <1>4
    <2>3. QED BY <2>1, <2>2
\* No call is made before i is over.
<1>7. \A j \in Numbers : j <= i
    <2> SUFFICES ASSUME NEW j \in Numbers PROVE j <= i
        OBVIOUS
    <2>1. ~(i < j)
        BY <1>3 DEF OneAtATime
    <2>2. j \in Nat
        BY <1>1
    <2>3. QED BY <2>1, <2>2, <1>1
<1>8. /\ chain' \in Seq(Numbers)
      /\ \A m, n \in 1 .. Len(chain') : m < n => chain'[m] < chain'[n]
      /\ \A j \in Numbers : (\E m \in 1 .. Len(chain') : chain'[m] = j) <=> calls[j].at = "native" \/ j = i
    <2>1. PICK c : c = Append(chain, i)
        OBVIOUS
    <2>2. /\ c \in Seq(Numbers)
          /\ Increasing(c)
          /\ \A j \in Numbers : Has(c, j) <=> calls[j].at = "native" \/ j = i
        <3>1. TypeOK /\ ChainFits /\ calls[i].at # "native"
            BY <1>1
        <3>2. QED BY <2>1, <3>1, <1>7, ChainGrows
    <2>3. chain' = c
        BY <2>1, <1>1
    <2>4. QED BY <2>2, <2>3 DEF Increasing, Has
<1>10. Places'
    <2>1. \A j \in Numbers : calls[j].kind \in {"setLocalOffer", "setLocalAnswer"} => calls'[j].at = calls[j].at
        BY <1>4
    <2>2. QED BY <2>1, <1>5, <1>6 DEF Places
<1>11. ChainFits'
    <2>1. \A j \in Numbers : calls'[j].at = "native" <=> calls[j].at = "native" \/ j = i
        BY <1>2, <1>4
    <2>2. QED BY <2>1, <1>5, <1>8 DEF ChainFits
<1>12. \A a, b \in Numbers : a < b => a # i /\ calls'[a] = calls[a]
    <2> SUFFICES ASSUME NEW a \in Numbers, NEW b \in Numbers, a < b PROVE a # i
        BY <1>4
    <2>1. a \in Nat /\ b \in Nat /\ b <= i
        BY <1>1, <1>7
    <2>2. QED BY <2>1
<1>13. InOrder'
    <2> SUFFICES ASSUME NEW a \in Numbers, NEW b \in Numbers, a < b, calls'[a].at = "native"
                 PROVE  calls'[b].at # "done" /\ (calls'[b].kind \in Creates => calls'[b].at # "peer")
        BY <1>5 DEF InOrder
    <2>1. calls[b].at # "done" /\ (calls[b].kind \in Creates => calls[b].at # "peer")
        BY <1>12 DEF InOrder
    <2>2. QED BY <2>1, <1>2, <1>4
<1>14. Awaited'
    <2>1. ASSUME NEW a \in Numbers, NEW b \in Numbers, a < b, calls'[a].kind = "setRemoteOffer", calls'[a].at = "peer"
          PROVE  calls'[b].kind = "createAnswer" /\ calls'[b].at = "mock-offer"
        <3>1. calls[b].kind = "createAnswer" /\ calls[b].at = "mock-offer"
            BY <2>1, <1>12 DEF Awaited
        <3>2. b # i
            BY <3>1, <1>1
        <3>3. QED BY <3>1, <3>2, <1>4
    <2>2. ASSUME NEW k \in Numbers, calls'[k].at = "mock-offer"
          PROVE  calls'[k].kind = "createAnswer" /\ \A o \in Numbers : LastSet(o, k)' => calls'[o].at = "peer"
        <3>1. k # i
            BY <2>2, <1>2, <1>4
        <3>2. calls[k].kind = "createAnswer" /\ \A o \in Numbers : LastSet(o, k) => calls[o].at = "peer"
            BY <2>2, <3>1, <1>4 DEF Awaited
        <3>3. \A o \in Numbers : LastSet(o, k) => calls'[o] = calls[o]
            BY <1>12 DEF LastSet
        <3>4. QED BY <3>1, <3>2, <3>3, <1>4, <1>5
    <2>3. QED BY <2>1, <2>2, <1>5 DEF Awaited
<1>15. Opened'
    <2> SUFFICES ASSUME NEW o \in Numbers, NEW k \in Numbers, LastSet(o, k)
                 PROVE  /\ calls'[k].kind = "setRemoteAnswer" => calls'[k].of = calls'[o].of
                        /\ calls'[k].kind = "setLocalAnswer" => calls'[o].at = "done" /\ o < calls'[k].of
                        /\ calls'[k].kind = "createAnswer" =>
                              /\ calls'[k].at = "native" => calls'[o].at \in {"native", "done"}
                              /\ calls'[k].at \in {"peer", "done"} => calls'[k].of = o
        BY <1>5 DEF Opened
    <2>1. calls'[o] = calls[o]
        BY <1>12 DEF LastSet
    <2>2. calls[k].kind = "createAnswer" => calls'[k] = calls[k]
        BY <1>4
    <2>3. QED BY <2>1, <2>2, <1>6 DEF Opened
<1>16. \A j \in Numbers : calls'[j].at = "done" <=> calls[j].at = "done"
    BY <1>1, <1>2, <1>4
<1>17. NativeFits'
    BY <1>1, <1>5, <1>6, <1>16 DEF NativeFits
<1>18. NewestFits'
    <2>1. \A k \in Numbers : calls'[k].at \in {"peer", "done"} => calls[k].at \in {"peer", "done"}
        BY <1>2, <1>4
    <2>2. QED BY <2>1, <1>1, <1>5, <1>6 DEF NewestFits
<1>19. QED BY <1>4, <1>5, <1>10, <1>11, <1>13, <1>14, <1>15, <1>17, <1>18

\* When no call moves, only what is resolved may change.
LEMMA AtsKept ==
    ASSUME IInv, Continue, UNCHANGED nativeVars,
           \A j \in Numbers : calls'[j].at = calls[j].at /\ calls'[j].of = calls[j].of
    PROVE  ChainFits' /\ InOrder' /\ Awaited' /\ Opened' /\ NativeFits' /\ NewestFits'
<1> USE DEF IInv
<1>1. /\ Numbers' = Numbers
      /\ \A s, k \in Numbers : LastSet(s, k)' <=> LastSet(s, k)
      /\ \A j \in Numbers : IsSet(j)' <=> IsSet(j)
    BY ContinueKeeps
<1>2. \A j \in Numbers : calls'[j].kind = calls[j].kind /\ calls'[j].at = calls[j].at /\ calls'[j].of = calls[j].of
    BY DEF Continue
<1>3. native' = native /\ chain' = chain /\ lastOffer' = lastOffer /\ lastAnswer' = lastAnswer
    BY DEF nativeVars
<1>4. ChainFits'
    BY <1>1, <1>2, <1>3 DEF ChainFits
<1>5. InOrder'
    BY <1>1, <1>2 DEF InOrder
<1>6. Awaited'
    BY <1>1, <1>2 DEF Awaited
<1>7. Opened'
    BY <1>1, <1>2 DEF Opened
<1>8. NativeFits'
    BY <1>1, <1>2, <1>3 DEF NativeFits
<1>9. NewestFits'
    BY <1>1, <1>2, <1>3 DEF NewestFits
<1>10. QED BY <1>4, <1>5, <1>6, <1>7, <1>8, <1>9

\* The setAnswer() beside the main part succeeds or fails.
LEMMA HalfStep ==
    ASSUME IInv, TypeOK', Bounded', NEW i \in Numbers, NEW half \in {"done", "failed"}, calls[i].half = "pending",
           Becomes(i, [calls[i] EXCEPT !.half = half]),
           UNCHANGED <<intent, chosen, nativeVars, selected, mockOffer, attached>>
    PROVE  IInv'
<1> USE DEF IInv
<1>c. PICK q : q = [calls[i] EXCEPT !.half = half]
    OBVIOUS
<1>1. calls[i] \in CallRecord
    BY TypeFacts
<1>2. /\ q \in CallRecord /\ q.kind = calls[i].kind /\ q.at = calls[i].at /\ q.of = calls[i].of
      /\ ~Resolved(i) /\ Becomes(i, q)
    BY <1>1, <1>c DEF CallRecord, Resolved
<1>3. /\ Continue
      /\ calls'[i] = q /\ \A j \in Numbers \ {i} : calls'[j] = calls[j]
      /\ PendingFits' /\ CurrentNamed' /\ CurrentDone'
    <2>1. UNCHANGED <<intent, chosen, selected, mockOffer>>
        OBVIOUS
    <2>2. QED BY <2>1, <1>2, BecomesContinues
<1>4. /\ Numbers' = Numbers
      /\ Legal' /\ OneAtATime' /\ About' /\ SelectedFits' /\ MockOfferFits' /\ ChosenFits'
    BY <1>3, ContinueKeeps
<1>5. ASSUME NEW j \in Numbers
      PROVE  /\ calls'[j].at = calls[j].at /\ calls'[j].of = calls[j].of /\ calls'[j].kind = calls[j].kind
             /\ calls[j].kind \notin Completing => calls'[j].half = calls[j].half
    <2>1. CASE j = i
        BY <2>1, <1>2, <1>3 DEF Places
    <2>2. CASE j # i
        BY <2>2, <1>3
    <2>3. QED BY <2>1, <2>2
<1>6. Places'
    BY <1>4, <1>5 DEF Places
<1>8. ChainFits' /\ InOrder' /\ Awaited' /\ Opened' /\ NativeFits' /\ NewestFits'
    BY <1>3, <1>5, AtsKept
<1>9. QED BY <1>3, <1>4, <1>6, <1>8

\* The peer refuses a request, and what awaits it fails with it.
LEMMA RefuseStep ==
    ASSUME IInv, TypeOK', Bounded', NEW i \in Numbers, calls[i].at = "peer",
           calls' = [j \in Numbers |->
                IF j = i \/ (calls[i].kind = "setRemoteOffer" /\ calls[j].at = "mock-offer")
                THEN [calls[j] EXCEPT !.at = "failed"] ELSE calls[j]],
           UNCHANGED <<intent, chosen, nativeVars, selected, mockOffer, shownVars, attached>>
    PROVE  IInv'
<1> USE DEF IInv
<1> DEFINE Fails(j) == j = i \/ (calls[i].kind = "setRemoteOffer" /\ calls[j].at = "mock-offer")
<1>0. PICK l : l = Len(calls)
    OBVIOUS
<1>1. Numbers \subseteq Nat /\ Numbers = 1 .. l /\ l \in Nat /\ \A j \in Numbers : calls[j] \in CallRecord
    BY <1>0, TypeFacts DEF Numbers
<1>2. calls' = [j \in Numbers |-> IF Fails(j) THEN [calls[j] EXCEPT !.at = "failed"] ELSE calls[j]]
    OBVIOUS
<1>3. \A j \in Numbers : Fails(j) => calls[j].at \in {"peer", "mock-offer"} /\ calls[j].at # "native" /\ calls[j].at # "done"
    OBVIOUS
<1>4. Fails(i) /\ (calls[i].kind = "setRemoteOffer" => \A j \in Numbers : calls[j].at = "mock-offer" => Fails(j))
      /\ \A j \in Numbers : Fails(j) /\ j # i => calls[j].at = "mock-offer"
    OBVIOUS
<1> HIDE DEF Fails
<1>5. \A j \in Numbers : /\ calls'[j].kind = calls[j].kind /\ calls'[j].half = calls[j].half /\ calls'[j].of = calls[j].of
                         /\ calls'[j].at = IF Fails(j) THEN "failed" ELSE calls[j].at
                         /\ calls'[j] \in CallRecord
    <2> SUFFICES ASSUME NEW j \in Numbers
                 PROVE  /\ calls'[j].kind = calls[j].kind /\ calls'[j].half = calls[j].half /\ calls'[j].of = calls[j].of
                        /\ calls'[j].at = IF Fails(j) THEN "failed" ELSE calls[j].at
                        /\ calls'[j] \in CallRecord
        OBVIOUS
    <2>1. CASE Fails(j)
        <3>1. calls'[j] = [calls[j] EXCEPT !.at = "failed"] /\ calls[j] \in CallRecord
            BY <1>1, <1>2, <2>1
        <3>2. QED BY <3>1, <2>1 DEF CallRecord
    <2>2. CASE ~Fails(j)
        <3>1. calls'[j] = calls[j] /\ calls[j] \in CallRecord
            BY <1>1, <1>2, <2>2
        <3>2. QED BY <3>1, <2>2
    <2>3. QED BY <2>1, <2>2
<1>6. /\ \A j \in Numbers : calls'[j].at = "done" <=> calls[j].at = "done"
      /\ \A j \in Numbers : calls'[j].at = "native" <=> calls[j].at = "native"
      /\ \A j \in Numbers : calls'[j].at \in {"peer", "done"} => calls[j].at \in {"peer", "done"}
      /\ \A j \in Numbers : calls'[j].at \in {"peer", "mock-offer"} => calls'[j].at = calls[j].at /\ ~Fails(j)
    <2>1. ASSUME NEW j \in Numbers, Fails(j) PROVE calls'[j].at = "failed" /\ calls[j].at # "native" /\ calls[j].at # "done"
        BY <2>1, <1>3, <1>5
    <2>2. ASSUME NEW j \in Numbers, ~Fails(j) PROVE calls'[j].at = calls[j].at
        BY <2>2, <1>5
    <2>3. QED BY <2>1, <2>2
<1>7. \A j \in Numbers : Resolved(j)' <=> Resolved(j)
    BY <1>5, <1>6 DEF Resolved
<1>8. calls' \in Seq(CallRecord) /\ Len(calls') = Len(calls)
    <2>1. calls' \in [1 .. l -> CallRecord]
        BY <1>1, <1>2, <1>5
    <2>2. QED BY <2>1, <1>0, <1>1, SeqDef
<1>9. Continue
    BY <1>5, <1>6, <1>7, <1>8 DEF Continue
<1>10. /\ Numbers' = Numbers
       /\ \A s, k \in Numbers : LastSet(s, k)' <=> LastSet(s, k)
       /\ \A j \in Numbers : IsSet(j)' <=> IsSet(j)
       /\ Legal' /\ OneAtATime' /\ About' /\ SelectedFits' /\ MockOfferFits' /\ ChosenFits'
    BY <1>9, ContinueKeeps
<1>11. PendingFits' /\ CurrentNamed' /\ CurrentDone'
    BY <1>7, <1>9, ContinueQuietly
<1>13. Places'
    <2>1. \A j \in Numbers : calls[j].kind \in {"setLocalOffer", "setLocalAnswer"} => calls'[j].at \in {"native", "done"}
        BY <1>6 DEF Places
    <2>2. QED BY <2>1, <1>5, <1>10 DEF Places
<1>14. native' = native /\ chain' = chain /\ lastOffer' = lastOffer /\ lastAnswer' = lastAnswer
    BY DEF nativeVars
<1>15. ChainFits'
    BY <1>6, <1>10, <1>14 DEF ChainFits
<1>16. InOrder'
    <2> SUFFICES ASSUME NEW a \in Numbers, NEW b \in Numbers, a < b, calls'[a].at = "native"
                 PROVE  calls'[b].at # "done" /\ (calls'[b].kind \in Creates => calls'[b].at # "peer")
        BY <1>10 DEF InOrder
    <2>1. calls[b].at # "done" /\ (calls[b].kind \in Creates => calls[b].at # "peer")
        BY <1>6 DEF InOrder
    <2>2. QED BY <2>1, <1>5, <1>6
<1>17. Awaited'
    <2>1. ASSUME NEW a \in Numbers, NEW b \in Numbers, a < b, calls'[a].kind = "setRemoteOffer", calls'[a].at = "peer"
          PROVE  calls'[b].kind = "createAnswer" /\ calls'[b].at = "mock-offer"
        <3>1. calls[a].kind = "setRemoteOffer" /\ calls[a].at = "peer" /\ a # i
            BY <2>1, <1>4, <1>5, <1>6
        <3>2. calls[b].kind = "createAnswer" /\ calls[b].at = "mock-offer"
            BY <2>1, <3>1 DEF Awaited
        <3>3. ~Fails(b)
            <4>1. calls[i].kind # "setRemoteOffer"
                BY <3>1, AwaitedBy
            <4>2. b # i
                BY <3>2
            <4>3. QED BY <4>1, <4>2 DEF Fails
        <3>4. QED BY <3>2, <3>3, <1>5
    <2>2. ASSUME NEW k \in Numbers, calls'[k].at = "mock-offer"
          PROVE  calls'[k].kind = "createAnswer" /\ \A o \in Numbers : LastSet(o, k)' => calls'[o].at = "peer"
        <3>1. calls[k].at = "mock-offer" /\ ~Fails(k)
            BY <2>2, <1>6
        <3>2. calls[k].kind = "createAnswer" /\ \A o \in Numbers : LastSet(o, k) => calls[o].at = "peer"
            BY <3>1 DEF Awaited
        <3>3. ASSUME NEW o \in Numbers, LastSet(o, k) PROVE calls'[o].at = "peer"
            <4>1. PICK p \in Numbers : LastSet(p, k) /\ calls[p].kind = "setRemoteOffer"
                BY <3>2 DEF Legal, OpenBefore
            <4>2. p = o
                BY <3>3, <4>1, <1>1, OneLastSet
            <4>3. calls[o].at = "peer" /\ calls[o].kind = "setRemoteOffer"
                BY <3>2, <3>3, <4>1, <4>2
            <4>4. o # i
                BY <3>1, <4>3, <1>4
            <4>5. ~Fails(o)
                BY <4>3, <4>4, <1>4
            <4>6. QED BY <4>3, <4>5, <1>5
        <3>4. QED BY <3>2, <3>3, <1>5, <1>10
    <2>3. QED BY <2>1, <2>2, <1>10 DEF Awaited
<1>18. Opened'
    <2> SUFFICES ASSUME NEW o \in Numbers, NEW k \in Numbers, LastSet(o, k)
                 PROVE  /\ calls'[k].kind = "setRemoteAnswer" => calls'[k].of = calls'[o].of
                        /\ calls'[k].kind = "setLocalAnswer" => calls'[o].at = "done" /\ o < calls'[k].of
                        /\ calls'[k].kind = "createAnswer" =>
                              /\ calls'[k].at = "native" => calls'[o].at \in {"native", "done"}
                              /\ calls'[k].at \in {"peer", "done"} => calls'[k].of = o
        BY <1>10 DEF Opened
    <2>1. calls[o].at \in {"native", "done"} => calls'[o].at \in {"native", "done"}
        BY <1>6
    <2>2. calls[o].at = "done" => calls'[o].at = "done"
        BY <1>6
    <2>3. QED BY <2>1, <2>2, <1>5, <1>6 DEF Opened
<1>19. NativeFits'
    BY <1>5, <1>6, <1>10, <1>14 DEF NativeFits
<1>20. NewestFits'
    BY <1>5, <1>6, <1>10, <1>14 DEF NewestFits
<1>21. QED BY <1>10, <1>11, <1>13, <1>15, <1>16, <1>17, <1>18, <1>19, <1>20

\* The control channel opens, or nothing happens: the message names what was selected.
LEMMA IdleStep ==
    ASSUME IInv, TypeOK', Bounded', UNCHANGED <<appVars, nativeVars, selected, mockOffer, shownVars>>,
           attached' \in {attached, selected}
    PROVE  IInv'
<1> USE DEF IInv
<1>1. calls' = calls /\ intent' = intent /\ chosen' = chosen /\ native' = native /\ chain' = chain
      /\ lastOffer' = lastOffer /\ lastAnswer' = lastAnswer
    BY DEF appVars, nativeVars
<1>2. calls \in Seq(CallRecord)
    BY TypeFacts
<1>3. \A j \in Numbers : Resolved(j)' <=> Resolved(j)
    BY <1>1 DEF Resolved
<1>4. Continue
    BY <1>1, <1>2, <1>3 DEF Continue
<1>5. Legal' /\ OneAtATime' /\ About' /\ SelectedFits' /\ MockOfferFits' /\ ChosenFits' /\ Numbers' = Numbers
    BY <1>4, ContinueKeeps
<1>6. PendingFits' /\ CurrentNamed' /\ CurrentDone'
    BY <1>3, <1>4, ContinueQuietly
<1>7. ChainFits' /\ InOrder' /\ Awaited' /\ Opened' /\ NativeFits' /\ NewestFits'
    BY <1>1, <1>4, AtsKept
<1>8. Places'
    BY <1>1, <1>5 DEF Places
<1>9. QED BY <1>5, <1>6, <1>7, <1>8

\* What fails with the mock offer asked for nothing yet.
LEMMA RefusedStep ==
    ASSUME IInv, TypeOK', Bounded', NEW i \in Numbers, calls[i].at = "peer",
           calls' = [j \in Numbers |-> Refused(j, i)],
           UNCHANGED <<intent, chosen, strayed, nativeVars, selected, mockOffer, shownVars, attached>>
    PROVE  IInv'
<1>1. ASSUME NEW j \in Numbers
      PROVE  Refused(j, i) = IF j = i \/ (calls[i].kind = "setRemoteOffer" /\ calls[j].at = "mock-offer")
                             THEN [calls[j] EXCEPT !.at = "failed"] ELSE calls[j]
    <2>1. CASE j # i /\ calls[i].kind = "setRemoteOffer"
        <3>1. Awaits(j, i) <=> calls[j].at = "mock-offer"
            BY <2>1, AwaitingAll
        <3>2. ASSUME calls[j].at = "mock-offer"
              PROVE  [calls[j] EXCEPT !.at = "failed", !.half = "none"] = [calls[j] EXCEPT !.at = "failed"]
            <4>1. calls[j].kind = "createAnswer" /\ calls[j] \in CallRecord
                BY <3>2, TypeFacts DEF IInv, Awaited
            <4>2. calls[j].half = "none"
                BY <4>1 DEF IInv, Places, Completing
            <4>3. QED BY <4>1, <4>2 DEF CallRecord
        <3>3. QED BY <2>1, <3>1, <3>2, Zenon DEF Refused
    <2>2. CASE ~(j # i /\ calls[i].kind = "setRemoteOffer")
        BY <2>2, Zenon DEF Refused
    <2>3. QED BY <2>1, <2>2
<1>2. calls' = [j \in Numbers |->
                IF j = i \/ (calls[i].kind = "setRemoteOffer" /\ calls[j].at = "mock-offer")
                THEN [calls[j] EXCEPT !.at = "failed"] ELSE calls[j]]
    BY <1>1, Zenon
<1>3. UNCHANGED <<intent, chosen, nativeVars, selected, mockOffer, shownVars, attached>>
    OBVIOUS
<1>4. QED BY <1>2, <1>3, RefuseStep

-----------------------------------------------------------------------------
(* The inductive invariant.                                                *)

\* What holds of every application, and what holds while it has not strayed.
Always == Base /\ (~strayed => IInv)

\* It holds when there is no call.
LEMMA InitAlways ==
    ASSUME Init
    PROVE  Always
<1>1. /\ calls = <<>> /\ Len(calls) = 0 /\ Numbers = {} /\ chain = <<>> /\ Len(chain) = 0 /\ chosen = {}
      /\ Cardinality(chosen) = 0
    BY FS_EmptySet DEF Init, Numbers
<1>2. TypeOK
    <2>1. <<>> \in Seq([kind : Kinds, at : {"mock-offer", "peer", "native", "done", "failed"},
                      half : {"none", "pending", "done", "failed"}, of : 0 .. MaxCalls])
          /\ <<>> \in Seq(Numbers)
        OBVIOUS
    <2>2. CallsOK
        BY <2>1, <1>1 DEF CallsOK, CallRecord
    <2>3. RestOK
        <3>1. 0 \in 0 .. Len(calls)
            BY <1>1
        <3>2. /\ {lastOffer, lastAnswer, selected, mockOffer, attached} \subseteq 0 .. Len(calls)
              /\ {pendingLocal, pendingRemote, currentLocal, currentRemote} \subseteq 0 .. Len(calls)
            BY <3>1 DEF Init
        <3>3. chosen \subseteq Numbers /\ strayed \in BOOLEAN
            BY <1>1 DEF Init
        <3>4. intent = "stable" /\ native = "stable"
            BY DEF Init
        <3>5. QED BY <3>2, <3>3, <3>4 DEF RestOK
    <2>4. chain \in Seq(Ready)
        BY <1>1
    <2>5. QED BY <2>1, <2>2, <2>3, <2>4, <1>1 DEF Init, TypeOK, CallsOK, RestOK, CallRecord
<1>3. Legal
    BY <1>1 DEF Init, Legal, StableBefore, Reached
<1>4. OneAtATime /\ Places /\ InOrder /\ Awaited /\ Opened /\ About
    BY <1>1 DEF OneAtATime, Places, InOrder, Awaited, Opened, About
<1>5. ChainFits /\ ChosenFits
    BY <1>1 DEF ChainFits, ChosenFits
<1>6. NativeFits /\ NewestFits /\ SelectedFits /\ MockOfferFits
    BY <1>1 DEF Init, NativeFits, NewestFits, SelectedFits, MockOfferFits
<1>7. PendingFits /\ CurrentNamed /\ CurrentDone
    BY <1>1 DEF Init, PendingFits, CurrentNamed, CurrentDone
<1>8. Bounded
    BY <1>1, HooksAssumption DEF Bounded
<1>9. IInv
    BY <1>2, <1>3, <1>4, <1>5, <1>6, <1>7, <1>8 DEF IInv
<1>10. chain \in Seq(Ready)
    BY <1>1
<1>11. QED BY <1>2, <1>8, <1>9, <1>10 DEF Always, Base

\* Every step that does not stray keeps what holds of an application that has not.
LEMMA FollowedStep ==
    ASSUME Always, Base', [Next]_vars, ~strayed'
    PROVE  IInv'
<1>0. TypeOK /\ TypeOK' /\ Bounded' /\ (~strayed => IInv)
    BY DEF Always, Base
<1>1. CASE CreateOffer
    <2>1. ~strayed /\ Over
        BY <1>1, <1>0, StraysBoolean DEF CreateOffer, Over
    <2>2. QED BY <1>0, <1>1, <2>1, CreateOfferStep
<1>2. CASE SetRemoteAnswer
    <2>1. ~strayed /\ chosen = {}
        BY <1>2, <1>0, StraysBoolean DEF SetRemoteAnswer
    <2>2. QED BY <1>0, <1>2, <2>1, SetRemoteAnswerStep
<1>3. CASE SetRemoteOffer
    <2>1. ~strayed /\ Over
        BY <1>3, <1>0, StraysBoolean DEF SetRemoteOffer, Over
    <2>2. QED BY <1>0, <1>3, <2>1, SetRemoteOfferStep
<1>4. CASE CreateAnswer
    <2>1. ~strayed /\ chosen = {}
        BY <1>4, <1>0, StraysBoolean DEF CreateAnswer
    <2>2. QED BY <1>0, <1>4, <2>1, CreateAnswerStep
<1>5. CASE SetLocalChosen
    <2>1. ~strayed /\ chosen = {} /\ \A j \in Numbers : calls[j].kind \in Sets => Resolved(j)
        BY <1>5, <1>0, StraysBoolean DEF SetLocalChosen
    <2>2. QED BY <1>0, <1>5, <2>1, SetLocalChosenStep
<1>6. ASSUME NEW kind \in {"setLocalOffer", "setLocalAnswer"}, SetLocalForeign(kind) PROVE IInv'
    BY <1>6, <1>0, StraysBoolean DEF SetLocalForeign
<1>7. ASSUME NEW i \in Numbers, SetLocalOffer(i) PROVE IInv'
    <2>1. ~strayed /\ Over
        BY <1>7, <1>0, StraysBoolean DEF SetLocalOffer, Over
    <2>2. QED BY <1>0, <1>7, <2>1, SetLocalOfferStep
<1>8. ASSUME NEW i \in Numbers, SetLocalAnswer(i) PROVE IInv'
    <2>1. ~strayed /\ chosen = {}
        BY <1>8, <1>0, StraysBoolean DEF SetLocalAnswer
    <2>2. QED BY <1>0, <1>8, <2>1, SetLocalAnswerStep
<1>9. ASSUME NEW i \in Numbers, ChosenIsSet(i) PROVE IInv'
    <2>1. ~strayed
        BY <1>9 DEF ChosenIsSet
    <2>2. QED BY <1>0, <1>9, <2>1, ChosenIsSetStep
<1>10. ASSUME NEW i \in Numbers, MockOfferArrives(i) PROVE IInv'
    <2>1. ~strayed
        BY <1>10 DEF MockOfferArrives
    <2>2. QED BY <1>0, <1>10, <2>1, MockOfferArrivesStep
<1>11. ASSUME NEW i \in Numbers, PeerReplies(i) PROVE IInv'
    <2>1. ~strayed
        BY <1>11 DEF PeerReplies
    <2>2. QED BY <1>0, <1>11, <2>1, CreateRepliesStep, AnswerRepliesStep
<1>12. ASSUME NEW i \in Numbers, HalfReplies(i) PROVE IInv'
    <2>1. ~strayed
        BY <1>12 DEF HalfReplies
    <2>2. UNCHANGED <<intent, chosen, nativeVars, selected, mockOffer, attached>>
        BY <1>12 DEF HalfReplies
    <2>3. QED BY <1>0, <1>12, <2>1, <2>2, HalfStep DEF HalfReplies
<1>13. ASSUME NEW i \in Numbers, PeerRefuses(i) PROVE IInv'
    <2>1. /\ UNCHANGED <<intent, chosen, strayed, nativeVars, selected, mockOffer, shownVars, attached>>
          /\ \/ calls[i].at = "peer" /\ calls' = [j \in Numbers |-> Refused(j, i)]
             \/ calls[i].half = "pending" /\ Becomes(i, [calls[i] EXCEPT !.half = "failed"])
        BY <1>0, <1>13, RefusesEither
    <2>2. IInv
        BY <1>0, <2>1
    <2>3. UNCHANGED <<intent, chosen, nativeVars, selected, mockOffer, attached>>
        BY <2>1
    <2>4. QED BY <1>0, <2>1, <2>2, <2>3, RefusedStep, HalfStep
<1>14. CASE NativeRun
    <2>1. ~strayed
        BY <1>14 DEF NativeRun
    <2>2. QED BY <1>0, <1>14, <2>1, NativeRunStep
<1>15. CASE ControlOpens
    <2>1. ~strayed
        BY <1>15 DEF ControlOpens, appVars
    <2>2. QED BY <1>0, <1>15, <2>1, IdleStep DEF ControlOpens
<1>16. CASE UNCHANGED vars
    <2>1. ~strayed
        BY <1>16 DEF vars, appVars
    <2>2. QED BY <1>0, <1>16, <2>1, IdleStep DEF vars
<1>17. QED BY <1>1, <1>2, <1>3, <1>4, <1>5, <1>6, <1>7, <1>8, <1>9, <1>10, <1>11, <1>12, <1>13, <1>14, <1>15, <1>16 DEF Next

\* The inductive invariant holds of every behaviour.  Of every application: the types, and the
\* chain has no call that failed or waits before it asks for anything.  Of one that has not
\* strayed: it calls in a legal order, each call is where its kind and its negotiation allow,
\* the chain holds the native calls in order, and the native state, the selected description
\* and what is shown are what the calls that are over have left.
THEOREM AlwaysHolds == Spec => []Always
<1>1. Init => Always
    BY InitAlways
<1>2. Always /\ [Next]_vars => Always'
    <2>1. ASSUME Always, [Next]_vars PROVE Base'
        BY <2>1, BaseStep DEF Always
    <2>2. QED BY <2>1, FollowedStep DEF Always
<1>3. QED BY <1>1, <1>2, PTL DEF Spec

-----------------------------------------------------------------------------
(* The properties.                                                         *)

\* Every variable keeps its type, however the application calls and however many calls it
\* makes: the chain and the hooks name calls that were made, and a completing call has its
\* setAnswer() beside it unless it failed before it asked for one.
THEOREM TypeCorrect == Spec => []TypeOK
<1>1. Always => TypeOK
    BY DEF Always, Base
<1>2. QED BY <1>1, AlwaysHolds, PTL

\* hookWebRTCConnection never makes the native connection refuse an operation of an
\* application that has not strayed: it calls in a legal order, begins a negotiation when the
\* calls that completed the last one have resolved, lets the hooks choose a description when
\* every set call has resolved, and sets what the hooks made.  It may leave all its other
\* calls unawaited, and the requests to the mock peer are answered in any order or refused.
THEOREM NativeNeverRefusing == Spec => []NativeNeverRefuses
<1>1. Always => NativeNeverRefuses
    BY NativeAllowed DEF NativeNeverRefuses, Always
<1>2. QED BY <1>1, AlwaysHolds, PTL

\* While the application has not strayed, currentLocalDescription and
\* currentRemoteDescription are an offer and the answer to it, and a call that completed their
\* negotiation is over on both connections.
THEOREM CurrentFit == Spec => []CurrentFits
<1>1. Always => CurrentFits
    BY DEF Always, IInv, CurrentNamed, CurrentFits
<1>2. QED BY <1>1, AlwaysHolds, PTL

\* When all calls of an application that has not strayed are over, what
\* pendingLocalDescription and pendingRemoteDescription show is what the native connection is
\* at.
THEOREM ShownFit == Spec => []ShownFits
<1>1. Always => ShownFits
    <2> SUFFICES ASSUME IInv, \A i \in Numbers : Resolved(i)
                 PROVE  /\ pendingLocal # 0 <=> native = "have-local-offer"
                        /\ pendingRemote # 0 <=> native = "have-remote-offer"
        BY DEF ShownFits, Always
    <2> USE DEF IInv
    <2>0. Numbers \subseteq Nat /\ 0 \notin Numbers
        BY TypeFacts DEF Numbers
    <2>1. CASE Reached = "stable"
        <3>1. pendingLocal = 0 /\ pendingRemote = 0
            BY <2>1 DEF PendingFits
        <3>2. ASSUME NEW o \in Numbers, calls[o].kind \in Openers
              PROVE  \E c \in Numbers : o < c /\ calls[c].kind \in Completing /\ calls[c].at = "done"
            <4>1. IsSet(o)
                BY <3>2 DEF IsSet
            <4>2. \E c \in Numbers : o < c /\ calls[c].kind \in Completing
                BY <2>1, <3>2, <4>1, StableAllDone
            <4>3. QED BY <4>2, ResolvedDone
        <3>3. native = "stable"
            BY <3>2 DEF NativeFits
        <3>4. QED BY <3>1, <3>3
    <2>2. ASSUME NEW o \in Numbers, LastSet(o, Len(calls) + 1), calls[o].kind \in Openers
          PROVE  /\ IF calls[o].kind = "setLocalOffer" THEN pendingLocal = calls[o].of /\ pendingRemote = 0
                    ELSE pendingLocal = 0 /\ pendingRemote = o
                 /\ native = IF calls[o].kind = "setLocalOffer" THEN "have-local-offer" ELSE "have-remote-offer"
        <3>1. \A j \in Numbers : o < j => ~IsSet(j)
            BY <2>2, TypeFacts DEF LastSet
        <3>2. \A c \in Numbers : o < c => calls[c].kind \notin Completing
            BY <3>1 DEF IsSet
        <3>3. calls[o].at = "done"
            BY ResolvedDone
        <3>4. QED BY <2>2, <3>1, <3>2, <3>3 DEF PendingFits, NativeFits
    <2>3. CASE Reached = "offering"
        <3>1. PICK o \in Numbers : LastSet(o, Len(calls) + 1) /\ calls[o].kind = "setLocalOffer"
            BY <2>3 DEF Legal, OpenBefore
        <3>2. calls[o].of # 0
            BY <3>1, <2>0 DEF About
        <3>3. QED BY <2>2, <3>1, <3>2 DEF Openers
    <2>4. CASE Reached = "answering"
        <3>1. PICK o \in Numbers : LastSet(o, Len(calls) + 1) /\ calls[o].kind = "setRemoteOffer"
            BY <2>4 DEF Legal, OpenBefore
        <3>2. o # 0
            BY <2>0
        <3>3. QED BY <2>2, <3>1, <3>2 DEF Openers
    <2>5. QED BY <2>1, <2>3, <2>4 DEF TypeOK, Reached
<1>2. QED BY <1>1, AlwaysHolds, PTL

\* While nothing is under way on the native connection and the application has not strayed,
\* the attach-external message that is sent when the control channel opens names the
\* description of a completed negotiation.
THEOREM AttachNames == Spec => AttachNamesNegotiated
<1>1. Always => (ControlOpens /\ ~strayed /\ native = "stable" /\ chain = <<>> =>
                 \E i \in Numbers : calls[i].kind \in Completing /\ calls[i].of = attached' /\ calls[i].at = "done")
    <2> SUFFICES ASSUME IInv, ControlOpens, native = "stable", chain = <<>>
                 PROVE  \E i \in Numbers : calls[i].kind \in Completing /\ calls[i].of = selected /\ calls[i].at = "done"
        BY DEF ControlOpens, Always
    <2> USE DEF IInv
    <2>0. PICK n : n = Len(calls) + 1
        OBVIOUS
    <2>1. Numbers \subseteq Nat /\ n \in Nat /\ \A j \in Numbers : j < n
        BY <2>0, TypeFacts
    <2>2. PICK d \in Numbers : calls[d].kind \in Completing /\ calls[d].at = "done"
        BY DEF ControlOpens
    <2>3. \A j \in Numbers : calls[j].at # "native"
        <3>1. Len(chain) = 0
            OBVIOUS
        <3>2. QED BY <3>1 DEF ChainFits
    \* No opener is done that no completed call follows.
    <2>4. ASSUME NEW o \in Numbers, calls[o].kind \in Openers, calls[o].at = "done",
                 \A j \in Numbers : o < j /\ IsSet(j) => calls[j].at # "done"
          PROVE  FALSE
        BY <2>4 DEF NativeFits
    <2>5. CASE Reached = "stable"
        <3>1. PICK s \in Numbers : LastSet(s, n) /\ calls[s].kind \in Completing
            <4>1. IsSet(d) /\ d < n
                BY <2>1, <2>2 DEF IsSet
            <4>2. StableBefore(n)
                BY <2>0, <2>5 DEF Legal
            <4>3. QED BY <4>1, <4>2 DEF StableBefore
        <3>2. \A j \in Numbers : s < j => ~IsSet(j)
            BY <3>1, <2>1 DEF LastSet
        <3>3. calls[s].of = selected
            BY <3>1, <3>2 DEF SelectedFits, LastSet, Completing
        <3>4. calls[s].at = "done"
            <4> SUFFICES ASSUME calls[s].at # "done" PROVE FALSE
                OBVIOUS
            <4>1. PICK o \in Numbers : LastSet(o, s) /\ calls[o].kind \in Openers
                                       /\ calls[o].kind = IF calls[s].kind = "setLocalAnswer" THEN "setRemoteOffer" ELSE "setLocalOffer"
                BY <3>1 DEF Legal, OpenBefore, Openers, Completing
            <4>2. calls[o].at = "done"
                BY <2>3, <3>1, <4>1 DEF Opened, Places, Completing
            <4>3. ASSUME NEW j \in Numbers, o < j, IsSet(j) PROVE calls[j].at # "done"
                <5>1. ~(j < s) /\ ~(s < j)
                    BY <3>2, <4>1, <4>3 DEF LastSet
                <5>2. j \in Nat /\ s \in Nat
                    BY <2>1
                <5>3. j = s
                    BY <5>1, <5>2
                <5>4. QED BY <5>3
            <4>4. QED BY <2>4, <4>1, <4>2, <4>3
        <3>5. QED BY <3>1, <3>3, <3>4
    <2>6. CASE Reached = "offering"
        <3>1. PICK o \in Numbers : LastSet(o, n) /\ calls[o].kind = "setLocalOffer"
            BY <2>0, <2>6 DEF Legal, OpenBefore
        <3>2. \A j \in Numbers : o < j => ~IsSet(j)
            BY <3>1, <2>1 DEF LastSet
        <3>3. calls[o].at = "done"
            BY <2>3, <3>1 DEF Places
        <3>4. QED BY <2>4, <3>1, <3>2, <3>3 DEF Openers
    <2>7. CASE Reached = "answering"
        <3>1. PICK o \in Numbers : LastSet(o, n) /\ calls[o].kind = "setRemoteOffer"
            BY <2>0, <2>7 DEF Legal, OpenBefore
        <3>2. \A j \in Numbers : o < j => ~IsSet(j)
            BY <3>1, <2>1 DEF LastSet
        <3>3. d < o /\ IsSet(d)
            <4>1. ~(o < d) /\ d # o /\ IsSet(d)
                BY <3>1, <3>2, <2>2 DEF IsSet, Completing
            <4>2. d \in Nat /\ o \in Nat
                BY <2>1
            <4>3. QED BY <4>1, <4>2
        <3>4. StableBefore(o)
            BY <3>1 DEF Legal, Beginners, Openers
        <3>5. PICK s \in Numbers : LastSet(s, o) /\ calls[s].kind \in Completing
            BY <3>3, <3>4 DEF StableBefore
        <3>6. calls[s].at = "done"
            <4>1. s < o
                BY <3>5 DEF LastSet
            <4>2. Resolved(s)
                BY <3>5, <4>1 DEF OneAtATime
            <4>3. QED BY <4>2, ResolvedDone
        <3>7. ASSUME NEW j \in Numbers, s < j, IsSet(j) PROVE calls[j].kind = "setRemoteOffer"
            <4>1. ~(j < o) /\ ~(o < j)
                BY <3>2, <3>5, <3>7 DEF LastSet
            <4>2. j \in Nat /\ o \in Nat
                BY <2>1
            <4>3. j = o
                BY <4>1, <4>2
            <4>4. QED BY <3>1, <4>3
        <3>8. calls[s].of = selected
            BY <3>5, <3>7 DEF SelectedFits, LastSet, Completing
        <3>9. QED BY <3>5, <3>6, <3>8
    <2>8. QED BY <2>5, <2>6, <2>7 DEF TypeOK, Reached
<1>2. Always => [ControlOpens /\ ~strayed /\ native = "stable" /\ chain = <<>> =>
                 \E i \in Numbers : calls[i].kind \in Completing /\ calls[i].of = attached' /\ calls[i].at = "done"]_vars
    BY <1>1
<1>3. QED BY <1>2, AlwaysHolds, PTL DEF AttachNamesNegotiated

=============================================================================
