------------------------ MODULE Descriptions_proofs ------------------------
(* Proofs about Descriptions, for every set of connections and every       *)
(* number of calls.                                                        *)
EXTENDS Descriptions, RTCConnection_proofs, SequenceTheorems, WellFoundedInduction

CallRecord ==
    [conn : Conns, kind : Kinds, progress : {"waiting", "resumed", "delivered", "failed"},
     setup : {"none", "open", "visible", "closed"}]

\* The call that made its connection.
First(i) == \A j \in Numbers : calls[j].conn = calls[i].conn => i <= j

\* A callback is queued only when gathering is over.
ToldComplete == \A c \in told : gathering[c] = "complete"

\* The listener of a connection is one of its calls.
ListenerFits ==
    \A c \in Conns : listener[c] \in 0 .. Len(calls) /\ (listener[c] # 0 => calls[listener[c]].conn = c)

\* A call continues, and delivers, only when gathering is over.
ResumedComplete ==
    \A i \in Numbers :
        /\ calls[i].progress \in {"waiting", "resumed"} => calls[i].kind # "mirror-answer"
        /\ calls[i].progress \in {"resumed", "delivered"} /\ calls[i].kind # "mirror-answer"
              => gathering[calls[i].conn] = "complete"

\* The call that makes a connection starts its gathering.
MadeGathers ==
    \A c \in Conns :
        IF raw[c] = "none" THEN ~desc[c] /\ gathering[c] = "new" /\ Of(c) = {} ELSE gathering[c] # "new"

\* Nothing else is asked of a connection before its first description is delivered.
FirstDelivered ==
    \A i, j \in Numbers :
        First(i) /\ j # i /\ calls[j].conn = calls[i].conn => calls[i].progress = "delivered"

\* A set-up channel that is left open is that of a mirrored renegotiation, or that of a first
\* description which is not delivered, whose connection is not started or closed already.
SetupFits ==
    \A i \in Numbers :
        calls[i].setup \in {"open", "visible"} =>
            \/ calls[i].kind = "mirror-offer" /\ ~First(i)
            \/ /\ calls[i].setup = "open" /\ First(i) /\ calls[i].progress # "delivered"
               /\ native[calls[i].conn] \in {"new", "closed"}

\* The inductive invariant.
IInv ==
    /\ ConnIInv /\ TypeOK
    /\ ToldComplete /\ ListenerFits /\ ResumedComplete /\ MadeGathers
    /\ FirstDelivered /\ SetupFits

-----------------------------------------------------------------------------
(* Operators of the model.                                                 *)

\* What the type invariant says, with numbers of calls.
LEMMA TypeFacts ==
    ASSUME TypeOK
    PROVE  /\ calls \in Seq(CallRecord) /\ Len(calls) \in Nat
           /\ \A i \in Numbers : calls[i] \in CallRecord
           /\ raw \in [Conns -> {"none", "open", "null"}] /\ native \in [Conns -> NativeStates]
           /\ desc \in [Conns -> BOOLEAN] /\ told \subseteq Conns
           /\ gathering \in [Conns -> {"new", "in-progress", "complete"}]
           /\ listener \in [Conns -> 0 .. MaxCalls] /\ MaxCalls \in Nat
<1>1. calls \in Seq(CallRecord)
    BY DEF TypeOK, CallRecord
<1>2. Len(calls) \in Nat /\ \A i \in Numbers : calls[i] \in CallRecord
    BY <1>1 DEF Numbers
<1>3. QED BY <1>1, <1>2, DescriptionsAssumption DEF TypeOK, ConnTypeOK

\* A connection of which something was asked has a first call, which is Maker's.
LEMMA MakerIsFirst ==
    ASSUME TypeOK, NEW c \in Conns, Of(c) # {}
    PROVE  Maker(c) \in Of(c) /\ First(Maker(c))
<1> DEFINE S == Of(c)
<1>1. S \subseteq Nat /\ S # {}
    BY TypeFacts DEF Of, Numbers
<1>2. PICK i \in S : \A j \in S : i <= j
    <2> DEFINE R == {ss \in Nat \X Nat : ss[1] < ss[2]}
    <2>1. IsWellFoundedOn(R, Nat)
        BY NatLessThanWellFounded DEF OpToRel
    <2>2. \E i \in S : \A j \in S : ~(<<j, i>> \in R)
        <3> HIDE DEF R, S
        <3> QED BY <1>1, <2>1, WFMin
    <2>3. PICK i \in S : \A j \in S : ~(<<j, i>> \in R)
        BY <2>2
    <2>4. ASSUME NEW j \in S PROVE i <= j
        <3>1. i \in Nat /\ j \in Nat
            BY <1>1
        <3>2. ~(j < i)
            BY <2>3, <3>1
        <3>3. QED BY <3>1, <3>2
    <2>5. QED BY <2>4
<1>3. Maker(c) \in Of(c) /\ \A j \in Of(c) : Maker(c) <= j
    BY <1>2 DEF Maker
<1>4. QED BY <1>3 DEF First, Of

\* There is one first call.
LEMMA OneFirst ==
    ASSUME TypeOK, NEW i \in Numbers, First(i)
    PROVE  i = Maker(calls[i].conn)
<1>1. calls[i].conn \in Conns /\ i \in Of(calls[i].conn)
    BY TypeFacts DEF CallRecord, Of
<1>2. Maker(calls[i].conn) \in Of(calls[i].conn) /\ First(Maker(calls[i].conn))
    BY <1>1, MakerIsFirst
<1>3. i <= Maker(calls[i].conn) /\ Maker(calls[i].conn) <= i
    BY <1>2, <1>1 DEF First, Of
<1>4. QED BY <1>2, <1>3, TypeFacts DEF Of, Numbers

\* Of an exposed connection a description was delivered first.
LEMMA ExposedDelivered ==
    ASSUME TypeOK, NEW c \in Conns, Exposed(c), NEW i \in Numbers, First(i), calls[i].conn = c
    PROVE  calls[i].progress = "delivered"
BY OneFirst DEF Exposed

\* So it was when any was.
LEMMA SomeDelivered ==
    ASSUME TypeOK, FirstDelivered, NEW i \in Numbers, calls[i].progress = "delivered"
    PROVE  Exposed(calls[i].conn)
<1>1. calls[i].conn \in Conns /\ i \in Of(calls[i].conn)
    BY TypeFacts DEF CallRecord, Of
<1>2. Maker(calls[i].conn) \in Of(calls[i].conn) /\ First(Maker(calls[i].conn))
    BY <1>1, MakerIsFirst
<1>3. QED BY <1>1, <1>2 DEF FirstDelivered, Exposed, Of

\* Gathering only goes on, and what is told of is over.
LEMMA GatherGoesOn ==
    ASSUME TypeOK, NEW c \in Conns, NEW g \in {"in-progress", "complete"}, Gather(c, g)
    PROVE  /\ gathering' \in [Conns -> {"new", "in-progress", "complete"}]
           /\ gathering'[c] = g /\ \A d \in Conns \ {c} : gathering'[d] = gathering[d]
           /\ gathering[c] # "new" => g = gathering[c]
           /\ told' \subseteq told \cup {d \in {c} : g = "complete"} /\ told' \subseteq Conns
BY TypeFacts DEF Gather

-----------------------------------------------------------------------------
(* Steps that ask for a description.                                       *)

\* A call r, of number n, is asked of connection c.
Asked(c, r, n) ==
    /\ n = Len(calls) + 1 /\ n <= MaxCalls
    /\ calls' = Append(calls, r) /\ r.conn = c
    /\ listener' \in {listener, [listener EXCEPT ![c] = n]}
    /\ gathering' \in [Conns -> {"new", "in-progress", "complete"}]
    /\ \A d \in Conns : gathering[d] # "new" \/ d # c => gathering'[d] = gathering[d]
    /\ told' \subseteq Conns /\ \A d \in told' : d \in told \/ gathering'[d] = "complete"
    /\ raw'[c] # "none" /\ gathering'[c] # "new"
    /\ \A d \in Conns \ {c} : raw'[d] = raw[d] /\ desc'[d] = desc[d] /\ native'[d] = native[d]

\* What may be asked for: a call that waits, one that continues or is answered at once, or one
\* that throws.
Askable(c, r) ==
    /\ r.progress \in {"waiting", "resumed"} => r.kind # "mirror-answer"
    /\ r.progress \in {"resumed", "delivered"} /\ r.kind # "mirror-answer" => gathering'[c] = "complete"
    /\ r.setup \in {"none", "open"}

LEMMA AskedKeeps ==
    ASSUME IInv, TypeOK', NEW c \in Conns, NEW r \in CallRecord, NEW n \in Nat, Asked(c, r, n)
    PROVE  /\ Numbers' = Numbers \cup {n} /\ n \notin Numbers
           /\ \A i \in Numbers : calls'[i] = calls[i]
           /\ calls'[n] = r
           /\ ToldComplete' /\ ListenerFits' /\ MadeGathers'
<1> USE TypeFacts DEF IInv
<1>1. /\ Len(calls') = n /\ calls'[n] = r
      /\ \A i \in Numbers : calls'[i] = calls[i]
    BY DEF Asked, Numbers
<1>2. Numbers' = Numbers \cup {n} /\ n \notin Numbers
    <2>1. n = Len(calls) + 1
        BY DEF Asked
    <2>2. QED BY <1>1, <2>1 DEF Numbers
<1>3. ToldComplete'
    BY DEF ToldComplete, Asked
<1>4. ListenerFits'
    <2> SUFFICES ASSUME NEW d \in Conns
                 PROVE  listener'[d] \in 0 .. Len(calls') /\ (listener'[d] # 0 => calls'[listener'[d]].conn = d)
        BY DEF ListenerFits
    <2>1. listener[d] \in 0 .. Len(calls) /\ (listener[d] # 0 => calls[listener[d]].conn = d)
        BY DEF ListenerFits
    <2>2. CASE listener'[d] = listener[d]
        BY <2>1, <2>2, <1>1 DEF Numbers, Asked
    <2>3. CASE d = c /\ listener'[d] = n
        BY <2>3, <1>1 DEF Asked
    <2>4. QED BY <2>2, <2>3 DEF Asked
<1>5. MadeGathers'
    <2> SUFFICES ASSUME NEW d \in Conns
                 PROVE  IF raw'[d] = "none" THEN ~desc'[d] /\ gathering'[d] = "new" /\ Of(d)' = {} ELSE gathering'[d] # "new"
        BY DEF MadeGathers
    <2>1. CASE d = c
        BY <2>1 DEF Asked
    <2>2. CASE d # c
        <3>1. raw'[d] = raw[d] /\ desc'[d] = desc[d] /\ gathering'[d] = gathering[d] /\ r.conn # d
            BY <2>2 DEF Asked
        <3>2. Of(d)' = Of(d)
            BY <3>1, <1>1, <1>2 DEF Of
        <3>3. QED BY <3>1, <3>2 DEF MadeGathers
    <2>3. QED BY <2>1, <2>2
<1>6. QED BY <1>1, <1>2, <1>3, <1>4, <1>5

\* The first calls stay the first ones.
LEMMA AskedFirst ==
    ASSUME IInv, TypeOK', NEW c \in Conns, NEW r \in CallRecord, NEW n \in Nat, Asked(c, r, n)
    PROVE  /\ \A i \in Numbers : First(i)' <=> First(i)
           /\ First(n)' <=> Of(c) = {}
<1> USE TypeFacts
<1>0. TypeOK
    BY DEF IInv
<1>a. r.conn = c
    BY DEF Asked
<1>1. /\ Numbers' = Numbers \cup {n} /\ n \notin Numbers
      /\ \A i \in Numbers : calls'[i] = calls[i]
      /\ calls'[n] = r /\ r.conn = c
    BY AskedKeeps, <1>a
<1>2. \A i \in Numbers : i < n
    BY <1>0 DEF Numbers, Asked
<1>3. \A i \in Numbers : First(i)' <=> First(i)
    BY <1>1, <1>2 DEF First, Numbers
<1>4. First(n)' <=> Of(c) = {}
    <2>1. ASSUME First(n)', NEW i \in Of(c) PROVE FALSE
        BY <2>1, <1>0, <1>1, <1>2, SMTT(30) DEF First, Of, Numbers
    <2>2. ASSUME Of(c) = {} PROVE First(n)'
        <3>1. \A j \in Numbers : calls'[j].conn # r.conn
            BY <2>2, <1>1 DEF Of
        <3>2. QED BY <3>1, <1>1 DEF First
    <2>3. QED BY <2>1, <2>2 DEF Of
<1>5. QED BY <1>3, <1>4

\* The call that makes its connection.
LEMMA FirstAsked ==
    ASSUME IInv, ConnIInv', TypeOK', NEW c \in Conns, NEW r \in CallRecord, NEW n \in Nat, Asked(c, r, n), Askable(c, r),
           raw[c] = "none", r.setup = "open" => r.progress # "delivered" /\ native'[c] = "new"
    PROVE  IInv'
<1> USE TypeFacts DEF IInv
<1>a. r.conn = c
    BY DEF Asked
<1>1. /\ Numbers' = Numbers \cup {n} /\ n \notin Numbers
      /\ \A i \in Numbers : calls'[i] = calls[i]
      /\ calls'[n] = r /\ r.conn = c
      /\ ToldComplete' /\ ListenerFits' /\ MadeGathers'
    BY AskedKeeps, <1>a
<1>2. Of(c) = {} /\ \A i \in Numbers : calls[i].conn # c /\ calls[i].conn \in Conns
    BY DEF MadeGathers, Of, CallRecord
<1>3. (\A i \in Numbers : First(i)' <=> First(i)) /\ First(n)'
    BY <1>2, AskedFirst
<1>4. \A i \in Numbers : gathering'[calls[i].conn] = gathering[calls[i].conn]
                         /\ native'[calls[i].conn] = native[calls[i].conn]
    BY <1>2 DEF Asked
<1>5. ResumedComplete'
    <2> SUFFICES ASSUME NEW i \in Numbers'
                 PROVE  /\ calls'[i].progress \in {"waiting", "resumed"} => calls'[i].kind # "mirror-answer"
                        /\ calls'[i].progress \in {"resumed", "delivered"} /\ calls'[i].kind # "mirror-answer"
                              => gathering'[calls'[i].conn] = "complete"
        BY DEF ResumedComplete
    <2>1. CASE i = n
        BY <2>1, <1>1 DEF Askable
    <2>2. CASE i \in Numbers
        BY <2>2, <1>1, <1>4 DEF ResumedComplete
    <2>3. QED BY <2>1, <2>2, <1>1
<1>6. FirstDelivered'
    BY <1>1, <1>2, <1>3, SMTT(30) DEF FirstDelivered
<1>7. SetupFits'
    <2>1. r.setup \in {"none", "open"}
        BY DEF Askable
    <2> DEFINE Fits(i) ==
            calls[i].setup \in {"open", "visible"} =>
                \/ calls[i].kind = "mirror-offer" /\ ~First(i)
                \/ /\ calls[i].setup = "open" /\ First(i) /\ calls[i].progress # "delivered"
                   /\ native[calls[i].conn] \in {"new", "closed"}
    <2>2. ASSUME NEW i \in Numbers PROVE Fits(i)'
        <3>1. Fits(i)
            BY DEF SetupFits
        <3>2. QED BY <3>1, <1>1, <1>3, <1>4
    <2>3. Fits(n)'
        <3>1. calls'[n].setup = "open" => calls'[n].progress # "delivered" /\ native'[calls'[n].conn] = "new"
            BY <1>1
        <3>2. QED BY <3>1, <2>1, <1>1, <1>3
    <2>4. QED BY <2>2, <2>3, <1>1 DEF SetupFits
<1>8. QED BY <1>1, <1>5, <1>6, <1>7

\* A call on a connection that was exposed.
LEMMA LaterAsked ==
    ASSUME IInv, ConnIInv', TypeOK', NEW c \in Conns, NEW r \in CallRecord, NEW n \in Nat, Asked(c, r, n), Askable(c, r),
           Exposed(c), gathering[c] # "new", r.setup = "open" => r.kind = "mirror-offer"
    PROVE  IInv'
<1> USE TypeFacts DEF IInv
<1>a. r.conn = c
    BY DEF Asked
<1>1. /\ Numbers' = Numbers \cup {n} /\ n \notin Numbers
      /\ \A i \in Numbers : calls'[i] = calls[i]
      /\ calls'[n] = r /\ r.conn = c
      /\ ToldComplete' /\ ListenerFits' /\ MadeGathers'
    BY AskedKeeps, <1>a
<1>2. (\A i \in Numbers : First(i)' <=> First(i)) /\ ~First(n)'
    BY AskedFirst DEF Exposed
<1>3. \A i \in Numbers : calls[i].conn = c /\ First(i) => calls[i].progress = "delivered"
    BY ExposedDelivered
<1>4. \A i \in Numbers : gathering'[calls[i].conn] = gathering[calls[i].conn]
    BY DEF Asked, CallRecord
<1>5. \A i \in Numbers : calls[i].conn # c => native'[calls[i].conn] = native[calls[i].conn]
    BY DEF Asked, CallRecord
<1>6. ResumedComplete'
    <2> SUFFICES ASSUME NEW i \in Numbers'
                 PROVE  /\ calls'[i].progress \in {"waiting", "resumed"} => calls'[i].kind # "mirror-answer"
                        /\ calls'[i].progress \in {"resumed", "delivered"} /\ calls'[i].kind # "mirror-answer"
                              => gathering'[calls'[i].conn] = "complete"
        BY DEF ResumedComplete
    <2>1. CASE i = n
        BY <2>1, <1>1 DEF Askable
    <2>2. CASE i \in Numbers
        BY <2>2, <1>1, <1>4 DEF ResumedComplete
    <2>3. QED BY <2>1, <2>2, <1>1
<1>7. FirstDelivered'
    BY <1>1, <1>2, <1>3 DEF FirstDelivered
<1>8. SetupFits'
    <2>1. r.setup \in {"none", "open"}
        BY DEF Askable
    <2>2. QED BY <2>1, <1>1, <1>2, <1>3, <1>5, SMTT(30) DEF SetupFits
<1>9. QED BY <1>1, <1>6, <1>7, <1>8

-----------------------------------------------------------------------------
(* The kinds of description.                                               *)

\* What is asked is one call of the connection, whatever its kind, unless nothing is asked.
LEMMA AwaitAsks ==
    ASSUME TypeOK, NEW c \in Conns, NEW kind \in Kinds, NEW setup \in {"none", "open"},
           Await(c, kind, setup), Len(calls) < MaxCalls, raw'[c] # "none", kind # "mirror-answer",
           \A d \in Conns \ {c} : raw'[d] = raw[d] /\ desc'[d] = desc[d] /\ native'[d] = native[d]
    PROVE  \E r \in CallRecord :
             /\ Asked(c, r, Len(calls) + 1) /\ Askable(c, r)
             /\ r.kind = kind /\ r.setup = setup /\ r.progress # "delivered"
<1> USE TypeFacts
<1>1. PICK g \in {"in-progress", "complete"} :
         /\ Gather(c, g)
         /\ listener' = [listener EXCEPT ![c] = Len(calls) + 1]
         /\ Record(c, kind, IF g = "complete" THEN "resumed" ELSE "waiting", setup)
    BY DEF Await
<1> DEFINE r == [conn |-> c, kind |-> kind,
                 progress |-> IF g = "complete" THEN "resumed" ELSE "waiting", setup |-> setup]
<1>2. r \in CallRecord
    BY DEF CallRecord
<1>3. calls' = Append(calls, r)
    BY <1>1 DEF Record
<1>4. /\ gathering' \in [Conns -> {"new", "in-progress", "complete"}]
      /\ gathering'[c] = g /\ \A d \in Conns \ {c} : gathering'[d] = gathering[d]
      /\ gathering[c] # "new" => g = gathering[c]
      /\ told' \subseteq told \cup {d \in {c} : g = "complete"} /\ told' \subseteq Conns
    BY <1>1, GatherGoesOn
<1>5. Asked(c, r, Len(calls) + 1)
    <2>1. r.conn = c /\ Len(calls) + 1 <= MaxCalls
        OBVIOUS
    <2> HIDE DEF r
    <2>2. \A d \in Conns : gathering[d] # "new" \/ d # c => gathering'[d] = gathering[d]
        BY <1>4
    <2>3. \A d \in told' : d \in told \/ gathering'[d] = "complete"
        BY <1>4
    <2>4. QED BY <1>1, <1>3, <1>4, <2>1, <2>2, <2>3 DEF Asked
<1>6. Askable(c, r)
    BY <1>4 DEF Askable
<1>7. QED BY <1>2, <1>5, <1>6

LEMMA BuildAsks ==
    ASSUME TypeOK, NEW c \in Conns, NEW kind \in Kinds, Build(c, kind), Len(calls) < MaxCalls,
           raw'[c] # "none", gathering[c] = "new" => ~desc[c],
           \A d \in Conns \ {c} : raw'[d] = raw[d] /\ desc'[d] = desc[d] /\ native'[d] = native[d]
    PROVE  \E r \in CallRecord :
             /\ Asked(c, r, Len(calls) + 1) /\ Askable(c, r)
             /\ gathering[c] = "new" /\ r.setup = "open" => r.kind \notin Answers /\ r.progress # "delivered"
             /\ r.kind = kind
             /\ gathering[c] # "new" /\ r.setup = "open" => r.kind = "mirror-offer"
<1> USE TypeFacts DEF Kinds, Answers
<1>1. CASE kind = "build-offer"
    <2> DEFINE setup == IF gathering[c] = "new" THEN "open" ELSE "none"
    <2>1. setup \in {"none", "open"} /\ Await(c, "build-offer", setup)
        BY <1>1 DEF Build, BuildOffer
    <2>2. setup = "open" => gathering[c] = "new"
        OBVIOUS
    <2> HIDE DEF setup
    <2>3. "build-offer" \in Kinds
        OBVIOUS
    <2>4. PICK r \in CallRecord :
             /\ Asked(c, r, Len(calls) + 1) /\ Askable(c, r)
             /\ r.kind = "build-offer" /\ r.setup = setup /\ r.progress # "delivered"
        BY <2>1, <2>3, AwaitAsks
    <2>5. r.kind \notin Answers /\ (r.setup = "open" => gathering[c] = "new")
        BY <2>4, <2>2
    <2>6. QED BY <1>1, <2>4, <2>5
<1>2. CASE kind = "build-answer"
    BY <1>2, AwaitAsks DEF Build, BuildAnswer
<1>3. CASE kind = "mirror-offer"
    <2>1. PICK setup \in {"none", "open"} :
             \/ Await(c, "mirror-offer", setup)
             \/ /\ desc[c]
                /\ Record(c, "mirror-offer", "failed", setup)
                /\ UNCHANGED <<gathering, told, listener>>
        BY <1>3 DEF Build, MirrorOffer
    <2>2. CASE Await(c, "mirror-offer", setup)
        <3>1. "mirror-offer" \in Kinds
            OBVIOUS
        <3>2. PICK r \in CallRecord :
                 /\ Asked(c, r, Len(calls) + 1) /\ Askable(c, r)
                 /\ r.kind = "mirror-offer" /\ r.setup = setup /\ r.progress # "delivered"
            BY <2>2, <3>1, AwaitAsks, ZenonT(40)
        <3>3. QED BY <1>3, <3>2
    <2>3. CASE /\ desc[c]
               /\ Record(c, "mirror-offer", "failed", setup)
               /\ UNCHANGED <<gathering, told, listener>>
        <3> DEFINE r == [conn |-> c, kind |-> "mirror-offer", progress |-> "failed", setup |-> setup]
        <3>1. r \in CallRecord /\ calls' = Append(calls, r)
            BY <2>3 DEF Record, CallRecord
        <3>2. Asked(c, r, Len(calls) + 1) /\ Askable(c, r)
            <4>1. gathering[c] # "new" /\ gathering' = gathering /\ told' = told /\ listener' = listener
                BY <2>3
            <4>2. r.conn = c /\ r.progress = "failed" /\ r.kind = "mirror-offer" /\ r.setup = setup
                OBVIOUS
            <4>3. Len(calls) + 1 <= MaxCalls
                OBVIOUS
            <4> HIDE DEF r
            <4>4. Asked(c, r, Len(calls) + 1)
                BY <3>1, <4>1, <4>2, <4>3 DEF Asked
            <4>5. Askable(c, r)
                BY <4>2 DEF Askable
            <4>6. QED BY <4>4, <4>5
        <3>3. QED BY <1>3, <3>1, <3>2, <2>3
    <2>4. QED BY <2>1, <2>2, <2>3
<1>4. CASE kind = "mirror-answer"
    <2>1. PICK g \in {"in-progress", "complete"}, result \in {"delivered", "failed"} :
             Gather(c, g) /\ Record(c, "mirror-answer", result, "none") /\ listener' = listener
        BY <1>4 DEF Build, MirrorAnswer
    <2> DEFINE r == [conn |-> c, kind |-> "mirror-answer", progress |-> result, setup |-> "none"]
    <2>2. r \in CallRecord /\ calls' = Append(calls, r)
        BY <2>1 DEF Record, CallRecord
    <2>3. /\ gathering' \in [Conns -> {"new", "in-progress", "complete"}]
          /\ gathering'[c] = g /\ \A d \in Conns \ {c} : gathering'[d] = gathering[d]
          /\ gathering[c] # "new" => g = gathering[c]
          /\ told' \subseteq told \cup {d \in {c} : g = "complete"} /\ told' \subseteq Conns
        BY <2>1, GatherGoesOn
    <2>4. Asked(c, r, Len(calls) + 1) /\ Askable(c, r)
        BY <2>1, <2>2, <2>3 DEF Asked, Askable
    <2>5. QED BY <1>4, <2>2, <2>4
<1>5. QED BY <1>1, <1>2, <1>3, <1>4

-----------------------------------------------------------------------------
(* Steps that ask nothing.                                                 *)

\* Every connection that was made stays so, and one that was started is not new again.
ConnsGoOn ==
    \A c \in Conns :
        /\ raw'[c] = "none" <=> raw[c] = "none"
        /\ raw[c] = "none" => desc'[c] = desc[c]
        /\ native[c] = "closed" => native'[c] = "closed"
        /\ native[c] = "new" => native'[c] \in {"new", "closed"} \/ Exposed(c)

\* The calls stay those they were.  Call i goes from one progress to the next, as it may.
CallsGoOn ==
    /\ Len(calls') = Len(calls)
    /\ \A i \in Numbers :
          /\ calls'[i].conn = calls[i].conn /\ calls'[i].kind = calls[i].kind
          /\ calls[i].progress = "delivered" => calls'[i].progress = "delivered"
          /\ calls'[i].progress = calls[i].progress
                \/ calls'[i].progress = "failed"
                \/ (calls[i].progress = "resumed" /\ calls'[i].progress = "delivered"
                      /\ calls'[i].setup \in {"none", "closed"})
                \/ (calls[i].progress = "waiting" /\ calls'[i].progress = "resumed"
                      /\ gathering[calls[i].conn] = "complete" /\ calls[i].kind # "mirror-answer")
          /\ calls'[i].setup \in {"none", "closed"} \/ calls'[i].setup = calls[i].setup
                \/ (calls[i].setup = "open" /\ calls'[i].setup = "visible"
                      /\ native[calls[i].conn] \notin {"new", "closed"})

LEMMA GoesOn ==
    ASSUME IInv, ConnIInv', TypeOK', ConnsGoOn, CallsGoOn, listener' = listener,
           \A c \in Conns : gathering'[c] = gathering[c] \/ (gathering[c] # "new" /\ gathering'[c] = "complete"),
           \A c \in told' : c \in told \/ gathering'[c] = "complete"
    PROVE  IInv'
<1> USE TypeFacts DEF IInv
<1>1. Numbers' = Numbers
    BY DEF Numbers, CallsGoOn
<1>2. \A i \in Numbers : calls[i].conn \in Conns /\ calls'[i].conn = calls[i].conn
                         /\ calls'[i].kind = calls[i].kind
    BY DEF CallsGoOn, CallRecord
<1>3. \A i \in Numbers : First(i)' <=> First(i)
    BY <1>1, <1>2 DEF First
<1>4. ToldComplete'
    BY DEF ToldComplete
<1>5. ListenerFits'
    <2>1. Len(calls') = Len(calls)
        BY DEF CallsGoOn
    <2>2. \A i \in 1 .. Len(calls) : calls'[i].conn = calls[i].conn
        BY <1>2 DEF Numbers
    <2>3. QED BY <2>1, <2>2, SMTT(30) DEF ListenerFits
<1>6. ResumedComplete'
    <2> SUFFICES ASSUME NEW i \in Numbers
                 PROVE  /\ calls'[i].progress \in {"waiting", "resumed"} => calls[i].kind # "mirror-answer"
                        /\ calls'[i].progress \in {"resumed", "delivered"} /\ calls[i].kind # "mirror-answer"
                              => gathering'[calls[i].conn] = "complete"
        BY <1>1, <1>2 DEF ResumedComplete
    <2>1. gathering[calls[i].conn] = "complete" => gathering'[calls[i].conn] = "complete"
        BY <1>2
    <2>2. QED BY <2>1 DEF CallsGoOn, ResumedComplete
<1>7. MadeGathers'
    <2> SUFFICES ASSUME NEW c \in Conns
                 PROVE  IF raw'[c] = "none" THEN ~desc'[c] /\ gathering'[c] = "new" /\ Of(c)' = {} ELSE gathering'[c] # "new"
        BY DEF MadeGathers
    <2>1. Of(c)' = Of(c)
        BY <1>1, <1>2 DEF Of
    <2>2. QED BY <2>1 DEF MadeGathers, ConnsGoOn
<1>8. FirstDelivered'
    BY <1>1, <1>2, <1>3 DEF FirstDelivered, CallsGoOn
<1>9. SetupFits'
    <2> DEFINE Fits(i) ==
            calls[i].setup \in {"open", "visible"} =>
                \/ calls[i].kind = "mirror-offer" /\ ~First(i)
                \/ /\ calls[i].setup = "open" /\ First(i) /\ calls[i].progress # "delivered"
                   /\ native[calls[i].conn] \in {"new", "closed"}
    <2>1. ASSUME NEW i \in Numbers PROVE Fits(i)'
        <3>1. CASE calls'[i].setup \notin {"open", "visible"}
            BY <3>1
        <3>2. CASE calls[i].kind = "mirror-offer" /\ ~First(i)
            BY <3>2, <1>2, <1>3
        <3>3. CASE calls'[i].setup \in {"open", "visible"} /\ ~(calls[i].kind = "mirror-offer" /\ ~First(i))
            <4>1. calls[i].setup \in {"open", "visible"}
                BY <3>3 DEF CallsGoOn
            <4>2. /\ calls[i].setup = "open" /\ First(i) /\ calls[i].progress # "delivered"
                  /\ native[calls[i].conn] \in {"new", "closed"}
                BY <3>3, <4>1 DEF SetupFits
            <4>3. calls'[i].setup = "open" /\ calls'[i].progress # "delivered"
                BY <3>3, <4>2 DEF CallsGoOn
            <4>4. ~Exposed(calls[i].conn)
                BY <4>2, <1>2, ExposedDelivered
            <4>5. native'[calls[i].conn] \in {"new", "closed"}
                BY <4>2, <4>4, <1>2 DEF ConnsGoOn
            <4>6. QED BY <4>2, <4>3, <4>5, <1>2, <1>3
        <3>4. QED BY <3>1, <3>2, <3>3
    <2>2. QED BY <2>1, <1>1 DEF SetupFits
<1>10. QED BY <1>4, <1>5, <1>6, <1>7, <1>8, <1>9

-----------------------------------------------------------------------------
(* The steps.                                                              *)

LEMMA InitIInv == Init => IInv
<1> SUFFICES ASSUME Init PROVE IInv
    OBVIOUS
<1>1. ConnIInv
    BY ConnIInvInit DEF Init
<1>2. calls = <<>> /\ Numbers = {}
    BY DEF Init, Numbers
<1>3. TypeOK
    BY <1>1, <1>2, DescriptionsAssumption DEF Init, TypeOK, ConnIInv
<1>4. ToldComplete /\ ListenerFits /\ MadeGathers
    BY <1>2 DEF Init, NoConns, ToldComplete, ListenerFits, MadeGathers, Of
<1>5. ResumedComplete /\ FirstDelivered /\ SetupFits
    BY <1>2 DEF ResumedComplete, FirstDelivered, SetupFits
<1>6. QED BY <1>1, <1>3, <1>4, <1>5 DEF IInv

\* A call more keeps the types.
LEMMA AskedTypes ==
    ASSUME TypeOK, ConnTypeOK', NEW c \in Conns, NEW r \in CallRecord, Asked(c, r, Len(calls) + 1)
    PROVE  TypeOK'
<1> USE TypeFacts
<1>1. calls' \in Seq(CallRecord)
    BY DEF Asked
<1>2. listener' \in [Conns -> 0 .. MaxCalls]
    BY DEF Asked
<1>3. gathering' \in [Conns -> {"new", "in-progress", "complete"}] /\ told' \subseteq Conns
    BY DEF Asked
<1>4. ASSUME NEW d \in Conns, listener'[d] # 0 PROVE gathering'[d] # "new"
    <2>1. CASE d = c
        BY <2>1 DEF Asked
    <2>2. CASE d # c
        <3>1. listener'[d] = listener[d] /\ (gathering[d] # "new" => gathering'[d] = gathering[d])
            BY <2>2 DEF Asked
        <3>2. QED BY <3>1, <1>4 DEF TypeOK
    <2>3. QED BY <2>1, <2>2
<1>5. QED BY <1>1, <1>2, <1>3, <1>4 DEF TypeOK, CallRecord

\* New values for calls that are there keep the types.
LEMMA SameCalls ==
    ASSUME TypeOK, NEW f, f = [i \in Numbers |-> f[i]], \A i \in Numbers : f[i] \in CallRecord
    PROVE  f \in Seq(CallRecord) /\ Len(f) = Len(calls)
<1>1. Len(calls) \in Nat /\ f \in [1 .. Len(calls) -> CallRecord]
    BY TypeFacts DEF Numbers
<1>2. f \in Seq(CallRecord)
    BY <1>1, SeqDef
<1>3. DOMAIN f = 1 .. Len(calls)
    BY <1>1
<1>4. QED BY <1>1, <1>2, <1>3

LEMMA FirstCallStep ==
    ASSUME IInv, NEW c \in Conns, NEW kind \in Kinds, FirstCall(c, kind)
    PROVE  IInv'
<1> USE DEF IInv
<1>1. /\ raw[c] = "none" /\ native[c] = "new" /\ pend[c] = <<>> /\ ~desc[c] /\ Len(calls) < MaxCalls
      /\ raw \in [Conns -> {"none", "open", "null"}] /\ native \in [Conns -> NativeStates]
      /\ desc \in [Conns -> BOOLEAN] /\ pend \in [Conns -> Seq(NativeStates)]
    BY DEF FirstCall, ConnIInv, NothingEarly, MadeGathers, ConnTypeOK
<1>2. /\ raw' = [raw EXCEPT ![c] = "open"]
      /\ desc' = [desc EXCEPT ![c] = kind \in Answers]
      /\ native' = [native EXCEPT ![c] = IF kind \in Answers THEN "connecting" ELSE native[c]]
      /\ pend' = pend /\ mirror' = mirror /\ Build(c, kind)
    BY <1>1 DEF FirstCall
<1>3. /\ raw'[c] = "open" /\ native'[c] \in {"new", "connecting"}
      /\ kind \notin Answers => native'[c] = "new"
      /\ \A d \in Conns \ {c} : raw'[d] = raw[d] /\ desc'[d] = desc[d] /\ native'[d] = native[d]
    BY <1>1, <1>2
<1>4. ConnTypeOK'
    BY <1>1, <1>2 DEF ConnTypeOK, ConnIInv, NativeStates
<1>5. ConnIInv'
    <2>1. ReleasedIsClosed'
        BY <1>3 DEF ConnIInv, ReleasedIsClosed
    <2>2. QueueCatchesUp'
        BY <1>1, <1>2, <1>3 DEF ConnIInv, QueueCatchesUp
    <2>3. NothingEarly'
        BY <1>1, <1>2, <1>3 DEF ConnIInv, NothingEarly
    <2>4. QED BY <1>4, <2>1, <2>2, <2>3 DEF ConnIInv
<1>6. PICK r \in CallRecord :
         /\ Asked(c, r, Len(calls) + 1) /\ Askable(c, r)
         /\ gathering[c] = "new" /\ r.setup = "open" => r.kind \notin Answers /\ r.progress # "delivered"
         /\ r.kind = kind
         /\ gathering[c] # "new" /\ r.setup = "open" => r.kind = "mirror-offer"
    BY <1>1, <1>2, <1>3, BuildAsks
<1>7. gathering[c] = "new"
    BY <1>1 DEF MadeGathers
<1>8. r.setup = "open" => r.progress # "delivered" /\ native'[c] = "new"
    BY <1>3, <1>6, <1>7
<1>9. TypeOK'
    BY <1>4, <1>6, AskedTypes
<1>10. Len(calls) + 1 \in Nat
    BY TypeFacts
<1>11. QED BY <1>1, <1>5, <1>6, <1>8, <1>9, <1>10, FirstAsked

\* The steps of the connections that are not the making of one.
LEMMA ConnsStep ==
    ASSUME IInv, \/ UNCHANGED connVars
                 \/ \E c \in Conns : \/ SetRemoteDescription(c) \/ StateCallback(c) \/ Close({c})
                                     \/ \E s \in NativeStates : NativeChange(c, s)
    PROVE  /\ ConnIInv'
           /\ \A c \in Conns : /\ raw'[c] = "none" <=> raw[c] = "none"
                               /\ native[c] = "closed" => native'[c] = "closed"
<1> USE DEF IInv
<1>1. [ConnNext]_connVars
    BY DEF ConnNext
<1>2. ConnIInv'
    BY <1>1, ConnIInvStep
<1>3. ASSUME NEW c \in Conns PROVE raw'[c] = "none" <=> raw[c] = "none"
    <2>1. raw[c] # "none" => raw'[c] # "none"
        BY <1>1, NoWayBack DEF ConnIInv
    <2>2. raw[c] = "none" => raw'[c] = "none"
        BY ZenonT(40) DEF connVars, SetRemoteDescription, StateCallback, Close, Drop, NativeChange, ConnIInv, ConnTypeOK
    <2>3. QED BY <2>1, <2>2
<1>4. ASSUME NEW c \in Conns, native[c] = "closed" PROVE native'[c] = "closed"
    BY <1>4, ZenonT(40) DEF connVars, SetRemoteDescription, StateCallback, Close, Drop, NativeChange, NativeEdges, ConnIInv, ConnTypeOK
<1>5. QED BY <1>2, <1>3, <1>4

LEMMA LaterCallStep ==
    ASSUME IInv, NEW c \in Conns, NEW kind \in Kinds, LaterCall(c, kind)
    PROVE  IInv'
<1> USE DEF IInv
<1>1. Exposed(c) /\ raw[c] = "open" /\ Len(calls) < MaxCalls /\ Build(c, kind)
    BY DEF LaterCall
<1>2. UNCHANGED connVars \/ SetRemoteDescription(c)
    BY DEF LaterCall
<1>3. ConnIInv' /\ raw'[c] # "none" /\ gathering[c] # "new"
    BY <1>1, <1>2, ConnsStep DEF MadeGathers
<1>4. \A d \in Conns \ {c} : raw'[d] = raw[d] /\ desc'[d] = desc[d] /\ native'[d] = native[d]
    BY <1>2 DEF connVars, SetRemoteDescription, ConnIInv, ConnTypeOK
<1>5. PICK r \in CallRecord :
         /\ Asked(c, r, Len(calls) + 1) /\ Askable(c, r)
         /\ gathering[c] = "new" /\ r.setup = "open" => r.kind \notin Answers /\ r.progress # "delivered"
         /\ r.kind = kind
         /\ gathering[c] # "new" /\ r.setup = "open" => r.kind = "mirror-offer"
    BY <1>1, <1>3, <1>4, BuildAsks
<1>6. TypeOK'
    BY <1>3, <1>5, AskedTypes DEF ConnIInv
<1>7. Len(calls) + 1 \in Nat
    BY TypeFacts
<1>8. QED BY <1>1, <1>3, <1>5, <1>6, <1>7, LaterAsked

\* A call that throws at once.
LEMMA RefusedAsks ==
    ASSUME IInv, ConnIInv', NEW c \in Conns, NEW kind \in Kinds, Exposed(c), raw[c] # "none",
           Len(calls) < MaxCalls,
           Record(c, kind, "failed", "none"), UNCHANGED <<raw, native, gathering, told, listener>>,
           \A d \in Conns \ {c} : desc'[d] = desc[d]
    PROVE  IInv'
<1> USE TypeFacts DEF IInv
<1> DEFINE r == [conn |-> c, kind |-> kind, progress |-> "failed", setup |-> "none"]
<1>1. r \in CallRecord /\ calls' = Append(calls, r) /\ r.conn = c /\ r.progress = "failed" /\ r.setup = "none"
    BY DEF CallRecord, Record
<1>2. gathering[c] # "new"
    BY DEF MadeGathers
<1>3. Len(calls) + 1 \in Nat /\ Len(calls) + 1 <= MaxCalls
    OBVIOUS
<1> HIDE DEF r
<1>4. Asked(c, r, Len(calls) + 1)
    BY <1>1, <1>2, <1>3 DEF Asked
<1>5. Askable(c, r)
    BY <1>1 DEF Askable
<1>6. TypeOK'
    BY <1>1, <1>4, AskedTypes DEF ConnIInv
<1>7. QED BY <1>1, <1>2, <1>3, <1>4, <1>5, <1>6, LaterAsked

LEMMA OfferRefusedStep ==
    ASSUME IInv, NEW c \in Conns, OfferRefused(c)
    PROVE  IInv'
<1> USE DEF IInv
<1>1. /\ Exposed(c) /\ raw[c] = "open" /\ Len(calls) < MaxCalls
      /\ desc' = [desc EXCEPT ![c] = TRUE]
      /\ Record(c, "build-answer", "failed", "none")
      /\ UNCHANGED <<raw, native, pend, mirror, gathering, told, listener>>
    BY DEF OfferRefused, RefuseDescription
<1>2. ConnIInv'
    BY <1>1 DEF ConnIInv, ConnTypeOK, ReleasedIsClosed, QueueCatchesUp, NothingEarly
<1>3. \A d \in Conns \ {c} : desc'[d] = desc[d]
    BY <1>1 DEF ConnIInv, ConnTypeOK
<1>4. "build-answer" \in Kinds
    BY DEF Kinds
<1>5. QED BY <1>1, <1>2, <1>3, <1>4, RefusedAsks

LEMMA CallOnClosedStep ==
    ASSUME IInv, NEW c \in Conns, NEW kind \in Kinds, CallOnClosed(c, kind)
    PROVE  IInv'
<1> USE DEF IInv
<1>1. /\ Exposed(c) /\ raw[c] = "null" /\ Len(calls) < MaxCalls
      /\ Record(c, kind, "failed", "none")
      /\ UNCHANGED <<connVars, gathering, told, listener>>
    BY DEF CallOnClosed
<1>2. ConnIInv'
    BY <1>1, ConnsStep
<1>3. QED BY <1>1, <1>2, RefusedAsks DEF connVars

\* completeOffer() comes when a description was delivered, and whatever else happens to a
\* connection does not start it.
LEMMA ElsewhereStep ==
    ASSUME IInv, \/ UNCHANGED vars
                 \/ Elsewhere
                 \/ \E c \in Conns : CompleteOffer(c)
    PROVE  IInv'
<1> USE TypeFacts DEF IInv
<1>1. UNCHANGED descVars
    BY DEF vars, Elsewhere, CompleteOffer
<1>2. \/ UNCHANGED connVars
      \/ \E c \in Conns : \/ SetRemoteDescription(c) \/ StateCallback(c) \/ Close({c})
                          \/ \E s \in NativeStates : NativeChange(c, s)
    BY DEF vars, Elsewhere, CompleteOffer
<1>3. /\ ConnIInv'
      /\ \A c \in Conns : /\ raw'[c] = "none" <=> raw[c] = "none"
                          /\ native[c] = "closed" => native'[c] = "closed"
    BY <1>2, ConnsStep
<1>4. ASSUME NEW c \in Conns, native[c] = "new"
      PROVE  native'[c] \in {"new", "closed"} \/ Exposed(c)
    <2>1. CASE \E d \in Conns : CompleteOffer(d)
        <3>1. PICK d \in Conns : CompleteOffer(d)
            BY <2>1
        <3>2. CASE d = c
            <4>1. PICK i \in Numbers : calls[i].conn = c /\ calls[i].progress = "delivered"
                BY <3>1, <3>2 DEF CompleteOffer, Of
            <4>2. QED BY <4>1, SomeDelivered
        <3>3. CASE d # c
            BY <3>1, <3>3, <1>4 DEF CompleteOffer, SetRemoteDescription
        <3>4. QED BY <3>2, <3>3
    <2>2. CASE Elsewhere \/ UNCHANGED vars
        BY <2>2, <1>4 DEF Elsewhere, vars, connVars, NativeChange, NativeEdges, Close, StateCallback, Drop
    <2>3. QED BY <2>1, <2>2
<1>5. ASSUME NEW c \in Conns, raw[c] = "none" PROVE desc'[c] = desc[c]
    BY <1>2, <1>5 DEF connVars, SetRemoteDescription, Close, StateCallback, NativeChange, MadeGathers
<1>6. ConnsGoOn
    BY <1>3, <1>4, <1>5 DEF ConnsGoOn
<1>7. CallsGoOn
    BY <1>1 DEF CallsGoOn, descVars
<1>8. TypeOK'
    BY <1>1, <1>3 DEF TypeOK, ConnIInv, descVars
<1>9. QED BY <1>1, <1>3, <1>6, <1>7, <1>8, GoesOn DEF descVars, ToldComplete

\* Gathering ends, or a connection that is closed drops its callback.
LEMMA GatheringStep ==
    ASSUME IInv, NEW c \in Conns, GatheringEnds(c) \/ CallbackDropped(c)
    PROVE  IInv'
<1> USE TypeFacts DEF IInv
<1>1. UNCHANGED <<connVars, listener, calls>>
    BY DEF GatheringEnds, CallbackDropped
<1>2. ConnIInv'
    BY <1>1, ConnsStep
<1>3. ConnsGoOn
    BY <1>1 DEF ConnsGoOn, connVars
<1>4. CallsGoOn
    BY <1>1 DEF CallsGoOn
<1>5. /\ gathering' \in [Conns -> {"new", "in-progress", "complete"}] /\ told' \subseteq Conns
      /\ \A d \in Conns : gathering'[d] = gathering[d] \/ (gathering[d] # "new" /\ gathering'[d] = "complete")
      /\ \A d \in told' : d \in told \/ gathering'[d] = "complete"
    BY DEF GatheringEnds, CallbackDropped
<1>6. TypeOK'
    BY <1>1, <1>2, <1>5 DEF TypeOK, ConnIInv
<1>7. QED BY <1>1, <1>2, <1>3, <1>4, <1>5, <1>6, GoesOn

\* The callback resolves a wait.
LEMMA GatheringCallbackStep ==
    ASSUME IInv, NEW c \in Conns, GatheringCallback(c)
    PROVE  IInv'
<1> USE TypeFacts DEF IInv
<1>1. /\ c \in told /\ told' = told \ {c} /\ UNCHANGED <<connVars, gathering, listener>>
      /\ calls' = [i \in Numbers |-> IF i = listener[c] /\ calls[i].progress = "waiting"
                                     THEN [calls[i] EXCEPT !.progress = "resumed"] ELSE calls[i]]
    BY DEF GatheringCallback
<1>2. ConnIInv'
    BY <1>1, ConnsStep
<1>3. ConnsGoOn
    BY <1>1 DEF ConnsGoOn, connVars
<1>4. ASSUME NEW i \in Numbers
      PROVE  /\ calls'[i] \in CallRecord
             /\ calls'[i].conn = calls[i].conn /\ calls'[i].kind = calls[i].kind
             /\ calls'[i].setup = calls[i].setup
             /\ calls'[i].progress = calls[i].progress
                  \/ (calls'[i].progress = "resumed" /\ i = listener[c] /\ calls[i].progress = "waiting")
    BY <1>1 DEF CallRecord
<1>5. calls' \in Seq(CallRecord) /\ Len(calls') = Len(calls)
    <2>1. calls' = [i \in Numbers |-> calls'[i]]
        BY <1>1
    <2>2. QED BY <2>1, <1>4, SameCalls
<1>6. ASSUME NEW i \in Numbers, i = listener[c], calls[i].progress = "waiting"
      PROVE  gathering[calls[i].conn] = "complete" /\ calls[i].kind # "mirror-answer"
    <2>1. i # 0 /\ calls[i].conn = c
        BY <1>6 DEF ListenerFits, Numbers
    <2>2. QED BY <1>1, <1>6, <2>1 DEF ToldComplete, ResumedComplete
<1>7. CallsGoOn
    BY <1>4, <1>5, <1>6 DEF CallsGoOn
<1>8. TypeOK'
    BY <1>1, <1>2, <1>5 DEF TypeOK, ConnIInv, CallRecord
<1>9. QED BY <1>1, <1>2, <1>3, <1>7, <1>8, GoesOn

\* A call continues: it delivers, with its set-up channel closed, or throws.
LEMMA ResumeStep ==
    ASSUME IInv, NEW n \in Numbers, Resume(n) \/ SetupOpens(n)
    PROVE  IInv'
<1> USE TypeFacts DEF IInv
<1>1. UNCHANGED <<connVars, gathering, told, listener>>
    BY DEF Resume, SetupOpens
<1>2. ConnIInv'
    BY <1>1, ConnsStep
<1>3. ConnsGoOn
    BY <1>1 DEF ConnsGoOn, connVars
<1>4. PICK q \in CallRecord :
         /\ calls' = [calls EXCEPT ![n] = q]
         /\ q.conn = calls[n].conn /\ q.kind = calls[n].kind
         /\ \/ /\ calls[n].progress = "resumed"
               /\ \/ q.progress = "failed" /\ q.setup = calls[n].setup
                  \/ q.progress \in {"delivered", "failed"} /\ q.setup \in {"none", "closed"}
            \/ /\ q.progress = calls[n].progress
               /\ calls[n].setup = "open" /\ q.setup = "visible" /\ native[calls[n].conn] = "connected"
    <2>1. CASE Resume(n) /\ raw[calls[n].conn] = "null"
        <3> DEFINE q == [calls[n] EXCEPT !.progress = "failed"]
        <3>1. q \in CallRecord /\ q.conn = calls[n].conn /\ q.kind = calls[n].kind
              /\ q.progress = "failed" /\ q.setup = calls[n].setup
            BY DEF CallRecord
        <3>2. calls' = [calls EXCEPT ![n] = q] /\ calls[n].progress = "resumed"
            BY <2>1 DEF Resume
        <3>3. QED BY <3>1, <3>2
    <2>2. CASE Resume(n) /\ raw[calls[n].conn] # "null"
        <3>1. PICK result \in {"delivered", "failed"} :
                calls' = [calls EXCEPT ![n].progress = result,
                                       ![n].setup = IF @ = "none" THEN "none" ELSE "closed"]
            BY <2>2 DEF Resume
        <3> DEFINE setup == IF calls[n].setup = "none" THEN "none" ELSE "closed"
                   q == [calls[n] EXCEPT !.progress = result, !.setup = setup]
        <3>2. q \in CallRecord /\ q.conn = calls[n].conn /\ q.kind = calls[n].kind
              /\ q.progress \in {"delivered", "failed"} /\ q.setup \in {"none", "closed"}
            BY DEF CallRecord
        <3>3. calls' = [calls EXCEPT ![n] = q] /\ calls[n].progress = "resumed"
            BY <2>2, <3>1 DEF Resume, CallRecord
        <3> HIDE DEF q
        <3>4. QED BY <3>2, <3>3
    <2>3. CASE SetupOpens(n)
        <3> DEFINE q == [calls[n] EXCEPT !.setup = "visible"]
        <3>1. q \in CallRecord /\ q.conn = calls[n].conn /\ q.kind = calls[n].kind
              /\ q.progress = calls[n].progress /\ q.setup = "visible"
            BY DEF CallRecord
        <3>2. /\ calls' = [calls EXCEPT ![n] = q]
              /\ calls[n].setup = "open" /\ native[calls[n].conn] = "connected"
            BY <2>3 DEF SetupOpens
        <3>3. QED BY <3>1, <3>2
    <2>4. QED BY <2>1, <2>2, <2>3
<1>5. /\ calls' \in Seq(CallRecord) /\ Len(calls') = Len(calls)
      /\ \A i \in Numbers : calls'[i] = IF i = n THEN q ELSE calls[i]
    BY <1>4 DEF Numbers
<1>6. CallsGoOn
    BY <1>4, <1>5 DEF CallsGoOn
<1>7. TypeOK'
    BY <1>1, <1>2, <1>5 DEF TypeOK, ConnIInv, CallRecord
<1>8. QED BY <1>1, <1>2, <1>3, <1>6, <1>7, GoesOn

LEMMA IInvStep == IInv /\ [Next]_vars => IInv'
<1> SUFFICES ASSUME IInv, [Next]_vars PROVE IInv'
    OBVIOUS
<1>1. ASSUME NEW c \in Conns, NEW kind \in Kinds, FirstCall(c, kind) PROVE IInv'
    BY <1>1, FirstCallStep
<1>2. ASSUME NEW c \in Conns, NEW kind \in Kinds, LaterCall(c, kind) PROVE IInv'
    BY <1>2, LaterCallStep
<1>3. ASSUME NEW c \in Conns, NEW kind \in Kinds, CallOnClosed(c, kind) PROVE IInv'
    BY <1>3, CallOnClosedStep
<1>4. ASSUME NEW c \in Conns, OfferRefused(c) PROVE IInv'
    BY <1>4, OfferRefusedStep
<1>5. ASSUME NEW c \in Conns, CompleteOffer(c) PROVE IInv'
    BY <1>5, ElsewhereStep
<1>6. ASSUME NEW c \in Conns, GatheringEnds(c) PROVE IInv'
    BY <1>6, GatheringStep
<1>7. ASSUME NEW c \in Conns, CallbackDropped(c) PROVE IInv'
    BY <1>7, GatheringStep
<1>8. ASSUME NEW c \in Conns, GatheringCallback(c) PROVE IInv'
    BY <1>8, GatheringCallbackStep
<1>9. ASSUME NEW i \in Numbers, Resume(i) PROVE IInv'
    BY <1>9, ResumeStep
<1>10. ASSUME NEW i \in Numbers, SetupOpens(i) PROVE IInv'
    BY <1>10, ResumeStep
<1>11. CASE Elsewhere \/ UNCHANGED vars
    BY <1>11, ElsewhereStep
<1>12. QED
    BY <1>1, <1>2, <1>3, <1>4, <1>5, <1>6, <1>7, <1>8, <1>9, <1>10, <1>11 DEF Next

-----------------------------------------------------------------------------
(* The theorems.                                                           *)

LEMMA IInvHolds == Spec => []IInv
BY InitIInv, IInvStep, PTL DEF Spec

\* The variables of the connections and of the descriptions keep their types.
THEOREM TypeCorrect == Spec => []TypeOK
<1>1. IInv => TypeOK
    BY DEF IInv
<1>2. QED BY <1>1, IInvHolds, PTL

\* Whatever is asked of a connection in between, a description that waits for gathering is
\* delivered with all the candidates.
THEOREM DeliveredAreComplete == Spec => []DeliveredComplete
<1>1. IInv => DeliveredComplete
    BY DEF IInv, ResumedComplete, DeliveredComplete
<1>2. QED BY <1>1, IInvHolds, PTL

\* Only the set-up channel of a mirrored renegotiation is ever visible to the remote side.
THEOREM SetupsAreHidden == Spec => []SetupHidden
<1>1. ASSUME IInv PROVE SetupHidden
    <2> SUFFICES ASSUME NEW i \in Numbers, calls[i].setup = "visible"
                 PROVE  calls[i].kind = "mirror-offer" /\ i # Maker(calls[i].conn)
        BY DEF SetupHidden
    <2>1. calls[i].kind = "mirror-offer" /\ ~First(i) /\ TypeOK
        BY <1>1 DEF IInv, SetupFits
    <2>2. calls[i].conn \in Conns /\ i \in Of(calls[i].conn)
        BY <2>1, TypeFacts DEF CallRecord, Of
    <2>3. QED BY <2>1, <2>2, MakerIsFirst
<1>2. QED BY <1>1, IInvHolds, PTL

=============================================================================
