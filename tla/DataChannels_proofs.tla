------------------------- MODULE DataChannels_proofs -------------------------
(* Proofs about DataChannels, for any channels, buffer size and programs.  *)
EXTENDS DataChannels, SequenceTheorems, FiniteSetTheorems, TLAPS

-----------------------------------------------------------------------------
(* The parts of the inductive invariant.                                   *)

\* Where the handler is in its steps, of which only the last is an echo.
StepsFit ==
    /\ \A i \in 1 .. Len(todo) : todo[i].type = "echo" => i = Len(todo)
    /\ place \in {"waiting", "wait-channel", "sending", "creating", "echoing"} => todo # <<>>
    /\ place = "echoing" => Len(todo) = 1
    /\ echo => place = "echoing" \/ place = "over" \/ (place = "run" /\ todo = <<>>)
    /\ owed # {} => place = "sending"
    /\ conn = "new" => place = "start" /\ watched = {}

\* The messages whose callback is queued are the last that arrived.
InboxFits(c) ==
    /\ Len(inbox[c]) <= arrived[c]
    /\ \A i \in 1 .. Len(inbox[c]) : inbox[c][i] = arrived[c] - Len(inbox[c]) + i

\* A channel without a stream has nothing that a stream leaves.
Fresh(c) ==
    stream[c] = "none" =>
        /\ opening[c] = "corked" /\ buffer[c] = <<>> /\ active[c]
        /\ pending[c] = <<>> /\ sent[c] = <<>> /\ eaten[c] = <<>> /\ dropped[c] = {}
        /\ Len(inbox[c]) = arrived[c] /\ c \notin watched

\* A stream opens once, after its channel did.
OpensOnce(c) ==
    /\ chan[c] = "none" => stream[c] = "none"
    /\ chan[c] \in {"none", "connecting"} => opening[c] = "corked" /\ "open" \notin calls[c]
    /\ "open" \in calls[c] => opening[c] = "corked" /\ stream[c] # "none"

\* A live stream refuses messages when it has no room for them.
Refuses(c) == stream[c] = "live" => (active[c] <=> Len(buffer[c]) < HighWater)

\* What flows has a reader, and keeps nothing from it.
Reads(c) == stream[c] = "live" /\ mode[c] = "flowing" => buffer[c] = <<>> /\ (echo \/ place = "waiting")

\* What is written waits only for the opening, and until an echo it is our own.
Writes(c) ==
    stream[c] = "live" =>
        /\ opening[c] # "corked" => pending[c] = <<>>
        /\ ~echo => Elements(sent[c]) \cup Elements(pending[c]) \subseteq {Own}

\* Nothing is written before the connection is announced.
StartsQuiet(c) == place = "start" => sent[c] = <<>> /\ pending[c] = <<>>

\* Every number in s is less than every one of theirs in t.
Before(s, t) == \A x \in Elements(s), y \in Elements(t) : y # Own => x < y

\* The messages in e, w and b are, in order, those up to h that are not in d.
Read(e, w, b, h, d) ==
    /\ InOrder(e) /\ InOrder(w) /\ InOrder(b)
    /\ Before(e, w) /\ Before(e, b) /\ Before(w, b)
    /\ d \subseteq 1 .. h
    /\ (Elements(e) \cup Elements(w) \cup Elements(b)) \ {Own} = (1 .. h) \ d

\* What a live stream was given.
GivenFits(c) ==
    stream[c] = "live" =>
        Read(eaten[c], sent[c] \o pending[c], buffer[c], arrived[c] - Len(inbox[c]), dropped[c])

\* The events l tell of the opening o, the stream s and of k messages.
Told(l, o, s, k) ==
    /\ Count(l, "opened") = IF o = "open" THEN 1 ELSE 0
    /\ Count(l, "closed") = IF s = "gone" THEN 1 ELSE 0
    /\ Count(l, "sent") >= k
    /\ s = "live" => Count(l, "sent") = k

\* What was announced.
ToldFits(c) == IF c \in watched THEN Told(log[c], opening[c], stream[c], Len(sent[c])) ELSE log[c] = <<>>

\* All that holds of one channel.
ChannelFits(c) ==
    /\ InboxFits(c) /\ Fresh(c) /\ OpensOnce(c) /\ Refuses(c) /\ Reads(c) /\ Writes(c)
    /\ StartsQuiet(c) /\ GivenFits(c) /\ ToldFits(c)

\* The inductive invariant.
IInv == Typed /\ StepsFit /\ \A c \in Channels : ChannelFits(c)

-----------------------------------------------------------------------------
(* Sequences: their elements, their order and their counts.                *)

\* What can be written to a stream.
Numbers == Messages \cup {Own}

\* The numbers of messages.
LEMMA NumberFacts ==
    /\ Own = 0 /\ Own \notin Messages /\ Messages \subseteq Nat \ {0} /\ Numbers \subseteq Nat
    /\ HighWater \in Nat /\ HighWater > 0 /\ MaxMessages \in Nat
BY ChannelsAssumption DEF Own, Messages, Numbers

\* The elements of a concatenation.
LEMMA ElementsConcat ==
    ASSUME NEW S, NEW s \in Seq(S), NEW t \in Seq(S)
    PROVE  Elements(s \o t) = Elements(s) \cup Elements(t)
<1>1. /\ s \o t \in Seq(S) /\ Len(s \o t) = Len(s) + Len(t) /\ Len(s) \in Nat /\ Len(t) \in Nat
      /\ \A i \in 1 .. Len(s) + Len(t) : (s \o t)[i] = IF i <= Len(s) THEN s[i] ELSE t[i - Len(s)]
    BY ConcatProperties
<1>2. ASSUME NEW x \in Elements(s \o t) PROVE x \in Elements(s) \cup Elements(t)
    <2>1. PICK i \in 1 .. Len(s) + Len(t) : x = (s \o t)[i]
        BY <1>1 DEF Elements
    <2>2. CASE i <= Len(s)
        BY <1>1, <2>1, <2>2 DEF Elements
    <2>3. CASE i > Len(s)
        <3>1. i - Len(s) \in 1 .. Len(t) /\ x = t[i - Len(s)]
            BY <1>1, <2>1, <2>3
        <3>2. QED BY <3>1 DEF Elements
    <2>4. QED BY <2>2, <2>3, <1>1
<1>3. ASSUME NEW x \in Elements(s) PROVE x \in Elements(s \o t)
    <2>1. PICK i \in 1 .. Len(s) : x = s[i]
        BY DEF Elements
    <2>2. i \in 1 .. Len(s \o t) /\ (s \o t)[i] = x
        BY <1>1, <2>1
    <2>3. QED BY <2>2 DEF Elements
<1>4. ASSUME NEW x \in Elements(t) PROVE x \in Elements(s \o t)
    <2>1. PICK i \in 1 .. Len(t) : x = t[i]
        BY DEF Elements
    <2>2. PICK k : k = Len(s) + i
        OBVIOUS
    <2>3. k \in 1 .. Len(s) + Len(t) /\ ~(k <= Len(s)) /\ k - Len(s) = i
        BY <1>1, <2>1, <2>2
    <2>4. (s \o t)[k] = x
        BY <1>1, <2>1, <2>3
    <2>5. QED BY <1>1, <2>3, <2>4 DEF Elements
<1>5. QED BY <1>2, <1>3, <1>4

\* The elements of short sequences.
LEMMA ElementsShort == Elements(<<>>) = {} /\ \A x : Elements(<<x>>) = {x}
BY DEF Elements

\* The elements of a sequence have its type.
LEMMA ElementsType ==
    ASSUME NEW S, NEW s \in Seq(S)
    PROVE  Elements(s) \subseteq S
BY DEF Elements

\* A sequence with one more.
LEMMA ElementsAppend ==
    ASSUME NEW S, NEW s \in Seq(S), NEW x \in S
    PROVE  Elements(Append(s, x)) = Elements(s) \cup {x}
<1>1. Append(s, x) = s \o <<x>> /\ <<x>> \in Seq(S)
    BY AppendIsConcat
<1>2. Elements(s \o <<x>>) = Elements(s) \cup Elements(<<x>>)
    BY <1>1, ElementsConcat, ZenonT(40)
<1>3. QED BY <1>1, <1>2, ElementsShort

\* Concatenation keeps the order when it separates the numbers.
LEMMA OrderConcat ==
    ASSUME NEW s \in Seq(Nat), NEW t \in Seq(Nat)
    PROVE  InOrder(s \o t) <=> InOrder(s) /\ InOrder(t) /\ Before(s, t)
<1>1. /\ Len(s \o t) = Len(s) + Len(t) /\ Len(s) \in Nat /\ Len(t) \in Nat
      /\ \A i \in 1 .. Len(s) + Len(t) : (s \o t)[i] = IF i <= Len(s) THEN s[i] ELSE t[i - Len(s)]
    BY ConcatProperties
<1>2. \A i \in 1 .. Len(s) : i \in 1 .. Len(s) + Len(t) /\ (s \o t)[i] = s[i]
    BY <1>1
<1>3. \A i \in 1 .. Len(t) : Len(s) + i \in 1 .. Len(s) + Len(t) /\ (s \o t)[Len(s) + i] = t[i]
    <2> SUFFICES ASSUME NEW i \in 1 .. Len(t)
                 PROVE  Len(s) + i \in 1 .. Len(s) + Len(t) /\ (s \o t)[Len(s) + i] = t[i]
        OBVIOUS
    <2>1. PICK k : k = Len(s) + i
        OBVIOUS
    <2>2. k \in 1 .. Len(s) + Len(t) /\ ~(k <= Len(s)) /\ k - Len(s) = i
        BY <1>1, <2>1
    <2>3. QED BY <1>1, <2>1, <2>2
<1>4. ASSUME InOrder(s \o t) PROVE InOrder(s)
    BY <1>1, <1>2, <1>4 DEF InOrder
<1>5. ASSUME InOrder(s \o t) PROVE InOrder(t)
    <2> SUFFICES ASSUME NEW i \in 1 .. Len(t), NEW j \in 1 .. Len(t), i < j, t[j] # Own PROVE t[i] < t[j]
        BY DEF InOrder
    <2>1. PICK k, l : k = Len(s) + i /\ l = Len(s) + j
        OBVIOUS
    <2>2. k < l
        BY <1>1, <2>1
    <2>3. /\ k \in 1 .. Len(s \o t) /\ l \in 1 .. Len(s \o t)
          /\ (s \o t)[k] = t[i] /\ (s \o t)[l] = t[j]
        BY <1>1, <1>3, <2>1
    <2>4. QED BY <1>5, <2>2, <2>3 DEF InOrder
<1>6. ASSUME InOrder(s \o t) PROVE Before(s, t)
    <2> SUFFICES ASSUME NEW x \in Elements(s), NEW y \in Elements(t), y # Own PROVE x < y
        BY DEF Before
    <2>1. PICK i \in 1 .. Len(s) : x = s[i]
        BY DEF Elements
    <2>2. PICK j \in 1 .. Len(t) : y = t[j]
        BY DEF Elements
    <2>3. PICK l : l = Len(s) + j
        OBVIOUS
    <2>4. i < l /\ i \in 1 .. Len(s \o t)
        BY <1>1, <2>3
    <2>5. l \in 1 .. Len(s \o t) /\ (s \o t)[l] = y /\ (s \o t)[i] = x
        BY <1>1, <1>2, <1>3, <2>1, <2>2, <2>3
    <2>6. QED BY <1>6, <2>4, <2>5 DEF InOrder
<1>7. ASSUME InOrder(s), InOrder(t), Before(s, t) PROVE InOrder(s \o t)
    <2> SUFFICES ASSUME NEW i \in 1 .. Len(s) + Len(t), NEW j \in 1 .. Len(s) + Len(t), i < j, (s \o t)[j] # Own
                 PROVE  (s \o t)[i] < (s \o t)[j]
        BY <1>1 DEF InOrder
    <2>1. CASE j <= Len(s)
        <3>1. i \in 1 .. Len(s) /\ j \in 1 .. Len(s)
            BY <1>1, <2>1
        <3>2. (s \o t)[i] = s[i] /\ (s \o t)[j] = s[j]
            BY <1>2, <3>1
        <3>3. QED BY <1>7, <3>1, <3>2 DEF InOrder
    <2>2. CASE ~(j <= Len(s))
        <3>1. PICK l : l = j - Len(s)
            OBVIOUS
        <3>2. l \in 1 .. Len(t) /\ (s \o t)[j] = t[l]
            BY <1>1, <2>2, <3>1
        <3>3. CASE i <= Len(s)
            <4>1. i \in 1 .. Len(s) /\ (s \o t)[i] = s[i]
                BY <1>1, <3>3
            <4>2. s[i] \in Elements(s) /\ t[l] \in Elements(t)
                BY <3>2, <4>1 DEF Elements
            <4>3. QED BY <1>7, <3>2, <4>1, <4>2 DEF Before
        <3>4. CASE ~(i <= Len(s))
            <4>1. PICK k : k = i - Len(s)
                OBVIOUS
            <4>2. k \in 1 .. Len(t) /\ (s \o t)[i] = t[k] /\ k < l
                BY <1>1, <3>1, <3>4, <4>1
            <4>3. QED BY <1>7, <3>2, <4>2 DEF InOrder
        <3>5. QED BY <3>3, <3>4
    <2>3. QED BY <2>1, <2>2
<1>8. QED BY <1>4, <1>5, <1>6, <1>7

\* Short sequences are in order, and so is the rest of one that is.
LEMMA OrderShort == InOrder(<<>>) /\ \A x : InOrder(<<x>>)
BY DEF InOrder

\* The first of a sequence comes before the rest.
LEMMA OrderTail ==
    ASSUME NEW s \in Seq(Nat), InOrder(s), s # <<>>
    PROVE  /\ InOrder(Tail(s)) /\ Before(<<Head(s)>>, Tail(s)) /\ Tail(s) \in Seq(Nat) /\ Head(s) \in Nat
           /\ Elements(s) = {Head(s)} \cup Elements(Tail(s))
<1>1. s = <<Head(s)>> \o Tail(s) /\ Tail(s) \in Seq(Nat) /\ Head(s) \in Nat /\ <<Head(s)>> \in Seq(Nat)
    BY HeadTailProperties
<1>2. PICK a, b : a = <<Head(s)>> /\ b = Tail(s)
    OBVIOUS
<1>3. s = a \o b /\ a \in Seq(Nat) /\ b \in Seq(Nat)
    BY <1>1, <1>2
<1>4. InOrder(a \o b) /\ Elements(a \o b) = Elements(s)
    BY <1>3
<1>5. InOrder(b) /\ Before(a, b)
    BY <1>3, <1>4, OrderConcat
<1>6. Elements(s) = Elements(a) \cup Elements(b) /\ Elements(a) = {Head(s)}
    <2>1. Elements(a \o b) = Elements(a) \cup Elements(b)
        BY <1>3, ElementsConcat
    <2>2. Elements(a) = {Head(s)}
        BY <1>2, ElementsShort
    <2>3. QED BY <1>4, <2>1, <2>2
<1>7. QED BY <1>1, <1>2, <1>5, <1>6

\* A sequence has finitely many places for a value.
LEMMA CountType ==
    ASSUME NEW s, NEW x, Len(s) \in Nat
    PROVE  /\ IsFiniteSet({i \in 1 .. Len(s) : s[i] = x}) /\ Count(s, x) \in Nat
<1>1. IsFiniteSet(1 .. Len(s))
    BY FS_Interval
<1>2. {i \in 1 .. Len(s) : s[i] = x} \in SUBSET (1 .. Len(s))
    OBVIOUS
<1>3. IsFiniteSet({i \in 1 .. Len(s) : s[i] = x})
    BY <1>1, <1>2, FS_Subset
<1>4. QED BY <1>3, FS_CardinalityType DEF Count

\* A concatenation has what both have.
LEMMA CountConcat ==
    ASSUME NEW S, NEW s \in Seq(S), NEW t \in Seq(S), NEW x
    PROVE  Count(s \o t, x) = Count(s, x) + Count(t, x)
<1>1. /\ Len(s \o t) = Len(s) + Len(t) /\ Len(s) \in Nat /\ Len(t) \in Nat
      /\ \A i \in 1 .. Len(s) + Len(t) : (s \o t)[i] = IF i <= Len(s) THEN s[i] ELSE t[i - Len(s)]
    BY ConcatProperties
<1>2. PICK m : m = Len(s)
    OBVIOUS
<1>3. PICK A, B, C : /\ A = {i \in 1 .. Len(s) : s[i] = x} /\ B = {i \in 1 .. Len(t) : t[i] = x}
                     /\ C = {i \in 1 .. Len(s \o t) : (s \o t)[i] = x}
    OBVIOUS
<1>4. PICK D : D = {i \in m + 1 .. m + Len(t) : t[i - m] = x}
    OBVIOUS
<1>5. IsFiniteSet(A) /\ IsFiniteSet(B) /\ IsFiniteSet(C)
    <2>1. IsFiniteSet({i \in 1 .. Len(s) : s[i] = x}) /\ IsFiniteSet({i \in 1 .. Len(t) : t[i] = x})
        BY <1>1, CountType
    <2>2. Len(s \o t) \in Nat
        BY <1>1
    <2>3. IsFiniteSet({i \in 1 .. Len(s \o t) : (s \o t)[i] = x})
        BY <2>2, CountType
    <2>4. QED BY <1>3, <2>1, <2>3
<1>6. PICK f : f = [i \in B |-> m + i]
    OBVIOUS
<1>7. f \in Bijection(B, D)
    <2>1. \A i \in B : m + i \in D
        BY <1>1, <1>2, <1>3, <1>4
    <2>2. f \in [B -> D]
        BY <1>6, <2>1
    <2>3. \A i, j \in B : f[i] = f[j] => i = j
        BY <1>1, <1>2, <1>3, <1>6
    <2>4. \A d \in D : \E i \in B : f[i] = d
        <3> SUFFICES ASSUME NEW d \in D PROVE \E i \in B : f[i] = d
            OBVIOUS
        <3>1. d - m \in B /\ m + (d - m) = d
            BY <1>1, <1>2, <1>3, <1>4
        <3>2. QED BY <3>1, <1>6
    <2>5. QED BY <2>2, <2>3, <2>4 DEF Bijection, Injection, Surjection, IsInjective
<1>8. IsFiniteSet(D) /\ Cardinality(D) = Cardinality(B)
    BY <1>5, <1>7, FS_Bijection DEF ExistsBijection
<1>9. C = A \cup D
    <2>1. ASSUME NEW i \in C PROVE i \in A \cup D
        BY <1>1, <1>2, <1>3, <1>4
    <2>2. ASSUME NEW i \in A PROVE i \in C
        BY <1>1, <1>2, <1>3, <1>4
    <2>3. ASSUME NEW i \in D PROVE i \in C
        <3>1. i \in 1 .. Len(s) + Len(t) /\ ~(i <= Len(s)) /\ t[i - Len(s)] = x
            BY <1>1, <1>2, <1>4
        <3>2. QED BY <3>1, <1>1, <1>3
    <2>4. QED BY <2>1, <2>2, <2>3
<1>10. A \cap D = {}
    BY <1>1, <1>2, <1>3, <1>4
<1>11. Cardinality(C) = Cardinality(A) + Cardinality(D) - Cardinality(A \cap D)
    BY <1>5, <1>8, <1>9, FS_Union
<1>12. Cardinality(A \cap D) = 0 /\ Cardinality(A) \in Nat /\ Cardinality(D) \in Nat
    BY <1>5, <1>8, <1>10, FS_EmptySet, FS_CardinalityType
<1>13. Cardinality(C) = Cardinality(A) + Cardinality(B)
    BY <1>8, <1>11, <1>12
<1>14. Count(s \o t, x) = Cardinality(C) /\ Count(s, x) = Cardinality(A) /\ Count(t, x) = Cardinality(B)
    BY <1>3 DEF Count
<1>15. QED BY <1>13, <1>14

\* Short sequences and repeated events.
LEMMA CountShort ==
    ASSUME NEW x
    PROVE  Count(<<>>, x) = 0 /\ \A y : Count(<<y>>, x) = IF y = x THEN 1 ELSE 0
<1>1. {i \in 1 .. Len(<<>>) : <<>>[i] = x} = {}
    OBVIOUS
<1>2. Count(<<>>, x) = 0
    BY <1>1, FS_EmptySet DEF Count
<1>3. ASSUME NEW y PROVE Count(<<y>>, x) = IF y = x THEN 1 ELSE 0
    <2>1. CASE y = x
        <3>1. {i \in 1 .. Len(<<y>>) : <<y>>[i] = x} = {1}
            BY <2>1
        <3>2. QED BY <2>1, <3>1, FS_Singleton DEF Count
    <2>2. CASE y # x
        <3>1. {i \in 1 .. Len(<<y>>) : <<y>>[i] = x} = {}
            BY <2>2
        <3>2. QED BY <2>2, <3>1, FS_EmptySet DEF Count
    <2>3. QED BY <2>1, <2>2
<1>4. QED BY <1>2, <1>3

\* What can be announced of a channel.
Events == {"opened", "sent", "closed"}

\* An event that is repeated.
LEMMA CountTimes ==
    ASSUME NEW n \in Nat, NEW e \in Events, NEW x
    PROVE  Times(n, e) \in Seq(Events) /\ Len(Times(n, e)) = n /\ Count(Times(n, e), x) = IF e = x THEN n ELSE 0
<1>1. PICK s : s = Times(n, e)
    OBVIOUS
<1>2. s = [i \in 1 .. n |-> e]
    BY <1>1 DEF Times
<1>3. s \in Seq(Events) /\ Len(s) = n /\ \A i \in 1 .. n : s[i] = e
    BY <1>2
<1>4. CASE e = x
    <2>1. {i \in 1 .. Len(s) : s[i] = x} = 1 .. n
        BY <1>3, <1>4
    <2>2. Cardinality(1 .. n) = n
        <3>1. Cardinality(1 .. n) = IF 1 > n THEN 0 ELSE n - 1 + 1
            BY FS_Interval
        <3>2. QED BY <3>1
    <2>3. QED BY <1>1, <1>3, <1>4, <2>1, <2>2 DEF Count
<1>5. CASE e # x
    <2>1. {i \in 1 .. Len(s) : s[i] = x} = {}
        BY <1>3, <1>5
    <2>2. QED BY <1>1, <1>3, <1>5, <2>1, FS_EmptySet DEF Count
<1>6. QED BY <1>4, <1>5

-----------------------------------------------------------------------------
(* What a stream was given.                                                *)

\* A sequence over a set is one over a larger set.
LEMMA WiderSeq ==
    ASSUME NEW S, NEW T, S \subseteq T, NEW s \in Seq(S)
    PROVE  s \in Seq(T)
<1>1. Len(s) \in Nat /\ s \in [1 .. Len(s) -> S]
    OBVIOUS
<1>2. s \in [1 .. Len(s) -> T]
    BY <1>1
<1>3. QED BY <1>1, <1>2

\* A sequence of messages is one of numbers.
LEMMA NumberSeq ==
    /\ \A s \in Seq(Messages) : s \in Seq(Numbers) /\ s \in Seq(Nat) /\ Elements(s) \subseteq Nat
    /\ \A s \in Seq(Numbers) : s \in Seq(Nat) /\ Elements(s) \subseteq Nat
<1>1. Messages \subseteq Numbers /\ Numbers \subseteq Nat
    BY NumberFacts DEF Numbers
<1>2. \A s \in Seq(Messages) : s \in Seq(Numbers)
    BY <1>1, WiderSeq
<1>3. \A s \in Seq(Numbers) : s \in Seq(Nat)
    BY <1>1, WiderSeq
<1>4. \A s \in Seq(Nat) : Elements(s) \subseteq Nat
    BY ElementsType
<1>5. QED BY <1>2, <1>3, <1>4

\* What was read is no later than the message that is read next.
LEMMA ReadTop ==
    ASSUME NEW e, NEW w, NEW b, NEW h \in Nat, NEW d, Read(e, w, b, h, d)
    PROVE  \A x \in Elements(e) \cup Elements(w) \cup Elements(b) : x < h + 1
<1> SUFFICES ASSUME NEW x \in Elements(e) \cup Elements(w) \cup Elements(b) PROVE x < h + 1
    OBVIOUS
<1>1. x # Own => x \in 1 .. h
    BY DEF Read
<1>2. QED BY <1>1 DEF Own

\* The next message is dropped.
LEMMA ReadDrops ==
    ASSUME NEW e, NEW w, NEW b, NEW h \in Nat, NEW d, Read(e, w, b, h, d)
    PROVE  Read(e, w, b, h + 1, d \cup {h + 1})
<1>1. (1 .. h + 1) \ (d \cup {h + 1}) = (1 .. h) \ d
    OBVIOUS
<1>2. d \cup {h + 1} \subseteq 1 .. h + 1
    BY DEF Read
<1>3. QED BY <1>1, <1>2 DEF Read

\* Reading one more, m = h + 1, at the end.
LEMMA ReadMore ==
    ASSUME NEW h \in Nat, NEW d, d \subseteq 1 .. h, NEW A, A \ {Own} = (1 .. h) \ d
    PROVE  d \subseteq 1 .. h + 1 /\ (A \cup {h + 1}) \ {Own} = (1 .. h + 1) \ d
<1>1. h + 1 # Own /\ h + 1 \notin d /\ d \subseteq 1 .. h + 1
    BY DEF Own
<1>2. (1 .. h + 1) = (1 .. h) \cup {h + 1}
    OBVIOUS
<1>3. (A \cup {h + 1}) \ {Own} = (A \ {Own}) \cup {h + 1}
    BY <1>1
<1>4. QED BY <1>1, <1>2, <1>3

\* The next message is kept.
LEMMA ReadKeeps ==
    ASSUME NEW e, NEW w, NEW b \in Seq(Messages), NEW h \in Nat, NEW d, Read(e, w, b, h, d), h + 1 \in Messages
    PROVE  Read(e, w, Append(b, h + 1), h + 1, d)
<1>1. PICK m : m = h + 1
    OBVIOUS
<1>2. PICK c : c = Append(b, m)
    OBVIOUS
<1>3. /\ InOrder(e) /\ InOrder(w) /\ InOrder(b) /\ Before(e, w) /\ Before(e, b) /\ Before(w, b)
      /\ d \subseteq 1 .. h /\ (Elements(e) \cup Elements(w) \cup Elements(b)) \ {Own} = (1 .. h) \ d
    BY DEF Read
<1>4. Elements(c) = Elements(b) \cup {m}
    BY <1>1, <1>2, ElementsAppend
<1>5. \A x \in Elements(e) \cup Elements(w) \cup Elements(b) : x < m
    BY <1>1, ReadTop
<1>6. Before(e, c) /\ Before(w, c) /\ Before(b, <<m>>)
    <2>1. Elements(<<m>>) = {m}
        BY ElementsShort
    <2>2. QED BY <1>3, <1>4, <1>5, <2>1 DEF Before
<1>7. InOrder(c)
    <2>1. b \in Seq(Nat) /\ <<m>> \in Seq(Nat) /\ InOrder(<<m>>)
        BY <1>1, NumberSeq, OrderShort
    <2>2. c = b \o <<m>>
        BY <1>1, <1>2, AppendIsConcat
    <2>3. InOrder(b \o <<m>>)
        BY <2>1, <1>3, <1>6, OrderConcat
    <2>4. QED BY <2>2, <2>3
<1>8. PICK A : A = Elements(e) \cup Elements(w) \cup Elements(b)
    OBVIOUS
<1>9. d \subseteq 1 .. m /\ (A \cup {m}) \ {Own} = (1 .. m) \ d
    <2>1. A \ {Own} = (1 .. h) \ d /\ d \subseteq 1 .. h
        BY <1>3, <1>8
    <2>2. d \subseteq 1 .. h + 1 /\ (A \cup {h + 1}) \ {Own} = (1 .. h + 1) \ d
        BY <2>1, ReadMore
    <2>3. QED BY <1>1, <2>2
<1>10. Elements(e) \cup Elements(w) \cup Elements(c) = A \cup {m}
    BY <1>4, <1>8
<1>11. Read(e, w, c, m, d)
    BY <1>3, <1>6, <1>7, <1>9, <1>10 DEF Read
<1>12. QED BY <1>1, <1>2, <1>11

\* The next message is consumed, when nothing else of the client was written nor kept.
LEMMA ReadEats ==
    ASSUME NEW e \in Seq(Messages), NEW w, Elements(w) \subseteq {Own}, NEW b, b = <<>>, NEW h \in Nat, NEW d,
           Read(e, w, b, h, d), h + 1 \in Messages
    PROVE  Read(Append(e, h + 1), w, b, h + 1, d)
<1>1. PICK m : m = h + 1
    OBVIOUS
<1>2. PICK c : c = Append(e, m)
    OBVIOUS
<1>3. /\ InOrder(e) /\ InOrder(w) /\ InOrder(b) /\ Before(e, w) /\ Before(e, b) /\ Before(w, b)
      /\ d \subseteq 1 .. h /\ (Elements(e) \cup Elements(w) \cup Elements(b)) \ {Own} = (1 .. h) \ d
    BY DEF Read
<1>4. Elements(c) = Elements(e) \cup {m} /\ Elements(b) = {}
    BY <1>1, <1>2, ElementsAppend, ElementsShort
<1>5. \A x \in Elements(e) \cup Elements(w) \cup Elements(b) : x < m
    BY <1>1, ReadTop
<1>6. Before(c, w) /\ Before(c, b) /\ Before(e, <<m>>)
    <2>1. Elements(<<m>>) = {m}
        BY ElementsShort
    <2>2. QED BY <1>3, <1>4, <1>5, <2>1 DEF Before
<1>7. InOrder(c)
    <2>1. e \in Seq(Nat) /\ <<m>> \in Seq(Nat) /\ InOrder(<<m>>)
        BY <1>1, NumberSeq, OrderShort
    <2>2. c = e \o <<m>>
        BY <1>1, <1>2, AppendIsConcat
    <2>3. InOrder(e \o <<m>>)
        BY <2>1, <1>3, <1>6, OrderConcat
    <2>4. QED BY <2>2, <2>3
<1>8. PICK A : A = Elements(e) \cup Elements(w) \cup Elements(b)
    OBVIOUS
<1>9. d \subseteq 1 .. m /\ (A \cup {m}) \ {Own} = (1 .. m) \ d
    <2>1. A \ {Own} = (1 .. h) \ d /\ d \subseteq 1 .. h
        BY <1>3, <1>8
    <2>2. d \subseteq 1 .. h + 1 /\ (A \cup {h + 1}) \ {Own} = (1 .. h + 1) \ d
        BY <2>1, ReadMore
    <2>3. QED BY <1>1, <2>2
<1>10. Elements(c) \cup Elements(w) \cup Elements(b) = A \cup {m}
    BY <1>4, <1>8
<1>11. Read(c, w, b, m, d)
    BY <1>3, <1>6, <1>7, <1>9, <1>10 DEF Read
<1>12. QED BY <1>1, <1>2, <1>11

\* The first message that was kept is consumed, when nothing else was written.
LEMMA ReadTakes ==
    ASSUME NEW e \in Seq(Messages), NEW w, Elements(w) \subseteq {Own}, NEW b \in Seq(Messages), b # <<>>,
           NEW h \in Nat, NEW d, Read(e, w, b, h, d)
    PROVE  Read(Append(e, Head(b)), w, Tail(b), h, d)
<1>1. PICK m, t : m = Head(b) /\ t = Tail(b)
    OBVIOUS
<1>2. PICK c : c = Append(e, m)
    OBVIOUS
<1>3. /\ InOrder(e) /\ InOrder(w) /\ InOrder(b) /\ Before(e, w) /\ Before(e, b) /\ Before(w, b)
      /\ d \subseteq 1 .. h /\ (Elements(e) \cup Elements(w) \cup Elements(b)) \ {Own} = (1 .. h) \ d
    BY DEF Read
<1>4. b \in Seq(Nat)
    BY NumberSeq
<1>5. m \in Messages /\ InOrder(t) /\ Before(<<m>>, t) /\ Elements(b) = {m} \cup Elements(t)
    <2>1. m \in Messages
        BY <1>1
    <2>2. InOrder(t) /\ Before(<<m>>, t) /\ Elements(b) = {m} \cup Elements(t)
        BY <1>1, <1>3, <1>4, OrderTail
    <2>3. QED BY <2>1, <2>2
<1>6. Elements(c) = Elements(e) \cup {m} /\ Elements(<<m>>) = {m}
    BY <1>2, <1>5, ElementsAppend, ElementsShort
<1>7. m # Own
    BY <1>5, NumberFacts
<1>8. Before(c, w) /\ Before(c, t) /\ Before(w, t) /\ Before(e, <<m>>)
    BY <1>3, <1>5, <1>6, <1>7 DEF Before
<1>9. InOrder(c)
    <2>1. e \in Seq(Nat) /\ <<m>> \in Seq(Nat) /\ InOrder(<<m>>)
        BY <1>5, NumberSeq, NumberFacts, OrderShort
    <2>2. c = e \o <<m>>
        BY <1>2, <1>5, AppendIsConcat
    <2>3. InOrder(e \o <<m>>)
        BY <2>1, <1>3, <1>8, OrderConcat
    <2>4. QED BY <2>2, <2>3
<1>10. Elements(c) \cup Elements(w) \cup Elements(t) = Elements(e) \cup Elements(w) \cup Elements(b)
    BY <1>5, <1>6
<1>11. Read(c, w, t, h, d)
    BY <1>3, <1>5, <1>8, <1>9, <1>10 DEF Read
<1>12. QED BY <1>1, <1>2, <1>11

\* The next message is written back, when none is kept.
LEMMA ReadAnswers ==
    ASSUME NEW e, NEW w \in Seq(Numbers), NEW b, b = <<>>, NEW h \in Nat, NEW d,
           Read(e, w, b, h, d), h + 1 \in Messages
    PROVE  Read(e, w \o <<h + 1>>, b, h + 1, d)
<1>1. PICK m : m = h + 1
    OBVIOUS
<1>2. PICK c : c = w \o <<m>>
    OBVIOUS
<1>3. /\ InOrder(e) /\ InOrder(w) /\ InOrder(b) /\ Before(e, w) /\ Before(e, b) /\ Before(w, b)
      /\ d \subseteq 1 .. h /\ (Elements(e) \cup Elements(w) \cup Elements(b)) \ {Own} = (1 .. h) \ d
    BY DEF Read
<1>4. m \in Numbers /\ <<m>> \in Seq(Numbers)
    BY <1>1 DEF Numbers
<1>5. Elements(c) = Elements(w) \cup {m} /\ Elements(b) = {} /\ Elements(<<m>>) = {m}
    <2>1. Elements(w \o <<m>>) = Elements(w) \cup Elements(<<m>>)
        BY <1>4, ElementsConcat, ZenonT(40)
    <2>2. QED BY <1>2, <2>1, ElementsShort
<1>6. \A x \in Elements(e) \cup Elements(w) \cup Elements(b) : x < m
    BY <1>1, ReadTop
<1>7. Before(e, c) /\ Before(c, b) /\ Before(w, <<m>>)
    BY <1>3, <1>5, <1>6 DEF Before
<1>8. InOrder(c)
    <2>1. w \in Seq(Nat) /\ <<m>> \in Seq(Nat) /\ InOrder(<<m>>)
        BY <1>1, NumberSeq, OrderShort
    <2>2. QED BY <2>1, <1>2, <1>3, <1>7, OrderConcat
<1>9. PICK A : A = Elements(e) \cup Elements(w) \cup Elements(b)
    OBVIOUS
<1>10. d \subseteq 1 .. m /\ (A \cup {m}) \ {Own} = (1 .. m) \ d
    BY <1>1, <1>3, <1>9, ReadMore
<1>11. Elements(e) \cup Elements(c) \cup Elements(b) = A \cup {m}
    BY <1>5, <1>9
<1>12. Read(e, c, b, m, d)
    BY <1>3, <1>7, <1>8, <1>10, <1>11 DEF Read
<1>13. QED BY <1>1, <1>2, <1>12

\* What was kept is written back.
LEMMA ReadFlushes ==
    ASSUME NEW e, NEW w \in Seq(Numbers), NEW b \in Seq(Messages), NEW h \in Nat, NEW d, Read(e, w, b, h, d)
    PROVE  Read(e, w \o b, <<>>, h, d)
<1>1. /\ InOrder(e) /\ InOrder(w) /\ InOrder(b) /\ Before(e, w) /\ Before(e, b) /\ Before(w, b)
      /\ d \subseteq 1 .. h /\ (Elements(e) \cup Elements(w) \cup Elements(b)) \ {Own} = (1 .. h) \ d
    BY DEF Read
<1>2. b \in Seq(Numbers) /\ b \in Seq(Nat) /\ w \in Seq(Nat)
    BY NumberSeq
<1>3. PICK c, z : c = w \o b /\ z = <<>>
    OBVIOUS
<1>4. Elements(c) = Elements(w) \cup Elements(b) /\ Elements(z) = {}
    BY <1>2, <1>3, ElementsConcat, ElementsShort
<1>5. InOrder(c) /\ InOrder(z)
    BY <1>1, <1>2, <1>3, OrderConcat, OrderShort
<1>6. Before(e, c) /\ Before(e, z) /\ Before(c, z)
    BY <1>1, <1>4 DEF Before
<1>7. Read(e, c, z, h, d)
    BY <1>1, <1>4, <1>5, <1>6 DEF Read
<1>8. QED BY <1>3, <1>7

\* A message of our own is written.
LEMMA ReadSends ==
    ASSUME NEW e, NEW w \in Seq(Numbers), NEW b \in Seq(Messages), NEW h \in Nat, NEW d, Read(e, w, b, h, d)
    PROVE  Read(e, w \o <<Own>>, b, h, d)
<1>1. /\ InOrder(e) /\ InOrder(w) /\ InOrder(b) /\ Before(e, w) /\ Before(e, b) /\ Before(w, b)
      /\ d \subseteq 1 .. h /\ (Elements(e) \cup Elements(w) \cup Elements(b)) \ {Own} = (1 .. h) \ d
    BY DEF Read
<1>2. PICK o, c : o = <<Own>> /\ c = w \o o
    OBVIOUS
<1>3. o \in Seq(Numbers) /\ o \in Seq(Nat) /\ w \in Seq(Nat) /\ InOrder(o)
    <2>1. Own \in Numbers
        BY DEF Numbers
    <2>2. <<Own>> \in Seq(Numbers)
        BY <2>1
    <2>3. QED BY <1>2, <2>2, NumberSeq, OrderShort
<1>4. Elements(c) = Elements(w) \cup Elements(o) /\ Elements(o) = {Own}
    <2>1. Elements(w \o o) = Elements(w) \cup Elements(o)
        BY <1>3, ElementsConcat
    <2>2. QED BY <1>2, <2>1, ElementsShort
<1>5. Before(w, o) /\ Before(e, c)
    BY <1>1, <1>4 DEF Before
<1>6. Before(c, b)
    <2>1. \A y \in Elements(b) : Own < y
        <3>1. Elements(b) \subseteq Messages
            BY ElementsType
        <3>2. \A y \in Messages : Own < y
            BY NumberFacts DEF Own, Messages
        <3>3. QED BY <3>1, <3>2
    <2>2. QED BY <1>1, <1>4, <2>1 DEF Before
<1>7. InOrder(c)
    BY <1>1, <1>2, <1>3, <1>5, OrderConcat
<1>8. (Elements(e) \cup Elements(c) \cup Elements(b)) \ {Own} = (1 .. h) \ d
    BY <1>1, <1>4
<1>9. Read(e, c, b, h, d)
    BY <1>1, <1>5, <1>6, <1>7, <1>8 DEF Read
<1>10. QED BY <1>2, <1>9

\* All that was read is in order.
LEMMA ReadIsOrdered ==
    ASSUME NEW e \in Seq(Nat), NEW w \in Seq(Nat), NEW b \in Seq(Nat), NEW h, NEW d, Read(e, w, b, h, d)
    PROVE  /\ InOrder((e \o w) \o b)
           /\ \A x : x \in Elements((e \o w) \o b) /\ x # Own <=> x \in (1 .. h) \ d
<1>1. /\ InOrder(e) /\ InOrder(w) /\ InOrder(b) /\ Before(e, w) /\ Before(e, b) /\ Before(w, b)
      /\ (Elements(e) \cup Elements(w) \cup Elements(b)) \ {Own} = (1 .. h) \ d
    BY DEF Read
<1>2. PICK v : v = e \o w
    OBVIOUS
<1>3. InOrder(e \o w) /\ Elements(e \o w) = Elements(e) \cup Elements(w)
    <2>1. InOrder(e \o w)
        BY <1>1, OrderConcat
    <2>2. Elements(e \o w) = Elements(e) \cup Elements(w)
        BY ElementsConcat
    <2>3. QED BY <2>1, <2>2
<1>4. v \in Seq(Nat) /\ InOrder(v) /\ Elements(v) = Elements(e) \cup Elements(w)
    BY <1>2, <1>3
<1>5. Before(v, b)
    BY <1>1, <1>4 DEF Before
<1>6. InOrder(v \o b) /\ Elements(v \o b) = Elements(v) \cup Elements(b)
    <2>1. InOrder(v \o b)
        BY <1>1, <1>4, <1>5, OrderConcat
    <2>2. Elements(v \o b) = Elements(v) \cup Elements(b)
        BY <1>4, ElementsConcat
    <2>3. QED BY <2>1, <2>2
<1>7. QED BY <1>1, <1>2, <1>4, <1>6

\* What the invariant says of a live stream is what the property says.
LEMMA GivenIsNotLost ==
    ASSUME IInv
    PROVE  NothingLost
<1>0. SUFFICES ASSUME NEW c \in Channels, stream[c] = "live",
                      NEW e, e = eaten[c], NEW w, w = sent[c] \o pending[c], NEW b, b = buffer[c]
             PROVE  /\ InOrder(e \o w \o b)
                    /\ Elements(e \o w \o b) \ {Own} = (1 .. arrived[c]) \ (dropped[c] \cup Elements(inbox[c]))
    BY DEF NothingLost, Tracked
<1>1. /\ e \in Seq(Messages) /\ sent[c] \in Seq(Numbers) /\ pending[c] \in Seq(Numbers) /\ b \in Seq(Messages)
      /\ arrived[c] \in Nat /\ inbox[c] \in Seq(Messages)
    BY <1>0, NumberFacts DEF IInv, Typed, Numbers
<1>2. w \in Seq(Numbers) /\ e \in Seq(Nat) /\ w \in Seq(Nat) /\ b \in Seq(Nat)
    <2>1. w \in Seq(Numbers)
        BY <1>0, <1>1
    <2>2. QED BY <1>1, <2>1, NumberSeq
<1>3. PICK h : h = arrived[c] - Len(inbox[c])
    OBVIOUS
<1>4. h \in Nat /\ Len(inbox[c]) \in Nat /\ arrived[c] = h + Len(inbox[c])
    BY <1>0, <1>1, <1>3 DEF IInv, ChannelFits, InboxFits
<1>5. Read(e, w, b, h, dropped[c])
    BY <1>0, <1>3 DEF IInv, ChannelFits, GivenFits
<1>6. InOrder((e \o w) \o b) /\ Elements((e \o w) \o b) \ {Own} = (1 .. h) \ dropped[c]
    <2>1. PICK d : d = dropped[c]
        OBVIOUS
    <2>2. Read(e, w, b, h, d)
        BY <1>5, <2>1
    <2>3. InOrder(e \o w \o b)
        BY <1>2, <2>2, ReadIsOrdered
    <2>4. \A x : x \in Elements(e \o w \o b) /\ x # Own <=> x \in (1 .. h) \ d
        BY <1>2, <2>2, ReadIsOrdered
    <2>5. QED BY <2>1, <2>3, <2>4
<1>7. Elements(inbox[c]) = h + 1 .. arrived[c]
    <2>1. \A i \in 1 .. Len(inbox[c]) : inbox[c][i] = h + i
        BY <1>0, <1>3 DEF IInv, ChannelFits, InboxFits
    <2>2. ASSUME NEW x \in Elements(inbox[c]) PROVE x \in h + 1 .. arrived[c]
        <3>1. PICK i \in 1 .. Len(inbox[c]) : x = inbox[c][i]
            BY DEF Elements
        <3>2. x = h + i
            BY <2>1, <3>1
        <3>3. QED BY <3>2, <1>4
    <2>3. ASSUME NEW x \in h + 1 .. arrived[c] PROVE x \in Elements(inbox[c])
        <3>1. PICK i : i = x - h
            OBVIOUS
        <3>2. i \in 1 .. Len(inbox[c]) /\ x = h + i
            BY <3>1, <1>4
        <3>3. QED BY <2>1, <3>2 DEF Elements
    <2>4. QED BY <2>2, <2>3
<1>8. (1 .. h) \ dropped[c] = (1 .. arrived[c]) \ (dropped[c] \cup Elements(inbox[c]))
    <2>1. (1 .. arrived[c]) \ (h + 1 .. arrived[c]) = 1 .. h
        BY <1>4
    <2>2. QED BY <2>1, <1>7
<1>9. QED BY <1>0, <1>6, <1>8

-----------------------------------------------------------------------------
(* The initial states.                                                     *)

\* Nothing in nothing.
LEMMA ReadNothing == Read(<<>>, <<>>, <<>>, 0, {})
<1>1. InOrder(<<>>) /\ Elements(<<>>) = {}
    BY OrderShort, ElementsShort
<1>2. Before(<<>>, <<>>)
    BY <1>1 DEF Before
<1>3. (1 .. 0) \ {} = {}
    OBVIOUS
<1>4. QED BY <1>1, <1>2, <1>3 DEF Read

\* The initial states fit.
LEMMA InitIInv == Init => IInv
<1> SUFFICES ASSUME Init PROVE IInv
    OBVIOUS
<1>1. /\ stream = [c \in Channels |-> "none"] /\ opening = [c \in Channels |-> "corked"]
      /\ conn = "new" /\ watched = {} /\ log = [c \in Channels |-> <<>>]
      /\ place = "start" /\ todo \in Programs /\ echo = FALSE /\ owed = {}
    BY DEF Init
<1>2. Typed
    <2>1. todo \in Seq(Steps)
        BY <1>1, ChannelsAssumption
    <2>2. PICK z : z = <<>>
        OBVIOUS
    <2>3. /\ 0 \in 0 .. MaxMessages /\ Len(z) <= HighWater
          /\ z \in Seq(Messages) /\ z \in Seq(Messages \cup {Own}) /\ z \in Seq({"opened", "sent", "closed"})
        BY <2>2, NumberFacts
    <2>4. /\ inbox = [c \in Channels |-> z] /\ buffer = [c \in Channels |-> z] /\ pending = [c \in Channels |-> z]
          /\ sent = [c \in Channels |-> z] /\ log = [c \in Channels |-> z] /\ eaten = [c \in Channels |-> z]
        BY <2>2 DEF Init
    <2>5. /\ inbox \in [Channels -> Seq(Messages)] /\ buffer \in [Channels -> Seq(Messages)]
          /\ eaten \in [Channels -> Seq(Messages)] /\ \A c \in Channels : Len(buffer[c]) <= HighWater
          /\ pending \in [Channels -> Seq(Messages \cup {Own})] /\ sent \in [Channels -> Seq(Messages \cup {Own})]
          /\ log \in [Channels -> Seq({"opened", "sent", "closed"})]
        BY <2>3, <2>4
    <2>6. /\ chan \in [Channels -> {"none", "connecting", "open", "closed"}]
          /\ arrived \in [Channels -> 0 .. MaxMessages]
          /\ calls \in [Channels -> SUBSET {"open", "closed", "error"}]
          /\ active \in [Channels -> BOOLEAN]
          /\ mode \in [Channels -> {"idle", "flowing", "paused"}]
          /\ dropped \in [Channels -> SUBSET Messages]
        BY <2>3 DEF Init
    <2>7. QED BY <1>1, <2>1, <2>5, <2>6 DEF Typed
<1>3. StepsFit
    BY <1>1, ChannelsAssumption DEF StepsFit
<1>4. ASSUME NEW c \in Channels PROVE ChannelFits(c)
    <2>1. InboxFits(c) /\ Fresh(c) /\ OpensOnce(c)
        BY <1>1 DEF Init, InboxFits, Fresh, OpensOnce
    <2>2. Refuses(c) /\ Reads(c) /\ Writes(c) /\ GivenFits(c)
        BY <1>1 DEF Refuses, Reads, Writes, GivenFits
    <2>3. StartsQuiet(c) /\ ToldFits(c)
        BY <1>1 DEF Init, StartsQuiet, ToldFits
    <2>4. QED BY <2>1, <2>2, <2>3 DEF ChannelFits
<1>5. QED BY <1>2, <1>3, <1>4 DEF IInv

-----------------------------------------------------------------------------
(* Channels that a step leaves alone.                                      *)

\* Nothing is changed of c but its native channel, its callbacks and what reads it.
Same(c) ==
    /\ arrived'[c] = arrived[c] /\ inbox'[c] = inbox[c] /\ stream'[c] = stream[c] /\ opening'[c] = opening[c]
    /\ buffer'[c] = buffer[c] /\ active'[c] = active[c] /\ pending'[c] = pending[c] /\ sent'[c] = sent[c]
    /\ (c \in watched' <=> c \in watched) /\ log'[c] = log[c] /\ eaten'[c] = eaten[c] /\ dropped'[c] = dropped[c]

\* The handler does not start again, nor forget its echo.
Goes == (echo => echo') /\ (place' = "start" => place = "start")

\* What was true of c stays true.
LEMMA SameFits ==
    ASSUME NEW c \in Channels, ChannelFits(c), Same(c), Goes, OpensOnce(c)', Reads(c)'
    PROVE  ChannelFits(c)'
<1> USE DEF Same
<1>1. InboxFits(c)' /\ Fresh(c)'
    BY DEF ChannelFits, InboxFits, Fresh
<1>2. Refuses(c)' /\ Writes(c)' /\ StartsQuiet(c)'
    BY DEF ChannelFits, Refuses, Writes, StartsQuiet, Goes
<1>3. GivenFits(c)' /\ ToldFits(c)'
    BY DEF ChannelFits, GivenFits, ToldFits
<1>4. QED BY <1>1, <1>2, <1>3 DEF ChannelFits

\* A reader that stays keeps what it reads.
LEMMA SameReads ==
    ASSUME NEW c \in Channels, ChannelFits(c), stream'[c] = stream[c], buffer'[c] = buffer[c], mode'[c] = mode[c],
           echo => echo', place = "waiting" => place' = "waiting"
    PROVE  Reads(c)'
BY DEF ChannelFits, Reads

\* A stream that is left alone opens as before.
LEMMA SameOpens ==
    ASSUME NEW c \in Channels, ChannelFits(c), chan'[c] = chan[c], stream'[c] = stream[c],
           opening'[c] = opening[c], calls'[c] = calls[c]
    PROVE  OpensOnce(c)'
BY DEF ChannelFits, OpensOnce

-----------------------------------------------------------------------------
(* The native library.                                                     *)

\* What the native library does not touch.
Ours == <<stream, opening, readVars, writeVars, conn, watched, log, stepVars>>

\* A change of native channels and callbacks that tells no stream twice that it opened.
LEMMA NativeKeeps ==
    ASSUME IInv, UNCHANGED <<Ours, arrived, inbox>>,
           chan' \in [Channels -> {"none", "connecting", "open", "closed"}],
           calls' \in [Channels -> SUBSET {"open", "closed", "error"}],
           \A c \in Channels : OpensOnce(c)'
    PROVE  IInv'
<1>1. /\ UNCHANGED <<arrived, inbox, stream, opening, buffer, active, mode, eaten, dropped, pending, sent>>
      /\ UNCHANGED <<conn, watched, log, place, todo, echo, owed>>
    BY DEF Ours, readVars, writeVars, stepVars
<1>2. Typed'
    BY <1>1 DEF IInv, Typed
<1>3. StepsFit'
    BY <1>1 DEF IInv, StepsFit
<1>4. ASSUME NEW c \in Channels PROVE ChannelFits(c)'
    <2>1. ChannelFits(c) /\ Same(c) /\ Goes /\ OpensOnce(c)'
        BY <1>1 DEF IInv, Same, Goes
    <2>2. Reads(c)'
        BY <1>1, <2>1, SameReads
    <2>3. QED BY <2>1, <2>2, SameFits
<1>5. QED BY <1>2, <1>3, <1>4 DEF IInv

\* Channels that the client opens, and that open, close or fail.
LEMMA NativeFits ==
    ASSUME IInv, NEW c \in Channels, ClientOpens(c) \/ NativeOpens(c) \/ NativeCloses(c) \/ NativeError(c)
    PROVE  IInv'
<1>1. /\ chan \in [Channels -> {"none", "connecting", "open", "closed"}]
      /\ calls \in [Channels -> SUBSET {"open", "closed", "error"}]
      /\ \A d \in Channels : OpensOnce(d)
    BY DEF IInv, Typed, ChannelFits
<1>2. /\ UNCHANGED <<Ours, arrived, inbox>> /\ UNCHANGED <<stream, opening>>
    BY DEF ClientOpens, NativeOpens, NativeCloses, NativeError, Ours
<1>3. /\ chan' \in [Channels -> {"none", "connecting", "open", "closed"}]
      /\ calls' \in [Channels -> SUBSET {"open", "closed", "error"}]
    BY <1>1 DEF ClientOpens, NativeOpens, NativeCloses, NativeError
<1>4. ASSUME NEW d \in Channels PROVE OpensOnce(d)'
    <2>1. CASE d = c
        BY <1>1, <1>2, <2>1 DEF ClientOpens, NativeOpens, NativeCloses, NativeError, OpensOnce
    <2>2. CASE d # c
        <3>1. chan'[d] = chan[d] /\ calls'[d] = calls[d]
            BY <1>1, <2>2 DEF ClientOpens, NativeOpens, NativeCloses, NativeError
        <3>2. QED BY <1>1, <1>2, <3>1 DEF OpensOnce
    <2>3. QED BY <2>1, <2>2
<1>5. QED BY <1>2, <1>3, <1>4, NativeKeeps

\* A message that arrives is the newest.
LEMMA SendsFits ==
    ASSUME IInv, NEW c \in Channels, ClientSends(c)
    PROVE  IInv'
<1> USE DEF readVars, writeVars, stepVars
<1>1. /\ arrived[c] < MaxMessages /\ arrived' = [arrived EXCEPT ![c] = @ + 1]
      /\ inbox' = [inbox EXCEPT ![c] = Append(@, arrived[c] + 1)]
      /\ UNCHANGED <<chan, calls, stream, opening, readVars, writeVars, conn, watched, log, stepVars>>
    BY DEF ClientSends
<1>2. /\ arrived \in [Channels -> 0 .. MaxMessages] /\ inbox \in [Channels -> Seq(Messages)]
      /\ \A d \in Channels : ChannelFits(d)
    BY DEF IInv, Typed
<1>3. PICK a, q : a = arrived[c] /\ q = inbox[c]
    OBVIOUS
<1>4. /\ a \in Nat /\ a + 1 \in 0 .. MaxMessages /\ a + 1 \in Messages /\ q \in Seq(Messages) /\ Len(q) \in Nat
      /\ Len(q) <= a /\ \A i \in 1 .. Len(q) : q[i] = a - Len(q) + i
    BY <1>1, <1>2, <1>3, NumberFacts DEF ChannelFits, InboxFits, Messages
<1>5. PICK r : r = Append(q, a + 1)
    OBVIOUS
<1>6. /\ r \in Seq(Messages) /\ Len(r) = Len(q) + 1 /\ r[Len(q) + 1] = a + 1
      /\ \A i \in 1 .. Len(q) : r[i] = q[i]
    BY <1>4, <1>5, AppendProperties
<1>7. \A i \in 1 .. Len(r) : r[i] = a + 1 - Len(r) + i
    <2> SUFFICES ASSUME NEW i \in 1 .. Len(r) PROVE r[i] = a + 1 - Len(r) + i
        OBVIOUS
    <2>1. CASE i = Len(q) + 1
        BY <2>1, <1>4, <1>6
    <2>2. CASE i # Len(q) + 1
        <3>1. i \in 1 .. Len(q)
            BY <2>2, <1>4, <1>6
        <3>2. r[i] = a - Len(q) + i
            BY <3>1, <1>4, <1>6
        <3>3. QED BY <3>2, <1>4, <1>6
    <2>3. QED BY <2>1, <2>2
<1>8. /\ arrived' = [arrived EXCEPT ![c] = a + 1] /\ inbox' = [inbox EXCEPT ![c] = r]
    BY <1>1, <1>3, <1>5
<1>9. arrived' \in [Channels -> 0 .. MaxMessages] /\ inbox' \in [Channels -> Seq(Messages)]
    BY <1>2, <1>4, <1>6, <1>8
<1>10. arrived'[c] = a + 1 /\ inbox'[c] = r
    BY <1>2, <1>8
<1>11. a + 1 - Len(r) = a - Len(q) /\ Len(r) <= a + 1 /\ (Len(q) = a => Len(r) = a + 1)
    BY <1>4, <1>6
<1>12. Typed'
    BY <1>1, <1>9 DEF IInv, Typed
<1>13. StepsFit'
    BY <1>1 DEF IInv, StepsFit
<1>14. ChannelFits(c)'
    <2>1. ChannelFits(c)
        BY <1>2
    <2>2. InboxFits(c)'
        <3>1. Len(r) <= a + 1 /\ \A i \in 1 .. Len(r) : r[i] = a + 1 - Len(r) + i
            BY <1>7, <1>11
        <3>2. QED BY <3>1, <1>4, <1>6, <1>10 DEF InboxFits
    <2>3. Fresh(c)'
        BY <2>1, <1>1, <1>3, <1>10, <1>11 DEF ChannelFits, Fresh
    <2>4. OpensOnce(c)' /\ Refuses(c)' /\ Reads(c)' /\ Writes(c)' /\ StartsQuiet(c)' /\ ToldFits(c)'
        BY <2>1, <1>1 DEF ChannelFits, OpensOnce, Refuses, Reads, Writes, StartsQuiet, ToldFits
    <2>5. arrived'[c] - Len(inbox'[c]) = arrived[c] - Len(inbox[c])
        <3>1. arrived'[c] - Len(inbox'[c]) = a + 1 - Len(r)
            BY <1>4, <1>6, <1>10
        <3>2. QED BY <3>1, <1>3, <1>11
    <2>6. GivenFits(c)'
        BY <2>1, <2>5, <1>1 DEF ChannelFits, GivenFits
    <2>7. QED BY <2>2, <2>3, <2>4, <2>6 DEF ChannelFits
<1>15. ASSUME NEW d \in Channels, d # c PROVE ChannelFits(d)'
    <2>1. ChannelFits(d) /\ arrived'[d] = arrived[d] /\ inbox'[d] = inbox[d]
        BY <1>2, <1>8, <1>15
    <2>2. Same(d) /\ Goes
        BY <2>1, <1>1 DEF Same, Goes
    <2>3. Reads(d)' /\ OpensOnce(d)'
        BY <2>1, <1>1 DEF ChannelFits, Reads, OpensOnce
    <2>4. QED BY <2>1, <2>2, <2>3, SameFits
<1>16. QED BY <1>12, <1>13, <1>14, <1>15 DEF IInv

-----------------------------------------------------------------------------
(* Channels that are wrapped and announced.                                *)

\* A new stream was given nothing, and one that flows has a reader.
LEMMA TrackFits ==
    ASSUME IInv, NEW c \in Channels, stream[c] = "none", Track(c), OpensOnce(c)',
           UNCHANGED <<arrived, inbox, buffer, active, eaten, dropped, pending, sent, log, echo>>,
           opening'[c] # "open", place = "waiting" => place' = "waiting", place' # "start" \/ place' = place
    PROVE  ChannelFits(c)'
<1>1. /\ ChannelFits(c) /\ echo \in BOOLEAN
      /\ stream \in [Channels -> {"none", "live", "gone"}] /\ mode \in [Channels -> {"idle", "flowing", "paused"}]
      /\ arrived[c] \in Nat /\ HighWater > 0
    BY NumberFacts DEF IInv, Typed
<1>2. /\ opening[c] = "corked" /\ buffer[c] = <<>> /\ active[c]
      /\ pending[c] = <<>> /\ sent[c] = <<>> /\ eaten[c] = <<>> /\ dropped[c] = {}
      /\ Len(inbox[c]) = arrived[c] /\ log[c] = <<>> /\ Len(<<>>) = 0
    BY <1>1 DEF ChannelFits, Fresh, ToldFits
<1>3. stream'[c] = "live" /\ (mode'[c] = "flowing" => echo' \/ place' = "waiting")
    BY <1>1 DEF Track
<1>4. InboxFits(c)' /\ Fresh(c)' /\ StartsQuiet(c)'
    BY <1>1, <1>2, <1>3 DEF ChannelFits, InboxFits, Fresh, StartsQuiet
<1>5. Refuses(c)' /\ Reads(c)'
    BY <1>1, <1>2, <1>3 DEF Refuses, Reads
<1>6. Writes(c)'
    <2>1. Elements(<<>>) = {}
        BY ElementsShort
    <2>2. QED BY <2>1, <1>2, <1>3 DEF Writes
<1>7. GivenFits(c)'
    <2>1. sent'[c] \o pending'[c] = <<>> /\ arrived'[c] - Len(inbox'[c]) = 0
        BY <1>1, <1>2
    <2>2. eaten'[c] = <<>> /\ buffer'[c] = <<>> /\ dropped'[c] = {}
        BY <1>2
    <2>3. QED BY <2>1, <2>2, ReadNothing DEF GivenFits
<1>8. ToldFits(c)'
    <2>1. Count(<<>>, "opened") = 0 /\ Count(<<>>, "closed") = 0 /\ Count(<<>>, "sent") = 0
        BY CountShort
    <2>2. Told(<<>>, opening'[c], "live", 0)
        BY <2>1 DEF Told
    <2>3. log'[c] = <<>> /\ Len(sent'[c]) = 0
        BY <1>2
    <2>4. QED BY <2>2, <2>3, <1>3 DEF ToldFits
<1>9. QED BY <1>4, <1>5, <1>6, <1>7, <1>8 DEF ChannelFits

\* The other streams are left alone when one is wrapped.
LEMMA TrackOthers ==
    ASSUME IInv, NEW c \in Channels, NEW d \in Channels, d # c, Track(c), chan'[d] = chan[d], opening'[d] = opening[d],
           UNCHANGED <<arrived, inbox, calls, buffer, active, eaten, dropped, pending, sent, log, echo>>,
           place = "waiting" => place' = "waiting", place' # "start" \/ place' = place
    PROVE  ChannelFits(d)'
<1>1. ChannelFits(d)
    BY DEF IInv
<1>2. /\ stream'[d] = stream[d] /\ mode'[d] = mode[d] /\ (d \in watched' <=> d \in watched)
    BY DEF IInv, Typed, Track
<1>3. Same(d) /\ Goes
    BY <1>2 DEF Same, Goes
<1>4. Reads(d)'
    BY <1>1, <1>2, SameReads
<1>5. OpensOnce(d)'
    BY <1>1, <1>2, SameOpens
<1>6. QED BY <1>1, <1>3, <1>4, <1>5, SameFits

\* The types of what wrapping a channel sets.
LEMMA TrackTypes ==
    ASSUME Typed, NEW c \in Channels, Track(c)
    PROVE  /\ stream' \in [Channels -> {"none", "live", "gone"}]
           /\ mode' \in [Channels -> {"idle", "flowing", "paused"}] /\ watched' \subseteq Channels
BY DEF Typed, Track

\* A channel of the client is wrapped.
LEMMA ArrivesFits ==
    ASSUME IInv, NEW c \in Channels, ChannelArrives(c)
    PROVE  IInv'
<1>1. /\ chan[c] # "none" /\ stream[c] = "none" /\ Track(c)
      /\ opening' = [opening EXCEPT ![c] = IF chan[c] = "open" THEN "immediate" ELSE "corked"]
      /\ UNCHANGED <<chan, arrived, inbox, calls, buffer, active, eaten, dropped, pending, sent, conn, log>>
      /\ UNCHANGED <<place, todo, echo, owed>>
    BY DEF ChannelArrives, nativeVars, writeVars, stepVars
<1>2. Typed /\ StepsFit /\ ChannelFits(c)
    BY DEF IInv
<1>3. opening' \in [Channels -> {"corked", "immediate", "open"}] /\ opening'[c] # "open"
    BY <1>1, <1>2 DEF Typed
<1>4. Typed'
    <2>1. /\ stream' \in [Channels -> {"none", "live", "gone"}]
          /\ mode' \in [Channels -> {"idle", "flowing", "paused"}] /\ watched' \subseteq Channels
        BY <1>1, <1>2, TrackTypes
    <2>2. QED BY <2>1, <1>1, <1>2, <1>3 DEF Typed
<1>5. StepsFit'
    BY <1>1, <1>2 DEF StepsFit, Track
<1>6. OpensOnce(c)'
    <2>1. stream'[c] = "live" /\ opening'[c] = IF chan[c] = "open" THEN "immediate" ELSE "corked"
        BY <1>1, <1>2 DEF Track, Typed
    <2>2. QED BY <2>1, <1>1, <1>2 DEF ChannelFits, OpensOnce
<1>7. ChannelFits(c)'
    BY <1>1, <1>3, <1>6, TrackFits
<1>8. ASSUME NEW d \in Channels, d # c PROVE ChannelFits(d)'
    <2>1. opening'[d] = opening[d] /\ chan'[d] = chan[d]
        BY <1>1, <1>2, <1>8 DEF Typed
    <2>2. QED BY <2>1, <1>1, <1>8, TrackOthers
<1>9. QED BY <1>4, <1>5, <1>7, <1>8 DEF IInv

\* A channel that a step creates is wrapped.
LEMMA CreateFits ==
    ASSUME IInv, StartCreate
    PROVE  IInv'
<1>1. /\ place = "run" /\ todo # <<>> /\ Head(todo).type = "create"
      /\ UNCHANGED <<arrived, inbox, calls, opening, buffer, active, eaten, dropped, pending, sent, conn, log>>
      /\ UNCHANGED <<todo, echo, owed>>
    BY DEF StartCreate, AtStep, writeVars
<1>2. Typed /\ StepsFit
    BY DEF IInv
<1>3. CASE place' = "throw" /\ UNCHANGED <<chan, stream, mode, watched>>
    <2>1. Typed' /\ StepsFit'
        BY <1>1, <1>2, <1>3 DEF Typed, StepsFit
    <2>2. ASSUME NEW d \in Channels PROVE ChannelFits(d)'
        <3>1. ChannelFits(d) /\ Same(d) /\ Goes
            BY <1>1, <1>3 DEF IInv, Same, Goes
        <3>2. Reads(d)' /\ OpensOnce(d)'
            BY <3>1, <1>1, <1>3 DEF ChannelFits, Reads, OpensOnce
        <3>3. QED BY <3>1, <3>2, SameFits
    <2>3. QED BY <2>1, <2>2 DEF IInv
<1>4. ASSUME NEW c \in Local, chan[c] = "none", chan' = [chan EXCEPT ![c] = "connecting"], Track(c), place' = "creating",
             conn # "closed"
      PROVE  IInv'
    <2>1. /\ c \in Channels /\ stream[c] = "none" /\ opening[c] = "corked" /\ "open" \notin calls[c]
        BY <1>4 DEF IInv, ChannelFits, OpensOnce, Channels
    <2>2. /\ chan' \in [Channels -> {"none", "connecting", "open", "closed"}] /\ chan'[c] = "connecting"
          /\ opening'[c] = "corked"
        BY <1>1, <1>2, <1>4, <2>1 DEF Typed
    <2>3. Typed'
        <3>1. /\ stream' \in [Channels -> {"none", "live", "gone"}]
              /\ mode' \in [Channels -> {"idle", "flowing", "paused"}] /\ watched' \subseteq Channels
            BY <1>2, <1>4, <2>1, TrackTypes
        <3>2. QED BY <3>1, <1>1, <1>2, <1>4, <2>2 DEF Typed
    <2>4. StepsFit'
        BY <1>1, <1>2, <1>4 DEF StepsFit, Track
    <2>5. OpensOnce(c)'
        BY <1>1, <2>1, <2>2 DEF OpensOnce
    <2>6. ChannelFits(c)'
        BY <1>1, <1>4, <2>1, <2>2, <2>5, TrackFits
    <2>7. ASSUME NEW d \in Channels, d # c PROVE ChannelFits(d)'
        <3>1. opening'[d] = opening[d] /\ chan'[d] = chan[d]
            BY <1>1, <1>2, <1>4, <2>7 DEF Typed
        <3>2. QED BY <3>1, <1>1, <1>4, <2>1, <2>7, TrackOthers
    <2>8. QED BY <2>3, <2>4, <2>6, <2>7 DEF IInv
<1>5. QED BY <1>3, <1>4 DEF StartCreate, Matching

-----------------------------------------------------------------------------
(* Steps that end, and what ends with the connection.                      *)

\* The step that ends was not an echo that goes on.
LEMMA DoneFits ==
    ASSUME Typed, StepsFit, StepDone, todo # <<>>, place \notin {"start", "over"}, echo' = echo, owed' = {},
           conn' = "new" => conn = "new"
    PROVE  StepsFit' /\ todo' \in Seq(Steps) /\ place' = "run" /\ Goes
<1>1. todo \in Seq(Steps) /\ place' = "run" /\ todo' = Tail(todo)
    BY DEF Typed, StepDone
<1>2. PICK n, t : n = Len(todo) /\ t = Tail(todo)
    OBVIOUS
<1>3. /\ t \in Seq(Steps) /\ n \in Nat /\ n > 0 /\ Len(t) = n - 1
      /\ \A i \in 1 .. Len(t) : t[i] = todo[i + 1]
    BY <1>1, <1>2, HeadTailProperties
<1>4. ASSUME NEW i \in 1 .. Len(t), t[i].type = "echo" PROVE i = Len(t)
    <2>1. PICK k : k = i + 1
        OBVIOUS
    <2>2. k \in 1 .. Len(todo) /\ todo[k].type = "echo"
        BY <2>1, <1>2, <1>3, <1>4
    <2>3. k = Len(todo)
        BY <2>2 DEF StepsFit
    <2>4. QED BY <2>1, <2>3, <1>2, <1>3
<1>5. echo => t = <<>>
    <2>1. echo => n = 1
        BY <1>2 DEF StepsFit
    <2>2. n = 1 => Len(t) = 0
        BY <1>3
    <2>3. Len(t) = 0 => t = <<>>
        BY <1>3, EmptySeq
    <2>4. QED BY <2>1, <2>2, <2>3
<1>6. \A i \in 1 .. Len(todo') : todo'[i].type = "echo" => i = Len(todo')
    BY <1>1, <1>2, <1>4
<1>7. StepsFit'
    BY <1>1, <1>2, <1>5, <1>6 DEF StepsFit
<1>8. QED BY <1>1, <1>2, <1>3, <1>7 DEF Goes

\* The connection is announced with the channels that exist.
LEMMA ConnectedFits ==
    ASSUME IInv, Connected
    PROVE  IInv'
<1>1. /\ conn = "new" /\ conn' = "connected" /\ watched' = Tracked /\ place' = "run"
      /\ log' = [c \in Channels |-> IF stream[c] = "live" /\ opening[c] = "open" THEN <<"opened">> ELSE <<>>]
      /\ UNCHANGED <<chan, arrived, inbox, calls, stream, opening, buffer, active, mode, eaten, dropped>>
      /\ UNCHANGED <<pending, sent, todo, echo, owed>>
    BY DEF Connected, nativeVars, readVars, writeVars
<1>2. Typed /\ StepsFit /\ place = "start" /\ watched = {} /\ ~echo
    BY <1>1 DEF IInv, StepsFit
<1>3. log' \in [Channels -> Seq({"opened", "sent", "closed"})]
    <2>1. <<"opened">> \in Seq({"opened", "sent", "closed"}) /\ <<>> \in Seq({"opened", "sent", "closed"})
        OBVIOUS
    <2>2. QED BY <1>1, <2>1
<1>4. Typed'
    BY <1>1, <1>2, <1>3 DEF Typed, Tracked
<1>5. StepsFit'
    BY <1>1, <1>2 DEF StepsFit
<1>6. ASSUME NEW c \in Channels PROVE ChannelFits(c)'
    <2>1. ChannelFits(c) /\ c \notin watched /\ (c \in watched' <=> stream[c] = "live")
        BY <1>1, <1>2 DEF IInv, Tracked
    <2>2. InboxFits(c)' /\ Fresh(c)' /\ OpensOnce(c)'
        BY <1>1, <2>1 DEF ChannelFits, InboxFits, Fresh, OpensOnce
    <2>3. Refuses(c)' /\ Writes(c)' /\ GivenFits(c)' /\ StartsQuiet(c)'
        BY <1>1, <2>1 DEF ChannelFits, Refuses, Writes, GivenFits, StartsQuiet
    <2>4. Reads(c)'
        BY <1>1, <1>2, <2>1 DEF ChannelFits, Reads
    <2>5. ToldFits(c)'
        <3>1. sent[c] = <<>> /\ Len(<<>>) = 0
            BY <1>2, <2>1 DEF ChannelFits, StartsQuiet
        <3>2. log'[c] = IF stream[c] = "live" /\ opening[c] = "open" THEN <<"opened">> ELSE <<>>
            BY <1>1
        <3>3. /\ Count(<<>>, "opened") = 0 /\ Count(<<>>, "closed") = 0 /\ Count(<<>>, "sent") = 0
              /\ Count(<<"opened">>, "opened") = 1 /\ Count(<<"opened">>, "closed") = 0
              /\ Count(<<"opened">>, "sent") = 0
            BY CountShort
        <3>4. stream[c] = "live" => Told(log'[c], opening[c], stream[c], 0)
            BY <3>2, <3>3 DEF Told
        <3>5. Len(sent'[c]) = 0 /\ opening'[c] = opening[c] /\ stream'[c] = stream[c]
            BY <1>1, <3>1
        <3>6. QED BY <2>1, <3>2, <3>4, <3>5 DEF ToldFits
    <2>6. QED BY <2>2, <2>3, <2>4, <2>5 DEF ChannelFits
<1>7. QED BY <1>4, <1>5, <1>6 DEF IInv

\* The step waits for a channel, or finds one.
LEMMA WaitChannelFits ==
    ASSUME IInv, StartWaitChannel
    PROVE  IInv'
<1>1. /\ place = "run" /\ todo # <<>>
      /\ StepDone \/ (place' = "wait-channel" /\ UNCHANGED todo)
      /\ UNCHANGED <<chan, arrived, inbox, calls, stream, opening, buffer, active, mode, eaten, dropped>>
      /\ UNCHANGED <<pending, sent, conn, watched, log, echo, owed>>
    BY DEF StartWaitChannel, AtStep, nativeVars, readVars, writeVars
<1>2. Typed /\ StepsFit /\ owed = {}
    BY <1>1 DEF IInv, StepsFit
<1>3. StepsFit' /\ todo' \in Seq(Steps) /\ place' \in {"run", "wait-channel"} /\ Goes
    <2>1. CASE StepDone
        BY <1>1, <1>2, <2>1, DoneFits
    <2>2. CASE place' = "wait-channel" /\ UNCHANGED todo
        BY <1>1, <1>2, <2>2 DEF StepsFit, Typed, Goes
    <2>3. QED BY <1>1, <2>1, <2>2
<1>4. Typed'
    BY <1>1, <1>2, <1>3 DEF Typed
<1>5. ASSUME NEW c \in Channels PROVE ChannelFits(c)'
    <2>1. ChannelFits(c) /\ Same(c)
        BY <1>1 DEF IInv, Same
    <2>2. Reads(c)' /\ OpensOnce(c)'
        BY <1>1, <2>1 DEF ChannelFits, Reads, OpensOnce
    <2>3. QED BY <1>3, <2>1, <2>2, SameFits
<1>6. QED BY <1>3, <1>4, <1>5 DEF IInv

\* Every native channel is closed.
LEMMA CloseFits ==
    ASSUME IInv, CloseChannels, NEW c \in Channels
    PROVE  /\ chan' \in [Channels -> {"none", "connecting", "open", "closed"}]
           /\ calls' \in [Channels -> SUBSET {"open", "closed", "error"}]
           /\ stream'[c] = stream[c] /\ opening'[c] = opening[c] => OpensOnce(c)'
<1>1. /\ chan \in [Channels -> {"none", "connecting", "open", "closed"}]
      /\ calls \in [Channels -> SUBSET {"open", "closed", "error"}] /\ OpensOnce(c)
    BY DEF IInv, Typed, ChannelFits
<1>2. PICK S : S = {d \in Channels : chan[d] \in {"connecting", "open"}}
    OBVIOUS
<1>3. /\ chan' = [d \in Channels |-> IF d \in S THEN "closed" ELSE chan[d]]
      /\ calls' = [d \in Channels |-> IF d \in S THEN calls[d] \cup {"closed"} ELSE calls[d]]
    BY <1>2 DEF CloseChannels
<1>4. chan' \in [Channels -> {"none", "connecting", "open", "closed"}]
    BY <1>1, <1>3
<1>5. calls' \in [Channels -> SUBSET {"open", "closed", "error"}]
    BY <1>1, <1>3
<1>6. /\ chan'[c] = "none" => chan[c] = "none"
      /\ chan'[c] # "connecting"
      /\ "open" \in calls'[c] <=> "open" \in calls[c]
    BY <1>1, <1>2, <1>3
<1>7. QED BY <1>1, <1>4, <1>5, <1>6 DEF OpensOnce

\* The handler closes the connection.
LEMMA HandlerClosesFits ==
    ASSUME IInv, HandlerCloses
    PROVE  IInv'
<1>1. /\ place = "throw" \/ (place = "run" /\ todo = <<>>)
      /\ place' = "over" /\ conn' = "closed" /\ CloseChannels
      /\ UNCHANGED <<arrived, inbox, stream, opening, buffer, active, mode, eaten, dropped>>
      /\ UNCHANGED <<pending, sent, watched, log, todo, echo, owed>>
    BY DEF HandlerCloses, readVars, writeVars
<1>2. Typed /\ StepsFit
    BY DEF IInv
<1>3. Typed'
    <2>1. Channels # {} => /\ chan' \in [Channels -> {"none", "connecting", "open", "closed"}]
                           /\ calls' \in [Channels -> SUBSET {"open", "closed", "error"}]
        BY <1>1, CloseFits
    <2>2. Channels = {} => /\ chan' \in [Channels -> {"none", "connecting", "open", "closed"}]
                           /\ calls' \in [Channels -> SUBSET {"open", "closed", "error"}]
        BY <1>1 DEF CloseChannels
    <2>3. QED BY <2>1, <2>2, <1>1, <1>2 DEF Typed
<1>4. StepsFit'
    BY <1>1, <1>2 DEF StepsFit
<1>5. ASSUME NEW c \in Channels PROVE ChannelFits(c)'
    <2>1. ChannelFits(c) /\ Same(c) /\ Goes
        BY <1>1 DEF IInv, Same, Goes
    <2>2. OpensOnce(c)'
        BY <1>1, CloseFits
    <2>3. Reads(c)'
        BY <1>1, <2>1 DEF ChannelFits, Reads
    <2>4. QED BY <2>1, <2>2, <2>3, SameFits
<1>6. QED BY <1>3, <1>4, <1>5 DEF IInv

\* The connection goes, which ends an echo.
LEMMA ConnectionGoesFits ==
    ASSUME IInv, ConnectionGoes
    PROVE  IInv'
<1>1. /\ conn' # "new" /\ conn' \in {"new", "connected", "lost", "closed"} /\ CloseChannels
      /\ (place = "echoing" /\ StepDone) \/ (place # "echoing" /\ UNCHANGED <<place, todo>>)
      /\ UNCHANGED <<arrived, inbox, stream, opening, buffer, active, mode, eaten, dropped>>
      /\ UNCHANGED <<pending, sent, watched, log, echo, owed>>
    BY DEF ConnectionGoes, readVars, writeVars
<1>2. Typed /\ StepsFit
    BY DEF IInv
<1>3. /\ StepsFit' /\ todo' \in Seq(Steps) /\ Goes /\ (place = "waiting" => place' = "waiting")
      /\ place' = place \/ place' = "run"
    <2>1. CASE place = "echoing" /\ StepDone
        <3>1. todo # <<>> /\ owed' = {}
            BY <1>1, <1>2, <2>1 DEF StepsFit
        <3>2. StepsFit' /\ todo' \in Seq(Steps) /\ place' = "run" /\ Goes
            BY <1>1, <1>2, <2>1, <3>1, DoneFits
        <3>3. QED BY <2>1, <3>2
    <2>2. CASE UNCHANGED <<place, todo>>
        BY <1>1, <1>2, <2>2 DEF StepsFit, Typed, Goes
    <2>3. QED BY <1>1, <2>1, <2>2
<1>4. Typed'
    <2>1. Channels # {} => /\ chan' \in [Channels -> {"none", "connecting", "open", "closed"}]
                           /\ calls' \in [Channels -> SUBSET {"open", "closed", "error"}]
        BY <1>1, CloseFits
    <2>2. Channels = {} => /\ chan' \in [Channels -> {"none", "connecting", "open", "closed"}]
                           /\ calls' \in [Channels -> SUBSET {"open", "closed", "error"}]
        BY <1>1 DEF CloseChannels
    <2>3. QED BY <2>1, <2>2, <1>1, <1>2, <1>3 DEF Typed
<1>5. ASSUME NEW c \in Channels PROVE ChannelFits(c)'
    <2>1. ChannelFits(c) /\ Same(c)
        BY <1>1 DEF IInv, Same
    <2>2. OpensOnce(c)'
        BY <1>1, CloseFits
    <2>3. Reads(c)'
        BY <1>1, <1>3, <2>1, SameReads
    <2>4. QED BY <1>3, <2>1, <2>2, <2>3, SameFits
<1>6. QED BY <1>3, <1>4, <1>5 DEF IInv

-----------------------------------------------------------------------------
(* Announcements.                                                          *)

\* How often something that happened once was announced.
Flag(yes) == IF yes THEN 1 ELSE 0

\* More events tell of what happened since.
LEMMA ToldMore ==
    ASSUME NEW l \in Seq(Events), NEW x \in Seq(Events), NEW o, NEW s, NEW k \in Nat, Told(l, o, s, k),
           NEW o2, NEW s2, NEW k2 \in Nat,
           Flag(o = "open") + Count(x, "opened") = Flag(o2 = "open"),
           Flag(s = "gone") + Count(x, "closed") = Flag(s2 = "gone"),
           k2 <= k + Count(x, "sent"),
           s2 = "live" => s = "live" /\ k2 = k + Count(x, "sent")
    PROVE  l \o x \in Seq(Events) /\ Told(l \o x, o2, s2, k2)
<1>1. l \o x \in Seq(Events) /\ Len(l) \in Nat /\ Len(x) \in Nat
    OBVIOUS
<1>2. \A e : Count(l \o x, e) = Count(l, e) + Count(x, e)
    BY CountConcat
<1>3. \A e : Count(l, e) \in Nat /\ Count(x, e) \in Nat
    BY <1>1, CountType
<1>4. PICK a, b, c, i, j, m :
          /\ a = Count(l, "opened") /\ b = Count(l, "closed") /\ c = Count(l, "sent")
          /\ i = Count(x, "opened") /\ j = Count(x, "closed") /\ m = Count(x, "sent")
    OBVIOUS
<1>5. a \in Nat /\ b \in Nat /\ c \in Nat /\ i \in Nat /\ j \in Nat /\ m \in Nat
    BY <1>3, <1>4
<1>6. /\ a = Flag(o = "open") /\ b = Flag(s = "gone") /\ c >= k /\ (s = "live" => c = k)
    BY <1>4 DEF Told, Flag
<1>7. /\ Count(l \o x, "opened") = a + i /\ Count(l \o x, "closed") = b + j /\ Count(l \o x, "sent") = c + m
    BY <1>2, <1>4
<1>8. a + i = Flag(o2 = "open") /\ b + j = Flag(s2 = "gone")
    BY <1>4, <1>6
<1>9. c + m >= k2 /\ (s2 = "live" => c + m = k2)
    <2>1. k2 <= k + m /\ (s2 = "live" => s = "live" /\ k2 = k + m)
        BY <1>4
    <2>2. QED BY <2>1, <1>5, <1>6
<1>10. Told(l \o x, o2, s2, k2)
    BY <1>7, <1>8, <1>9 DEF Told, Flag
<1>11. QED BY <1>1, <1>10

\* The same of a channel, whose events nobody hears before it is watched.
LEMMA AnnouncedFits ==
    ASSUME IInv, NEW c \in Channels, NEW x \in Seq(Events), log'[c] = Announced(c, x), watched' = watched,
           Len(sent'[c]) \in Nat,
           Flag(opening[c] = "open") + Count(x, "opened") = Flag(opening'[c] = "open"),
           Flag(stream[c] = "gone") + Count(x, "closed") = Flag(stream'[c] = "gone"),
           Len(sent'[c]) <= Len(sent[c]) + Count(x, "sent"),
           stream'[c] = "live" => stream[c] = "live" /\ Len(sent'[c]) = Len(sent[c]) + Count(x, "sent")
    PROVE  ToldFits(c)' /\ log'[c] \in Seq(Events)
<1>1. log[c] \in Seq(Events) /\ Len(sent[c]) \in Nat /\ ToldFits(c)
    BY DEF IInv, Typed, ChannelFits, Events
<1>2. CASE c \notin watched
    BY <1>1, <1>2 DEF ToldFits, Announced
<1>3. CASE c \in watched
    <2>1. PICK l, o, s, k : l = log[c] /\ o = opening[c] /\ s = stream[c] /\ k = Len(sent[c])
        OBVIOUS
    <2>2. PICK o2, s2, k2 : o2 = opening'[c] /\ s2 = stream'[c] /\ k2 = Len(sent'[c])
        OBVIOUS
    <2>3. l \in Seq(Events) /\ k \in Nat /\ k2 \in Nat /\ Told(l, o, s, k)
        BY <1>1, <1>3, <2>1, <2>2 DEF ToldFits
    <2>4. /\ Flag(o = "open") + Count(x, "opened") = Flag(o2 = "open")
          /\ Flag(s = "gone") + Count(x, "closed") = Flag(s2 = "gone")
          /\ k2 <= k + Count(x, "sent")
          /\ s2 = "live" => s = "live" /\ k2 = k + Count(x, "sent")
        BY <2>1, <2>2
    <2>5. l \o x \in Seq(Events) /\ Told(l \o x, o2, s2, k2)
        BY <2>3, <2>4, ToldMore
    <2>6. log'[c] = l \o x
        BY <1>3, <2>1 DEF Announced
    <2>7. QED BY <1>3, <2>2, <2>5, <2>6 DEF ToldFits
<1>4. QED BY <1>2, <1>3

\* A channel that was open when it was wrapped says so.
LEMMA OpenLaterFits ==
    ASSUME IInv, NEW c \in Channels, OpenLater(c)
    PROVE  IInv'
<1>1. /\ opening[c] = "immediate" /\ opening' = [opening EXCEPT ![c] = "open"]
      /\ log' = [log EXCEPT ![c] = Announced(c, <<"opened">>)]
      /\ (OpenEnds(c) /\ StepDone) \/ UNCHANGED <<place, todo>>
      /\ UNCHANGED <<chan, arrived, inbox, calls, stream, buffer, active, mode, eaten, dropped>>
      /\ UNCHANGED <<pending, sent, conn, watched, echo, owed>>
    BY DEF OpenLater, nativeVars, readVars, writeVars
<1>2. Typed /\ StepsFit
    BY DEF IInv
<1>3. /\ StepsFit' /\ todo' \in Seq(Steps) /\ Goes /\ (place = "waiting" => place' = "waiting")
      /\ place' = place \/ place' = "run"
    <2>1. CASE OpenEnds(c) /\ StepDone
        <3>1. place \in {"creating", "wait-channel"}
            BY <2>1 DEF OpenEnds
        <3>2. todo # <<>> /\ owed' = {}
            BY <1>1, <1>2, <3>1 DEF StepsFit
        <3>3. StepsFit' /\ todo' \in Seq(Steps) /\ place' = "run" /\ Goes
            BY <1>1, <1>2, <2>1, <3>1, <3>2, DoneFits
        <3>4. QED BY <3>1, <3>3
    <2>2. CASE UNCHANGED <<place, todo>>
        BY <1>1, <1>2, <2>2 DEF StepsFit, Typed, Goes
    <2>3. QED BY <1>1, <2>1, <2>2
<1>4. opening'[c] = "open" /\ opening' \in [Channels -> {"corked", "immediate", "open"}]
    BY <1>1, <1>2 DEF Typed
<1>5. ChannelFits(c)' /\ log'[c] \in Seq(Events)
    <2>1. ChannelFits(c)
        BY DEF IInv
    <2>2. stream[c] # "none" /\ chan[c] \notin {"none", "connecting"} /\ "open" \notin calls[c]
        BY <2>1, <1>1 DEF ChannelFits, Fresh, OpensOnce
    <2>3. InboxFits(c)' /\ Fresh(c)' /\ OpensOnce(c)'
        BY <2>1, <2>2, <1>1 DEF ChannelFits, InboxFits, Fresh, OpensOnce
    <2>4. Refuses(c)' /\ Writes(c)' /\ StartsQuiet(c)' /\ GivenFits(c)'
        BY <2>1, <1>1, <1>3 DEF ChannelFits, Refuses, Writes, StartsQuiet, GivenFits, Goes
    <2>5. Reads(c)'
        BY <2>1, <1>1, <1>3, SameReads
    <2>6. ToldFits(c)' /\ log'[c] \in Seq(Events)
        <3>1. PICK x : x = <<"opened">>
            OBVIOUS
        <3>2. x \in Seq(Events) /\ Count(x, "opened") = 1 /\ Count(x, "closed") = 0 /\ Count(x, "sent") = 0
            <4>1. /\ Count(<<"opened">>, "opened") = 1 /\ Count(<<"opened">>, "closed") = 0
                  /\ Count(<<"opened">>, "sent") = 0
                BY CountShort
            <4>2. <<"opened">> \in Seq(Events)
                BY DEF Events
            <4>3. QED BY <3>1, <4>1, <4>2
        <3>3. log'[c] = Announced(c, x)
            BY <1>1, <1>2, <3>1 DEF Typed
        <3>4. Len(sent[c]) \in Nat /\ Len(sent'[c]) = Len(sent[c])
            BY <1>1, <1>2 DEF Typed
        <3>5. /\ Flag(opening[c] = "open") + Count(x, "opened") = Flag(opening'[c] = "open")
              /\ Flag(stream[c] = "gone") + Count(x, "closed") = Flag(stream'[c] = "gone")
            BY <1>1, <1>4, <3>2 DEF Flag
        <3>6. /\ Len(sent'[c]) <= Len(sent[c]) + Count(x, "sent")
              /\ stream'[c] = "live" => stream[c] = "live" /\ Len(sent'[c]) = Len(sent[c]) + Count(x, "sent")
            BY <1>1, <3>2, <3>4
        <3>7. watched' = watched /\ Len(sent'[c]) \in Nat
            BY <1>1, <3>4
        <3>8. QED BY <3>2, <3>3, <3>5, <3>6, <3>7, AnnouncedFits
    <2>7. QED BY <2>3, <2>4, <2>5, <2>6 DEF ChannelFits
<1>6. Typed'
    <2>1. log' \in [Channels -> Seq({"opened", "sent", "closed"})]
        BY <1>1, <1>2, <1>5 DEF Typed, Events
    <2>2. QED BY <2>1, <1>1, <1>2, <1>3, <1>4 DEF Typed
<1>7. ASSUME NEW d \in Channels, d # c PROVE ChannelFits(d)'
    <2>1. ChannelFits(d) /\ opening'[d] = opening[d] /\ log'[d] = log[d]
        BY <1>1, <1>2, <1>7 DEF IInv, Typed
    <2>2. Same(d)
        BY <2>1, <1>1 DEF Same
    <2>3. Reads(d)'
        BY <2>1, <1>1, <1>3, SameReads
    <2>4. OpensOnce(d)'
        BY <2>1, <1>1, SameOpens
    <2>5. QED BY <1>3, <2>1, <2>2, <2>3, <2>4, SameFits
<1>8. QED BY <1>3, <1>5, <1>6, <1>7 DEF IInv

\* A stream that its channel destroys.
LEMMA OnClosedFits ==
    ASSUME IInv, NEW c \in Channels, NEW call \in {"closed", "error"}, OnClosed(c, call)
    PROVE  IInv'
<1>1. /\ stream[c] # "none" /\ calls' = [calls EXCEPT ![c] = @ \ {call}]
      /\ stream' = [stream EXCEPT ![c] = "gone"] /\ chan' = [chan EXCEPT ![c] = "closed"]
      /\ log' = [log EXCEPT ![c] = IF stream[c] = "live" THEN Announced(c, <<"closed">>) ELSE @]
      /\ UNCHANGED <<place, owed>> \/ (owed # {} /\ place' = "throw" /\ owed' = {})
      /\ UNCHANGED <<arrived, inbox, opening, buffer, active, mode, eaten, dropped>>
      /\ UNCHANGED <<pending, sent, conn, watched, todo, echo>>
    BY DEF OnClosed, readVars, writeVars
<1>2. Typed /\ StepsFit
    BY DEF IInv
<1>3. /\ StepsFit' /\ Goes /\ (place = "waiting" => place' = "waiting")
      /\ place' = place \/ place' = "throw"
    BY <1>1, <1>2 DEF StepsFit, Goes
<1>4. /\ stream'[c] = "gone" /\ stream' \in [Channels -> {"none", "live", "gone"}]
      /\ chan'[c] = "closed" /\ chan' \in [Channels -> {"none", "connecting", "open", "closed"}]
      /\ calls'[c] = calls[c] \ {call} /\ calls' \in [Channels -> SUBSET {"open", "closed", "error"}]
    BY <1>1, <1>2 DEF Typed
<1>5. ChannelFits(c)' /\ log'[c] \in Seq(Events)
    <2>1. ChannelFits(c)
        BY DEF IInv
    <2>2. InboxFits(c)' /\ Fresh(c)'
        BY <2>1, <1>1, <1>4 DEF ChannelFits, InboxFits, Fresh
    <2>3. OpensOnce(c)'
        BY <2>1, <1>1, <1>4 DEF ChannelFits, OpensOnce
    <2>4. Refuses(c)' /\ Reads(c)' /\ Writes(c)' /\ GivenFits(c)'
        BY <1>4 DEF Refuses, Reads, Writes, GivenFits
    <2>5. StartsQuiet(c)'
        BY <2>1, <1>1, <1>3 DEF ChannelFits, StartsQuiet
    <2>6. ToldFits(c)' /\ log'[c] \in Seq(Events)
        <3>1. CASE stream[c] = "live"
            <4>1. PICK x : x = <<"closed">>
                OBVIOUS
            <4>2. x \in Seq(Events) /\ Count(x, "opened") = 0 /\ Count(x, "closed") = 1 /\ Count(x, "sent") = 0
                <5>1. /\ Count(<<"closed">>, "opened") = 0 /\ Count(<<"closed">>, "closed") = 1
                      /\ Count(<<"closed">>, "sent") = 0
                    BY CountShort
                <5>2. <<"closed">> \in Seq(Events)
                    BY DEF Events
                <5>3. QED BY <4>1, <5>1, <5>2
            <4>3. log'[c] = Announced(c, x)
                BY <1>1, <1>2, <3>1, <4>1 DEF Typed
            <4>4. Len(sent[c]) \in Nat /\ Len(sent'[c]) = Len(sent[c])
                BY <1>1, <1>2 DEF Typed
            <4>5. /\ Flag(opening[c] = "open") + Count(x, "opened") = Flag(opening'[c] = "open")
                  /\ Flag(stream[c] = "gone") + Count(x, "closed") = Flag(stream'[c] = "gone")
                BY <1>1, <1>4, <3>1, <4>2 DEF Flag
            <4>6. /\ Len(sent'[c]) <= Len(sent[c]) + Count(x, "sent") /\ stream'[c] # "live"
                BY <1>4, <4>2, <4>4
            <4>7. watched' = watched /\ Len(sent'[c]) \in Nat
                BY <1>1, <4>4
            <4>8. QED BY <4>2, <4>3, <4>5, <4>6, <4>7, AnnouncedFits
        <3>2. CASE stream[c] = "gone"
            <4>1. log'[c] = log[c] /\ log[c] \in Seq(Events)
                BY <1>1, <1>2, <3>2 DEF Typed, Events
            <4>2. QED BY <2>1, <1>1, <1>4, <3>2, <4>1 DEF ChannelFits, ToldFits
        <3>3. QED BY <1>1, <1>2, <3>1, <3>2 DEF Typed
    <2>7. QED BY <2>2, <2>3, <2>4, <2>5, <2>6 DEF ChannelFits
<1>6. Typed'
    <2>1. log' \in [Channels -> Seq({"opened", "sent", "closed"})]
        BY <1>1, <1>2, <1>5 DEF Typed, Events
    <2>2. QED BY <2>1, <1>1, <1>2, <1>3, <1>4 DEF Typed
<1>7. ASSUME NEW d \in Channels, d # c PROVE ChannelFits(d)'
    <2>1. /\ ChannelFits(d) /\ stream'[d] = stream[d] /\ log'[d] = log[d] /\ chan'[d] = chan[d]
          /\ calls'[d] = calls[d]
        BY <1>1, <1>2, <1>7 DEF IInv, Typed
    <2>2. Same(d)
        BY <2>1, <1>1 DEF Same
    <2>3. Reads(d)'
        BY <2>1, <1>1, <1>3, SameReads
    <2>4. OpensOnce(d)'
        BY <2>1, <1>1, SameOpens
    <2>5. QED BY <1>3, <2>1, <2>2, <2>3, <2>4, SameFits
<1>8. QED BY <1>3, <1>5, <1>6, <1>7 DEF IInv

-----------------------------------------------------------------------------
(* Reading.                                                                *)

\* The message that is brought is the one after those that were given.
LEMMA NextMessage ==
    ASSUME IInv, NEW c \in Channels, inbox[c] # <<>>, inbox' = [inbox EXCEPT ![c] = Tail(@)], arrived' = arrived
    PROVE  /\ inbox' \in [Channels -> Seq(Messages)] /\ InboxFits(c)'
           /\ \A d \in Channels : d # c => inbox'[d] = inbox[d]
           /\ \E h \in Nat : /\ Head(inbox[c]) = h + 1 /\ h + 1 \in Messages
                             /\ arrived[c] - Len(inbox[c]) = h /\ arrived'[c] - Len(inbox'[c]) = h + 1
<1>1. /\ inbox \in [Channels -> Seq(Messages)] /\ arrived \in [Channels -> 0 .. MaxMessages] /\ InboxFits(c)
    BY DEF IInv, Typed, ChannelFits
<1>2. PICK a, q, t, n : a = arrived[c] /\ q = inbox[c] /\ t = Tail(q) /\ n = Len(q)
    OBVIOUS
<1>3. /\ q \in Seq(Messages) /\ q # <<>> /\ a \in Nat /\ n \in Nat /\ n <= a
      /\ \A i \in 1 .. n : q[i] = a - n + i
    BY <1>1, <1>2, NumberFacts DEF InboxFits
<1>4. /\ t \in Seq(Messages) /\ n > 0 /\ Len(t) = n - 1 /\ Head(q) = q[1] /\ Head(q) \in Messages
      /\ \A i \in 1 .. Len(t) : t[i] = q[i + 1]
    BY <1>2, <1>3, HeadTailProperties
<1>5. /\ inbox' \in [Channels -> Seq(Messages)] /\ inbox'[c] = t
      /\ \A d \in Channels : d # c => inbox'[d] = inbox[d]
    BY <1>1, <1>2, <1>4
<1>6. PICK h : h = a - n
    OBVIOUS
<1>7. h \in Nat /\ Head(q) = h + 1 /\ a - Len(t) = h + 1 /\ Len(t) <= a
    BY <1>3, <1>4, <1>6
<1>8. \A i \in 1 .. Len(t) : t[i] = a - Len(t) + i
    <2> SUFFICES ASSUME NEW i \in 1 .. Len(t) PROVE t[i] = a - Len(t) + i
        OBVIOUS
    <2>1. PICK k : k = i + 1
        OBVIOUS
    <2>2. k \in 1 .. n /\ t[i] = q[k]
        BY <2>1, <1>3, <1>4
    <2>3. q[k] = a - n + k
        BY <2>2, <1>3
    <2>4. QED BY <2>1, <2>2, <2>3, <1>3, <1>4
<1>9. InboxFits(c)'
    <2>1. arrived'[c] = a /\ inbox'[c] = t
        BY <1>2, <1>5
    <2>2. QED BY <2>1, <1>3, <1>4, <1>7, <1>8 DEF InboxFits
<1>10. /\ Head(inbox[c]) = h + 1 /\ h + 1 \in Messages
       /\ arrived[c] - Len(inbox[c]) = h /\ arrived'[c] - Len(inbox'[c]) = h + 1
    BY <1>2, <1>3, <1>4, <1>5, <1>6, <1>7
<1>11. QED BY <1>5, <1>7, <1>9, <1>10

\* A message that is dropped.
LEMMA DroppedFits ==
    ASSUME IInv, NEW c \in Channels, Deliver(c), Dropped(c, Head(inbox[c]))
    PROVE  IInv'
<1>1. /\ inbox[c] # <<>> /\ stream[c] # "none" /\ inbox' = [inbox EXCEPT ![c] = Tail(@)]
      /\ UNCHANGED <<chan, arrived, calls, stream, opening, buffer, active, mode, eaten, pending, sent>>
      /\ UNCHANGED <<conn, watched, log, place, todo, echo, owed>>
    BY DEF Deliver, Dropped, Tracked, writeVars
<1>2. Typed /\ StepsFit /\ dropped' = [dropped EXCEPT ![c] = @ \cup {Head(inbox[c])}]
    BY DEF IInv, Dropped
<1>3. /\ inbox' \in [Channels -> Seq(Messages)] /\ InboxFits(c)'
      /\ \A d \in Channels : d # c => inbox'[d] = inbox[d]
    BY <1>1, NextMessage
<1>4. PICK h \in Nat : /\ Head(inbox[c]) = h + 1 /\ h + 1 \in Messages
                       /\ arrived[c] - Len(inbox[c]) = h /\ arrived'[c] - Len(inbox'[c]) = h + 1
    BY <1>1, NextMessage
<1>5. /\ dropped' \in [Channels -> SUBSET Messages] /\ dropped'[c] = dropped[c] \cup {h + 1}
      /\ \A d \in Channels : d # c => dropped'[d] = dropped[d]
    BY <1>2, <1>4 DEF Typed
<1>6. Typed'
    BY <1>1, <1>2, <1>3, <1>5 DEF Typed
<1>7. StepsFit' /\ Goes
    BY <1>1, <1>2 DEF StepsFit, Goes
<1>8. ChannelFits(c)'
    <2>1. ChannelFits(c)
        BY DEF IInv
    <2>2. Fresh(c)' /\ OpensOnce(c)' /\ Refuses(c)' /\ Reads(c)' /\ Writes(c)' /\ StartsQuiet(c)' /\ ToldFits(c)'
        BY <2>1, <1>1 DEF ChannelFits, Fresh, OpensOnce, Refuses, Reads, Writes, StartsQuiet, ToldFits
    <2>3. GivenFits(c)'
        <3>1. PICK e, w, b, d : e = eaten[c] /\ w = sent[c] \o pending[c] /\ b = buffer[c] /\ d = dropped[c]
            OBVIOUS
        <3>2. stream[c] = "live" => Read(e, w, b, h, d)
            BY <2>1, <1>4, <3>1 DEF ChannelFits, GivenFits
        <3>3. stream[c] = "live" => Read(e, w, b, h + 1, d \cup {h + 1})
            BY <3>2, ReadDrops
        <3>4. QED BY <3>1, <3>3, <1>1, <1>4, <1>5 DEF GivenFits
    <2>4. QED BY <2>2, <2>3, <1>3 DEF ChannelFits
<1>9. ASSUME NEW d \in Channels, d # c PROVE ChannelFits(d)'
    <2>1. ChannelFits(d) /\ Same(d)
        BY <1>1, <1>3, <1>5, <1>9 DEF IInv, Same
    <2>2. Reads(d)' /\ OpensOnce(d)'
        BY <2>1, <1>1 DEF ChannelFits, Reads, OpensOnce
    <2>3. QED BY <1>7, <2>1, <2>2, SameFits
<1>10. QED BY <1>6, <1>7, <1>8, <1>9 DEF IInv

\* A message that is kept.
LEMMA BufferedFits ==
    ASSUME IInv, NEW c \in Channels, Deliver(c), Buffered(c, Head(inbox[c]))
    PROVE  IInv'
<1>1. /\ inbox[c] # <<>> /\ stream[c] = "live" /\ inbox' = [inbox EXCEPT ![c] = Tail(@)]
      /\ mode[c] # "flowing" /\ active[c]
      /\ buffer' = [buffer EXCEPT ![c] = Append(@, Head(inbox[c]))]
      /\ active' = [active EXCEPT ![c] = Len(buffer'[c]) < HighWater]
      /\ UNCHANGED <<chan, arrived, calls, stream, opening, mode, eaten, dropped, pending, sent>>
      /\ UNCHANGED <<conn, watched, log, place, todo, echo, owed>>
    BY DEF Deliver, Buffered, Tracked, writeVars
<1>2. Typed /\ StepsFit
    BY DEF IInv
<1>3. /\ inbox' \in [Channels -> Seq(Messages)] /\ InboxFits(c)'
      /\ \A d \in Channels : d # c => inbox'[d] = inbox[d]
    BY <1>1, NextMessage
<1>4. PICK h \in Nat : /\ Head(inbox[c]) = h + 1 /\ h + 1 \in Messages
                       /\ arrived[c] - Len(inbox[c]) = h /\ arrived'[c] - Len(inbox'[c]) = h + 1
    BY <1>1, NextMessage
<1>5. PICK b, r : b = buffer[c] /\ r = Append(b, h + 1)
    OBVIOUS
<1>6. /\ b \in Seq(Messages) /\ r \in Seq(Messages) /\ Len(r) = Len(b) + 1 /\ Len(b) \in Nat /\ Len(b) < HighWater
    <2>1. b \in Seq(Messages) /\ Len(b) < HighWater
        BY <1>1, <1>2, <1>5 DEF IInv, ChannelFits, Refuses, Typed
    <2>2. QED BY <2>1, <1>4, <1>5, AppendProperties
<1>7. Len(r) <= HighWater
    BY <1>6, NumberFacts
<1>8. /\ buffer' = [buffer EXCEPT ![c] = r] /\ active' = [active EXCEPT ![c] = Len(r) < HighWater]
    BY <1>1, <1>2, <1>4, <1>5 DEF Typed
<1>9. /\ buffer' \in [Channels -> Seq(Messages)] /\ buffer'[c] = r
      /\ active' \in [Channels -> BOOLEAN] /\ active'[c] = (Len(r) < HighWater)
      /\ \A d \in Channels : d # c => buffer'[d] = buffer[d] /\ active'[d] = active[d]
    BY <1>2, <1>6, <1>8 DEF Typed
<1>10. Typed'
    <2>1. \A d \in Channels : Len(buffer'[d]) <= HighWater
        BY <1>2, <1>7, <1>9 DEF Typed
    <2>2. QED BY <2>1, <1>1, <1>2, <1>3, <1>9 DEF Typed
<1>11. StepsFit' /\ Goes
    BY <1>1, <1>2 DEF StepsFit, Goes
<1>12. ChannelFits(c)'
    <2>1. ChannelFits(c)
        BY DEF IInv
    <2>2. Fresh(c)' /\ OpensOnce(c)' /\ Reads(c)' /\ Writes(c)' /\ StartsQuiet(c)' /\ ToldFits(c)'
        BY <2>1, <1>1 DEF ChannelFits, Fresh, OpensOnce, Reads, Writes, StartsQuiet, ToldFits
    <2>3. Refuses(c)'
        BY <1>9 DEF Refuses
    <2>4. GivenFits(c)'
        <3>1. PICK e, w, d : e = eaten[c] /\ w = sent[c] \o pending[c] /\ d = dropped[c]
            OBVIOUS
        <3>2. Read(e, w, b, h, d)
            BY <2>1, <1>1, <1>4, <1>5, <3>1 DEF ChannelFits, GivenFits
        <3>3. Read(e, w, Append(b, h + 1), h + 1, d)
            BY <3>2, <1>4, <1>6, ReadKeeps
        <3>4. QED BY <3>1, <3>3, <1>1, <1>4, <1>5, <1>9 DEF GivenFits
    <2>5. QED BY <2>2, <2>3, <2>4, <1>3 DEF ChannelFits
<1>13. ASSUME NEW d \in Channels, d # c PROVE ChannelFits(d)'
    <2>1. ChannelFits(d) /\ Same(d)
        BY <1>1, <1>3, <1>9, <1>13 DEF IInv, Same
    <2>2. Reads(d)' /\ OpensOnce(d)'
        BY <2>1, <1>1, <1>9, <1>13 DEF ChannelFits, Reads, OpensOnce
    <2>3. QED BY <1>11, <2>1, <2>2, SameFits
<1>14. QED BY <1>10, <1>11, <1>12, <1>13 DEF IInv

\* Every live stream is paused.
LEMMA PauseFits ==
    ASSUME Typed, PauseAll, stream' = stream
    PROVE  mode' \in [Channels -> {"idle", "flowing", "paused"}] /\ \A d \in Channels : Reads(d)'
<1>1. mode' = [d \in Channels |-> IF d \in Tracked THEN "paused" ELSE mode[d]]
    BY DEF PauseAll
<1>2. mode' \in [Channels -> {"idle", "flowing", "paused"}]
    BY <1>1 DEF Typed
<1>3. ASSUME NEW d \in Channels, stream'[d] = "live" PROVE mode'[d] # "flowing"
    BY <1>1, <1>3 DEF Tracked
<1>4. QED BY <1>2, <1>3 DEF Reads

\* A message that a step waited for.
LEMMA ConsumedFits ==
    ASSUME IInv, NEW c \in Channels, Deliver(c), Consumed(c, Head(inbox[c]))
    PROVE  IInv'
<1>1. /\ inbox[c] # <<>> /\ stream[c] = "live" /\ inbox' = [inbox EXCEPT ![c] = Tail(@)]
      /\ mode[c] = "flowing" /\ place = "waiting" /\ PauseAll /\ StepDone
      /\ eaten' = [eaten EXCEPT ![c] = Append(@, Head(inbox[c]))]
      /\ UNCHANGED <<chan, arrived, calls, stream, opening, buffer, active, dropped, pending, sent>>
      /\ UNCHANGED <<conn, watched, log, echo, owed>>
    BY DEF Deliver, Consumed, Tracked, writeVars
<1>2. Typed /\ StepsFit /\ ~echo /\ todo # <<>> /\ owed = {}
    BY <1>1 DEF IInv, StepsFit
<1>3. /\ inbox' \in [Channels -> Seq(Messages)] /\ InboxFits(c)'
      /\ \A d \in Channels : d # c => inbox'[d] = inbox[d]
    BY <1>1, NextMessage
<1>4. PICK h \in Nat : /\ Head(inbox[c]) = h + 1 /\ h + 1 \in Messages
                       /\ arrived[c] - Len(inbox[c]) = h /\ arrived'[c] - Len(inbox'[c]) = h + 1
    BY <1>1, NextMessage
<1>5. /\ eaten' \in [Channels -> Seq(Messages)] /\ eaten'[c] = Append(eaten[c], h + 1)
      /\ \A d \in Channels : d # c => eaten'[d] = eaten[d]
    <2>1. Append(eaten[c], h + 1) \in Seq(Messages)
        BY <1>2, <1>4 DEF Typed
    <2>2. QED BY <2>1, <1>1, <1>2, <1>4 DEF Typed
<1>6. StepsFit' /\ todo' \in Seq(Steps) /\ place' = "run" /\ Goes
    BY <1>1, <1>2, DoneFits
<1>7. mode' \in [Channels -> {"idle", "flowing", "paused"}] /\ \A d \in Channels : Reads(d)'
    BY <1>1, <1>2, PauseFits
<1>8. Typed'
    BY <1>1, <1>2, <1>3, <1>5, <1>6, <1>7 DEF Typed
<1>9. ChannelFits(c)'
    <2>1. ChannelFits(c) /\ buffer[c] = <<>>
        BY <1>1 DEF IInv, ChannelFits, Reads
    <2>2. Fresh(c)' /\ OpensOnce(c)' /\ Refuses(c)' /\ Writes(c)' /\ StartsQuiet(c)' /\ ToldFits(c)'
        BY <2>1, <1>1, <1>6 DEF ChannelFits, Fresh, OpensOnce, Refuses, Writes, StartsQuiet, ToldFits
    <2>3. GivenFits(c)'
        <3>1. PICK e, w, b, d : e = eaten[c] /\ w = sent[c] \o pending[c] /\ b = buffer[c] /\ d = dropped[c]
            OBVIOUS
        <3>2. Read(e, w, b, h, d) /\ b = <<>> /\ e \in Seq(Messages)
            BY <2>1, <1>1, <1>2, <1>4, <3>1 DEF ChannelFits, GivenFits, Typed
        <3>3. Elements(w) \subseteq {Own}
            <4>1. sent[c] \in Seq(Numbers) /\ pending[c] \in Seq(Numbers)
                BY <1>2 DEF Typed, Numbers
            <4>2. Elements(sent[c] \o pending[c]) = Elements(sent[c]) \cup Elements(pending[c])
                BY <4>1, ElementsConcat
            <4>3. QED BY <4>2, <3>1, <2>1, <1>1, <1>2 DEF ChannelFits, Writes
        <3>4. Read(Append(e, h + 1), w, b, h + 1, d)
            BY <3>2, <3>3, <1>4, ReadEats
        <3>5. QED BY <3>1, <3>4, <1>1, <1>4, <1>5 DEF GivenFits
    <2>4. QED BY <2>2, <2>3, <1>3, <1>7 DEF ChannelFits
<1>10. ASSUME NEW d \in Channels, d # c PROVE ChannelFits(d)'
    <2>1. ChannelFits(d) /\ Same(d)
        BY <1>1, <1>3, <1>5, <1>10 DEF IInv, Same
    <2>2. OpensOnce(d)'
        BY <2>1, <1>1 DEF ChannelFits, OpensOnce
    <2>3. QED BY <1>6, <1>7, <2>1, <2>2, SameFits
<1>11. QED BY <1>6, <1>8, <1>9, <1>10 DEF IInv

\* The step finds a message that was kept, or waits for the next one.
LEMMA StartWaitFits ==
    ASSUME IInv, StartWait
    PROVE  IInv'
<1> DEFINE idle == {c \in Matching(Tracked) : mode[c] = "idle"}
           ready == {c \in idle : buffer[c] # <<>>}
<1>1. /\ place = "run" /\ todo # <<>>
      /\ UNCHANGED <<chan, arrived, inbox, calls, stream, opening, dropped, pending, sent>>
      /\ UNCHANGED <<conn, watched, log, echo, owed>>
    BY DEF StartWait, AtStep, nativeVars, writeVars
<1>2. Typed /\ StepsFit /\ ~echo /\ owed = {} /\ conn # "new"
    BY <1>1 DEF IInv, StepsFit
<1>3. CASE /\ ready = {} /\ place' = "waiting"
           /\ mode' = [c \in Channels |-> IF c \in idle THEN "flowing" ELSE mode[c]]
           /\ UNCHANGED <<buffer, active, eaten, todo>>
    <2>1. mode' \in [Channels -> {"idle", "flowing", "paused"}]
        BY <1>2, <1>3 DEF Typed
    <2>2. Typed'
        BY <1>1, <1>2, <1>3, <2>1 DEF Typed
    <2>3. StepsFit' /\ Goes
        BY <1>1, <1>2, <1>3 DEF StepsFit, Goes
    <2>4. ASSUME NEW d \in Channels PROVE ChannelFits(d)'
        <3>1. ChannelFits(d) /\ Same(d)
            BY <1>1, <1>3 DEF IInv, Same
        <3>2. OpensOnce(d)'
            BY <3>1, <1>1 DEF ChannelFits, OpensOnce
        <3>3. d \in idle => buffer[d] = <<>>
            BY <1>3
        <3>4. d \notin idle => mode'[d] = mode[d]
            BY <1>3
        <3>5. Reads(d)'
            BY <3>1, <3>3, <3>4, <1>1, <1>3 DEF ChannelFits, Reads
        <3>6. QED BY <2>3, <3>1, <3>2, <3>5, SameFits
    <2>5. QED BY <2>2, <2>3, <2>4 DEF IInv
<1>4. ASSUME NEW c \in ready, PauseAll, StepDone,
             eaten' = [eaten EXCEPT ![c] = Append(@, Head(buffer[c]))],
             buffer' = [buffer EXCEPT ![c] = Tail(@)], active' = [active EXCEPT ![c] = TRUE]
      PROVE  IInv'
    <2>1. c \in Channels /\ stream[c] = "live" /\ buffer[c] # <<>>
        BY DEF Matching, Tracked
    <2>2. PICK e, b : e = eaten[c] /\ b = buffer[c]
        OBVIOUS
    <2>3. /\ e \in Seq(Messages) /\ b \in Seq(Messages) /\ b # <<>> /\ Len(b) \in Nat /\ Len(b) <= HighWater
          /\ eaten \in [Channels -> Seq(Messages)] /\ buffer \in [Channels -> Seq(Messages)]
          /\ active \in [Channels -> BOOLEAN] /\ \A d \in Channels : Len(buffer[d]) <= HighWater
        BY <1>2, <2>1, <2>2 DEF Typed
    <2>4. PICK f, t : f = Append(e, Head(b)) /\ t = Tail(b)
        OBVIOUS
    <2>5. f \in Seq(Messages) /\ t \in Seq(Messages) /\ Len(t) = Len(b) - 1 /\ Len(b) > 0
        BY <2>3, <2>4, HeadTailProperties, AppendProperties
    <2>6. Len(t) < HighWater
        BY <2>3, <2>5, NumberFacts
    <2>7. /\ eaten' = [eaten EXCEPT ![c] = f] /\ buffer' = [buffer EXCEPT ![c] = t]
        BY <1>4, <2>2, <2>4
    <2>8. /\ eaten' \in [Channels -> Seq(Messages)] /\ eaten'[c] = f
          /\ buffer' \in [Channels -> Seq(Messages)] /\ buffer'[c] = t
          /\ active' \in [Channels -> BOOLEAN] /\ active'[c]
          /\ \A d \in Channels : d # c => eaten'[d] = eaten[d] /\ buffer'[d] = buffer[d] /\ active'[d] = active[d]
        BY <1>4, <2>1, <2>3, <2>5, <2>7
    <2>9. StepsFit' /\ todo' \in Seq(Steps) /\ place' = "run" /\ Goes
        BY <1>1, <1>2, <1>4, DoneFits
    <2>10. mode' \in [Channels -> {"idle", "flowing", "paused"}] /\ \A d \in Channels : Reads(d)'
        BY <1>1, <1>2, <1>4, PauseFits
    <2>11. Typed'
        <3>1. \A d \in Channels : Len(buffer'[d]) <= HighWater
            <4>1. Len(t) <= HighWater
                BY <2>3, <2>5, <2>6, NumberFacts
            <4>2. QED BY <2>3, <2>8, <4>1
        <3>2. QED BY <3>1, <1>1, <1>2, <2>8, <2>9, <2>10 DEF Typed
    <2>12. ChannelFits(c)'
        <3>1. ChannelFits(c)
            BY <2>1 DEF IInv
        <3>2. /\ InboxFits(c)' /\ Fresh(c)' /\ OpensOnce(c)' /\ Writes(c)' /\ StartsQuiet(c)' /\ ToldFits(c)'
            BY <3>1, <1>1, <2>1, <2>9 DEF ChannelFits, InboxFits, Fresh, OpensOnce, Writes, StartsQuiet, ToldFits
        <3>3. Refuses(c)'
            BY <2>6, <2>8 DEF Refuses
        <3>4. GivenFits(c)'
            <4>1. PICK w, h, d : w = sent[c] \o pending[c] /\ h = arrived[c] - Len(inbox[c]) /\ d = dropped[c]
                OBVIOUS
            <4>2. Read(e, w, b, h, d)
                BY <3>1, <2>1, <2>2, <4>1 DEF ChannelFits, GivenFits
            <4>3. h \in Nat
                <5>1. arrived[c] \in Nat /\ Len(inbox[c]) \in Nat /\ Len(inbox[c]) <= arrived[c]
                    BY <3>1, <1>2, <2>1 DEF ChannelFits, InboxFits, Typed
                <5>2. QED BY <5>1, <4>1
            <4>4. Elements(w) \subseteq {Own}
                <5>1. sent[c] \in Seq(Numbers) /\ pending[c] \in Seq(Numbers)
                    BY <1>2, <2>1 DEF Typed, Numbers
                <5>2. Elements(sent[c] \o pending[c]) = Elements(sent[c]) \cup Elements(pending[c])
                    BY <5>1, ElementsConcat
                <5>3. QED BY <5>2, <4>1, <3>1, <1>2, <2>1 DEF ChannelFits, Writes
            <4>5. Read(Append(e, Head(b)), w, Tail(b), h, d)
                BY <4>2, <4>3, <4>4, <2>3, ReadTakes
            <4>6. QED BY <4>1, <4>5, <1>1, <2>4, <2>8 DEF GivenFits
        <3>5. QED BY <3>2, <3>3, <3>4, <2>1, <2>10 DEF ChannelFits
    <2>13. ASSUME NEW d \in Channels, d # c PROVE ChannelFits(d)'
        <3>1. ChannelFits(d) /\ Same(d)
            BY <1>1, <2>8, <2>13 DEF IInv, Same
        <3>2. OpensOnce(d)'
            BY <3>1, <1>1 DEF ChannelFits, OpensOnce
        <3>3. QED BY <2>9, <2>10, <3>1, <3>2, SameFits
    <2>14. QED BY <2>9, <2>11, <2>12, <2>13 DEF IInv
<1>5. QED BY <1>3, <1>4 DEF StartWait

-----------------------------------------------------------------------------
(* Writing.                                                                *)

\* What is written may be, to streams that are not corked in U and to others that are.
Writable(U, ms) ==
    /\ U \subseteq Uncorked
    /\ \A c \in Channels : /\ ms[c] \in Seq(Numbers)
                           /\ ms[c] # <<>> => stream[c] = "live" /\ (c \in U \/ opening[c] = "corked")

\* How many of the messages m the native channel of c took.
Taken(k, m, c) == k \in Nat /\ k <= Len(m) /\ (chan[c] # "open" => k = 0)

\* The outcomes of a write.
LEMMA OutcomeFacts ==
    ASSUME NEW U, NEW ms, Writable(U, ms), NEW n \in Outcomes(U, ms), NEW c \in U
    PROVE  c \in Channels /\ Taken(n[c], ms[c], c)
<1>1. c \in Channels /\ n[c] \in MayTake(c, ms[c])
    BY DEF Writable, Uncorked, Tracked, Outcomes
<1>2. Len(ms[c]) \in Nat
    BY <1>1 DEF Writable
<1>3. QED BY <1>1, <1>2 DEF MayTake, Taken

\* A write that takes k of m destroys the stream when it does not take all.
Breaks(k, m) == k < Len(m)

\* What becomes of the stream then,
Broken(c, k) ==
    /\ stream'[c] = "gone" /\ chan'[c] = "closed"
    /\ log'[c] = Announced(c, Times(k + IF chan[c] = "open" THEN 1 ELSE 0, "sent") \o <<"closed">>)

\* and otherwise.
Whole(c, k) ==
    /\ stream'[c] = stream[c] /\ chan'[c] = chan[c]
    /\ log'[c] = Announced(c, Times(k + 0, "sent") \o <<>>)

\* What the write does at one stream.
LEMMA WriteAt ==
    ASSUME NEW U, NEW ms, NEW n, Write(U, ms, n), NEW c \in Channels
    PROVE  /\ c \notin U => /\ sent'[c] = sent[c] /\ pending'[c] = pending[c] \o ms[c]
                            /\ stream'[c] = stream[c] /\ chan'[c] = chan[c] /\ log'[c] = log[c]
           /\ c \in U => sent'[c] = sent[c] \o SubSeq(ms[c], 1, n[c]) /\ pending'[c] = <<>>
           /\ c \in U /\ Breaks(n[c], ms[c]) => Broken(c, n[c])
           /\ c \in U /\ ~Breaks(n[c], ms[c]) => Whole(c, n[c])
<1>1. PICK B : B = {d \in U : n[d] < Len(ms[d])}
    OBVIOUS
<1>2. /\ sent' = [d \in Channels |-> IF d \in U THEN sent[d] \o SubSeq(ms[d], 1, n[d]) ELSE sent[d]]
      /\ pending' = [d \in Channels |-> IF d \in U THEN <<>> ELSE pending[d] \o ms[d]]
      /\ stream' = [d \in Channels |-> IF d \in B THEN "gone" ELSE stream[d]]
      /\ chan' = [d \in Channels |-> IF d \in B THEN "closed" ELSE chan[d]]
      /\ log' = [d \in Channels |->
                    IF d \in U THEN Announced(d, Times(n[d] + IF d \in B /\ chan[d] = "open" THEN 1 ELSE 0, "sent") \o
                                                 IF d \in B THEN <<"closed">> ELSE <<>>)
                    ELSE log[d]]
    BY <1>1 DEF Write
<1>3. /\ sent'[c] = IF c \in U THEN sent[c] \o SubSeq(ms[c], 1, n[c]) ELSE sent[c]
      /\ pending'[c] = IF c \in U THEN <<>> ELSE pending[c] \o ms[c]
      /\ stream'[c] = IF c \in B THEN "gone" ELSE stream[c]
      /\ chan'[c] = IF c \in B THEN "closed" ELSE chan[c]
    BY <1>2
<1>4. log'[c] = IF c \in U THEN Announced(c, Times(n[c] + IF c \in B /\ chan[c] = "open" THEN 1 ELSE 0, "sent") \o
                                             IF c \in B THEN <<"closed">> ELSE <<>>)
                ELSE log[c]
    BY <1>2
<1>5. c \in B <=> c \in U /\ Breaks(n[c], ms[c])
    BY <1>1 DEF Breaks
<1>6. CASE c \in B
    BY <1>3, <1>4, <1>5, <1>6 DEF Broken, Whole
<1>7. CASE c \notin B
    BY <1>3, <1>4, <1>5, <1>7 DEF Broken, Whole
<1>8. QED BY <1>6, <1>7

\* What became of a channel to which m was written.
Written(c, m) ==
    /\ sent'[c] \in Seq(Numbers) /\ pending'[c] \in Seq(Numbers) /\ log'[c] \in Seq(Events)
    /\ stream'[c] = stream[c] \/ (stream[c] = "live" /\ stream'[c] = "gone")
    /\ chan'[c] = chan[c] \/ chan'[c] = "closed"
    /\ OpensOnce(c)' /\ ToldFits(c)'
    /\ stream[c] = "none" => sent'[c] = sent[c] /\ pending'[c] = pending[c]
    /\ stream'[c] = "live" =>
          /\ sent'[c] \o pending'[c] = (sent[c] \o pending[c]) \o m
          /\ opening[c] # "corked" => pending'[c] = <<>>
          /\ Elements(sent'[c]) \cup Elements(pending'[c]) = Elements(sent[c]) \cup Elements(pending[c]) \cup Elements(m)

\* The events of a write that went well, and of one that did not.
LEMMA WriteEvents ==
    ASSUME NEW k \in Nat
    PROVE  /\ Times(k, "sent") \o <<>> \in Seq(Events) /\ Times(k, "sent") \o <<"closed">> \in Seq(Events)
           /\ Count(Times(k, "sent") \o <<>>, "opened") = 0 /\ Count(Times(k, "sent") \o <<>>, "closed") = 0
           /\ Count(Times(k, "sent") \o <<>>, "sent") = k
           /\ Count(Times(k, "sent") \o <<"closed">>, "opened") = 0
           /\ Count(Times(k, "sent") \o <<"closed">>, "closed") = 1
           /\ Count(Times(k, "sent") \o <<"closed">>, "sent") = k
<1>1. PICK t, y : t = Times(k, "sent") /\ y = <<"closed">>
    OBVIOUS
<1>2. "sent" \in Events
    BY DEF Events
<1>3. /\ Times(k, "sent") \in Seq(Events) /\ \A x : Count(Times(k, "sent"), x) = IF "sent" = x THEN k ELSE 0
    BY <1>2, CountTimes
<1>4. t \in Seq(Events) /\ Count(t, "opened") = 0 /\ Count(t, "closed") = 0 /\ Count(t, "sent") = k
    BY <1>1, <1>3
<1>5. Count(<<"closed">>, "opened") = 0 /\ Count(<<"closed">>, "closed") = 1 /\ Count(<<"closed">>, "sent") = 0
    BY CountShort
<1>6. y \in Seq(Events) /\ Count(y, "opened") = 0 /\ Count(y, "closed") = 1 /\ Count(y, "sent") = 0
    BY <1>1, <1>5 DEF Events
<1>7. \A x : Count(t \o y, x) = Count(t, x) + Count(y, x)
    BY <1>4, <1>6, CountConcat
<1>8. t \o y \in Seq(Events) /\ t \o <<>> = t
    BY <1>4, <1>6
<1>9. Count(t \o y, "opened") = 0 /\ Count(t \o y, "closed") = 1 /\ Count(t \o y, "sent") = k
    BY <1>4, <1>6, <1>7
<1>10. QED BY <1>1, <1>4, <1>8, <1>9

\* A write to a stream that is corked, or none.
LEMMA WriteWaits ==
    ASSUME IInv, NEW U, NEW ms, NEW n, Writable(U, ms), Write(U, ms, n), NEW c \in Channels, c \notin U,
           UNCHANGED <<calls, opening, watched>>
    PROVE  Written(c, ms[c])
<1>1. PICK m, p, q, s : m = ms[c] /\ p = pending[c] /\ q = pending'[c] /\ s = sent[c]
    OBVIOUS
<1>2. /\ sent'[c] = s /\ q = p \o m /\ stream'[c] = stream[c] /\ chan'[c] = chan[c] /\ log'[c] = log[c]
    BY <1>1, WriteAt
<1>3. /\ s \in Seq(Numbers) /\ p \in Seq(Numbers) /\ m \in Seq(Numbers) /\ log[c] \in Seq(Events) /\ ChannelFits(c)
      /\ m # <<>> => stream[c] = "live" /\ opening[c] = "corked"
    BY <1>1 DEF IInv, Typed, Numbers, Events, Writable
<1>4. q \in Seq(Numbers) /\ s \o q = (s \o p) \o m /\ (m = <<>> => q = p)
    BY <1>2, <1>3, SMTT(30)
<1>5. Elements(q) = Elements(p) \cup Elements(m)
    <2>1. Elements(p \o m) = Elements(p) \cup Elements(m)
        BY <1>3, ElementsConcat
    <2>2. QED BY <2>1, <1>2
<1>6. OpensOnce(c)' /\ ToldFits(c)'
    BY <1>1, <1>2, <1>3 DEF ChannelFits, OpensOnce, ToldFits
<1>7. opening[c] # "corked" /\ stream[c] = "live" => q = <<>>
    BY <1>1, <1>3, <1>4 DEF ChannelFits, Writes
<1>8. stream[c] = "none" => q = p
    BY <1>3, <1>4
<1>9. QED BY <1>1, <1>2, <1>3, <1>4, <1>5, <1>6, <1>7, <1>8 DEF Written

\* A write to a stream that is not corked.
LEMMA WriteGoes ==
    ASSUME IInv, NEW U, NEW ms, NEW n \in Outcomes(U, ms), Writable(U, ms), Write(U, ms, n), NEW c \in U,
           UNCHANGED <<calls, opening, watched>>
    PROVE  Written(c, ms[c])
<1>1. c \in Channels /\ Taken(n[c], ms[c], c)
    BY OutcomeFacts
<1>2. PICK m, p, s, k : m = ms[c] /\ p = pending[c] /\ s = sent[c] /\ k = n[c]
    OBVIOUS
<1>3. /\ s \in Seq(Numbers) /\ p \in Seq(Numbers) /\ m \in Seq(Numbers) /\ ChannelFits(c)
      /\ stream[c] = "live" /\ opening[c] # "corked" /\ k \in Nat /\ k <= Len(m) /\ Len(m) \in Nat
    BY <1>1, <1>2 DEF IInv, Typed, Numbers, Writable, Uncorked, Tracked, Taken
<1>4. p = <<>>
    BY <1>2, <1>3 DEF ChannelFits, Writes
<1>5. PICK r : r = SubSeq(m, 1, k)
    OBVIOUS
<1>6. /\ r \in Seq(Numbers) /\ Len(r) = k /\ (k = Len(m) => r = m)
    <2>1. r \in Seq(Numbers) /\ Len(r) = k
        BY <1>3, <1>5, SubSeqProperties
    <2>2. k = Len(m) => r = m
        BY <1>3, <1>5
    <2>3. QED BY <2>1, <2>2
<1>7. PICK t : t = s \o r
    OBVIOUS
<1>8. t \in Seq(Numbers) /\ Len(t) = Len(s) + k /\ Len(s) \in Nat
    <2>1. s \o r \in Seq(Numbers) /\ Len(s \o r) = Len(s) + Len(r) /\ Len(s) \in Nat
        <3>1. s \in Seq(Numbers) /\ r \in Seq(Numbers)
            BY <1>3, <1>6
        <3>2. QED BY <3>1
    <2>2. QED BY <2>1, <1>6, <1>7
<1>9. sent'[c] = t /\ pending'[c] = <<>> /\ pending'[c] \in Seq(Numbers)
    <2>1. sent'[c] = sent[c] \o SubSeq(ms[c], 1, n[c]) /\ pending'[c] = <<>>
        BY <1>1, WriteAt
    <2>2. <<>> \in Seq(Numbers)
        OBVIOUS
    <2>3. QED BY <2>1, <2>2, <1>2, <1>5, <1>7
<1>10. OpensOnce(c)
    BY <1>3 DEF ChannelFits
<1>11. CASE k < Len(m)
    <2>1. PICK j : j = k + IF chan[c] = "open" THEN 1 ELSE 0
        OBVIOUS
    <2>2. j \in Nat /\ k <= j
        BY <1>3, <2>1
    <2>3. PICK x : x = Times(j, "sent") \o <<"closed">>
        OBVIOUS
    <2>4. stream'[c] = "gone" /\ chan'[c] = "closed" /\ log'[c] = Announced(c, x)
        <3>1. Breaks(n[c], ms[c])
            BY <1>2, <1>11 DEF Breaks
        <3>2. Broken(c, n[c])
            BY <1>1, <3>1, WriteAt
        <3>3. QED BY <3>2, <1>2, <2>1, <2>3 DEF Broken
    <2>5. x \in Seq(Events) /\ Count(x, "opened") = 0 /\ Count(x, "closed") = 1 /\ Count(x, "sent") = j
        BY <2>2, <2>3, WriteEvents
    <2>6. Len(sent'[c]) = Len(sent[c]) + k /\ Len(sent'[c]) \in Nat
        BY <1>2, <1>3, <1>8, <1>9
    <2>7. Len(sent'[c]) <= Len(sent[c]) + Count(x, "sent")
        BY <2>2, <2>5, <2>6, <1>2, <1>3, <1>8
    <2>8. /\ Flag(opening[c] = "open") + Count(x, "opened") = Flag(opening'[c] = "open")
          /\ Flag(stream[c] = "gone") + Count(x, "closed") = Flag(stream'[c] = "gone")
        BY <1>3, <2>4, <2>5 DEF Flag
    <2>9. ToldFits(c)' /\ log'[c] \in Seq(Events)
        BY <1>1, <2>4, <2>5, <2>6, <2>7, <2>8, AnnouncedFits
    <2>10. OpensOnce(c)'
        BY <1>3, <1>10, <2>4 DEF OpensOnce
    <2>11. QED BY <1>3, <1>8, <1>9, <2>4, <2>9, <2>10 DEF Written
<1>12. CASE ~(k < Len(m))
    <2>1. k = Len(m) /\ k + 0 = k
        BY <1>3, <1>12
    <2>2. PICK x : x = Times(k, "sent") \o <<>>
        OBVIOUS
    <2>3. stream'[c] = stream[c] /\ chan'[c] = chan[c] /\ log'[c] = Announced(c, x)
        <3>1. ~Breaks(n[c], ms[c])
            BY <1>2, <1>12 DEF Breaks
        <3>2. Whole(c, n[c])
            BY <1>1, <3>1, WriteAt
        <3>3. QED BY <3>2, <1>2, <2>1, <2>2 DEF Whole
    <2>4. x \in Seq(Events) /\ Count(x, "opened") = 0 /\ Count(x, "closed") = 0 /\ Count(x, "sent") = k
        BY <1>3, <2>2, WriteEvents
    <2>5. Len(sent'[c]) = Len(sent[c]) + Count(x, "sent") /\ Len(sent'[c]) \in Nat
        BY <1>2, <1>3, <1>8, <1>9, <2>4
    <2>6. Len(sent'[c]) <= Len(sent[c]) + Count(x, "sent")
        BY <2>5
    <2>7. /\ Flag(opening[c] = "open") + Count(x, "opened") = Flag(opening'[c] = "open")
          /\ Flag(stream[c] = "gone") + Count(x, "closed") = Flag(stream'[c] = "gone")
        BY <1>3, <2>3, <2>4 DEF Flag
    <2>8. ToldFits(c)' /\ log'[c] \in Seq(Events)
        BY <1>1, <1>3, <2>3, <2>4, <2>5, <2>6, <2>7, AnnouncedFits
    <2>9. OpensOnce(c)'
        BY <1>10, <2>3 DEF OpensOnce
    <2>10. t = s \o m /\ t \o <<>> = t /\ s \o <<>> = s
        BY <1>3, <1>6, <1>7, <1>8, <2>1
    <2>11. sent'[c] \o pending'[c] = (sent[c] \o pending[c]) \o m
        BY <1>2, <1>4, <1>9, <2>10
    <2>12. Elements(t) = Elements(s) \cup Elements(m) /\ Elements(<<>>) = {}
        <3>1. Elements(s \o m) = Elements(s) \cup Elements(m)
            BY <1>3, ElementsConcat
        <3>2. QED BY <3>1, <2>10, ElementsShort
    <2>13. Elements(sent'[c]) \cup Elements(pending'[c]) = Elements(sent[c]) \cup Elements(pending[c]) \cup Elements(m)
        BY <1>2, <1>4, <1>9, <2>12
    <2>14. QED BY <1>2, <1>3, <1>8, <1>9, <2>3, <2>8, <2>9, <2>11, <2>13 DEF Written
<1>13. QED BY <1>11, <1>12

\* What a write becomes at every channel, and its types.
LEMMA WriteFits ==
    ASSUME IInv, NEW U, NEW ms, NEW n \in Outcomes(U, ms), Writable(U, ms), Write(U, ms, n),
           UNCHANGED <<calls, opening, watched>>
    PROVE  /\ \A c \in Channels : Written(c, ms[c])
           /\ sent' \in [Channels -> Seq(Numbers)] /\ pending' \in [Channels -> Seq(Numbers)]
           /\ log' \in [Channels -> Seq(Events)] /\ stream' \in [Channels -> {"none", "live", "gone"}]
           /\ chan' \in [Channels -> {"none", "connecting", "open", "closed"}]
<1>1. ASSUME NEW c \in Channels PROVE Written(c, ms[c])
    <2>1. CASE c \in U
        BY <2>1, WriteGoes
    <2>2. CASE c \notin U
        BY <2>2, WriteWaits
    <2>3. QED BY <2>1, <2>2
<1>2. \A c \in Channels : sent'[c] \in Seq(Numbers) /\ pending'[c] \in Seq(Numbers) /\ log'[c] \in Seq(Events)
    BY <1>1 DEF Written
<1>3. \A c \in Channels : /\ stream'[c] \in {"none", "live", "gone"}
                          /\ chan'[c] \in {"none", "connecting", "open", "closed"}
    BY <1>1 DEF Written, IInv, Typed
<1>4. PICK f, g, h, i, j :
          /\ sent' = [c \in Channels |-> f[c]] /\ pending' = [c \in Channels |-> g[c]]
          /\ log' = [c \in Channels |-> h[c]] /\ stream' = [c \in Channels |-> i[c]]
          /\ chan' = [c \in Channels |-> j[c]]
    <2>1. /\ sent' = [c \in Channels |-> sent'[c]] /\ pending' = [c \in Channels |-> pending'[c]]
          /\ log' = [c \in Channels |-> log'[c]] /\ stream' = [c \in Channels |-> stream'[c]]
          /\ chan' = [c \in Channels |-> chan'[c]]
        BY DEF Write
    <2>2. QED BY <2>1
<1>5. /\ sent' \in [Channels -> Seq(Numbers)] /\ pending' \in [Channels -> Seq(Numbers)]
      /\ log' \in [Channels -> Seq(Events)]
    BY <1>2, <1>4
<1>6. /\ stream' \in [Channels -> {"none", "live", "gone"}]
      /\ chan' \in [Channels -> {"none", "connecting", "open", "closed"}]
    BY <1>3, <1>4
<1>7. QED BY <1>1, <1>5, <1>6

\* A channel fits after a write when its readers do.
LEMMA WrittenFits ==
    ASSUME IInv, NEW c \in Channels, NEW m, Written(c, m), opening' = opening, watched' = watched,
           place' # "start", ~echo' => ~echo /\ Elements(m) \subseteq {Own},
           InboxFits(c)', Refuses(c)', Reads(c)',
           stream[c] = "none" => /\ buffer'[c] = buffer[c] /\ active'[c] = active[c] /\ eaten'[c] = eaten[c]
                                 /\ dropped'[c] = dropped[c] /\ inbox'[c] = inbox[c] /\ arrived'[c] = arrived[c],
           stream[c] = "live" => Read(eaten'[c], (sent[c] \o pending[c]) \o m, buffer'[c],
                                      arrived'[c] - Len(inbox'[c]), dropped'[c])
    PROVE  ChannelFits(c)'
<1>1. ChannelFits(c)
    BY DEF IInv
<1>2. /\ stream'[c] = stream[c] \/ (stream[c] = "live" /\ stream'[c] = "gone")
      /\ OpensOnce(c)' /\ ToldFits(c)'
      /\ stream[c] = "none" => sent'[c] = sent[c] /\ pending'[c] = pending[c]
      /\ stream'[c] = "live" =>
            /\ sent'[c] \o pending'[c] = (sent[c] \o pending[c]) \o m
            /\ opening[c] # "corked" => pending'[c] = <<>>
            /\ Elements(sent'[c]) \cup Elements(pending'[c])
                  = Elements(sent[c]) \cup Elements(pending[c]) \cup Elements(m)
    BY DEF Written
<1>3. Fresh(c)'
    BY <1>1, <1>2 DEF ChannelFits, Fresh
<1>4. Writes(c)'
    <2>1. stream'[c] = "live" /\ ~echo' => Elements(sent[c]) \cup Elements(pending[c]) \subseteq {Own}
        BY <1>1, <1>2 DEF ChannelFits, Writes
    <2>2. QED BY <2>1, <1>2 DEF Writes
<1>5. StartsQuiet(c)'
    BY DEF StartsQuiet
<1>6. GivenFits(c)'
    BY <1>2 DEF GivenFits
<1>7. QED BY <1>2, <1>3, <1>4, <1>5, <1>6 DEF ChannelFits

\* What a channel was given, when nothing more is written to it.
LEMMA GivenStays ==
    ASSUME IInv, NEW c \in Channels, stream[c] = "live"
    PROVE  /\ Read(eaten[c], (sent[c] \o pending[c]) \o <<>>, buffer[c], arrived[c] - Len(inbox[c]), dropped[c])
           /\ sent[c] \o pending[c] \in Seq(Numbers) /\ arrived[c] - Len(inbox[c]) \in Nat
<1>1. sent[c] \in Seq(Numbers) /\ pending[c] \in Seq(Numbers)
    BY DEF IInv, Typed, Numbers
<1>2. PICK w : w = sent[c] \o pending[c]
    OBVIOUS
<1>3. w \in Seq(Numbers) /\ w \o <<>> = w
    BY <1>1, <1>2
<1>4. Read(eaten[c], w, buffer[c], arrived[c] - Len(inbox[c]), dropped[c])
    BY <1>2 DEF IInv, ChannelFits, GivenFits
<1>5. arrived[c] - Len(inbox[c]) \in Nat
    <2>1. arrived[c] \in Nat /\ Len(inbox[c]) \in Nat /\ Len(inbox[c]) <= arrived[c]
        BY DEF IInv, Typed, ChannelFits, InboxFits
    <2>2. QED BY <2>1
<1>6. QED BY <1>2, <1>3, <1>4, <1>5

\* A step that sends a message.
LEMMA StartSendFits ==
    ASSUME IInv, StartSend
    PROVE  IInv'
<1>1. PICK to, U, ms :
          /\ to = Matching(Tracked) /\ U = to \cap Uncorked
          /\ ms = [c \in Channels |-> IF c \in to THEN <<Own>> ELSE <<>>]
    OBVIOUS
<1>2. PICK n \in Outcomes(U, ms) :
          /\ Write(U, ms, n)
          /\ \/ place' = "throw" /\ UNCHANGED <<todo, owed>>
             \/ StepDone /\ UNCHANGED owed
             \/ place' = "sending" /\ owed' = to \ U /\ UNCHANGED todo
    BY <1>1 DEF StartSend
<1>3. /\ place = "run" /\ todo # <<>>
      /\ UNCHANGED <<arrived, inbox, calls, opening, buffer, active, mode, eaten, dropped, conn, watched, echo>>
    BY DEF StartSend, AtStep, readVars
<1>4. Typed /\ StepsFit /\ ~echo /\ owed = {}
    BY <1>3 DEF IInv, StepsFit
<1>5. \A c \in Channels : ms[c] \in Seq(Numbers) /\ Elements(ms[c]) \subseteq {Own}
    <2>1. <<>> \in Seq(Numbers) /\ <<Own>> \in Seq(Numbers)
        BY DEF Numbers
    <2>2. Elements(<<>>) = {} /\ Elements(<<Own>>) = {Own}
        BY ElementsShort
    <2>3. QED BY <2>1, <2>2, <1>1
<1>6. Writable(U, ms)
    <2>1. \A c \in Channels : ms[c] # <<>> => stream[c] = "live" /\ (c \in U \/ opening[c] = "corked")
        BY <1>1 DEF Matching, Tracked, Uncorked
    <2>2. QED BY <2>1, <1>1, <1>5 DEF Writable
<1>7. /\ \A c \in Channels : Written(c, ms[c])
      /\ sent' \in [Channels -> Seq(Numbers)] /\ pending' \in [Channels -> Seq(Numbers)]
      /\ log' \in [Channels -> Seq(Events)] /\ stream' \in [Channels -> {"none", "live", "gone"}]
      /\ chan' \in [Channels -> {"none", "connecting", "open", "closed"}]
    BY <1>2, <1>3, <1>6, WriteFits
<1>8. StepsFit' /\ todo' \in Seq(Steps) /\ place' \in {"throw", "run", "sending"} /\ owed' \subseteq Channels
    <2>1. CASE place' = "throw" /\ UNCHANGED <<todo, owed>>
        BY <2>1, <1>3, <1>4 DEF StepsFit, Typed
    <2>2. CASE StepDone /\ UNCHANGED owed
        BY <2>2, <1>3, <1>4, DoneFits
    <2>3. CASE place' = "sending" /\ owed' = to \ U /\ UNCHANGED todo
        <3>1. to \subseteq Channels
            BY <1>1 DEF Matching, Tracked
        <3>2. QED BY <3>1, <2>3, <1>3, <1>4 DEF StepsFit, Typed
    <2>4. QED BY <2>1, <2>2, <2>3, <1>2
<1>9. Typed'
    BY <1>3, <1>4, <1>7, <1>8 DEF Typed, Numbers, Events
<1>10. ASSUME NEW c \in Channels PROVE ChannelFits(c)'
    <2>1. ChannelFits(c) /\ Written(c, ms[c])
        BY <1>7 DEF IInv
    <2>2. stream'[c] = "live" => stream[c] = "live"
        BY <2>1 DEF Written
    <2>3. InboxFits(c)' /\ Refuses(c)' /\ Reads(c)'
        BY <2>1, <2>2, <1>3 DEF ChannelFits, InboxFits, Refuses, Reads
    <2>4. ASSUME stream[c] = "live"
          PROVE  Read(eaten'[c], (sent[c] \o pending[c]) \o ms[c], buffer'[c], arrived'[c] - Len(inbox'[c]), dropped'[c])
        <3>1. PICK e, w, b, h, d : /\ e = eaten[c] /\ w = sent[c] \o pending[c] /\ b = buffer[c]
                                   /\ h = arrived[c] - Len(inbox[c]) /\ d = dropped[c]
            OBVIOUS
        <3>2. Read(e, w \o <<>>, b, h, d) /\ w \in Seq(Numbers) /\ h \in Nat
            BY <2>4, <3>1, GivenStays
        <3>3. w \o <<>> = w /\ b \in Seq(Messages)
            BY <3>1, <3>2, <1>4 DEF Typed
        <3>4. Read(e, w \o <<Own>>, b, h, d)
            BY <3>2, <3>3, ReadSends
        <3>5. Read(e, w \o ms[c], b, h, d)
            BY <3>2, <3>4, <1>1
        <3>6. QED BY <3>1, <3>5, <1>3
    <2>5. QED BY <2>1, <2>3, <2>4, <1>3, <1>4, <1>5, <1>8, WrittenFits
<1>11. QED BY <1>8, <1>9, <1>10 DEF IInv

\* An echo that takes over what was kept.
LEMMA StartEchoFits ==
    ASSUME IInv, StartEcho
    PROVE  IInv'
<1>1. PICK ms : ms = [c \in Channels |-> IF c \in Tracked THEN buffer[c] ELSE <<>>]
    OBVIOUS
<1>2. PICK U : U = Uncorked
    OBVIOUS
<1>3. PICK n \in Outcomes(U, ms) : Write(U, ms, n)
    BY <1>1, <1>2 DEF StartEcho
<1>4. /\ place = "run" /\ todo # <<>> /\ Head(todo).type = "echo" /\ echo' = TRUE /\ place' = "echoing"
      /\ mode' = [c \in Channels |-> IF c \in Tracked THEN "flowing" ELSE mode[c]]
      /\ buffer' = [c \in Channels |-> IF c \in Tracked THEN <<>> ELSE buffer[c]]
      /\ active' = [c \in Channels |-> active[c] \/ c \in Tracked]
      /\ UNCHANGED <<arrived, inbox, calls, opening, eaten, dropped, conn, watched, todo, owed>>
    BY DEF StartEcho, AtStep
<1>5. Typed /\ StepsFit /\ owed = {} /\ conn # "new"
    BY <1>4 DEF IInv, StepsFit
<1>6. \A c \in Channels : buffer[c] \in Seq(Messages) /\ ms[c] \in Seq(Numbers)
    <2>1. \A c \in Channels : buffer[c] \in Seq(Messages)
        BY <1>5 DEF Typed
    <2>2. <<>> \in Seq(Numbers) /\ \A c \in Channels : buffer[c] \in Seq(Numbers)
        BY <2>1, NumberSeq
    <2>3. QED BY <2>1, <2>2, <1>1
<1>7. Writable(U, ms)
    <2>1. \A c \in Channels : ms[c] # <<>> => stream[c] = "live" /\ (c \in U \/ opening[c] = "corked")
        BY <1>1, <1>2 DEF Tracked, Uncorked
    <2>2. QED BY <2>1, <1>2, <1>6 DEF Writable
<1>8. /\ \A c \in Channels : Written(c, ms[c])
      /\ sent' \in [Channels -> Seq(Numbers)] /\ pending' \in [Channels -> Seq(Numbers)]
      /\ log' \in [Channels -> Seq(Events)] /\ stream' \in [Channels -> {"none", "live", "gone"}]
      /\ chan' \in [Channels -> {"none", "connecting", "open", "closed"}]
    BY <1>3, <1>4, <1>7, WriteFits
<1>9. StepsFit'
    <2>1. todo \in Seq(Steps) /\ Len(todo) \in Nat /\ 1 \in 1 .. Len(todo) /\ Head(todo) = todo[1]
        BY <1>4, <1>5, HeadTailProperties DEF Typed
    <2>2. Len(todo) = 1
        <3>1. PICK i : i = 1
            OBVIOUS
        <3>2. i \in 1 .. Len(todo) /\ todo[i].type = "echo"
            BY <2>1, <3>1, <1>4
        <3>3. i = Len(todo)
            BY <3>2, <1>5 DEF StepsFit
        <3>4. QED BY <3>1, <3>3
    <2>3. QED BY <2>2, <1>4, <1>5 DEF StepsFit
<1>10. /\ mode' \in [Channels -> {"idle", "flowing", "paused"}] /\ active' \in [Channels -> BOOLEAN]
       /\ buffer' \in [Channels -> Seq(Messages)] /\ \A c \in Channels : Len(buffer'[c]) <= HighWater
    <2>1. <<>> \in Seq(Messages) /\ Len(<<>>) <= HighWater
        BY NumberFacts
    <2>2. QED BY <2>1, <1>4, <1>5 DEF Typed
<1>11. Typed'
    BY <1>4, <1>5, <1>8, <1>10 DEF Typed, Numbers, Events
<1>12. ASSUME NEW c \in Channels PROVE ChannelFits(c)'
    <2>1. ChannelFits(c) /\ Written(c, ms[c])
        BY <1>8 DEF IInv
    <2>2. stream'[c] = "live" => stream[c] = "live"
        BY <2>1 DEF Written
    <2>3. stream[c] = "live" => buffer'[c] = <<>> /\ active'[c]
        BY <1>4 DEF Tracked
    <2>4. stream[c] # "live" => buffer'[c] = buffer[c] /\ active'[c] = active[c]
        BY <1>4, <1>5 DEF Tracked, Typed
    <2>5. InboxFits(c)' /\ Refuses(c)' /\ Reads(c)'
        <3>1. Len(<<>>) < HighWater
            BY NumberFacts
        <3>2. QED BY <3>1, <2>1, <2>2, <2>3, <1>4 DEF ChannelFits, InboxFits, Refuses, Reads
    <2>6. ASSUME stream[c] = "live"
          PROVE  Read(eaten'[c], (sent[c] \o pending[c]) \o ms[c], buffer'[c], arrived'[c] - Len(inbox'[c]), dropped'[c])
        <3>1. PICK e, w, b, h, d : /\ e = eaten[c] /\ w = sent[c] \o pending[c] /\ b = buffer[c]
                                   /\ h = arrived[c] - Len(inbox[c]) /\ d = dropped[c]
            OBVIOUS
        <3>2. Read(e, w \o <<>>, b, h, d) /\ w \in Seq(Numbers) /\ h \in Nat
            BY <2>6, <3>1, GivenStays
        <3>3. w \o <<>> = w /\ b \in Seq(Messages)
            BY <3>1, <3>2, <1>6
        <3>4. Read(e, w \o b, <<>>, h, d)
            BY <3>2, <3>3, ReadFlushes
        <3>5. ms[c] = b
            BY <2>6, <3>1, <1>1 DEF Tracked
        <3>6. QED BY <2>3, <2>6, <3>1, <3>4, <3>5, <1>4
    <2>7. QED BY <2>1, <2>4, <2>5, <2>6, <1>4, WrittenFits
<1>13. QED BY <1>9, <1>11, <1>12 DEF IInv

\* A message that is written back.
LEMMA EchoedFits ==
    ASSUME IInv, NEW c \in Channels, Deliver(c), Echoed(c, Head(inbox[c]))
    PROVE  IInv'
<1>1. PICK ms, U : /\ ms = [d \in Channels |-> IF d = c /\ echo THEN <<Head(inbox[c])>> ELSE <<>>]
                   /\ U = {c} \cap Uncorked
    OBVIOUS
<1>2. PICK n \in Outcomes(U, ms) : Write(U, ms, n)
    BY <1>1 DEF Echoed
<1>3. /\ inbox[c] # <<>> /\ stream[c] = "live" /\ inbox' = [inbox EXCEPT ![c] = Tail(@)]
      /\ mode[c] = "flowing" /\ place # "waiting"
      /\ UNCHANGED <<arrived, calls, opening, buffer, active, mode, eaten, dropped>>
      /\ UNCHANGED <<conn, watched, place, todo, echo, owed>>
    BY DEF Deliver, Echoed, Tracked, readVars
<1>4. Typed /\ StepsFit /\ echo /\ buffer[c] = <<>> /\ place # "start"
    <2>1. echo /\ buffer[c] = <<>>
        BY <1>3 DEF IInv, ChannelFits, Reads
    <2>2. QED BY <2>1 DEF IInv, StepsFit
<1>5. /\ inbox' \in [Channels -> Seq(Messages)] /\ InboxFits(c)'
      /\ \A d \in Channels : d # c => inbox'[d] = inbox[d]
    BY <1>3, NextMessage
<1>6. PICK h \in Nat : /\ Head(inbox[c]) = h + 1 /\ h + 1 \in Messages
                       /\ arrived[c] - Len(inbox[c]) = h /\ arrived'[c] - Len(inbox'[c]) = h + 1
    BY <1>3, NextMessage
<1>7. ms[c] = <<h + 1>> /\ \A d \in Channels : d # c => ms[d] = <<>>
    BY <1>1, <1>4, <1>6
<1>8. Writable(U, ms)
    <2>1. <<>> \in Seq(Numbers) /\ <<h + 1>> \in Seq(Numbers)
        BY <1>6 DEF Numbers
    <2>2. \A d \in Channels : ms[d] \in Seq(Numbers)
        BY <2>1, <1>7
    <2>3. \A d \in Channels : ms[d] # <<>> => stream[d] = "live" /\ (d \in U \/ opening[d] = "corked")
        BY <1>1, <1>3, <1>7 DEF Tracked, Uncorked
    <2>4. QED BY <2>2, <2>3, <1>1 DEF Writable
<1>9. /\ \A d \in Channels : Written(d, ms[d])
      /\ sent' \in [Channels -> Seq(Numbers)] /\ pending' \in [Channels -> Seq(Numbers)]
      /\ log' \in [Channels -> Seq(Events)] /\ stream' \in [Channels -> {"none", "live", "gone"}]
      /\ chan' \in [Channels -> {"none", "connecting", "open", "closed"}]
    BY <1>2, <1>3, <1>8, WriteFits
<1>10. StepsFit'
    BY <1>3, <1>4 DEF StepsFit
<1>11. Typed'
    BY <1>3, <1>4, <1>5, <1>9 DEF Typed, Numbers, Events
<1>12. ASSUME NEW d \in Channels PROVE ChannelFits(d)'
    <2>1. ChannelFits(d) /\ Written(d, ms[d])
        BY <1>9 DEF IInv
    <2>2. stream'[d] = "live" => stream[d] = "live"
        BY <2>1 DEF Written
    <2>3. InboxFits(d)'
        <3>1. CASE d = c
            BY <3>1, <1>5
        <3>2. CASE d # c
            BY <3>2, <2>1, <1>3, <1>5 DEF ChannelFits, InboxFits
        <3>3. QED BY <3>1, <3>2
    <2>4. Refuses(d)' /\ Reads(d)'
        BY <2>1, <2>2, <1>3 DEF ChannelFits, Refuses, Reads
    <2>5. ASSUME stream[d] = "live"
          PROVE  Read(eaten'[d], (sent[d] \o pending[d]) \o ms[d], buffer'[d], arrived'[d] - Len(inbox'[d]), dropped'[d])
        <3>1. PICK e, w, b, x : /\ e = eaten[d] /\ w = sent[d] \o pending[d] /\ b = buffer[d] /\ x = dropped[d]
            OBVIOUS
        <3>2. PICK k : k = arrived[d] - Len(inbox[d])
            OBVIOUS
        <3>3. Read(e, w \o <<>>, b, k, x) /\ w \in Seq(Numbers)
            BY <2>5, <3>1, <3>2, GivenStays
        <3>4. w \o <<>> = w
            BY <3>3
        <3>5. CASE d = c
            <4>1. k = h /\ b = <<>>
                BY <3>1, <3>2, <3>5, <1>4, <1>6
            <4>2. Read(e, w, b, h, x)
                BY <3>3, <3>4, <4>1
            <4>3. Read(e, w \o <<h + 1>>, b, h + 1, x)
                BY <3>3, <4>1, <4>2, <1>6, ReadAnswers
            <4>4. QED BY <3>1, <3>5, <4>3, <1>3, <1>6, <1>7
        <3>6. CASE d # c
            <4>1. ms[d] = <<>> /\ arrived'[d] - Len(inbox'[d]) = k
                BY <3>2, <3>6, <1>3, <1>5, <1>7
            <4>2. QED BY <3>1, <3>3, <4>1, <1>3
        <3>7. QED BY <3>5, <3>6
    <2>6. stream[d] = "none" => inbox'[d] = inbox[d] /\ arrived'[d] = arrived[d]
        BY <1>3, <1>5
    <2>7. QED BY <2>1, <2>3, <2>4, <2>5, <2>6, <1>3, <1>4, WrittenFits
<1>13. QED BY <1>10, <1>11, <1>12 DEF IInv

-----------------------------------------------------------------------------
(* A stream that opens.                                                    *)

\* Some of what was written, but not all.
LEMMA PartsAreShorter ==
    ASSUME NEW s \in Seq(Numbers), NEW r \in Parts(s)
    PROVE  r \in Seq(Numbers) /\ Len(r) < Len(s)
<1>1. Len(s) \in Nat
    OBVIOUS
<1>2. PICK n \in 0 .. Len(s) - 1 : \E at \in [1 .. n -> 1 .. Len(s)] : r = [k \in 1 .. n |-> s[at[k]]]
    <2>1. PICK n \in 0 .. Len(s) - 1 :
              r \in {[k \in 1 .. n |-> s[at[k]]] :
                       at \in {f \in [1 .. n -> 1 .. Len(s)] : \A i, j \in 1 .. n : i < j => f[i] < f[j]}}
        BY DEF Parts
    <2>2. PICK at \in {f \in [1 .. n -> 1 .. Len(s)] : \A i, j \in 1 .. n : i < j => f[i] < f[j]} :
              r = [k \in 1 .. n |-> s[at[k]]]
        BY <2>1
    <2>3. at \in [1 .. n -> 1 .. Len(s)]
        OBVIOUS
    <2>4. QED BY <2>2, <2>3
<1>3. PICK at \in [1 .. n -> 1 .. Len(s)] : r = [k \in 1 .. n |-> s[at[k]]]
    BY <1>2
<1>4. n \in Nat /\ n < Len(s)
    BY <1>1, <1>2
<1>5. r \in [1 .. n -> Numbers]
    <2>1. \A k \in 1 .. n : s[at[k]] \in Numbers
        BY <1>1, <1>3
    <2>2. QED BY <2>1, <1>3
<1>6. r \in Seq(Numbers) /\ Len(r) = n
    BY <1>4, <1>5
<1>7. QED BY <1>4, <1>6

\* The events of an opening after k messages, which may fail.
Opening(k, fails) == Times(k, "sent") \o <<"opened">> \o IF fails THEN <<"closed">> ELSE <<>>

\* What they tell.
LEMMA OpeningEvents ==
    ASSUME NEW k \in Nat, NEW fails \in BOOLEAN
    PROVE  /\ Opening(k, fails) \in Seq(Events) /\ Count(Opening(k, fails), "opened") = 1
           /\ Count(Opening(k, fails), "closed") = (IF fails THEN 1 ELSE 0)
           /\ Count(Opening(k, fails), "sent") = k
<1>1. PICK t, o, y, v : /\ t = Times(k, "sent") /\ o = <<"opened">> /\ v = t \o o
                        /\ y = IF fails THEN <<"closed">> ELSE <<>>
    OBVIOUS
<1>2. "sent" \in Events
    BY DEF Events
<1>3. Times(k, "sent") \in Seq(Events) /\ \A x : Count(Times(k, "sent"), x) = IF "sent" = x THEN k ELSE 0
    BY <1>2, CountTimes
<1>4. t \in Seq(Events) /\ Count(t, "opened") = 0 /\ Count(t, "closed") = 0 /\ Count(t, "sent") = k
    BY <1>1, <1>3
<1>5. /\ Count(<<"closed">>, "opened") = 0 /\ Count(<<"closed">>, "closed") = 1 /\ Count(<<"closed">>, "sent") = 0
      /\ Count(<<"opened">>, "opened") = 1 /\ Count(<<"opened">>, "closed") = 0 /\ Count(<<"opened">>, "sent") = 0
      /\ Count(<<>>, "opened") = 0 /\ Count(<<>>, "closed") = 0 /\ Count(<<>>, "sent") = 0
    BY CountShort
<1>6. o \in Seq(Events) /\ Count(o, "opened") = 1 /\ Count(o, "closed") = 0 /\ Count(o, "sent") = 0
    BY <1>1, <1>5 DEF Events
<1>7. /\ y \in Seq(Events) /\ Count(y, "opened") = 0 /\ Count(y, "sent") = 0
      /\ Count(y, "closed") = IF fails THEN 1 ELSE 0
    BY <1>1, <1>5 DEF Events
<1>8. \A x : Count(t \o o, x) = Count(t, x) + Count(o, x)
    BY <1>4, <1>6, CountConcat
<1>9. v \in Seq(Events) /\ Count(v, "opened") = 1 /\ Count(v, "closed") = 0 /\ Count(v, "sent") = k
    BY <1>1, <1>4, <1>6, <1>8
<1>10. \A x : Count(v \o y, x) = Count(v, x) + Count(y, x)
    BY <1>7, <1>9, CountConcat
<1>11. PICK z : z = v \o y
    OBVIOUS
<1>12. Opening(k, fails) = z
    BY <1>1, <1>11 DEF Opening
<1>13. /\ z \in Seq(Events) /\ Count(z, "opened") = 1 /\ Count(z, "sent") = k
       /\ Count(z, "closed") = IF fails THEN 1 ELSE 0
    BY <1>7, <1>9, <1>10, <1>11
<1>14. QED BY <1>12, <1>13

\* What onOpen does of c, when out is sent.
Opened(c, out) ==
    LET goes == stream[c] = "live"
        fails == goes /\ Len(out) < Len(pending[c])
    IN  /\ goes /\ chan[c] # "open" => out = <<>>
        /\ sent' = [sent EXCEPT ![c] = IF goes THEN @ \o out ELSE @]
        /\ pending' = [pending EXCEPT ![c] = IF goes THEN <<>> ELSE @]
        /\ log' = [log EXCEPT ![c] =
                      Announced(c, Opening(IF goes /\ chan[c] = "open" THEN Len(pending[c]) ELSE 0, fails))]
        /\ stream' = [stream EXCEPT ![c] = IF fails THEN "gone" ELSE @]
        /\ chan' = [chan EXCEPT ![c] = IF fails THEN "closed" ELSE @]

\* That is what the action says.
LEMMA OnOpenIs ==
    ASSUME NEW c \in Channels, OnOpen(c)
    PROVE  /\ \E out \in {pending[c]} \cup Parts(pending[c]) : Opened(c, out)
           /\ \/ owed # {} /\ place' = "throw" /\ owed' = {} /\ UNCHANGED todo
              \/ owed' \subseteq owed /\ (OpenEnds(c) \/ (owed = {c} /\ owed' = {})) /\ StepDone
              \/ owed' \subseteq owed /\ UNCHANGED <<place, todo>>
<1>1. Times(0, "sent") = <<>>
    BY DEF Times
<1>2. PICK out \in {pending[c]} \cup Parts(pending[c]) :
          LET goes == c \in Tracked
              fails == goes /\ Len(out) < Len(pending[c])
              tells == IF goes /\ chan[c] = "open" THEN Times(Len(pending[c]), "sent") ELSE <<>>
          IN  /\ goes /\ chan[c] # "open" => out = <<>>
              /\ sent' = [sent EXCEPT ![c] = IF goes THEN @ \o out ELSE @]
              /\ pending' = [pending EXCEPT ![c] = IF goes THEN <<>> ELSE @]
              /\ log' = [log EXCEPT ![c] = Announced(c, tells \o <<"opened">> \o IF fails THEN <<"closed">> ELSE <<>>)]
              /\ stream' = [stream EXCEPT ![c] = IF fails THEN "gone" ELSE @]
              /\ chan' = [chan EXCEPT ![c] = IF fails THEN "closed" ELSE @]
              /\ IF c \in owed /\ fails THEN place' = "throw" /\ owed' = {} /\ UNCHANGED todo
                 ELSE /\ owed' = IF goes THEN owed \ {c} ELSE owed
                      /\ IF OpenEnds(c) \/ (owed = {c} /\ goes) THEN StepDone
                         ELSE UNCHANGED <<place, todo>>
    BY DEF OnOpen
<1>3. c \in Tracked <=> stream[c] = "live"
    BY DEF Tracked
<1>4. Opened(c, out)
    <2>1. CASE stream[c] = "live" /\ chan[c] = "open"
        BY <1>2, <1>3, <2>1 DEF Opened, Opening
    <2>2. CASE ~(stream[c] = "live" /\ chan[c] = "open")
        BY <1>1, <1>2, <1>3, <2>2 DEF Opened, Opening
    <2>3. QED BY <2>1, <2>2
<1>5. \/ owed # {} /\ place' = "throw" /\ owed' = {} /\ UNCHANGED todo
      \/ owed' \subseteq owed /\ (OpenEnds(c) \/ (owed = {c} /\ owed' = {})) /\ StepDone
      \/ owed' \subseteq owed /\ UNCHANGED <<place, todo>>
    BY <1>2
<1>6. QED BY <1>2, <1>4, <1>5

\* What onOpen leaves of its channel.
LEMMA OpenedFits ==
    ASSUME IInv, NEW c \in Channels, NEW out \in {pending[c]} \cup Parts(pending[c]), Opened(c, out),
           opening'[c] = "open", opening[c] = "corked", stream[c] # "none", calls'[c] = calls[c] \ {"open"},
           chan[c] \notin {"none", "connecting"},
           UNCHANGED <<arrived, inbox, buffer, active, mode, eaten, dropped, watched, echo>>,
           place = "waiting" => place' = "waiting", place' = "start" => place = "start"
    PROVE  /\ ChannelFits(c)' /\ sent'[c] \in Seq(Numbers) /\ pending'[c] \in Seq(Numbers)
           /\ log'[c] \in Seq(Events)
<1>1. PICK s, p : s = sent[c] /\ p = pending[c]
    OBVIOUS
<1>2. /\ s \in Seq(Numbers) /\ p \in Seq(Numbers) /\ ChannelFits(c) /\ Len(s) \in Nat /\ Len(p) \in Nat
    BY <1>1 DEF IInv, Typed, Numbers
<1>3. out \in Seq(Numbers) /\ Len(out) \in Nat /\ Len(out) <= Len(p) /\ (~(Len(out) < Len(p)) => out = p)
    <2>1. CASE out = p
        BY <2>1, <1>2
    <2>2. CASE out \in Parts(p)
        <3>1. out \in Seq(Numbers) /\ Len(out) < Len(p)
            BY <2>2, <1>2, PartsAreShorter
        <3>2. QED BY <3>1, <1>2
    <2>3. QED BY <2>1, <2>2, <1>1
<1>4. PICK k, fails : /\ k = IF stream[c] = "live" /\ chan[c] = "open" THEN Len(p) ELSE 0
                      /\ fails = (stream[c] = "live" /\ Len(out) < Len(p))
    OBVIOUS
<1>5. k \in Nat /\ fails \in BOOLEAN
    BY <1>2, <1>4
<1>6. /\ sent'[c] = IF stream[c] = "live" THEN s \o out ELSE s
      /\ pending'[c] = IF stream[c] = "live" THEN <<>> ELSE p
      /\ log'[c] = Announced(c, Opening(k, fails))
      /\ stream'[c] = IF fails THEN "gone" ELSE stream[c]
      /\ chan'[c] = IF fails THEN "closed" ELSE chan[c]
      /\ stream[c] = "live" /\ chan[c] # "open" => out = <<>>
    BY <1>1, <1>4 DEF Opened, IInv, Typed
<1>7. PICK t : t = s \o out
    OBVIOUS
<1>8. t \in Seq(Numbers) /\ Len(t) = Len(s) + Len(out)
    <2>1. s \o out \in Seq(Numbers) /\ Len(s \o out) = Len(s) + Len(out)
        <3>1. s \in Seq(Numbers) /\ out \in Seq(Numbers)
            BY <1>2, <1>3
        <3>2. QED BY <3>1
    <2>2. QED BY <2>1, <1>7
<1>9. sent'[c] \in Seq(Numbers) /\ pending'[c] \in Seq(Numbers)
    BY <1>2, <1>6, <1>7, <1>8
<1>10. stream'[c] = "live" => /\ stream[c] = "live" /\ ~fails /\ out = p /\ sent'[c] = s \o p /\ pending'[c] = <<>>
    BY <1>3, <1>4, <1>6
<1>11. InboxFits(c)' /\ Fresh(c)' /\ Refuses(c)'
    BY <1>2, <1>6, <1>10 DEF ChannelFits, InboxFits, Fresh, Refuses
<1>12. OpensOnce(c)'
    BY <1>6 DEF OpensOnce
<1>13. Reads(c)'
    BY <1>2, <1>10 DEF ChannelFits, Reads
<1>14. stream'[c] = "live" => /\ sent'[c] \o pending'[c] = s \o p
                              /\ Elements(sent'[c]) = Elements(s) \cup Elements(p) /\ Elements(pending'[c]) = {}
    <2>1. Elements(s \o p) = Elements(s) \cup Elements(p)
        BY <1>2, ElementsConcat
    <2>2. s \o p \in Seq(Numbers)
        BY <1>2
    <2>3. (s \o p) \o <<>> = s \o p
        BY <2>2
    <2>4. QED BY <2>1, <2>3, <1>10, ElementsShort
<1>15. Writes(c)'
    BY <1>1, <1>2, <1>10, <1>14 DEF ChannelFits, Writes
<1>16. GivenFits(c)'
    BY <1>1, <1>2, <1>10, <1>14 DEF ChannelFits, GivenFits
<1>17. StartsQuiet(c)'
    <2>1. ASSUME place' = "start" PROVE s = <<>> /\ p = <<>>
        BY <2>1, <1>1, <1>2 DEF ChannelFits, StartsQuiet
    <2>2. ASSUME place' = "start" PROVE out = <<>>
        BY <2>1, <2>2, <1>3
    <2>3. QED BY <2>1, <2>2, <1>6 DEF StartsQuiet
<1>18. ToldFits(c)' /\ log'[c] \in Seq(Events)
    <2>1. PICK x : x = Opening(k, fails)
        OBVIOUS
    <2>2. /\ x \in Seq(Events) /\ Count(x, "opened") = 1 /\ Count(x, "sent") = k
          /\ Count(x, "closed") = IF fails THEN 1 ELSE 0
        BY <2>1, <1>5, OpeningEvents
    <2>3. log'[c] = Announced(c, x)
        BY <2>1, <1>6
    <2>4. /\ Flag(opening[c] = "open") + Count(x, "opened") = Flag(opening'[c] = "open")
          /\ Flag(stream[c] = "gone") + Count(x, "closed") = Flag(stream'[c] = "gone")
        <3>1. Flag(opening[c] = "open") = 0 /\ Flag(opening'[c] = "open") = 1
            BY DEF Flag
        <3>2. CASE fails
            <4>1. stream[c] = "live" /\ stream'[c] = "gone" /\ Count(x, "closed") = 1
                BY <3>2, <2>2, <1>4, <1>6
            <4>2. Flag(stream[c] = "gone") = 0 /\ Flag(stream'[c] = "gone") = 1
                BY <4>1 DEF Flag
            <4>3. QED BY <2>2, <3>1, <4>1, <4>2
        <3>3. CASE ~fails
            <4>1. stream'[c] = stream[c] /\ Count(x, "closed") = 0
                BY <3>3, <2>2, <1>6
            <4>2. Flag(stream[c] = "gone") = Flag(stream'[c] = "gone") /\ Flag(stream[c] = "gone") \in Nat
                BY <4>1 DEF Flag
            <4>3. QED BY <2>2, <3>1, <4>1, <4>2
        <3>4. QED BY <3>2, <3>3
    <2>5. Len(sent[c]) \in Nat /\ Len(sent'[c]) \in Nat
        BY <1>1, <1>2, <1>9
    <2>6. Len(sent'[c]) <= Len(sent[c]) + Count(x, "sent")
        <3>1. CASE stream[c] = "live"
            <4>1. Len(out) <= k
                <5>1. CASE chan[c] = "open"
                    BY <3>1, <5>1, <1>3, <1>4
                <5>2. CASE chan[c] # "open"
                    BY <3>1, <5>2, <1>4, <1>6
                <5>3. QED BY <5>1, <5>2
            <4>2. Len(sent'[c]) = Len(s) + Len(out)
                BY <3>1, <1>6, <1>7, <1>8
            <4>3. QED BY <4>1, <4>2, <2>2, <1>1, <1>2, <1>3, <1>5
        <3>2. CASE stream[c] # "live"
            <4>1. Len(sent'[c]) = Len(s)
                BY <3>2, <1>6
            <4>2. QED BY <4>1, <2>2, <1>1, <1>2, <1>5
        <3>3. QED BY <3>1, <3>2
    <2>7. stream'[c] = "live" => stream[c] = "live" /\ Len(sent'[c]) = Len(sent[c]) + Count(x, "sent")
        <3>1. ASSUME stream'[c] = "live" PROVE Len(out) = k /\ Len(sent'[c]) = Len(s) + Len(out)
            <4>1. CASE chan[c] = "open"
                BY <3>1, <4>1, <1>4, <1>6, <1>7, <1>8, <1>10
            <4>2. CASE chan[c] # "open"
                BY <3>1, <4>2, <1>4, <1>6, <1>7, <1>8, <1>10
            <4>3. QED BY <4>1, <4>2
        <3>2. QED BY <3>1, <2>2, <1>1, <1>10
    <2>8. watched' = watched
        OBVIOUS
    <2>9. QED BY <2>2, <2>3, <2>4, <2>5, <2>6, <2>7, <2>8, AnnouncedFits
<1>19. QED BY <1>9, <1>11, <1>12, <1>13, <1>15, <1>16, <1>17, <1>18 DEF ChannelFits

\* A stream whose channel opens.
LEMMA OnOpenFits ==
    ASSUME IInv, NEW c \in Channels, OnOpen(c)
    PROVE  IInv'
<1>1. /\ "open" \in calls[c] /\ calls' = [calls EXCEPT ![c] = @ \ {"open"}] /\ opening' = [opening EXCEPT ![c] = "open"]
      /\ UNCHANGED <<arrived, inbox, buffer, active, mode, eaten, dropped, conn, watched, echo>>
    BY DEF OnOpen, readVars
<1>2. PICK out \in {pending[c]} \cup Parts(pending[c]) : Opened(c, out)
    BY OnOpenIs
<1>3. Typed /\ StepsFit /\ ChannelFits(c)
    BY DEF IInv
<1>4. /\ StepsFit' /\ todo' \in Seq(Steps) /\ Goes /\ (place = "waiting" => place' = "waiting")
      /\ place' = place \/ place' \in {"run", "throw"}
      /\ owed' \subseteq owed
    <2>1. CASE owed # {} /\ place' = "throw" /\ owed' = {} /\ UNCHANGED todo
        BY <2>1, <1>1, <1>3 DEF StepsFit, Typed, Goes
    <2>2. CASE owed' \subseteq owed /\ (OpenEnds(c) \/ (owed = {c} /\ owed' = {})) /\ StepDone
        <3>1. place \in {"creating", "wait-channel", "sending"} /\ owed' = {}
            BY <2>2, <1>3 DEF OpenEnds, StepsFit
        <3>2. todo # <<>> /\ echo' = echo /\ conn' = conn
            BY <3>1, <1>1, <1>3 DEF StepsFit
        <3>3. StepsFit' /\ todo' \in Seq(Steps) /\ place' = "run" /\ Goes
            BY <2>2, <3>1, <3>2, <1>3, DoneFits
        <3>4. QED BY <2>2, <3>1, <3>3
    <2>3. CASE owed' \subseteq owed /\ UNCHANGED <<place, todo>>
        BY <2>3, <1>1, <1>3 DEF StepsFit, Typed, Goes
    <2>4. QED BY <2>1, <2>2, <2>3, OnOpenIs
<1>5. /\ opening' \in [Channels -> {"corked", "immediate", "open"}] /\ opening'[c] = "open"
      /\ calls' \in [Channels -> SUBSET {"open", "closed", "error"}] /\ calls'[c] = calls[c] \ {"open"}
    BY <1>1, <1>3 DEF Typed
<1>6. opening[c] = "corked" /\ stream[c] # "none" /\ chan[c] \notin {"none", "connecting"}
    BY <1>1, <1>3 DEF ChannelFits, OpensOnce
<1>7. ChannelFits(c)' /\ sent'[c] \in Seq(Numbers) /\ pending'[c] \in Seq(Numbers) /\ log'[c] \in Seq(Events)
    <2>1. place' = "start" => place = "start"
        BY <1>4
    <2>2. QED BY <2>1, <1>1, <1>2, <1>4, <1>5, <1>6, OpenedFits
<1>8. \A d \in Channels : d # c =>
          /\ sent'[d] = sent[d] /\ pending'[d] = pending[d] /\ log'[d] = log[d] /\ stream'[d] = stream[d]
          /\ chan'[d] = chan[d] /\ opening'[d] = opening[d] /\ calls'[d] = calls[d]
    BY <1>1, <1>2, <1>3 DEF Opened, Typed
<1>9. /\ sent' \in [Channels -> Seq(Numbers)] /\ pending' \in [Channels -> Seq(Numbers)]
      /\ log' \in [Channels -> Seq(Events)]
    <2>1. PICK x, y, z : /\ sent' = [sent EXCEPT ![c] = x] /\ pending' = [pending EXCEPT ![c] = y]
                         /\ log' = [log EXCEPT ![c] = z]
        BY <1>2 DEF Opened
    <2>2. x \in Seq(Numbers) /\ y \in Seq(Numbers) /\ z \in Seq(Events)
        BY <2>1, <1>3, <1>7 DEF Typed
    <2>3. QED BY <2>1, <2>2, <1>3 DEF Typed, Numbers, Events
<1>10. /\ stream' \in [Channels -> {"none", "live", "gone"}]
       /\ chan' \in [Channels -> {"none", "connecting", "open", "closed"}]
    <2>1. PICK fails \in BOOLEAN : /\ stream' = [stream EXCEPT ![c] = IF fails THEN "gone" ELSE @]
                                   /\ chan' = [chan EXCEPT ![c] = IF fails THEN "closed" ELSE @]
        BY <1>2 DEF Opened
    <2>2. QED BY <2>1, <1>3 DEF Typed
<1>11. Typed'
    BY <1>1, <1>3, <1>4, <1>5, <1>9, <1>10 DEF Typed, Numbers, Events
<1>12. ASSUME NEW d \in Channels, d # c PROVE ChannelFits(d)'
    <2>1. ChannelFits(d) /\ Same(d)
        BY <1>1, <1>8, <1>12 DEF IInv, Same
    <2>2. Reads(d)'
        BY <2>1, <1>1, <1>4, <1>8, <1>12, SameReads
    <2>3. OpensOnce(d)'
        BY <2>1, <1>8, <1>12, SameOpens
    <2>4. QED BY <1>4, <2>1, <2>2, <2>3, SameFits
<1>13. QED BY <1>4, <1>7, <1>11, <1>12 DEF IInv

-----------------------------------------------------------------------------
(* The theorems.                                                           *)

\* A stuttering step.
LEMMA StutterFits == IInv /\ UNCHANGED vars => IInv'
<1> SUFFICES ASSUME IInv, UNCHANGED vars PROVE IInv'
    OBVIOUS
<1>1. /\ UNCHANGED <<Ours, arrived, inbox>> /\ chan' = chan /\ calls' = calls
    BY DEF vars, nativeVars, Ours
<1>2. \A c \in Channels : OpensOnce(c)'
    BY <1>1 DEF IInv, ChannelFits, OpensOnce, Ours
<1>3. QED BY <1>1, <1>2, NativeKeeps DEF IInv, Typed

\* Every step keeps the invariant.
LEMMA NextFits == IInv /\ [Next]_vars => IInv'
<1> SUFFICES ASSUME IInv, [Next]_vars PROVE IInv'
    OBVIOUS
<1>1. ASSUME NEW c \in Channels, ClientOpens(c) \/ NativeOpens(c) \/ NativeCloses(c) \/ NativeError(c) PROVE IInv'
    BY <1>1, NativeFits
<1>2. ASSUME NEW c \in Channels, ClientSends(c) PROVE IInv'
    BY <1>2, SendsFits
<1>3. ASSUME NEW c \in Channels, ChannelArrives(c) PROVE IInv'
    BY <1>3, ArrivesFits
<1>4. ASSUME NEW c \in Channels, OpenLater(c) PROVE IInv'
    BY <1>4, OpenLaterFits
<1>5. ASSUME NEW c \in Channels, OnOpen(c) PROVE IInv'
    BY <1>5, OnOpenFits
<1>6. ASSUME NEW c \in Channels, Deliver(c) PROVE IInv'
    <2>1. \/ Dropped(c, Head(inbox[c])) \/ Buffered(c, Head(inbox[c]))
          \/ Consumed(c, Head(inbox[c])) \/ Echoed(c, Head(inbox[c]))
        BY <1>6 DEF Deliver
    <2>2. QED BY <2>1, <1>6, DroppedFits, BufferedFits, ConsumedFits, EchoedFits
<1>7. ASSUME NEW c \in Channels, NEW call \in {"closed", "error"}, OnClosed(c, call) PROVE IInv'
    BY <1>7, OnClosedFits
<1>8. ASSUME HandlerStep PROVE IInv'
    BY <1>8, StartWaitFits, WaitChannelFits, StartSendFits, CreateFits, StartEchoFits, HandlerClosesFits DEF HandlerStep
<1>9. ASSUME Connected \/ ConnectionGoes PROVE IInv'
    BY <1>9, ConnectedFits, ConnectionGoesFits
<1>10. ASSUME UNCHANGED vars PROVE IInv'
    BY <1>10, StutterFits
<1>11. QED
    BY <1>1, <1>2, <1>3, <1>4, <1>5, <1>6, <1>7, <1>8, <1>9, <1>10 DEF Next

-----------------------------------------------------------------------------
(* The messages that are announced as they arrive.                         *)

\* The messages s are the last of n.
LastOf(s, n) == \A i \in 1 .. Len(s) : s[i] = n - Len(s) + i

\* What was heard of each channel, which is nothing before it is watched.
HeardFits ==
    /\ heard \in [Channels -> Seq(Messages)]
    /\ \A c \in Channels :
          /\ c \in watched => LastOf(heard[c], arrived[c] - Len(inbox[c]))
          /\ c \notin watched => heard[c] = <<>>

\* One more.
LEMMA LastOfOneMore ==
    ASSUME NEW s \in Seq(Messages), NEW n \in Nat, LastOf(s, n), n + 1 \in Messages
    PROVE  Append(s, n + 1) \in Seq(Messages) /\ LastOf(Append(s, n + 1), n + 1)
<1>1. PICK r : r = Append(s, n + 1)
    OBVIOUS
<1>2. /\ r \in Seq(Messages) /\ Len(r) = Len(s) + 1 /\ Len(s) \in Nat /\ r[Len(s) + 1] = n + 1
      /\ \A i \in 1 .. Len(s) : r[i] = s[i]
    BY <1>1, AppendProperties
<1>3. ASSUME NEW i \in 1 .. Len(r) PROVE r[i] = n + 1 - Len(r) + i
    <2>1. CASE i = Len(s) + 1
        BY <2>1, <1>2
    <2>2. CASE i # Len(s) + 1
        <3>1. i \in 1 .. Len(s)
            BY <2>2, <1>2
        <3>2. r[i] = n - Len(s) + i
            BY <3>1, <1>2 DEF LastOf
        <3>3. QED BY <3>2, <1>2
    <2>3. QED BY <2>1, <2>2
<1>4. QED BY <1>1, <1>2, <1>3 DEF LastOf

\* Nothing is announced of a channel that was not heard of.
LEMMA LastOfNone == \A n : LastOf(<<>>, n)
BY DEF LastOf

\* A step that announces no message: what was delivered is the same, and of what it begins to
\* watch nothing was heard.
LEMMA QuietHeard ==
    ASSUME HeardFits, heard' = heard, watched \subseteq watched',
           \A c \in Channels : arrived'[c] - Len(inbox'[c]) = arrived[c] - Len(inbox[c])
    PROVE  HeardFits'
<1>1. ASSUME NEW c \in Channels, c \in watched' PROVE LastOf(heard[c], arrived'[c] - Len(inbox'[c]))
    <2>1. CASE c \in watched
        BY <2>1 DEF HeardFits
    <2>2. CASE c \notin watched
        BY <2>2, LastOfNone DEF HeardFits
    <2>3. QED BY <2>1, <2>2
<1>2. ASSUME NEW c \in Channels, c \notin watched' PROVE heard[c] = <<>>
    BY <1>2 DEF HeardFits
<1>3. QED BY <1>1, <1>2 DEF HeardFits

\* A message that arrives is not delivered yet.
LEMMA SendsHeard ==
    ASSUME IInv, HeardFits, NEW c \in Channels, ClientSends(c)
    PROVE  HeardFits'
<1>1. /\ arrived' = [arrived EXCEPT ![c] = @ + 1] /\ inbox' = [inbox EXCEPT ![c] = Append(@, arrived[c] + 1)]
      /\ heard' = heard /\ watched' = watched
    BY DEF ClientSends
<1>2. /\ arrived \in [Channels -> 0 .. MaxMessages] /\ inbox \in [Channels -> Seq(Messages)]
    BY DEF IInv, Typed
<1>3. arrived'[c] = arrived[c] + 1 /\ Len(inbox'[c]) = Len(inbox[c]) + 1
    BY <1>1, <1>2
<1>4. arrived[c] \in Nat /\ Len(inbox[c]) \in Nat
    BY <1>2, NumberFacts
<1>5. arrived'[c] - Len(inbox'[c]) = arrived[c] - Len(inbox[c])
    BY <1>3, <1>4
<1>6. \A d \in Channels : d # c => arrived'[d] = arrived[d] /\ inbox'[d] = inbox[d]
    BY <1>1, <1>2
<1>7. QED BY <1>1, <1>5, <1>6, QuietHeard

\* One that is delivered on a watched channel is the next to be heard.
LEMMA DeliverHeard ==
    ASSUME IInv, HeardFits, NEW c \in Channels, Deliver(c)
    PROVE  HeardFits'
<1>1. /\ inbox[c] # <<>> /\ inbox' = [inbox EXCEPT ![c] = Tail(@)] /\ arrived' = arrived /\ watched' = watched
      /\ heard' = IF c \in watched THEN [heard EXCEPT ![c] = Append(@, Head(inbox[c]))] ELSE heard
    BY DEF Deliver
<1>2. /\ inbox' \in [Channels -> Seq(Messages)] /\ InboxFits(c)'
      /\ \A d \in Channels : d # c => inbox'[d] = inbox[d]
    BY <1>1, NextMessage
<1>3. PICK h \in Nat : /\ Head(inbox[c]) = h + 1 /\ h + 1 \in Messages
                       /\ arrived[c] - Len(inbox[c]) = h /\ arrived'[c] - Len(inbox'[c]) = h + 1
    BY <1>1, NextMessage
<1>4. heard \in [Channels -> Seq(Messages)]
    BY DEF HeardFits
<1>5. CASE c \in watched
    <2>1. LastOf(heard[c], h)
        BY <1>3, <1>5 DEF HeardFits
    <2>2. PICK s : s = Append(heard[c], h + 1)
        OBVIOUS
    <2>3. s \in Seq(Messages) /\ LastOf(s, h + 1)
        BY <1>3, <1>4, <2>1, <2>2, LastOfOneMore
    <2>4. heard' = [heard EXCEPT ![c] = s]
        BY <1>1, <1>3, <1>5, <2>2
    <2>5. heard' \in [Channels -> Seq(Messages)] /\ heard'[c] = s /\ \A d \in Channels : d # c => heard'[d] = heard[d]
        BY <1>4, <2>3, <2>4
    <2>6. ASSUME NEW d \in Channels
          PROVE  /\ d \in watched => LastOf(heard'[d], arrived'[d] - Len(inbox'[d]))
                 /\ d \notin watched => heard'[d] = <<>>
        <3>1. CASE d = c
            BY <3>1, <1>3, <1>5, <2>3, <2>5
        <3>2. CASE d # c
            <4>1. heard'[d] = heard[d] /\ arrived'[d] = arrived[d] /\ inbox'[d] = inbox[d]
                BY <3>2, <1>1, <1>2, <2>5
            <4>2. QED BY <4>1 DEF HeardFits
        <3>3. QED BY <3>1, <3>2
    <2>7. QED BY <1>1, <2>5, <2>6 DEF HeardFits
<1>6. CASE c \notin watched
    <2>1. heard' = heard
        BY <1>1, <1>6
    <2>2. ASSUME NEW d \in Channels, d \in watched PROVE LastOf(heard[d], arrived'[d] - Len(inbox'[d]))
        <3>1. d # c
            BY <2>2, <1>6
        <3>2. arrived'[d] = arrived[d] /\ inbox'[d] = inbox[d]
            BY <3>1, <1>1, <1>2
        <3>3. QED BY <2>2, <3>2 DEF HeardFits
    <2>3. QED BY <1>1, <2>1, <2>2 DEF HeardFits
<1>7. QED BY <1>5, <1>6

\* Every other step is quiet.
LEMMA OthersQuiet ==
    ASSUME IInv, [Next]_vars, \A c \in Channels : ~ClientSends(c) /\ ~Deliver(c)
    PROVE  UNCHANGED <<arrived, inbox, heard>> /\ watched \subseteq watched'
<1> USE DEF nativeVars, stepVars
<1>1. conn = "new" => watched = {}
    BY DEF IInv, StepsFit
<1>2. ASSUME NEW c \in Channels, ClientOpens(c) \/ NativeOpens(c) \/ NativeCloses(c) \/ NativeError(c)
      PROVE  UNCHANGED <<arrived, inbox, heard>> /\ watched \subseteq watched'
    BY <1>2 DEF ClientOpens, NativeOpens, NativeCloses, NativeError
<1>3. ASSUME NEW c \in Channels, ChannelArrives(c)
      PROVE  UNCHANGED <<arrived, inbox, heard>> /\ watched \subseteq watched'
    BY <1>3 DEF ChannelArrives, Track
<1>4. ASSUME NEW c \in Channels, OpenLater(c)
      PROVE  UNCHANGED <<arrived, inbox, heard>> /\ watched \subseteq watched'
    BY <1>4 DEF OpenLater
<1>5. ASSUME NEW c \in Channels, OnOpen(c)
      PROVE  UNCHANGED <<arrived, inbox, heard>> /\ watched \subseteq watched'
    BY <1>5 DEF OnOpen
<1>6. ASSUME NEW c \in Channels, NEW call \in {"closed", "error"}, OnClosed(c, call)
      PROVE  UNCHANGED <<arrived, inbox, heard>> /\ watched \subseteq watched'
    BY <1>6 DEF OnClosed
<1>7. ASSUME StartWait \/ StartWaitChannel \/ StartSend \/ StartEcho \/ HandlerCloses
      PROVE  UNCHANGED <<arrived, inbox, heard>> /\ watched \subseteq watched'
    BY <1>7 DEF StartWait, StartWaitChannel, StartSend, StartEcho, HandlerCloses
<1>8. ASSUME StartCreate
      PROVE  UNCHANGED <<arrived, inbox, heard>> /\ watched \subseteq watched'
    BY <1>8 DEF StartCreate, Track
<1>9. ASSUME Connected \/ ConnectionGoes
      PROVE  UNCHANGED <<arrived, inbox, heard>> /\ watched \subseteq watched'
    BY <1>1, <1>9 DEF Connected, ConnectionGoes
<1>10. ASSUME UNCHANGED vars
       PROVE  UNCHANGED <<arrived, inbox, heard>> /\ watched \subseteq watched'
    BY <1>10 DEF vars
<1>11. QED
    BY <1>2, <1>3, <1>4, <1>5, <1>6, <1>7, <1>8, <1>9, <1>10 DEF Next, HandlerStep

\* Every step keeps what was heard in order.
LEMMA HeardKept == IInv /\ HeardFits /\ [Next]_vars => HeardFits'
<1> SUFFICES ASSUME IInv, HeardFits, [Next]_vars PROVE HeardFits'
    OBVIOUS
<1>1. ASSUME NEW c \in Channels, ClientSends(c) PROVE HeardFits'
    BY <1>1, SendsHeard
<1>2. ASSUME NEW c \in Channels, Deliver(c) PROVE HeardFits'
    BY <1>2, DeliverHeard
<1>3. CASE \A c \in Channels : ~ClientSends(c) /\ ~Deliver(c)
    BY <1>3, OthersQuiet, QuietHeard
<1>4. QED BY <1>1, <1>2, <1>3

-----------------------------------------------------------------------------
(* Theorems.                                                               *)

\* The inductive invariant holds of every run: what a stream was given, what it keeps, wrote and
\* refused, who reads it and what was announced fit together.
THEOREM IInvHolds == Spec => []IInv
<1>1. Init => IInv
    BY InitIInv
<1>2. IInv /\ [Next]_vars => IInv'
    BY NextFits
<1>3. QED BY <1>1, <1>2, PTL DEF Spec

\* What was heard of a channel are the last of its messages that were delivered.
THEOREM HeardHolds == Spec => []HeardFits
<1>1. Init => HeardFits
    BY DEF Init, HeardFits
<1>2. IInv /\ HeardFits /\ [Next]_vars => HeardFits'
    BY HeardKept
<1>3. QED BY <1>1, <1>2, IInvHolds, PTL DEF Spec

\* Every variable keeps its type, and no stream buffers more than its reader's limit.
THEOREM TypeCorrect == Spec => []TypeOK
<1>1. IInv /\ HeardFits => TypeOK
    BY DEF IInv, HeardFits, TypeOK
<1>2. QED BY <1>1, IInvHolds, HeardHolds, PTL

\* Nothing that a live stream was given is lost or doubled, whichever readers take over from each
\* other, and it is read and written back in order.
THEOREM NothingIsLost == Spec => []NothingLost
<1>1. IInv => NothingLost
    BY GivenIsNotLost
<1>2. QED BY <1>1, IInvHolds, PTL

\* A live stream refuses messages exactly while its read buffer is full.
THEOREM RefusesFull == Spec => []RefusesWhenFull
<1>1. IInv => RefusesWhenFull
    BY DEF IInv, ChannelFits, Refuses, RefusesWhenFull, Tracked
<1>2. QED BY <1>1, IInvHolds, PTL

\* Subscribers hear of each opening and closure of a watched channel once, of what it sent, and in
\* order of what it received.
THEOREM EventsTell == Spec => []EventsTellAll
<1>1. IInv /\ HeardFits => EventsTellAll
    <2> SUFFICES ASSUME IInv, HeardFits, NEW c \in watched
                 PROVE  /\ Told(log[c], opening[c], stream[c], Len(sent[c]))
                        /\ LastOf(heard[c], arrived[c] - Len(inbox[c]))
        BY DEF EventsTellAll, Told, LastOf
    <2>1. c \in Channels
        BY DEF IInv, Typed
    <2>2. QED BY <2>1 DEF IInv, ChannelFits, ToldFits, HeardFits
<1>2. QED BY <1>1, IInvHolds, HeardHolds, PTL

=============================================================================
