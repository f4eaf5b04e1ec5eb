------------------------- MODULE MediaTracks_proofs -------------------------
(* Proofs about MediaTracks, for any media, buffer size and programs.      *)
EXTENDS MediaTracks, SequenceTheorems, TLAPS

Steps == {"wait-track", "wait-media"} \cup Pipes

Stream ==
    [life : {"none", "live", "gone"}, opening : {"corked", "immediate", "open"}, isLocal : BOOLEAN,
     mode : {"idle", "flowing", "paused"}, sink : Tracks \cup {NoSink}, active : BOOLEAN,
     kept : 0 .. HighWater, corked : 0 .. HighWater, received : Nat, sent : Nat,
     lost : Nat, eaten : Nat, passed : Nat, told : Nat \X Nat]

-----------------------------------------------------------------------------
(* The streams T that the tracks may have.                                 *)

\* A track that is piped into another is live, and so is the other, which no third is piped into.
SinksFit(T) ==
    /\ \A t \in Tracks : T[t].sink # NoSink => T[t].life = "live" /\ T[T[t].sink].life = "live"
    /\ \A t, u \in Tracks : T[t].sink # NoSink /\ T[t].sink = T[u].sink => t = u

\* What is left of a stream before and after its life.
LivesFit(T) ==
    \A t \in Tracks :
        /\ T[t].life = "none" => T[t] = Unwrapped
        /\ T[t].life = "gone" => T[t].sink = NoSink /\ T[t].corked = 0 /\ T[t].mode # "flowing"

\* Every packet that a live track counted is accounted for, and it takes more while it has room.
Counted(T) ==
    \A t \in Tracks : T[t].life = "live" =>
        /\ T[t].received = T[t].lost + T[t].kept + T[t].eaten + T[t].passed
        /\ T[t].active <=> T[t].kept < HighWater

Whole(T) == T \in [Tracks -> Stream] /\ SinksFit(T) /\ LivesFit(T) /\ Counted(T)

\* What was passed on was sent or waits in the sink, but for n packets that are to be written to s.
Balanced(T, s, n) ==
    \A t \in Tracks : T[t].sink # NoSink =>
        T[t].passed = T[T[t].sink].sent + T[T[t].sink].corked + (IF T[t].sink = s THEN n ELSE 0)

Unpiped(T) == \A t \in Tracks : T[t].sink = NoSink /\ T[t].passed = 0 /\ T[t].sent = 0 /\ T[t].corked = 0
Selfish(T) == \A t \in Tracks : T[t].sink \in {NoSink, t}

\* What flows has a sink, or is read by the step that waits for media.
Sunk(T) == \A t \in Tracks : T[t].mode = "flowing" => T[t].sink # NoSink
Waits(T) == \A t \in Tracks : T[t].mode = "flowing" => t \in Mock \/ T[t].sink # NoSink

\* The streams fit the place of the handler, which has not piped them yet, or has.
Unpiping(pl, td) == td # <<>> /\ pl \in {"start", "run", "wait-track", "waiting"}

Fits(T, pl, td) ==
    /\ Whole(T) /\ Balanced(T, NoSink, 0)
    /\ Unpiping(pl, td) => Unpiped(T)
    /\ pl = "echoing" => Selfish(T)
    /\ IF pl = "waiting" THEN Waits(T) ELSE Sunk(T)

-----------------------------------------------------------------------------

\* Where the handler is in its steps, of which only the last is a pipe.
TodoFits ==
    /\ todo \in Seq(Steps) /\ \A n \in 1 .. Len(todo) : todo[n] \in Pipes => n = Len(todo)
    /\ place \in {"wait-track", "waiting"} => todo # <<>>
    /\ place \in {"echoing", "proxying"} => Len(todo) = 1

\* Only a track that was wrapped is told that it is open, and only one that exists was.
QueuesFit ==
    \A t \in Tracks : /\ "open" \in calls[t] => track[t].life # "none"
                      /\ raw[t] = "none" => track[t].life = "none"

Typed ==
    /\ raw \in [Tracks -> {"none", "connecting", "open", "closed"}]
    /\ inbox \in [Tracks -> Nat] /\ calls \in [Tracks -> SUBSET {"open", "closed", "error"}]
    /\ watched \subseteq Mock /\ closed \in BOOLEAN
    /\ place \in {"start", "run", "wait-track", "waiting", "echoing", "proxying", "throw", "over"}

\* The inductive invariant.
IInv == Typed /\ TodoFits /\ QueuesFit /\ Fits(track, place, todo)

-----------------------------------------------------------------------------
(* Streams.                                                                *)

\* No track is the empty tuple.
LEMMA NoSinkApart == NoSink \notin Tracks
BY DEF NoSink, Tracks

\* A stream before its life is one.
LEMMA UnwrappedStream == Unwrapped \in Stream
BY TracksAssumption DEF Unwrapped, Stream, NoSink

\* The fields of a stream.
LEMMA StreamFields ==
    ASSUME NEW T \in [Tracks -> Stream], NEW t \in Tracks
    PROVE  /\ T[t].life \in {"none", "live", "gone"} /\ T[t].opening \in {"corked", "immediate", "open"}
           /\ T[t].isLocal \in BOOLEAN
           /\ T[t].mode \in {"idle", "flowing", "paused"} /\ T[t].sink \in Tracks \cup {NoSink} /\ T[t].active \in BOOLEAN
           /\ T[t].kept \in 0 .. HighWater /\ T[t].corked \in 0 .. HighWater
           /\ T[t].kept \in Nat /\ T[t].corked \in Nat /\ T[t].received \in Nat /\ T[t].sent \in Nat
           /\ T[t].lost \in Nat /\ T[t].eaten \in Nat /\ T[t].passed \in Nat /\ T[t].told \in Nat \X Nat
BY TracksAssumption DEF Stream

\* What held of the sinks of T holds of those of U, and of what flows.
Keeps(T, U) ==
    /\ \A t \in Tracks : U[t].life \in {T[t].life, "gone"}
    /\ Selfish(T) => Selfish(U)
    /\ Waits(T) => Waits(U)
    /\ Sunk(T) => Sunk(U)

\* When the streams of D are destroyed, the others fit, and what is owed to one of D is not missed.
LEMMA DestroyedFits ==
    ASSUME NEW T, Whole(T), NEW D \in SUBSET Tracks, NEW U, U = Destroyed(T, D),
           NEW s, NEW n, Balanced(T, s, n), s \in D \/ n = 0
    PROVE  Whole(U) /\ Balanced(U, NoSink, 0) /\ Keeps(T, U) /\ (Unpiped(T) => Unpiped(U))
<1> DEFINE Gone(t) == [Unwrapped EXCEPT !.life = "gone", !.opening = T[t].opening, !.isLocal = T[t].isLocal]
           Loose(t) == [T[t] EXCEPT !.sink = NoSink, !.mode = "paused"]
<1>1. T \in [Tracks -> Stream] /\ SinksFit(T) /\ LivesFit(T) /\ Counted(T)
    BY DEF Whole
<1>2. U = [t \in Tracks |-> IF t \in D THEN Gone(t) ELSE IF T[t].sink \in D THEN Loose(t) ELSE T[t]]
    BY DEF Destroyed
<1>3. ASSUME NEW t \in Tracks
      PROVE  /\ Gone(t) \in Stream /\ Gone(t).life = "gone" /\ Gone(t).sink = NoSink /\ Gone(t).mode = "idle"
             /\ Gone(t).corked = 0 /\ Gone(t).sent = 0 /\ Gone(t).passed = 0
    <2>1. PICK r \in Stream : r = Unwrapped
        BY UnwrappedStream
    <2>2. T[t].opening \in {"corked", "immediate", "open"} /\ T[t].isLocal \in BOOLEAN
        BY <1>1, StreamFields
    <2>3. Gone(t) = [r EXCEPT !.life = "gone", !.opening = T[t].opening, !.isLocal = T[t].isLocal]
        BY <2>1
    <2>4. [r EXCEPT !.life = "gone", !.opening = T[t].opening, !.isLocal = T[t].isLocal] \in Stream
        BY <2>2 DEF Stream
    <2>5. r.sink = NoSink /\ r.mode = "idle" /\ r.corked = 0 /\ r.sent = 0 /\ r.passed = 0
        BY <2>1 DEF Unwrapped
    <2>6. Gone(t) \in Stream
        BY <2>3, <2>4
    <2>7. /\ Gone(t).life = "gone" /\ Gone(t).sink = r.sink /\ Gone(t).mode = r.mode
          /\ Gone(t).corked = r.corked /\ Gone(t).sent = r.sent /\ Gone(t).passed = r.passed
        BY <2>3 DEF Stream
    <2>8. QED BY <2>5, <2>6, <2>7
<1>4. ASSUME NEW t \in Tracks
      PROVE  /\ Loose(t) \in Stream /\ Loose(t).sink = NoSink /\ Loose(t).mode = "paused"
             /\ Loose(t).life = T[t].life /\ Loose(t).active = T[t].active /\ Loose(t).kept = T[t].kept
             /\ Loose(t).corked = T[t].corked /\ Loose(t).received = T[t].received /\ Loose(t).sent = T[t].sent
             /\ Loose(t).lost = T[t].lost /\ Loose(t).eaten = T[t].eaten /\ Loose(t).passed = T[t].passed
    <2>1. PICK r \in Stream : r = T[t]
        BY <1>1
    <2>2. Loose(t) = [r EXCEPT !.sink = NoSink, !.mode = "paused"]
        BY <2>1
    <2>3. [r EXCEPT !.sink = NoSink, !.mode = "paused"] \in Stream
        BY DEF Stream
    <2>4. QED BY <2>1, <2>2, <2>3 DEF Stream
<1>5. U \in [Tracks -> Stream]
    <2>1. ASSUME NEW t \in Tracks
          PROVE  (IF t \in D THEN Gone(t) ELSE IF T[t].sink \in D THEN Loose(t) ELSE T[t]) \in Stream
        <3> HIDE DEF Gone, Loose
        <3>1. Gone(t) \in Stream /\ Loose(t) \in Stream /\ T[t] \in Stream
            BY <1>1, <1>3, <1>4
        <3>2. QED BY <3>1
    <2> HIDE DEF Gone, Loose
    <2>2. QED BY <1>2, <2>1
<1> HIDE DEF Gone, Loose
<1>6. \A t \in Tracks : t \in D => U[t] = Gone(t)
    BY <1>2
<1>7. \A t \in Tracks : t \notin D /\ T[t].sink \in D => U[t] = Loose(t)
    BY <1>2
<1>8. \A t \in Tracks : t \notin D /\ T[t].sink \notin D => U[t] = T[t]
    BY <1>2
<1>9. NoSink \notin D
    BY NoSinkApart
\* What still has a sink has the one it had.
<1>10. ASSUME NEW t \in Tracks, U[t].sink # NoSink
       PROVE  /\ t \notin D /\ U[t] = T[t] /\ T[t].sink \in Tracks /\ T[t].sink \notin D
              /\ U[T[t].sink].life = "live" /\ T[t].life = "live"
              /\ U[T[t].sink].sent = T[T[t].sink].sent /\ U[T[t].sink].corked = T[T[t].sink].corked
    <2>1. t \notin D /\ T[t].sink \notin D
        BY <1>3, <1>4, <1>6, <1>7, <1>10
    <2>2. U[t] = T[t] /\ T[t].sink \in Tracks
        BY <2>1, <1>1, <1>8, <1>10, StreamFields
    <2>3. T[t].life = "live" /\ T[T[t].sink].life = "live"
        BY <2>2, <1>1, <1>10 DEF SinksFit
    <2>4. U[T[t].sink] = Loose(T[t].sink) \/ U[T[t].sink] = T[T[t].sink]
        BY <2>1, <2>2, <1>7, <1>8
    <2>5. QED BY <2>1, <2>2, <2>3, <2>4, <1>4
<1>11. SinksFit(U)
    <2>1. ASSUME NEW t \in Tracks, NEW u \in Tracks, U[t].sink # NoSink, U[t].sink = U[u].sink PROVE t = u
        <3>1. T[t].sink # NoSink /\ T[t].sink = T[u].sink
            BY <2>1, <1>10
        <3>2. QED BY <3>1, <1>1 DEF SinksFit
    <2>2. QED BY <2>1, <1>10 DEF SinksFit
<1>12. LivesFit(U)
    <2>1. ASSUME NEW t \in Tracks, U[t].life = "none" PROVE U[t] = Unwrapped
        <3>1. t \notin D /\ T[t].life = "none"
            BY <2>1, <1>3, <1>4, <1>6, <1>7, <1>8
        <3>2. T[t] = Unwrapped /\ T[t].sink = NoSink
            BY <3>1, <1>1 DEF LivesFit, Unwrapped
        <3>3. QED BY <3>1, <3>2, <1>8, <1>9
    <2>2. ASSUME NEW t \in Tracks, U[t].life = "gone"
          PROVE  U[t].sink = NoSink /\ U[t].corked = 0 /\ U[t].mode # "flowing"
        <3>1. CASE t \in D
            BY <3>1, <1>3, <1>6
        <3>2. CASE t \notin D
            <4>1. T[t].life = "gone"
                BY <2>2, <3>2, <1>4, <1>7, <1>8
            <4>2. T[t].sink = NoSink /\ T[t].corked = 0 /\ T[t].mode # "flowing"
                BY <4>1, <1>1 DEF LivesFit
            <4>3. QED BY <4>2, <3>2, <1>8, <1>9
        <3>3. QED BY <3>1, <3>2
    <2>3. QED BY <2>1, <2>2 DEF LivesFit
<1>13. Counted(U)
    <2> SUFFICES ASSUME NEW t \in Tracks, U[t].life = "live"
                 PROVE  /\ U[t].received = U[t].lost + U[t].kept + U[t].eaten + U[t].passed
                        /\ U[t].active <=> U[t].kept < HighWater
        BY DEF Counted
    <2>1. t \notin D
        BY <1>3, <1>6
    <2>2. T[t].life = "live"
        BY <2>1, <1>4, <1>7, <1>8
    <2>3. /\ T[t].received = T[t].lost + T[t].kept + T[t].eaten + T[t].passed
          /\ T[t].active <=> T[t].kept < HighWater
        BY <2>2, <1>1 DEF Counted
    <2>4. U[t].received = T[t].received /\ U[t].lost = T[t].lost /\ U[t].kept = T[t].kept
          /\ U[t].eaten = T[t].eaten /\ U[t].passed = T[t].passed /\ U[t].active = T[t].active
        BY <2>1, <1>4, <1>7, <1>8
    <2>5. QED BY <2>3, <2>4
<1>14. Balanced(U, NoSink, 0)
    <2> SUFFICES ASSUME NEW t \in Tracks, U[t].sink # NoSink
                 PROVE  U[t].passed = U[U[t].sink].sent + U[U[t].sink].corked
        <3>1. \A t \in Tracks : U[t].sink # NoSink => (IF U[t].sink = NoSink THEN 0 ELSE 0) = 0
            OBVIOUS
        <3>2. ASSUME NEW t \in Tracks, U[t].sink # NoSink
              PROVE  U[U[t].sink].sent + U[U[t].sink].corked + 0 = U[U[t].sink].sent + U[U[t].sink].corked
            BY <3>2, <1>5, StreamFields
        <3>3. QED BY <3>2 DEF Balanced
    <2>1. T[t].passed = T[T[t].sink].sent + T[T[t].sink].corked + (IF T[t].sink = s THEN n ELSE 0)
        BY <1>10 DEF Balanced
    <2>2. (IF T[t].sink = s THEN n ELSE 0) = 0
        BY <1>10
    <2>3. T[T[t].sink].sent \in Nat /\ T[T[t].sink].corked \in Nat
        BY <1>1, <1>10, StreamFields
    <2>4. T[t].passed = T[T[t].sink].sent + T[T[t].sink].corked
        BY <2>1, <2>2, <2>3
    <2>5. QED BY <2>4, <1>10
<1>15. Keeps(T, U)
    <2>1. \A t \in Tracks : U[t].life \in {T[t].life, "gone"}
        BY <1>3, <1>4, <1>6, <1>7, <1>8
    <2>2. Selfish(T) => Selfish(U)
        BY <1>10 DEF Selfish
    <2>3. \A t \in Tracks : U[t].mode = "flowing" => U[t] = T[t]
        BY <1>3, <1>4, <1>6, <1>7, <1>8
    <2>4. QED BY <2>1, <2>2, <2>3 DEF Keeps, Waits, Sunk
<1>16. Unpiped(T) => Unpiped(U)
    <2> SUFFICES ASSUME Unpiped(T), NEW t \in Tracks
                 PROVE  U[t].sink = NoSink /\ U[t].passed = 0 /\ U[t].sent = 0 /\ U[t].corked = 0
        BY DEF Unpiped
    <2>1. T[t].sink = NoSink /\ T[t].passed = 0 /\ T[t].sent = 0 /\ T[t].corked = 0
        BY DEF Unpiped
    <2>2. QED BY <2>1, <1>3, <1>6, <1>8, <1>9
<1>17. QED BY <1>5, <1>11, <1>12, <1>13, <1>14, <1>15, <1>16 DEF Whole

\* close() destroys the stream and perhaps its sink.
LEMMA ClosedFits ==
    ASSUME NEW T, Whole(T), NEW s \in Tracks, NEW U, U = Closed(T, s),
           NEW n, Balanced(T, s, n), T[s].life = "live" \/ n = 0
    PROVE  Whole(U) /\ Balanced(U, NoSink, 0) /\ Keeps(T, U) /\ (Unpiped(T) => Unpiped(U))
<1>1. CASE T[s].life = "live"
    <2>1. PICK D : D = {s} \cup (IF Flows(T, s) /\ T[s].sink # NoSink THEN {T[s].sink} ELSE {})
        OBVIOUS
    <2>2. U = Destroyed(T, D)
        BY <1>1, <2>1 DEF Closed
    <2>3. s \in D /\ D \in SUBSET Tracks
        <3>1. T[s].sink \in Tracks \cup {NoSink}
            BY StreamFields DEF Whole
        <3>2. QED BY <2>1, <3>1
    <2>4. QED BY <2>2, <2>3, DestroyedFits
<1>2. CASE T[s].life # "live"
    <2>1. U = T /\ n = 0
        BY <1>2 DEF Closed
    <2>2. Balanced(U, NoSink, 0)
        <3>1. \A t \in Tracks : (IF T[t].sink = s THEN n ELSE 0) = 0 /\ (IF T[t].sink = NoSink THEN 0 ELSE 0) = 0
            BY <2>1
        <3>2. QED BY <2>1, <3>1 DEF Balanced
    <2>3. Keeps(T, U)
        BY <2>1 DEF Keeps
    <2>4. QED BY <2>1, <2>2, <2>3
<1>3. QED BY <1>1, <1>2

\* So does a write that fails.
LEMMA FailedFits ==
    ASSUME NEW T, Whole(T), NEW s \in Tracks, NEW U, U = Failed(T, s),
           NEW n, Balanced(T, s, n), T[s].life = "live"
    PROVE  Whole(U) /\ Balanced(U, NoSink, 0) /\ Keeps(T, U) /\ (Unpiped(T) => Unpiped(U))
<1>1. CASE raw[s] = "closed"
    BY <1>1, ClosedFits DEF Failed
<1>2. CASE raw[s] # "closed"
    <2>1. PICK D : D = {s}
        OBVIOUS
    <2>2. U = Destroyed(T, D) /\ s \in D /\ D \in SUBSET Tracks
        BY <1>2, <2>1 DEF Failed
    <2>3. QED BY <2>2, DestroyedFits
<1>3. QED BY <1>1, <1>2

\* A stream r takes the place of p: it accounts for its packets, and has the same life and sink.
Succeeds(r, p) ==
    /\ r \in Stream /\ r.life = p.life /\ r.life # "none" /\ r.sink = p.sink /\ r.mode = p.mode
    /\ r.life = "gone" => r.corked = 0
    /\ r.life = "live" => /\ r.received = r.lost + r.kept + r.eaten + r.passed
                          /\ r.active <=> r.kept < HighWater

OneChanged(T, U, s, r) ==
    /\ Whole(U) /\ Keeps(T, U) /\ U \in [Tracks -> Stream]
    /\ U[s] = r /\ \A t \in Tracks : t # s => U[t] = T[t]
    /\ \A t \in Tracks : U[t].sink = T[t].sink /\ U[t].life = T[t].life

\* One stream changes, but neither its life nor its sink.
LEMMA OneChanges ==
    ASSUME NEW T, Whole(T), NEW s \in Tracks, NEW r, Succeeds(r, T[s])
    PROVE  OneChanged(T, [T EXCEPT ![s] = r], s, r)
<1> DEFINE U == [T EXCEPT ![s] = r]
<1>0. /\ r \in Stream /\ r.life = T[s].life /\ r.life # "none" /\ r.sink = T[s].sink /\ r.mode = T[s].mode
      /\ r.life = "gone" => r.corked = 0
      /\ r.life = "live" => /\ r.received = r.lost + r.kept + r.eaten + r.passed
                            /\ r.active <=> r.kept < HighWater
    BY DEF Succeeds
<1>1. T \in [Tracks -> Stream] /\ SinksFit(T) /\ LivesFit(T) /\ Counted(T)
    BY DEF Whole
<1>2. U \in [Tracks -> Stream] /\ U[s] = r /\ \A t \in Tracks : t # s => U[t] = T[t]
    BY <1>0, <1>1
<1> HIDE DEF U
<1>3. ASSUME NEW t \in Tracks
      PROVE  U[t].sink = T[t].sink /\ U[t].life = T[t].life /\ U[t].mode = T[t].mode
    <2>1. CASE t = s
        BY <2>1, <1>0, <1>2
    <2>2. CASE t # s
        BY <2>2, <1>2
    <2>3. QED BY <2>1, <2>2
<1>4. SinksFit(U)
    <2>1. \A t \in Tracks : T[t].sink # NoSink => T[t].sink \in Tracks
        BY <1>1, StreamFields
    <2>2. QED BY <2>1, <1>1, <1>3 DEF SinksFit
<1>5. LivesFit(U)
    BY <1>0, <1>1, <1>2, <1>3 DEF LivesFit
<1>6. Counted(U)
    <2> SUFFICES ASSUME NEW t \in Tracks, U[t].life = "live"
                 PROVE  /\ U[t].received = U[t].lost + U[t].kept + U[t].eaten + U[t].passed
                        /\ U[t].active <=> U[t].kept < HighWater
        BY DEF Counted
    <2>1. CASE t = s
        BY <2>1, <1>0, <1>2
    <2>2. CASE t # s
        BY <2>2, <1>1, <1>2 DEF Counted
    <2>3. QED BY <2>1, <2>2
<1>7. Keeps(T, U)
    BY <1>3 DEF Keeps, Selfish, Waits, Sunk
<1>8. OneChanged(T, U, s, r)
    BY <1>2, <1>3, <1>4, <1>5, <1>6, <1>7 DEF Whole, OneChanged
<1>9. QED BY <1>8 DEF U

\* The balance is kept when what is owed to s is what it will have more.
LEMMA BalanceMoves ==
    ASSUME NEW T \in [Tracks -> Stream], NEW s \in Tracks, NEW n \in Nat, Balanced(T, s, n),
           NEW U \in [Tracks -> Stream], \A t \in Tracks : U[t].sink = T[t].sink /\ U[t].passed = T[t].passed,
           \A t \in Tracks : t # s => U[t].sent = T[t].sent /\ U[t].corked = T[t].corked,
           U[s].sent + U[s].corked = T[s].sent + T[s].corked + n
    PROVE  Balanced(U, NoSink, 0)
<1> SUFFICES ASSUME NEW t \in Tracks, T[t].sink # NoSink, NEW q, q = T[t].sink
             PROVE  T[t].passed = U[q].sent + U[q].corked + (IF q = NoSink THEN 0 ELSE 0)
    BY DEF Balanced
<1>1. q \in Tracks /\ U[q].sent \in Nat /\ U[q].corked \in Nat /\ T[q].sent \in Nat /\ T[q].corked \in Nat
    BY StreamFields
<1>2. T[t].passed = T[q].sent + T[q].corked + (IF q = s THEN n ELSE 0)
    BY DEF Balanced
<1>3. CASE q = s
    BY <1>1, <1>2, <1>3
<1>4. CASE q # s
    BY <1>1, <1>2, <1>4
<1>5. QED BY <1>3, <1>4

\* Writing n packets that s is owed leaves nothing owed, whether they are sent or s is destroyed.
LEMMA WrittenFits ==
    ASSUME NEW T, Whole(T), NEW s \in Tracks, T[s].life = "live", NEW n \in Nat, Balanced(T, s, n),
           NEW U \in Written(T, s, n)
    PROVE  Whole(U) /\ Balanced(U, NoSink, 0) /\ Keeps(T, U)
<1>1. CASE U = Failed(T, s)
    BY <1>1, FailedFits
<1>2. CASE U = [T EXCEPT ![s].sent = @ + n]
    <2>1. T \in [Tracks -> Stream] /\ Counted(T)
        BY DEF Whole
    <2>2. PICK p \in Stream : p = T[s]
        BY <2>1
    <2>3. p.sent + n \in Nat
        BY <2>2 DEF Stream
    <2>4. PICK r : r = [p EXCEPT !.sent = p.sent + n]
        OBVIOUS
    <2>5. r \in Stream /\ r.sent = p.sent + n
        BY <2>3, <2>4 DEF Stream
    <2>6. /\ r.life = p.life /\ r.sink = p.sink /\ r.mode = p.mode /\ r.corked = p.corked /\ r.passed = p.passed
          /\ r.received = p.received /\ r.lost = p.lost /\ r.kept = p.kept /\ r.eaten = p.eaten /\ r.active = p.active
        BY <2>4 DEF Stream
    <2>7. U = [T EXCEPT ![s] = r]
        BY <1>2, <2>1, <2>2, <2>4
    <2>8. p.received = p.lost + p.kept + p.eaten + p.passed /\ (p.active <=> p.kept < HighWater)
        BY <2>1, <2>2 DEF Counted
    <2>9. Succeeds(r, T[s])
        BY <2>2, <2>5, <2>6, <2>8 DEF Succeeds
    <2>10. OneChanged(T, U, s, r)
        BY <2>7, <2>9, OneChanges
    <2>. USE DEF OneChanged
    <2>11. \A t \in Tracks : U[t].passed = T[t].passed
        BY <2>2, <2>6, <2>10
    <2>12. U[s].sent + U[s].corked = T[s].sent + T[s].corked + n
        <3>1. U[s].sent = T[s].sent + n /\ U[s].corked = T[s].corked
            BY <2>2, <2>5, <2>6, <2>10
        <3>2. T[s].sent \in Nat /\ T[s].corked \in Nat
            BY <2>1, StreamFields
        <3>3. QED BY <3>1, <3>2
    <2>13. U \in [Tracks -> Stream]
        BY <2>10 DEF Whole
    <2>14. Balanced(U, NoSink, 0)
        BY <2>1, <2>10, <2>11, <2>12, <2>13, BalanceMoves
    <2>15. QED BY <2>10, <2>14
<1>3. QED BY <1>1, <1>2 DEF Written

\* The native tracks and the queues after a callback.
LEMMA BecomesTypes ==
    ASSUME NEW T \in [Tracks -> Stream], NEW box \in [Tracks -> Nat],
           NEW queue \in [Tracks -> SUBSET {"open", "closed", "error"}], Typed, Becomes(T, box, queue)
    PROVE  /\ track' = T
           /\ raw' \in [Tracks -> {"none", "connecting", "open", "closed"}]
           /\ inbox' \in [Tracks -> Nat] /\ calls' \in [Tracks -> SUBSET {"open", "closed", "error"}]
           /\ \A t \in Tracks : calls'[t] \subseteq queue[t]
<1>1. raw' \in [Tracks -> {"none", "connecting", "open", "closed"}] /\ track' = T
    BY DEF Becomes, Typed
<1>2. inbox' \in [Tracks -> Nat]
    BY DEF Becomes
<1>3. calls' \in [Tracks -> SUBSET {"open", "closed", "error"}] /\ \A t \in Tracks : calls'[t] \subseteq queue[t]
    BY DEF Becomes
<1>4. QED BY <1>1, <1>2, <1>3

\* A twin is a track of the other connection, whose twin is the first.
LEMMA TwinFacts ==
    ASSUME NEW t \in Tracks
    PROVE  Twin(t) \in Tracks /\ Twin(Twin(t)) = t
<1>1. PICK m \in Mids, c \in {"mock", "external"} : t = <<m, c>>
    BY DEF Tracks
<1>2. t[1] = m /\ t[2] = c
    BY <1>1
<1>3. CASE c = "mock"
    <2>1. Twin(t) = <<m, "external">>
        BY <1>2, <1>3 DEF Twin
    <2>2. Twin(<<m, "external">>) = <<m, "mock">>
        BY DEF Twin
    <2>3. QED BY <1>1, <1>3, <2>1, <2>2 DEF Tracks
<1>4. CASE c = "external"
    <2>1. Twin(t) = <<m, "mock">>
        BY <1>2, <1>4 DEF Twin
    <2>2. Twin(<<m, "mock">>) = <<m, "external">>
        BY DEF Twin
    <2>3. QED BY <1>1, <1>4, <2>1, <2>2 DEF Tracks
<1>5. QED BY <1>3, <1>4

\* The mode of the live tracks in A becomes m.
Turned(T, A, m) == [t \in Tracks |-> IF t \in A THEN [T[t] EXCEPT !.mode = m] ELSE T[t]]

\* U differs from T in its modes only.
SameButModes(T, U) ==
    \A t \in Tracks : /\ U[t].life = T[t].life /\ U[t].sink = T[t].sink /\ U[t].passed = T[t].passed
                      /\ U[t].sent = T[t].sent /\ U[t].corked = T[t].corked

\* Turning streams on or off keeps what they account for.
LEMMA ModesChange ==
    ASSUME NEW T, Whole(T), NEW A \in SUBSET Tracks, \A t \in A : T[t].life = "live",
           NEW m \in {"flowing", "paused"}
    PROVE  /\ Whole(Turned(T, A, m)) /\ SameButModes(T, Turned(T, A, m))
           /\ \A t \in A : Turned(T, A, m)[t].mode = m
           /\ \A t \in Tracks : t \notin A => Turned(T, A, m)[t] = T[t]
<1> DEFINE New(t) == [T[t] EXCEPT !.mode = m]
<1>1. T \in [Tracks -> Stream] /\ SinksFit(T) /\ LivesFit(T) /\ Counted(T)
    BY DEF Whole
<1>2. PICK U : U = Turned(T, A, m)
    OBVIOUS
<1>3. ASSUME NEW t \in Tracks
      PROVE  /\ New(t) \in Stream /\ New(t).sink = T[t].sink /\ New(t).mode = m
             /\ New(t).life = T[t].life /\ New(t).active = T[t].active /\ New(t).kept = T[t].kept
             /\ New(t).corked = T[t].corked /\ New(t).received = T[t].received /\ New(t).sent = T[t].sent
             /\ New(t).lost = T[t].lost /\ New(t).eaten = T[t].eaten /\ New(t).passed = T[t].passed
    <2>1. PICK r \in Stream : r = T[t]
        BY <1>1
    <2>2. New(t) = [r EXCEPT !.mode = m]
        BY <2>1
    <2>3. [r EXCEPT !.mode = m] \in Stream
        BY DEF Stream
    <2>4. QED BY <2>1, <2>2, <2>3 DEF Stream
<1>4. U = [t \in Tracks |-> IF t \in A THEN New(t) ELSE T[t]]
    BY <1>2 DEF Turned
<1> HIDE DEF New
<1>5. U \in [Tracks -> Stream]
    BY <1>1, <1>3, <1>4
<1>6. \A t \in Tracks : t \in A => U[t] = New(t)
    BY <1>4
<1>7. \A t \in Tracks : t \notin A => U[t] = T[t]
    BY <1>4
<1>8. SameButModes(T, U)
    <2> SUFFICES ASSUME NEW t \in Tracks
                 PROVE  /\ U[t].life = T[t].life /\ U[t].sink = T[t].sink /\ U[t].passed = T[t].passed
                        /\ U[t].sent = T[t].sent /\ U[t].corked = T[t].corked
        BY DEF SameButModes
    <2>1. CASE t \in A
        BY <2>1, <1>3, <1>6
    <2>2. CASE t \notin A
        BY <2>2, <1>7
    <2>3. QED BY <2>1, <2>2
<1>9. SinksFit(U)
    <2>1. \A t \in Tracks : T[t].sink # NoSink => T[t].sink \in Tracks
        BY <1>1, StreamFields
    <2>2. \A t \in Tracks : U[t].life = T[t].life /\ U[t].sink = T[t].sink
        BY <1>8 DEF SameButModes
    <2>3. QED BY <2>1, <2>2, <1>1 DEF SinksFit
<1>10. LivesFit(U)
    <2>1. \A t \in Tracks : T[t].life # "live" => U[t] = T[t]
        BY <1>7
    <2>2. \A t \in Tracks : U[t].life = T[t].life
        BY <1>8 DEF SameButModes
    <2>3. QED BY <2>1, <2>2, <1>1 DEF LivesFit
<1>11. Counted(U)
    <2> SUFFICES ASSUME NEW t \in Tracks, U[t].life = "live"
                 PROVE  /\ U[t].received = U[t].lost + U[t].kept + U[t].eaten + U[t].passed
                        /\ U[t].active <=> U[t].kept < HighWater
        BY DEF Counted
    <2>1. T[t].life = "live"
        BY <1>8 DEF SameButModes
    <2>2. /\ T[t].received = T[t].lost + T[t].kept + T[t].eaten + T[t].passed
          /\ T[t].active <=> T[t].kept < HighWater
        BY <2>1, <1>1 DEF Counted
    <2>3. CASE t \in A
        BY <2>2, <2>3, <1>3, <1>6
    <2>4. CASE t \notin A
        BY <2>2, <2>4, <1>7
    <2>5. QED BY <2>3, <2>4
<1>12. Whole(U) /\ \A t \in A : U[t].mode = m
    BY <1>3, <1>5, <1>6, <1>9, <1>10, <1>11 DEF Whole
<1>13. QED BY <1>2, <1>7, <1>8, <1>12

\* What depends on sinks and counts is kept too.
LEMMA ModesKeep ==
    ASSUME NEW T, Whole(T), NEW U, SameButModes(T, U)
    PROVE  /\ Balanced(T, NoSink, 0) => Balanced(U, NoSink, 0)
           /\ Unpiped(T) => Unpiped(U)
           /\ Selfish(T) => Selfish(U)
<1>1. \A t \in Tracks : T[t].sink # NoSink => T[t].sink \in Tracks
    BY StreamFields DEF Whole
<1>2. QED BY <1>1 DEF SameButModes, Balanced, Unpiped, Selfish

\* The tracks of P flow into each other.
Piped(T, P, f) == [t \in Tracks |-> IF t \in P THEN [T[t] EXCEPT !.mode = "flowing", !.sink = f[t]] ELSE T[t]]

\* Piping live tracks that were not piped before, each into one of them, owes nothing to any.
LEMMA PipedFits ==
    ASSUME NEW T, Whole(T), Unpiped(T), NEW P \in SUBSET Tracks, \A t \in P : T[t].life = "live",
           NEW f \in [P -> P], \A t, u \in P : f[t] = f[u] => t = u
    PROVE  /\ Whole(Piped(T, P, f)) /\ Balanced(Piped(T, P, f), NoSink, 0)
           /\ Sunk(T) => Sunk(Piped(T, P, f))
           /\ (\A t \in P : f[t] = t) => Selfish(Piped(T, P, f))
<1> DEFINE New(t) == [T[t] EXCEPT !.mode = "flowing", !.sink = f[t]]
<1>1. T \in [Tracks -> Stream] /\ SinksFit(T) /\ LivesFit(T) /\ Counted(T)
    BY DEF Whole
<1>2. PICK U : U = Piped(T, P, f)
    OBVIOUS
<1>3. ASSUME NEW t \in P
      PROVE  /\ New(t) \in Stream /\ New(t).sink = f[t] /\ New(t).mode = "flowing"
             /\ New(t).life = "live" /\ New(t).active = T[t].active /\ New(t).kept = T[t].kept
             /\ New(t).corked = 0 /\ New(t).received = T[t].received /\ New(t).sent = 0
             /\ New(t).lost = T[t].lost /\ New(t).eaten = T[t].eaten /\ New(t).passed = 0 /\ T[t].passed = 0
    <2>1. PICK r \in Stream : r = T[t]
        BY <1>1
    <2>2. New(t) = [r EXCEPT !.mode = "flowing", !.sink = f[t]]
        BY <2>1
    <2>3. f[t] \in Tracks
        OBVIOUS
    <2>4. [r EXCEPT !.mode = "flowing", !.sink = f[t]] \in Stream
        BY <2>3 DEF Stream
    <2>5. r.life = "live" /\ r.corked = 0 /\ r.sent = 0 /\ r.passed = 0
        BY <2>1 DEF Unpiped
    <2>6. QED BY <2>1, <2>2, <2>4, <2>5 DEF Stream
<1>4. U = [t \in Tracks |-> IF t \in P THEN New(t) ELSE T[t]]
    BY <1>2 DEF Piped
<1> HIDE DEF New
<1>5. U \in [Tracks -> Stream]
    BY <1>1, <1>3, <1>4
<1>6. \A t \in P : U[t] = New(t)
    BY <1>4
<1>7. \A t \in Tracks : t \notin P => U[t] = T[t]
    BY <1>4
<1>8. \A t \in Tracks : U[t].life = T[t].life
    BY <1>3, <1>6, <1>7
<1>9. \A t \in Tracks : U[t].sink = IF t \in P THEN f[t] ELSE NoSink
    BY <1>3, <1>6, <1>7 DEF Unpiped
<1>10. SinksFit(U)
    <2>1. ASSUME NEW t \in Tracks, U[t].sink # NoSink
          PROVE  t \in P /\ U[t].sink = f[t] /\ U[t].life = "live" /\ U[U[t].sink].life = "live"
        <3>1. t \in P /\ U[t].sink = f[t]
            BY <2>1, <1>9
        <3>2. f[t] \in P
            BY <3>1
        <3>3. QED BY <3>1, <3>2, <1>3, <1>6
    <2>2. ASSUME NEW t \in Tracks, NEW u \in Tracks, U[t].sink # NoSink, U[t].sink = U[u].sink PROVE t = u
        <3>1. t \in P /\ U[t].sink = f[t]
            BY <2>1, <2>2
        <3>2. u \in P /\ U[u].sink = f[u]
            BY <2>1, <2>2
        <3>3. QED BY <2>2, <3>1, <3>2
    <2>3. QED BY <2>1, <2>2 DEF SinksFit
<1>11. LivesFit(U)
    <2>1. \A t \in Tracks : T[t].life # "live" => U[t] = T[t]
        BY <1>7
    <2>2. QED BY <2>1, <1>1, <1>8 DEF LivesFit
<1>12. Counted(U)
    <2> SUFFICES ASSUME NEW t \in Tracks, U[t].life = "live"
                 PROVE  /\ U[t].received = U[t].lost + U[t].kept + U[t].eaten + U[t].passed
                        /\ U[t].active <=> U[t].kept < HighWater
        BY DEF Counted
    <2>1. /\ T[t].received = T[t].lost + T[t].kept + T[t].eaten + T[t].passed
          /\ T[t].active <=> T[t].kept < HighWater
        BY <1>1, <1>8 DEF Counted
    <2>2. CASE t \in P
        <3>1. New(t).received = T[t].received /\ New(t).lost = T[t].lost /\ New(t).kept = T[t].kept
              /\ New(t).eaten = T[t].eaten /\ New(t).passed = T[t].passed /\ New(t).active = T[t].active
            BY <2>2, <1>3
        <3>2. U[t] = New(t)
            BY <2>2, <1>6
        <3>3. QED BY <2>1, <3>1, <3>2
    <2>3. CASE t \notin P
        BY <2>1, <2>3, <1>7
    <2>4. QED BY <2>2, <2>3
<1>13. Balanced(U, NoSink, 0)
    <2> SUFFICES ASSUME NEW t \in Tracks, U[t].sink # NoSink, NEW q, q = U[t].sink
                 PROVE  U[t].passed = U[q].sent + U[q].corked + (IF q = NoSink THEN 0 ELSE 0)
        BY DEF Balanced
    <2>1. t \in P /\ q \in P
        BY <1>9
    <2>2. U[t].passed = 0 /\ U[q].sent = 0 /\ U[q].corked = 0
        BY <2>1, <1>3, <1>6
    <2>3. QED BY <2>2
<1>14. ASSUME Sunk(T), NEW t \in Tracks, U[t].mode = "flowing"
       PROVE  U[t].sink # NoSink
    <2>1. CASE t \in P
        BY <2>1, <1>9, NoSinkApart
    <2>2. CASE t \notin P
        <3>1. T[t].mode = "flowing" /\ T[t].sink = NoSink
            BY <2>2, <1>7, <1>14 DEF Unpiped
        <3>2. QED BY <3>1, <1>14 DEF Sunk
    <2>3. QED BY <2>1, <2>2
<1>15. (\A t \in P : f[t] = t) => Selfish(U)
    BY <1>9 DEF Selfish
<1>16. (Sunk(T) => Sunk(U)) /\ Whole(U)
    BY <1>5, <1>10, <1>11, <1>12, <1>14 DEF Sunk, Whole
<1>17. QED BY <1>2, <1>13, <1>15, <1>16

\* T with a new stream of t.
Wrapped(T, t, o, l, m, k) ==
    [T EXCEPT ![t].life = "live", ![t].opening = o, ![t].isLocal = l, ![t].mode = m, ![t].sink = k]

WrappedIn(T, U, t, m, k) ==
    /\ Whole(U) /\ Balanced(U, NoSink, 0)
    /\ U[t].life = "live" /\ U[t].mode = m /\ U[t].sink = k
    /\ U[t].passed = 0 /\ U[t].sent = 0 /\ U[t].corked = 0
    /\ \A u \in Tracks : u # t => U[u] = T[u]

\* A track that had no stream gets one.
LEMMA WrappedFits ==
    ASSUME NEW T, Whole(T), NEW t \in Tracks, T[t].life = "none", Balanced(T, NoSink, 0),
           NEW o \in {"corked", "immediate", "open"}, NEW l \in BOOLEAN,
           NEW m \in {"idle", "flowing"}, NEW k \in {NoSink, t}
    PROVE  WrappedIn(T, Wrapped(T, t, o, l, m, k), t, m, k)
<1>1. T \in [Tracks -> Stream] /\ SinksFit(T) /\ LivesFit(T) /\ Counted(T)
    BY DEF Whole
<1>2. T[t] = Unwrapped
    BY <1>1 DEF LivesFit
<1>3. PICK p \in Stream : p = T[t]
    BY <1>1
<1>4. PICK r : r = [p EXCEPT !.life = "live", !.opening = o, !.isLocal = l, !.mode = m, !.sink = k]
    OBVIOUS
<1>5. /\ r \in Stream /\ r.life = "live" /\ r.mode = m /\ r.sink = k /\ r.passed = 0 /\ r.sent = 0 /\ r.corked = 0
      /\ r.received = 0 /\ r.lost = 0 /\ r.kept = 0 /\ r.eaten = 0 /\ r.active = TRUE
    <2>1. /\ p.passed = 0 /\ p.sent = 0 /\ p.corked = 0
          /\ p.received = 0 /\ p.lost = 0 /\ p.kept = 0 /\ p.eaten = 0 /\ p.active = TRUE
        BY <1>2, <1>3 DEF Unwrapped
    <2>2. r \in Stream
        BY <1>4 DEF Stream
    <2>3. QED BY <1>4, <2>1, <2>2 DEF Stream
<1>6. Wrapped(T, t, o, l, m, k) = [T EXCEPT ![t] = r]
    BY <1>1, <1>3, <1>4 DEF Wrapped
<1>7. PICK U : U = [T EXCEPT ![t] = r]
    OBVIOUS
<1>8. U \in [Tracks -> Stream] /\ U[t] = r /\ \A u \in Tracks : u # t => U[u] = T[u]
    <2>1. T \in [Tracks -> Stream] /\ r \in Stream
        BY <1>1, <1>5
    <2>2. QED BY <2>1, <1>7
<1>9. ASSUME NEW u \in Tracks, u # t, T[u].sink # NoSink
      PROVE  T[u].sink \in Tracks /\ T[u].sink # t
    <2>1. T[u].sink \in Tracks /\ T[T[u].sink].life = "live"
        BY <1>1, <1>9, StreamFields DEF SinksFit
    <2>2. QED BY <2>1
<1>10. SinksFit(U)
    <2>1. ASSUME NEW u \in Tracks, U[u].sink # NoSink
          PROVE  U[u].life = "live" /\ U[U[u].sink].life = "live" /\ (u = t <=> U[u].sink = t)
        <3>1. CASE u = t
            BY <2>1, <3>1, <1>5, <1>8
        <3>2. CASE u # t
            <4>1. U[u] = T[u] /\ T[u].sink \in Tracks /\ T[u].sink # t
                BY <2>1, <3>2, <1>8, <1>9
            <4>2. U[T[u].sink] = T[T[u].sink]
                BY <4>1, <1>8
            <4>3. T[u].life = "live" /\ T[T[u].sink].life = "live"
                BY <4>1, <2>1, <1>1 DEF SinksFit
            <4>4. QED BY <3>2, <4>1, <4>2, <4>3
        <3>3. QED BY <3>1, <3>2
    <2>2. ASSUME NEW u \in Tracks, NEW v \in Tracks, U[u].sink # NoSink, U[u].sink = U[v].sink PROVE u = v
        <3>1. (u = t <=> U[u].sink = t) /\ (v = t <=> U[v].sink = t)
            BY <2>1, <2>2
        <3>2. CASE u = t
            BY <2>2, <3>1, <3>2
        <3>3. CASE u # t
            <4>1. v # t
                BY <2>2, <3>1, <3>3
            <4>2. U[u] = T[u] /\ U[v] = T[v]
                BY <3>3, <4>1, <1>8
            <4>3. QED BY <2>2, <4>2, <1>1 DEF SinksFit
        <3>4. QED BY <3>2, <3>3
    <2>3. QED BY <2>1, <2>2 DEF SinksFit
<1>11. LivesFit(U)
    BY <1>1, <1>5, <1>8 DEF LivesFit
<1>12. Counted(U)
    <2> SUFFICES ASSUME NEW u \in Tracks, U[u].life = "live"
                 PROVE  /\ U[u].received = U[u].lost + U[u].kept + U[u].eaten + U[u].passed
                        /\ U[u].active <=> U[u].kept < HighWater
        BY DEF Counted
    <2>1. CASE u = t
        <3>1. U[t] = r /\ 0 < HighWater
            BY <1>8, TracksAssumption
        <3>2. r.received = r.lost + r.kept + r.eaten + r.passed
            BY <1>5
        <3>3. r.active <=> r.kept < HighWater
            BY <3>1, <1>5
        <3>4. QED BY <2>1, <3>1, <3>2, <3>3
    <2>2. CASE u # t
        BY <2>2, <1>1, <1>8 DEF Counted
    <2>3. QED BY <2>1, <2>2
<1>13. Balanced(U, NoSink, 0)
    <2> SUFFICES ASSUME NEW u \in Tracks, U[u].sink # NoSink, NEW q, q = U[u].sink
                 PROVE  U[u].passed = U[q].sent + U[q].corked + (IF q = NoSink THEN 0 ELSE 0)
        BY DEF Balanced
    <2>1. CASE u = t
        <3>1. q = t
            BY <2>1, <1>5, <1>8
        <3>2. U[u] = r /\ U[q] = r
            BY <2>1, <3>1, <1>8
        <3>3. r.passed = r.sent + r.corked + (IF q = NoSink THEN 0 ELSE 0)
            BY <1>5
        <3>4. QED BY <3>2, <3>3
    <2>2. CASE u # t
        <3>1. U[u] = T[u] /\ q \in Tracks /\ q # t
            BY <2>2, <1>8, <1>9
        <3>2. U[q] = T[q]
            BY <3>1, <1>8
        <3>3. T[u].passed = T[q].sent + T[q].corked + (IF q = NoSink THEN 0 ELSE 0)
            BY <3>1 DEF Balanced
        <3>4. QED BY <3>1, <3>2, <3>3
    <2>3. QED BY <2>1, <2>2
<1>14. WrappedIn(T, U, t, m, k)
    BY <1>5, <1>8, <1>10, <1>11, <1>12, <1>13 DEF Whole, WrappedIn
<1>15. QED BY <1>6, <1>7, <1>14

\* What a change kept is kept by the next one too.
LEMMA KeepsOn ==
    ASSUME NEW T, NEW U, NEW V, Keeps(T, U), Keeps(U, V)
    PROVE  Keeps(T, V)
<1>1. \A t \in Tracks : V[t].life \in {T[t].life, "gone"}
    BY DEF Keeps
<1>2. QED BY <1>1 DEF Keeps

\* The streams fit the next place when they fit the one before and nothing begins to be piped.
LEMMA KeptFits ==
    ASSUME NEW T, NEW pl, NEW td, Fits(T, pl, td), NEW U, Whole(U), Balanced(U, NoSink, 0), Keeps(T, U),
           NEW pm, NEW tm, Unpiping(pm, tm) => Unpiping(pl, td) /\ Unpiped(U),
           pm = "echoing" => pl = "echoing", pm = "waiting" <=> pl = "waiting"
    PROVE  Fits(U, pm, tm)
BY DEF Fits, Keeps

\* Streams that were not piped and of which only one changes, in what it does not pass on.
LEMMA UnpipedStays ==
    ASSUME NEW T, NEW U, NEW s, NEW r, OneChanged(T, U, s, r), s \in Tracks, Unpiped(T),
           r.passed = 0, r.sent = 0, r.corked = 0
    PROVE  Unpiped(U)
<1> SUFFICES ASSUME NEW t \in Tracks
             PROVE  U[t].sink = NoSink /\ U[t].passed = 0 /\ U[t].sent = 0 /\ U[t].corked = 0
    BY DEF Unpiped
<1>1. T[t].sink = NoSink /\ T[t].passed = 0 /\ T[t].sent = 0 /\ T[t].corked = 0 /\ U[t].sink = T[t].sink
    BY DEF Unpiped, OneChanged
<1>2. QED BY <1>1 DEF OneChanged

\* After a callback that keeps the streams, the native tracks and their queues fit.
LEMMA BecomesFits ==
    ASSUME Typed, QueuesFit, NEW U, Whole(U), Keeps(track, U),
           NEW box \in [Tracks -> Nat], NEW queue \in [Tracks -> SUBSET {"open", "closed", "error"}],
           \A t \in Tracks : queue[t] \subseteq calls[t],
           Becomes(U, box, queue), UNCHANGED <<watched, closed>>,
           place' \in {"start", "run", "wait-track", "waiting", "echoing", "proxying", "throw", "over"}
    PROVE  track' = U /\ Typed' /\ QueuesFit'
<1>1. U \in [Tracks -> Stream]
    BY DEF Whole
<1>2. /\ track' = U /\ raw' \in [Tracks -> {"none", "connecting", "open", "closed"}]
      /\ inbox' \in [Tracks -> Nat] /\ calls' \in [Tracks -> SUBSET {"open", "closed", "error"}]
      /\ \A t \in Tracks : calls'[t] \subseteq queue[t]
    BY <1>1, BecomesTypes
<1>3. Typed'
    BY <1>2 DEF Typed
<1>4. ASSUME NEW t \in Tracks, "open" \in calls'[t] PROVE U[t].life # "none"
    <2>1. "open" \in calls[t]
        BY <1>2, <1>4
    <2>2. track[t].life # "none" /\ U[t].life \in {track[t].life, "gone"}
        BY <2>1 DEF QueuesFit, Keeps
    <2>3. QED BY <2>2
<1>5. ASSUME NEW t \in Tracks, raw'[t] = "none" PROVE U[t].life = "none"
    <2>1. U[t].life # "gone" /\ raw[t] = "none"
        BY <1>5 DEF Becomes
    <2>2. track[t].life = "none" /\ U[t].life \in {track[t].life, "gone"}
        BY <2>1 DEF QueuesFit, Keeps
    <2>3. QED BY <2>1, <2>2
<1>6. QueuesFit'
    BY <1>2, <1>4, <1>5 DEF QueuesFit
<1>7. QED BY <1>2, <1>3, <1>6

-----------------------------------------------------------------------------
(* The initial states, and the steps of the native library.                *)

\* The initial states fit.
LEMMA InitIInv == Init => IInv
<1> SUFFICES ASSUME Init PROVE IInv
    OBVIOUS
<1>1. track = [t \in Tracks |-> Unwrapped] /\ raw = [t \in Tracks |-> "none"]
    BY DEF Init
<1>2. track \in [Tracks -> Stream] /\ \A t \in Tracks : track[t] = Unwrapped
    BY <1>1, UnwrappedStream
<1>3. /\ Unwrapped.life = "none" /\ Unwrapped.sink = NoSink /\ Unwrapped.passed = 0 /\ Unwrapped.sent = 0
      /\ Unwrapped.corked = 0 /\ Unwrapped.mode = "idle"
    BY DEF Unwrapped
<1>4. Whole(track)
    BY <1>2, <1>3 DEF Whole, SinksFit, LivesFit, Counted
<1>5. Balanced(track, NoSink, 0) /\ Unpiped(track) /\ Selfish(track) /\ Sunk(track) /\ Waits(track)
    BY <1>2, <1>3 DEF Balanced, Unpiped, Selfish, Sunk, Waits
<1>6. Fits(track, place, todo)
    BY <1>4, <1>5 DEF Fits
<1>7. Typed
    BY <1>1 DEF Init, Typed
<1>8. TodoFits
    <2>1. place = "start" /\ todo \in Programs
        BY DEF Init
    <2>2. QED BY <2>1, TracksAssumption DEF TodoFits, Steps
<1>9. QueuesFit
    BY <1>1, <1>2, <1>3 DEF Init, QueuesFit
<1>10. QED BY <1>6, <1>7, <1>8, <1>9 DEF IInv

\* The native library touches no stream, and tells only those that exist.
LEMMA NativeFits ==
    ASSUME IInv, NEW t \in Tracks, NEW state \in {"connecting", "open", "closed"},
           NEW call \in SUBSET {"open", "closed", "error"}, Native(t, state, call),
           "open" \in call => track[t].life = "live"
    PROVE  IInv'
<1>1. /\ raw' = [raw EXCEPT ![t] = state] /\ calls' = [calls EXCEPT ![t] = @ \cup call]
      /\ UNCHANGED <<track, inbox, watched, closed, place, todo>>
    BY DEF Native
<1>2. Typed'
    BY <1>1 DEF IInv, Typed
<1>3. TodoFits' /\ Fits(track, place, todo)'
    BY <1>1 DEF IInv, TodoFits
<1>4. ASSUME NEW u \in Tracks
      PROVE  ("open" \in calls'[u] => track[u].life # "none") /\ (raw'[u] = "none" => track[u].life = "none")
    <2>1. CASE u = t
        BY <2>1, <1>1 DEF IInv, QueuesFit, Typed
    <2>2. CASE u # t
        BY <2>2, <1>1 DEF IInv, QueuesFit, Typed
    <2>3. QED BY <2>1, <2>2
<1>5. QueuesFit'
    BY <1>1, <1>4 DEF QueuesFit
<1>6. QED BY <1>2, <1>3, <1>5 DEF IInv

\* Nor does a remote side that sends.
LEMMA RemoteFits ==
    ASSUME IInv, NEW t \in Tracks,
           ClientAdds(t) \/ NativeOpens(t) \/ NativeCloses(t) \/ NativeError(t) \/ RemoteSends(t)
    PROVE  IInv'
<1>1. CASE ClientAdds(t)
    BY <1>1, NativeFits DEF ClientAdds
<1>2. CASE NativeOpens(t)
    <2>1. PICK call : call = IF t \in Live THEN {"open"} ELSE {}
        OBVIOUS
    <2>2. Native(t, "open", call) /\ call \in SUBSET {"open", "closed", "error"}
        BY <1>2, <2>1 DEF NativeOpens
    <2>3. "open" \in call => track[t].life = "live"
        BY <2>1 DEF Live
    <2>4. QED BY <2>2, <2>3, NativeFits
<1>3. CASE NativeCloses(t)
    BY <1>3, NativeFits DEF NativeCloses
<1>4. CASE NativeError(t)
    BY <1>4, NativeFits DEF NativeError
<1>5. CASE RemoteSends(t)
    <2>1. inbox' = [inbox EXCEPT ![t] = @ + 1] /\ UNCHANGED <<track, raw, calls, watched, closed, place, todo>>
        BY <1>5 DEF RemoteSends
    <2>2. Typed'
        BY <2>1 DEF IInv, Typed
    <2>3. TodoFits' /\ Fits(track, place, todo)' /\ QueuesFit'
        BY <2>1 DEF IInv, TodoFits, QueuesFit
    <2>4. QED BY <2>2, <2>3 DEF IInv
<1>6. QED BY <1>1, <1>2, <1>3, <1>4, <1>5

-----------------------------------------------------------------------------
(* Callbacks.                                                              *)

\* A track that is wrapped is read, and echoed, when the handler is at such a step.
LEMMA WrapFits ==
    ASSUME IInv, NEW t \in Tracks, NEW o \in {"corked", "immediate", "open"}, NEW l \in BOOLEAN,
           Wrap(t, o, l), track[t].life = "none",
           raw' \in [Tracks -> {"none", "connecting", "open", "closed"}],
           raw'[t] # "none", \A u \in Tracks : u # t => raw'[u] = raw[u]
    PROVE  IInv'
<1>1. PICK m : m = IF t \in Mock /\ place \in {"waiting", "echoing"} THEN "flowing" ELSE "idle"
    OBVIOUS
<1>2. PICK k : k = IF t \in Mock /\ place = "echoing" THEN t ELSE NoSink
    OBVIOUS
<1>3. m \in {"idle", "flowing"} /\ k \in {NoSink, t}
    BY <1>1, <1>2
<1>4. /\ track' = Wrapped(track, t, o, l, m, k) /\ UNCHANGED <<inbox, calls, closed, place, todo>>
      /\ watched' = watched \cup (IF place = "start" THEN {} ELSE {t} \cap Mock)
    BY <1>1, <1>2 DEF Wrap, Wrapped, nativeVars
<1>5. Fits(track, place, todo) /\ Whole(track) /\ Balanced(track, NoSink, 0)
    BY DEF IInv, Fits
<1>6. PICK U : U = Wrapped(track, t, o, l, m, k)
    OBVIOUS
<1>7. WrappedIn(track, U, t, m, k)
    BY <1>3, <1>5, <1>6, WrappedFits
<1>8. /\ Whole(U) /\ Balanced(U, NoSink, 0)
      /\ U[t].life = "live" /\ U[t].mode = m /\ U[t].sink = k
      /\ U[t].passed = 0 /\ U[t].sent = 0 /\ U[t].corked = 0
      /\ \A u \in Tracks : u # t => U[u] = track[u]
    BY <1>7 DEF WrappedIn
<1>9. Unpiping(place, todo) => Unpiped(U)
    <2>1. Unpiping(place, todo) => Unpiped(track) /\ k = NoSink
        BY <1>2, <1>5 DEF Unpiping, Fits
    <2>2. QED BY <2>1, <1>8 DEF Unpiped
<1>10. place = "echoing" => Selfish(U)
    <2>1. place = "echoing" => Selfish(track)
        BY <1>5 DEF Fits
    <2>2. QED BY <2>1, <1>3, <1>8 DEF Selfish
<1>11. place = "waiting" => Waits(U)
    <2>1. place = "waiting" => Waits(track)
        BY <1>5 DEF Fits
    <2>2. m = "flowing" => t \in Mock
        BY <1>1
    <2>3. QED BY <2>1, <2>2, <1>8 DEF Waits
<1>12. place # "waiting" => Sunk(U)
    <2>1. place # "waiting" => Sunk(track)
        BY <1>5 DEF Fits
    <2>2. place # "waiting" /\ m = "flowing" => k # NoSink
        BY <1>1, <1>2, NoSinkApart
    <2>3. QED BY <2>1, <2>2, <1>8 DEF Sunk
<1>13. Fits(U, place, todo)
    BY <1>8, <1>9, <1>10, <1>11, <1>12 DEF Fits
<1>14. Fits(track, place, todo)'
    BY <1>4, <1>6, <1>13
<1>15. Typed' /\ TodoFits'
    <2>1. watched' \subseteq Mock
        BY <1>4 DEF IInv, Typed
    <2>2. QED BY <2>1, <1>4 DEF IInv, Typed, TodoFits
<1>16. QueuesFit'
    <2>1. ASSUME NEW u \in Tracks
          PROVE  ("open" \in calls[u] => U[u].life # "none") /\ (raw'[u] = "none" => U[u].life = "none")
        <3>1. CASE u = t
            BY <3>1, <1>8
        <3>2. CASE u # t
            BY <3>2, <1>8 DEF IInv, QueuesFit
        <3>3. QED BY <3>1, <3>2
    <2>2. QED BY <2>1, <1>4, <1>6 DEF QueuesFit
<1>17. QED BY <1>14, <1>15, <1>16 DEF IInv

\* So is one that arrives from the client.
LEMMA ArrivesFits ==
    ASSUME IInv, NEW t \in Tracks, TrackArrives(t)
    PROVE  IInv'
<1>1. PICK o : o = IF raw[t] = "open" THEN "immediate" ELSE "corked"
    OBVIOUS
<1>2. Wrap(t, o, FALSE) /\ o \in {"corked", "immediate", "open"} /\ track[t].life = "none" /\ raw[t] # "none" /\ raw' = raw
    BY <1>1 DEF TrackArrives
<1>3. raw' \in [Tracks -> {"none", "connecting", "open", "closed"}] /\ raw'[t] # "none"
    BY <1>2 DEF IInv, Typed
<1>4. QED BY <1>2, <1>3, WrapFits

\* And one that a connection adds when it mirrors a description.
LEMMA MirrorAddsFits ==
    ASSUME IInv, NEW t \in Tracks, MirrorAdds(t)
    PROVE  IInv'
<1>1. Wrap(t, "corked", TRUE) /\ raw' = [raw EXCEPT ![t] = "connecting"] /\ raw[t] = "none"
    BY DEF MirrorAdds
<1>2. track[t].life = "none"
    BY <1>1 DEF IInv, QueuesFit
<1>3. /\ raw' \in [Tracks -> {"none", "connecting", "open", "closed"}] /\ raw'[t] # "none"
      /\ \A u \in Tracks : u # t => raw'[u] = raw[u]
    BY <1>1 DEF IInv, Typed
<1>4. QED BY <1>1, <1>2, <1>3, WrapFits

\* The handler begins with streams that are not piped.
LEMMA ConnectedFits ==
    ASSUME IInv, Connected
    PROVE  IInv'
<1>1. place = "start" /\ place' = "run" /\ watched' = Mock \cap Live /\ UNCHANGED <<track, raw, inbox, calls, closed, todo>>
    BY DEF Connected, nativeVars
<1>2. Fits(track, place, todo)
    BY DEF IInv
<1>3. Fits(track, "run", todo)
    BY <1>1, <1>2 DEF Fits, Unpiping
<1>4. Fits(track, place, todo)'
    BY <1>1, <1>3
<1>5. Typed' /\ TodoFits' /\ QueuesFit'
    BY <1>1 DEF IInv, Typed, TodoFits, QueuesFit, Live
<1>6. QED BY <1>4, <1>5 DEF IInv

\* Nothing owed to a track is nothing owed.
LEMMA NothingOwed ==
    ASSUME NEW T, NEW s
    PROVE  Balanced(T, NoSink, 0) <=> Balanced(T, s, 0)
<1>1. \A q : (IF q = NoSink THEN 0 ELSE 0) = (IF q = s THEN 0 ELSE 0)
    OBVIOUS
<1>2. QED BY <1>1 DEF Balanced

\* A stream that changes in nothing that a pipe counts keeps the balance.
LEMMA QuietChange ==
    ASSUME NEW T, Whole(T), Balanced(T, NoSink, 0), NEW s \in Tracks, NEW r, Succeeds(r, T[s]),
           r.passed = T[s].passed, r.sent = T[s].sent, r.corked = T[s].corked
    PROVE  /\ Whole([T EXCEPT ![s] = r]) /\ Balanced([T EXCEPT ![s] = r], NoSink, 0)
           /\ Keeps(T, [T EXCEPT ![s] = r]) /\ (Unpiped(T) => Unpiped([T EXCEPT ![s] = r]))
<1>1. PICK U : U = [T EXCEPT ![s] = r]
    OBVIOUS
<1>2. OneChanged(T, U, s, r)
    BY <1>1, OneChanges
<1>3. T \in [Tracks -> Stream] /\ U \in [Tracks -> Stream]
    BY <1>2 DEF Whole, OneChanged
<1>4. \A t \in Tracks : U[t].sink = T[t].sink
    BY <1>2 DEF OneChanged
<1>5. ASSUME NEW t \in Tracks
      PROVE  U[t].passed = T[t].passed /\ U[t].sent = T[t].sent /\ U[t].corked = T[t].corked
    <2>1. CASE t = s
        BY <2>1, <1>2 DEF OneChanged
    <2>2. CASE t # s
        BY <2>2, <1>2 DEF OneChanged
    <2>3. QED BY <2>1, <2>2
<1>6. Balanced(U, NoSink, 0)
    <2>1. \A t \in Tracks : T[t].sink # NoSink => T[t].sink \in Tracks
        BY <1>3, StreamFields
    <2>2. QED BY <2>1, <1>4, <1>5 DEF Balanced
<1>7. Unpiped(T) => Unpiped(U)
    BY <1>4, <1>5 DEF Unpiped
<1>8. QED BY <1>1, <1>2, <1>6, <1>7 DEF OneChanged

\* After a step the handler is at the next one.
LEMMA DoneFits ==
    ASSUME TodoFits, todo # <<>>, StepDone
    PROVE  TodoFits' /\ place' = "run" /\ Len(todo') = Len(todo) - 1
<1>1. place' = "run" /\ todo' = Tail(todo) /\ todo \in Seq(Steps)
    BY DEF StepDone, TodoFits
<1>2. todo' \in Seq(Steps) /\ Len(todo') = Len(todo) - 1 /\ Len(todo) \in Nat
    BY <1>1
<1>3. ASSUME NEW n \in 1 .. Len(todo'), todo'[n] \in Pipes PROVE n = Len(todo')
    <2>1. n + 1 \in 1 .. Len(todo) /\ todo'[n] = todo[n + 1]
        BY <1>1, <1>2
    <2>2. n + 1 = Len(todo)
        BY <2>1, <1>3 DEF TodoFits
    <2>3. QED BY <2>2, <1>2
<1>4. QED BY <1>1, <1>2, <1>3 DEF TodoFits

\* Where the handler goes when a track opens, or stays: no pipe begins.
NoneBegins ==
    /\ place' \in {"start", "run", "wait-track", "waiting", "echoing", "proxying", "throw", "over"}
    /\ Unpiping(place', todo') => Unpiping(place, todo)
    /\ place' = "echoing" => place = "echoing"
    /\ place' = "waiting" <=> place = "waiting"

\* A step that waits for a track ends when one opens.
LEMMA OpenEndsFits ==
    ASSUME Typed, TodoFits, NEW t, OpenEnds(t)
    PROVE  TodoFits' /\ NoneBegins
<1>1. CASE place = "wait-track" /\ Remote(t)
    <2>1. StepDone /\ todo # <<>>
        BY <1>1 DEF OpenEnds, TodoFits
    <2>2. TodoFits' /\ place' = "run"
        BY <2>1, DoneFits
    <2>3. Unpiping(place, todo)
        BY <1>1, <2>1 DEF Unpiping
    <2>4. QED BY <1>1, <2>2, <2>3 DEF NoneBegins
<1>2. CASE ~(place = "wait-track" /\ Remote(t))
    <2>1. UNCHANGED <<place, todo>>
        BY <1>2 DEF OpenEnds
    <2>2. TodoFits'
        BY <2>1 DEF TodoFits
    <2>3. QED BY <2>1, <2>2 DEF NoneBegins, Typed
<1>3. QED BY <1>1, <1>2

\* A stream that opens.
LEMMA OpenedStream ==
    ASSUME Whole(track), NEW t \in Tracks, track[t].life # "none", NEW c \in {0, track[t].corked},
           NEW r, r = [track[t] EXCEPT !.opening = "open", !.corked = c]
    PROVE  /\ Succeeds(r, track[t]) /\ r.corked = c
           /\ r.sent = track[t].sent /\ r.passed = track[t].passed
<1>1. track \in [Tracks -> Stream] /\ Counted(track) /\ LivesFit(track)
    BY DEF Whole
<1>2. PICK p \in Stream : p = track[t]
    BY <1>1
<1>3. c \in 0 .. HighWater
    BY <1>2, TracksAssumption, SMTT(30) DEF Stream
<1>4. r = [p EXCEPT !.opening = "open", !.corked = c]
    BY <1>2
<1>5. r \in Stream /\ r.corked = c
    BY <1>3, <1>4 DEF Stream
<1>6. /\ r.life = p.life /\ r.sink = p.sink /\ r.mode = p.mode /\ r.passed = p.passed /\ r.sent = p.sent
      /\ r.received = p.received /\ r.lost = p.lost /\ r.kept = p.kept /\ r.eaten = p.eaten /\ r.active = p.active
    BY <1>4 DEF Stream
<1>7. p.life = "live" => p.received = p.lost + p.kept + p.eaten + p.passed /\ (p.active <=> p.kept < HighWater)
    BY <1>1, <1>2 DEF Counted
<1>8. p.life = "gone" => c = 0
    BY <1>1, <1>2 DEF LivesFit
<1>9. QED BY <1>2, <1>5, <1>6, <1>7, <1>8 DEF Succeeds

\* What a stream that opens leaves, before what waited is written.
LEMMA OpenedFits ==
    ASSUME Whole(track), Balanced(track, NoSink, 0), NEW t \in Tracks, track[t].life # "none"
    PROVE  /\ Whole(Opened(t)) /\ Balanced(Opened(t), NoSink, 0)
           /\ Keeps(track, Opened(t)) /\ (Unpiped(track) => Unpiped(Opened(t)))
<1>1. PICK p \in Stream : p = track[t]
    BY DEF Whole
<1>2. PICK r : r = [track[t] EXCEPT !.opening = "open", !.corked = track[t].corked]
    OBVIOUS
<1>3. r = [p EXCEPT !.opening = "open"]
    BY <1>1, <1>2 DEF Stream
<1>4. Opened(t) = [track EXCEPT ![t] = r]
    BY <1>1, <1>3 DEF Opened
<1>5. /\ Succeeds(r, track[t]) /\ r.corked = track[t].corked
      /\ r.sent = track[t].sent /\ r.passed = track[t].passed
    BY <1>2, OpenedStream
<1>6. /\ Whole([track EXCEPT ![t] = r]) /\ Balanced([track EXCEPT ![t] = r], NoSink, 0)
      /\ Keeps(track, [track EXCEPT ![t] = r]) /\ (Unpiped(track) => Unpiped([track EXCEPT ![t] = r]))
    BY <1>5, QuietChange
<1>7. QED BY <1>4, <1>6

\* setImmediate.
LEMMA OpenLaterFits ==
    ASSUME IInv, NEW t \in Tracks, OpenLater(t)
    PROVE  IInv'
<1>1. /\ track[t].opening = "immediate" /\ track' = Opened(t) /\ OpenEnds(t)
      /\ UNCHANGED <<raw, inbox, calls, watched, closed>>
    BY DEF OpenLater, nativeVars
<1>2. Whole(track) /\ Balanced(track, NoSink, 0) /\ Typed /\ TodoFits /\ QueuesFit /\ Fits(track, place, todo)
    BY DEF IInv, Fits
<1>3. track[t].life # "none"
    BY <1>1, <1>2 DEF Whole, LivesFit, Unwrapped
<1>4. PICK U : U = Opened(t)
    OBVIOUS
<1>5. Whole(U) /\ Balanced(U, NoSink, 0) /\ Keeps(track, U) /\ (Unpiped(track) => Unpiped(U))
    BY <1>2, <1>3, <1>4, OpenedFits
<1>6. TodoFits' /\ NoneBegins
    BY <1>1, <1>2, OpenEndsFits
<1>7. Unpiping(place', todo') => Unpiping(place, todo) /\ Unpiped(U)
    BY <1>2, <1>5, <1>6 DEF NoneBegins, Fits
<1>8. (place' = "echoing" => place = "echoing") /\ (place' = "waiting" <=> place = "waiting")
    BY <1>6 DEF NoneBegins
<1>9. Fits(U, place', todo')
    BY <1>2, <1>5, <1>7, <1>8, KeptFits
<1>10. Fits(track, place, todo)'
    BY <1>1, <1>4, <1>9
<1>11. Typed'
    BY <1>1, <1>2, <1>6 DEF Typed, NoneBegins
<1>12. QueuesFit'
    <2>1. \A u \in Tracks : U[u].life \in {track[u].life, "gone"}
        BY <1>5 DEF Keeps
    <2>2. ASSUME NEW u \in Tracks, raw[u] = "none" PROVE U[u].life = "none"
        <3>1. track[u].life = "none" /\ u # t
            BY <2>2, <1>2, <1>3 DEF QueuesFit
        <3>2. U[u] = track[u]
            BY <3>1, <1>4 DEF Opened
        <3>3. QED BY <3>1, <3>2
    <2>3. ASSUME NEW u \in Tracks, "open" \in calls[u] PROVE U[u].life # "none"
        <3>1. track[u].life # "none"
            BY <2>3, <1>2 DEF QueuesFit
        <3>2. QED BY <3>1, <2>1
    <2>4. QED BY <1>1, <1>4, <2>2, <2>3 DEF QueuesFit
<1>13. QED BY <1>6, <1>10, <1>11, <1>12 DEF IInv

\* onOpen: what waited in the stream is what it owes when it is open.
LEMMA OnOpenFits ==
    ASSUME IInv, NEW t \in Tracks, OnOpen(t)
    PROVE  IInv'
<1>1. "open" \in calls[t] /\ OpenEnds(t) /\ UNCHANGED <<watched, closed>>
    BY DEF OnOpen
<1>2. Whole(track) /\ Balanced(track, NoSink, 0) /\ Typed /\ TodoFits /\ QueuesFit /\ Fits(track, place, todo)
    BY DEF IInv, Fits
<1>3. track[t].life # "none" /\ track \in [Tracks -> Stream]
    BY <1>1, <1>2 DEF QueuesFit, Whole
<1>4. TodoFits' /\ NoneBegins
    BY <1>1, <1>2, OpenEndsFits
<1>5. PICK queue : queue = Without("open", t)
    OBVIOUS
<1>6. queue \in [Tracks -> SUBSET {"open", "closed", "error"}] /\ \A u \in Tracks : queue[u] \subseteq calls[u]
    BY <1>2, <1>5 DEF Without, Typed
<1>7. inbox \in [Tracks -> Nat] /\ (place' \in {"start", "run", "wait-track", "waiting", "echoing", "proxying", "throw", "over"})
    BY <1>2, <1>4 DEF Typed, NoneBegins
<1>8. ASSUME NEW U, Whole(U), Balanced(U, NoSink, 0), Keeps(track, U), Becomes(U, inbox, queue),
             Unpiped(track) => Unpiped(U)
      PROVE  IInv'
    <2>1. track' = U /\ Typed' /\ QueuesFit'
        BY <1>1, <1>2, <1>6, <1>7, <1>8, BecomesFits
    <2>2. Unpiping(place', todo') => Unpiping(place, todo) /\ Unpiped(U)
        BY <1>2, <1>4, <1>8 DEF NoneBegins, Fits
    <2>3. (place' = "echoing" => place = "echoing") /\ (place' = "waiting" <=> place = "waiting")
        BY <1>4 DEF NoneBegins
    <2>4. Fits(U, place', todo')
        BY <1>2, <1>8, <2>2, <2>3, KeptFits
    <2>5. Fits(track, place, todo)'
        BY <2>1, <2>4
    <2>6. QED BY <1>4, <2>1, <2>5 DEF IInv
<1>9. CASE ~(track[t].corked > 0)
    <2>1. PICK U : U = Opened(t)
        OBVIOUS
    <2>2. Becomes(U, inbox, queue)
        BY <1>5, <1>9, <2>1 DEF OnOpen
    <2>3. Whole(U) /\ Balanced(U, NoSink, 0) /\ Keeps(track, U) /\ (Unpiped(track) => Unpiped(U))
        BY <1>2, <1>3, <2>1, OpenedFits
    <2>4. QED BY <1>8, <2>2, <2>3
<1>10. CASE track[t].corked > 0
    <2>1. PICK T : T = [Opened(t) EXCEPT ![t].corked = 0]
        OBVIOUS
    <2>2. PICK n \in Nat : n = track[t].corked
        BY <1>3, StreamFields
    <2>3. PICK U \in Written(T, t, n) : Becomes(U, inbox, queue)
        BY <1>5, <1>10, <2>1, <2>2 DEF OnOpen
    <2>4. PICK p \in Stream : p = track[t]
        BY <1>3
    <2>5. PICK r : r = [track[t] EXCEPT !.opening = "open", !.corked = 0]
        OBVIOUS
    <2>6. T = [track EXCEPT ![t] = r]
        BY <1>3, <2>1, <2>4, <2>5 DEF Opened
    <2>7. /\ Succeeds(r, track[t]) /\ r.corked = 0
          /\ r.sent = track[t].sent /\ r.passed = track[t].passed
        BY <1>2, <1>3, <2>5, OpenedStream
    <2>8. OneChanged(track, T, t, r)
        BY <1>2, <2>6, <2>7, OneChanges
    <2>9. /\ Whole(T) /\ Keeps(track, T) /\ T[t] = r /\ (\A u \in Tracks : u # t => T[u] = track[u])
          /\ (\A u \in Tracks : T[u].sink = track[u].sink /\ T[u].life = track[u].life)
        BY <2>8 DEF OneChanged
    <2>10. T[t].life = "live"
        <3>1. track[t].life # "gone"
            BY <1>2, <1>10 DEF Whole, LivesFit
        <3>2. QED BY <3>1, <1>3, <2>9, StreamFields
    <2>11. Balanced(T, t, n)
        <3> SUFFICES ASSUME NEW u \in Tracks, T[u].sink # NoSink, NEW q, q = T[u].sink
                     PROVE  T[u].passed = T[q].sent + T[q].corked + (IF q = t THEN n ELSE 0)
            BY DEF Balanced
        <3>1. T[u].passed = track[u].passed
            BY <2>7, <2>9
        <3>2. q \in Tracks /\ q = track[u].sink /\ q # NoSink
            BY <2>9, <1>3, StreamFields
        <3>3. track[u].passed = track[q].sent + track[q].corked + 0
            BY <3>2, <1>2 DEF Balanced
        <3>4. track[q].sent \in Nat /\ track[q].corked \in Nat
            BY <3>2, <1>3, StreamFields
        <3>5. CASE q = t
            BY <3>1, <3>3, <3>4, <3>5, <2>2, <2>7, <2>9
        <3>6. CASE q # t
            BY <3>1, <3>2, <3>3, <3>6, <2>9
        <3>7. QED BY <3>5, <3>6
    <2>12. Whole(U) /\ Balanced(U, NoSink, 0) /\ Keeps(T, U)
        BY <2>3, <2>9, <2>10, <2>11, WrittenFits
    <2>13. Keeps(track, U)
        BY <2>9, <2>12, KeepsOn
    <2>14. Unpiped(track) => Unpiped(U)
        BY <1>10, <1>3 DEF Unpiped
    <2>15. QED BY <1>8, <2>3, <2>12, <2>13, <2>14
<1>11. QED BY <1>9, <1>10

\* onMessage counts the packet as kept or as lost.
LEMMA MessageFits ==
    ASSUME IInv, NEW t \in Tracks, OnMessage(t)
    PROVE  IInv'
<1>1. /\ t \in Live /\ inbox[t] > 0 /\ inbox' = [inbox EXCEPT ![t] = @ - 1]
      /\ UNCHANGED <<raw, calls, watched, closed, place, todo>>
    BY DEF OnMessage, Arrival
<1>2. Whole(track) /\ Balanced(track, NoSink, 0) /\ Typed /\ TodoFits /\ QueuesFit /\ Fits(track, place, todo)
    BY DEF IInv, Fits
<1>3. PICK p \in Stream : p = track[t]
    BY <1>2 DEF Whole
<1>4. /\ p.life = "live" /\ p.received = p.lost + p.kept + p.eaten + p.passed
      /\ p.active <=> p.kept < HighWater
    BY <1>1, <1>2, <1>3 DEF Live, Whole, Counted
<1>5. /\ p.received \in Nat /\ p.lost \in Nat /\ p.kept \in 0 .. HighWater /\ p.kept \in Nat
      /\ p.eaten \in Nat /\ p.passed \in Nat /\ p.active \in BOOLEAN /\ HighWater \in Nat
    BY TracksAssumption DEF Stream
<1>6. PICK r : /\ Succeeds(r, track[t]) /\ r.passed = track[t].passed /\ r.sent = track[t].sent
               /\ r.corked = track[t].corked /\ track' = [track EXCEPT ![t] = r]
    <2>1. CASE p.active
        <3>1. PICK b \in BOOLEAN : b <=> p.kept + 1 < HighWater
            OBVIOUS
        <3>2. PICK k, m : k = p.kept + 1 /\ m = p.received + 1
            OBVIOUS
        <3>3. PICK r : r = [p EXCEPT !.received = m, !.kept = k, !.active = b]
            OBVIOUS
        <3>4. k \in 0 .. HighWater /\ m \in Nat /\ m = p.lost + k + p.eaten + p.passed /\ (b <=> k < HighWater)
            BY <2>1, <3>1, <3>2, <1>4, <1>5
        <3>5. r \in Stream
            BY <3>3, <3>4 DEF Stream
        <3>6. /\ r.received = m /\ r.kept = k /\ r.active = b
              /\ r.life = p.life /\ r.sink = p.sink /\ r.mode = p.mode /\ r.passed = p.passed /\ r.sent = p.sent
              /\ r.corked = p.corked /\ r.lost = p.lost /\ r.eaten = p.eaten
            BY <3>3 DEF Stream
        <3>7. Succeeds(r, track[t])
            BY <3>4, <3>5, <3>6, <1>3, <1>4 DEF Succeeds
        <3>8. track' = [track EXCEPT ![t].received = @ + 1, ![t].kept = @ + 1,
                                     ![t].active = track[t].kept + 1 < HighWater]
            BY <2>1, <1>3 DEF OnMessage
        <3>9. track' = [track EXCEPT ![t] = r]
            <4>1. (track[t].kept + 1 < HighWater) = b
                BY <3>1, <1>3
            <4>2. track' = [track EXCEPT ![t].received = @ + 1, ![t].kept = @ + 1, ![t].active = b]
                BY <3>8, <4>1
            <4>3. QED BY <4>2, <3>2, <3>3, <1>2, <1>3 DEF Whole
        <3>10. QED BY <3>6, <3>7, <3>9, <1>3
    <2>2. CASE ~p.active
        <3>1. PICK l, m : l = p.lost + 1 /\ m = p.received + 1
            OBVIOUS
        <3>2. PICK r : r = [p EXCEPT !.received = m, !.lost = l]
            OBVIOUS
        <3>3. l \in Nat /\ m \in Nat /\ m = l + p.kept + p.eaten + p.passed
            BY <3>1, <1>4, <1>5
        <3>4. r \in Stream
            BY <3>2, <3>3 DEF Stream
        <3>5. /\ r.received = m /\ r.lost = l
              /\ r.life = p.life /\ r.sink = p.sink /\ r.mode = p.mode /\ r.passed = p.passed /\ r.sent = p.sent
              /\ r.corked = p.corked /\ r.kept = p.kept /\ r.eaten = p.eaten /\ r.active = p.active
            BY <3>2 DEF Stream
        <3>6. Succeeds(r, track[t])
            BY <3>3, <3>4, <3>5, <1>3, <1>4 DEF Succeeds
        <3>7. track' = [track EXCEPT ![t].received = @ + 1, ![t].lost = @ + 1]
            BY <2>2, <1>3 DEF OnMessage
        <3>8. track' = [track EXCEPT ![t] = r]
            BY <3>7, <3>1, <3>2, <1>2, <1>3 DEF Whole
        <3>9. QED BY <3>5, <3>6, <3>8, <1>3
    <2>3. QED BY <2>1, <2>2
<1>7. PICK U : U = [track EXCEPT ![t] = r]
    OBVIOUS
<1>8. Whole(U) /\ Balanced(U, NoSink, 0) /\ Keeps(track, U) /\ (Unpiped(track) => Unpiped(U))
    BY <1>2, <1>6, <1>7, QuietChange
<1>9. Unpiping(place, todo) => Unpiped(U)
    BY <1>2, <1>8 DEF Fits
<1>10. Fits(U, place, todo)
    BY <1>2, <1>8, <1>9, KeptFits
<1>11. Fits(track, place, todo)' /\ TodoFits'
    BY <1>1, <1>2, <1>6, <1>7, <1>10 DEF TodoFits
<1>12. Typed'
    BY <1>1, <1>2 DEF Typed
<1>13. QueuesFit'
    <2>1. \A u \in Tracks : U[u].life = track[u].life
        <3>1. OneChanged(track, U, t, r)
            BY <1>2, <1>6, <1>7, OneChanges
        <3>2. QED BY <3>1 DEF OneChanged
    <2>2. QED BY <1>1, <1>2, <1>6, <1>7, <2>1 DEF QueuesFit
<1>14. QED BY <1>11, <1>12, <1>13 DEF IInv

\* A callback that keeps the streams, at a handler that stays where it is, keeps the invariant.
LEMMA BecomesKeeps ==
    ASSUME IInv, NEW U, Whole(U), Balanced(U, NoSink, 0), Keeps(track, U), Unpiping(place, todo) => Unpiped(U),
           Becomes(U, inbox, calls), UNCHANGED <<watched, closed, place, todo>>
    PROVE  IInv'
<1>1. Typed /\ TodoFits /\ QueuesFit /\ Fits(track, place, todo)
    BY DEF IInv
<1>2. /\ inbox \in [Tracks -> Nat] /\ calls \in [Tracks -> SUBSET {"open", "closed", "error"}]
      /\ place' \in {"start", "run", "wait-track", "waiting", "echoing", "proxying", "throw", "over"}
      /\ \A u \in Tracks : calls[u] \subseteq calls[u]
    BY <1>1 DEF Typed
<1>3. track' = U /\ Typed' /\ QueuesFit'
    BY <1>1, <1>2, BecomesFits
<1>4. Fits(U, place, todo)
    BY <1>1, KeptFits
<1>5. Fits(track, place, todo)' /\ TodoFits'
    BY <1>1, <1>3, <1>4 DEF TodoFits
<1>6. QED BY <1>3, <1>5 DEF IInv

\* onClosed and onError.
LEMMA OnClosedFits ==
    ASSUME IInv, NEW t \in Tracks, OnClosed(t)
    PROVE  IInv'
<1>1. Whole(track) /\ Balanced(track, NoSink, 0) /\ Fits(track, place, todo)
    BY DEF IInv, Fits
<1>2. Balanced(track, t, 0)
    BY <1>1, NothingOwed
<1>3. UNCHANGED <<watched, closed, place, todo>>
    BY DEF OnClosed
<1>4. CASE Becomes(Closed(track, t), inbox, calls)
    <2>1. PICK U : U = Closed(track, t)
        OBVIOUS
    <2>2. Whole(U) /\ Balanced(U, NoSink, 0) /\ Keeps(track, U) /\ (Unpiped(track) => Unpiped(U))
        BY <1>1, <1>2, <2>1, ClosedFits
    <2>3. Unpiping(place, todo) => Unpiped(U)
        BY <1>1, <2>2 DEF Fits
    <2>4. Becomes(U, inbox, calls)
        BY <1>4, <2>1
    <2>5. QED BY <1>3, <2>2, <2>3, <2>4, BecomesKeeps
<1>5. CASE Becomes(Destroyed(track, {t}), inbox, calls)
    <2>1. PICK U : U = Destroyed(track, {t})
        OBVIOUS
    <2>2. {t} \in SUBSET Tracks
        OBVIOUS
    <2>3. Whole(U) /\ Balanced(U, NoSink, 0) /\ Keeps(track, U) /\ (Unpiped(track) => Unpiped(U))
        BY <1>1, <1>2, <2>1, <2>2, DestroyedFits
    <2>4. Unpiping(place, todo) => Unpiped(U)
        BY <1>1, <2>3 DEF Fits
    <2>5. Becomes(U, inbox, calls)
        BY <1>5, <2>1
    <2>6. QED BY <1>3, <2>3, <2>4, <2>5, BecomesKeeps
<1>6. QED BY <1>4, <1>5 DEF OnClosed

\* Announcing the totals changes nothing else.
LEMMA StatsFit ==
    ASSUME IInv, NEW t \in Tracks, AnnounceStats(t)
    PROVE  IInv'
<1>1. /\ t \in Live /\ track' = [track EXCEPT ![t].told = Totals(t)]
      /\ UNCHANGED <<raw, inbox, calls, watched, closed, place, todo>>
    BY DEF AnnounceStats, nativeVars
<1>2. Whole(track) /\ Balanced(track, NoSink, 0) /\ Typed /\ TodoFits /\ QueuesFit /\ Fits(track, place, todo)
    BY DEF IInv, Fits
<1>3. PICK p \in Stream : p = track[t]
    BY <1>2 DEF Whole
<1>4. PICK d \in Nat \X Nat : d = Totals(t)
    BY <1>3 DEF Totals, Stream
<1>5. PICK r : r = [p EXCEPT !.told = d]
    OBVIOUS
<1>6. r \in Stream
    BY <1>4, <1>5 DEF Stream
<1>7. /\ r.life = p.life /\ r.sink = p.sink /\ r.mode = p.mode /\ r.passed = p.passed /\ r.sent = p.sent
      /\ r.corked = p.corked /\ r.kept = p.kept /\ r.eaten = p.eaten /\ r.active = p.active
      /\ r.lost = p.lost /\ r.received = p.received
    BY <1>5 DEF Stream
<1>8. /\ p.life = "live" /\ p.received = p.lost + p.kept + p.eaten + p.passed
      /\ p.active <=> p.kept < HighWater
    BY <1>1, <1>2, <1>3 DEF Live, Whole, Counted
<1>9. Succeeds(r, track[t])
    BY <1>3, <1>6, <1>7, <1>8 DEF Succeeds
<1>10. r.passed = track[t].passed /\ r.sent = track[t].sent /\ r.corked = track[t].corked
    BY <1>3, <1>7
<1>11. PICK U : U = [track EXCEPT ![t] = r]
    OBVIOUS
<1>12. track' = U
    BY <1>1, <1>3, <1>4, <1>5, <1>11
<1>13. Whole(U) /\ Balanced(U, NoSink, 0) /\ Keeps(track, U) /\ (Unpiped(track) => Unpiped(U))
    BY <1>2, <1>9, <1>10, <1>11, QuietChange
<1>14. Unpiping(place, todo) => Unpiped(U)
    BY <1>2, <1>13 DEF Fits
<1>15. Fits(U, place, todo)
    BY <1>2, <1>13, <1>14, KeptFits
<1>16. Fits(track, place, todo)' /\ TodoFits' /\ Typed'
    BY <1>1, <1>2, <1>12, <1>15 DEF TodoFits, Typed
<1>17. QueuesFit'
    <2>1. \A u \in Tracks : U[u].life = track[u].life
        <3>1. OneChanged(track, U, t, r)
            BY <1>2, <1>9, <1>11, OneChanges
        <3>2. QED BY <3>1 DEF OneChanged
    <2>2. QED BY <1>1, <1>2, <1>12, <2>1 DEF QueuesFit
<1>18. QED BY <1>16, <1>17 DEF IInv

-----------------------------------------------------------------------------
(* A packet leaves the read buffer.                                        *)

\* The stream p when e packets were eaten and q passed on.
Left(p, e, q) == [p EXCEPT !.kept = @ - 1, !.active = TRUE, !.eaten = @ + e, !.passed = @ + q]

\* The stream that it leaves: the packet is eaten or passed on.
LEMMA LeftStream ==
    ASSUME Whole(track), NEW t \in Tracks, MustFlow(t), NEW e, NEW q, (e = 1 /\ q = 0) \/ (e = 0 /\ q = 1),
           NEW r, r = Left(track[t], e, q)
    PROVE  /\ Succeeds(r, track[t]) /\ r.corked = track[t].corked
           /\ r.sent = track[t].sent /\ r.passed = track[t].passed + q
<1>1. PICK p \in Stream : p = track[t]
    BY DEF Whole
<1>2. /\ p.life = "live" /\ p.kept > 0 /\ p.received = p.lost + p.kept + p.eaten + p.passed
    BY <1>1 DEF MustFlow, Flows, Whole, Counted
<1>3. /\ p.received \in Nat /\ p.lost \in Nat /\ p.kept \in 0 .. HighWater /\ p.kept \in Nat
      /\ p.eaten \in Nat /\ p.passed \in Nat /\ HighWater \in Nat
    BY TracksAssumption DEF Stream
<1>4. PICK k, a, b : k = p.kept - 1 /\ a = p.eaten + e /\ b = p.passed + q
    OBVIOUS
<1>5. r = [p EXCEPT !.kept = k, !.active = TRUE, !.eaten = a, !.passed = b]
    BY <1>1, <1>4 DEF Left
<1>6. k \in 0 .. HighWater /\ k < HighWater /\ a \in Nat /\ b \in Nat
    BY <1>2, <1>3, <1>4
<1>7. p.received = p.lost + k + a + b
    BY <1>2, <1>3, <1>4
<1>8. r \in Stream
    BY <1>5, <1>6, ZenonT(40) DEF Stream
<1>9. /\ r.kept = k /\ r.active = TRUE /\ r.eaten = a /\ r.passed = b
      /\ r.life = p.life /\ r.sink = p.sink /\ r.mode = p.mode /\ r.sent = p.sent
      /\ r.corked = p.corked /\ r.lost = p.lost /\ r.received = p.received
    BY <1>5 DEF Stream
<1>10. QED BY <1>1, <1>2, <1>4, <1>6, <1>7, <1>8, <1>9 DEF Succeeds

\* The step that waits for media eats it, pauses the mock's tracks and ends.
LEMMA EatenFits ==
    ASSUME IInv, NEW t \in Tracks, Flow(t), place = "waiting"
    PROVE  IInv'
<1>1. Whole(track) /\ Balanced(track, NoSink, 0) /\ Typed /\ TodoFits /\ QueuesFit /\ Fits(track, place, todo)
    BY DEF IInv, Fits
<1>2. PICK p \in Stream : p = track[t]
    BY <1>1 DEF Whole
<1>3. PICK r : r = Left(track[t], 1, 0)
    OBVIOUS
<1>4. MustFlow(t) /\ UNCHANGED <<watched, closed>> /\ StepDone
    BY DEF Flow
<1>5. (1 = 1 /\ 0 = 0) \/ (1 = 0 /\ 0 = 1)
    OBVIOUS
<1>6. /\ Succeeds(r, track[t]) /\ r.corked = track[t].corked
      /\ r.sent = track[t].sent /\ r.passed = track[t].passed + 0
    BY <1>1, <1>3, <1>4, <1>5, LeftStream
<1>7. r.passed = track[t].passed
    BY <1>2, <1>6 DEF Stream
<1>8. PICK T : T = [track EXCEPT ![t] = r]
    OBVIOUS
<1>9. T = [[track EXCEPT ![t].kept = @ - 1, ![t].active = TRUE] EXCEPT ![t].eaten = @ + 1]
    <2>1. r = [p EXCEPT !.kept = p.kept - 1, !.active = TRUE, !.eaten = p.eaten + 1]
        <3>1. p.passed + 0 = p.passed
            BY DEF Stream
        <3>2. r = [p EXCEPT !.kept = p.kept - 1, !.active = TRUE, !.eaten = p.eaten + 1, !.passed = p.passed]
            BY <1>2, <1>3, <3>1 DEF Left
        <3>3. QED BY <3>2 DEF Stream
    <2>2. QED BY <1>1, <1>2, <1>8, <2>1 DEF Whole
<1>10. Whole(T) /\ Balanced(T, NoSink, 0) /\ Keeps(track, T) /\ (Unpiped(track) => Unpiped(T))
    BY <1>1, <1>6, <1>7, <1>8, QuietChange
<1>11. \A u \in Tracks : T[u].life = track[u].life
    <2>1. OneChanged(track, T, t, r)
        BY <1>1, <1>6, <1>8, OneChanges
    <2>2. QED BY <2>1 DEF OneChanged
<1>12. PICK A : A = Mock \cap Live
    OBVIOUS
<1>13. A \in SUBSET Tracks /\ \A u \in A : T[u].life = "live"
    BY <1>11, <1>12 DEF Live
<1>14. PICK U : U = Turned(T, A, "paused")
    OBVIOUS
<1>15. /\ Whole(U) /\ SameButModes(T, U) /\ (\A u \in A : U[u].mode = "paused")
       /\ \A u \in Tracks : u \notin A => U[u] = T[u]
    BY <1>10, <1>13, <1>14, ModesChange
<1>16. Balanced(U, NoSink, 0) /\ (Unpiped(T) => Unpiped(U)) /\ (Selfish(T) => Selfish(U))
    BY <1>10, <1>15, ModesKeep
<1>17. Becomes(U, inbox, calls)
    <2>1. U = PausedAll(T)
        BY <1>12, <1>14 DEF PausedAll, Turned
    <2>2. Becomes(PausedAll([[track EXCEPT ![t].kept = @ - 1, ![t].active = TRUE] EXCEPT ![t].eaten = @ + 1]), inbox, calls)
        BY DEF Flow
    <2>3. QED BY <2>1, <2>2, <1>9
\* What still flows is piped.
<1>18. Sunk(U)
    <2> SUFFICES ASSUME NEW u \in Tracks, U[u].mode = "flowing" PROVE U[u].sink # NoSink
        BY DEF Sunk
    <2>1. u \notin A /\ U[u] = T[u]
        BY <1>15
    <2>2. T[u].life = "live"
        <3>1. T[u].life # "gone" /\ T[u].life # "none"
            BY <1>10, <2>1 DEF Whole, LivesFit, Unwrapped
        <3>2. QED BY <3>1, <1>10, StreamFields DEF Whole
    <2>3. u \notin Mock
        BY <2>1, <2>2, <1>11, <1>12 DEF Live
    <2>4. Waits(T)
        BY <1>1, <1>10 DEF Fits, Keeps
    <2>5. QED BY <2>1, <2>3, <2>4 DEF Waits
<1>19. Keeps(track, U)
    <2>1. \A u \in Tracks : U[u].life = T[u].life /\ (U[u].mode = "flowing" => U[u].sink # NoSink)
        BY <1>15, <1>18 DEF SameButModes, Sunk
    <2>2. Keeps(T, U)
        BY <2>1, <1>16 DEF Keeps, Waits, Sunk
    <2>3. QED BY <2>2, <1>10, KeepsOn
<1>20. todo # <<>>
    BY <1>1 DEF TodoFits
<1>21. TodoFits' /\ place' = "run"
    BY <1>1, <1>4, <1>20, DoneFits
<1>22. track' = U /\ Typed' /\ QueuesFit'
    <2>1. /\ inbox \in [Tracks -> Nat] /\ calls \in [Tracks -> SUBSET {"open", "closed", "error"}]
          /\ place' \in {"start", "run", "wait-track", "waiting", "echoing", "proxying", "throw", "over"}
          /\ \A u \in Tracks : calls[u] \subseteq calls[u]
        BY <1>1, <1>21 DEF Typed
    <2>2. QED BY <2>1, <1>1, <1>4, <1>15, <1>17, <1>19, BecomesFits
<1>23. Unpiped(U)
    BY <1>1, <1>10, <1>16, <1>20 DEF Fits, Unpiping
<1>24. Fits(U, "run", todo')
    BY <1>15, <1>16, <1>18, <1>23 DEF Fits
<1>25. Fits(track, place, todo)'
    BY <1>21, <1>22, <1>24
<1>26. QED BY <1>21, <1>22, <1>25 DEF IInv

\* A stream that gets one more packet to write when it opens.
LEMMA CorkedStream ==
    ASSUME NEW T, Whole(T), NEW s \in Tracks, T[s].life = "live", T[s].corked < HighWater,
           NEW r, r = [T[s] EXCEPT !.corked = @ + 1]
    PROVE  Succeeds(r, T[s]) /\ r.corked = T[s].corked + 1 /\ r.sent = T[s].sent /\ r.passed = T[s].passed
<1>1. PICK p \in Stream : p = T[s]
    BY DEF Whole
<1>2. PICK c : c = p.corked + 1
    OBVIOUS
<1>3. c \in 0 .. HighWater
    BY <1>1, <1>2, TracksAssumption, SMTT(30) DEF Stream
<1>4. r = [p EXCEPT !.corked = c]
    BY <1>1, <1>2
<1>5. r \in Stream /\ r.corked = c
    BY <1>3, <1>4 DEF Stream
<1>6. /\ r.life = p.life /\ r.sink = p.sink /\ r.mode = p.mode /\ r.passed = p.passed /\ r.sent = p.sent
      /\ r.received = p.received /\ r.lost = p.lost /\ r.kept = p.kept /\ r.eaten = p.eaten /\ r.active = p.active
    BY <1>4 DEF Stream
<1>7. p.life = "live" /\ p.received = p.lost + p.kept + p.eaten + p.passed /\ (p.active <=> p.kept < HighWater)
    BY <1>1 DEF Whole, Counted
<1>8. QED BY <1>1, <1>2, <1>5, <1>6, <1>7 DEF Succeeds

\* A packet left t, which the sink s owes.
Passed(T, t, s, r) == T = [track EXCEPT ![t] = r] /\ s = track[t].sink

Owing(T, s) ==
    /\ Whole(T) /\ Balanced(T, s, 1) /\ Keeps(track, T)
    /\ \A u \in Tracks : T[u].corked = track[u].corked /\ T[u].life = track[u].life

\* When a packet is passed on, the sink owes it.
LEMMA PassedOwes ==
    ASSUME Whole(track), Balanced(track, NoSink, 0), NEW t \in Tracks, NEW s \in Tracks,
           NEW r, Succeeds(r, track[t]), r.corked = track[t].corked, r.sent = track[t].sent,
           r.passed = track[t].passed + 1, NEW T, Passed(T, t, s, r)
    PROVE  Owing(T, s)
<1>0. T = [track EXCEPT ![t] = r] /\ s = track[t].sink
    BY DEF Passed
<1>1. OneChanged(track, T, t, r)
    BY <1>0, OneChanges
<1>2. /\ Whole(T) /\ Keeps(track, T) /\ T[t] = r /\ (\A u \in Tracks : u # t => T[u] = track[u])
      /\ (\A u \in Tracks : T[u].sink = track[u].sink /\ T[u].life = track[u].life)
    BY <1>1 DEF OneChanged
<1>3. \A u \in Tracks : T[u].sent = track[u].sent /\ T[u].corked = track[u].corked
    BY <1>2
<1>4. track \in [Tracks -> Stream] /\ SinksFit(track)
    BY DEF Whole
<1>5. Balanced(T, s, 1)
    <2> SUFFICES ASSUME NEW u \in Tracks, T[u].sink # NoSink, NEW q, q = T[u].sink
                 PROVE  T[u].passed = T[q].sent + T[q].corked + (IF q = s THEN 1 ELSE 0)
        BY DEF Balanced
    <2>1. q \in Tracks /\ q = track[u].sink /\ q # NoSink
        BY <1>2, <1>4, StreamFields
    <2>2. track[u].passed = track[q].sent + track[q].corked + 0
        BY <2>1 DEF Balanced
    <2>3. track[q].sent \in Nat /\ track[q].corked \in Nat
        BY <2>1, <1>4, StreamFields
    <2>4. T[q].sent = track[q].sent /\ T[q].corked = track[q].corked
        BY <2>1, <1>3
    <2>5. CASE q = s
        <3>1. u = t
            BY <2>1, <2>5, <1>0, <1>4 DEF SinksFit
        <3>2. T[u].passed = track[u].passed + 1
            BY <3>1, <1>2
        <3>3. T[u].passed = track[q].sent + track[q].corked + 1
            BY <2>2, <2>3, <3>2
        <3>4. T[u].passed = T[q].sent + T[q].corked + 1
            BY <2>4, <3>3
        <3>5. QED BY <2>5, <3>4
    <2>6. CASE q # s
        <3>1. u # t
            BY <2>1, <2>6, <1>0
        <3>2. T[u].passed = track[u].passed
            BY <3>1, <1>2
        <3>3. QED BY <2>2, <2>4, <2>6, <3>2
    <2>7. QED BY <2>5, <2>6
<1>6. QED BY <1>2, <1>3, <1>5 DEF Owing

\* A pipe passes a packet on, which waits in the sink or is written.
LEMMA PassedFits ==
    ASSUME IInv, NEW t \in Tracks, Flow(t), place # "waiting"
    PROVE  IInv'
<1>1. Whole(track) /\ Balanced(track, NoSink, 0) /\ Typed /\ Fits(track, place, todo)
    BY DEF IInv, Fits
<1>2. PICK p \in Stream : p = track[t]
    BY <1>1 DEF Whole
<1>3. PICK s : s = track[t].sink
    OBVIOUS
<1>4. MustFlow(t) /\ UNCHANGED <<watched, closed, place, todo>>
    BY DEF Flow
<1>5. s # NoSink
    BY <1>1, <1>3, <1>4 DEF Fits, Sunk, MustFlow, Flows
<1>6. s \in Tracks /\ track[s].life = "live"
    <2>1. track[t].sink \in Tracks
        BY <1>1, <1>3, <1>5, StreamFields DEF Whole
    <2>2. QED BY <2>1, <1>1, <1>3, <1>5 DEF Whole, SinksFit
<1>7. PICK r : r = Left(track[t], 0, 1)
    OBVIOUS
<1>8. (0 = 1 /\ 1 = 0) \/ (0 = 0 /\ 1 = 1)
    OBVIOUS
<1>9. /\ Succeeds(r, track[t]) /\ r.corked = track[t].corked
      /\ r.sent = track[t].sent /\ r.passed = track[t].passed + 1
    BY <1>1, <1>4, <1>7, <1>8, LeftStream
<1>10. PICK T : T = [track EXCEPT ![t] = r]
    OBVIOUS
<1>11. /\ Whole(T) /\ Balanced(T, s, 1) /\ Keeps(track, T)
       /\ \A u \in Tracks : T[u].corked = track[u].corked /\ T[u].life = track[u].life
    <2>1. Passed(T, t, s, r)
        BY <1>3, <1>10 DEF Passed
    <2>2. Owing(T, s)
        BY <1>1, <1>6, <1>9, <2>1, PassedOwes
    <2>3. QED BY <2>2 DEF Owing
<1>12. r = [p EXCEPT !.kept = p.kept - 1, !.active = TRUE, !.passed = p.passed + 1]
    <2>1. p.eaten + 0 = p.eaten
        BY DEF Stream
    <2>2. r = [p EXCEPT !.kept = p.kept - 1, !.active = TRUE, !.eaten = p.eaten, !.passed = p.passed + 1]
        BY <1>2, <1>7, <2>1 DEF Left
    <2>3. QED BY <2>2 DEF Stream
<1>13. PICK T0 : T0 = [track EXCEPT ![t].kept = @ - 1, ![t].active = TRUE]
    OBVIOUS
<1>14. T = [T0 EXCEPT ![t].passed = @ + 1]
    BY <1>1, <1>2, <1>10, <1>12, <1>13 DEF Whole
<1>15. T0[s].opening = track[s].opening
    <2>1. CASE s = t
        <3>1. T0[t] = [p EXCEPT !.kept = p.kept - 1, !.active = TRUE]
            BY <1>1, <1>2, <1>13 DEF Whole
        <3>2. T0[t].opening = p.opening
            BY <3>1 DEF Stream
        <3>3. QED BY <2>1, <3>2, <1>2
    <2>2. CASE s # t
        BY <2>2, <1>1, <1>6, <1>13 DEF Whole
    <2>3. QED BY <2>1, <2>2
<1>16. ~Unpiping(place, todo)
    BY <1>1, <1>3, <1>5 DEF Fits, Unpiped
<1>17. ASSUME NEW U, Whole(U), Balanced(U, NoSink, 0), Keeps(T, U), Becomes(U, inbox, calls)
       PROVE  IInv'
    <2>1. Keeps(track, U)
        BY <1>11, <1>17, KeepsOn
    <2>2. Unpiping(place, todo) => Unpiped(U)
        BY <1>16
    <2>3. QED BY <1>4, <1>17, <2>1, <2>2, BecomesKeeps
<1>18. IF T0[s].opening = "corked"
       THEN Becomes([T0 EXCEPT ![t].passed = @ + 1, ![s].corked = @ + 1], inbox, calls)
       ELSE \E U \in Written([T0 EXCEPT ![t].passed = @ + 1], s, 1) : Becomes(U, inbox, calls)
    BY <1>3, <1>5, <1>13 DEF Flow
<1>19. CASE T0[s].opening = "corked"
    <2>1. PICK r2 : r2 = [T[s] EXCEPT !.corked = @ + 1]
        OBVIOUS
    <2>2. PICK U : U = [T EXCEPT ![s] = r2]
        OBVIOUS
    <2>3. T[s].life = "live" /\ T[s].corked < HighWater
        BY <1>3, <1>4, <1>5, <1>6, <1>11, <1>15, <1>19 DEF MustFlow, Flows
    <2>4. Succeeds(r2, T[s]) /\ r2.corked = T[s].corked + 1 /\ r2.sent = T[s].sent /\ r2.passed = T[s].passed
        BY <1>6, <1>11, <2>1, <2>3, CorkedStream
    <2>5. OneChanged(T, U, s, r2)
        BY <1>6, <1>11, <2>2, <2>4, OneChanges
    <2>6. /\ Whole(U) /\ Keeps(T, U) /\ U[s] = r2 /\ (\A u \in Tracks : u # s => U[u] = T[u])
          /\ \A u \in Tracks : U[u].sink = T[u].sink
        BY <2>5 DEF OneChanged
    <2>7. T \in [Tracks -> Stream] /\ U \in [Tracks -> Stream]
        BY <1>11, <2>6 DEF Whole
    <2>8. \A u \in Tracks : U[u].sink = T[u].sink /\ U[u].passed = T[u].passed
        BY <2>4, <2>6
    <2>9. \A u \in Tracks : u # s => U[u].sent = T[u].sent /\ U[u].corked = T[u].corked
        BY <2>6
    <2>10. U[s].sent + U[s].corked = T[s].sent + T[s].corked + 1
        <3>1. T[s].sent \in Nat /\ T[s].corked \in Nat
            BY <1>6, <2>7, StreamFields
        <3>2. QED BY <2>4, <2>6, <3>1
    <2>11. 1 \in Nat
        OBVIOUS
    <2>12. Balanced(U, NoSink, 0)
        BY <1>6, <1>11, <2>7, <2>8, <2>9, <2>10, <2>11, BalanceMoves
    <2>13. [T0 EXCEPT ![t].passed = @ + 1, ![s].corked = @ + 1] = U
        <3>1. [T0 EXCEPT ![t].passed = @ + 1, ![s].corked = @ + 1]
                  = [[T0 EXCEPT ![t].passed = @ + 1] EXCEPT ![s].corked = @ + 1]
            OBVIOUS
        <3>2. U = [T EXCEPT ![s].corked = @ + 1]
            BY <2>1, <2>2, <2>7, <1>6
        <3>3. QED BY <3>1, <3>2, <1>14
    <2>14. Becomes(U, inbox, calls)
        BY <1>18, <1>19, <2>13
    <2>15. QED BY <1>17, <2>6, <2>12, <2>14
<1>20. CASE T0[s].opening # "corked"
    <2>1. PICK U \in Written(T, s, 1) : Becomes(U, inbox, calls)
        BY <1>14, <1>18, <1>20
    <2>2. T[s].life = "live" /\ 1 \in Nat
        BY <1>6, <1>11
    <2>3. Whole(U) /\ Balanced(U, NoSink, 0) /\ Keeps(T, U)
        BY <1>6, <1>11, <2>1, <2>2, WrittenFits
    <2>4. QED BY <1>17, <2>1, <2>3
<1>21. QED BY <1>19, <1>20

-----------------------------------------------------------------------------
(* The steps of the handler.                                               *)

\* A step that pipes is the last one.
LEMMA PipeIsLast ==
    ASSUME TodoFits, NEW type \in Pipes, AtStep(type)
    PROVE  Len(todo) = 1
<1>1. todo \in Seq(Steps) /\ todo # <<>> /\ Head(todo) = type
    BY DEF AtStep, TodoFits
<1>2. 1 \in 1 .. Len(todo) /\ todo[1] = type
    BY <1>1
<1>3. QED BY <1>2 DEF TodoFits

\* A step that does not end and only moves the handler on, or changes streams that still fit.
LEMMA StepStarts ==
    ASSUME IInv, NEW U, track' = U, \A t \in Tracks : U[t].life = track[t].life,
           UNCHANGED <<raw, nativeVars, watched, closed, todo>>,
           NEW pl \in {"wait-track", "waiting", "echoing", "proxying", "throw"}, place' = pl, Fits(U, pl, todo),
           todo # <<>>, pl \in {"echoing", "proxying"} => Len(todo) = 1
    PROVE  IInv'
<1>1. Typed'
    BY DEF IInv, Typed, nativeVars
<1>2. TodoFits'
    BY DEF IInv, TodoFits
<1>3. QueuesFit'
    BY DEF IInv, QueuesFit, nativeVars
<1>4. Fits(track, place, todo)'
    OBVIOUS
<1>5. QED BY <1>1, <1>2, <1>3, <1>4 DEF IInv

\* What holds at the start of a step: nothing is piped.
LEMMA AtStepFits ==
    ASSUME IInv, NEW type, AtStep(type)
    PROVE  /\ Whole(track) /\ Balanced(track, NoSink, 0) /\ Unpiped(track) /\ Sunk(track)
           /\ TodoFits /\ Typed /\ QueuesFit /\ todo # <<>> /\ place = "run"
BY DEF AtStep, IInv, Fits, Unpiping

\* The step that waits for a track.
LEMMA WaitTrackFits ==
    ASSUME IInv, StartWaitTrack
    PROVE  IInv'
<1>1. /\ AtStep("wait-track") /\ UNCHANGED <<track, raw, nativeVars, watched, closed>>
      /\ StepDone \/ (place' = "wait-track" /\ UNCHANGED todo)
    BY DEF StartWaitTrack
<1>2. /\ Whole(track) /\ Balanced(track, NoSink, 0) /\ Unpiped(track) /\ Sunk(track)
      /\ TodoFits /\ Typed /\ QueuesFit /\ todo # <<>> /\ place = "run"
    BY <1>1, AtStepFits
<1>3. CASE StepDone
    <2>1. TodoFits' /\ place' = "run"
        BY <1>2, <1>3, DoneFits
    <2>2. Fits(track, "run", todo')
        BY <1>2 DEF Fits
    <2>3. Fits(track, place, todo)'
        BY <1>1, <2>1, <2>2
    <2>4. Typed' /\ QueuesFit'
        BY <1>1, <1>2, <2>1 DEF Typed, QueuesFit, nativeVars
    <2>5. QED BY <2>1, <2>3, <2>4 DEF IInv
<1>4. CASE place' = "wait-track" /\ UNCHANGED todo
    <2>1. Fits(track, "wait-track", todo)
        BY <1>2 DEF Fits
    <2>2. track' = track /\ UNCHANGED <<raw, nativeVars, watched, closed, todo>>
        BY <1>1, <1>4
    <2>3. QED BY <1>2, <1>4, <2>1, <2>2, StepStarts
<1>5. QED BY <1>1, <1>3, <1>4

\* The step that waits for media starts the mock's tracks that nothing read.
LEMMA WaitMediaFits ==
    ASSUME IInv, StartWaitMedia
    PROVE  IInv'
<1>1. AtStep("wait-media") /\ place' = "waiting" /\ UNCHANGED <<raw, nativeVars, watched, closed, todo>>
    BY DEF StartWaitMedia
<1>2. /\ Whole(track) /\ Balanced(track, NoSink, 0) /\ Unpiped(track) /\ Sunk(track) /\ todo # <<>>
    BY <1>1, AtStepFits
<1>3. PICK A : A = {t \in Mock \cap Live : track[t].mode = "idle"}
    OBVIOUS
<1>4. PICK U : U = Turned(track, A, "flowing")
    OBVIOUS
<1>5. A \in SUBSET Tracks /\ A \subseteq Mock /\ \A t \in A : track[t].life = "live"
    BY <1>3 DEF Live
<1>6. track' = U
    BY <1>3, <1>4 DEF StartWaitMedia, Turned, Live
<1>7. /\ Whole(U) /\ SameButModes(track, U) /\ \A t \in Tracks : t \notin A => U[t] = track[t]
    BY <1>2, <1>4, <1>5, ModesChange
<1>8. Balanced(U, NoSink, 0) /\ Unpiped(U)
    BY <1>2, <1>7, ModesKeep
<1>9. Waits(U)
    <2> SUFFICES ASSUME NEW t \in Tracks, U[t].mode = "flowing" PROVE t \in Mock \/ U[t].sink # NoSink
        BY DEF Waits
    <2>1. CASE t \in A
        BY <2>1, <1>5
    <2>2. CASE t \notin A
        BY <2>2, <1>2, <1>7 DEF Sunk
    <2>3. QED BY <2>1, <2>2
<1>10. Fits(U, "waiting", todo)
    BY <1>7, <1>8, <1>9 DEF Fits
<1>11. \A t \in Tracks : U[t].life = track[t].life
    BY <1>7 DEF SameButModes
<1>12. QED BY <1>1, <1>2, <1>6, <1>10, <1>11, StepStarts

\* Piping keeps the lives.
LEMMA PipedLives ==
    ASSUME NEW T \in [Tracks -> Stream], NEW P \in SUBSET Tracks, NEW f
    PROVE  \A t \in Tracks : Piped(T, P, f)[t].life = T[t].life
<1> SUFFICES ASSUME NEW t \in Tracks PROVE Piped(T, P, f)[t].life = T[t].life
    OBVIOUS
<1>1. PICK p \in Stream : p = T[t]
    OBVIOUS
<1>2. CASE t \in P
    <2>1. Piped(T, P, f)[t] = [p EXCEPT !.mode = "flowing", !.sink = f[t]]
        BY <1>1, <1>2 DEF Piped
    <2>2. QED BY <1>1, <2>1 DEF Stream
<1>3. CASE t \notin P
    BY <1>3 DEF Piped
<1>4. QED BY <1>2, <1>3

\* The step that echoes pipes every track of the mock into itself.
LEMMA EchoFits ==
    ASSUME IInv, StartEcho
    PROVE  IInv'
<1>1. AtStep("echo") /\ place' = "echoing" /\ UNCHANGED <<raw, nativeVars, watched, closed, todo>>
    BY DEF StartEcho
<1>2. /\ Whole(track) /\ Unpiped(track) /\ Sunk(track) /\ todo # <<>> /\ TodoFits
    BY <1>1, AtStepFits
<1>3. Len(todo) = 1
    BY <1>1, <1>2, PipeIsLast DEF Pipes
<1>4. PICK P : P = Mock \cap Live
    OBVIOUS
<1>5. PICK f : f = [t \in P |-> t]
    OBVIOUS
<1>6. /\ P \in SUBSET Tracks /\ (\A t \in P : track[t].life = "live") /\ f \in [P -> P]
      /\ (\A t \in P : f[t] = t) /\ \A t, u \in P : f[t] = f[u] => t = u
    BY <1>4, <1>5 DEF Live
<1>7. PICK U : U = Piped(track, P, f)
    OBVIOUS
<1>8. /\ Whole(U) /\ Balanced(U, NoSink, 0) /\ Sunk(U) /\ Selfish(U)
    BY <1>2, <1>6, <1>7, PipedFits
<1>9. track' = U
    BY <1>4, <1>5, <1>7 DEF StartEcho, Piped
<1>10. Fits(U, "echoing", todo)
    BY <1>8 DEF Fits, Unpiping
<1>11. \A t \in Tracks : U[t].life = track[t].life
    BY <1>2, <1>6, <1>7, PipedLives DEF Whole
<1>12. QED BY <1>1, <1>2, <1>3, <1>9, <1>10, <1>11, StepStarts

\* The step that proxies pipes tracks into their twins and back.
LEMMA ProxyFits ==
    ASSUME IInv, StartProxy
    PROVE  IInv'
<1>1. AtStep("proxy") /\ UNCHANGED <<raw, nativeVars, watched, closed, todo>>
    BY DEF StartProxy
<1>2. /\ Whole(track) /\ Unpiped(track) /\ Sunk(track) /\ todo # <<>> /\ TodoFits
    BY <1>1, AtStepFits
<1>3. Len(todo) = 1
    BY <1>1, <1>2, PipeIsLast DEF Pipes
<1>4. PICK pairs : pairs = {t \in Mock \cap Live : Twin(t) \in Live}
    OBVIOUS
<1>5. PICK done \in SUBSET pairs :
          /\ track' = [t \in Tracks |-> IF t \in done \cup {Twin(u) : u \in done}
                          THEN [track[t] EXCEPT !.mode = "flowing", !.sink = Twin(t)] ELSE track[t]]
          /\ place' = IF done = Mock \cap Live THEN "proxying" ELSE "throw"
    BY <1>4 DEF StartProxy
<1>6. PICK P : P = done \cup {Twin(u) : u \in done}
    OBVIOUS
<1>7. PICK f : f = [t \in P |-> Twin(t)]
    OBVIOUS
<1>8. P \in SUBSET Tracks /\ \A t \in P : track[t].life = "live" /\ Twin(t) \in P
    <2>1. \A t \in done : t \in Tracks /\ track[t].life = "live" /\ track[Twin(t)].life = "live"
        BY <1>4, <1>5 DEF Live
    <2>2. \A t \in Tracks : Twin(t) \in Tracks /\ Twin(Twin(t)) = t
        BY TwinFacts
    <2>3. QED BY <1>6, <2>1, <2>2
<1>9. f \in [P -> P]
    BY <1>7, <1>8
<1>10. \A t, u \in P : f[t] = f[u] => t = u
    <2>1. \A t \in P : Twin(Twin(t)) = t
        BY <1>8, TwinFacts
    <2>2. \A t \in P : f[t] = Twin(t)
        BY <1>7
    <2>3. QED BY <2>1, <2>2
<1>11. PICK U : U = Piped(track, P, f)
    OBVIOUS
<1>12. /\ Whole(U) /\ Balanced(U, NoSink, 0) /\ Sunk(U)
    BY <1>2, <1>8, <1>9, <1>10, <1>11, PipedFits
<1>13. track' = U
    <2>1. \A t \in P : f[t] = Twin(t)
        BY <1>7
    <2>2. QED BY <1>5, <1>6, <1>11, <2>1 DEF Piped
<1>14. PICK pl \in {"proxying", "throw"} : place' = pl
    BY <1>5
<1>15. Fits(U, pl, todo)
    BY <1>12, <1>14 DEF Fits, Unpiping
<1>16. \A t \in Tracks : U[t].life = track[t].life
    BY <1>2, <1>8, <1>11, PipedLives DEF Whole
<1>17. QED BY <1>1, <1>2, <1>3, <1>13, <1>14, <1>15, <1>16, StepStarts

\* Closing a connection closes its native tracks.
LEMMA ClosingFits ==
    ASSUME IInv, NEW C \in SUBSET Tracks, CloseTracks(C), TodoFits',
           place' \in {"start", "run", "wait-track", "waiting", "echoing", "proxying", "throw", "over"},
           Fits(track, place', todo')
    PROVE  IInv'
<1>1. PICK some : some = {t \in C : raw[t] \in {"connecting", "open"}}
    OBVIOUS
<1>2. /\ raw' = [t \in Tracks |-> IF t \in some THEN "closed" ELSE raw[t]]
      /\ calls' = [t \in Tracks |-> IF t \in some THEN calls[t] \cup {"closed"} ELSE calls[t]]
      /\ closed' = TRUE /\ UNCHANGED <<track, inbox, watched>>
    BY <1>1 DEF CloseTracks
<1>3. Typed /\ QueuesFit
    BY DEF IInv
<1>4. Typed'
    BY <1>2, <1>3 DEF Typed
<1>5. ASSUME NEW t \in Tracks
      PROVE  ("open" \in calls'[t] => track[t].life # "none") /\ (raw'[t] = "none" => track[t].life = "none")
    BY <1>2, <1>3 DEF QueuesFit
<1>6. QueuesFit'
    BY <1>2, <1>5 DEF QueuesFit
<1>7. Fits(track, place, todo)'
    BY <1>2
<1>8. QED BY <1>4, <1>6, <1>7 DEF IInv

\* Streams that fit the place of the handler fit one where nothing is read nor piped.
LEMMA ClosingStreams ==
    ASSUME IInv, place # "waiting", NEW td
    PROVE  Fits(track, "over", td) /\ (td = <<>> => Fits(track, "run", td))
BY DEF IInv, Fits, Unpiping

\* The end of the handler.
LEMMA HandlerClosesFits ==
    ASSUME IInv, HandlerCloses
    PROVE  IInv'
<1>0. PICK C : C = IF place = "throw" THEN Tracks ELSE Mock
    OBVIOUS
<1>1. place \in {"throw", "run"} /\ place' = "over" /\ todo' = todo /\ CloseTracks(C)
    BY <1>0 DEF HandlerCloses
<1>2. TodoFits'
    BY <1>1 DEF IInv, TodoFits
<1>3. Fits(track, place', todo')
    BY <1>1, ClosingStreams
<1>4. C \in SUBSET Tracks
    BY <1>0 DEF Mock, Tracks
<1>5. QED BY <1>1, <1>2, <1>3, <1>4, ClosingFits

\* The end of the connection.
LEMMA ConnectionClosesFits ==
    ASSUME IInv, ConnectionCloses
    PROVE  IInv'
<1>1. PICK C : C = IF place = "proxying" THEN Tracks ELSE Mock
    OBVIOUS
<1>2. C \in SUBSET Tracks /\ CloseTracks(C)
    <2>1. Mock \in SUBSET Tracks
        BY DEF Mock, Tracks
    <2>2. QED BY <2>1, <1>1 DEF ConnectionCloses
<1>3. CASE place \in {"echoing", "proxying"}
    <2>1. StepDone /\ TodoFits /\ Len(todo) = 1 /\ todo \in Seq(Steps)
        BY <1>3 DEF ConnectionCloses, IInv, TodoFits
    <2>2. todo # <<>>
        BY <2>1
    <2>3. TodoFits' /\ place' = "run" /\ Len(todo') = 0
        BY <2>1, <2>2, DoneFits
    <2>4. todo' = <<>>
        BY <2>3 DEF TodoFits
    <2>5. Fits(track, place', todo')
        BY <1>3, <2>3, <2>4, ClosingStreams
    <2>6. QED BY <1>2, <2>3, <2>5, ClosingFits
<1>4. CASE place \notin {"echoing", "proxying"}
    <2>1. UNCHANGED <<place, todo>>
        BY <1>4 DEF ConnectionCloses
    <2>2. TodoFits' /\ Fits(track, place', todo')
        BY <2>1 DEF IInv, TodoFits
    <2>3. place' \in {"start", "run", "wait-track", "waiting", "echoing", "proxying", "throw", "over"}
        BY <2>1 DEF IInv, Typed
    <2>4. QED BY <1>2, <2>2, <2>3, ClosingFits
<1>5. QED BY <1>3, <1>4

-----------------------------------------------------------------------------
(* The theorems.                                                           *)

\* Every step keeps the inductive invariant.
LEMMA IInvStep == IInv /\ [Next]_vars => IInv'
<1> SUFFICES ASSUME IInv, [Next]_vars PROVE IInv'
    OBVIOUS
<1>1. ASSUME NEW t \in Tracks,
             \/ ClientAdds(t) \/ NativeOpens(t) \/ NativeCloses(t) \/ NativeError(t) \/ RemoteSends(t)
             \/ TrackArrives(t) \/ MirrorAdds(t) \/ OpenLater(t) \/ OnOpen(t) \/ OnMessage(t)
             \/ OnClosed(t) \/ AnnounceStats(t) \/ Flow(t)
      PROVE  IInv'
    <2>1. CASE ClientAdds(t) \/ NativeOpens(t) \/ NativeCloses(t) \/ NativeError(t) \/ RemoteSends(t)
        BY <2>1, RemoteFits
    <2>2. CASE TrackArrives(t)
        BY <2>2, ArrivesFits
    <2>3. CASE MirrorAdds(t)
        BY <2>3, MirrorAddsFits
    <2>4. CASE OpenLater(t)
        BY <2>4, OpenLaterFits
    <2>5. CASE OnOpen(t)
        BY <2>5, OnOpenFits
    <2>6. CASE OnMessage(t)
        BY <2>6, MessageFits
    <2>7. CASE OnClosed(t)
        BY <2>7, OnClosedFits
    <2>8. CASE AnnounceStats(t)
        BY <2>8, StatsFit
    <2>9. CASE Flow(t)
        BY <2>9, EatenFits, PassedFits
    <2>10. QED BY <1>1, <2>1, <2>2, <2>3, <2>4, <2>5, <2>6, <2>7, <2>8, <2>9
<1>2. CASE Connected
    BY <1>2, ConnectedFits
<1>3. CASE HandlerStep
    BY <1>3, WaitTrackFits, WaitMediaFits, EchoFits, ProxyFits, HandlerClosesFits DEF HandlerStep
<1>4. CASE ConnectionCloses
    BY <1>4, ConnectionClosesFits
<1>5. CASE UNCHANGED vars
    <2>1. UNCHANGED <<track, raw, inbox, calls, watched, closed, place, todo>>
        BY <1>5 DEF vars, nativeVars
    <2>2. QED BY <2>1 DEF IInv, Typed, TodoFits, QueuesFit
<1>6. QED BY <1>1, <1>2, <1>3, <1>4, <1>5 DEF Next

\* The streams account for their packets at every place of the handler, for any media,
\* buffer size and programs.
THEOREM IInvHolds == Spec => []IInv
<1>1. Init => IInv
    BY InitIInv
<1>2. IInv /\ [Next]_vars => IInv'
    BY IInvStep
<1>3. QED BY <1>1, <1>2, PTL DEF Spec

\* Every variable has its type, and neither buffer of a stream (its read buffer and what it
\* corks before it opens) holds more than its high-water mark.
THEOREM TypeCorrect == Spec => []TypeOK
<1>1. IInv => TypeOK
    <2> SUFFICES ASSUME IInv PROVE TypeOK
        OBVIOUS
    <2>1. track \in [Tracks -> Stream]
        BY DEF IInv, Fits, Whole
    <2>2. QED BY <2>1, StreamFields DEF IInv, Typed, TypeOK
<1>2. QED BY <1>1, IInvHolds, PTL

\* No packet of a live track is lost uncounted or doubled when a wait, an echo, a proxy and the
\* opening of a sink take over from each other (src/webrtc/mediatrack-stream.ts).
THEOREM PacketsAccount == Spec => []PacketsAccounted
<1>1. IInv => PacketsAccounted
    <2> SUFFICES ASSUME IInv, NEW t \in Tracks, track[t].life = "live"
                 PROVE  /\ track[t].received = track[t].lost + track[t].kept + track[t].eaten + track[t].passed
                        /\ track[t].sink # NoSink =>
                              track[t].passed = track[track[t].sink].sent + track[track[t].sink].corked
                        /\ track[t].active <=> track[t].kept < HighWater
        BY DEF PacketsAccounted, Live
    <2>1. track \in [Tracks -> Stream] /\ Counted(track) /\ Balanced(track, NoSink, 0)
        BY DEF IInv, Fits, Whole
    <2>2. ASSUME track[t].sink # NoSink, NEW q, q = track[t].sink
          PROVE  track[t].passed = track[q].sent + track[q].corked
        <3>1. q \in Tracks
            BY <2>1, <2>2, StreamFields
        <3>2. track[t].passed = track[q].sent + track[q].corked + 0
            BY <2>1, <2>2 DEF Balanced
        <3>3. track[q].sent \in Nat /\ track[q].corked \in Nat
            BY <2>1, <3>1, StreamFields
        <3>4. QED BY <3>2, <3>3
    <2>3. QED BY <2>1, <2>2 DEF Counted
<1>2. QED BY <1>1, IInvHolds, PTL

=============================================================================
