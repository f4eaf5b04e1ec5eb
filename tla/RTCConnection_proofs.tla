----------------------- MODULE RTCConnection_proofs -----------------------
(* Proofs about RTCConnection, for every set of connections.               *)
EXTENDS RTCConnection, TLAPS

(* What one close() closes.                                                *)

\* A connection on which close() is called is among those it is called on.
LEMMA CloseCallsContain ==
    ASSUME NEW S \in SUBSET Conns
    PROVE  S \subseteq CloseCalls(S) /\ CloseCalls(S) \subseteq Conns
BY DEF CloseCalls

\* More closures announced, more partners closed.
LEMMA PartnersMonotone ==
    ASSUME NEW S, NEW T, S \subseteq T
    PROVE  Partners(Emitters(S)) \subseteq Partners(Emitters(T))
BY DEF Partners, Emitters

\* The partners of a connection whose closure is announced are closed too: the cascade of
\* 'connection-closed' listeners ends with nothing left to close.
LEMMA CloseCallsClosed ==
    ASSUME NEW S \in SUBSET Conns
    PROVE  Partners(Emitters(CloseCalls(S))) \subseteq CloseCalls(S)
<1> SUFFICES ASSUME NEW c \in Partners(Emitters(CloseCalls(S))),
                    NEW T \in SUBSET Conns,
                    S \subseteq T, Partners(Emitters(T)) \subseteq T
             PROVE  c \in T
    BY DEF CloseCalls, Partners
<1>1. CloseCalls(S) \subseteq T
    BY DEF CloseCalls
<1>2. Partners(Emitters(CloseCalls(S))) \subseteq Partners(Emitters(T))
    BY <1>1, PartnersMonotone
<1>3. QED
    BY <1>2

-----------------------------------------------------------------------------
(* The type invariant.                                                     *)

LEMMA DropTypes ==
    ASSUME ConnTypeOK, NEW C, Drop(C)
    PROVE  raw' \in [Conns -> {"none", "open", "null"}] /\ native' \in [Conns -> NativeStates]
BY DEF ConnTypeOK, Drop, NativeStates

LEMMA ConnTypeInit == NoConns => ConnTypeOK
BY DEF NoConns, ConnTypeOK, NativeStates

LEMMA ConnTypeStep == ConnTypeOK /\ [ConnNext]_connVars => ConnTypeOK'
<1> SUFFICES ASSUME ConnTypeOK, [ConnNext]_connVars PROVE ConnTypeOK'
    OBVIOUS
<1> USE DEF ConnTypeOK
<1>1. ASSUME NEW c \in Conns, Construct(c) PROVE ConnTypeOK'
    BY <1>1 DEF Construct
<1>2. ASSUME NEW c \in Conns, SetRemoteDescription(c) \/ RefuseDescription(c) PROVE ConnTypeOK'
    BY <1>2 DEF SetRemoteDescription, RefuseDescription, NativeStates
<1>3. ASSUME NEW c \in Conns, StateCallback(c) PROVE ConnTypeOK'
    <2>1. pend' \in [Conns -> Seq(NativeStates)] /\ mirror' = mirror
        BY <1>3 DEF StateCallback, Drop
    <2>2. CASE raw[c] = "open" /\ Head(pend[c]) \in GoneStates
        BY <1>3, <2>1, <2>2, DropTypes DEF StateCallback
    <2>3. CASE ~(raw[c] = "open" /\ Head(pend[c]) \in GoneStates)
        BY <1>3, <2>1, <2>3 DEF StateCallback
    <2>4. QED BY <2>2, <2>3
<1>4. ASSUME NEW c \in Conns, NEW s \in NativeStates, NativeChange(c, s) PROVE ConnTypeOK'
    BY <1>4 DEF NativeChange
<1>5. ASSUME NEW S \in SUBSET Conns, Close(S) PROVE ConnTypeOK'
    BY <1>5, DropTypes DEF Close, Drop
<1>6. ASSUME NEW m \in Mocks, NEW x \in Conns \ Mocks, MirrorClosure(m, x) PROVE ConnTypeOK'
    BY <1>6 DEF MirrorClosure
<1>7. CASE UNCHANGED connVars
    BY <1>7 DEF connVars
<1>8. QED
    BY <1>1, <1>2, <1>3, <1>4, <1>5, <1>6, <1>7 DEF ConnNext

\* The variables of RTCConnection keep their types.
THEOREM ConnTypeCorrect == ConnSpec => []ConnTypeOK
BY ConnTypeInit, ConnTypeStep, PTL DEF ConnSpec

-----------------------------------------------------------------------------
(* ReleasedIsClosed and QueueCatchesUp.                                    *)

LEMMA ConnIInvInit == NoConns => ConnIInv
BY ConnTypeInit DEF NoConns, ConnIInv, ReleasedIsClosed, QueueCatchesUp, NothingEarly

\* Closing keeps the invariant: what is closed is closed natively and has nothing to catch up.
LEMMA ConnIInvDrop ==
    ASSUME ConnIInv, NEW C, Drop(C), NEW d \in Conns, pend' = pend \/
              (pend[d] # <<>> /\ pend' = [pend EXCEPT ![d] = Tail(@)])
    PROVE  /\ \A c \in Conns : raw'[c] = "null" => native'[c] = "closed"
           /\ QueueCatchesUp' /\ NothingEarly'
PROOF
<1> USE DEF ConnIInv, ConnTypeOK, Drop
<1>1. \A c \in Conns : raw'[c] = "null" => native'[c] = "closed"
    BY DEF ReleasedIsClosed
<1>2. ASSUME NEW c \in Conns
      PROVE  /\ raw'[c] = "open" => raw[c] = "open" /\ native'[c] = native[c]
             /\ raw'[c] = "none" => raw[c] = "none" /\ native'[c] = native[c]
             /\ native'[c] = "new" => native[c] = "new"
    OBVIOUS
<1>3. ASSUME NEW c \in Conns
      PROVE  /\ pend'[c] # <<>> => pend[c] # <<>> /\ pend'[c][Len(pend'[c])] = pend[c][Len(pend[c])]
             /\ pend[c] = <<>> => pend'[c] = <<>>
    <2>1. CASE pend'[c] = pend[c]
        BY <2>1
    <2>2. CASE pend'[c] # pend[c]
        <3>1. c = d /\ pend[c] # <<>> /\ pend'[c] = Tail(pend[c])
            BY <2>2
        <3>2. pend[c] \in Seq(NativeStates)
            OBVIOUS
        <3>3. QED
            BY <3>1, <3>2
    <2>3. QED BY <2>1, <2>2
<1>4. QED
    BY <1>1, <1>2, <1>3 DEF QueueCatchesUp, NothingEarly

LEMMA ConnIInvStep == ConnIInv /\ [ConnNext]_connVars => ConnIInv'
<1> SUFFICES ASSUME ConnIInv, [ConnNext]_connVars PROVE ConnIInv'
    OBVIOUS
<1> USE DEF ConnIInv
<1>0. ConnTypeOK'
    BY ConnTypeStep
<1>1. ASSUME NEW c \in Conns, Construct(c) PROVE ConnIInv'
    BY <1>0, <1>1 DEF Construct, ConnTypeOK, ReleasedIsClosed, QueueCatchesUp, NothingEarly
<1>2. ASSUME NEW c \in Conns, SetRemoteDescription(c) \/ RefuseDescription(c) PROVE ConnIInv'
    BY <1>0, <1>2 DEF SetRemoteDescription, RefuseDescription, ConnTypeOK, ReleasedIsClosed, QueueCatchesUp,
                      NothingEarly
<1>3. ASSUME NEW c \in Conns, StateCallback(c) PROVE ConnIInv'
    <2>1. CASE raw[c] = "open" /\ Head(pend[c]) \in GoneStates
        <3>1. Drop(GoneCalls(c)) /\ pend[c] # <<>> /\ pend' = [pend EXCEPT ![c] = Tail(@)]
            BY <1>3, <2>1 DEF StateCallback
        <3>2. /\ \A d \in Conns : raw'[d] = "null" => native'[d] = "closed"
              /\ QueueCatchesUp' /\ NothingEarly'
            BY <3>1, ConnIInvDrop
        <3>3. \A d \in Conns : raw'[d] = "null" => ~desc'[d]
            BY <1>3, <2>1 DEF StateCallback, Drop, ReleasedIsClosed, ConnTypeOK
        <3>4. QED BY <1>0, <3>2, <3>3 DEF ReleasedIsClosed
    <2>2. CASE ~(raw[c] = "open" /\ Head(pend[c]) \in GoneStates)
        <3>1. /\ raw' = raw /\ native' = native /\ desc' = desc /\ mirror' = mirror
              /\ pend[c] # <<>> /\ pend' = [pend EXCEPT ![c] = Tail(@)]
            BY <1>3, <2>2 DEF StateCallback
        <3>2. Drop({})
            BY <3>1 DEF Drop, ConnTypeOK
        <3>3. QueueCatchesUp' /\ NothingEarly'
            BY <3>1, <3>2, ConnIInvDrop
        <3>4. QED BY <1>0, <3>1, <3>3 DEF ReleasedIsClosed
    <2>3. QED BY <2>1, <2>2
<1>4. ASSUME NEW c \in Conns, NEW s \in NativeStates, NativeChange(c, s) PROVE ConnIInv'
    <2>1. s \notin {"new"} /\ native[c] \notin {"new", "closed"}
        BY <1>4 DEF NativeChange, NativeEdges
    <2>2. \A d \in Conns : d # c => pend'[d] = pend[d] /\ native'[d] = native[d]
        BY <1>4 DEF NativeChange, ConnTypeOK
    <2>3. pend'[c] = Append(pend[c], s) /\ native'[c] = s /\ pend[c] \in Seq(NativeStates)
        BY <1>4 DEF NativeChange, ConnTypeOK
    <2>4. pend'[c] # <<>> /\ pend'[c][Len(pend'[c])] = s
        BY <2>3
    <2>5. ReleasedIsClosed'
        BY <1>4, <2>1, <2>2 DEF NativeChange, ReleasedIsClosed
    <2>6. QueueCatchesUp'
        BY <1>4, <2>2, <2>3, <2>4 DEF NativeChange, QueueCatchesUp
    <2>7. NothingEarly'
        BY <1>4, <2>1, <2>2, <2>3 DEF NativeChange, NothingEarly
    <2>8. QED BY <1>0, <2>5, <2>6, <2>7
<1>5. ASSUME NEW S \in SUBSET Conns, Close(S) PROVE ConnIInv'
    <2>1. Drop(CloseCalls(S)) /\ pend' = pend
        BY <1>5 DEF Close
    <2>2. \A c \in Conns : raw'[c] = "null" => ~desc'[c]
        BY <1>5 DEF Close, Drop, ReleasedIsClosed, ConnTypeOK
    <2>3. CASE Conns = {}
        BY <1>0, <2>3 DEF ReleasedIsClosed, QueueCatchesUp, NothingEarly
    <2>4. CASE Conns # {}
        <3>1. PICK d : d \in Conns
            BY <2>4
        <3>2. /\ \A c \in Conns : raw'[c] = "null" => native'[c] = "closed"
              /\ QueueCatchesUp' /\ NothingEarly'
            BY <2>1, <3>1, ConnIInvDrop
        <3>3. QED BY <1>0, <2>2, <3>2 DEF ReleasedIsClosed
    <2>5. QED BY <2>3, <2>4
<1>6. ASSUME NEW m \in Mocks, NEW x \in Conns \ Mocks, MirrorClosure(m, x) PROVE ConnIInv'
    BY <1>0, <1>6 DEF MirrorClosure, ReleasedIsClosed, QueueCatchesUp, NothingEarly
<1>7. CASE UNCHANGED connVars
    BY <1>0, <1>7 DEF connVars, ReleasedIsClosed, QueueCatchesUp, NothingEarly
<1>8. QED
    BY <1>1, <1>2, <1>3, <1>4, <1>5, <1>6, <1>7 DEF ConnNext

LEMMA ConnIInvHolds == ConnSpec => []ConnIInv
BY ConnIInvInit, ConnIInvStep, PTL DEF ConnSpec

\* A connection whose reference is dropped is closed natively, and its descriptions are gone.
THEOREM ReleasedAreClosed == ConnSpec => []ReleasedIsClosed
BY ConnIInvHolds, PTL DEF ConnIInv

\* The queued callbacks of an open connection end with its native state.
THEOREM QueuesCatchUp == ConnSpec => []QueueCatchesUp
BY ConnIInvHolds, PTL DEF ConnIInv

-----------------------------------------------------------------------------
(* MirroredCloseTogether.                                                  *)

\* A connection that was constructed stays so, one that was closed stays closed, and a native
\* connection that is gone or failed does not come back.
LEMMA NoWayBack ==
    ASSUME ConnTypeOK, [ConnNext]_connVars, NEW c \in Conns
    PROVE  /\ raw[c] # "none" => raw'[c] # "none"
           /\ raw[c] = "null" => raw'[c] = "null"
           /\ native[c] \notin LiveStates => native'[c] \notin LiveStates
<1> USE DEF ConnTypeOK, LiveStates
<1> DEFINE Goal == /\ raw[c] # "none" => raw'[c] # "none"
                   /\ raw[c] = "null" => raw'[c] = "null"
                   /\ native[c] \notin LiveStates => native'[c] \notin LiveStates
<1>1. ASSUME raw' = raw, native' = native PROVE Goal
    BY <1>1
<1>2. ASSUME NEW C, Drop(C) PROVE Goal
    BY <1>2 DEF Drop
<1>3. ASSUME NEW d \in Conns, Construct(d) PROVE Goal
    BY <1>3 DEF Construct
<1>4. ASSUME NEW d \in Conns, SetRemoteDescription(d) \/ RefuseDescription(d) PROVE Goal
    BY <1>4 DEF SetRemoteDescription, RefuseDescription
<1>5. ASSUME NEW d \in Conns, StateCallback(d) PROVE Goal
    BY <1>1, <1>2, <1>5 DEF StateCallback
<1>6. ASSUME NEW d \in Conns, NEW s \in NativeStates, NativeChange(d, s) PROVE Goal
    BY <1>6 DEF NativeChange, NativeEdges
<1>7. ASSUME NEW S \in SUBSET Conns, Close(S) PROVE Goal
    BY <1>2, <1>7 DEF Close
<1>8. ASSUME NEW m \in Mocks, NEW x \in Conns \ Mocks, MirrorClosure(m, x) PROVE Goal
    BY <1>1, <1>8 DEF MirrorClosure
<1>9. CASE UNCHANGED connVars
    BY <1>1, <1>9 DEF connVars
<1>10. QED
    BY <1>3, <1>4, <1>5, <1>6, <1>7, <1>8, <1>9 DEF ConnNext

\* Taking a callback off a queue changes the queue, and is not adding one.
LEMMA TailDiffers ==
    ASSUME NEW S, NEW q \in Seq(S), NEW s \in S, q # <<>>
    PROVE  Tail(q) # q /\ Append(q, s) # Tail(q)
<1>1. Len(q) \in Nat
    OBVIOUS
<1>2. Len(Tail(q)) = Len(q) - 1
    OBVIOUS
<1>3. Len(Append(q, s)) = Len(q) + 1
    OBVIOUS
<1>0. \A n \in Nat : n - 1 # n /\ n + 1 # n - 1
    OBVIOUS
<1>4. Tail(q) # q
    <2>1. Len(Tail(q)) # Len(q)
        BY <1>0, <1>1, <1>2, Zenon
    <2>2. QED BY <2>1, Zenon
<1>5. Append(q, s) # Tail(q)
    <2>1. Len(Append(q, s)) # Len(Tail(q))
        BY <1>0, <1>1, <1>2, <1>3, Zenon
    <2>2. QED BY <2>1, Zenon
<1>6. QED BY <1>4, <1>5

\* Only connections that were constructed are mirrored.
MirroredExist == \A p \in mirror : raw[p[1]] # "none" /\ raw[p[2]] # "none"

LEMMA MirroredExistStep == ConnTypeOK /\ MirroredExist /\ [ConnNext]_connVars => MirroredExist'
<1> SUFFICES ASSUME ConnTypeOK, MirroredExist, [ConnNext]_connVars PROVE MirroredExist'
    OBVIOUS
<1>1. \A c \in Conns : raw[c] # "none" => raw'[c] # "none"
    BY NoWayBack
<1>2. CASE mirror' = mirror
    BY <1>1, <1>2, ConnsAssumption DEF MirroredExist, ConnTypeOK
<1>3. ASSUME NEW m \in Mocks, NEW x \in Conns \ Mocks, MirrorClosure(m, x) PROVE MirroredExist'
    BY <1>3 DEF MirrorClosure, MirroredExist
<1>4. QED
    BY <1>2, <1>3 DEF ConnNext, connVars, Construct, SetRemoteDescription, RefuseDescription, StateCallback, Drop,
                      NativeChange, Close

\* Dropping what one close() closes leaves the partner of every announced closure closed.
LEMMA DropReachesPartners ==
    ASSUME ConnTypeOK, NEW S \in SUBSET Conns, Drop(CloseCalls(S)),
           NEW c \in Conns, NEW d \in Partners({c}), raw[d] # "none",
           CloseEmits(c), raw'[c] = "null"
    PROVE  raw'[d] = "null"
<1>1. c \in CloseCalls(S)
    BY CloseCallsContain DEF Drop, ConnTypeOK, CloseEmits
<1>2. d \in Partners(Emitters(CloseCalls(S)))
    BY <1>1 DEF Partners, Emitters
<1>3. d \in CloseCalls(S) /\ d \in Conns
    BY <1>2, CloseCallsClosed DEF Partners
<1>4. QED BY <1>3 DEF Drop, ConnTypeOK

\* A step that announces the closure of c closes every partner of c.
LEMMA AnnouncedReachesPartner ==
    ASSUME ConnTypeOK, ConnNext, NEW c \in Conns, NEW d \in Partners({c}), raw[d] # "none",
           AnnouncesNow(c)
    PROVE  raw'[d] = "null"
<1>0. pend[c] \in Seq(NativeStates) /\ d \in Conns
    BY DEF ConnTypeOK, Partners
<1>1. pend[c] # <<>> => Tail(pend[c]) # pend[c]
    BY <1>0, TailDiffers DEF NativeStates
<1>2. ASSUME NEW S \in SUBSET Conns, Close(S) PROVE raw'[d] = "null"
    <2>1. CloseEmits(c) /\ raw'[c] = "null"
        BY <1>1, <1>2 DEF Close, AnnouncesNow
    <2>2. QED BY <1>2, <2>1, DropReachesPartners DEF Close
<1>3. ASSUME NEW e \in Conns, StateCallback(e) PROVE raw'[d] = "null"
    <2>1. CASE CloseEmits(c) /\ raw'[c] = "null"
        <3>1. Drop(CloseCalls(Partners({e})))
            BY <1>3, <2>1 DEF StateCallback, GoneCalls, CloseEmits
        <3>2. Partners({e}) \in SUBSET Conns
            BY DEF Partners
        <3>3. QED BY <2>1, <3>1, <3>2, DropReachesPartners
    <2>2. CASE raw[c] = "open" /\ pend[c] # <<>> /\ Head(pend[c]) \in GoneStates /\ pend'[c] = Tail(pend[c])
        <3>1. c = e
            BY <1>1, <1>3, <2>2 DEF StateCallback, ConnTypeOK
        <3>2. Drop(CloseCalls(Partners({c})))
            BY <1>3, <2>2, <3>1 DEF StateCallback, GoneCalls
        <3>3. d \in CloseCalls(Partners({c}))
            BY CloseCallsContain DEF Partners
        <3>4. QED BY <1>0, <3>2, <3>3 DEF Drop, ConnTypeOK
    <2>3. QED BY <2>1, <2>2 DEF AnnouncesNow
<1>4. ASSUME NEW e \in Conns, NEW s \in NativeStates, NativeChange(e, s) PROVE FALSE
    <2>1. pend'[c] = pend[c] \/ pend'[c] = Append(pend[c], s)
        BY <1>4 DEF NativeChange, ConnTypeOK
    <2>2. pend[c] # <<>> => pend'[c] # Tail(pend[c])
        BY <1>0, <1>1, <2>1, TailDiffers
    <2>3. QED BY <1>4, <2>2 DEF NativeChange, AnnouncesNow, CloseEmits
<1>5. ASSUME NEW e \in Conns, Construct(e) \/ SetRemoteDescription(e) \/ RefuseDescription(e) PROVE FALSE
    BY <1>1, <1>5 DEF Construct, SetRemoteDescription, RefuseDescription, AnnouncesNow, CloseEmits, ConnTypeOK
<1>6. ASSUME NEW m \in Mocks, NEW x \in Conns \ Mocks, MirrorClosure(m, x) PROVE FALSE
    BY <1>1, <1>6 DEF MirrorClosure, AnnouncesNow, CloseEmits
<1>7. QED BY <1>2, <1>3, <1>4, <1>5, <1>6 DEF ConnNext

LEMMA MirrorStep ==
    ASSUME ConnTypeOK, MirroredExist, ConnNext, NEW p \in mirror
    PROVE  /\ AnnouncesNow(p[1]) => raw'[p[2]] = "null"
           /\ AnnouncesNow(p[2]) => raw'[p[1]] = "null"
<1>1. /\ p[1] \in Conns /\ p[2] \in Conns
      /\ p[1] \in Partners({p[2]}) /\ p[2] \in Partners({p[1]})
      /\ raw[p[1]] # "none" /\ raw[p[2]] # "none"
    <2>1. p = <<p[1], p[2]>> /\ p[1] \in Conns /\ p[2] \in Conns
        BY ConnsAssumption DEF ConnTypeOK
    <2>2. <<p[1], p[2]>> \in mirror
        BY <2>1
    <2>3. QED BY <2>1, <2>2 DEF Partners, MirroredExist
<1>2. QED BY <1>1, AnnouncedReachesPartner

\* Mirrored connections close together: the step that announces the closure of either one
\* leaves the other closed.
THEOREM MirroredClose == ConnSpec => MirroredCloseTogether
<1>1. NoConns => ConnTypeOK /\ MirroredExist
    BY ConnTypeInit DEF NoConns, MirroredExist
<1>2. ConnTypeOK /\ MirroredExist /\ [ConnNext]_connVars
        => [\A p \in mirror :
              /\ AnnouncesNow(p[1]) => raw'[p[2]] = "null"
              /\ AnnouncesNow(p[2]) => raw'[p[1]] = "null"]_connVars
    BY MirrorStep
<1>3. QED
    BY <1>1, <1>2, ConnTypeStep, MirroredExistStep, PTL DEF ConnSpec, MirroredCloseTogether
=============================================================================
