-------------------------- MODULE SessionProtocol --------------------------
(***************************************************************************)
(* What a MockRTCServerPeer promises to those who only see its public      *)
(* side: the events that subscribers receive about every session, and the  *)
(* identifiers of external connections, each of which can be used once.    *)
(* Sessions move independently: one step of the peer may announce several. *)
(***************************************************************************)
EXTENDS Naturals, Sequences

CONSTANTS Sessions, Offers

VARIABLES
    log,     \* log[s]: the events announced about session s
    holder   \* holder[o]: "absent", "free", the session it was given to, or "lost"

Announced(s, event) == \E i \in 1 .. Len(log[s]) : log[s][i] = event

\* A session is connected first, and then attached once and disconnected once at most.
LogStep(s) ==
    \/ log'[s] = log[s]
    \/ log[s] = <<>> /\ log'[s] = <<"peer-connected">>
    \/ \E event \in {"external-peer-attached", "peer-disconnected"} :
          /\ log[s] # <<>> /\ ~Announced(s, event)
          /\ log'[s] = Append(log[s], event)

\* An external connection that was given to a session, or lost, is never given again.
HolderStep(o) ==
    \/ holder'[o] = holder[o]
    \/ holder[o] = "absent" /\ holder'[o] = "free"
    \/ holder[o] = "free" /\ holder'[o] \in Sessions
    \/ holder[o] \in Sessions \cup {"free"} /\ holder'[o] = "lost"

Init ==
    /\ log = [s \in Sessions |-> <<>>]
    /\ holder = [o \in Offers |-> "absent"]

Next ==
    /\ \A s \in Sessions : LogStep(s)
    /\ \A o \in Offers : HolderStep(o)

Spec == Init /\ [][Next]_<<log, holder>>
=============================================================================
