------------------------ MODULE MCMockRTCServerPeer ------------------------
(***************************************************************************)
(* MockRTCServerPeer for TLC: the step lists that bring the interesting    *)
(* handlers about, and the bound and the symmetry of the larger runs.      *)
(***************************************************************************)
EXTENDS MockRTCServerPeer, TLC

MCConns == Mocks \cup Externals \cup Proxies

\* Every step type, at the end of a handler or before another one.
Sessions ==
    {<<"wait", "echo">>, <<"send", "close">>, <<"create">>, <<"close", "create">>,
     <<"peer-proxy">>, <<"dynamic-proxy", "dynamic-proxy">>}

Echo         == {<<"echo">>}
DynamicProxy == {<<"dynamic-proxy">>}
EchoOrProxy  == Echo \cup DynamicProxy

MockSymmetry == Permutations(Mocks)

\* One native change at a time waits for its callback.
ShortQueues == \A c \in Conns : Len(pend[c]) <= 1

\* The same, but another change may overtake the callback that tells a session that it is
\* connected.
LateConnected ==
    \A c \in Conns :
        \/ Len(pend[c]) <= 1
        \/ Len(pend[c]) = 2 /\ c \in Mocks /\ Head(pend[c]) = "connected"
=============================================================================
