--------------------------- MODULE MCDataChannels ---------------------------
(***************************************************************************)
(* DataChannels for TLC, with one channel of each side and the handlers    *)
(* that make the steps take over channels from each other.                 *)
(***************************************************************************)
EXTENDS DataChannels

Step(type, on) == [type |-> type, on |-> on]
Echo == Step("echo", Channels)

\* A message is consumed, an own channel is created meanwhile and all the rest is echoed, or
\* a channel of the client is answered first.
Handlers ==
    {<<Step("wait-message", Remote), Step("create", {c}), Echo>> : c \in Local}
    \cup {<<Step("wait-channel", Remote), Step("send", Channels), Echo>>}

\* Two messages are waited for.
WaitsTwice == {<<Step("wait-message", Remote), Step("wait-message", Remote)>>}
=============================================================================
