---------------------------- MODULE MCMediaTracks ----------------------------
(***************************************************************************)
(* MediaTracks for TLC: one medium, and handlers that wait for it and then *)
(* echo it or proxy it.                                                    *)
(***************************************************************************)
EXTENDS MediaTracks

Handlers == {<<"wait-media", "echo">>, <<"wait-track", "proxy">>, <<"wait-media", "proxy">>}
=============================================================================
