-------------------------- MODULE MCMockRTCServer --------------------------
(***************************************************************************)
(* MockRTCServer for TLC: a rule that fits the connections, and one with a *)
(* type of step that the server does not know.  The first caller makes     *)
(* every kind of call; the second asks for descriptions of sessions that   *)
(* clients have.                                                           *)
(***************************************************************************)
EXTENDS MockRTCServer, TLC

CONSTANTS k1, k2

Media == [media |-> {"audio", "video"}, page |-> "listed", agent |-> "other"]

Rule(matchers, steps) == [matchers |-> matchers, steps |-> steps]

MediaRule == Rule({"has-rtc-media-track", "rtc-page-hostname"}, "echo-rtc")
NewStep   == Rule({}, "a-newer-step")

MCTraitSets == {Media}
MCRuleLists == {<<MediaRule>>, <<NewStep>>}

MCCallers == {k1, k2}
MCUses == [k \in MCCallers |->
              IF k = k2 THEN {"describe"}
              ELSE {"createPeer", "setRTCRules", "addRTCRule", "createOffer", "answerOffer",
                    "answerExternalOffer", "describe", "completeOffer"}]
=============================================================================
