--------------------------- MODULE MCCommandLane ----------------------------
(* Three concurrent commands on one lane, each of which may come back.      *)
EXTENDS CommandLane, TLC

CONSTANTS C1, C2, C3

MCCommands == {C1, C2, C3}
=============================================================================
