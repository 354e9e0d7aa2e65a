---------------------------- MODULE MCIec104Soe -----------------------------
(***************************************************************************)
(* The bounds: a window smaller than the number of events, an acknowledge- *)
(* ment threshold of the master that the window never reaches, so that t2  *)
(* has to acknowledge, and sequence numbers that wrap in one connection.   *)
(***************************************************************************)
EXTENDS Iec104Soe

MCEnds == {"slave", "master"}
MCK == [e \in MCEnds |-> IF e = "slave" THEN 2 ELSE 1]
MCW == [e \in MCEnds |-> IF e = "slave" THEN 1 ELSE 3]

=============================================================================
