---------------------------- MODULE FifoService -----------------------------
(***************************************************************************)
(* What a command lane of DataCenter promises to the commands sent to one  *)
(* target connection: they are served one at a time and in the order in    *)
(* which they were accepted, and a command that gives up while it waits    *)
(* holds nobody back.                                                      *)
(***************************************************************************)
CONSTANT Commands

VARIABLES phase, \* where a command is: "out", "waiting" or "serving"
          ahead  \* the commands accepted before it that have not left yet

fifoVars == <<phase, ahead>>

Present == {c \in Commands : phase[c] # "out"}

FifoInit ==
    /\ phase = [c \in Commands |-> "out"]
    /\ ahead = [c \in Commands |-> {}]

Arrive(c) ==
    /\ phase[c] = "out"
    /\ phase' = [phase EXCEPT ![c] = "waiting"]
    /\ ahead' = [ahead EXCEPT ![c] = Present]

Begin(c) ==
    /\ phase[c] = "waiting"
    /\ ahead[c] = {}
    /\ phase' = [phase EXCEPT ![c] = "serving"]
    /\ UNCHANGED ahead

\* The end of a service, or a command that stops waiting for it.
Leave(c) ==
    /\ phase[c] # "out"
    /\ phase' = [phase EXCEPT ![c] = "out"]
    /\ ahead' = [d \in Commands |-> IF d = c THEN {} ELSE ahead[d] \ {c}]

FifoNext == \E c \in Commands : Arrive(c) \/ Begin(c) \/ Leave(c)

FifoSpec == FifoInit /\ [][FifoNext]_fifoVars

=============================================================================
