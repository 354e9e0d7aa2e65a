------------------------ MODULE MCControlOrchestrator -------------------------
(* Sequence A closes a breaker, confirms it and passes the value on; B, called *)
(* by hand, goes through A's trigger, or is itself triggered by A's last step. *)
EXTENDS ControlOrchestrator

CONSTANTS A, B, Dev, P1, P2, PA, S1, M, C

MCNames == {A, B}
Close(check) == [source |-> S1, passes |-> FALSE, check |-> check, retries |-> 1]
Pass(src) == [source |-> src, passes |-> TRUE, check |-> "none", retries |-> 0]
FlowA(trigger, check) == [name |-> A, trigger |-> trigger, steps |-> <<Close(check), Pass(S1)>>]
OnlyPass(check) == [name |-> A, trigger |-> PA, steps |-> <<[Pass(S1) EXCEPT !.check = check]>>]
FlowB(trigger) == [name |-> B, trigger |-> trigger, steps |-> <<Pass(PA)>>]

\* M calls A, whose mutex it contends for with C, while A is deleted and saved
\* anew; C triggers A, which sends its step again; A's last step triggers B on
\* the panel of A's own trigger, or on another one, and B's step leads back to A.
World(a, b, last, calls, n) ==
    [stored |-> [s \in MCNames |-> IF s = A THEN a ELSE FlowB(b)],
     left |-> [edits |-> n, calls |-> calls],
     routes |-> [p \in {PA, <<A, 1>>, <<A, 2>>, <<B, 1>>} |->
                   CASE p = <<A, 1>> -> Dev [] p = <<A, 2>> -> last [] OTHER -> P1]]
MCWorlds == {World(OnlyPass("none"), Nobody, Dev, {<<A, TRUE>>}, 2),
             World(FlowA(PA, "retry"), Nobody, Dev, {<<A, FALSE>>}, 0),
             World(FlowA(PA, "none"), <<A, 2>>, P1, {<<B, TRUE>>}, 0),
             World(FlowA(<<B, 1>>, "stop"), <<A, 2>>, P2, {<<A, TRUE>>}, 0)}
MCWorkflows == {OnlyPass("none")}

MCManual == {<<M>>}
MCClients == {<<C>>}
MCOutlet == [c \in MCClients |-> PA]
Attempts(S) == {Append(r, ka) : r \in S, ka \in {<<1, 1>>, <<1, 2>>, <<2, 1>>}}
Roots == MCManual \cup MCClients
MCRequests == Roots \cup Attempts(Roots) \cup Attempts(Attempts(Roots))
=============================================================================
