--------------------------- MODULE ModbusSerialBus ----------------------------
(***************************************************************************)
(* The serial bus of the ModbusRTU module: one request at a time is        *)
(* written to the port, and its answer is read in two parts, each with a   *)
(* timeout.  The devices answer in order but may be slow, or not answer.   *)
(* What arrives late stays in the input of the port, which nothing empties *)
(* but closing the port.  The input is a sequence of bytes; a byte says    *)
(* which answer it is part of and where.                                   *)
(***************************************************************************)
EXTENDS Naturals, Sequences, SequencesExt

CONSTANTS Requests,     \* records of dev, fun (read, single, multiple), addr, val and qty
          MaxSent,      \* bound: requests of one behaviour
          GarbledSizes, \* bound: lengths read from bytes that are not a length
          MaxTimeouts   \* kMaxConsecutiveTimeouts

VARIABLES sent,      \* the requests written to the port, in order
          line,      \* those no device has dealt with yet
          executed,  \* those a device carried out
          input,     \* what the port received and nobody read
          opened,    \* opened_
          timeouts,  \* consecutiveTimeouts_
          call,      \* the request being served and what of its answer is read
          answer     \* what the last call returned

busVars == <<sent, line, executed, input, opened, timeouts, call, answer>>

NoRequest == [step |-> "none"]
NoAnswer == [id |-> 0]
Bytes(f) == [i \in 1..f.len |-> [frame |-> f, at |-> i]]

\* The answer to request i: read answers carry 5 bytes and the registers, an
\* exception 5 bytes, an echo of a write 8.
Reply(i, refused) ==
    LET r == sent[i]
    IN [id |-> i, dev |-> r.dev, fun |-> r.fun, refused |-> refused,
        len |-> IF refused THEN 5 ELSE IF r.fun = "read" THEN 5 + 2 * r.qty ELSE 8]

HeadSize(r) == IF r.fun = "read" THEN 3 ELSE 2

BusInit ==
    /\ sent = <<>> /\ line = <<>> /\ executed = {} /\ input = <<>>
    /\ opened = FALSE /\ timeouts = 0 /\ call = NoRequest /\ answer = NoAnswer

\* ReadCoil, Read...Registers, Write...: the port is opened when it is closed,
\* and whatever is in its input stays there.
Request(r) ==
    /\ call = NoRequest /\ Len(sent) < MaxSent
    /\ sent' = Append(sent, r)
    /\ line' = Append(line, Len(sent) + 1)
    /\ opened' = TRUE
    /\ call' = [step |-> "head", id |-> Len(sent) + 1, need |-> HeadSize(r), read |-> <<>>]
    /\ UNCHANGED <<executed, input, timeouts, answer>>

Close ==
    /\ call = NoRequest /\ opened
    /\ opened' = FALSE /\ input' = <<>>
    /\ UNCHANGED <<sent, line, executed, timeouts, call, answer>>

(***************************************************************************)
(* The devices.                                                            *)
(***************************************************************************)
DeviceAnswers ==
    /\ line # <<>> /\ line' = Tail(line)
    /\ \E refused \in BOOLEAN :
         /\ executed' = IF refused THEN executed ELSE executed \cup {Head(line)}
         /\ input' = IF opened THEN input \o Bytes(Reply(Head(line), refused)) ELSE input
    /\ UNCHANGED <<sent, opened, timeouts, call, answer>>

\* The request, or the answer, is lost.
LineLoses ==
    /\ line # <<>> /\ line' = Tail(line)
    /\ executed' \in {executed, executed \cup {Head(line)}}
    /\ UNCHANGED <<sent, input, opened, timeouts, call, answer>>

(***************************************************************************)
(* readExactLocked                                                         *)
(***************************************************************************)
Returns(says, from) ==
    /\ answer' = [id |-> call.id, says |-> says, from |-> from]
    /\ call' = NoRequest

\* The timer may fire although the bytes have just arrived: what was read of
\* them is gone.
TimesOut ==
    /\ call # NoRequest
    /\ Returns("timeout", 0)
    /\ IF timeouts + 1 >= MaxTimeouts
         THEN opened' = FALSE /\ timeouts' = 0 /\ input' = <<>>
         ELSE /\ timeouts' = timeouts + 1 /\ UNCHANGED opened
              /\ \E k \in 0..Len(input) : k <= call.need /\ input' = SubSeq(input, k + 1, Len(input))
    /\ UNCHANGED <<sent, line, executed>>

\* The port fails while it is read: it stays open, and what was read is gone.
ReadFails ==
    /\ call # NoRequest
    /\ Returns("failed", 0)
    /\ timeouts' = 0
    /\ \E k \in 0..Len(input) : k <= call.need /\ input' = SubSeq(input, k + 1, Len(input))
    /\ UNCHANGED <<sent, line, executed, opened>>

Take ==
    /\ call # NoRequest /\ call.need <= Len(input)
    /\ input' = SubSeq(input, call.need + 1, Len(input))
    /\ timeouts' = 0
    /\ UNCHANGED <<sent, line, executed, opened>>

Read == call.read \o SubSeq(input, 1, call.need)
Aligned(bytes) == \A i \in DOMAIN bytes : bytes[i].at = i /\ bytes[i].frame = bytes[1].frame

(***************************************************************************)
(* The first part: a read looks at the device, the function and the length *)
(* in it, a write only at the flag of an exception.  Bytes that are not    *)
(* the start of an answer look like anything.                              *)
(***************************************************************************)
ReadHead ==
    /\ call.step = "head" /\ Take
    /\ LET r == sent[call.id]
           bytes == Read
           f == bytes[1].frame
           more(n) == /\ call' = [call EXCEPT !.step = "body", !.need = n, !.read = bytes]
                      /\ UNCHANGED answer
           rest == f.len - HeadSize(r)
       IN IF Aligned(bytes)
            THEN IF r.fun = "read"
                   THEN IF f.dev = r.dev /\ f.fun = r.fun THEN more(rest) ELSE Returns("mismatch", 0)
                   ELSE more(IF f.refused /\ f.fun = r.fun THEN 3 ELSE 6)
            ELSE IF r.fun = "read"
                   THEN Returns("mismatch", 0) \/ \E n \in GarbledSizes : more(n)
                   ELSE \E n \in {3, 6} : more(n)

(***************************************************************************)
(* The rest.  The checksum rejects what is not one whole answer; then a    *)
(* read compares the number of registers, a single write the address and   *)
(* the value, a multiple write the address and the number of registers.    *)
(***************************************************************************)
SameShape(q, r) ==
    /\ q.dev = r.dev /\ q.fun = r.fun
    /\ r.fun = "read" => q.qty = r.qty
    /\ r.fun = "single" => q.addr = r.addr /\ q.val = r.val
    /\ r.fun = "multiple" => q.addr = r.addr /\ q.qty = r.qty

ReadBody ==
    /\ call.step = "body" /\ Take
    /\ LET r == sent[call.id]
           bytes == Read
           f == bytes[1].frame
       IN CASE ~(Aligned(bytes) /\ Len(bytes) = f.len) -> Returns("mismatch", 0)
            [] OTHER -> IF f.refused THEN Returns("refused", 0)
                        ELSE IF SameShape(sent[f.id], r) THEN Returns("ok", f.id) ELSE Returns("mismatch", 0)

BusNext ==
    \/ \E r \in Requests : Request(r)
    \/ Close \/ DeviceAnswers \/ LineLoses \/ TimesOut \/ ReadFails \/ ReadHead \/ ReadBody

BusSpec == BusInit /\ [][BusNext]_busVars

-----------------------------------------------------------------------------
Accepted == answer # NoAnswer /\ answer.says = "ok"

\* A write is accepted only when a device carried out a write of the same
\* values to the same place: "a synchronous command returns COMMAND_ACCEPTED
\* only after the Modbus write response was received and verified" (README of
\* the module).  ExecuteCommand accepts what the bus returns as ok.
AcceptedWasExecuted ==
    Accepted /\ sent[answer.id].fun # "read" => \E i \in executed : sent[i] = sent[answer.id]

\* What a call returns as ok is an answer of a request that a device carried
\* out and that looks like this one as far as the bus compares them: the
\* registers of a read may be others, and so may the values of a multiple
\* write, but a single write is the same write.
AnswerHasTheShape ==
    Accepted => answer.from \in executed /\ SameShape(sent[answer.from], sent[answer.id])
=============================================================================
