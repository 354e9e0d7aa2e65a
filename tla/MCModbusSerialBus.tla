-------------------------- MODULE MCModbusSerialBus ---------------------------
(* One device: a read, a single write and two writes to the same registers. *)
EXTENDS ModbusSerialBus

MCRequests ==
    {[dev |-> 1, fun |-> "read", addr |-> 1, val |-> 0, qty |-> 1],
     [dev |-> 1, fun |-> "single", addr |-> 1, val |-> 1, qty |-> 1],
     [dev |-> 1, fun |-> "multiple", addr |-> 1, val |-> 1, qty |-> 2],
     [dev |-> 1, fun |-> "multiple", addr |-> 1, val |-> 2, qty |-> 2]}
=============================================================================
