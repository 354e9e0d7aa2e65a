---------------------------- MODULE SoeDelivery -----------------------------
(***************************************************************************)
(* What the IEC 104 event store promises: events are numbered as they are  *)
(* stored, a controlling station gets each of them at least once, and an   *)
(* event counts as acknowledged only after the station got it.             *)
(***************************************************************************)
EXTENDS Naturals

VARIABLES stored,   \* number of events stored so far
          received, \* the events the controlling station got
          acked     \* the events recorded as acknowledged

deliveryVars == <<stored, received, acked>>

DeliveryInit == stored = 0 /\ received = {} /\ acked = {}

Store ==
    /\ stored' = stored + 1
    /\ UNCHANGED <<received, acked>>

Receive ==
    /\ \E e \in 1..stored : received' = received \cup {e}
    /\ UNCHANGED <<stored, acked>>

Acknowledge ==
    /\ \E es \in SUBSET received : acked' = acked \cup es
    /\ UNCHANGED <<stored, received>>

DeliveryNext == Store \/ Receive \/ Acknowledge

DeliverySpec == DeliveryInit /\ [][DeliveryNext]_deliveryVars

=============================================================================
