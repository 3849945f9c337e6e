------------------------- MODULE ConnectionStatus -------------------------
(***************************************************************************)
(* The client-visible state machine reactor-core promises (ReactorStatus): *)
(*                                                                         *)
(*   Disconnected -> Connecting -> Waiting -> Ready                        *)
(*                                                                         *)
(* with a way back to Disconnected from everywhere and no other arrow.     *)
(***************************************************************************)
VARIABLE status

Init == status = "Disconnected"

ConnectCalled == status = "Disconnected" /\ status' = "Connecting"

SessionCreated == status = "Connecting" /\ status' = "Waiting"

TransportReady == status = "Waiting" /\ status' = "Ready"

Disconnected == status # "Disconnected" /\ status' = "Disconnected"

Next == ConnectCalled \/ SessionCreated \/ TransportReady \/ Disconnected

Spec == Init /\ [][Next]_status
=============================================================================
