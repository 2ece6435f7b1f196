------------------------------ MODULE Adapter ------------------------------
(***************************************************************************)
(* What the user of the HAL interface sees of the adapter: every request   *)
(* to turn it on or off is answered by one adapter_state_changed_cb, with  *)
(* the state asked for, and the stack runs exactly from the request to     *)
(* turn it on to the report that it is off.                                *)
(***************************************************************************)

VARIABLES core,  \* btif_core_state
          told,  \* the last state reported
          btu    \* the BTU task: "none" or "up"

Init == core = "DISABLED" /\ told = "OFF" /\ btu = "none"

TurnOn    == core = "DISABLED"  /\ core' = "ENABLING"  /\ UNCHANGED <<told, btu>>
Started   == core = "ENABLING"  /\ btu = "none" /\ btu' = "up" /\ UNCHANGED <<core, told>>
ReportOn  == core = "ENABLING"  /\ btu = "up" /\ core' = "ENABLED" /\ told' = "ON" /\ UNCHANGED btu
TurnOff   == core = "ENABLED"   /\ core' = "DISABLING" /\ UNCHANGED <<told, btu>>
ReportOff == core = "DISABLING" /\ core' = "DISABLED" /\ told' = "OFF" /\ btu' = "none"

Next == TurnOn \/ Started \/ ReportOn \/ TurnOff \/ ReportOff

Spec == Init /\ [][Next]_<<core, told, btu>>

=============================================================================
