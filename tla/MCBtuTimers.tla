---------------------------- MODULE MCBtuTimers ----------------------------
EXTENDS BtuTimers

CONSTANTS a, b, c

MCSlots    == {"TIMER_0", "TIMER_1"}
MCEntries  == [s \in MCSlots |-> IF s = "TIMER_0" THEN {a, b} ELSE {c}]
MCTimeouts == [s \in MCSlots |-> IF s = "TIMER_0" THEN {0, 1, 3} ELSE {2}]
MCPeriod   == [s \in MCSlots |-> IF s = "TIMER_0" THEN 2 ELSE 1]
=============================================================================
