----------------------------- MODULE MCSensors -----------------------------
(* A die with one CCD and two cores, and two processors.                   *)
EXTENDS Sensors

MCRegisters  == <<"die", "ccd0">>
MCCores      == <<"core0", "core1">>
MCProcessors == <<"cpu0", "cpu1">>
=============================================================================
