----------------------------- MODULE MCBootMode -----------------------------
(* Small instances of BootMode: two generations and the firmware reports   *)
(* that separate the branches of the detectors.                            *)
EXTENDS BootMode

MCPonReasons == {{}, {"usb"}, {"usb", "key"}, {"chargerMode"},
                 {"chargerMode", "forceNormal"}, {"usb", "forceNormal"}}

EveryFault == AllFaults
=============================================================================
