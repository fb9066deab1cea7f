---------------------------- MODULE MCLedDevices ----------------------------
(* LedDevices with the blink lists of MCLedIndicator.                         *)
EXTENDS LedDevices, MCLedIndicator
=============================================================================
