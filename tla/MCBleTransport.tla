--------------------------- MODULE MCBleTransport ---------------------------
(* Instances of BleTransport for TLC. *)
EXTENDS BleTransport

LinkNumbers == 1..MaxLinks
=============================================================================
