--------------------------- MODULE MCSer2netPorts ---------------------------
(* Two ports: one may be on either device, or off, the other is on the     *)
(* device they share.  The device that only one uses is a USB device.      *)
EXTENDS Ser2netPorts

CONSTANTS a, b, d1, d2

MCNames == {a, b}
MCDevices == {d1, d2}
MCUsbDevices == {d2}
MCLines ==
  [n \in MCNames |->
     {[dev |-> d1, state |-> "telnet"]}
       \cup IF n = b THEN {}
            ELSE {[dev |-> d1, state |-> "off"], [dev |-> d2, state |-> "telnet"]}]
=============================================================================
