------------------------------ MODULE MCSdCard ------------------------------
(***************************************************************************)
(* A small instance of SdCard for TLC: a card on which three block numbers *)
(* pass the driver's check, and two SD host controllers and another device *)
(* before them, each of which is or is not there.                          *)
(***************************************************************************)
EXTENDS SdCard

SdHost(b, d) ==
  [bus |-> b, device |-> d, class_code |-> 8, subclass |-> 5, programming_interface |-> 1]

OtherDevice == [SdHost(0, 1) EXCEPT !.class_code = 3]

MCDevice == {OtherDevice, SdHost(0, 3), SdHost(1, 0)}
=============================================================================
