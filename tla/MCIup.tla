-------------------------------- MODULE MCIup --------------------------------
(* An instance of Iup: three updates of images of three packets. *)
EXTENDS Iup

MCSessions == 1 .. 3
MCPackets == 1 .. 3
=============================================================================
