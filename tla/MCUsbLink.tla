----------------------------- MODULE MCUsbLink -----------------------------
(* Model checking of UsbLink.                                                *)
EXTENDS UsbLink
============================================================================
