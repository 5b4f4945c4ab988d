---------------------------- MODULE MCUsbCamera -----------------------------
(* UsbCamera with two candidate devices and up to three buffers.           *)
EXTENDS UsbCamera
=============================================================================
