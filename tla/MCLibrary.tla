------------------------------ MODULE MCLibrary ------------------------------
(* Instances of Library for TLC.                                            *)
EXTENDS Library

TwoDrives == <<"usb1", "usb2">>
=============================================================================
