------------------------------- MODULE MCUsbPort -------------------------------
(* A photo: four handles with the folders.                                  *)
EXTENDS UsbPort
OneMedium == <<"photo">>
ItsFolder == [n \in {"photo"} |-> 1]
=============================================================================
