---------------------- MODULE MCInterfaceRuntimeLock -----------------------
(***************************************************************************)
(* Instances of InterfaceRuntimeLock.                                      *)
(***************************************************************************)
EXTENDS InterfaceRuntimeLock

CONSTANTS p1, p2, p3
=============================================================================
