---------------------------- MODULE MCSafeState ----------------------------
(* Finite instances of SafeState; every bound is a CONSTANT of the module.  *)
EXTENDS SafeState

=============================================================================
