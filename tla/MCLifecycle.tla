---------------------------- MODULE MCLifecycle ----------------------------
(***************************************************************************)
(* Small daemons.  Two bindings are enough for everything the properties   *)
(* relate: one binding opened and the next one not, one drained and the    *)
(* next one not; one HTTP binding and one ServeFunc binding differ in all  *)
(* the ways the code tells apart.                                          *)
(***************************************************************************)
EXTENDS Lifecycle
=============================================================================
