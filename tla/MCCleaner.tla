----------------------------- MODULE MCCleaner -----------------------------
(***************************************************************************)
(* Three goroutines, each of which may Add and may Clean, and at most      *)
(* three registrations: a Clean can meet a registration, another Clean and *)
(* a refused Clean in one behaviour.                                       *)
(***************************************************************************)
EXTENDS Cleaner
=============================================================================
