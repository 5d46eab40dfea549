------------------------------ MODULE MCApplier -------------------------------
(***************************************************************************)
(* Small instances of module Applier.  Three indexes give the service a    *)
(* command before, at and after any snapshot.                              *)
(***************************************************************************)
EXTENDS Applier

ThreeEntries == 3
===============================================================================
