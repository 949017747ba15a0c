-------------------------- MODULE MCStandaloneRun --------------------------
(* Small instances of StandaloneRun for TLC. *)
EXTENDS StandaloneRun

CONSTANT a

(* One document comes twice: the input is read with --no-dedupe. *)
MCInput == <<a, a>>
MCOnce == <<a>>
=============================================================================
