---------------------------- MODULE MCMeasurement ----------------------------
(***************************************************************************)
(* An environment check with a command before the fork, one beside the     *)
(* containers and one after the wait, and an experiment with a command of  *)
(* each way to retry and of each way to examine.                           *)
(***************************************************************************)
EXTENDS MeasurementProps

MCBefore == <<"ap">>
MCBeside == <<"a">>
MCAfter == <<"a">>
MCRebuild == <<"ap">>
MCMeasured == <<"c", "ej", "e", "apj">>
=============================================================================
