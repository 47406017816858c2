-------------------------- MODULE MCFullExperiment --------------------------
(***************************************************************************)
(* A product with a view per release, one with a shared view and one that  *)
(* skips a release; two browsers with the two roles of the playbook.       *)
(***************************************************************************)
EXTENDS FullExperiment

ThreeProducts == <<"RHEL", "RHOSP", "Flatpak">>
TwoBrowsers == <<"chromium", "firefox">>
BothRoles == <<"admin", "viewer">>
=============================================================================
