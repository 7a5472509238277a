---------------------------- MODULE MCHostCleaner ----------------------------
(* HostCleaner with the four sets of paths the code ever passes to CleanUp.  *)
EXTENDS HostCleaner

MCCmds == CleanPaths
=============================================================================
