------------------------------- MODULE MC_VMConf -------------------------------
(* TLC instance of VMConf: the constants are given in the .cfg files.     *)
EXTENDS VMConf

==============================================================================
