----------------------------- MODULE MC_DirectRun -----------------------------
(* direct_run for TLC: every combination of loader, loader timeout and a  *)
(* net count of at most NetCounts, the definitions bmd run may be given.  *)
EXTENDS DirectRun

==============================================================================
