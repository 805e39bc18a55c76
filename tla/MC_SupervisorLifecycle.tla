------------------------ MODULE MC_SupervisorLifecycle ------------------------
(* The refinement of VMLifecycle by Supervisor on small instances.        *)
EXTENDS SupervisorLifecycle, MC_Supervisor

==============================================================================
