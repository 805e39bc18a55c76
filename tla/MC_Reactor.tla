----------------------------- MODULE MC_Reactor -----------------------------
(* Reactor on the small definition sets of MC_Supervisor.                 *)
EXTENDS Reactor, MC_Supervisor

==============================================================================
