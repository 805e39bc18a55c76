-------------------------- MODULE SupervisorLifecycle --------------------------
(***************************************************************************)
(* The supervisor implements the instance lifecycle of VMLifecycle: the   *)
(* instances are the names with a struct vm_entry on vm_list, the child   *)
(* is the image VM_PID runs, and the taps an instance holds are those on  *)
(* the host created for its name.                                          *)
(***************************************************************************)
EXTENDS Supervisor

Lifecycle == INSTANCE VMLifecycle WITH live <- tracked, child <- proc,
                                       held <- hostTaps

\* Every step of the supervisor is a lifecycle step or leaves the
\* instances, their processes and their taps alone: no callback destroys
\* an entry whose process still runs, launches a second process for a VM
\* or creates taps outside a launch from TERMINATE.
LifecycleRefined == Lifecycle!ASpec

==============================================================================
