--------------------------- MODULE LifecycleProofs ---------------------------
(***************************************************************************)
(* Proof that the supervisor implements VMLifecycle under the mapping of   *)
(* SupervisorLifecycle, for every value of the constants.                  *)
(*                                                                         *)
(* The step simulation needs what SInv says of each VM: a name off the VM *)
(* list is in TERMINATE with no pid and no taps on the host, a tracked    *)
(* entry's taps are exactly the host's, and LOAD and RUN name the loader  *)
(* and bhyve.  With it, the early return of start_virtual_machine and a   *)
(* VM_START failure from TERMINATE change nothing the lifecycle sees, and *)
(* VM_CLEANUP gives back every tap a tracked VM has on the host.          *)
(***************************************************************************)
EXTENDS SupervisorSafety, SupervisorLifecycle

\* The lifecycle step or stutter a supervisor step must be.
AStep == [Lifecycle!ANext]_Lifecycle!avars

\* The process and the taps stay as they are.
Stays == UNCHANGED <<proc, hostTaps>>

\* An idle VM with no taps forks a loader or bhyve and creates its taps.
LaunchShape(v) ==
    /\ proc[v] = "none"
    /\ hostTaps[v] = 0
    /\ proc' \in {[proc EXCEPT ![v] = c] : c \in {"loader", "bhyve"}}
    /\ hostTaps'[v] \in Nat
    /\ hostTaps' = [hostTaps EXCEPT ![v] = hostTaps'[v]]

\* The process is gone and so are all the VM's taps.
Reaps(v) ==
    /\ proc[v] # "none"
    /\ proc' = [proc EXCEPT ![v] = "none"]
    /\ hostTaps' = [hostTaps EXCEPT ![v] = 0]

-----------------------------------------------------------------------------
(* start_virtual_machine, seen from the lifecycle.                         *)

\* From TERMINATE, start_virtual_machine launches or changes nothing; after
\* the loader it hands over to bhyve; after bhyve it relaunches; and a
\* VM_START failure after a process cleans the VM up.
LEMMA StartLifecycle ==
    ASSUME TypeOK, NEW v \in VMs, NEW cf, NEW tr, NEW tm,
           cf[v] \in Entries, VMConsistent(v),
           vmState[v] \in {"TERMINATE", "LOAD", "RUN"},
           vmState[v] # "TERMINATE" => v \in tracked,
           start_virtual_machine(v, cf, tr, tm)
    PROVE  \/ Stays
           \/ vmState[v] = "TERMINATE" /\ LaunchShape(v)
           \/ /\ vmState[v] = "LOAD"
              /\ proc' = [proc EXCEPT ![v] = "bhyve"]
              /\ UNCHANGED hostTaps
           \/ /\ vmState[v] = "RUN"
              /\ proc' \in {[proc EXCEPT ![v] = c] : c \in {"loader", "bhyve"}}
              /\ UNCHANGED hostTaps
           \/ vmState[v] # "TERMINATE" /\ Reaps(v)
<1> DEFINE d == cf[v].def
           img == LaunchImage(d, vmState[v])
<1>1. d.nets \in Nat
  BY DefsAssumption DEF Entries, DefType
<1>2. PICK r \in assign_comport(v, cf, tr) :
          \/ /\ ~r.ok
             /\ UNCHANGED <<proc, hostTaps>>
          \/ /\ r.ok
             /\ \/ VM_CLEANUP(v)
                \/ /\ proc' = [proc EXCEPT ![v] = img]
                   /\ hostTaps' = [hostTaps EXCEPT ![v] =
                                  IF vmState[v] = "TERMINATE" THEN @ + d.nets
                                  ELSE @]
  BY DEF start_virtual_machine
<1>3. vmState[v] = "TERMINATE" => proc[v] = "none" /\ hostTaps[v] = 0
                                  /\ taps[v] = 0
  BY DEF VMConsistent, TypeOK, Running, States
<1>4. vmState[v] # "TERMINATE" => proc[v] # "none" /\ hostTaps[v] = taps[v]
  BY DEF VMConsistent, TypeOK, Running, States
<1>5. CASE ~r.ok
  BY <1>2, <1>5 DEF Stays
<1>6. CASE r.ok /\ VM_CLEANUP(v)
  <2>1. CASE vmState[v] = "TERMINATE"
    BY <1>3, <1>6, <2>1 DEF VM_CLEANUP, Stays, TypeOK
  <2>2. CASE vmState[v] # "TERMINATE"
    <3>1. hostTaps[v] - taps[v] = 0
      BY <1>4, <2>2 DEF TypeOK
    <3>2. hostTaps' = [hostTaps EXCEPT ![v] = 0]
      BY <1>6, <3>1 DEF VM_CLEANUP
    <3>3. QED BY <1>4, <1>6, <2>2, <3>2 DEF VM_CLEANUP, Reaps
  <2>3. QED BY <2>1, <2>2
<1>7. CASE /\ r.ok
           /\ proc' = [proc EXCEPT ![v] = img]
           /\ hostTaps' = [hostTaps EXCEPT ![v] =
                          IF vmState[v] = "TERMINATE" THEN @ + d.nets ELSE @]
  <2>1. img \in {"loader", "bhyve"}
    BY DEF LaunchImage
  <2>2. CASE vmState[v] = "TERMINATE"
    <3>1. hostTaps'[v] = hostTaps[v] + d.nets /\ hostTaps'[v] \in Nat
      BY <1>1, <1>7, <2>2 DEF TypeOK
    <3>2. hostTaps' = [hostTaps EXCEPT ![v] = hostTaps'[v]]
      BY <1>7, <2>2, <3>1 DEF TypeOK
    <3>3. QED BY <1>3, <1>7, <2>1, <2>2, <3>1, <3>2 DEF LaunchShape
  <2>3. CASE vmState[v] = "LOAD"
    <3>1. img = "bhyve"
      BY <2>3 DEF LaunchImage
    <3>2. UNCHANGED hostTaps
      BY <1>7, <2>3 DEF TypeOK
    <3>3. QED BY <1>7, <2>3, <3>1, <3>2
  <2>4. CASE vmState[v] = "RUN"
    <3>1. UNCHANGED hostTaps
      BY <1>7, <2>4 DEF TypeOK
    <3>2. QED BY <1>7, <2>1, <2>4, <3>1
  <2>5. QED BY <2>2, <2>3, <2>4
<1>8. QED BY <1>2, <1>5, <1>6, <1>7

-----------------------------------------------------------------------------
(* Each callback of the supervisor is a lifecycle step or a stutter.       *)

\* A step that moves no process, no tap and no entry is a stutter.
LEMMA StutterStep ==
    ASSUME Stays, UNCHANGED tracked
    PROVE  AStep
BY DEF AStep, Lifecycle!avars, Stays

\* VM_CLEANUP on a tracked VM with a process reaps it, whether its entry
\* stays on the VM list or is removed with it.
LEMMA CleanupReaps ==
    ASSUME SInv, NEW v \in VMs, v \in tracked, proc[v] # "none",
           VM_CLEANUP(v), tracked' \in {tracked, tracked \ {v}}
    PROVE  AStep
<1>1. hostTaps[v] = taps[v] /\ taps[v] \in Nat
  BY DEF SInv, Safe, VMConsistent, IInv, TypeOK
<1>2. hostTaps' = [hostTaps EXCEPT ![v] = 0]
  <2>1. hostTaps[v] - taps[v] = 0
    BY <1>1
  <2>2. QED BY <2>1 DEF VM_CLEANUP
<1>3. proc' = [proc EXCEPT ![v] = "none"]
  BY DEF VM_CLEANUP
<1>4. Lifecycle!Reap(v)
  BY <1>2, <1>3 DEF Lifecycle!Reap
<1>5. QED BY <1>4 DEF AStep, Lifecycle!ANext

\* start_virtual_machine on a VM that stays on the VM list: the boot of a
\* TERMINATE VM by on_timer or a reload, the bhyve start after the loader
\* and the relaunch of bhyve.
LEMMA StartStep ==
    ASSUME SInv, NEW v \in VMs, NEW cf, NEW tr, NEW tm,
           v \in tracked, UNCHANGED tracked, cf[v] \in Entries,
           vmState[v] \in {"TERMINATE", "LOAD", "RUN"},
           start_virtual_machine(v, cf, tr, tm)
    PROVE  AStep
<1>1. TypeOK /\ VMConsistent(v)
  BY DEF SInv, IInv, Safe
<1>2. vmState[v] = "LOAD" => proc[v] = "loader"
  BY <1>1 DEF VMConsistent
<1>3. vmState[v] = "RUN" => proc[v] = "bhyve"
  BY <1>1 DEF VMConsistent
<1>4. CASE Stays
  BY <1>4, StutterStep
<1>5. CASE vmState[v] = "TERMINATE" /\ LaunchShape(v)
  <2>1. Lifecycle!Start(v)
    BY <1>5 DEF Lifecycle!Start, Lifecycle!Launch, LaunchShape
  <2>2. QED BY <2>1 DEF AStep, Lifecycle!ANext
<1>6. CASE /\ vmState[v] = "LOAD"
           /\ proc' = [proc EXCEPT ![v] = "bhyve"]
           /\ UNCHANGED hostTaps
  <2>1. Lifecycle!Handover(v)
    BY <1>2, <1>6 DEF Lifecycle!Handover
  <2>2. QED BY <2>1 DEF AStep, Lifecycle!ANext
<1>7. CASE /\ vmState[v] = "RUN"
           /\ proc' \in {[proc EXCEPT ![v] = c] : c \in {"loader", "bhyve"}}
           /\ UNCHANGED hostTaps
  <2>1. Lifecycle!Relaunch(v)
    BY <1>3, <1>7 DEF Lifecycle!Relaunch
  <2>2. QED BY <2>1 DEF AStep, Lifecycle!ANext
<1>8. CASE vmState[v] # "TERMINATE" /\ Reaps(v)
  <2>1. Lifecycle!Reap(v)
    BY <1>8 DEF Lifecycle!Reap, Reaps
  <2>2. QED BY <2>1 DEF AStep, Lifecycle!ANext
<1>9. QED BY <1>1, <1>4, <1>5, <1>6, <1>7, <1>8, StartLifecycle

\* create_vm_entry and the boot decision for a name seen for the first
\* time: the startup loop and the add branch of a reload.
LEMMA AdmitStep ==
    ASSUME SInv, NEW v \in VMs, NEW cf, v \notin tracked,
           tracked' = tracked \cup {v}, cf[v] \in Entries,
           create_and_boot(v, cf)
    PROVE  AStep
<1>1. TypeOK /\ VMConsistent(v)
  BY DEF SInv, IInv, Safe
<1>2. vmState[v] = "TERMINATE" /\ proc[v] = "none" /\ hostTaps[v] = 0
  BY <1>1 DEF VMConsistent
<1>3. CASE Stays
  <2>1. Lifecycle!Admit(v)
    BY <1>3 DEF Lifecycle!Admit, Stays
  <2>2. QED BY <2>1 DEF AStep, Lifecycle!ANext
<1>4. CASE LaunchShape(v)
  <2>1. Lifecycle!Admit(v)
    BY <1>4 DEF Lifecycle!Admit, Lifecycle!Launch, LaunchShape
  <2>2. QED BY <2>1 DEF AStep, Lifecycle!ANext
<1>5. CASE start_virtual_machine(v, cf, tracked \cup {v}, timers[v])
  BY <1>1, <1>2, <1>3, <1>4, <1>5, StartLifecycle DEF Reaps
<1>6. QED BY <1>3, <1>5 DEF create_and_boot, Stays

\* on_vm_exit in every state the exited process can leave the VM in.
LEMMA ExitMaps ==
    ASSUME SInv, NEW v \in VMs,
           \/ \E st \in Statuses : on_vm_exit_load(v, st) \/ on_vm_exit_run(v, st)
           \/ on_vm_exit_restart(v) \/ on_vm_exit_stop(v)
           \/ on_vm_exit_remove(v)
    PROVE  AStep
<1>1. v \in tracked /\ proc[v] # "none" /\ conf[v] \in Entries
  BY DEF on_vm_exit_load, on_vm_exit_run, on_vm_exit_restart,
     on_vm_exit_stop, on_vm_exit_remove, exit_delivered, SInv, IInv,
     EntriesExist
<1>2. ASSUME NEW st \in Statuses, on_vm_exit_load(v, st) PROVE AStep
  <2>1. CASE start_virtual_machine(v, conf, tracked, timers[v])
    BY <1>1, <1>2, <2>1, StartStep DEF on_vm_exit_load
  <2>2. CASE stop_virtual_machine(v)
    BY <1>1, <1>2, <2>2, CleanupReaps DEF on_vm_exit_load, stop_virtual_machine
  <2>3. QED BY <1>2, <2>1, <2>2 DEF on_vm_exit_load
<1>3. ASSUME NEW st \in Statuses, on_vm_exit_run(v, st) PROVE AStep
  <2>1. CASE start_virtual_machine(v, conf, tracked, timers[v])
             /\ UNCHANGED tracked
    BY <1>1, <1>3, <2>1, StartStep DEF on_vm_exit_run
  <2>2. CASE vm_stopped(v)
    BY <1>1, <2>2, CleanupReaps DEF vm_stopped, stop_virtual_machine
  <2>3. QED BY <1>3, <2>1, <2>2 DEF on_vm_exit_run
<1>4. CASE on_vm_exit_restart(v)
  BY <1>1, <1>4, CleanupReaps DEF on_vm_exit_restart
<1>5. CASE on_vm_exit_stop(v)
  BY <1>1, <1>5, CleanupReaps DEF on_vm_exit_stop, vm_stopped,
     stop_virtual_machine
<1>6. CASE on_vm_exit_remove(v)
  BY <1>1, <1>6, CleanupReaps DEF on_vm_exit_remove, stop_virtual_machine
<1>7. QED BY <1>2, <1>3, <1>4, <1>5, <1>6

\* on_timer boots a VM in TERMINATE and otherwise moves no process.
LEMMA TimerMaps ==
    ASSUME SInv, NEW v \in VMs, NEW p \in Purposes, on_timer(v, p)
    PROVE  AStep
<1>1. v \in tracked /\ conf[v] \in Entries /\ UNCHANGED tracked
  BY DEF on_timer, SInv, IInv, EntriesExist
<1>2. CASE vmState[v] = "TERMINATE"
  <2>1. start_virtual_machine(v, conf, tracked, [timers[v] EXCEPT ![p] = @ - 1])
    BY <1>2 DEF on_timer
  <2>2. QED BY <1>1, <1>2, <2>1, StartStep
<1>3. CASE vmState[v] # "TERMINATE"
  <2>1. Stays
    BY <1>3 DEF on_timer, Stays
  <2>2. QED BY <1>1, <2>1, StutterStep
<1>4. QED BY <1>2, <1>3

\* The add and update branches of reload_virtual_machines.
LEMMA ReloadMaps ==
    ASSUME SInv, NEW v \in VMs, reload_add(v) \/ reload_update(v)
    PROVE  AStep
<1>1. CASE reload_add(v)
  <2>1. NewEntry(v) \in Entries /\ conf' = [conf EXCEPT ![v] = NewEntry(v)]
    BY <1>1, NewEntryOK DEF reload_add, SInv
  <2>2. conf'[v] \in Entries
    BY <2>1 DEF SInv, IInv, TypeOK
  <2>3. QED BY <1>1, <2>2, AdmitStep DEF reload_add
<1>2. CASE reload_update(v)
  <2>1. v \in tracked /\ UNCHANGED tracked
    BY <1>2 DEF reload_update
  <2>2. CASE /\ vmState[v] = "TERMINATE"
             /\ conf' = [conf EXCEPT ![v] = NewEntry(v)]
             /\ start_virtual_machine(v, conf', tracked, timers[v])
    <3>1. conf'[v] \in Entries
      BY <1>2, <2>2, NewEntryOK DEF reload_update, SInv, IInv, TypeOK
    <3>2. QED BY <2>1, <2>2, <3>1, StartStep
  <2>3. CASE Stays
    BY <2>1, <2>3, StutterStep
  <2>4. QED BY <1>2, <2>2, <2>3
         DEF reload_update, acpi_stop, Goto, Stays
<1>3. QED BY <1>1, <1>2

\* The sweep of a reload forgets the VMs it drops in TERMINATE, which have
\* no process; the others are marked REMOVE and keep their entry.
LEMMA ReloadFinishMaps ==
    ASSUME SInv, reload_finish
    PROVE  AStep
<1> DEFINE Gone == {v \in tracked : newconf[v] = NoEntry}
           Dropped == {v \in Gone : vmState[v] = "TERMINATE"}
<1>1. tracked' = tracked \ Dropped /\ Stays
  BY DEF reload_finish, Stays
<1>2. \A v \in Dropped : proc[v] = "none"
  <2>1. SUFFICES ASSUME NEW v \in Dropped PROVE proc[v] = "none"
    OBVIOUS
  <2>2. v \in VMs /\ vmState[v] = "TERMINATE"
    BY DEF SInv, IInv, TypeOK
  <2>3. VMConsistent(v)
    BY <2>2 DEF SInv, Safe
  <2>4. QED BY <2>2, <2>3 DEF VMConsistent, Running
<1>3. Lifecycle!Forget(Dropped)
  BY <1>1, <1>2 DEF Lifecycle!Forget, Stays
<1>4. Dropped \in SUBSET VMs
  BY DEF SInv, IInv, TypeOK
<1>5. QED BY <1>3, <1>4 DEF AStep, Lifecycle!ANext

\* Every step of the supervisor is a step of the lifecycle or a stutter.
LEMMA NextMaps == SInv /\ [Next]_vars => AStep
<1> SUFFICES ASSUME SInv, [Next]_vars PROVE AStep
  OBVIOUS
<1>1. CASE \E v \in VMs : start_virtual_machines(v)
  <2>1. PICK v \in VMs : start_virtual_machines(v)
    BY <1>1
  <2>2. v \notin tracked /\ conf[v] \in Entries
    BY <2>1 DEF start_virtual_machines, SInv, StartupFresh, IInv,
       EntriesExist
  <2>3. QED BY <2>1, <2>2, AdmitStep DEF start_virtual_machines
<1>2. CASE \E v \in VMs :
             \/ \E st \in Statuses : on_vm_exit_load(v, st) \/ on_vm_exit_run(v, st)
             \/ on_vm_exit_restart(v) \/ on_vm_exit_stop(v)
             \/ on_vm_exit_remove(v)
  BY <1>2, ExitMaps
<1>3. CASE \E v \in VMs, p \in Purposes : on_timer(v, p)
  BY <1>3, TimerMaps
<1>4. CASE \E v \in VMs : reload_add(v) \/ reload_update(v)
  BY <1>4, ReloadMaps
<1>5. CASE reload_finish
  BY <1>5, ReloadFinishMaps
<1>6. CASE reload_begin \/ stop_virtual_machines \/ shutdown_done \/ UNCHANGED vars
  <2>1. Stays /\ UNCHANGED tracked
    BY <1>6 DEF reload_begin, stop_virtual_machines, shutdown_done, vars, Stays
  <2>2. QED BY <2>1, StutterStep
<1>7. QED BY <1>1, <1>2, <1>3, <1>4, <1>5, <1>6 DEF Next

-----------------------------------------------------------------------------

\* The supervisor implements the instance lifecycle for every set of VMs
\* and definitions: an entry is created when its name is first seen, it
\* runs one process at a time, the taps on the host are created only by a
\* launch from TERMINATE and destroyed by the cleanup that follows the
\* process's exit, and no callback or reload destroys an entry whose
\* process still runs.
THEOREM Refinement == Spec => LifecycleRefined
<1>1. Init => Lifecycle!AInit
  BY DEF Init, Lifecycle!AInit
<1>2. SInv /\ [Next]_vars => AStep
  BY NextMaps
<1>3. QED BY <1>1, <1>2, SInvariant, PTL
      DEF Spec, LifecycleRefined, Lifecycle!ASpec, AStep


-----------------------------------------------------------------------------
(* The invariant NoOrphan of VMLifecycle, proved of ASpec alone (stated   *)
(* over the mapped variables, which the abstract actions only rename).    *)
(* It is not carried to the supervisor: there child is the recorded       *)
(* VM_PID, which on the stale-pid path names a process already reaped.    *)

\* NoOrphan with the shape of the instance's functions, which the EXCEPTs
\* of its actions need.
ALifeInv ==
    /\ proc \in [VMs -> Lifecycle!Children]
    /\ hostTaps \in [VMs -> Nat]
    /\ Lifecycle!NoOrphan

\* A launch makes one live instance busy and touches no other instance.
LEMMA LaunchKeeps ==
    ASSUME ALifeInv, NEW v \in VMs, Lifecycle!Launch(v), tracked \subseteq tracked'
    PROVE  ALifeInv'
<1>1. PICK c \in {"loader", "bhyve"} : proc' = [proc EXCEPT ![v] = c]
  BY DEF Lifecycle!Launch
<1>2. hostTaps' \in [VMs -> Nat]
  BY DEF Lifecycle!Launch, ALifeInv
<1>3. proc' \in [VMs -> Lifecycle!Children]
  BY <1>1 DEF ALifeInv, Lifecycle!Children
<1>4. \A w \in VMs \ {v} : proc'[w] = proc[w] /\ hostTaps'[w] = hostTaps[w]
  BY <1>1 DEF Lifecycle!Launch, ALifeInv
<1>5. v \in tracked' /\ proc'[v] # "none"
  BY <1>1 DEF Lifecycle!Launch, ALifeInv
<1>6. QED BY <1>2, <1>3, <1>4, <1>5 DEF ALifeInv, Lifecycle!NoOrphan

\* Every lifecycle step keeps ALifeInv.
LEMMA AStepKeeps == ALifeInv /\ AStep => ALifeInv'
<1> SUFFICES ASSUME ALifeInv, AStep PROVE ALifeInv'
  OBVIOUS
<1>1. CASE \E v \in VMs : Lifecycle!Admit(v)
  <2>1. PICK v \in VMs : Lifecycle!Admit(v)
    BY <1>1
  <2>2. CASE UNCHANGED <<proc, hostTaps>>
    BY <2>1, <2>2 DEF Lifecycle!Admit, ALifeInv, Lifecycle!NoOrphan
  <2>3. CASE Lifecycle!Launch(v)
    BY <2>1, <2>3, LaunchKeeps DEF Lifecycle!Admit
  <2>4. QED BY <2>1, <2>2, <2>3 DEF Lifecycle!Admit
<1>2. CASE \E v \in VMs : Lifecycle!Start(v)
  BY <1>2, LaunchKeeps DEF Lifecycle!Start
<1>3. CASE \E v \in VMs : Lifecycle!Handover(v) \/ Lifecycle!Relaunch(v)
  <2>1. PICK v \in VMs, c \in {"loader", "bhyve"} :
            /\ proc[v] # "none"
            /\ proc' = [proc EXCEPT ![v] = c]
            /\ UNCHANGED <<tracked, hostTaps>>
    BY <1>3 DEF Lifecycle!Handover, Lifecycle!Relaunch
  <2>2. QED BY <2>1 DEF ALifeInv, Lifecycle!NoOrphan, Lifecycle!Children
<1>4. CASE \E v \in VMs : Lifecycle!Reap(v)
  <2>1. PICK v \in VMs : Lifecycle!Reap(v)
    BY <1>4
  <2>2. tracked' \subseteq tracked
    BY <2>1 DEF Lifecycle!Reap
  <2>3. QED BY <2>1, <2>2
        DEF Lifecycle!Reap, ALifeInv, Lifecycle!NoOrphan, Lifecycle!Children
<1>5. CASE \E S \in SUBSET VMs : Lifecycle!Forget(S)
  BY <1>5 DEF Lifecycle!Forget, ALifeInv, Lifecycle!NoOrphan
<1>6. CASE UNCHANGED Lifecycle!avars
  BY <1>6 DEF Lifecycle!avars, ALifeInv, Lifecycle!NoOrphan
<1>7. QED BY <1>1, <1>2, <1>3, <1>4, <1>5, <1>6 DEF AStep, Lifecycle!ANext

\* The lifecycle never has an orphan: an instance that does not exist runs
\* no child, and an instance without a child holds no tap.
THEOREM AbstractNoOrphan == Lifecycle!ASpec => []Lifecycle!NoOrphan
<1>1. Lifecycle!AInit => ALifeInv
  BY DEF Lifecycle!AInit, ALifeInv, Lifecycle!NoOrphan, Lifecycle!Children
<1>2. ALifeInv /\ [Lifecycle!ANext]_Lifecycle!avars => ALifeInv'
  BY AStepKeeps DEF AStep
<1>3. QED BY <1>1, <1>2, PTL DEF Lifecycle!ASpec, ALifeInv

==============================================================================
