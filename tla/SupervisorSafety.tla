-------------------------- MODULE SupervisorSafety --------------------------
(***************************************************************************)
(* Proofs that VM_PID and the tap interfaces are kept consistent by every *)
(* callback of the supervisor, for every value of the constants.          *)
(*                                                                         *)
(* PidValid and TapOwnership are not inductive as they stand: reload_add  *)
(* and create_vm_entry start a fresh entry, and the model keeps the last  *)
(* state of a name whose entry was freed, so the invariant must also say  *)
(* that a name with no entry is in TERMINATE (hence has no pid and no     *)
(* taps).  The three facts are stated per VM, so that a callback on v is  *)
(* shown to keep v consistent and to leave every other VM alone.          *)
(***************************************************************************)
EXTENDS SupervisorProofs

\* Everything the supervisor keeps about VM w agrees: its pid, its state,
\* the image it runs, the taps its entry holds and those on the host.
VMConsistent(w) ==
    /\ proc[w] # "none" <=> (w \in tracked /\ vmState[w] \in Running)
    /\ vmState[w] = "LOAD" => proc[w] = "loader"
    /\ vmState[w] = "RUN" => proc[w] = "bhyve"
    /\ hostTaps[w] = (IF w \in tracked THEN taps[w] ELSE 0)
    /\ taps[w] > 0 => vmState[w] \in Running
    /\ w \notin tracked => vmState[w] = "TERMINATE"

Safe == \A w \in VMs : VMConsistent(w)

\* The startup loop visits each name once, before its entry exists.
StartupFresh == phase = "startup" => \A v \in todo : v \notin tracked

SInv == IInv /\ Safe /\ StartupFresh

\* A VM whose bookkeeping a step leaves alone stays consistent.
LEMMA ConsistentFrame ==
    ASSUME NEW w \in VMs, VMConsistent(w),
           vmState'[w] = vmState[w], proc'[w] = proc[w], taps'[w] = taps[w],
           hostTaps'[w] = hostTaps[w], (w \in tracked') = (w \in tracked)
    PROVE  VMConsistent(w)'
BY DEF VMConsistent

\* start_virtual_machine keeps the VM it starts consistent, whichever of
\* its outcomes happens, and touches no other VM.  It is called on a VM in
\* TERMINATE (boot, delayed boot, reload), LOAD (the loader exited 0) or
\* RUN (a relaunch), and the VM is on the VM list after the call.
LEMMA StartSafe ==
    ASSUME TypeOK, NEW v \in VMs, NEW cf, NEW tr, NEW tm,
           cf[v] \in Entries, VMConsistent(v),
           vmState[v] \in {"TERMINATE", "LOAD", "RUN"},
           v \in tracked', vmState[v] # "TERMINATE" => v \in tracked,
           start_virtual_machine(v, cf, tr, tm)
    PROVE  /\ VMConsistent(v)'
           /\ \A w \in VMs \ {v} :
                 /\ vmState'[w] = vmState[w] /\ proc'[w] = proc[w]
                 /\ taps'[w] = taps[w] /\ hostTaps'[w] = hostTaps[w]
<1> DEFINE d == cf[v].def
           img == LaunchImage(d, vmState[v])
<1>1. d.nets \in Nat
  BY DefsAssumption DEF Entries, DefType
<1>2. PICK r \in assign_comport(v, cf, tr) :
          \/ /\ ~r.ok
             /\ timers' = [timers EXCEPT ![v] = tm]
             /\ UNCHANGED <<vmState, proc, taps, hostTaps, ascom, devs>>
          \/ /\ r.ok
             /\ ascom' = [ascom EXCEPT ![v] = r.com]
             /\ devs' = devs \cup r.dev
             /\ \/ /\ VM_CLEANUP(v)
                   /\ timers' = [timers EXCEPT ![v] = tm]
                \/ /\ vmState' = [vmState EXCEPT ![v] = StateOf(img)]
                   /\ proc' = [proc EXCEPT ![v] = img]
                   /\ taps' = [taps EXCEPT ![v] =
                                  IF vmState[v] = "TERMINATE" THEN d.nets
                                  ELSE @]
                   /\ hostTaps' = [hostTaps EXCEPT ![v] =
                                  IF vmState[v] = "TERMINATE" THEN @ + d.nets
                                  ELSE @]
                   /\ timers' = [timers EXCEPT ![v] =
                                  IF StateOf(img) = "LOAD" /\ d.lto
                                  THEN [tm EXCEPT !["loader"] = @ + 1]
                                  ELSE tm]
  BY DEF start_virtual_machine
<1>3. v \notin tracked => taps[v] = 0 /\ hostTaps[v] = 0 /\ proc[v] = "none"
  BY DEF VMConsistent, TypeOK, Running
<1>4. vmState[v] = "TERMINATE" => taps[v] = 0
  BY DEF VMConsistent, TypeOK, Running
<1>5. CASE ~r.ok
  <2>1. UNCHANGED <<vmState, proc, taps, hostTaps>>
    BY <1>2, <1>5
  <2>2. QED BY <1>3, <2>1 DEF VMConsistent, Running, States
<1>6. CASE r.ok
  <2>1. CASE VM_CLEANUP(v)
    BY <1>3, <2>1 DEF VM_CLEANUP, VMConsistent, TypeOK, Running
  <2>2. CASE /\ vmState' = [vmState EXCEPT ![v] = StateOf(img)]
             /\ proc' = [proc EXCEPT ![v] = img]
             /\ taps' = [taps EXCEPT ![v] =
                            IF vmState[v] = "TERMINATE" THEN d.nets ELSE @]
             /\ hostTaps' = [hostTaps EXCEPT ![v] =
                            IF vmState[v] = "TERMINATE" THEN @ + d.nets ELSE @]
    <3>1. /\ StateOf(img) \in Running
          /\ StateOf(img) = "LOAD" => img = "loader"
          /\ StateOf(img) = "RUN" => img = "bhyve"
          /\ img # "none"
      BY DEF StateOf, LaunchImage, Running, States
    <3>2. QED BY <1>1, <1>3, <1>4, <2>2, <3>1 DEF VMConsistent, TypeOK
  <2>3. QED BY <1>2, <1>6, <2>1, <2>2
<1>7. QED BY <1>5, <1>6

\* A step that keeps v consistent and leaves every other VM alone keeps
\* all VMs consistent.
LEMMA LocalStep ==
    ASSUME Safe, NEW v \in VMs, VMConsistent(v)',
           \A w \in VMs \ {v} :
              /\ vmState'[w] = vmState[w] /\ proc'[w] = proc[w]
              /\ taps'[w] = taps[w] /\ hostTaps'[w] = hostTaps[w]
              /\ (w \in tracked') = (w \in tracked)
    PROVE  Safe'
<1> SUFFICES ASSUME NEW w \in VMs PROVE VMConsistent(w)'
  BY DEF Safe
<1>1. CASE w = v
  BY <1>1
<1>2. CASE w # v
  BY <1>2, ConsistentFrame DEF Safe
<1>3. QED BY <1>1, <1>2

\* VM_CLEANUP makes v consistent whether or not v stays on the VM list.
LEMMA CleanupSafe ==
    ASSUME TypeOK, NEW v \in VMs, VMConsistent(v), v \in tracked, VM_CLEANUP(v)
    PROVE  /\ VMConsistent(v)'
           /\ \A w \in VMs \ {v} :
                 /\ vmState'[w] = vmState[w] /\ proc'[w] = proc[w]
                 /\ taps'[w] = taps[w] /\ hostTaps'[w] = hostTaps[w]
BY DEF VM_CLEANUP, VMConsistent, TypeOK, Running, States

\* create_vm_entry followed by the boot decision, on a name with no entry.
LEMMA CreateAndBootSafe ==
    ASSUME TypeOK, NEW v \in VMs, NEW cf, cf[v] \in Entries, VMConsistent(v),
           v \notin tracked, tracked' = tracked \cup {v}, create_and_boot(v, cf)
    PROVE  /\ VMConsistent(v)'
           /\ \A w \in VMs \ {v} :
                 /\ vmState'[w] = vmState[w] /\ proc'[w] = proc[w]
                 /\ taps'[w] = taps[w] /\ hostTaps'[w] = hostTaps[w]
<1>1. vmState[v] = "TERMINATE" /\ proc[v] = "none" /\ taps[v] = 0
      /\ hostTaps[v] = 0
  BY DEF VMConsistent, TypeOK, Running, States
<1>2. CASE UNCHANGED <<vmState, proc, taps, hostTaps>>
  BY <1>1, <1>2 DEF VMConsistent, Running, States
<1>3. CASE start_virtual_machine(v, cf, tracked \cup {v}, timers[v])
  BY <1>1, <1>3, StartSafe
<1>4. QED BY <1>2, <1>3 DEF create_and_boot

-----------------------------------------------------------------------------
(* Each callback keeps every VM consistent.                                *)

LEMMA StartupSafe ==
    ASSUME SInv, NEW v \in VMs, start_virtual_machines(v)
    PROVE  Safe' /\ StartupFresh'
<1>1. /\ v \notin tracked /\ conf[v] \in Entries /\ TypeOK /\ VMConsistent(v)
      /\ tracked' = tracked \cup {v}
  BY DEF start_virtual_machines, SInv, StartupFresh, IInv, EntriesExist, Safe
<1>2. Safe'
  BY <1>1, CreateAndBootSafe, LocalStep DEF start_virtual_machines, SInv
<1>3. StartupFresh'
  BY DEF start_virtual_machines, SInv, StartupFresh
<1>4. QED BY <1>2, <1>3

\* The exit callbacks keep the phase and never start the startup loop.
LEMMA ExitFresh ==
    ASSUME SInv, NEW v \in VMs, exit_delivered(v), tracked' \subseteq tracked
    PROVE  StartupFresh'
BY DEF exit_delivered, SInv, StartupFresh

LEMMA ExitLoadSafe ==
    ASSUME SInv, NEW v \in VMs, NEW st \in Statuses, on_vm_exit_load(v, st)
    PROVE  Safe'
<1>1. /\ v \in tracked /\ conf[v] \in Entries /\ TypeOK /\ VMConsistent(v)
      /\ vmState[v] = "LOAD" /\ tracked' = tracked
  BY DEF on_vm_exit_load, exit_delivered, SInv, IInv, EntriesExist, Safe
<1>2. CASE start_virtual_machine(v, conf, tracked, timers[v])
  BY <1>1, <1>2, StartSafe, LocalStep DEF SInv
<1>3. CASE stop_virtual_machine(v)
  BY <1>1, <1>3, CleanupSafe, LocalStep DEF SInv, stop_virtual_machine, clear_all_timers
<1>4. QED BY <1>2, <1>3 DEF on_vm_exit_load

LEMMA ExitRestartSafe ==
    ASSUME SInv, NEW v \in VMs, on_vm_exit_restart(v)
    PROVE  Safe'
<1>1. /\ v \in tracked /\ TypeOK /\ VMConsistent(v) /\ tracked' = tracked
      /\ VM_CLEANUP(v)
  BY DEF on_vm_exit_restart, exit_delivered, SInv, IInv, Safe
<1>2. QED BY <1>1, CleanupSafe, LocalStep DEF SInv

LEMMA ExitRunSafe ==
    ASSUME SInv, NEW v \in VMs, NEW st \in Statuses, on_vm_exit_run(v, st)
    PROVE  Safe'
<1>1. /\ v \in tracked /\ conf[v] \in Entries /\ TypeOK /\ VMConsistent(v)
      /\ vmState[v] = "RUN"
  BY DEF on_vm_exit_run, exit_delivered, SInv, IInv, EntriesExist, Safe
<1>2. CASE start_virtual_machine(v, conf, tracked, timers[v])
           /\ UNCHANGED tracked
  BY <1>1, <1>2, StartSafe, LocalStep DEF SInv
<1>3. CASE vm_stopped(v)
  BY <1>1, <1>3, CleanupSafe, LocalStep DEF SInv, vm_stopped,
     stop_virtual_machine
<1>4. QED BY <1>2, <1>3 DEF on_vm_exit_run

LEMMA ExitStopSafe ==
    ASSUME SInv, NEW v \in VMs, on_vm_exit_stop(v)
    PROVE  Safe'
<1>1. /\ v \in tracked /\ TypeOK /\ VMConsistent(v) /\ tracked' = tracked
      /\ VM_CLEANUP(v)
  BY DEF on_vm_exit_stop, exit_delivered, vm_stopped, stop_virtual_machine, clear_all_timers,
         SInv, IInv, Safe
<1>2. QED BY <1>1, CleanupSafe, LocalStep DEF SInv

LEMMA ExitRemoveSafe ==
    ASSUME SInv, NEW v \in VMs, on_vm_exit_remove(v)
    PROVE  Safe'
<1>1. /\ v \in tracked /\ TypeOK /\ VMConsistent(v)
      /\ tracked' = tracked \ {v} /\ VM_CLEANUP(v)
  BY DEF on_vm_exit_remove, free_vm_entry, exit_delivered, stop_virtual_machine, clear_all_timers, SInv,
         IInv, Safe
<1>2. VMConsistent(v)'
  BY <1>1, CleanupSafe DEF VMConsistent, VM_CLEANUP, Running, States
<1>3. QED BY <1>1, <1>2, CleanupSafe, LocalStep DEF SInv

LEMMA TimerSafe ==
    ASSUME SInv, NEW v \in VMs, NEW p \in Purposes, on_timer(v, p)
    PROVE  Safe'
<1>1. /\ v \in tracked /\ conf[v] \in Entries /\ TypeOK /\ VMConsistent(v)
      /\ tracked' = tracked
  BY DEF on_timer, SInv, IInv, EntriesExist, Safe
<1>2. CASE vmState[v] = "TERMINATE"
           /\ start_virtual_machine(v, conf, tracked,
                                    [timers[v] EXCEPT ![p] = @ - 1])
  BY <1>1, <1>2, StartSafe, LocalStep DEF SInv
<1>3. CASE UNCHANGED <<vmState, proc, taps, hostTaps>>
  BY <1>1, <1>3, LocalStep DEF SInv, VMConsistent
<1>4. QED BY <1>2, <1>3 DEF on_timer

LEMMA ReloadAddSafe ==
    ASSUME SInv, NEW v \in VMs, reload_add(v)
    PROVE  Safe'
<1>1. /\ v \notin tracked /\ TypeOK /\ VMConsistent(v)
      /\ tracked' = tracked \cup {v} /\ conf'[v] \in Entries
      /\ create_and_boot(v, conf')
  BY NewEntryOK DEF reload_add, SInv, IInv, Safe, TypeOK
<1>2. QED BY <1>1, CreateAndBootSafe, LocalStep DEF SInv

LEMMA ReloadUpdateSafe ==
    ASSUME SInv, NEW v \in VMs, reload_update(v)
    PROVE  Safe'
<1> DEFINE s == vmState[v]
<1>1. /\ v \in tracked /\ TypeOK /\ VMConsistent(v) /\ tracked' = tracked
      /\ NewEntry(v) \in Entries
  BY NewEntryOK DEF reload_update, SInv, IInv, Safe
<1>2. ASSUME NEW s2 \in {"STOP", "RESTART"}, s \in Running, Goto(v, s2)
      PROVE  Safe'
  <2>1. VMConsistent(v)'
    BY <1>1, <1>2 DEF Goto, VMConsistent, TypeOK, Running, States
  <2>2. QED BY <1>1, <1>2, <2>1, LocalStep DEF Goto, SInv, TypeOK
<1>3. CASE UNCHANGED <<vmState, proc, taps, hostTaps>>
  BY <1>1, <1>3, LocalStep DEF SInv, VMConsistent
<1>4. CASE s = "TERMINATE"
           /\ conf' = [conf EXCEPT ![v] = NewEntry(v)]
           /\ start_virtual_machine(v, conf', tracked, timers[v])
  <2>1. conf'[v] \in Entries
    BY <1>1, <1>4 DEF TypeOK
  <2>2. QED BY <1>1, <1>4, <2>1, StartSafe, LocalStep DEF SInv
<1>5. /\ "LOAD" \in Running /\ "RUN" \in Running
      /\ "STOP" \in Running /\ "RESTART" \in Running
  BY DEF Running, States
<1>6. QED BY <1>2, <1>3, <1>4, <1>5 DEF reload_update, acpi_stop, Goto

LEMMA ReloadFinishSafe ==
    ASSUME SInv, reload_finish
    PROVE  Safe'
<1> DEFINE Gone == {v \in tracked : newconf[v] = NoEntry}
           Dropped == {v \in Gone : vmState[v] = "TERMINATE"}
<1>1. /\ tracked' = tracked \ Dropped
      /\ vmState' = [v \in VMs |-> IF v \in Gone \ Dropped THEN "REMOVE"
                                   ELSE vmState[v]]
      /\ UNCHANGED <<proc, taps, hostTaps>>
  BY DEF reload_finish
<1>2. SUFFICES ASSUME NEW w \in VMs PROVE VMConsistent(w)'
  BY DEF Safe
<1>3. VMConsistent(w) /\ TypeOK
  BY DEF SInv, Safe, IInv
<1>4. CASE w \in Dropped
  BY <1>1, <1>3, <1>4 DEF VMConsistent, TypeOK, Running, States
<1>5. CASE w \in Gone \ Dropped
  BY <1>1, <1>3, <1>5 DEF VMConsistent, TypeOK, Running, States
<1>6. CASE w \notin Gone
  BY <1>1, <1>3, <1>6 DEF VMConsistent
<1>7. QED BY <1>4, <1>5, <1>6

LEMMA QuietSafe ==
    ASSUME SInv, reload_begin \/ stop_virtual_machines \/ shutdown_done
    PROVE  Safe' /\ StartupFresh'
<1>1. UNCHANGED <<tracked, vmState, proc, taps, hostTaps>> /\ phase' # "startup"
  BY DEF reload_begin, stop_virtual_machines, shutdown_done
<1>2. QED BY <1>1 DEF SInv, Safe, VMConsistent, StartupFresh

-----------------------------------------------------------------------------
(* The invariant, and the theorems.                                        *)

LEMMA InitSInv == Init => SInv
<1> SUFFICES ASSUME Init PROVE SInv
  OBVIOUS
<1>1. IInv
  BY InitIInv
<1>2. /\ tracked = {} /\ vmState = [v \in VMs |-> "TERMINATE"]
      /\ proc = [v \in VMs |-> "none"] /\ taps = [v \in VMs |-> 0]
      /\ hostTaps = [v \in VMs |-> 0]
  BY DEF Init
<1>3. QED BY <1>1, <1>2 DEF SInv, Safe, VMConsistent, StartupFresh, Running,
              States

LEMMA NextSInv == SInv /\ [Next]_vars => SInv'
<1> SUFFICES ASSUME SInv, [Next]_vars PROVE SInv'
  OBVIOUS
<1>1. IInv'
  BY NextIInv DEF SInv
<1>2. ASSUME NEW v \in VMs,
             \/ \E st \in Statuses : on_vm_exit_load(v, st) \/ on_vm_exit_run(v, st)
             \/ on_vm_exit_restart(v)
             \/ on_vm_exit_stop(v)
             \/ on_vm_exit_remove(v)
      PROVE  Safe' /\ StartupFresh'
  <2>1. \E u \in VMs : exit_delivered(u) /\ tracked' \subseteq tracked
    BY <1>2 DEF on_vm_exit_load, on_vm_exit_run, on_vm_exit_restart,
       on_vm_exit_stop, on_vm_exit_remove, vm_stopped
  <2>2. QED BY <1>2, <2>1, ExitFresh, ExitLoadSafe, ExitRunSafe,
               ExitRestartSafe, ExitStopSafe, ExitRemoveSafe
<1>3. ASSUME NEW v \in VMs, NEW p \in Purposes, on_timer(v, p)
      PROVE  Safe' /\ StartupFresh'
  BY <1>3, TimerSafe, SMTT(30) DEF on_timer, SInv, StartupFresh
<1>4. ASSUME NEW v \in VMs, reload_add(v) \/ reload_update(v)
      PROVE  Safe' /\ StartupFresh'
  BY <1>4, ReloadAddSafe, ReloadUpdateSafe
  DEF reload_add, reload_update, StartupFresh
<1>5. ASSUME reload_finish PROVE Safe' /\ StartupFresh'
  <2>1. Safe'
    BY <1>5, ReloadFinishSafe, SMTT(30)
  <2>2. StartupFresh'
    BY <1>5 DEF reload_finish, StartupFresh
  <2>3. QED BY <2>1, <2>2
<1>6. ASSUME UNCHANGED vars PROVE Safe' /\ StartupFresh'
  <2>1. UNCHANGED <<tracked, vmState, proc, taps, hostTaps, phase, todo>>
    BY <1>6 DEF vars
  <2>2. QED BY <2>1 DEF SInv, Safe, VMConsistent, StartupFresh
<1>7. Safe' /\ StartupFresh'
  <2>1. CASE \E v \in VMs : start_virtual_machines(v)
    BY <2>1, StartupSafe
  <2>2. CASE \E v \in VMs :
               \/ \E st \in Statuses : on_vm_exit_load(v, st) \/ on_vm_exit_run(v, st)
               \/ on_vm_exit_restart(v)
               \/ on_vm_exit_stop(v)
               \/ on_vm_exit_remove(v)
    BY <2>2, <1>2
  <2>3. CASE \E v \in VMs, p \in Purposes : on_timer(v, p)
    BY <2>3, <1>3
  <2>4. CASE \E v \in VMs : reload_add(v) \/ reload_update(v)
    BY <2>4, <1>4
  <2>5. CASE reload_begin \/ stop_virtual_machines \/ shutdown_done
    BY <2>5, QuietSafe
  <2>6. QED BY <1>5, <1>6, <2>1, <2>2, <2>3, <2>4, <2>5 DEF Next
<1>8. QED BY <1>1, <1>7 DEF SInv

\* SInv holds in every reachable state of the daemon.
THEOREM SInvariant == Spec => []SInv
BY InitSInv, NextSInv, PTL DEF Spec

\* VM_PID is set exactly while a VM on the VM list is in a running state,
\* and names the loader in LOAD and bhyve in RUN, whatever order the
\* process exits, timers and reloads come in, for every set of VMs and
\* definitions: on_vm_exit, on_timer and reload_virtual_machines never
\* act on a stale or missing pid.
THEOREM PidValidity == Spec => []PidValid
<1>1. SInv => PidValid
  BY DEF SInv, Safe, VMConsistent, PidValid
<1>2. QED BY <1>1, SInvariant, PTL

\* No tap interface leaks or is lost: the host holds exactly the taps of
\* the VM entries on the list, and only running VMs hold any (VM_START,
\* VM_CLEANUP, free_vm_entry, through every callback).
THEOREM TapsNeverLeak == Spec => []TapOwnership
<1>1. SInv => TapOwnership
  BY DEF SInv, Safe, VMConsistent, TapOwnership
<1>2. QED BY <1>1, SInvariant, PTL

==============================================================================
