-------------------------- MODULE SupervisorTimers --------------------------
(***************************************************************************)
(* Proofs about the stop timeout and the reload of the supervisor, for    *)
(* every value of the constants.                                          *)
(*                                                                         *)
(* StopTimerOnlyWhileStopping is inductive relative to SInv once the      *)
(* shutdown is set apart: after stop_virtual_machines the phase never     *)
(* goes back, so the invariant holds trivially; before it, every stop     *)
(* timer belongs to a VM on the list in STOP, RESTART or REMOVE.  The    *)
(* proof then has to show that every start_virtual_machine call is made   *)
(* with no stop timer in hand (the VM is in TERMINATE, LOAD or RUN), and  *)
(* that every state change out of STOP, RESTART or REMOVE clears it.      *)
(***************************************************************************)
EXTENDS SupervisorSafety

Stopping == {"STOP", "RESTART", "REMOVE"}
Down == {"shutdown", "done"}

\* Before the shutdown: a stop timer of w belongs to a VM being stopped.
StopStrict(w) ==
    timers[w]["stop"] > 0 => w \in tracked /\ vmState[w] \in Stopping

AllStrict == \A w \in VMs : StopStrict(w)

TInv == SInv /\ StopTimerOnlyWhileStopping

-----------------------------------------------------------------------------
(* Lemmas about the helpers.                                               *)

\* start_virtual_machine writes the timers and the state of v only, and
\* leaves v's stop timer as in the timers tm it is given.
LEMMA StartTimers ==
    ASSUME TypeOK, NEW v \in VMs, NEW cf, NEW tr,
           NEW tm \in [Purposes -> Nat],
           start_virtual_machine(v, cf, tr, tm)
    PROVE  /\ \A w \in VMs \ {v} : timers'[w] = timers[w]
                                  /\ vmState'[w] = vmState[w]
           /\ timers'[v]["stop"] = tm["stop"]
<1>1. [tm EXCEPT !["loader"] = @ + 1]["stop"] = tm["stop"]
  BY DEF Purposes
<1>2. QED BY <1>1, ZenonT(60) DEF start_virtual_machine, VM_CLEANUP, TypeOK

\* create_vm_entry's boot decision leaves v's stop timer alone.
LEMMA CreateAndBootTimers ==
    ASSUME TypeOK, NEW v \in VMs, NEW cf, create_and_boot(v, cf)
    PROVE  /\ \A w \in VMs \ {v} : timers'[w] = timers[w]
                                  /\ vmState'[w] = vmState[w]
           /\ timers'[v]["stop"] = timers[v]["stop"]
<1>1. CASE UNCHANGED <<vmState, timers>>
  BY <1>1
<1>2. CASE timers' = [timers EXCEPT ![v] = set_timer(@, "boot")]
           /\ UNCHANGED vmState
  BY <1>2 DEF set_timer, TypeOK, Purposes
<1>3. CASE start_virtual_machine(v, cf, tracked \cup {v}, timers[v])
  BY <1>3, StartTimers DEF TypeOK
<1>4. QED BY <1>1, <1>2, <1>3 DEF create_and_boot

\* stop_virtual_machine clears every timer of v and touches no other VM.
LEMMA StopClears ==
    ASSUME TypeOK, NEW v \in VMs, stop_virtual_machine(v)
    PROVE  /\ \A w \in VMs \ {v} : timers'[w] = timers[w]
                                  /\ vmState'[w] = vmState[w]
           /\ timers'[v]["stop"] = 0
BY DEF stop_virtual_machine, clear_all_timers, VM_CLEANUP, NoTimers, TypeOK,
       Purposes

\* A step that keeps v's stop timer accounted for and leaves the timers
\* and the state of every other VM alone, dropping none from the list,
\* keeps every stop timer accounted for.
LEMMA StrictLocal ==
    ASSUME AllStrict, NEW v \in VMs, StopStrict(v)',
           \A w \in VMs \ {v} : /\ timers'[w] = timers[w]
                                /\ vmState'[w] = vmState[w]
                                /\ w \in tracked => w \in tracked'
    PROVE  AllStrict'
BY DEF AllStrict, StopStrict

\* A VM outside STOP, RESTART and REMOVE has no stop timer before the
\* shutdown.
LEMMA NoStopTimer ==
    ASSUME TypeOK, AllStrict, NEW v \in VMs, vmState[v] \notin Stopping
    PROVE  timers[v]["stop"] = 0
BY DEF AllStrict, StopStrict, TypeOK, Purposes

\* Once the shutdown has begun, no step ends it.
LEMMA DownStays ==
    ASSUME phase \in Down, [Next]_vars
    PROVE  phase' \in Down
<1>1. CASE \E v \in VMs : start_virtual_machines(v)
  BY <1>1 DEF start_virtual_machines, Down
<1>2. CASE \E v \in VMs, st \in Statuses : on_vm_exit_load(v, st)
  BY <1>2 DEF on_vm_exit_load, exit_delivered, Down
<1>3. CASE \E v \in VMs, st \in Statuses : on_vm_exit_run(v, st)
  BY <1>3 DEF on_vm_exit_run, exit_delivered, Down
<1>4. CASE \E v \in VMs : on_vm_exit_restart(v)
  BY <1>4 DEF on_vm_exit_restart, exit_delivered, Down
<1>5. CASE \E v \in VMs : on_vm_exit_stop(v)
  BY <1>5 DEF on_vm_exit_stop, exit_delivered, Down
<1>6. CASE \E v \in VMs : on_vm_exit_remove(v)
  BY <1>6 DEF on_vm_exit_remove, exit_delivered, Down
<1>7. CASE \E v \in VMs, p \in Purposes : on_timer(v, p)
  BY <1>7 DEF on_timer, Down
<1>8. CASE \E v \in VMs : reload_add(v)
  BY <1>8 DEF reload_add, Down
<1>9. CASE \E v \in VMs : reload_update(v)
  BY <1>9 DEF reload_update, Down
<1>10. CASE reload_begin
  BY <1>10 DEF reload_begin, Down
<1>11. CASE reload_finish
  BY <1>11 DEF reload_finish, Down
<1>12. CASE stop_virtual_machines
  BY <1>12 DEF stop_virtual_machines, Down
<1>13. CASE shutdown_done
  BY <1>13 DEF shutdown_done, Down
<1>14. CASE UNCHANGED vars
  BY <1>14 DEF vars, Down
<1>15. QED
  BY <1>1, <1>2, <1>3, <1>4, <1>5, <1>6, <1>7, <1>8, <1>9, <1>10, <1>11,
     <1>12, <1>13, <1>14 DEF Next

-----------------------------------------------------------------------------
(* Each action before the shutdown keeps every stop timer accounted for.  *)

LEMMA StartupStrict ==
    ASSUME SInv, AllStrict, NEW v \in VMs, start_virtual_machines(v)
    PROVE  AllStrict'
<1>1. TypeOK /\ v \notin tracked /\ tracked' = tracked \cup {v}
  BY DEF start_virtual_machines, SInv, IInv, StartupFresh
<1>2. timers[v]["stop"] = 0
  BY <1>1 DEF AllStrict, StopStrict, TypeOK, Purposes
<1>3. /\ \A w \in VMs \ {v} : timers'[w] = timers[w]
                             /\ vmState'[w] = vmState[w]
      /\ timers'[v]["stop"] = 0
  BY <1>1, <1>2, CreateAndBootTimers DEF start_virtual_machines
<1>4. StopStrict(v)'
  BY <1>3 DEF StopStrict
<1>5. QED BY <1>1, <1>3, <1>4, StrictLocal

\* The exit callbacks that start or stop v.
LEMMA ExitStrict ==
    ASSUME SInv, AllStrict, NEW v \in VMs,
           \/ \E st \in Statuses : on_vm_exit_load(v, st) \/ on_vm_exit_run(v, st)
           \/ on_vm_exit_restart(v)
           \/ on_vm_exit_stop(v)
           \/ on_vm_exit_remove(v)
    PROVE  AllStrict'
<1>1. TypeOK
  BY DEF SInv, IInv
<1>2. /\ \A w \in VMs \ {v} : /\ timers'[w] = timers[w]
                              /\ vmState'[w] = vmState[w]
                              /\ w \in tracked => w \in tracked'
      /\ timers'[v]["stop"] = 0
  <2>1. CASE \E st \in Statuses : on_vm_exit_load(v, st)
    <3>1. vmState[v] = "LOAD" /\ UNCHANGED tracked
      BY <2>1 DEF on_vm_exit_load
    <3>2. timers[v]["stop"] = 0
      BY <1>1, <3>1, NoStopTimer, SMTT(30) DEF Stopping
    <3>3. QED BY <1>1, <2>1, <3>1, <3>2, StartTimers, StopClears, SMTT(30)
          DEF on_vm_exit_load, TypeOK
  <2>2. CASE \E st \in Statuses : on_vm_exit_run(v, st)
    <3>1. vmState[v] = "RUN"
      BY <2>2 DEF on_vm_exit_run
    <3>2. timers[v]["stop"] = 0
      BY <1>1, <3>1, NoStopTimer DEF Stopping
    <3>3. QED BY <1>1, <2>2, <3>1, <3>2, StartTimers, StopClears, SMTT(30)
          DEF on_vm_exit_run, vm_stopped, TypeOK
  <2>3. CASE on_vm_exit_restart(v)
    BY <1>1, <2>3 DEF on_vm_exit_restart, VM_CLEANUP, set_timer, NoTimers,
                      TypeOK, Purposes
  <2>4. CASE on_vm_exit_stop(v)
    BY <1>1, <2>4, StopClears DEF on_vm_exit_stop, vm_stopped
  <2>5. CASE on_vm_exit_remove(v)
    BY <1>1, <2>5, StopClears DEF on_vm_exit_remove
  <2>6. QED BY <2>1, <2>2, <2>3, <2>4, <2>5
<1>3. StopStrict(v)'
  BY <1>2 DEF StopStrict
<1>4. QED BY <1>2, <1>3, StrictLocal


LEMMA TimerStrict ==
    ASSUME SInv, AllStrict, NEW v \in VMs, NEW p \in Purposes, on_timer(v, p)
    PROVE  AllStrict'
<1> DEFINE tm == [timers[v] EXCEPT ![p] = @ - 1]
<1>1. TypeOK /\ timers[v][p] > 0 /\ UNCHANGED tracked
  BY DEF on_timer, SInv, IInv
<1>2. tm \in [Purposes -> Nat] /\ tm["stop"] <= timers[v]["stop"]
  BY <1>1 DEF TypeOK, Purposes
<1>3. CASE vmState[v] = "TERMINATE" /\ start_virtual_machine(v, conf, tracked, tm)
  <2>1. timers[v]["stop"] = 0
    BY <1>1, <1>3, NoStopTimer DEF Stopping
  <2>2. tm["stop"] = 0
    BY <1>1, <1>2, <2>1 DEF TypeOK
  <2>3. /\ \A w \in VMs \ {v} : timers'[w] = timers[w] /\ vmState'[w] = vmState[w]
        /\ timers'[v]["stop"] = tm["stop"]
    <3>1. TypeOK /\ tm \in [Purposes -> Nat]
          /\ start_virtual_machine(v, conf, tracked, tm)
      BY <1>1, <1>2, <1>3
    <3>2. [tm EXCEPT !["loader"] = @ + 1]["stop"] = tm["stop"]
      BY <3>1 DEF Purposes
    <3>3. QED BY <3>1, <3>2, ZenonT(60) DEF start_virtual_machine, VM_CLEANUP, TypeOK
  <2>4. timers'[v]["stop"] = 0
    BY <2>2, <2>3
  <2>5. StopStrict(v)'
    BY <2>4 DEF StopStrict
  <2>6. QED BY <1>1, <2>3, <2>5, StrictLocal
<1>4. CASE timers' = [timers EXCEPT ![v] = tm] /\ UNCHANGED vmState
  <2>1. timers'[v]["stop"] <= timers[v]["stop"]
    BY <1>1, <1>2, <1>4 DEF TypeOK
  <2>2. StopStrict(v)'
    BY <1>1, <1>4, <2>1 DEF AllStrict, StopStrict, TypeOK, Purposes
  <2>3. QED BY <1>1, <1>4, <2>2, StrictLocal DEF TypeOK
<1>5. QED BY <1>3, <1>4 DEF on_timer

LEMMA ReloadAddStrict ==
    ASSUME SInv, AllStrict, NEW v \in VMs, reload_add(v)
    PROVE  AllStrict'
<1>1. TypeOK /\ v \notin tracked /\ tracked' = tracked \cup {v}
  BY DEF reload_add, SInv, IInv
<1>2. timers[v]["stop"] = 0
  BY <1>1 DEF AllStrict, StopStrict, TypeOK, Purposes
<1>3. /\ \A w \in VMs \ {v} : timers'[w] = timers[w] /\ vmState'[w] = vmState[w]
      /\ timers'[v]["stop"] = 0
  BY <1>1, <1>2, CreateAndBootTimers DEF reload_add
<1>4. StopStrict(v)'
  BY <1>3 DEF StopStrict
<1>5. QED BY <1>1, <1>3, <1>4, StrictLocal

\* Each branch of reload_update either keeps v out of STOP, RESTART and
\* REMOVE with no stop timer, or moves it into one of them.
LEMMA ReloadUpdateStrict ==
    ASSUME SInv, AllStrict, NEW v \in VMs, reload_update(v)
    PROVE  AllStrict'
<1>1. TypeOK /\ v \in tracked /\ UNCHANGED tracked
  BY DEF reload_update, SInv, IInv
<1>2. vmState[v] = "TERMINATE" => timers[v]["stop"] = 0
  BY <1>1, NoStopTimer DEF Stopping
<1>3. ASSUME NEW s2 \in Stopping, Goto(v, s2),
             \/ UNCHANGED timers
             \/ timers' = [timers EXCEPT ![v] = set_timer(@, "stop")]
      PROVE  AllStrict'
  <2>1. vmState'[v] = s2 /\ \A w \in VMs \ {v} : vmState'[w] = vmState[w]
    BY <1>1, <1>3 DEF Goto, TypeOK
  <2>2. \A w \in VMs \ {v} : timers'[w] = timers[w]
    BY <1>1, <1>3 DEF TypeOK
  <2>3. StopStrict(v)'
    BY <1>1, <2>1 DEF StopStrict
  <2>4. QED BY <1>1, <2>1, <2>2, <2>3, StrictLocal
<1>4. CASE vmState[v] = "TERMINATE"
           /\ timers' = [timers EXCEPT ![v] = set_timer(@, "boot")]
           /\ UNCHANGED vmState
  <2>1. timers'[v]["stop"] = 0
    BY <1>1, <1>2, <1>4 DEF TypeOK, set_timer, Purposes
  <2>2. StopStrict(v)'
    BY <2>1 DEF StopStrict
  <2>3. QED BY <1>1, <1>4, <2>2, StrictLocal DEF TypeOK
<1>5. CASE vmState[v] = "TERMINATE"
           /\ start_virtual_machine(v, conf', tracked, timers[v])
  <2>1. /\ \A w \in VMs \ {v} : timers'[w] = timers[w] /\ vmState'[w] = vmState[w]
        /\ timers'[v]["stop"] = 0
    BY <1>1, <1>2, <1>5, StartTimers DEF TypeOK
  <2>2. StopStrict(v)'
    BY <2>1 DEF StopStrict
  <2>3. QED BY <1>1, <2>1, <2>2, StrictLocal
<1>6. CASE UNCHANGED <<vmState, timers>>
  BY <1>1, <1>6 DEF AllStrict, StopStrict
<1>7. "STOP" \in Stopping /\ "RESTART" \in Stopping
  BY DEF Stopping
<1>8. QED BY <1>3, <1>4, <1>5, <1>6, <1>7 DEF reload_update, acpi_stop, Goto

\* reload_finish marks REMOVE every listed VM missing from the new list
\* that has a process, and drops with its timers every one that has none.
LEMMA ReloadFinishStrict ==
    ASSUME SInv, AllStrict, reload_finish
    PROVE  AllStrict'
<1> DEFINE Gone == {v \in tracked : newconf[v] = NoEntry}
           Up == {v \in Gone : vmState[v] \in {"LOAD", "RUN"}}
           Dropped == {v \in Gone : vmState[v] = "TERMINATE"}
<1>1. /\ tracked' = tracked \ Dropped
      /\ vmState' = [v \in VMs |-> IF v \in Gone \ Dropped THEN "REMOVE"
                                   ELSE vmState[v]]
      /\ timers' = [v \in VMs |->
                      IF v \in Up THEN set_timer(timers[v], "stop")
                      ELSE IF v \in Dropped THEN NoTimers
                      ELSE timers[v]]
  BY DEF reload_finish
<1>2. SUFFICES ASSUME NEW w \in VMs PROVE StopStrict(w)'
  BY DEF AllStrict
<1>3. TypeOK /\ StopStrict(w)
  BY DEF SInv, IInv, AllStrict
<1>4. CASE w \in Dropped
  BY <1>1, <1>4 DEF StopStrict, NoTimers, Purposes
<1>5. CASE w \in Gone \ Dropped
  BY <1>1, <1>5 DEF StopStrict, Stopping
<1>6. CASE w \notin Gone
  BY <1>1, <1>3, <1>6 DEF StopStrict
<1>7. QED BY <1>4, <1>5, <1>6

-----------------------------------------------------------------------------
(* The invariant, and the theorem.                                         *)

LEMMA InitTInv == Init => TInv
<1> SUFFICES ASSUME Init PROVE TInv
  OBVIOUS
<1>1. SInv
  BY InitSInv
<1>2. timers = [v \in VMs |-> NoTimers]
  BY DEF Init
<1>3. QED BY <1>1, <1>2 DEF TInv, StopTimerOnlyWhileStopping, NoTimers,
              Purposes

\* Before the shutdown the invariant says exactly that every stop timer is
\* accounted for.
LEMMA StrictIsStop ==
    ASSUME phase \notin Down
    PROVE  StopTimerOnlyWhileStopping <=> AllStrict
BY DEF StopTimerOnlyWhileStopping, AllStrict, StopStrict, Stopping, Down

LEMMA NextTInv == TInv /\ [Next]_vars => TInv'
<1> SUFFICES ASSUME TInv, [Next]_vars PROVE TInv'
  OBVIOUS
<1>1. SInv'
  BY NextSInv DEF TInv
<1>2. CASE phase' \in Down
  BY <1>1, <1>2 DEF TInv, StopTimerOnlyWhileStopping, Down
<1>3. CASE phase' \notin Down
  <2>1. phase \notin Down
    BY <1>3, DownStays
  <2>2. AllStrict
    BY <2>1, StrictIsStop DEF TInv
  <2>3. SInv
    BY DEF TInv
  <2>4. AllStrict'
    <3>1. CASE \E v \in VMs : start_virtual_machines(v)
      BY <2>2, <2>3, <3>1, StartupStrict
    <3>2. CASE \E v \in VMs :
                 \/ \E st \in Statuses : on_vm_exit_load(v, st) \/ on_vm_exit_run(v, st)
                 \/ on_vm_exit_restart(v)
                 \/ on_vm_exit_stop(v)
                 \/ on_vm_exit_remove(v)
      BY <2>2, <2>3, <3>2, ExitStrict
    <3>3. CASE \E v \in VMs, p \in Purposes : on_timer(v, p)
      BY <2>2, <2>3, <3>3, TimerStrict
    <3>4. CASE \E v \in VMs : reload_add(v)
      BY <2>2, <2>3, <3>4, ReloadAddStrict
    <3>5. CASE \E v \in VMs : reload_update(v)
      BY <2>2, <2>3, <3>5, ReloadUpdateStrict
    <3>6. CASE reload_finish
      BY <2>2, <2>3, <3>6, ReloadFinishStrict
    <3>7. CASE reload_begin \/ UNCHANGED vars
      BY <2>2, <3>7 DEF reload_begin, vars, AllStrict, StopStrict
    <3>8. CASE stop_virtual_machines \/ shutdown_done
      BY <1>3, <3>8 DEF stop_virtual_machines, shutdown_done, Down
    <3>9. QED BY <3>1, <3>2, <3>3, <3>4, <3>5, <3>6, <3>7, <3>8 DEF Next
  <2>5. QED BY <1>1, <1>3, <2>4 DEF TInv, StopTimerOnlyWhileStopping, AllStrict,
                                   StopStrict, Stopping, Down
<1>4. QED BY <1>2, <1>3

\* A stop timeout exists only for a VM on the list in STOP, RESTART or
\* REMOVE, or once the daemon is shutting down, whatever order the exits,
\* timers and reloads come in, for every set of VMs and definitions: no
\* stop timer survives a restart, a cleanup, a boot or a reload into a
\* state where on_timer would boot the VM again or kill a healthy one.
THEOREM StopTimerSafety == Spec => []StopTimerOnlyWhileStopping
<1>1. TInv => StopTimerOnlyWhileStopping
  BY DEF TInv
<1>2. QED BY <1>1, InitTInv, NextTInv, PTL DEF Spec


-----------------------------------------------------------------------------
(* A reload that gives a VM the definition it runs changes nothing.       *)

\* The step NoOpReloadStable constrains.
NoOpStep ==
    \A v \in tracked :
        (phase = "reload" /\ v \in todo /\ v \notin todo'
         /\ NewEntry(v).def = conf[v].def)
        => /\ vmState'[v] = vmState[v] /\ proc'[v] = proc[v]
           /\ taps'[v] = taps[v] /\ ascom'[v] = ascom[v]
           /\ timers'[v] = timers[v]

\* compare_vm_conf finds no difference between a definition and itself.
LEMMA CompareSame ==
    ASSUME NEW d \in DefType
    PROVE  ~compare_vm_conf(d, d)
BY SMTT(30) DEF compare_vm_conf, DefType

\* Only reload_update(v) takes v off the reload loop's list.
LEMMA OnlyUpdateVisits ==
    ASSUME IInv, [Next]_vars, NEW v \in tracked,
           phase = "reload", v \in todo, v \notin todo'
    PROVE  reload_update(v)
<1>1. ASSUME NEW u \in VMs, reload_add(u) \/ reload_update(u)
      PROVE  u = v
  BY <1>1 DEF reload_add, reload_update
<1>2. ~reload_add(v)
  BY DEF reload_add
<1>3. QED BY <1>1, <1>2, SMTT(30)
      DEF Next, vars, start_virtual_machines, on_vm_exit_load, on_vm_exit_run,
          on_vm_exit_restart, on_vm_exit_stop, on_vm_exit_remove,
          exit_delivered, on_timer, reload_begin, reload_finish,
          stop_virtual_machines, shutdown_done

LEMMA NoOpReloadStep == IInv /\ [Next]_vars => NoOpStep
<1> SUFFICES ASSUME IInv, [Next]_vars, NEW v \in tracked,
                    phase = "reload", v \in todo, v \notin todo',
                    NewEntry(v).def = conf[v].def
             PROVE  /\ vmState'[v] = vmState[v] /\ proc'[v] = proc[v]
                    /\ taps'[v] = taps[v] /\ ascom'[v] = ascom[v]
                    /\ timers'[v] = timers[v]
  BY DEF NoOpStep
<1>1. reload_update(v)
  BY OnlyUpdateVisits
<1>2. conf[v].def \in DefType
  BY DefsAssumption DEF IInv, EntriesExist, Entries
<1>3. ~RebootOnChange(v)
  BY <1>2, CompareSame DEF RebootOnChange
<1>4. \A B : ~BootChangedTo(v, B)
  BY DEF BootChangedTo
<1>5. ~ReloadActs(v)
  BY <1>3, <1>4 DEF ReloadActs
<1>6. UNCHANGED <<vmState, proc, taps, ascom, timers>>
  BY <1>1, <1>3, <1>4, <1>5 DEF reload_update
<1>7. QED BY <1>6

\* Reloading a configuration in which a listed VM's definition is the one
\* it runs leaves that VM's state, process, taps, console and timers as
\* they were, for every set of VMs and definitions: reload_update never
\* restarts, stops or re-times a VM whose definition did not change.
THEOREM NoOpReloadStability == Spec => NoOpReloadStable
<1>1. IInv /\ [Next]_vars => [NoOpStep]_vars
  BY NoOpReloadStep
<1>2. QED BY <1>1, IInvariant, PTL DEF Spec, NoOpReloadStable, NoOpStep

==============================================================================
