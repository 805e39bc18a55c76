----------------------------- MODULE Supervisor -----------------------------
(***************************************************************************)
(* The VM supervisor of bmd (src/bmd.c): one reactor thread that starts   *)
(* VMs, handles the exit of their loader and bhyve processes, fires their *)
(* one-shot timers, reconciles the tracked VMs against a reloaded         *)
(* configuration on SIGHUP and stops everything on SIGTERM.               *)
(*                                                                         *)
(* Every action is one callback of the reactor run to completion, so     *)
(* actions are atomic.  A process exit and the delivery of its EVFILT_PROC *)
(* event are one step: nothing in the daemon observes a process between   *)
(* the two.  Timing is abstracted: a timer may fire at any moment, a       *)
(* process may exit at any moment with any status.                        *)
(***************************************************************************)
EXTENDS Integers, FiniteSets

CONSTANTS
    VMs,          \* names of VM definitions that may appear in a config file
    Defs,         \* the VM definitions (struct vm_conf) a config may give
    ProbeTries,   \* candidate /dev/nmdmNB paths assign_comport probes (5)
    NmdmOffset,   \* gl_conf->nmdm_offset, the floor of auto console numbers
    MaxExit,      \* bound on process exits delivered (environment)
    MaxReload     \* bound on SIGHUP reloads (environment)

BootKinds == {"NO", "YES", "ONESHOT", "ALWAYS"}

\* conf->comport as a number: -1 is NULL (no console), AutoCom is "auto",
\* n >= 0 is the literal "/dev/nmdm<n>B".
AutoCom == -2
ComValues == {-1, AutoCom} \cup Nat

\* A definition keeps the fields the supervisor's control flow reads:
\* boot, boot_delay > 0, reboot_on_change, the number of nets, whether the
\* backend has a loader phase, loader_timeout >= 0, comport, install and
\* backend == BHYVE.
DefType == [boot : BootKinds, delay : BOOLEAN, roc : BOOLEAN, nets : Nat,
            loader : BOOLEAN, lto : BOOLEAN, com : ComValues,
            install : BOOLEAN, bhyve : BOOLEAN]

ASSUME VMsAssumption == IsFiniteSet(VMs)
ASSUME DefsAssumption == Defs \subseteq DefType
ASSUME BoundsAssumption ==
    /\ ProbeTries \in Nat \ {0}
    /\ NmdmOffset \in Nat
    /\ MaxExit \in Nat
    /\ MaxReload \in Nat

\* A struct vm_conf_entry: a definition parsed by the reload numbered gen.
Entries == [name : VMs, def : Defs, gen : 0 .. MaxReload]
NoEntry == [none |-> TRUE]

States == {"TERMINATE", "LOAD", "RUN", "STOP", "RESTART", "REMOVE"}
Running == States \ {"TERMINATE"}        \* VM_PID is valid
Images == {"none", "loader", "bhyve"}    \* the child process VM_PID runs
Purposes == {"boot", "loader", "stop"}   \* why set_timer was called
Statuses == {"ok", "fail", "signal"}     \* exit 0, exit != 0, signalled
Phases == {"startup", "run", "reload", "shutdown", "done"}

NoTimers == [p \in Purposes |-> 0]

VARIABLES
    phase,     \* where the daemon is: main's startup, event_loop, ...
    todo,      \* names the startup or reload loop has still to visit
    tracked,   \* names with a struct vm_entry on vm_list
    conf,      \* VM_CONF: the entry a VM runs with
    newconf,   \* VM_NEWCONF during a reload
    confList,  \* vm_conf_list: the active entries
    newList,   \* the new_list being reconciled
    freed,     \* entries given to free_vm_conf_entry
    vmState,   \* VM_STATE
    proc,      \* the process behind VM_PID
    inst,      \* VM_CONF(vm)->install
    taps,      \* length of VM_TAPS: taps the entry holds
    hostTaps,  \* tap interfaces on the host created for each name
    ascom,     \* VM_ASCOMPORT as an nmdm number, -1 when NULL
    devs,      \* nmdm numbers present under /dev
    timers,    \* one-shot EVFILT_TIMER events on the events list, per VM
    count,     \* stop_virtual_machines' count of processes to wait for
    killed,    \* VMs whose current process was sent VM_POWEROFF
    reaped,    \* VMs whose VM_PID was already collected by waitpid
    nExit,     \* exits delivered so far (bound)
    nReload    \* reloads done so far (bound)

vars == <<phase, todo, tracked, conf, newconf, confList, newList, freed,
          vmState, proc, inst, taps, hostTaps, ascom, devs, timers, count,
          killed, reaped, nExit, nReload>>

-----------------------------------------------------------------------------
(* Helpers called from the callbacks.                                      *)

\* get_nmdm_number: the digits of a comport; "auto" has none and gives 0.
get_nmdm_number(c) == IF c = AutoCom THEN 0 ELSE c

\* Variant of NmdmInUse that overlooks the consoles already assigned.
NmdmInUse_noascom(cf, tr) ==
    {NmdmOffset - 1} \cup devs \cup {get_nmdm_number(cf[w].def.com) : w \in tr}

\* The nmdm numbers assign_comport compares: every tracked VM's configured
\* and assigned comport, every nmdm device under /dev, and the offset floor.
NmdmInUse(cf, tr) ==
    {NmdmOffset - 1} \cup devs
    \cup {get_nmdm_number(cf[w].def.com) : w \in tr}
    \cup {ascom[w] : w \in tr}

\* The value of max after assign_comport's loops, as the set of greatest
\* elements (a singleton, since the set is finite and nonempty).
MaxNmdm(cf, tr) ==
    {m \in NmdmInUse(cf, tr) : \A x \in NmdmInUse(cf, tr) : x <= m}

\* The "auto" case of assign_comport: open /dev/nmdm<max+i>B for i in
\* 1 .. ProbeTries and take the first that opens, or fail when none does.
AutoProbe(cf, tr) ==
    {[ok |-> TRUE, com |-> m + k, dev |-> IF stays THEN {m + k} ELSE {}] :
        m \in MaxNmdm(cf, tr), k \in 1 .. ProbeTries, stays \in BOOLEAN}
    \cup {[ok |-> FALSE, com |-> -1, dev |-> {}]}

\* Variant of assign_comport without the "already assigned" check.
assign_comport_noreuse(v, cf, tr) ==
    LET c == cf[v].def.com IN
    IF c = -1 THEN {[ok |-> TRUE, com |-> ascom[v], dev |-> {}]}
    ELSE IF c # AutoCom THEN {[ok |-> TRUE, com |-> c, dev |-> {}]}
    ELSE AutoProbe(cf, tr)

\* assign_comport: the possible results [ok, com, dev] of one call for v,
\* dev being the device node the probe opened, if it outlives the close
\* (whether a closed nmdm node stays under /dev is up to the kernel).
assign_comport(v, cf, tr) ==
    LET c == cf[v].def.com IN
    IF c = -1 \/ ascom[v] # -1
    THEN {[ok |-> TRUE, com |-> ascom[v], dev |-> {}]}
    ELSE IF c # AutoCom
    THEN {[ok |-> TRUE, com |-> c, dev |-> {}]}
    ELSE AutoProbe(cf, tr)

\* VM_START chooses the loader unless the loader has just finished.
LaunchImage(d, s) == IF d.loader /\ s # "LOAD" THEN "loader" ELSE "bhyve"
StateOf(img) == IF img = "loader" THEN "LOAD" ELSE "RUN"

\* start_virtual_machine returned early, leaving VM_PID and VM_STATE as
\* they were: a process that on_vm_exit already collected stays recorded.
StalePid(v) == reaped' = IF proc[v] = "none" THEN reaped ELSE reaped \cup {v}

\* VM_CLEANUP: destroy the taps, forget the pid, back to TERMINATE.
VM_CLEANUP(v) ==
    /\ vmState' = [vmState EXCEPT ![v] = "TERMINATE"]
    /\ proc' = [proc EXCEPT ![v] = "none"]
    /\ taps' = [taps EXCEPT ![v] = 0]
    /\ hostTaps' = [hostTaps EXCEPT ![v] = @ - taps[v]]

\* Variant of stop_virtual_machine without clear_all_timers.
stop_virtual_machine_keeptimers(v) ==
    /\ UNCHANGED timers
    /\ VM_CLEANUP(v)

\* clear_all_timers: delete every timer event of v.
clear_all_timers(v) == timers' = [timers EXCEPT ![v] = NoTimers]

\* stop_virtual_machine: clear_all_timers and VM_CLEANUP.
stop_virtual_machine(v) ==
    /\ clear_all_timers(v)
    /\ VM_CLEANUP(v)

\* Variant of start_virtual_machine that assigns taps on every start,
\* including the bhyve start that follows the loader.
start_virtual_machine_retap(v, cf, tr, tm) ==
    LET d == cf[v].def
        img == LaunchImage(d, vmState[v])
    IN \E r \in assign_comport(v, cf, tr) :
        \/ /\ ~r.ok
           /\ timers' = [timers EXCEPT ![v] = tm]
           /\ UNCHANGED <<vmState, proc, taps, hostTaps, ascom, devs>>
           /\ StalePid(v)
        \/ /\ r.ok
           /\ UNCHANGED reaped
           /\ ascom' = [ascom EXCEPT ![v] = r.com]
           /\ devs' = devs \cup r.dev
           /\ \/ /\ VM_CLEANUP(v)
                 /\ timers' = [timers EXCEPT ![v] = tm]
              \/ /\ vmState' = [vmState EXCEPT ![v] = StateOf(img)]
                 /\ proc' = [proc EXCEPT ![v] = img]
                 /\ taps' = [taps EXCEPT ![v] = d.nets]
                 /\ hostTaps' = [hostTaps EXCEPT ![v] = @ + d.nets]
                 /\ timers' = [timers EXCEPT ![v] =
                                IF StateOf(img) = "LOAD" /\ d.lto
                                THEN [tm EXCEPT !["loader"] = @ + 1]
                                ELSE tm]

\* start_virtual_machine(v) with the definitions cf, the tracked names tr
\* and tm the timers v has when the call is made.  VM_START assigns and
\* activates the taps when the VM starts from TERMINATE, then forks the
\* loader or bhyve; a loader start arms the loader timeout.
start_virtual_machine(v, cf, tr, tm) ==
    LET d == cf[v].def
        s == vmState[v]
        img == LaunchImage(d, s)
    IN \E r \in assign_comport(v, cf, tr) :
        \/ /\ ~r.ok
           /\ timers' = [timers EXCEPT ![v] = tm]
           /\ UNCHANGED <<vmState, proc, taps, hostTaps, ascom, devs>>
           /\ StalePid(v)
        \/ /\ r.ok
           /\ UNCHANGED reaped
           /\ ascom' = [ascom EXCEPT ![v] = r.com]
           /\ devs' = devs \cup r.dev
           \* VM_START < 0, or it forked and wait_for_vm failed: the child is
           \* powered off, waited for and cleaned up (920-929).
           /\ \/ /\ VM_CLEANUP(v)
                 /\ timers' = [timers EXCEPT ![v] = tm]
              \/ /\ vmState' = [vmState EXCEPT ![v] = StateOf(img)]
                 /\ proc' = [proc EXCEPT ![v] = img]
                 /\ taps' = [taps EXCEPT ![v] =
                                IF s = "TERMINATE" THEN d.nets ELSE @]
                 /\ hostTaps' = [hostTaps EXCEPT ![v] =
                                IF s = "TERMINATE" THEN @ + d.nets ELSE @]
                 /\ timers' = [timers EXCEPT ![v] =
                                IF StateOf(img) = "LOAD" /\ d.lto
                                THEN [tm EXCEPT !["loader"] = @ + 1]
                                ELSE tm]

\* VM_POWEROFF: the VM's process is sent SIGKILL; its exit comes later.
VM_POWEROFF(v) == killed' = killed \cup {v}

\* set_timer(vm, ...) for purpose p, on top of the timers tm.
set_timer(tm, p) == [tm EXCEPT ![p] = @ + 1]

\* compare_vm_conf(a, b) != 0: the definitions differ in more than boot.
compare_vm_conf(a, b) == [a EXCEPT !.boot = b.boot] # b

-----------------------------------------------------------------------------
(* Initial state: main() has parsed the config file into vm_conf_list;    *)
(* no VM entry exists yet and start_virtual_machines is about to run.     *)

Init ==
    \E names \in SUBSET VMs, cf \in [VMs -> Defs] :
        /\ conf = [v \in VMs |-> IF v \in names
                                 THEN [name |-> v, def |-> cf[v], gen |-> 0]
                                 ELSE NoEntry]
        /\ confList = {conf[v] : v \in names}
        /\ todo = names
        /\ phase = IF names = {} THEN "run" ELSE "startup"
        /\ inst = [v \in VMs |-> v \in names /\ cf[v].install]
        /\ tracked = {}
        /\ newconf = [v \in VMs |-> NoEntry]
        /\ newList = {}
        /\ freed = {}
        /\ vmState = [v \in VMs |-> "TERMINATE"]
        /\ proc = [v \in VMs |-> "none"]
        /\ taps = [v \in VMs |-> 0]
        /\ hostTaps = [v \in VMs |-> 0]
        /\ ascom = [v \in VMs |-> -1]
        /\ devs = {}
        /\ timers = [v \in VMs |-> NoTimers]
        /\ count = 0
        /\ killed = {}
        /\ reaped = {}
        /\ nExit = 0
        /\ nReload = 0

\* After create_vm_entry(v) with definitions cf: stay idle when boot is NO,
\* arm the boot delay timer, or start the VM now.
create_and_boot(v, cf) ==
    LET d == cf[v].def IN
    \/ /\ d.boot = "NO"
       /\ UNCHANGED <<vmState, proc, taps, hostTaps, ascom, devs, timers,
                      reaped>>
    \/ /\ d.boot # "NO" /\ d.delay
       /\ timers' = [timers EXCEPT ![v] = set_timer(@, "boot")]
       /\ UNCHANGED <<vmState, proc, taps, hostTaps, ascom, devs, reaped>>
    \/ /\ d.boot # "NO" /\ ~d.delay
       /\ start_virtual_machine(v, cf, tracked \cup {v}, timers[v])

\* One turn of the loop of start_virtual_machines over vm_conf_list.
start_virtual_machines(v) ==
    /\ phase = "startup"
    /\ v \in todo
    /\ todo' = todo \ {v}
    /\ phase' = IF todo' = {} THEN "run" ELSE "startup"
    /\ tracked' = tracked \cup {v}
    /\ create_and_boot(v, conf)
    /\ UNCHANGED <<conf, newconf, confList, newList, freed, inst, count,
                   killed, nExit, nReload>>

-----------------------------------------------------------------------------
(* on_vm_exit: the EVFILT_PROC event of v's process, after waitpid.  In   *)
(* stop_virtual_machines' loop each such event also decrements count.    *)

\* Variant of exit_delivered that keeps counting exits after count is 0.
exit_delivered_nocount(v) ==
    /\ phase \in {"run", "shutdown"}
    /\ v \in tracked
    /\ proc[v] # "none"
    /\ v \notin reaped
    /\ nExit < MaxExit
    /\ nExit' = nExit + 1
    /\ count' = IF phase = "shutdown" THEN count - 1 ELSE count
    /\ killed' = killed \ {v}
    /\ UNCHANGED <<phase, todo, newconf, newList, nReload>>

exit_delivered(v) ==
    /\ phase \in {"run", "shutdown"}
    /\ phase = "shutdown" => count > 0
    /\ v \in tracked
    /\ proc[v] # "none"
    /\ v \notin reaped
    /\ nExit < MaxExit
    /\ nExit' = nExit + 1
    /\ count' = IF phase = "shutdown" THEN count - 1 ELSE count
    /\ killed' = killed \ {v}
    /\ UNCHANGED <<phase, todo, newconf, newList, nReload>>

\* The loader exited: exit 0 starts bhyve, anything else stops the VM.
on_vm_exit_load(v, st) ==
    /\ exit_delivered(v)
    /\ vmState[v] = "LOAD"
    /\ \/ /\ st = "ok"
          /\ start_virtual_machine(v, conf, tracked, timers[v])
       \/ /\ st # "ok"
          /\ stop_virtual_machine(v)
          /\ UNCHANGED <<ascom, devs, reaped>>
    /\ UNCHANGED <<tracked, conf, confList, freed, inst>>

\* Variant of the RESTART case that sets TERMINATE without cleaning up.
on_vm_exit_restart_nocleanup(v) ==
    /\ exit_delivered(v)
    /\ vmState[v] = "RESTART"
    /\ vmState' = [vmState EXCEPT ![v] = "TERMINATE"]
    /\ timers' = [timers EXCEPT ![v] = set_timer(NoTimers, "boot")]
    /\ UNCHANGED <<tracked, conf, confList, freed, inst, ascom, devs, proc,
                   taps, hostTaps, reaped>>

\* A reboot finished its shutdown: clean up and boot again after a delay.
on_vm_exit_restart(v) ==
    /\ exit_delivered(v)
    /\ vmState[v] = "RESTART"
    /\ VM_CLEANUP(v)
    /\ timers' = [timers EXCEPT ![v] = set_timer(NoTimers, "boot")]
    /\ UNCHANGED <<tracked, conf, confList, freed, inst, ascom, devs, reaped>>

\* The STOP case, also reached by falling through from RUN.
vm_stopped(v) ==
    /\ stop_virtual_machine(v)
    /\ inst' = [inst EXCEPT ![v] = FALSE]
    /\ UNCHANGED <<tracked, conf, confList, freed, ascom, devs, reaped>>

\* The RUN case restarts bhyve when install is off, the process exited
\* and either boot is ALWAYS or the bhyve backend exited 0 (a reboot).
Relaunch(v, st) ==
    /\ ~inst[v]
    /\ st \in {"ok", "fail"}
    /\ \/ conf[v].def.boot = "ALWAYS"
       \/ conf[v].def.bhyve /\ st = "ok"

on_vm_exit_run(v, st) ==
    /\ exit_delivered(v)
    /\ vmState[v] = "RUN"
    /\ \/ /\ Relaunch(v, st)
          /\ start_virtual_machine(v, conf, tracked, timers[v])
          /\ UNCHANGED <<tracked, conf, confList, freed, inst>>
       \/ /\ ~Relaunch(v, st)
          /\ vm_stopped(v)

on_vm_exit_stop(v) ==
    /\ exit_delivered(v)
    /\ vmState[v] = "STOP"
    /\ vm_stopped(v)

\* free_vm_entry: the assigned console and the current definition entry
\* are freed with the VM entry.
free_vm_entry(v) ==
    /\ freed' = freed \cup {conf[v]}
    /\ ascom' = [ascom EXCEPT ![v] = -1]

\* A removed VM exited: clean up, unlink and free_vm_entry.
on_vm_exit_remove(v) ==
    /\ exit_delivered(v)
    /\ vmState[v] = "REMOVE"
    /\ stop_virtual_machine(v)
    /\ tracked' = tracked \ {v}
    /\ free_vm_entry(v)
    /\ UNCHANGED <<conf, confList, inst, devs, reaped>>

\* Variant of on_timer that ignores a timeout in every running state.
on_timer_nokill(v, p) ==
    /\ phase \in {"run", "shutdown"}
    /\ phase = "shutdown" => count > 0
    /\ v \in tracked
    /\ timers[v][p] > 0
    /\ LET tm == [timers[v] EXCEPT ![p] = @ - 1] IN
       \/ /\ vmState[v] = "TERMINATE"
          /\ start_virtual_machine(v, conf, tracked, tm)
          /\ UNCHANGED killed
       \/ /\ vmState[v] # "TERMINATE"
          /\ timers' = [timers EXCEPT ![v] = tm]
          /\ UNCHANGED <<vmState, proc, taps, hostTaps, ascom, devs, killed,
                         reaped>>
    /\ UNCHANGED <<phase, todo, tracked, conf, newconf, confList, newList,
                   freed, inst, count, nExit, nReload>>

\* on_timer: a boot timer starts a TERMINATE VM; otherwise the timer is a
\* loader or stop timeout and VM_POWEROFF kills the process (its exit is
\* delivered later), except in RUN where the timer is ignored.
on_timer(v, p) ==
    /\ phase \in {"run", "shutdown"}
    /\ phase = "shutdown" => count > 0
    /\ v \in tracked
    /\ timers[v][p] > 0
    /\ LET tm == [timers[v] EXCEPT ![p] = @ - 1] IN
       \/ /\ vmState[v] = "TERMINATE"
          /\ start_virtual_machine(v, conf, tracked, tm)
          /\ UNCHANGED killed
       \/ /\ vmState[v] \in {"LOAD", "STOP", "REMOVE", "RESTART"}
          /\ VM_POWEROFF(v)
          /\ timers' = [timers EXCEPT ![v] = tm]
          /\ UNCHANGED <<vmState, proc, taps, hostTaps, ascom, devs, reaped>>
       \/ /\ vmState[v] = "RUN"
          /\ timers' = [timers EXCEPT ![v] = tm]
          /\ UNCHANGED <<vmState, proc, taps, hostTaps, ascom, devs, killed,
                         reaped>>
    /\ UNCHANGED <<phase, todo, tracked, conf, newconf, confList, newList,
                   freed, inst, count, nExit, nReload>>

-----------------------------------------------------------------------------
(* reload_virtual_machines, run on SIGHUP.  It is one callback; the model *)
(* splits it into its loops, and no other action runs until it finishes.  *)

\* load_config_file succeeded: new_list holds the new definitions and
\* every VM_NEWCONF is cleared.  A failed parse returns before any change.
reload_begin ==
    /\ phase = "run"
    /\ nReload < MaxReload
    /\ \E names \in SUBSET VMs :
          \E cf \in [names -> Defs] :
            /\ newList' = {[name |-> v, def |-> cf[v], gen |-> nReload + 1] :
                              v \in names}
            /\ todo' = names
    /\ newconf' = [v \in VMs |-> NoEntry]
    /\ phase' = "reload"
    /\ nReload' = nReload + 1
    /\ UNCHANGED <<tracked, conf, confList, freed, vmState, proc, inst, taps,
                   hostTaps, ascom, devs, timers, count, killed, reaped, nExit>>

NewEntry(v) == CHOOSE e \in newList : e.name = v

\* lookup_vm_by_name found nothing: a new VM entry is created and booted.
reload_add(v) ==
    /\ phase = "reload"
    /\ v \in todo
    /\ v \notin tracked
    /\ conf' = [conf EXCEPT ![v] = NewEntry(v)]
    /\ newconf' = [newconf EXCEPT ![v] = NewEntry(v)]
    /\ inst' = [inst EXCEPT ![v] = NewEntry(v).def.install]
    /\ create_and_boot(v, conf')
    /\ tracked' = tracked \cup {v}
    /\ todo' = todo \ {v}
    /\ UNCHANGED <<phase, confList, newList, freed, count, killed, nExit,
                   nReload>>

\* The new definition asks for a reboot because it changed structurally.
RebootOnChange(v) ==
    LET d == NewEntry(v).def IN
    d.boot # "NO" /\ d.roc /\ compare_vm_conf(d, conf[v].def)

\* Variant of BootChangedTo that does not compare with the old boot.
BootChangedTo_nocmp(v, B) ==
    /\ ~RebootOnChange(v)
    /\ NewEntry(v).def.boot \in B

\* Otherwise only a change of boot to one of B matters.
BootChangedTo(v, B) ==
    /\ ~RebootOnChange(v)
    /\ NewEntry(v).def.boot # conf[v].def.boot
    /\ NewEntry(v).def.boot \in B

\* v moves to state s2 without touching its process.
Goto(v, s2) ==
    /\ vmState' = [vmState EXCEPT ![v] = s2]
    /\ UNCHANGED <<proc, taps, hostTaps, ascom, devs, conf, inst, reaped>>

\* VM_ACPI_POWEROFF and set_timer(stop_timeout), then state s2.
acpi_stop(v, s2) ==
    /\ Goto(v, s2)
    /\ timers' = [timers EXCEPT ![v] = set_timer(@, "stop")]

\* The conditions under which the found-VM branch changes anything.
ReloadActs(v) ==
    LET s == vmState[v] IN
    \/ RebootOnChange(v) /\ s \in {"TERMINATE", "LOAD", "RUN", "STOP"}
    \/ BootChangedTo(v, {"NO"}) /\ s \in {"LOAD", "RUN", "RESTART"}
    \/ BootChangedTo(v, {"YES", "ALWAYS"}) /\ s \in {"TERMINATE", "STOP"}

\* lookup_vm_by_name found v: VM_NEWCONF is set and the VM is driven
\* toward the new definition (reboot_on_change takes precedence).
reload_update(v) ==
    /\ phase = "reload"
    /\ v \in todo
    /\ v \in tracked
    /\ newconf' = [newconf EXCEPT ![v] = NewEntry(v)]
    /\ LET s == vmState[v] IN
       \/ /\ RebootOnChange(v) /\ s = "TERMINATE"
          /\ timers' = [timers EXCEPT ![v] = set_timer(@, "boot")]
          /\ UNCHANGED <<vmState, proc, taps, hostTaps, ascom, devs, conf,
                         inst, reaped>>
       \/ RebootOnChange(v) /\ s \in {"LOAD", "RUN"} /\ acpi_stop(v, "RESTART")
       \/ RebootOnChange(v) /\ s = "STOP" /\ Goto(v, "RESTART")
          /\ UNCHANGED timers
       \/ BootChangedTo(v, {"NO"}) /\ s \in {"LOAD", "RUN"}
          /\ acpi_stop(v, "STOP")
       \/ BootChangedTo(v, {"NO"}) /\ s = "RESTART" /\ Goto(v, "STOP")
          /\ UNCHANGED timers
       \/ /\ BootChangedTo(v, {"YES", "ALWAYS"}) /\ s = "TERMINATE"
          /\ conf' = [conf EXCEPT ![v] = NewEntry(v)]
          /\ inst' = [inst EXCEPT ![v] = NewEntry(v).def.install]
          /\ start_virtual_machine(v, conf', tracked, timers[v])
       \/ BootChangedTo(v, {"YES", "ALWAYS"}) /\ s = "STOP"
          /\ Goto(v, "RESTART") /\ UNCHANGED timers
       \/ /\ ~ReloadActs(v)
          /\ UNCHANGED <<vmState, proc, taps, hostTaps, ascom, devs, conf,
                         inst, timers, reaped>>
    /\ todo' = todo \ {v}
    /\ UNCHANGED <<phase, tracked, confList, newList, freed, count, killed,
                   nExit, nReload>>

\* The last two loops: a VM missing from the new list is shut down and
\* marked REMOVE (its entry unlinked from vm_conf_list and kept), or freed
\* at once when it has no process; every other VM adopts VM_NEWCONF.  The
\* old vm_conf_list is freed and new_list becomes vm_conf_list.
reload_finish ==
    /\ phase = "reload"
    /\ todo = {}
    /\ LET Gone == {v \in tracked : newconf[v] = NoEntry}
           Kept == tracked \ Gone
           Up == {v \in Gone : vmState[v] \in {"LOAD", "RUN"}}
           Dropped == {v \in Gone : vmState[v] = "TERMINATE"}
       IN /\ tracked' = tracked \ Dropped
          /\ vmState' = [v \in VMs |-> IF v \in Gone \ Dropped THEN "REMOVE"
                                       ELSE vmState[v]]
          /\ timers' = [v \in VMs |->
                          IF v \in Up THEN set_timer(timers[v], "stop")
                          ELSE IF v \in Dropped THEN NoTimers
                          ELSE timers[v]]
          /\ conf' = [v \in VMs |-> IF v \in Kept THEN newconf[v] ELSE conf[v]]
          /\ inst' = [v \in VMs |-> IF v \in Kept THEN newconf[v].def.install
                                    ELSE inst[v]]
          /\ ascom' = [v \in VMs |-> IF v \in Dropped THEN -1 ELSE ascom[v]]
          /\ freed' = freed \cup (confList \ {conf[v] : v \in Gone})
                            \cup {conf[v] : v \in Dropped}
    /\ confList' = newList
    /\ newList' = {}
    /\ newconf' = [v \in VMs |-> NoEntry]
    /\ phase' = "run"
    /\ UNCHANGED <<todo, proc, taps, hostTaps, devs, count, killed, reaped,
                   nExit, nReload>>

-----------------------------------------------------------------------------
(* SIGTERM ends event_loop; stop_virtual_machines sends an ACPI poweroff  *)
(* and arms a stop timer for every LOAD or RUN VM, counts them, and keeps *)
(* dispatching events until count process exits have been seen.          *)

stop_virtual_machines ==
    /\ phase = "run"
    /\ LET Up == {v \in tracked : vmState[v] \in {"LOAD", "RUN"}} IN
       /\ timers' = [v \in VMs |-> IF v \in Up THEN set_timer(timers[v], "stop")
                                   ELSE timers[v]]
       /\ count' = Cardinality(Up)
    /\ phase' = "shutdown"
    /\ UNCHANGED <<todo, tracked, conf, newconf, confList, newList, freed,
                   vmState, proc, inst, taps, hostTaps, ascom, devs, killed,
                   reaped, nExit, nReload>>

\* count reached 0: main frees everything and the daemon exits.
shutdown_done ==
    /\ phase = "shutdown"
    /\ count = 0
    /\ phase' = "done"
    /\ UNCHANGED <<todo, tracked, conf, newconf, confList, newList, freed,
                   vmState, proc, inst, taps, hostTaps, ascom, devs, timers,
                   count, killed, reaped, nExit, nReload>>

Next ==
    \/ \E v \in VMs :
          \/ start_virtual_machines(v)
          \/ \E st \in Statuses : on_vm_exit_load(v, st) \/ on_vm_exit_run(v, st)
          \/ on_vm_exit_restart(v)
          \/ on_vm_exit_stop(v)
          \/ on_vm_exit_remove(v)
          \/ \E p \in Purposes : on_timer(v, p)
          \/ reload_add(v)
          \/ reload_update(v)
    \/ reload_begin
    \/ reload_finish
    \/ stop_virtual_machines
    \/ shutdown_done

Spec == Init /\ [][Next]_vars

\* A process sent VM_POWEROFF exits: SIGKILL cannot be caught, so the
\* kernel delivers its EVFILT_PROC event, with a signal status.
KilledExit(v) ==
    /\ v \in killed
    /\ \/ on_vm_exit_load(v, "signal") \/ on_vm_exit_run(v, "signal")
       \/ on_vm_exit_restart(v) \/ on_vm_exit_stop(v) \/ on_vm_exit_remove(v)

\* What the code may rely on: the kernel fires every armed EVFILT_TIMER and
\* reports the exit of a killed process, and a callback or loop that has
\* started runs on.  A guest's own exit, a signal and a reload are up to
\* the environment and get no fairness.
Fairness ==
    /\ \A v \in VMs, p \in Purposes : WF_vars(on_timer(v, p))
    /\ \A v \in VMs : WF_vars(KilledExit(v))
    /\ \A v \in VMs : /\ WF_vars(start_virtual_machines(v))
                    /\ WF_vars(reload_add(v))
                    /\ WF_vars(reload_update(v))
    /\ WF_vars(reload_finish)
    /\ WF_vars(shutdown_done)

LiveSpec == Spec /\ Fairness

-----------------------------------------------------------------------------
(* Properties.                                                             *)

\* Every variable holds a value of its kind.
TypeOK ==
    /\ phase \in Phases
    /\ todo \subseteq VMs
    /\ tracked \subseteq VMs
    /\ conf \in [VMs -> Entries \cup {NoEntry}]
    /\ newconf \in [VMs -> Entries \cup {NoEntry}]
    /\ confList \subseteq Entries
    /\ newList \subseteq Entries
    /\ freed \subseteq Entries
    /\ vmState \in [VMs -> States]
    /\ proc \in [VMs -> Images]
    /\ inst \in [VMs -> BOOLEAN]
    /\ taps \in [VMs -> Nat]
    /\ hostTaps \in [VMs -> Nat]
    /\ ascom \in [VMs -> {-1} \cup Nat]
    /\ devs \subseteq Nat
    /\ timers \in [VMs -> [Purposes -> Nat]]
    /\ count \in Nat
    /\ killed \subseteq VMs
    /\ reaped \subseteq VMs
    /\ nExit \in 0 .. MaxExit
    /\ nReload \in 0 .. MaxReload

\* VM_PID names a process exactly when a tracked VM is in a running state
\* (spec section 8), and LOAD and RUN name the phase that process runs:
\* on_vm_exit, on_timer and the reload branches must agree on who has a
\* child.
PidValid ==
    \A v \in VMs :
        /\ proc[v] # "none" <=> (v \in tracked /\ vmState[v] \in Running)
        /\ vmState[v] = "LOAD" => proc[v] = "loader"
        /\ vmState[v] = "RUN" => proc[v] = "bhyve"

\* No tap interface leaks: the taps on the host created for a name are
\* exactly those its tracked VM entry holds, and an entry holds taps only
\* while it has a process (VM_START, VM_CLEANUP, free_vm_entry).
TapOwnership ==
    \A v \in VMs :
        /\ hostTaps[v] = (IF v \in tracked THEN taps[v] ELSE 0)
        /\ taps[v] > 0 => vmState[v] \in Running

\* assign_comport never gives an auto console already assigned to another
\* tracked VM (spec section 8, stability).
AutoComUnique ==
    \A v, w \in tracked :
        v # w /\ ascom[v] # -1 => ascom[v] # ascom[w]

\* A stop timeout only exists while the VM is being shut down: it cannot
\* survive into TERMINATE, where on_timer would boot the VM, nor into LOAD
\* or RUN, except for the stop timers stop_virtual_machines arms.
StopTimerOnlyWhileStopping ==
    \A v \in VMs :
        timers[v]["stop"] > 0 =>
            \/ v \in tracked /\ vmState[v] \in {"STOP", "RESTART", "REMOVE"}
            \/ phase \in {"shutdown", "done"}

\* Once assigned, a VM's console never changes while its entry lives, over
\* restarts and reloads (assign_comport's "already assigned" check).
ComportSticky ==
    [][\A v \in tracked \cap tracked' :
          ascom[v] # -1 => ascom'[v] = ascom[v]]_vars

\* A reload that gives a tracked VM the very definition it runs leaves its
\* state, process, taps, console and timers as they are (spec, scenario E).
NoOpReloadStable ==
    [][\A v \in tracked :
          (phase = "reload" /\ v \in todo /\ v \notin todo'
           /\ NewEntry(v).def = conf[v].def)
          => /\ vmState'[v] = vmState[v] /\ proc'[v] = proc[v]
             /\ taps'[v] = taps[v] /\ ascom'[v] = ascom[v]
             /\ timers'[v] = timers[v]]_vars

\* Spec section 3: at most one boot-delay, loader or stop timer is
\* outstanding per VM; a new one always cancels the prior one.
AtMostOneTimer ==
    \A v \in VMs : timers[v]["boot"] + timers[v]["loader"] + timers[v]["stop"] <= 1

\* Every entry on vm_conf_list is live: free_vm_entry and the reload never
\* free an entry that is still linked on the list.
ActiveDefsLive == confList \cap freed = {}

\* When the daemon exits after stop_virtual_machines, no VM process it
\* started is left running.
ShutdownLeavesNoProcess ==
    phase = "done" => \A v \in VMs : proc[v] = "none"

\* Spec section 3: while LOAD or RUN, a VM holds one tap per network spec of
\* its current definition.
TapsMatchDefinition ==
    \A v \in tracked :
        vmState[v] \in {"LOAD", "RUN"} => taps[v] = conf[v].def.nets


\* A pending timer of a VM in LOAD, STOP, RESTART or REMOVE is a loader or
\* stop timeout.
TimeoutArmed(v) ==
    /\ v \in tracked
    /\ vmState[v] \in {"LOAD", "STOP", "RESTART", "REMOVE"}
    /\ \E p \in Purposes : timers[v][p] > 0

\* A loader or a stop that has a timeout armed ends, whatever the guest
\* does: on_timer powers the process off and its exit takes the VM out
\* of the state (spec 4.2, "force power-off to cap worst-case shutdown
\* and boot latency"), unless the daemon exits first.  The one exception
\* is a VM_PID that on_vm_exit already collected (the early return of
\* start_virtual_machine, PidWatched): the power-off of such a pid has no
\* EVFILT_PROC to follow, and the VM keeps its state for ever.
TimeoutBoundsStop ==
    \A v \in VMs :
        TimeoutArmed(v) ~>
            \/ vmState[v] \notin {"LOAD", "STOP", "RESTART", "REMOVE"}
            \/ v \in reaped
            \/ phase = "done"
            \/ nExit = MaxExit

\* Spec 4.2 and 7: a timer boots a TERMINATE VM only when it is a delayed-
\* boot timer, and after a failed launch a relaunch is left to the boot
\* policy's timers.  on_timer (235-237) starts whatever VM it finds in
\* TERMINATE; it relies on every other timer being gone by then.  A bhyve
\* start that fails after the loader (VM_START at 914-917) cleans the VM
\* up without cancelling the loader timeout, which fires later.
BootOnlyOnBootTimer ==
    [][\A v \in VMs, p \in Purposes :
          on_timer(v, p) /\ vmState[v] = "TERMINATE" => p = "boot"]_vars

\* Spec 4.4: destroying a VM's process asks for an orderly shutdown and
\* powers it off once the stop timeout elapses; so SIGTERM ends with the
\* daemon exiting, however the guests react to the ACPI poweroff.
ShutdownCompletes ==
    phase = "shutdown" ~> (phase = "done" \/ nExit = MaxExit)


\* The sweep of reload_virtual_machines unlinks the definition entry of
\* every VM missing from the new list (LIST_REMOVE(VM_CONF_ENT(vm_ent))):
\* that entry must still be linked on vm_conf_list, or LIST_REMOVE writes
\* through the stale links of an entry unlinked by an earlier reload.
UnlinkOnlyLinked ==
    [][reload_finish =>
         \A v \in tracked : newconf[v] = NoEntry => conf[v] \in confList]_vars

\* A VM whose VM_PID names a process has one whose exit the kernel will
\* still report: on_vm_exit, the VM_POWEROFF of on_timer and the count of
\* stop_virtual_machines all wait for that EVFILT_PROC event.  It fails
\* when start_virtual_machine returns early after on_vm_exit has reaped
\* the loader (or the bhyve it relaunches) and leaves VM_PID in place.
PidWatched == \A v \in VMs : proc[v] # "none" => v \notin reaped

==============================================================================
