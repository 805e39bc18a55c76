------------------------------- MODULE Bhyved -------------------------------
(***************************************************************************)
(* bhyved (src/bhyved.c), the older stand-alone daemon: it reads one VM   *)
(* per file of ./conf.d, creates the taps of every VM that boots, starts  *)
(* bhyveload and then bhyve, and on bhyve's exit restarts it (exit 0) or  *)
(* removes its taps and destroys the VM.  SIGTERM ends the loop; its      *)
(* stop_virtual_machines does nothing.                                     *)
(*                                                                         *)
(* A tap is counted, not named: held[v] is the number of net_conf entries *)
(* of v whose nc->tap is set, which are the taps of v existing on the     *)
(* host (destroy_tap on a tap bhyved created does not fail).  A socket()  *)
(* call may fail at any time, so each of assign_taps, activate_taps and   *)
(* remove_taps may fail before touching a tap.                            *)
(***************************************************************************)
EXTENDS Naturals

CONSTANTS
    VMs,     \* the VM definitions found in ./conf.d (one per file)
    Boots,   \* those whose boot is not NO
    Nets     \* Nets[v]: the number of net entries of v

ASSUME BhyvedAssumption == Boots \subseteq VMs /\ Nets \in [VMs -> Nat]

States == {"STOP", "LOAD", "RUN", "TERMINATE"}
Images == {"none", "loader", "bhyve"}
Statuses == {"ok", "fail"}          \* exit 0, anything else
Phases == {"init", "startup", "run", "done", "exited"}

VARIABLES
    phase,   \* where main is; "exited" is exit(1) from inside a callback
    todo,    \* definitions start_virtual_machines has still to visit
    listed,  \* names with a struct vm on vm_list
    st,      \* vm->state
    proc,    \* the child running for v (its pid is vm->pid)
    held     \* net entries of v with a tap (nc->tap != NULL)

vars == <<phase, todo, listed, st, proc, held>>

-----------------------------------------------------------------------------
(* Tap helpers, as sets of the values held[v] may take afterwards.         *)

\* create_tap and add_to_bridge: one ioctl each, which may fail.
create_tap == BOOLEAN
add_to_bridge == BOOLEAN

\* activate_taps returns -1 when socket() fails (activate_tap's own
\* result is ignored); bhyve_load returns -1 when fork fails.
activate_taps == BOOLEAN
bhyve_load == BOOLEAN

\* destroy_vm forks and waits for bhyvectl --destroy; a failed fork or
\* wait is exit(1) of the daemon.  The phase afterwards.
destroy_vm == {"run", "exited"}

\* remove_taps: destroys every tap of v, unless socket() fails first.
remove_taps(h) == {0, h}

\* The k taps set when assign_taps' loop fails at net i.
TapsSetAt(i, c) == IF c THEN i ELSE i - 1

\* Variant of assign_taps whose loop stops one net short.
assign_taps_short(n) ==
    {[ok |-> TRUE, held |-> IF n > 0 THEN n - 1 ELSE 0],
     [ok |-> FALSE, held |-> 0]}
    \cup {[ok |-> FALSE, held |-> r] :
            r \in UNION {IF c /\ b THEN {} ELSE remove_taps(TapsSetAt(i, c)) :
                           i \in 1 .. n, c \in create_tap, b \in add_to_bridge}}

\* assign_taps: socket() may fail before any tap; else create_tap and
\* add_to_bridge per net, and a failure at net i (of create_tap, or of
\* add_to_bridge after the tap was made) calls remove_taps on the taps
\* set so far, which may itself fail.
assign_taps(n) ==
    {[ok |-> TRUE, held |-> n], [ok |-> FALSE, held |-> 0]}
    \cup {[ok |-> FALSE, held |-> r] :
            r \in UNION {IF c /\ b THEN {} ELSE remove_taps(TapsSetAt(i, c)) :
                           i \in 1 .. n, c \in create_tap, b \in add_to_bridge}}

\* start_vm with h taps set: activate_taps, then bhyve_load, whose
\* failure removes the taps.  ok means the loader runs and is watched.
start_vm(h) ==
    UNION {IF ~a THEN {[ok |-> FALSE, held |-> h]}
           ELSE IF ~l THEN {[ok |-> FALSE, held |-> r] : r \in remove_taps(h)}
           ELSE {[ok |-> TRUE, held |-> h]} :
             a \in activate_taps, l \in bhyve_load}

-----------------------------------------------------------------------------

Init ==
    /\ phase = "init"
    /\ todo = VMs
    /\ listed = {}
    /\ st = [v \in VMs |-> "STOP"]
    /\ proc = [v \in VMs |-> "none"]
    /\ held = [v \in VMs |-> 0]

\* start_virtual_machines registers SIGTERM, SIGINT and SIGHUP; main
\* returns 1 if that fails.
register_signals ==
    /\ phase = "init"
    /\ \/ phase' = IF VMs = {} THEN "run" ELSE "startup"
       \/ phase' = "exited"
    /\ UNCHANGED <<todo, listed, st, proc, held>>

\* One turn of the loop of start_virtual_machines: a VM that does not
\* boot is listed in STOP; otherwise assign_taps and start_vm, and on a
\* failure of either the struct vm is freed and the VM is not listed.
start_virtual_machine(v) ==
    /\ phase = "startup"
    /\ v \in todo
    /\ todo' = todo \ {v}
    /\ phase' = IF todo' = {} THEN "run" ELSE "startup"
    /\ \/ /\ v \notin Boots
          /\ listed' = listed \cup {v}
          /\ UNCHANGED <<st, proc, held>>
       \/ /\ v \in Boots
          /\ \E a \in assign_taps(Nets[v]) :
               \/ /\ ~a.ok
                  /\ held' = [held EXCEPT ![v] = a.held]
                  /\ UNCHANGED <<listed, st, proc>>
               \/ /\ a.ok
                  /\ \E r \in start_vm(a.held) :
                       /\ held' = [held EXCEPT ![v] = r.held]
                       /\ IF r.ok
                          THEN /\ listed' = listed \cup {v}
                               /\ st' = [st EXCEPT ![v] = "LOAD"]
                               /\ proc' = [proc EXCEPT ![v] = "loader"]
                          ELSE UNCHANGED <<listed, st, proc>>

\* Variant of exec_bhyve that forgets vm->state = RUN.
exec_bhyve_nostate(v) ==
    \/ /\ proc' = [proc EXCEPT ![v] = "none"]
       /\ UNCHANGED <<phase, st>>
    \/ /\ phase' = "exited"
       /\ proc' = [proc EXCEPT ![v] = "none"]
       /\ UNCHANGED st
    \/ /\ proc' = [proc EXCEPT ![v] = "bhyve"]
       /\ UNCHANGED <<phase, st>>

\* exec_bhyve for v, whose loader was just reaped: a failed malloc
\* returns -1 (ignored by the caller), a failed fork is exit(1), else
\* bhyve runs in RUN.
exec_bhyve(v) ==
    \/ /\ proc' = [proc EXCEPT ![v] = "none"]
       /\ UNCHANGED <<phase, st>>
    \/ /\ phase' = "exited"
       /\ proc' = [proc EXCEPT ![v] = "none"]
       /\ UNCHANGED st
    \/ /\ proc' = [proc EXCEPT ![v] = "bhyve"]
       /\ st' = [st EXCEPT ![v] = "RUN"]
       /\ UNCHANGED phase

\* The EVFILT_PROC event of v's process, after waitpid.  LOAD: exec_bhyve
\* whatever the loader's status.  RUN: exit 0 is a reboot and start_vm
\* runs again (its result is ignored); anything else removes the taps,
\* runs bhyvectl --destroy (exit(1) if it cannot be forked or waited for)
\* and leaves v in TERMINATE.
on_exit(v, s) ==
    /\ phase = "run"
    /\ v \in listed
    /\ proc[v] # "none"
    /\ \/ /\ st[v] = "LOAD"
          /\ exec_bhyve(v)
          /\ UNCHANGED held
       \/ /\ st[v] = "RUN" /\ s = "ok"
          /\ \E r \in start_vm(held[v]) :
               /\ held' = [held EXCEPT ![v] = r.held]
               /\ proc' = [proc EXCEPT ![v] = IF r.ok THEN "loader" ELSE "none"]
               /\ st' = [st EXCEPT ![v] = IF r.ok THEN "LOAD" ELSE "RUN"]
          /\ UNCHANGED phase
       \/ /\ st[v] = "RUN" /\ s = "fail"
          /\ \E r \in remove_taps(held[v]) : held' = [held EXCEPT ![v] = r]
          /\ proc' = [proc EXCEPT ![v] = "none"]
          /\ st' = [st EXCEPT ![v] = "TERMINATE"]
          /\ phase' \in destroy_vm
    /\ UNCHANGED <<todo, listed>>

\* SIGTERM or SIGINT, or a kevent error: event_loop returns, the empty
\* stop_virtual_machines runs and main returns.
shutdown ==
    /\ phase = "run"
    /\ phase' = "done"
    /\ UNCHANGED <<todo, listed, st, proc, held>>

Next ==
    \/ register_signals
    \/ \E v \in VMs : start_virtual_machine(v)
    \/ \E v \in VMs, s \in Statuses : on_exit(v, s)
    \/ shutdown

Spec == Init /\ [][Next]_vars

-----------------------------------------------------------------------------
(* Properties.                                                             *)

\* Every variable holds a value of its kind.
TypeOK ==
    /\ phase \in Phases
    /\ todo \subseteq VMs
    /\ listed \subseteq VMs
    /\ st \in [VMs -> States]
    /\ proc \in [VMs -> Images]
    /\ held \in [VMs -> Nat]

\* Every child bhyved forked belongs to a listed VM whose state names the
\* image it runs, so the EVFILT_PROC handler takes the branch for it
\* (exec_bhyve after a loader, restart or teardown after bhyve).
ChildMatchesState ==
    \A v \in VMs :
        proc[v] # "none" =>
            /\ v \in listed
            /\ st[v] = IF proc[v] = "loader" THEN "LOAD" ELSE "RUN"

\* bhyve is only ever exec'd with a tap for every net of the VM:
\* exec_bhyve passes nc->tap of each net, over restarts too.
BhyveHasTaps ==
    \A v \in VMs : proc[v] = "bhyve" => held[v] = Nets[v]

\* A VM bhyved believes to be loading or running has a process whose exit
\* it will see; otherwise it stays in LOAD or RUN with nothing to wake it.
ActiveHasProcess ==
    phase = "run" =>
        \A v \in listed : st[v] \in {"LOAD", "RUN"} => proc[v] # "none"

\* Taps exist only for a VM that has a running process: a VM that failed
\* to start or was torn down holds none.
NoTapLeak ==
    \A v \in VMs : held[v] > 0 => v \in listed /\ proc[v] # "none"

==============================================================================
