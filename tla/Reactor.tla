------------------------------- MODULE Reactor -------------------------------
(***************************************************************************)
(* The dispatch of one-shot events by bmd's reactor (event_loop, and the  *)
(* counting loop of stop_virtual_machines), composed with the supervisor. *)
(* Each struct event on the events list carries the callback and the VM  *)
(* entry as data.  A dispatch runs the callback and then, for an          *)
(* EV_ONESHOT event, unlinks and frees the struct event.  Between the two *)
(* steps, cur is the event just dispatched and nothing else runs.         *)
(*                                                                         *)
(* The callbacks free events of the VM they are called for:               *)
(* stop_virtual_machine frees its output and timer events, free_vm_entry  *)
(* every event whose data is the entry.  freed records whether the event *)
(* being dispatched is among them.                                         *)
(***************************************************************************)
EXTENDS Supervisor

NoEvent == [none |-> TRUE]

VARIABLE cur   \* the one-shot event whose callback has just returned

rvars == <<vars, cur>>

RInit == Init /\ cur = NoEvent

\* The EVFILT_PROC event of v's process: on_vm_exit.  In REMOVE it calls
\* free_vm_entry, which frees every event of v, the one dispatched too.
dispatch_exit(v) ==
    /\ cur = NoEvent
    /\ \/ \E st \in Statuses : on_vm_exit_load(v, st) \/ on_vm_exit_run(v, st)
       \/ on_vm_exit_restart(v) \/ on_vm_exit_stop(v) \/ on_vm_exit_remove(v)
    /\ cur' = [vm |-> v, filt |-> "proc", freed |-> vmState[v] = "REMOVE"]

\* An EVFILT_TIMER event of v: on_timer, which frees no event.
dispatch_timer(v) ==
    /\ cur = NoEvent
    /\ \E p \in Purposes : on_timer(v, p)
    /\ cur' = [vm |-> v, filt |-> "timer", freed |-> FALSE]

\* After the callback: LIST_REMOVE(event, next) and free(event).
retire ==
    /\ cur # NoEvent
    /\ cur' = NoEvent
    /\ UNCHANGED vars

\* Signal events (udata NULL) and main's own steps retire nothing.
other ==
    /\ cur = NoEvent
    /\ \/ \E v \in VMs : start_virtual_machines(v) \/ reload_add(v)
                         \/ reload_update(v)
       \/ reload_begin \/ reload_finish \/ stop_virtual_machines
       \/ shutdown_done
    /\ UNCHANGED cur

RNext ==
    \/ \E v \in VMs : dispatch_exit(v) \/ dispatch_timer(v)
    \/ retire
    \/ other

RSpec == RInit /\ [][RNext]_rvars

-----------------------------------------------------------------------------

\* The struct event that event_loop unlinks and frees after a callback is
\* still allocated: no callback frees the one-shot event it was called for.
RetireLiveEvent == cur # NoEvent => ~cur.freed

==============================================================================
