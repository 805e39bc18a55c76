------------------------------ MODULE DirectRun ------------------------------
(***************************************************************************)
(* direct_run (src/bmd.c), the `bmd run` command: one VM in the           *)
(* foreground on the stdio console.  It starts the loader (or bhyve),     *)
(* waits on a private kqueue for the process exit or the loader timeout,  *)
(* starts bhyve after a successful loader and waits for it with waitpid,  *)
(* then cleans up and returns 0; every failure jumps to err, which also   *)
(* cleans up and returns 1.                                                *)
(*                                                                         *)
(* VM_START, VM_CLEANUP and VM_POWEROFF are in vm.c, which is not in this *)
(* repository: VM_START forks the loader when the backend has one and     *)
(* the VM is not already in LOAD, else bhyve, creating the taps from      *)
(* TERMINATE; VM_CLEANUP destroys the taps; VM_POWEROFF kills the child.  *)
(* The EVFILT_READ events on stdin only forward input and change nothing. *)
(* waitpid on the own child, with no signal handler installed, does not   *)
(* fail.                                                                   *)
(***************************************************************************)
EXTENDS Integers

CONSTANT NetCounts   \* the numbers of nets a definition may have

ASSUME DirectRunAssumption == NetCounts \subseteq Nat

\* What direct_run reads of the definition lookup_vm_conf returns: whether
\* the backend has a loader, loader_timeout >= 0, the number of nets.
Defs == [loader : BOOLEAN, lto : BOOLEAN, nets : NetCounts]

Images == {"none", "loader", "bhyve"}
States == {"TERMINATE", "LOAD", "RUN"}
Pcs == {"init", "wait", "boot", "reap", "done"}

VARIABLES
    def,     \* the VM's definition
    pc,      \* the label direct_run is at
    vst,     \* VM_STATE(vm_ent)
    proc,    \* the child running (VM_PID)
    taps,    \* taps of the VM on the host
    evs,     \* kevents registered on eventq: "proc", "timer"
    rc       \* the value returned (-1 while running)

vars == <<def, pc, vst, proc, taps, evs, rc>>

\* VM_START: the image forked, the state it puts the VM in, its taps.
StartImage == IF def.loader /\ vst # "LOAD" THEN "loader" ELSE "bhyve"
StateOf(img) == IF img = "loader" THEN "LOAD" ELSE "RUN"
StartTaps == IF vst = "TERMINATE" THEN def.nets ELSE taps

\* VM_CLEANUP and free_vm_entry, then return r.  The child, if any, is
\* left as it is: the paths that get here kill it first or saw it exit.
cleanup_and_return(r) ==
    /\ taps' = 0
    /\ vst' = "TERMINATE"
    /\ rc' = r
    /\ pc' = "done"

Init ==
    /\ def \in Defs
    /\ pc = "init"
    /\ vst = "TERMINATE"
    /\ proc = "none"
    /\ taps = 0
    /\ evs = {}
    /\ rc = -1

\* kqueue, lookup_vm_conf or create_vm_entry failed: return 1 at once.
setup_fail ==
    /\ pc = "init"
    /\ pc' = "done"
    /\ rc' = 1
    /\ UNCHANGED <<vst, proc, taps, evs>>

\* Variant of launch whose kevent_set failure path leaves out VM_POWEROFF.
launch_nopoweroff ==
    /\ pc = "init"
    /\ \/ /\ cleanup_and_return(1)
          /\ UNCHANGED <<proc, evs>>
       \/ /\ proc' = StartImage
          /\ cleanup_and_return(1)
          /\ UNCHANGED evs
       \/ /\ proc' = StartImage
          /\ vst' = StateOf(StartImage)
          /\ taps' = StartTaps
          /\ evs' = {"proc"} \cup (IF StateOf(StartImage) = "LOAD" /\ def.lto
                                   THEN {"timer"} ELSE {})
          /\ pc' = "wait"
          /\ UNCHANGED rc

\* The entry exists.  assign_comport (a strdup of "stdio") or VM_START
\* fails: err.  Else the exit watch and, in LOAD with a loader timeout,
\* the timer are registered in one kevent_set, whose failure kills the
\* child (VM_POWEROFF) and goes to err.
launch ==
    /\ pc = "init"
    /\ \/ /\ cleanup_and_return(1)
          /\ UNCHANGED <<proc, evs>>
       \/ /\ proc' = "none"
          /\ cleanup_and_return(1)
          /\ UNCHANGED evs
       \/ /\ proc' = StartImage
          /\ vst' = StateOf(StartImage)
          /\ taps' = StartTaps
          /\ evs' = {"proc"} \cup (IF StateOf(StartImage) = "LOAD" /\ def.lto
                                   THEN {"timer"} ELSE {})
          /\ pc' = "wait"
          /\ UNCHANGED rc

\* kevent_get failed: VM_POWEROFF, err.
wait_fail ==
    /\ pc = "wait"
    /\ proc' = "none"
    /\ cleanup_and_return(1)
    /\ UNCHANGED evs

\* The watched process exited (waitpid reaps it): exit 0 leaves the loop,
\* anything else goes to err.
on_proc_exit(ok) ==
    /\ pc = "wait"
    /\ "proc" \in evs
    /\ proc # "none"
    /\ proc' = "none"
    /\ evs' = evs \ {"proc"}
    /\ IF ok THEN pc' = "boot" /\ UNCHANGED <<vst, taps, rc>>
             ELSE cleanup_and_return(1)

\* The loader timeout fired: VM_POWEROFF, err.
on_loader_timeout ==
    /\ pc = "wait"
    /\ "timer" \in evs
    /\ proc' = "none"
    /\ evs' = evs \ {"timer"}
    /\ cleanup_and_return(1)

\* Variant of boot without the bhyve phase after a loader.
boot_noload ==
    /\ pc = "boot"
    /\ cleanup_and_return(0)
    /\ UNCHANGED <<proc, evs>>

\* After the loop: from LOAD, VM_START starts bhyve (err on failure) and
\* waitpid waits for it; from RUN, bhyve already exited 0.
boot ==
    /\ pc = "boot"
    /\ \/ /\ vst = "LOAD"
          /\ \/ cleanup_and_return(1) /\ UNCHANGED proc
             \/ /\ proc' = StartImage
                /\ vst' = StateOf(StartImage)
                /\ taps' = StartTaps
                /\ pc' = "reap"
                /\ UNCHANGED rc
       \/ /\ vst = "RUN"
          /\ cleanup_and_return(0)
          /\ UNCHANGED proc
    /\ UNCHANGED evs

\* waitpid returns when bhyve exits, whatever its status: return 0.
reap ==
    /\ pc = "reap"
    /\ proc' = "none"
    /\ cleanup_and_return(0)
    /\ UNCHANGED evs

Next ==
    /\ UNCHANGED def
    /\ \/ setup_fail \/ launch \/ wait_fail \/ on_loader_timeout
       \/ \E ok \in BOOLEAN : on_proc_exit(ok)
       \/ boot \/ reap

Spec == Init /\ [][Next]_vars

-----------------------------------------------------------------------------

\* Every variable holds a value of its kind.
TypeOK ==
    /\ def \in Defs /\ pc \in Pcs /\ vst \in States /\ proc \in Images
    /\ taps \in Nat /\ evs \subseteq {"proc", "timer"} /\ rc \in {-1, 0, 1}

\* When direct_run returns, on every path, no child it forked is still
\* running and the VM's taps are destroyed.
ReturnsClean ==
    pc = "done" => proc = "none" /\ taps = 0

\* direct_run returns 0 only when the guest ran: bhyve was started and
\* has exited, never on a loader failure or timeout.
ZeroMeansGuestRan ==
    [][rc' = 0 /\ rc # 0 => vst = "RUN" /\ proc' = "none"]_vars

==============================================================================
