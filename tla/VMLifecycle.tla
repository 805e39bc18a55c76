----------------------------- MODULE VMLifecycle -----------------------------
(***************************************************************************)
(* What the supervisor promises about each VM instance, without states,   *)
(* timers, consoles or definitions (spec section 3, "Lifecycle", and      *)
(* section 4.2): an instance exists from the first time its name is seen; *)
(* it runs at most one child process at a time, a loader that may hand    *)
(* over to bhyve, and holds tap interfaces only while that child exists;  *)
(* a child's exit is followed by the cleanup that gives the taps back;    *)
(* an instance is destroyed only once its process has exited and the      *)
(* cleanup has completed.                                                  *)
(***************************************************************************)
EXTENDS Naturals

CONSTANT VMs

Children == {"none", "loader", "bhyve"}

VARIABLES
    live,    \* instances that exist
    child,   \* the process each instance runs
    held     \* tap interfaces on the host belonging to each instance

avars == <<live, child, held>>

AInit ==
    /\ live = {}
    /\ child = [v \in VMs |-> "none"]
    /\ held = [v \in VMs |-> 0]

\* An idle instance launches a loader or bhyve with the taps it needs.
Launch(v) ==
    /\ v \in live'
    /\ child[v] = "none"
    /\ held[v] = 0
    /\ child' \in {[child EXCEPT ![v] = c] : c \in {"loader", "bhyve"}}
    /\ held'[v] \in Nat
    /\ held' = [held EXCEPT ![v] = held'[v]]

\* The first time a name is seen it becomes an instance, which may be
\* launched in the same step.
Admit(v) ==
    /\ v \notin live
    /\ live' = live \cup {v}
    /\ \/ UNCHANGED <<child, held>>
       \/ Launch(v)

Start(v) ==
    /\ v \in live
    /\ Launch(v)
    /\ UNCHANGED live

\* The loader exited 0 and bhyve runs on the same taps.
Handover(v) ==
    /\ v \in live
    /\ child[v] = "loader"
    /\ child' = [child EXCEPT ![v] = "bhyve"]
    /\ UNCHANGED <<live, held>>

\* A bhyve that exited normally is relaunched, through the loader when the
\* backend has one, on the taps the instance already holds.
Relaunch(v) ==
    /\ v \in live
    /\ child[v] = "bhyve"
    /\ child' \in {[child EXCEPT ![v] = c] : c \in {"loader", "bhyve"}}
    /\ UNCHANGED <<live, held>>

\* The child exited and the cleanup destroyed every tap of the instance;
\* an instance that was to be removed is destroyed in the same step.
Reap(v) ==
    /\ v \in live
    /\ child[v] # "none"
    /\ child' = [child EXCEPT ![v] = "none"]
    /\ held' = [held EXCEPT ![v] = 0]
    /\ live' \in {live, live \ {v}}

\* Idle instances whose names left the configuration are destroyed.
Forget(S) ==
    /\ S \subseteq live
    /\ \A v \in S : child[v] = "none"
    /\ live' = live \ S
    /\ UNCHANGED <<child, held>>

ANext ==
    \/ \E v \in VMs : Admit(v) \/ Start(v) \/ Handover(v)
                      \/ Relaunch(v) \/ Reap(v)
    \/ \E S \in SUBSET VMs : Forget(S)

ASpec == AInit /\ [][ANext]_avars

-----------------------------------------------------------------------------

\* An instance that does not exist runs nothing and holds no taps, and an
\* instance holds taps only while it runs a child.
NoOrphan ==
    \A v \in VMs :
        /\ v \notin live => child[v] = "none"
        /\ child[v] = "none" => held[v] = 0

==============================================================================
