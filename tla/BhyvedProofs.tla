---------------------------- MODULE BhyvedProofs ----------------------------
(***************************************************************************)
(* Proofs about bhyved for every conf.d and every net count.  BhyveHasTaps *)
(* is not inductive: bhyve inherits the taps the loader phase had, so the *)
(* invariant must also say that a loader runs only with all its taps.    *)
(***************************************************************************)
EXTENDS Bhyved, TLAPS

\* Any child of v, loader or bhyve, runs with a tap for every net.
ChildHasTaps == \A v \in VMs : proc[v] # "none" => held[v] = Nets[v]

\* The startup loop has not yet touched the VMs it has still to visit.
TodoIdle == \A v \in todo : v \notin listed /\ proc[v] = "none"

BInv == TypeOK /\ ChildMatchesState /\ ChildHasTaps /\ TodoIdle

\* What assign_taps returns: a count of taps, all of them on success.
LEMMA AssignTapsResult ==
    ASSUME NEW n \in Nat, NEW a \in assign_taps(n)
    PROVE  /\ a.ok \in BOOLEAN
           /\ a.held \in Nat
           /\ a.ok => a.held = n
<1>1. CASE a = [ok |-> TRUE, held |-> n]
  <2>1. a.ok = TRUE /\ a.held = n
    BY <1>1
  <2>2. a.held \in Nat
    BY <2>1
  <2> QED
    BY <2>1, <2>2, Zenon
<1>2. CASE a = [ok |-> FALSE, held |-> 0]
  <2>1. a.ok = FALSE /\ a.held = 0
    BY <1>2
  <2>2. a.held \in Nat
    BY <2>1
  <2> QED
    BY <2>1, <2>2, Zenon
<1>3. CASE a \notin {[ok |-> TRUE, held |-> n], [ok |-> FALSE, held |-> 0]}
  <2>1. PICK i \in 1 .. n, c \in create_tap, b \in add_to_bridge :
             /\ ~(c /\ b)
             /\ a.held \in remove_taps(TapsSetAt(i, c))
             /\ a.ok = FALSE
    BY <1>3 DEF assign_taps
  <2>2. TapsSetAt(i, c) \in Nat
    BY DEF TapsSetAt, create_tap
  <2>3. a.held \in Nat
    BY <2>1, <2>2 DEF remove_taps
  <2> QED
    BY <2>1, <2>3
<1> QED
  BY <1>1, <1>2, <1>3

\* What start_vm returns for h taps: a count of taps, h on success.
LEMMA StartVmResult ==
    ASSUME NEW h \in Nat, NEW r \in start_vm(h)
    PROVE  /\ r.ok \in BOOLEAN
           /\ r.held \in Nat
           /\ r.ok => r.held = h
<1>1. PICK a \in activate_taps, l \in bhyve_load :
         r \in IF ~a THEN {[ok |-> FALSE, held |-> h]}
               ELSE IF ~l THEN {[ok |-> FALSE, held |-> x] : x \in remove_taps(h)}
               ELSE {[ok |-> TRUE, held |-> h]}
  BY DEF start_vm
<1>2. CASE ~a
  <2>1. r.ok = FALSE /\ r.held = h
    BY <1>1, <1>2
  <2> QED
    BY <2>1
<1>3. CASE a /\ ~l
  <2>1. PICK x \in remove_taps(h) : r = [ok |-> FALSE, held |-> x]
    BY <1>1, <1>3
  <2>2. r.ok = FALSE /\ r.held \in Nat
    BY <2>1 DEF remove_taps
  <2> QED
    BY <2>2
<1>4. CASE a /\ l
  <2>1. r.ok = TRUE /\ r.held = h
    BY <1>1, <1>4
  <2> QED
    BY <2>1
<1> QED
  BY <1>2, <1>3, <1>4 DEF activate_taps, bhyve_load

LEMMA InitBInv == Init => BInv
BY BhyvedAssumption DEF Init, BInv, TypeOK, ChildMatchesState, ChildHasTaps, TodoIdle,
   Phases, States, Images

\* One turn of the startup loop keeps BInv.
LEMMA StartStep ==
    ASSUME BInv, NEW v \in VMs, start_virtual_machine(v)
    PROVE  BInv'
<1> USE DEF BInv, TypeOK, ChildMatchesState, ChildHasTaps, TodoIdle, Phases, States,
            Images
<1>1. CASE v \notin Boots
  BY <1>1 DEF start_virtual_machine
<1>2. CASE v \in Boots
  <2>1. PICK a \in assign_taps(Nets[v]) :
           \/ /\ ~a.ok
              /\ held' = [held EXCEPT ![v] = a.held]
              /\ UNCHANGED <<listed, st, proc>>
           \/ /\ a.ok
              /\ \E r \in start_vm(a.held) :
                   /\ held' = [held EXCEPT ![v] = r.held]
                   /\ IF r.ok
                      THEN /\ listed' = listed \cup {v}
                           /\ st' = [st EXCEPT ![v] = "LOAD"]
                           /\ proc' = [proc EXCEPT ![v] = "loader"]
                      ELSE UNCHANGED <<listed, st, proc>>
    BY <1>2 DEF start_virtual_machine
  <2>2. a.ok \in BOOLEAN /\ a.held \in Nat /\ (a.ok => a.held = Nets[v])
    BY AssignTapsResult, BhyvedAssumption
  <2>3. /\ todo' = todo \ {v} /\ v \in todo
        /\ todo' \subseteq VMs /\ phase' \in Phases
    BY DEF start_virtual_machine
  <2>4. proc[v] = "none" /\ v \notin listed
    BY <2>3
  <2>5. CASE a.ok = FALSE
    <3>1. held' = [held EXCEPT ![v] = a.held] /\ UNCHANGED <<listed, st, proc>>
      BY <2>1, <2>5, Zenon
    <3> QED
      BY <2>2, <2>3, <2>4, <3>1
  <2>6. CASE a.ok = TRUE
    <3>1. PICK r \in start_vm(a.held) :
             /\ held' = [held EXCEPT ![v] = r.held]
             /\ IF r.ok
                THEN /\ listed' = listed \cup {v}
                     /\ st' = [st EXCEPT ![v] = "LOAD"]
                     /\ proc' = [proc EXCEPT ![v] = "loader"]
                ELSE UNCHANGED <<listed, st, proc>>
      BY <2>1, <2>6, Zenon
    <3>2. a.held = Nets[v] /\ a.held \in Nat
      BY <2>2, <2>6
    <3>3. r.ok \in BOOLEAN /\ r.held \in Nat /\ (r.ok => r.held = a.held)
      BY <3>2, StartVmResult
    <3>4. CASE r.ok = TRUE
      <4>1. /\ held' = [held EXCEPT ![v] = Nets[v]]
            /\ listed' = listed \cup {v}
            /\ st' = [st EXCEPT ![v] = "LOAD"]
            /\ proc' = [proc EXCEPT ![v] = "loader"]
        BY <3>1, <3>2, <3>3, <3>4, Zenon
      <4> QED
        BY <2>3, <3>2, <4>1
    <3>5. CASE r.ok = FALSE
      <4>1. held' = [held EXCEPT ![v] = r.held] /\ UNCHANGED <<listed, st, proc>>
        BY <3>1, <3>5, Zenon
      <4> QED
        BY <2>3, <2>4, <3>3, <4>1
    <3> QED
      BY <3>3, <3>4, <3>5
  <2> QED
    BY <2>2, <2>5, <2>6
<1> QED
  BY <1>1, <1>2

\* The exit handler keeps BInv.
LEMMA ExitStep ==
    ASSUME BInv, NEW v \in VMs, NEW s \in Statuses, on_exit(v, s)
    PROVE  BInv'
<1> USE DEF BInv, TypeOK, ChildMatchesState, ChildHasTaps, TodoIdle, Phases, States,
            Images
<1>0. held[v] \in Nat /\ proc[v] # "none"
  BY DEF on_exit
<1>1. CASE st[v] = "LOAD"
  <2>1. exec_bhyve(v) /\ UNCHANGED held /\ UNCHANGED <<todo, listed>>
    BY <1>1 DEF on_exit
  <2> QED
    BY <1>0, <2>1 DEF exec_bhyve, on_exit
<1>2. CASE st[v] = "RUN" /\ s = "ok"
  <2>1. PICK r \in start_vm(held[v]) :
           /\ held' = [held EXCEPT ![v] = r.held]
           /\ proc' = [proc EXCEPT ![v] = IF r.ok THEN "loader" ELSE "none"]
           /\ st' = [st EXCEPT ![v] = IF r.ok THEN "LOAD" ELSE "RUN"]
    BY <1>2 DEF on_exit
  <2>2. r.ok \in BOOLEAN /\ r.held \in Nat /\ (r.ok => r.held = held[v])
    BY <1>0, StartVmResult
  <2>3. UNCHANGED <<phase, todo, listed>>
    BY <1>2 DEF on_exit
  <2> QED
    BY <1>0, <2>1, <2>2, <2>3 DEF on_exit
<1>3. CASE st[v] = "RUN" /\ s = "fail"
  <2>1. PICK r \in remove_taps(held[v]) : held' = [held EXCEPT ![v] = r]
    BY <1>3 DEF on_exit
  <2>2. /\ proc' = [proc EXCEPT ![v] = "none"]
        /\ st' = [st EXCEPT ![v] = "TERMINATE"]
        /\ phase' \in destroy_vm
        /\ UNCHANGED <<todo, listed>>
    BY <1>3 DEF on_exit
  <2> QED
    BY <1>0, <2>1, <2>2 DEF remove_taps, destroy_vm
<1> QED
  BY <1>1, <1>2, <1>3 DEF on_exit

LEMMA NextBInv == BInv /\ [Next]_vars => BInv'
<1> SUFFICES ASSUME BInv, [Next]_vars PROVE BInv'
  OBVIOUS
<1>1. CASE register_signals
  BY <1>1 DEF register_signals, BInv, TypeOK, ChildMatchesState,
     ChildHasTaps, TodoIdle, Phases
<1>2. CASE \E v \in VMs : start_virtual_machine(v)
  BY <1>2, StartStep
<1>3. CASE \E v \in VMs, s \in Statuses : on_exit(v, s)
  BY <1>3, ExitStep
<1>4. CASE shutdown
  BY <1>4 DEF shutdown, BInv, TypeOK, ChildMatchesState, ChildHasTaps, TodoIdle,
     Phases
<1>5. CASE UNCHANGED vars
  BY <1>5 DEF vars, BInv, TypeOK, ChildMatchesState, ChildHasTaps, TodoIdle
<1> QED
  BY <1>1, <1>2, <1>3, <1>4, <1>5 DEF Next

\* BInv holds in every state bhyved reaches.
THEOREM BInvariant == Spec => []BInv
BY InitBInv, NextBInv, PTL DEF Spec

\* Every child bhyved forked belongs to a listed VM in the state for its
\* image, whatever the configuration (ChildMatchesState).
THEOREM ChildrenMatchStates == Spec => []ChildMatchesState
<1>1. BInv => ChildMatchesState
  BY DEF BInv
<1> QED
  BY <1>1, BInvariant, PTL

\* bhyve never runs without a tap for each of its nets, over restarts
\* and failed starts (BhyveHasTaps).
THEOREM BhyveAlwaysHasTaps == Spec => []BhyveHasTaps
<1>1. BInv => BhyveHasTaps
  BY DEF BInv, ChildHasTaps, BhyveHasTaps
<1> QED
  BY <1>1, BInvariant, PTL

==============================================================================
