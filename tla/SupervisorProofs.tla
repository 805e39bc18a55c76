-------------------------- MODULE SupervisorProofs --------------------------
(***************************************************************************)
(* Proofs about the supervisor of bmd for every value of the constants.   *)
(*                                                                         *)
(* TypeOK is not inductive by itself: a callback reads the definition of *)
(* the VM it handles (conf[v].def) and the startup and reload loops read  *)
(* the entry of the name they visit, so the invariant has to say that     *)
(* those entries exist; VM_CLEANUP subtracts a VM's taps from the host's  *)
(* count, so it has to say that the host holds at least that many.        *)
(***************************************************************************)
EXTENDS Supervisor, FiniteSetTheorems, TLAPS

\* The definitions a callback reads exist, and the host count of taps
\* covers what each entry holds.
EntriesExist ==
    /\ \A v \in tracked : conf[v] \in Entries
    /\ phase = "startup" => \A v \in todo : conf[v] \in Entries
    /\ phase = "reload" => \A v \in todo : \E e \in newList : e.name = v

TapsCovered == \A v \in VMs : hostTaps[v] >= taps[v]

IInv == TypeOK /\ EntriesExist /\ TapsCovered

\* The part of TypeOK about the variables the VM helpers write.
VMVarsTyped ==
    /\ vmState \in [VMs -> States]
    /\ proc \in [VMs -> Images]
    /\ taps \in [VMs -> Nat]
    /\ hostTaps \in [VMs -> Nat]
    /\ ascom \in [VMs -> {-1} \cup Nat]
    /\ devs \subseteq Nat
    /\ timers \in [VMs -> [Purposes -> Nat]]
    /\ reaped \subseteq VMs

-----------------------------------------------------------------------------
(* Lemmas about the helpers.                                               *)

\* The numbers assign_comport compares are nmdm numbers or -1.
LEMMA NmdmInUseTyped ==
    ASSUME TypeOK,
           NEW cf, NEW tr \in SUBSET VMs, \A w \in tr : cf[w] \in Entries
    PROVE  NmdmInUse(cf, tr) \subseteq {-1} \cup Nat
<1>1. \A w \in tr : get_nmdm_number(cf[w].def.com) \in {-1} \cup Nat
  BY DefsAssumption DEF Entries, DefType, ComValues, AutoCom, get_nmdm_number
<1>2. \A w \in tr : ascom[w] \in {-1} \cup Nat
  BY DEF TypeOK
<1>3. NmdmOffset - 1 \in {-1} \cup Nat
  BY BoundsAssumption
<1>4. devs \subseteq Nat
  BY DEF TypeOK
<1>5. QED BY <1>1, <1>2, <1>3, <1>4 DEF NmdmInUse

\* A probe of an "auto" console yields an nmdm number, or fails.
LEMMA AutoProbeTyped ==
    ASSUME TypeOK,
           NEW cf, NEW tr \in SUBSET VMs, \A w \in tr : cf[w] \in Entries,
           NEW r \in AutoProbe(cf, tr)
    PROVE  /\ r.ok \in BOOLEAN
           /\ r.com \in {-1} \cup Nat
           /\ r.dev \subseteq Nat
<1>1. MaxNmdm(cf, tr) \subseteq {-1} \cup Nat
  BY NmdmInUseTyped DEF MaxNmdm
<1>2. CASE r = [ok |-> FALSE, com |-> -1, dev |-> {}]
  BY <1>2
<1>3. CASE r # [ok |-> FALSE, com |-> -1, dev |-> {}]
  <2>1. PICK m \in MaxNmdm(cf, tr), k \in 1 .. ProbeTries, stays \in BOOLEAN :
            r = [ok |-> TRUE, com |-> m + k,
                 dev |-> IF stays THEN {m + k} ELSE {}]
    BY <1>3 DEF AutoProbe
  <2>2. m + k \in Nat
    BY <1>1, BoundsAssumption
  <2>3. QED BY <2>1, <2>2
<1>4. QED BY <1>2, <1>3

\* Every console number assign_comport may return, and every device node
\* it may leave under /dev, is a valid nmdm number (or NULL).
LEMMA ComportTyped ==
    ASSUME TypeOK,
           NEW v \in VMs, NEW cf, NEW tr \in SUBSET VMs,
           cf[v] \in Entries, \A w \in tr : cf[w] \in Entries,
           NEW r \in assign_comport(v, cf, tr)
    PROVE  /\ r.ok \in BOOLEAN
           /\ r.com \in {-1} \cup Nat
           /\ r.dev \subseteq Nat
<1> DEFINE c == cf[v].def.com
<1>1. c \in ComValues
  BY DefsAssumption DEF Entries, DefType
<1>2. CASE c = -1 \/ ascom[v] # -1
  <2>1. r = [ok |-> TRUE, com |-> ascom[v], dev |-> {}]
    BY <1>2 DEF assign_comport
  <2>2. QED BY <2>1 DEF TypeOK
<1>3. CASE ~(c = -1 \/ ascom[v] # -1) /\ c # AutoCom
  <2>1. r = [ok |-> TRUE, com |-> c, dev |-> {}]
    BY <1>3 DEF assign_comport
  <2>2. QED BY <1>1, <1>3, <2>1 DEF ComValues, AutoCom
<1>4. CASE ~(c = -1 \/ ascom[v] # -1) /\ c = AutoCom
  <2>1. r \in AutoProbe(cf, tr)
    BY <1>4 DEF assign_comport
  <2>2. QED BY <2>1, AutoProbeTyped
<1>5. QED BY <1>2, <1>3, <1>4

\* VM_CLEANUP leaves the VM's state, process and taps well formed, and
\* gives back to the host exactly the taps the entry held.
LEMMA CleanupTyped ==
    ASSUME TypeOK, TapsCovered, NEW v \in VMs, VM_CLEANUP(v)
    PROVE  /\ vmState' \in [VMs -> States]
           /\ proc' \in [VMs -> Images]
           /\ taps' \in [VMs -> Nat]
           /\ hostTaps' \in [VMs -> Nat]
           /\ TapsCovered'
BY DEF VM_CLEANUP, TypeOK, TapsCovered, States, Images

\* Whatever start_virtual_machine does (fail to assign the console, fail
\* in VM_START, or fork the loader or bhyve) leaves the variables it
\* writes well formed and the host's taps covering the entries'.
LEMMA StartTyped ==
    ASSUME TypeOK, TapsCovered,
           NEW v \in VMs, NEW cf, NEW tr \in SUBSET VMs,
           cf[v] \in Entries, \A w \in tr : cf[w] \in Entries,
           NEW tm \in [Purposes -> Nat],
           start_virtual_machine(v, cf, tr, tm)
    PROVE  /\ vmState' \in [VMs -> States]
           /\ proc' \in [VMs -> Images]
           /\ taps' \in [VMs -> Nat]
           /\ hostTaps' \in [VMs -> Nat]
           /\ ascom' \in [VMs -> {-1} \cup Nat]
           /\ devs' \subseteq Nat
           /\ timers' \in [VMs -> [Purposes -> Nat]]
           /\ TapsCovered'
<1> DEFINE d == cf[v].def
           img == LaunchImage(d, vmState[v])
<1>1. d.nets \in Nat /\ d.lto \in BOOLEAN
  BY DefsAssumption DEF Entries, DefType
<1>2. PICK r \in assign_comport(v, cf, tr) :
          \/ /\ ~r.ok
             /\ timers' = [timers EXCEPT ![v] = tm]
             /\ UNCHANGED <<vmState, proc, taps, hostTaps, ascom, devs>>
          \/ /\ r.ok
             /\ ascom' = [ascom EXCEPT ![v] = r.com]
             /\ devs' = devs \cup r.dev
             /\ \/ /\ VM_CLEANUP(v)
                   /\ timers' = [timers EXCEPT ![v] = tm]
                \/ /\ vmState' = [vmState EXCEPT ![v] = StateOf(img)]
                   /\ proc' = [proc EXCEPT ![v] = img]
                   /\ taps' = [taps EXCEPT ![v] =
                                  IF vmState[v] = "TERMINATE" THEN d.nets
                                  ELSE @]
                   /\ hostTaps' = [hostTaps EXCEPT ![v] =
                                  IF vmState[v] = "TERMINATE" THEN @ + d.nets
                                  ELSE @]
                   /\ timers' = [timers EXCEPT ![v] =
                                  IF StateOf(img) = "LOAD" /\ d.lto
                                  THEN [tm EXCEPT !["loader"] = @ + 1]
                                  ELSE tm]
  BY DEF start_virtual_machine
<1>3. r.com \in {-1} \cup Nat /\ r.dev \subseteq Nat
  BY ComportTyped
<1>4. CASE ~r.ok
  <2>1. /\ timers' = [timers EXCEPT ![v] = tm]
        /\ UNCHANGED <<vmState, proc, taps, hostTaps, ascom, devs>>
    BY <1>2, <1>4
  <2>2. QED BY <2>1 DEF TypeOK, TapsCovered
<1>5. CASE r.ok
  <2>1. ascom' \in [VMs -> {-1} \cup Nat] /\ devs' \subseteq Nat
    BY <1>2, <1>3, <1>5 DEF TypeOK
  <2>2. CASE VM_CLEANUP(v) /\ timers' = [timers EXCEPT ![v] = tm]
    BY <2>1, <2>2, CleanupTyped DEF TypeOK
  <2>3. CASE /\ vmState' = [vmState EXCEPT ![v] = StateOf(img)]
             /\ proc' = [proc EXCEPT ![v] = img]
             /\ taps' = [taps EXCEPT ![v] =
                            IF vmState[v] = "TERMINATE" THEN d.nets ELSE @]
             /\ hostTaps' = [hostTaps EXCEPT ![v] =
                            IF vmState[v] = "TERMINATE" THEN @ + d.nets
                            ELSE @]
             /\ timers' = [timers EXCEPT ![v] =
                            IF StateOf(img) = "LOAD" /\ d.lto
                            THEN [tm EXCEPT !["loader"] = @ + 1]
                            ELSE tm]
    <3>1. img \in Images /\ StateOf(img) \in States
      BY DEF LaunchImage, StateOf, Images, States
    <3>2. vmState' \in [VMs -> States] /\ proc' \in [VMs -> Images]
      BY <2>3, <3>1 DEF TypeOK
    <3>3. timers' \in [VMs -> [Purposes -> Nat]]
      <4>1. [tm EXCEPT !["loader"] = @ + 1] \in [Purposes -> Nat]
        BY DEF Purposes
      <4>2. QED BY <2>3, <4>1 DEF TypeOK
    <3>4. /\ taps' \in [VMs -> Nat] /\ hostTaps' \in [VMs -> Nat]
          /\ TapsCovered'
      BY <1>1, <2>3 DEF TypeOK, TapsCovered
    <3>5. QED BY <2>1, <3>2, <3>3, <3>4
  <2>4. QED BY <1>2, <1>5, <2>2, <2>3
<1>6. QED BY <1>4, <1>5

\* start_virtual_machine records at most v as a VM with a stale pid.
LEMMA StartReaped ==
    ASSUME TypeOK, NEW v \in VMs, NEW cf, NEW tr, NEW tm,
           start_virtual_machine(v, cf, tr, tm)
    PROVE  reaped' \subseteq VMs
BY DEF start_virtual_machine, StalePid, TypeOK

\* stop_virtual_machine: timers cleared, VM_CLEANUP.
LEMMA StopTyped ==
    ASSUME TypeOK, TapsCovered, NEW v \in VMs, stop_virtual_machine(v)
    PROVE  /\ vmState' \in [VMs -> States]
           /\ proc' \in [VMs -> Images]
           /\ taps' \in [VMs -> Nat]
           /\ hostTaps' \in [VMs -> Nat]
           /\ timers' \in [VMs -> [Purposes -> Nat]]
           /\ TapsCovered'
<1>1. NoTimers \in [Purposes -> Nat]
  BY DEF NoTimers
<1>2. QED BY <1>1, CleanupTyped DEF stop_virtual_machine, clear_all_timers, TypeOK

\* The boot decision after create_vm_entry, for a name whose entry and
\* whose tracked peers' entries exist.
LEMMA CreateAndBootTyped ==
    ASSUME TypeOK, TapsCovered, NEW v \in VMs, NEW cf,
           \A w \in tracked \cup {v} : cf[w] \in Entries,
           create_and_boot(v, cf)
    PROVE  /\ vmState' \in [VMs -> States]
           /\ proc' \in [VMs -> Images]
           /\ taps' \in [VMs -> Nat]
           /\ hostTaps' \in [VMs -> Nat]
           /\ ascom' \in [VMs -> {-1} \cup Nat]
           /\ devs' \subseteq Nat
           /\ timers' \in [VMs -> [Purposes -> Nat]]
           /\ TapsCovered'
           /\ reaped' \subseteq VMs
<1> DEFINE d == cf[v].def
<1>1. CASE d.boot = "NO"
      /\ UNCHANGED <<vmState, proc, taps, hostTaps, ascom, devs, timers,
                     reaped>>
  BY <1>1 DEF TypeOK, TapsCovered
<1>2. CASE timers' = [timers EXCEPT ![v] = set_timer(@, "boot")]
      /\ UNCHANGED <<vmState, proc, taps, hostTaps, ascom, devs, reaped>>
  BY <1>2 DEF TypeOK, TapsCovered, set_timer, Purposes
<1>3. CASE start_virtual_machine(v, cf, tracked \cup {v}, timers[v])
  <2>1. tracked \cup {v} \in SUBSET VMs /\ timers[v] \in [Purposes -> Nat]
    BY DEF TypeOK
  <2>2. QED BY <1>3, <2>1, StartTyped, StartReaped
<1>4. QED BY <1>1, <1>2, <1>3 DEF create_and_boot

-----------------------------------------------------------------------------
(* The inductive invariant, one action at a time.                         *)

LEMMA InitIInv == Init => IInv
<1> SUFFICES ASSUME Init PROVE IInv
  OBVIOUS
<1>1. PICK names \in SUBSET VMs, cf \in [VMs -> Defs] :
          /\ conf = [v \in VMs |-> IF v \in names
                                   THEN [name |-> v, def |-> cf[v], gen |-> 0]
                                   ELSE NoEntry]
          /\ confList = {conf[v] : v \in names}
          /\ todo = names
          /\ phase = IF names = {} THEN "run" ELSE "startup"
          /\ inst = [v \in VMs |-> v \in names /\ cf[v].install]
  BY DEF Init
<1>2. \A v \in names : conf[v] \in Entries
  BY <1>1, BoundsAssumption DEF Entries
<1>3. inst \in [VMs -> BOOLEAN]
  BY <1>1, DefsAssumption DEF DefType
<1>4. /\ tracked = {} /\ newconf = [v \in VMs |-> NoEntry] /\ newList = {}
      /\ freed = {} /\ vmState = [v \in VMs |-> "TERMINATE"]
      /\ proc = [v \in VMs |-> "none"] /\ taps = [v \in VMs |-> 0]
      /\ hostTaps = [v \in VMs |-> 0] /\ ascom = [v \in VMs |-> -1]
      /\ devs = {} /\ timers = [v \in VMs |-> NoTimers]
      /\ count = 0 /\ nExit = 0 /\ nReload = 0 /\ killed = {}
      /\ reaped = {}
  BY DEF Init
<1>5. conf \in [VMs -> Entries \cup {NoEntry}] /\ confList \subseteq Entries
  BY <1>1, <1>2
<1>6. NoTimers \in [Purposes -> Nat]
  BY DEF NoTimers
<1>7. TypeOK
  <2>1. phase \in Phases /\ todo \subseteq VMs
    BY <1>1 DEF Phases
  <2>2. /\ tracked \subseteq VMs /\ newconf \in [VMs -> Entries \cup {NoEntry}]
        /\ newList \subseteq Entries /\ freed \subseteq Entries
    BY <1>4
  <2>3. vmState \in [VMs -> States] /\ proc \in [VMs -> Images]
    BY <1>4 DEF States, Images
  <2>4. /\ taps \in [VMs -> Nat] /\ hostTaps \in [VMs -> Nat]
        /\ ascom \in [VMs -> {-1} \cup Nat] /\ devs \subseteq Nat
    BY <1>4
  <2>5. timers \in [VMs -> [Purposes -> Nat]]
    BY <1>4, <1>6
  <2>6. count \in Nat /\ nExit \in 0 .. MaxExit /\ nReload \in 0 .. MaxReload
    BY <1>4, BoundsAssumption
  <2>7. QED BY <1>3, <1>4, <1>5, <2>1, <2>2, <2>3, <2>4, <2>5, <2>6 DEF TypeOK
<1>8. EntriesExist
  <2>1. phase # "reload"
    BY <1>1
  <2>2. QED BY <1>1, <1>2, <1>4, <2>1 DEF EntriesExist
<1>9. TapsCovered
  BY <1>4 DEF TapsCovered
<1>10. QED BY <1>7, <1>8, <1>9 DEF IInv

LEMMA StartupStep ==
    ASSUME IInv, NEW v \in VMs, start_virtual_machines(v)
    PROVE  IInv'
<1>1. \A w \in tracked \cup {v} : conf[w] \in Entries
  BY DEF start_virtual_machines, IInv, EntriesExist
<1>2. create_and_boot(v, conf)
  BY DEF start_virtual_machines
<1>3. /\ vmState' \in [VMs -> States]
      /\ proc' \in [VMs -> Images]
      /\ taps' \in [VMs -> Nat]
      /\ hostTaps' \in [VMs -> Nat]
      /\ ascom' \in [VMs -> {-1} \cup Nat]
      /\ devs' \subseteq Nat
      /\ timers' \in [VMs -> [Purposes -> Nat]]
      /\ TapsCovered'
      /\ reaped' \subseteq VMs
  BY <1>1, <1>2, CreateAndBootTyped DEF IInv
<1>4. TypeOK'
  BY <1>3 DEF start_virtual_machines, IInv, TypeOK, Phases
<1>5. EntriesExist'
  BY <1>1 DEF start_virtual_machines, IInv, EntriesExist
<1>6. QED BY <1>3, <1>4, <1>5 DEF IInv

\* What every exit callback does to the bookkeeping it shares.
LEMMA ExitBookkeeping ==
    ASSUME TypeOK, NEW v \in VMs, exit_delivered(v)
    PROVE  /\ nExit' \in 0 .. MaxExit
           /\ count' \in Nat
           /\ phase' = phase /\ phase \in {"run", "shutdown"}
           /\ UNCHANGED <<todo, newconf, newList, nReload>>
           /\ killed' \subseteq VMs
BY BoundsAssumption DEF exit_delivered, TypeOK

\* An exit callback that keeps the VM list, the definitions and the
\* install flags preserves the invariant when its writes are well typed.
LEMMA ExitFrame ==
    ASSUME IInv, NEW v \in VMs, exit_delivered(v),
           UNCHANGED <<tracked, conf, confList, freed, inst>>,
           VMVarsTyped', TapsCovered'
    PROVE  IInv'
<1>1. /\ nExit' \in 0 .. MaxExit /\ count' \in Nat
      /\ phase' = phase /\ phase \in {"run", "shutdown"}
      /\ UNCHANGED <<todo, newconf, newList, nReload>>
      /\ killed' \subseteq VMs
  BY ExitBookkeeping DEF IInv
<1>2. TypeOK'
  BY <1>1 DEF IInv, TypeOK, VMVarsTyped
<1>3. EntriesExist'
  BY <1>1 DEF IInv, EntriesExist
<1>4. QED BY <1>2, <1>3 DEF IInv

LEMMA ExitLoadStep ==
    ASSUME IInv, NEW v \in VMs, NEW st \in Statuses, on_vm_exit_load(v, st)
    PROVE  IInv'
<1>1. /\ v \in tracked /\ \A w \in tracked : conf[w] \in Entries
      /\ timers[v] \in [Purposes -> Nat]
  BY DEF on_vm_exit_load, exit_delivered, IInv, EntriesExist, TypeOK
<1>2. VMVarsTyped' /\ TapsCovered'
  <2>1. CASE start_virtual_machine(v, conf, tracked, timers[v])
    BY <1>1, <2>1, StartTyped, StartReaped DEF IInv, TypeOK, VMVarsTyped
  <2>2. CASE stop_virtual_machine(v) /\ UNCHANGED <<ascom, devs, reaped>>
    BY <2>2, StopTyped DEF IInv, TypeOK, VMVarsTyped
  <2>3. QED BY <2>1, <2>2 DEF on_vm_exit_load
<1>3. QED BY <1>2, ExitFrame DEF on_vm_exit_load

LEMMA ExitRestartStep ==
    ASSUME IInv, NEW v \in VMs, on_vm_exit_restart(v)
    PROVE  IInv'
<1>1. VMVarsTyped' /\ TapsCovered'
  <2>1. set_timer(NoTimers, "boot") \in [Purposes -> Nat]
    BY DEF set_timer, NoTimers, Purposes
  <2>2. QED BY <2>1, CleanupTyped DEF on_vm_exit_restart, IInv, TypeOK,
               VMVarsTyped
<1>2. QED BY <1>1, ExitFrame DEF on_vm_exit_restart

\* The STOP case and the fall-through from RUN.
LEMMA VmStoppedTyped ==
    ASSUME IInv, NEW v \in VMs, vm_stopped(v)
    PROVE  VMVarsTyped' /\ TapsCovered' /\ inst' \in [VMs -> BOOLEAN]
BY StopTyped DEF vm_stopped, IInv, TypeOK, VMVarsTyped

LEMMA ExitRunStep ==
    ASSUME IInv, NEW v \in VMs, NEW st \in Statuses, on_vm_exit_run(v, st)
    PROVE  IInv'
<1>1. /\ v \in tracked /\ \A w \in tracked : conf[w] \in Entries
      /\ timers[v] \in [Purposes -> Nat]
  BY DEF on_vm_exit_run, exit_delivered, IInv, EntriesExist, TypeOK
<1>2. CASE start_virtual_machine(v, conf, tracked, timers[v])
           /\ UNCHANGED <<tracked, conf, confList, freed, inst>>
  <2>1. VMVarsTyped' /\ TapsCovered'
    BY <1>1, <1>2, StartTyped, StartReaped DEF IInv, TypeOK, VMVarsTyped
  <2>2. QED BY <1>2, <2>1, ExitFrame DEF on_vm_exit_run
<1>3. CASE vm_stopped(v)
  <2>1. /\ nExit' \in 0 .. MaxExit /\ count' \in Nat
        /\ phase' = phase /\ phase \in {"run", "shutdown"}
        /\ UNCHANGED <<todo, newconf, newList, nReload>>
        /\ killed' \subseteq VMs
    BY ExitBookkeeping DEF on_vm_exit_run, IInv
  <2>2. UNCHANGED <<tracked, conf, confList, freed>>
    BY <1>3 DEF vm_stopped
  <2>3. QED BY <1>3, <2>1, <2>2, VmStoppedTyped
        DEF IInv, TypeOK, VMVarsTyped, EntriesExist
<1>4. QED BY <1>2, <1>3 DEF on_vm_exit_run

LEMMA ExitStopStep ==
    ASSUME IInv, NEW v \in VMs, on_vm_exit_stop(v)
    PROVE  IInv'
<1>1. /\ nExit' \in 0 .. MaxExit /\ count' \in Nat
      /\ phase' = phase /\ phase \in {"run", "shutdown"}
      /\ UNCHANGED <<todo, newconf, newList, nReload>>
      /\ killed' \subseteq VMs
  BY ExitBookkeeping DEF on_vm_exit_stop, IInv
<1>2. UNCHANGED <<tracked, conf, confList, freed>>
  BY DEF on_vm_exit_stop, vm_stopped
<1>3. QED BY <1>1, <1>2, VmStoppedTyped
      DEF on_vm_exit_stop, IInv, TypeOK, VMVarsTyped, EntriesExist

LEMMA ExitRemoveStep ==
    ASSUME IInv, NEW v \in VMs, on_vm_exit_remove(v)
    PROVE  IInv'
<1>1. /\ nExit' \in 0 .. MaxExit /\ count' \in Nat
      /\ phase' = phase /\ phase \in {"run", "shutdown"}
      /\ UNCHANGED <<todo, newconf, newList, nReload>>
      /\ killed' \subseteq VMs
  BY ExitBookkeeping DEF on_vm_exit_remove, free_vm_entry, IInv
<1>2. conf[v] \in Entries
  BY DEF on_vm_exit_remove, free_vm_entry, exit_delivered, IInv, EntriesExist
<1>3. /\ vmState' \in [VMs -> States] /\ proc' \in [VMs -> Images]
      /\ taps' \in [VMs -> Nat] /\ hostTaps' \in [VMs -> Nat]
      /\ timers' \in [VMs -> [Purposes -> Nat]] /\ TapsCovered'
  BY StopTyped DEF on_vm_exit_remove, free_vm_entry, IInv
<1>4. /\ tracked' \subseteq tracked /\ freed' \subseteq Entries
      /\ ascom' \in [VMs -> {-1} \cup Nat]
      /\ UNCHANGED <<conf, confList, inst, devs, reaped>>
  BY <1>2 DEF on_vm_exit_remove, free_vm_entry, IInv, TypeOK
<1>5. TypeOK'
  BY <1>1, <1>3, <1>4 DEF IInv, TypeOK
<1>6. EntriesExist'
  BY <1>1, <1>4 DEF IInv, EntriesExist
<1>7. QED BY <1>3, <1>5, <1>6 DEF IInv

LEMMA TimerStep ==
    ASSUME IInv, NEW v \in VMs, NEW p \in Purposes, on_timer(v, p)
    PROVE  IInv'
<1>1. /\ v \in tracked /\ \A w \in tracked : conf[w] \in Entries
      /\ [timers[v] EXCEPT ![p] = @ - 1] \in [Purposes -> Nat]
  BY DEF on_timer, IInv, EntriesExist, TypeOK
<1>2. VMVarsTyped' /\ TapsCovered'
  <2>1. CASE start_virtual_machine(v, conf, tracked,
                                   [timers[v] EXCEPT ![p] = @ - 1])
    BY <1>1, <2>1, StartTyped, StartReaped DEF IInv, TypeOK, VMVarsTyped
  <2>2. CASE timers' = [timers EXCEPT ![v] = [timers[v] EXCEPT ![p] = @ - 1]]
             /\ UNCHANGED <<vmState, proc, taps, hostTaps, ascom, devs, reaped>>
    BY <1>1, <2>2 DEF IInv, TypeOK, VMVarsTyped, TapsCovered
  <2>3. QED BY <2>1, <2>2 DEF on_timer
<1>3. killed' \subseteq VMs
  BY DEF on_timer, VM_POWEROFF, IInv, TypeOK
<1>4. QED BY <1>2, <1>3 DEF on_timer, IInv, TypeOK, VMVarsTyped, EntriesExist

LEMMA ReloadBeginStep ==
    ASSUME IInv, reload_begin
    PROVE  IInv'
<1>0. PICK names \in SUBSET VMs :
          \E cf \in [names -> Defs] :
            /\ newList' = {[name |-> v, def |-> cf[v], gen |-> nReload + 1] :
                              v \in names}
            /\ todo' = names
  BY DEF reload_begin
<1>1. PICK cf \in [names -> Defs] :
          /\ newList' = {[name |-> v, def |-> cf[v], gen |-> nReload + 1] :
                            v \in names}
          /\ todo' = names
  BY <1>0
<1>2. nReload + 1 \in 0 .. MaxReload /\ nReload' = nReload + 1
  BY BoundsAssumption DEF reload_begin, IInv, TypeOK
<1>3. newList' \subseteq Entries
  <2>1. ASSUME NEW v \in names
        PROVE  [name |-> v, def |-> cf[v], gen |-> nReload + 1] \in Entries
    BY <1>2 DEF Entries
  <2>2. QED BY <1>1, <2>1
<1>4. \A v \in todo' : \E e \in newList' : e.name = v
  <2>1. ASSUME NEW v \in todo'
        PROVE  \E e \in newList' : e.name = v
    <3>1. [name |-> v, def |-> cf[v], gen |-> nReload + 1] \in newList'
      BY <1>1
    <3>2. QED BY <3>1
  <2>2. QED BY <2>1
<1>5. TypeOK'
  BY <1>1, <1>2, <1>3 DEF reload_begin, IInv, TypeOK, Phases
<1>6. QED BY <1>4, <1>5 DEF reload_begin, IInv, EntriesExist, TapsCovered

\* During a reload, the entry of a name the loop has still to visit.
LEMMA NewEntryOK ==
    ASSUME IInv, phase = "reload", NEW v \in todo
    PROVE  /\ NewEntry(v) \in newList
           /\ NewEntry(v) \in Entries
           /\ NewEntry(v).name = v
<1>1. \E e \in newList : e.name = v
  BY DEF IInv, EntriesExist
<1>2. NewEntry(v) \in newList /\ NewEntry(v).name = v
  BY <1>1 DEF NewEntry
<1>3. QED BY <1>2 DEF IInv, TypeOK

LEMMA ReloadAddStep ==
    ASSUME IInv, NEW v \in VMs, reload_add(v)
    PROVE  IInv'
<1>1. NewEntry(v) \in Entries /\ conf' = [conf EXCEPT ![v] = NewEntry(v)]
  BY NewEntryOK DEF reload_add
<1>2. \A w \in tracked \cup {v} : conf'[w] \in Entries
  BY <1>1 DEF IInv, EntriesExist, TypeOK
<1>3. VMVarsTyped' /\ TapsCovered'
  BY <1>2, CreateAndBootTyped DEF reload_add, IInv, VMVarsTyped
<1>4. inst' \in [VMs -> BOOLEAN] /\ newconf' \in [VMs -> Entries \cup {NoEntry}]
  BY <1>1, DefsAssumption DEF reload_add, IInv, TypeOK, Entries, DefType
<1>5. conf' \in [VMs -> Entries \cup {NoEntry}]
  BY <1>1 DEF IInv, TypeOK
<1>6. TypeOK'
  BY <1>3, <1>4, <1>5 DEF reload_add, IInv, TypeOK, VMVarsTyped
<1>7. EntriesExist'
  BY <1>2 DEF reload_add, IInv, EntriesExist
<1>8. QED BY <1>3, <1>6, <1>7 DEF IInv

\* A reload_update step preserves the invariant when the writes of the
\* branch it takes are well typed and keep the definitions of the VM list.
LEMMA UpdateFrame ==
    ASSUME IInv, NEW v \in VMs, phase = "reload", v \in todo,
           newconf' = [newconf EXCEPT ![v] = NewEntry(v)],
           todo' = todo \ {v},
           UNCHANGED <<phase, tracked, confList, newList, freed, count, nExit,
                      nReload, killed>>,
           VMVarsTyped', TapsCovered',
           conf' \in [VMs -> Entries \cup {NoEntry}],
           \A w \in tracked : conf'[w] \in Entries,
           inst' \in [VMs -> BOOLEAN]
    PROVE  IInv'
<1>1. newconf' \in [VMs -> Entries \cup {NoEntry}]
  BY NewEntryOK DEF IInv, TypeOK
<1>2. TypeOK'
  BY <1>1 DEF IInv, TypeOK, VMVarsTyped
<1>3. EntriesExist'
  BY DEF IInv, EntriesExist
<1>4. QED BY <1>2, <1>3 DEF IInv

\* Goto moves the state only.
LEMMA GotoTyped ==
    ASSUME TypeOK, TapsCovered, NEW v \in VMs, NEW s2 \in States, Goto(v, s2)
    PROVE  /\ vmState' \in [VMs -> States]
           /\ UNCHANGED <<proc, taps, hostTaps, ascom, devs, conf, inst>>
           /\ TapsCovered'
BY SMTT(30) DEF Goto, TypeOK, TapsCovered

LEMMA ReloadUpdateStep ==
    ASSUME IInv, NEW v \in VMs, reload_update(v)
    PROVE  IInv'
<1> DEFINE Frame ==
        /\ VMVarsTyped' /\ TapsCovered'
        /\ conf' \in [VMs -> Entries \cup {NoEntry}]
        /\ \A w \in tracked : conf'[w] \in Entries
        /\ inst' \in [VMs -> BOOLEAN]
<1>1. /\ phase = "reload" /\ v \in todo /\ v \in tracked
      /\ NewEntry(v) \in Entries
      /\ \A w \in tracked : conf[w] \in Entries
      /\ TypeOK /\ TapsCovered
  BY NewEntryOK DEF reload_update, IInv, EntriesExist
<1>2. Frame
  <2>1. CASE timers' = [timers EXCEPT ![v] = set_timer(@, "boot")]
             /\ UNCHANGED <<vmState, proc, taps, hostTaps, ascom, devs, conf,
                            inst, reaped>>
    BY <1>1, <2>1 DEF TypeOK, TapsCovered, VMVarsTyped, set_timer, Purposes
  <2>2. ASSUME NEW s2 \in States, Goto(v, s2),
               \/ UNCHANGED timers
               \/ timers' = [timers EXCEPT ![v] = set_timer(@, "stop")]
        PROVE  Frame
    <3>1. timers' \in [VMs -> [Purposes -> Nat]]
      BY <1>1, <2>2 DEF TypeOK, set_timer, Purposes
    <3>2. QED BY <1>1, <2>2, <3>1, GotoTyped DEF TypeOK, VMVarsTyped, Goto
  <2>3. CASE /\ conf' = [conf EXCEPT ![v] = NewEntry(v)]
             /\ inst' = [inst EXCEPT ![v] = NewEntry(v).def.install]
             /\ start_virtual_machine(v, conf', tracked, timers[v])
    <3>1. \A w \in tracked : conf'[w] \in Entries
      BY <1>1, <2>3 DEF TypeOK
    <3>2. VMVarsTyped' /\ TapsCovered'
      BY <1>1, <2>3, <3>1, StartTyped, StartReaped, ZenonT(60) DEF TypeOK, VMVarsTyped
    <3>3. inst' \in [VMs -> BOOLEAN] /\ conf' \in [VMs -> Entries \cup {NoEntry}]
      BY <1>1, <2>3, DefsAssumption DEF TypeOK, Entries, DefType
    <3>4. QED BY <3>1, <3>2, <3>3
  <2>4. CASE UNCHANGED <<vmState, proc, taps, hostTaps, ascom, devs, conf,
                         inst, timers, reaped>>
    BY <1>1, <2>4 DEF TypeOK, TapsCovered, VMVarsTyped
  <2>5. "RESTART" \in States /\ "STOP" \in States
    BY DEF States
  <2>6. QED BY <2>1, <2>2, <2>3, <2>4, <2>5 DEF reload_update, acpi_stop
<1>3. QED BY <1>1, <1>2, UpdateFrame, ZenonT(60) DEF reload_update

LEMMA ReloadFinishStep ==
    ASSUME IInv, reload_finish
    PROVE  IInv'
<1> DEFINE Gone == {v \in tracked : newconf[v] = NoEntry}
           Kept == tracked \ Gone
           Up == {v \in Gone : vmState[v] \in {"LOAD", "RUN"}}
           Dropped == {v \in Gone : vmState[v] = "TERMINATE"}
<1>1. /\ tracked' = tracked \ Dropped
      /\ vmState' = [v \in VMs |-> IF v \in Gone \ Dropped THEN "REMOVE"
                                   ELSE vmState[v]]
      /\ timers' = [v \in VMs |->
                      IF v \in Up THEN set_timer(timers[v], "stop")
                      ELSE IF v \in Dropped THEN NoTimers
                      ELSE timers[v]]
      /\ conf' = [v \in VMs |-> IF v \in Kept THEN newconf[v] ELSE conf[v]]
      /\ inst' = [v \in VMs |-> IF v \in Kept THEN newconf[v].def.install
                                ELSE inst[v]]
      /\ ascom' = [v \in VMs |-> IF v \in Dropped THEN -1 ELSE ascom[v]]
      /\ freed' = freed \cup (confList \ {conf[v] : v \in Gone})
                        \cup {conf[v] : v \in Dropped}
      /\ confList' = newList /\ newList' = {}
      /\ newconf' = [v \in VMs |-> NoEntry] /\ phase' = "run"
      /\ UNCHANGED <<todo, proc, taps, hostTaps, devs, count, nExit, nReload,
                     killed, reaped>>
  BY DEF reload_finish
<1>2. \A v \in Kept : newconf[v] \in Entries
  BY DEF IInv, TypeOK
<1>3. \A v \in tracked' : conf'[v] \in Entries
  BY <1>1, <1>2, SMTT(30) DEF IInv, EntriesExist, TypeOK
<1>4. conf' \in [VMs -> Entries \cup {NoEntry}]
  BY <1>1, <1>2, SMTT(30) DEF IInv, TypeOK
<1>5. inst' \in [VMs -> BOOLEAN]
  BY <1>1, <1>2, DefsAssumption DEF IInv, TypeOK, Entries, DefType
<1>6. freed' \subseteq Entries
  BY <1>1 DEF IInv, TypeOK, EntriesExist
<1>7. timers' \in [VMs -> [Purposes -> Nat]]
  BY <1>1, SMTT(30) DEF IInv, TypeOK, set_timer, NoTimers, Purposes
<1>8. vmState' \in [VMs -> States] /\ ascom' \in [VMs -> {-1} \cup Nat]
  BY <1>1, SMTT(30) DEF IInv, TypeOK, States
<1>9. TypeOK'
  BY <1>1, <1>4, <1>5, <1>6, <1>7, <1>8 DEF IInv, TypeOK, Phases
<1>10. QED BY <1>1, <1>3, <1>9 DEF IInv, EntriesExist, TapsCovered

LEMMA StopAllStep ==
    ASSUME IInv, stop_virtual_machines
    PROVE  IInv'
<1> DEFINE Up == {v \in tracked : vmState[v] \in {"LOAD", "RUN"}}
<1>1. Cardinality(Up) \in Nat
  <2>1. IsFiniteSet(Up)
    BY VMsAssumption, FS_Subset DEF IInv, TypeOK
  <2>2. QED BY <2>1, FS_CardinalityType
<1>2. /\ timers' = [v \in VMs |-> IF v \in Up THEN set_timer(timers[v], "stop")
                                  ELSE timers[v]]
      /\ count' = Cardinality(Up)
  BY DEF stop_virtual_machines
<1>3. timers' \in [VMs -> [Purposes -> Nat]]
  BY <1>2 DEF IInv, TypeOK, set_timer, Purposes
<1>4. QED BY <1>1, <1>2, <1>3
      DEF stop_virtual_machines, IInv, TypeOK, Phases, EntriesExist,
          TapsCovered

LEMMA ShutdownDoneStep ==
    ASSUME IInv, shutdown_done
    PROVE  IInv'
BY DEF shutdown_done, IInv, TypeOK, Phases, EntriesExist, TapsCovered

LEMMA NextIInv == IInv /\ [Next]_vars => IInv'
<1> SUFFICES ASSUME IInv, [Next]_vars PROVE IInv'
  OBVIOUS
<1>1. ASSUME NEW v \in VMs,
             \/ start_virtual_machines(v)
             \/ \E st \in Statuses : on_vm_exit_load(v, st) \/ on_vm_exit_run(v, st)
             \/ on_vm_exit_restart(v)
             \/ on_vm_exit_stop(v)
             \/ on_vm_exit_remove(v)
             \/ \E p \in Purposes : on_timer(v, p)
             \/ reload_add(v)
             \/ reload_update(v)
      PROVE  IInv'
  BY <1>1, StartupStep, ExitLoadStep, ExitRunStep, ExitRestartStep,
     ExitStopStep, ExitRemoveStep, TimerStep, ReloadAddStep, ReloadUpdateStep
<1>2. CASE reload_begin
  BY <1>2, ReloadBeginStep
<1>3. CASE reload_finish
  BY <1>3, ReloadFinishStep
<1>4. CASE stop_virtual_machines
  BY <1>4, StopAllStep
<1>5. CASE shutdown_done
  BY <1>5, ShutdownDoneStep
<1>6. CASE UNCHANGED vars
  BY <1>6 DEF vars, IInv, TypeOK, EntriesExist, TapsCovered
<1>7. QED BY <1>1, <1>2, <1>3, <1>4, <1>5, <1>6 DEF Next

-----------------------------------------------------------------------------
(* Theorems.                                                               *)

\* IInv holds in every reachable state of the daemon.
THEOREM IInvariant == Spec => []IInv
BY InitIInv, NextIInv, PTL DEF Spec

\* Every variable of the supervisor keeps its type in every run of the
\* daemon, for any set of VMs, definitions and bounds: in particular the
\* host's tap count never goes negative when VM_CLEANUP gives taps back,
\* stop_virtual_machines' count of exits to wait for never drops below 0,
\* and every console assign_comport hands out is an nmdm number.
THEOREM TypeCorrect == Spec => []TypeOK
BY IInvariant, PTL DEF IInv

==============================================================================
