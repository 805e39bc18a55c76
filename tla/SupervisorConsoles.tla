------------------------- MODULE SupervisorConsoles -------------------------
(***************************************************************************)
(* Proofs about the consoles assign_comport hands out (bmd.c 835-893).    *)
(*                                                                         *)
(* ComportSticky follows from the "already assigned" test alone: the only *)
(* writes to VM_ASCOMPORT are assign_comport, which keeps an assigned     *)
(* value, and free_vm_entry and the reload's drop, which remove the VM.   *)
(*                                                                         *)
(* AutoComUnique needs two things the property does not say: a VM with no *)
(* entry has no console (so a VM that joins the list brings none), and    *)
(* the probe starts above every console of every VM on the list, because  *)
(* the VMs it scans are exactly those on the list after the call.  It is  *)
(* proved for configurations in which every console is "auto" or absent: *)
(* a literal console is copied as it is, and nothing in the code keeps a  *)
(* literal given to one VM from equalling the console of another.         *)
(***************************************************************************)
EXTENDS SupervisorProofs

\* No definition names a literal /dev/nmdm<n>B console.
NoLiteralConsoles == \A d \in Defs : d.com \in {-1, AutoCom}

\* A VM without an entry has no console.
UntrackedNoConsole == \A v \in VMs \ tracked : ascom[v] = -1

CInv == IInv /\ UntrackedNoConsole /\ AutoComUnique

-----------------------------------------------------------------------------
(* Lemmas about assign_comport and start_virtual_machine.                  *)

\* An "auto" probe that succeeds gives a number above the console of every
\* VM it scanned.
LEMMA ProbeAbove ==
    ASSUME TypeOK, NEW cf, NEW tr \in SUBSET VMs,
           \A w \in tr : cf[w] \in Entries,
           NEW r \in AutoProbe(cf, tr), r.ok
    PROVE  /\ r.com \in Nat
           /\ \A w \in tr : ascom[w] < r.com
<1>1. PICK m \in MaxNmdm(cf, tr), k \in 1 .. ProbeTries, stays \in BOOLEAN :
          r = [ok |-> TRUE, com |-> m + k,
               dev |-> IF stays THEN {m + k} ELSE {}]
  BY DEF AutoProbe
<1>2. \A w \in tr : ascom[w] \in NmdmInUse(cf, tr)
  BY DEF NmdmInUse
<1>3. m \in NmdmInUse(cf, tr) /\ \A x \in NmdmInUse(cf, tr) : x <= m
  BY DEF MaxNmdm
<1>4. NmdmOffset - 1 \in NmdmInUse(cf, tr) /\ NmdmOffset \in Nat
  BY BoundsAssumption DEF NmdmInUse
<1>5. \A w \in tr : ascom[w] \in {-1} \cup Nat
  BY DEF TypeOK
<1>6. m \in Int /\ m >= -1
  BY <1>3, <1>4, NmdmInUseTyped
<1>7. QED BY <1>1, <1>2, <1>3, <1>5, <1>6, BoundsAssumption

\* start_virtual_machine writes the console of v only; it keeps one that
\* is assigned, and a new one lies above the console of every VM in tr.
LEMMA StartConsole ==
    ASSUME TypeOK, NoLiteralConsoles,
           NEW v \in VMs, NEW cf, NEW tr \in SUBSET VMs, cf[v] \in Entries,
           \A w \in tr : cf[w] \in Entries, NEW tm, start_virtual_machine(v, cf, tr, tm)
    PROVE  /\ \A w \in VMs \ {v} : ascom'[w] = ascom[w]
           /\ \/ ascom'[v] = ascom[v]
              \/ /\ ascom[v] = -1 /\ ascom'[v] \in Nat
                 /\ \A w \in tr : ascom[w] < ascom'[v]
<1> DEFINE c == cf[v].def.com
<1>1. c \in {-1, AutoCom}
  BY DEF NoLiteralConsoles, Entries
<1>2. PICK r \in assign_comport(v, cf, tr) :
          \/ ~r.ok /\ UNCHANGED ascom
          \/ r.ok /\ ascom' = [ascom EXCEPT ![v] = r.com]
  BY DEF start_virtual_machine
<1>3. CASE ~r.ok /\ UNCHANGED ascom
  BY <1>3
<1>4. CASE r.ok /\ ascom' = [ascom EXCEPT ![v] = r.com]
  <2>1. \A w \in VMs \ {v} : ascom'[w] = ascom[w]
    BY <1>4 DEF TypeOK
  <2>2. CASE c = -1 \/ ascom[v] # -1
    <3>1. r.com = ascom[v]
      BY <2>2 DEF assign_comport
    <3>2. QED BY <1>4, <2>1, <3>1 DEF TypeOK
  <2>3. CASE ~(c = -1 \/ ascom[v] # -1)
    <3>1. c = AutoCom /\ ascom[v] = -1
      BY <1>1, <2>3
    <3>2. r \in AutoProbe(cf, tr)
      BY <3>1 DEF assign_comport, AutoCom
    <3>3. r.com \in Nat /\ \A w \in tr : ascom[w] < r.com
      BY <1>4, <3>2, ProbeAbove
    <3>4. QED BY <1>4, <2>1, <3>1, <3>3 DEF TypeOK
  <2>4. QED BY <2>2, <2>3
<1>5. QED BY <1>2, <1>3, <1>4

\* A step that gives at most v a console, and lets only v join or leave
\* the list, keeps consoles unique.
LEMMA ConsoleLocal ==
    ASSUME TypeOK, UntrackedNoConsole, AutoComUnique, NEW v \in VMs,
           tracked' \subseteq VMs,
           \A w \in VMs \ {v} : /\ ascom'[w] = ascom[w]
                                /\ (w \in tracked') = (w \in tracked),
           \/ ascom'[v] = -1
           \/ ascom'[v] = ascom[v] /\ v \in tracked'
           \/ /\ v \in tracked' /\ ascom'[v] \in Nat
              /\ \A w \in tracked' \ {v} : ascom[w] < ascom'[v]
    PROVE  UntrackedNoConsole' /\ AutoComUnique'
<1>1. UntrackedNoConsole'
  BY DEF UntrackedNoConsole
<1>2. ASSUME NEW x \in tracked', NEW y \in tracked', x # y, ascom'[x] # -1
      PROVE  ascom'[x] # ascom'[y]
  <2>1. CASE x # v /\ y # v
    BY <1>2, <2>1 DEF AutoComUnique, TypeOK
  <2>2. CASE x = v
    <3>1. CASE ascom'[v] = ascom[v] /\ v \in tracked'
      <4>1. v \in tracked
        BY <1>2, <2>2, <3>1 DEF UntrackedNoConsole, TypeOK
      <4>2. QED BY <1>2, <2>2, <3>1, <4>1 DEF AutoComUnique, TypeOK
    <3>2. CASE /\ ascom'[v] \in Nat
               /\ \A w \in tracked' \ {v} : ascom[w] < ascom'[v]
      BY <1>2, <2>2, <3>2 DEF TypeOK
    <3>3. QED BY <1>2, <2>2, <3>1, <3>2
  <2>3. CASE y = v
    <3>1. CASE ascom'[v] = -1
      BY <1>2, <2>3, <3>1
    <3>2. CASE ascom'[v] = ascom[v] /\ v \in tracked'
      BY <1>2, <2>3, <3>2 DEF AutoComUnique, UntrackedNoConsole, TypeOK
    <3>3. CASE /\ ascom'[v] \in Nat
               /\ \A w \in tracked' \ {v} : ascom[w] < ascom'[v]
      BY <1>2, <2>3, <3>3 DEF TypeOK
    <3>4. QED BY <2>3, <3>1, <3>2, <3>3
  <2>4. QED BY <2>1, <2>2, <2>3
<1>3. QED BY <1>1, <1>2 DEF AutoComUnique


\* A step in which start_virtual_machine gives v its console, v being on
\* the list afterwards and the probe scanning exactly that list.
LEMMA StartUnique ==
    ASSUME TypeOK, UntrackedNoConsole, AutoComUnique, NoLiteralConsoles,
           NEW v \in VMs, NEW cf, NEW tr \in SUBSET VMs, NEW tm,
           tr = tracked', tracked' = tracked \cup {v},
           \A w \in tr : cf[w] \in Entries,
           start_virtual_machine(v, cf, tr, tm)
    PROVE  UntrackedNoConsole' /\ AutoComUnique'
<1>1. /\ \A w \in VMs \ {v} : ascom'[w] = ascom[w]
      /\ \/ ascom'[v] = ascom[v]
         \/ /\ ascom[v] = -1 /\ ascom'[v] \in Nat
            /\ \A w \in tr : ascom[w] < ascom'[v]
  BY StartConsole
<1>2. \A w \in VMs \ {v} : (w \in tracked') = (w \in tracked)
  OBVIOUS
<1>3. tracked' \subseteq VMs /\ v \in tracked'
  BY DEF TypeOK
<1>4. QED BY <1>1, <1>2, <1>3, ConsoleLocal

\* create_vm_entry's boot decision on a VM that joins the list.
LEMMA CreateUnique ==
    ASSUME TypeOK, UntrackedNoConsole, AutoComUnique, NoLiteralConsoles,
           NEW v \in VMs, NEW cf, tracked' = tracked \cup {v},
           \A w \in tracked \cup {v} : cf[w] \in Entries,
           create_and_boot(v, cf)
    PROVE  UntrackedNoConsole' /\ AutoComUnique'
<1>1. CASE UNCHANGED ascom
  <2>1. \A w \in VMs \ {v} : /\ ascom'[w] = ascom[w]
                             /\ (w \in tracked') = (w \in tracked)
    BY <1>1
  <2>2. QED BY <1>1, <2>1, ConsoleLocal DEF TypeOK
<1>2. CASE start_virtual_machine(v, cf, tracked \cup {v}, timers[v])
  BY <1>2, StartUnique DEF TypeOK
<1>3. QED BY <1>1, <1>2 DEF create_and_boot

\* A step that leaves the consoles and the list alone.
LEMMA QuietUnique ==
    ASSUME UntrackedNoConsole, AutoComUnique, UNCHANGED <<ascom, tracked>>
    PROVE  UntrackedNoConsole' /\ AutoComUnique'
BY DEF UntrackedNoConsole, AutoComUnique

-----------------------------------------------------------------------------
(* Each callback keeps consoles unique.                                   *)

LEMMA ExitUnique ==
    ASSUME CInv, NoLiteralConsoles, NEW v \in VMs,
           \/ \E st \in Statuses : on_vm_exit_load(v, st) \/ on_vm_exit_run(v, st)
           \/ on_vm_exit_restart(v)
           \/ on_vm_exit_stop(v)
           \/ on_vm_exit_remove(v)
    PROVE  UntrackedNoConsole' /\ AutoComUnique'
<1>1. /\ TypeOK /\ UntrackedNoConsole /\ AutoComUnique
      /\ \A w \in tracked : conf[w] \in Entries
  BY DEF CInv, IInv, EntriesExist
<1>2. ASSUME start_virtual_machine(v, conf, tracked, timers[v]),
             v \in tracked, UNCHANGED tracked
      PROVE  UntrackedNoConsole' /\ AutoComUnique'
  <2>1. tracked \in SUBSET VMs /\ tracked = tracked' /\ tracked' = tracked \cup {v}
    BY <1>1, <1>2 DEF TypeOK
  <2>2. QED BY <1>1, <1>2, <2>1, StartUnique
<1>3. CASE \E st \in Statuses : on_vm_exit_load(v, st) \/ on_vm_exit_run(v, st)
  BY <1>1, <1>2, <1>3, QuietUnique
  DEF on_vm_exit_load, on_vm_exit_run, exit_delivered, vm_stopped
<1>4. CASE on_vm_exit_restart(v) \/ on_vm_exit_stop(v)
  BY <1>1, <1>4, QuietUnique DEF on_vm_exit_restart, on_vm_exit_stop,
                                 vm_stopped
<1>5. CASE on_vm_exit_remove(v)
  <2>1. /\ ascom' = [ascom EXCEPT ![v] = -1] /\ tracked' = tracked \ {v}
    BY <1>5 DEF on_vm_exit_remove, free_vm_entry
  <2>2. \A w \in VMs \ {v} : /\ ascom'[w] = ascom[w]
                             /\ (w \in tracked') = (w \in tracked)
    BY <1>1, <2>1 DEF TypeOK
  <2>3. ascom'[v] = -1 /\ tracked' \subseteq VMs
    BY <1>1, <2>1 DEF TypeOK
  <2>4. QED BY <1>1, <2>2, <2>3, ConsoleLocal
<1>6. QED BY <1>3, <1>4, <1>5

LEMMA TimerUnique ==
    ASSUME CInv, NoLiteralConsoles, NEW v \in VMs, NEW p \in Purposes,
           on_timer(v, p)
    PROVE  UntrackedNoConsole' /\ AutoComUnique'
<1>1. /\ TypeOK /\ UntrackedNoConsole /\ AutoComUnique
      /\ \A w \in tracked : conf[w] \in Entries
      /\ v \in tracked /\ UNCHANGED tracked
  BY DEF CInv, IInv, EntriesExist, on_timer
<1>2. CASE start_virtual_machine(v, conf, tracked,
                                 [timers[v] EXCEPT ![p] = @ - 1])
  <2>1. tracked \in SUBSET VMs /\ tracked = tracked' /\ tracked' = tracked \cup {v}
    BY <1>1 DEF TypeOK
  <2>2. QED BY <1>1, <1>2, <2>1, StartUnique
<1>3. CASE UNCHANGED ascom
  BY <1>1, <1>3, QuietUnique
<1>4. QED BY <1>2, <1>3 DEF on_timer

LEMMA ReloadUnique ==
    ASSUME CInv, NoLiteralConsoles, NEW v \in VMs,
           reload_add(v) \/ reload_update(v)
    PROVE  UntrackedNoConsole' /\ AutoComUnique'
<1>1. /\ TypeOK /\ UntrackedNoConsole /\ AutoComUnique
      /\ \A w \in tracked : conf[w] \in Entries
      /\ phase = "reload" /\ v \in todo
  BY DEF CInv, IInv, EntriesExist, reload_add, reload_update
<1>2. NewEntry(v) \in Entries
  BY <1>1, NewEntryOK DEF CInv
<1>3. CASE reload_add(v)
  <2>1. /\ conf' = [conf EXCEPT ![v] = NewEntry(v)]
        /\ tracked' = tracked \cup {v} /\ create_and_boot(v, conf')
    BY <1>3 DEF reload_add
  <2>2. \A w \in tracked \cup {v} : conf'[w] \in Entries
    BY <1>1, <1>2, <2>1 DEF TypeOK
  <2>3. QED BY <1>1, <2>1, <2>2, CreateUnique
<1>4. CASE reload_update(v)
  <2>1. v \in tracked /\ UNCHANGED tracked
    BY <1>4 DEF reload_update
  <2>2. CASE /\ conf' = [conf EXCEPT ![v] = NewEntry(v)]
             /\ start_virtual_machine(v, conf', tracked, timers[v])
    <3>1. \A w \in tracked : conf'[w] \in Entries
      BY <1>1, <1>2, <2>2 DEF TypeOK
    <3>2. tracked \in SUBSET VMs /\ tracked = tracked' /\ tracked' = tracked \cup {v}
      BY <1>1, <2>1 DEF TypeOK
    <3>3. QED BY <1>1, <2>2, <3>1, <3>2, StartUnique
  <2>3. CASE UNCHANGED ascom
    BY <1>1, <2>1, <2>3, QuietUnique
  <2>4. QED BY <1>4, <2>2, <2>3 DEF reload_update, acpi_stop, Goto
<1>5. QED BY <1>3, <1>4

LEMMA ReloadFinishUnique ==
    ASSUME CInv, reload_finish
    PROVE  UntrackedNoConsole' /\ AutoComUnique'
<1> DEFINE Gone == {v \in tracked : newconf[v] = NoEntry}
           Dropped == {v \in Gone : vmState[v] = "TERMINATE"}
<1>1. /\ tracked' = tracked \ Dropped
      /\ ascom' = [v \in VMs |-> IF v \in Dropped THEN -1 ELSE ascom[v]]
  BY DEF reload_finish
<1>2. TypeOK /\ UntrackedNoConsole /\ AutoComUnique
  BY DEF CInv, IInv
<1>3. QED BY <1>1, <1>2 DEF UntrackedNoConsole, AutoComUnique, TypeOK

-----------------------------------------------------------------------------
(* The invariant, and the theorems.                                        *)

LEMMA InitCInv == Init => CInv
<1> SUFFICES ASSUME Init PROVE CInv
  OBVIOUS
<1>1. IInv
  BY InitIInv
<1>2. tracked = {} /\ ascom = [v \in VMs |-> -1]
  BY DEF Init
<1>3. QED BY <1>1, <1>2 DEF CInv, UntrackedNoConsole, AutoComUnique

LEMMA NextCInv ==
    ASSUME NoLiteralConsoles
    PROVE  CInv /\ [Next]_vars => CInv'
<1> SUFFICES ASSUME CInv, [Next]_vars PROVE CInv'
  OBVIOUS
<1>1. IInv'
  BY NextIInv DEF CInv
<1>2. UntrackedNoConsole' /\ AutoComUnique'
  <2>1. CASE \E v \in VMs : start_virtual_machines(v)
    <3>1. PICK v \in VMs : start_virtual_machines(v)
      BY <2>1
    <3>2. /\ TypeOK /\ UntrackedNoConsole /\ AutoComUnique
          /\ tracked' = tracked \cup {v} /\ create_and_boot(v, conf)
          /\ \A w \in tracked \cup {v} : conf[w] \in Entries
      BY <3>1 DEF CInv, IInv, EntriesExist, start_virtual_machines
    <3>3. QED BY <3>2, CreateUnique
  <2>2. CASE \E v \in VMs :
               \/ \E st \in Statuses : on_vm_exit_load(v, st) \/ on_vm_exit_run(v, st)
               \/ on_vm_exit_restart(v)
               \/ on_vm_exit_stop(v)
               \/ on_vm_exit_remove(v)
    BY <2>2, ExitUnique
  <2>3. CASE \E v \in VMs, p \in Purposes : on_timer(v, p)
    BY <2>3, TimerUnique
  <2>4. CASE \E v \in VMs : reload_add(v) \/ reload_update(v)
    BY <2>4, ReloadUnique
  <2>5. CASE reload_finish
    BY <2>5, ReloadFinishUnique
  <2>6. CASE \/ reload_begin \/ stop_virtual_machines \/ shutdown_done
             \/ UNCHANGED vars
    BY <2>6, QuietUnique DEF CInv, reload_begin, stop_virtual_machines,
                             shutdown_done, vars
  <2>7. QED BY <2>1, <2>2, <2>3, <2>4, <2>5, <2>6 DEF Next
<1>3. QED BY <1>1, <1>2 DEF CInv

\* In every configuration whose consoles are all "auto" or absent, no two
\* VMs on the list ever hold the same console, whatever order the boots,
\* exits, timeouts and reloads come in, for every set of VMs, number of
\* probes and nmdm offset: assign_comport always probes above every
\* console a VM on the list holds (spec section 8, stability).
THEOREM AutoConsolesUnique ==
    ASSUME NoLiteralConsoles
    PROVE  Spec => []AutoComUnique
<1>1. CInv /\ [Next]_vars => CInv'
  BY NextCInv
<1>2. CInv => AutoComUnique
  BY DEF CInv
<1>3. QED BY <1>1, <1>2, InitCInv, PTL DEF Spec


-----------------------------------------------------------------------------
(* An assigned console never changes while its VM stays on the list.      *)

\* The step ComportSticky constrains.
StickyStep ==
    \A v \in tracked \cap tracked' : ascom[v] # -1 => ascom'[v] = ascom[v]

\* assign_comport's "already assigned" test: start_virtual_machine keeps
\* every console that is set, whatever the definition says.
LEMMA StartKeeps ==
    ASSUME TypeOK, NEW v \in VMs, NEW cf, NEW tr, NEW tm,
           start_virtual_machine(v, cf, tr, tm)
    PROVE  \A w \in VMs : ascom[w] # -1 => ascom'[w] = ascom[w]
<1>1. PICK r \in assign_comport(v, cf, tr) :
          \/ ~r.ok /\ UNCHANGED ascom
          \/ r.ok /\ ascom' = [ascom EXCEPT ![v] = r.com]
  BY DEF start_virtual_machine
<1>2. ascom[v] # -1 => r.com = ascom[v]
  BY DEF assign_comport
<1>3. QED BY <1>1, <1>2 DEF TypeOK

\* create_vm_entry's boot decision keeps every console that is set.
LEMMA CreateKeeps ==
    ASSUME TypeOK, NEW v \in VMs, NEW cf, create_and_boot(v, cf)
    PROVE  \A w \in VMs : ascom[w] # -1 => ascom'[w] = ascom[w]
BY StartKeeps DEF create_and_boot

LEMMA NextSticky == IInv /\ [Next]_vars => StickyStep
<1> SUFFICES ASSUME IInv, [Next]_vars PROVE StickyStep
  OBVIOUS
<1>1. TypeOK
  BY DEF IInv
<1>2. CASE \A w \in VMs : ascom[w] # -1 => ascom'[w] = ascom[w]
  BY <1>1, <1>2, SMTT(30) DEF StickyStep, TypeOK
<1>3. ASSUME NEW v \in VMs,
             \/ start_virtual_machines(v)
             \/ \E st \in Statuses : on_vm_exit_load(v, st) \/ on_vm_exit_run(v, st)
             \/ on_vm_exit_restart(v)
             \/ on_vm_exit_stop(v)
             \/ \E p \in Purposes : on_timer(v, p)
             \/ reload_add(v)
             \/ reload_update(v)
      PROVE  \A w \in VMs : ascom[w] # -1 => ascom'[w] = ascom[w]
  BY <1>1, <1>3, StartKeeps, CreateKeeps
  DEF start_virtual_machines, on_vm_exit_load, on_vm_exit_run, vm_stopped,
      on_vm_exit_restart, on_vm_exit_stop, on_timer, reload_add,
      reload_update, acpi_stop, Goto
<1>4. ASSUME NEW v \in VMs, on_vm_exit_remove(v)
      PROVE  StickyStep
  BY <1>1, <1>4 DEF on_vm_exit_remove, free_vm_entry, StickyStep, TypeOK
<1>5. CASE reload_finish
  BY <1>1, <1>5 DEF reload_finish, StickyStep, TypeOK
<1>6. CASE \/ reload_begin \/ stop_virtual_machines \/ shutdown_done
           \/ UNCHANGED vars
  BY <1>2, <1>6 DEF reload_begin, stop_virtual_machines, shutdown_done, vars
<1>7. QED BY <1>2, <1>3, <1>4, <1>5, <1>6 DEF Next

\* Once assign_comport has given a VM its console, that console never
\* changes while the VM stays on the list, over restarts, relaunches,
\* timeouts and reloads that change its definition (the "already
\* assigned" check, bmd.c 846-848), for every configuration.
THEOREM ComportStability == Spec => ComportSticky
<1>1. IInv /\ [Next]_vars => [StickyStep]_vars
  BY NextSticky
<1>2. QED BY <1>1, IInvariant, PTL DEF Spec, ComportSticky, StickyStep

==============================================================================
