--------------------------- MODULE DirectRunProofs ---------------------------
(***************************************************************************)
(* Proofs about direct_run for every definition and every net count.      *)
(* ReturnsClean is not inductive: a step into done may leave proc or taps *)
(* as they are, which is only right because no child runs at init, at     *)
(* boot (the loader was reaped) or at done, and no tap exists at init.    *)
(***************************************************************************)
EXTENDS DirectRun, TLAPS

\* The labels at which direct_run has no child, and no taps, and the
\* state bhyve runs in.
NoChildAt == pc \in {"init", "boot", "done"} => proc = "none"
NoTapsAt == pc \in {"init", "done"} => taps = 0
ReapInRun == pc = "reap" => vst = "RUN"

DInv == TypeOK /\ NoChildAt /\ NoTapsAt /\ ReapInRun

LEMMA InitDInv == Init => DInv
BY DirectRunAssumption DEF Init, DInv, TypeOK, NoChildAt, NoTapsAt, ReapInRun,
   Defs, Pcs, States, Images

\* The values VM_START gives are typed.
LEMMA StartTyped ==
    ASSUME TypeOK
    PROVE  /\ StartImage \in Images
           /\ StateOf(StartImage) \in States
           /\ StartTaps \in Nat
BY DirectRunAssumption DEF TypeOK, StartImage, StateOf, StartTaps, Images,
   States, Defs

LEMMA NextDInv == DInv /\ [Next]_vars => DInv'
<1> SUFFICES ASSUME DInv, [Next]_vars PROVE DInv'
  OBVIOUS
<1> USE DEF DInv, TypeOK, NoChildAt, NoTapsAt, ReapInRun, Pcs, Images, States
<1>0. StartImage \in Images /\ StateOf(StartImage) \in States /\ StartTaps \in Nat
  BY StartTyped
<1>a. def' = def
  BY DEF Next, vars
<1> USE <1>a
<1>1. CASE setup_fail
  BY <1>1 DEF setup_fail
<1>2. CASE launch
  BY <1>0, <1>2 DEF launch, cleanup_and_return, StateOf
<1>3. CASE wait_fail
  BY <1>3 DEF wait_fail, cleanup_and_return
<1>4. CASE on_loader_timeout
  BY <1>4 DEF on_loader_timeout, cleanup_and_return
<1>5. CASE \E ok \in BOOLEAN : on_proc_exit(ok)
  BY <1>5 DEF on_proc_exit, cleanup_and_return
<1>6. CASE boot
  BY <1>0, <1>6 DEF boot, cleanup_and_return, StateOf, StartImage
<1>7. CASE reap
  BY <1>7 DEF reap, cleanup_and_return
<1>8. CASE UNCHANGED vars
  BY <1>8 DEF vars
<1> QED
  BY <1>1, <1>2, <1>3, <1>4, <1>5, <1>6, <1>7, <1>8 DEF Next

\* DInv holds in every state direct_run reaches.
THEOREM DInvariant == Spec => []DInv
BY InitDInv, NextDInv, PTL DEF Spec

\* Whichever path direct_run returns by (a setup failure, err after a
\* failed launch, kevent failure, loader failure or timeout, or the end),
\* no child it forked is left running and the taps are destroyed.
THEOREM CleanReturn == Spec => []ReturnsClean
<1>1. DInv => ReturnsClean
  BY DEF DInv, NoChildAt, NoTapsAt, ReturnsClean
<1> QED
  BY <1>1, DInvariant, PTL

\* A step that makes direct_run return 0 comes after bhyve ran: the VM is
\* in RUN and no child is left.
LEMMA ZeroStep ==
    DInv /\ [Next]_vars => [rc' = 0 /\ rc # 0 => vst = "RUN" /\ proc' = "none"]_vars
<1> SUFFICES ASSUME DInv, [Next]_vars, rc' = 0, rc # 0
             PROVE  vst = "RUN" /\ proc' = "none"
  BY DEF vars
<1> USE DEF DInv, NoChildAt, ReapInRun
<1>1. CASE boot
  BY <1>1 DEF boot, cleanup_and_return
<1>2. CASE reap
  BY <1>2 DEF reap, cleanup_and_return
<1>3. CASE ~boot /\ ~reap
  BY <1>3 DEF Next, vars, setup_fail, launch, wait_fail, on_loader_timeout,
     on_proc_exit, cleanup_and_return
<1> QED
  BY <1>1, <1>2, <1>3

\* direct_run returns 0 only once the guest ran (ZeroMeansGuestRan).
THEOREM ZeroOnlyAfterGuest == Spec => ZeroMeansGuestRan
BY DInvariant, ZeroStep, PTL DEF Spec, ZeroMeansGuestRan

==============================================================================
