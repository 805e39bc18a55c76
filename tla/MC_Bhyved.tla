------------------------------ MODULE MC_Bhyved ------------------------------
(* A small conf.d for TLC: two VMs that boot, one with two nets, and one  *)
(* that does not boot.                                                     *)
EXTENDS Bhyved

NetsOf == [v \in VMs |-> IF v \in Boots THEN 2 ELSE 1]

==============================================================================
