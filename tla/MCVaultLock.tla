---------------------------- MODULE MCVaultLock -----------------------------
(***************************************************************************)
(* Instances of VaultLock for TLC: three commands of one machine that      *)
(* contend, and a round with the `propose` its model runs beside another   *)
(* round.                                                                  *)
(***************************************************************************)
EXTENDS VaultLock

CONSTANTS p1, p2, p3, p4

ThreeProcs == {p1, p2, p3}
FourProcs  == {p1, p2, p3, p4}

(* Every process can compare its identity with every other.                *)
OneMachine == Procs \X Procs

(* p4 runs where the others' identities cannot be compared with its own: a *)
(* container, or another machine.                                          *)
OneApart == {<<a, b>> \in Procs \X Procs : (a = p4) <=> (b = p4)}

NoParents == [p \in Procs |-> NoProc]

(* p2 is the `propose` of the round p1.                                    *)
OneRound == [p \in Procs |-> IF p = p2 THEN p1 ELSE NoProc]
=============================================================================
