-------------------------- MODULE MCDnp3Outstation --------------------------
(* Finite instances of Dnp3Outstation.                                        *)
EXTENDS Dnp3Outstation, TLC

CONSTANTS m1, m2, c1, c2, go, bad

MCMaster == {m1, m2}
MCClass == {c1, c2}
MCSymmetry == Permutations(MCMaster) \cup Permutations(MCClass)
MCCommand == {go, bad}
MCMalformed == {bad}

=============================================================================
