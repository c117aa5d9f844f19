------------------------------ MODULE MCIpc -------------------------------
(* Two or three threads that any permutation exchanges.                    *)
EXTENDS Ipc, TLC

MCTimeout == {2}
ThreadSymmetry == Permutations(Thread)
===========================================================================
