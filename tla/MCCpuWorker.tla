---------------------------- MODULE MCCpuWorker ----------------------------
(* Two or three circuits of two handshake types. *)
EXTENDS CpuWorker, TLC

CONSTANTS c1, c2, c3, t1, t2, d1

OneChannel == [c \in Circ |-> 1]
AllWork == Circ \cup OtherWork
Symmetry == Permutations(Thread)
=============================================================================
