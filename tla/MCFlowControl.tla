--------------------------- MODULE MCFlowControl ----------------------------
(* Instances of FlowControl for TLC. *)
EXTENDS FlowControl

(* The client writes more than the window of the circuit and of a stream,  *)
(* the exit just a window of the circuit.  The client hangs up on a stream *)
(* the exit may still be sending on.                                       *)
MCAppData == [x \in Ends |-> IF x = "origin" THEN <<6, 3>> ELSE <<3, 1>>]
MCClosers == {<<"origin", 2>>}
=============================================================================
