---------------------------- MODULE CreditWindow ----------------------------
(***************************************************************************)
(* What window flow control promises for one direction of a circuit, as a  *)
(* credit account: the sender is at most Start data cells ahead of the     *)
(* credit it has been given back, and the receiver gives back Increment    *)
(* cells of credit for every Increment data cells that reached it.         *)
(***************************************************************************)
EXTENDS Integers

CONSTANTS Start, Increment

VARIABLES
    packaged,  \* data cells the sender has put on the circuit
    received,  \* data cells the receiver has taken off the circuit
    granted,   \* acknowledgements the receiver has sent
    credited   \* acknowledgements the sender has taken into account

creditVars == <<packaged, received, granted, credited>>

CreditInit == packaged = 0 /\ received = 0 /\ granted = 0 /\ credited = 0

(* The sender takes at most one acknowledgement into account, and packages *)
(* any number of cells its credit allows.                                  *)
Send ==
    /\ credited' \in {credited, credited + 1}
    /\ credited' <= granted
    /\ packaged' \in packaged .. (Start + Increment * credited')
    /\ UNCHANGED <<received, granted>>

(* The receiver takes a cell, and acknowledges no more than it received.   *)
Receive ==
    /\ received < packaged
    /\ received' = received + 1
    /\ granted' \in {granted, granted + 1}
    /\ Increment * granted' <= received'
    /\ UNCHANGED <<packaged, credited>>

CreditNext == Send \/ Receive

CreditSpec == CreditInit /\ [][CreditNext]_creditVars

-----------------------------------------------------------------------------
(* The windows of the two ends.                                            *)
PackageWindow == Start + Increment * credited - packaged
DeliverWindow == Start + Increment * granted - received

CreditTypeOK == /\ packaged \in Nat /\ received \in Nat
                /\ granted \in Nat /\ credited \in Nat

(* Neither window leaves 0 .. Start, and no more than Start data cells are *)
(* under way (the bound RELAY_CIRC_CELL_QUEUE_SIZE_MIN is derived from).   *)
WindowsBounded == /\ PackageWindow \in 0 .. Start
                  /\ DeliverWindow \in 0 .. Start
                  /\ packaged - received \in 0 .. Start
=============================================================================
