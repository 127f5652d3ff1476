------------------------- MODULE CreditWindowProofs -------------------------
(* What the credit account of CreditWindow guarantees for every window size *)
(* and increment; FlowControl implements it once in each direction.         *)
EXTENDS CreditWindow, TLAPS

(* The two counters of a direction chase each other: acknowledgements are   *)
(* taken into account after they were sent, sent after the cells arrived,   *)
(* and cells are packaged only on credit.  The bounds on the windows follow *)
(* from the chain but are not inductive without it.                         *)
CreditChain ==
    /\ CreditTypeOK
    /\ credited <= granted
    /\ Increment * granted <= received
    /\ received <= packaged
    /\ packaged <= Start + Increment * credited

(* Credit for more acknowledgements is never less credit.                   *)
LEMMA MoreCredit ==
    ASSUME NEW i \in Nat, NEW m \in Nat, NEW n \in Nat, m <= n
    PROVE  /\ i * m \in Nat /\ i * n \in Nat
           /\ i * m <= i * n
<1>1. PICK d \in Nat : n = m + d
  <2>1. n - m \in Nat /\ n = m + (n - m)  OBVIOUS
  <2> QED BY <2>1
<1>2. i * d \in Nat /\ i * m \in Nat  OBVIOUS
<1>3. i * n = i * m + i * d  BY <1>1
<1> QED BY <1>2, <1>3

(* Both ends keep the chain.                                                *)
LEMMA ChainKept ==
    ASSUME Start \in Nat, Increment \in Nat,
           CreditChain, [CreditNext]_creditVars
    PROVE  CreditChain'
<1> USE DEF CreditChain, CreditTypeOK
<1>1. ASSUME Send PROVE CreditChain'
  <2>1. credited' \in Nat /\ credited <= credited' /\ credited' <= granted
    BY <1>1 DEF Send
  <2>2. Increment * credited \in Nat /\ Increment * credited' \in Nat
    BY <2>1, MoreCredit
  <2>3. PICK credit \in Nat : credit = Increment * credited'
    BY <2>2
  <2>4. packaged' \in packaged .. (Start + credit)
    BY <1>1, <2>3 DEF Send
  <2>5. packaged' \in Nat /\ packaged <= packaged'
                         /\ packaged' <= Start + credit
    BY <2>4
  <2>6. received' = received /\ granted' = granted /\ received <= packaged'
    BY <1>1, <2>5 DEF Send
  <2>7. Increment * granted' <= received'
    BY <2>6
  <2> QED BY <2>1, <2>3, <2>5, <2>6, <2>7
<1>2. ASSUME Receive PROVE CreditChain'
  <2>1. /\ received' = received + 1 /\ received < packaged
        /\ packaged' = packaged /\ credited' = credited
    BY <1>2 DEF Receive
  <2>2. granted' \in {granted, granted + 1}
    BY <1>2 DEF Receive
  <2>3. granted' \in Nat /\ granted <= granted'
    BY <2>2
  <2>4. Increment * granted' <= received'
    BY <1>2 DEF Receive
  <2>5. packaged' <= Start + Increment * credited'
    BY <2>1
  <2>6. received' \in Nat /\ received' <= packaged' /\ credited' <= granted'
    BY <2>1, <2>3
  <2> QED BY <2>1, <2>3, <2>4, <2>5, <2>6
<1>3. ASSUME UNCHANGED creditVars PROVE CreditChain'
  BY <1>3 DEF creditVars
<1> QED BY <1>1, <1>2, <1>3 DEF CreditNext

(* The chain bounds the windows of both ends and the cells between them.    *)
LEMMA ChainBounds ==
    ASSUME Start \in Nat, Increment \in Nat, CreditChain
    PROVE  WindowsBounded
<1> USE DEF CreditChain, CreditTypeOK
<1>1. /\ Increment * credited \in Nat /\ Increment * granted \in Nat
      /\ Increment * credited <= Increment * granted
  BY MoreCredit
<1>2. Start + Increment * credited - packaged \in 0 .. Start
  BY <1>1
<1>3. Start + Increment * granted - received \in 0 .. Start
  BY <1>1
<1>4. packaged - received \in 0 .. Start
  BY <1>1
<1> QED BY <1>2, <1>3, <1>4 DEF WindowsBounded, PackageWindow, DeliverWindow

(* Window flow control bounds what is under way: for every window size and  *)
(* every increment, neither end's window leaves 0 .. Start, and at most     *)
(* Start data cells are between the two ends (the SENDME accounting of      *)
(* sendme.c, on which the circuit queue limit of relay.c relies).           *)
THEOREM WindowsStayBounded ==
    ASSUME Start \in Nat, Increment \in Nat
    PROVE  CreditSpec => []WindowsBounded
<1>1. CreditInit => CreditChain
  <2> SUFFICES ASSUME CreditInit PROVE CreditChain  OBVIOUS
  <2>1. Increment * 0 = 0  OBVIOUS
  <2> QED BY <2>1 DEF CreditInit, CreditChain, CreditTypeOK
<1>2. CreditChain /\ [CreditNext]_creditVars => CreditChain'
  BY ChainKept
<1>3. CreditChain => WindowsBounded
  BY ChainBounds
<1> QED BY <1>1, <1>2, <1>3, PTL DEF CreditSpec
=============================================================================
