----------------------- MODULE DirectoryContractProofs -----------------------
(***************************************************************************)
(* Proofs about the directory contract, for every set of addresses, every  *)
(* width of the integers and every call the owner and the relays make, as  *)
(* long as the counters do not wrap around.                                *)
(***************************************************************************)
EXTENDS DirectoryContract, TLAPS

\* What Append does to a sequence, and the function a sequence is.
LEMMA AppendElements ==
    ASSUME NEW S, NEW s \in Seq(S), NEW e \in S
    PROVE  /\ Append(s, e) \in Seq(S)
           /\ Len(Append(s, e)) = Len(s) + 1
           /\ \A k \in 1..Len(s) : Append(s, e)[k] = s[k]
           /\ Append(s, e)[Len(s) + 1] = e
  BY SMT

LEMMA SequenceIsFunction ==
    ASSUME NEW S, NEW s \in Seq(S)
    PROVE  s \in [1..Len(s) -> S]
  BY SMT

\* The elements of a concatenation with the first n elements of a list.
LEMMA RangeAppendPrefix ==
    ASSUME NEW S, NEW s \in Seq(S), NEW list \in Seq(S), NEW n \in Nat, n <= Len(list)
    PROVE  /\ SubSeq(list, 1, n) \in Seq(S)
           /\ s \o SubSeq(list, 1, n) \in Seq(S)
           /\ Range(s \o SubSeq(list, 1, n)) = Range(s) \cup {list[k] : k \in 1..n}
<1>1. /\ SubSeq(list, 1, n) \in Seq(S)
      /\ Len(SubSeq(list, 1, n)) = n
      /\ \A k \in 1..n : SubSeq(list, 1, n)[k] = list[k]
  BY SMT
<1> DEFINE t == SubSeq(list, 1, n)
<1>2. /\ s \o t \in Seq(S)
      /\ Len(s \o t) = Len(s) + n
      /\ \A k \in 1..Len(s) : (s \o t)[k] = s[k]
      /\ \A k \in (Len(s) + 1)..(Len(s) + n) : (s \o t)[k] = t[k - Len(s)]
  BY <1>1, SMT
<1>3. Range(s \o t) = Range(s) \cup {list[k] : k \in 1..n}
  <2>0. /\ DOMAIN (s \o t) = 1..(Len(s) + n) /\ DOMAIN s = 1..Len(s)
        /\ Len(s) \in Nat
    BY <1>2
  <2> HIDE DEF t
  <2>1. ASSUME NEW x \in Range(s \o t)
        PROVE  x \in Range(s) \cup {list[k] : k \in 1..n}
    <3>1. PICK k \in 1..(Len(s) + n) : x = (s \o t)[k]
      BY <2>0 DEF Range
    <3>2. CASE k <= Len(s)
      <4>1. k \in 1..Len(s)
        BY <3>2, <2>0
      <4>2. x = s[k]
        BY <3>1, <4>1, <1>2
      <4>3. x \in Range(s)
        BY <4>1, <4>2, <2>0 DEF Range
      <4> QED BY <4>3
    <3>3. CASE k > Len(s)
      <4>1. k - Len(s) \in 1..n /\ k \in (Len(s) + 1)..(Len(s) + n)
        BY <3>3, <2>0
      <4>2. x = list[k - Len(s)]
        BY <3>1, <4>1, <1>1, <1>2 DEF t
      <4> QED BY <4>1, <4>2
    <3> QED BY <3>2, <3>3, <2>0
  <2>2. ASSUME NEW x \in Range(s) PROVE x \in Range(s \o t)
    <3>1. PICK k \in 1..Len(s) : x = s[k]
      BY <2>0 DEF Range
    <3> QED BY <3>1, <1>2, <2>0 DEF Range
  <2>3. ASSUME NEW k \in 1..n PROVE list[k] \in Range(s \o t)
    <3>1. k + Len(s) \in (Len(s) + 1)..(Len(s) + n) /\ (k + Len(s)) - Len(s) = k
          /\ k + Len(s) \in 1..(Len(s) + n)
      BY <2>0
    <3>2. (s \o t)[k + Len(s)] = list[k]
      BY <3>1, <1>1, <1>2 DEF t
    <3> QED BY <3>1, <3>2, <2>0 DEF Range
  <2> QED BY <2>1, <2>2, <2>3
<1> QED BY <1>1, <1>2, <1>3

-----------------------------------------------------------------------------

\* The contract starts in the invariant.
LEMMA ContractInitInv == ContractInit => ContractInv
<1> SUFFICES ASSUME ContractInit PROVE ContractInv
  OBVIOUS
<1> USE DEF ContractInit, Index, CounterValue
<1>1. ContractTypeOK
  BY WidthAssumption, BytesAssumption, PeriodsAssumption
     DEF ContractTypeOK, RelayRecord, NoRelay, EmptyBytes
<1>2. CountersInStep
  BY DEF CountersInStep
<1>3. IndexOwnership /\ HealthyAreAddressed /\ UnregisteredHoldNothing
  BY DEF IndexOwnership, HealthyAreAddressed, UnregisteredHoldNothing, NoRelay
<1>4. HistoryComplete /\ UnhealthyBelow
  BY DEF HistoryComplete, UnhealthyBelow
<1> QED BY <1>1, <1>2, <1>3, <1>4 DEF ContractInv

\* An increment that stays below the width is not reduced.
LEMMA SmallIncrement ==
    ASSUME NEW n \in Nat, NEW w \in Nat, n + 1 < w
    PROVE  (n + 1) % w = n + 1
  BY SMT

\* A counter step that does not wrap keeps the history and extends it by one.
LEMMA LogChangeExtends ==
    ASSUME NoWrap, ContractInv, NEW op \in BOOLEAN, NEW list \in Seq(Index),
           LogChange(op, list)
    PROVE  /\ CurrentCounter' = CurrentCounter + 1
           /\ CurrentCounter' \in CounterValue
           /\ CounterOP' \in [CounterValue -> BOOLEAN]
           /\ CounterList' \in [CounterValue -> Seq(Index)]
           /\ CounterOP'[CurrentCounter] = op
           /\ CounterList'[CurrentCounter] = list
           /\ \A c \in 1..(CurrentCounter - 1) :
                 CounterOP'[c] = CounterOP[c] /\ CounterList'[c] = CounterList[c]
<1>1. /\ CurrentCounter \in CounterValue /\ CurrentCounter + 1 < UINT8
      /\ CounterOP \in [CounterValue -> BOOLEAN]
      /\ CounterList \in [CounterValue -> Seq(Index)]
  BY WidthAssumption DEF NoWrap, ContractInv, ContractTypeOK, LogChange, CounterValue
<1>2. CurrentCounter' = CurrentCounter + 1 /\ CurrentCounter' \in CounterValue
  <2>1. CurrentCounter \in Nat /\ UINT8 \in Nat
    BY <1>1, WidthAssumption DEF CounterValue
  <2>2. (CurrentCounter + 1) % UINT8 = CurrentCounter + 1
    BY <1>1, <2>1, SmallIncrement
  <2> QED BY <1>1, <2>1, <2>2 DEF LogChange, CounterValue
<1>3. 1..(CurrentCounter - 1) \subseteq CounterValue \ {CurrentCounter}
  BY <1>1, WidthAssumption DEF CounterValue
<1> QED BY <1>1, <1>2, <1>3 DEF LogChange

\* Hence what the history reported before a counter step it reports after it.
LEMMA LogChangeMonotone ==
    ASSUME NoWrap, ContractInv, NEW op \in BOOLEAN, NEW list \in Seq(Index),
           LogChange(op, list), NEW c \in 1..CurrentCounter, NEW b \in BOOLEAN
    PROVE  Changed(c, b)' = Changed(c, b) \cup (IF b = op THEN Range(list) ELSE {})
<1> DEFINE Old == {j \in c..(CurrentCounter - 1) : CounterOP[j] = b}
           New == {j \in c..(CurrentCounter' - 1) : CounterOP'[j] = b}
<1>1. CurrentCounter \in Nat /\ c \in Nat /\ c >= 1 /\ c <= CurrentCounter
  BY WidthAssumption DEF ContractInv, ContractTypeOK, CounterValue
<1>2. New = Old \cup (IF b = op THEN {CurrentCounter} ELSE {})
  <2>1. /\ CurrentCounter' = CurrentCounter + 1
        /\ CounterOP'[CurrentCounter] = op
        /\ \A j \in 1..(CurrentCounter - 1) : CounterOP'[j] = CounterOP[j]
    BY LogChangeExtends
  <2>2. c..(CurrentCounter' - 1) = (c..(CurrentCounter - 1)) \cup {CurrentCounter}
    BY <1>1, <2>1
  <2>3. \A j \in c..(CurrentCounter - 1) : CounterOP'[j] = CounterOP[j]
    BY <1>1, <2>1
  <2>4. CurrentCounter \notin c..(CurrentCounter - 1)
    BY <1>1
  <2> QED BY <2>1, <2>2, <2>3, <2>4, Zenon
<1>3. \A k \in Old : CounterList'[k] = CounterList[k]
  BY <1>1, LogChangeExtends
<1>4. CounterList'[CurrentCounter] = list
  BY LogChangeExtends
<1>5. Changed(c, b) = UNION {Range(CounterList[k]) : k \in Old}
  BY DEF Changed
<1>6. Changed(c, b)' = UNION {Range(CounterList'[k]) : k \in New}
  BY DEF Changed
<1> HIDE DEF Old, New
<1> QED BY <1>2, <1>3, <1>4, <1>5, <1>6

\* What a registration does to the broadcast set.
LEMMA RegisterEffect ==
    ASSUME NoWrap, ContractInv, NEW a \in Addr, relay_register(a)
    PROVE  /\ relayIndex \in Index /\ relayIndex \in Nat /\ relayIndex >= 1
           /\ relayIndex' = relayIndex + 1
           /\ LogChange(TRUE, <<relayIndex>>)
           /\ <<relayIndex>> \in Seq(Index) /\ Range(<<relayIndex>>) = {relayIndex}
           /\ IndexSet' = IndexSet \cup {relayIndex}
<1>1. relayIndex \in Index /\ relayIndex \in Nat /\ relayIndex >= 1 /\ relayIndex + 1 < UINT16
  BY WidthAssumption
     DEF ContractInv, ContractTypeOK, CountersInStep, relay_register, LogChange, NoWrap, Index,
         CounterValue
<1>2. relayIndex' = relayIndex + 1
  BY <1>1, WidthAssumption, SmallIncrement DEF relay_register
<1>3. LogChange(TRUE, <<relayIndex>>) /\ unhealthyRelaySet' = unhealthyRelaySet
  BY DEF relay_register
<1>4. 1..(relayIndex' - 1) = (1..(relayIndex - 1)) \cup {relayIndex}
  BY <1>1, <1>2
<1>5. relayIndex \notin Range(unhealthyRelaySet)
  BY <1>1 DEF ContractInv, UnhealthyBelow, Range
<1>6. IndexSet' = IndexSet \cup {relayIndex}
  BY <1>3, <1>4, <1>5 DEF IndexSet
<1>7. <<relayIndex>> \in Seq(Index) /\ Range(<<relayIndex>>) = {relayIndex}
  BY <1>1 DEF Range
<1> QED BY <1>1, <1>2, <1>3, <1>6, <1>7

\* A registration takes the fresh index relayIndex for a caller that had none.
LEMMA RegisterInv ==
    ASSUME NoWrap, ContractInv, NEW a \in Addr, relay_register(a)
    PROVE  ContractInv'
<1> DEFINE n == relayIndex
<1>0. /\ ContractTypeOK /\ CountersInStep /\ UnhealthyBelow /\ IndexOwnership
      /\ HealthyAreAddressed /\ UnregisteredHoldNothing /\ HistoryComplete
  BY DEF ContractInv
<1>1. /\ n \in Index /\ n # 0 /\ n + 1 \in Index
      /\ relayIndex' = n + 1
      /\ CurrentCounter \in Nat /\ n \in Nat
  <2>1. n + 1 < UINT16 /\ CurrentCounter \in Nat
    BY <1>0, WidthAssumption
       DEF ContractTypeOK, CountersInStep, relay_register, LogChange, NoWrap, Index, CounterValue
  <2>2. n \in Index /\ n \in Nat /\ n >= 1 /\ relayIndex' = n + 1
    BY RegisterEffect
  <2> QED BY <2>1, <2>2, WidthAssumption DEF Index
<1>2. <<n>> \in Seq(Index) /\ Range(<<n>>) = {n}
  BY RegisterEffect
<1>3. LogChange(TRUE, <<n>>)
  BY DEF relay_register
<1>4. /\ CurrentCounter' = CurrentCounter + 1 /\ CurrentCounter' \in CounterValue
      /\ CounterOP' \in [CounterValue -> BOOLEAN]
      /\ CounterList' \in [CounterValue -> Seq(Index)]
  BY <1>2, <1>3, LogChangeExtends
<1>5. ~relay[n].registered /\ relay[n] = NoRelay /\ relayaddr[a] = 0
  <2>1. \A b \in Addr : relayaddr[b] # n
    BY <1>0, <1>1, WidthAssumption DEF CountersInStep, ContractTypeOK, Index
  <2>2. ~relay[n].registered
    BY <1>0, <1>1, <2>1 DEF IndexOwnership
  <2>3. relayaddr[a] = 0
    BY <1>0 DEF IndexOwnership, relay_register, registered, ContractTypeOK
  <2> QED BY <1>0, <1>1, <2>2, <2>3 DEF UnregisteredHoldNothing
<1>6. /\ relay' \in [Index -> RelayRecord]
      /\ relay'[n] \in RelayRecord /\ relay'[n].registered /\ relay'[n].healthflag
      /\ \A i \in Index \ {n} : relay'[i] = relay[i]
  <2>1. relay \in [Index -> RelayRecord] /\ n \in Index /\ relay[n] \in RelayRecord
    BY <1>0, <1>1 DEF ContractTypeOK
  <2>2. relay' = [relay EXCEPT ![n].registered = TRUE, ![n].healthflag = TRUE]
    BY <1>0 DEF relay_register
  <2>3. \A i \in Index \ {n} : relay'[i] = relay[i]
    BY <2>1, <2>2
  <2>4. relay'[n] = [relay[n] EXCEPT !.registered = TRUE, !.healthflag = TRUE]
    BY <2>1, <2>2
  <2>5. relay'[n] \in RelayRecord /\ relay'[n].registered /\ relay'[n].healthflag
    BY <2>1, <2>4 DEF RelayRecord
  <2>6. relay' \in [Index -> RelayRecord]
    BY <2>1, <2>2, <2>3, <2>5
  <2> QED BY <2>3, <2>5, <2>6
<1>7. /\ relayaddr' \in [Addr -> Index] /\ relayaddr'[a] = n
      /\ \A b \in Addr \ {a} : relayaddr'[b] = relayaddr[b]
  BY <1>0, <1>1 DEF ContractTypeOK, relay_register
<1>8. ContractTypeOK'
  BY <1>0, <1>1, <1>4, <1>6, <1>7 DEF ContractTypeOK, relay_register
<1>9. CountersInStep'
  <2>1. 1 <= relayIndex' /\ relayIndex' <= CurrentCounter'
    BY <1>0, <1>1, <1>4 DEF CountersInStep
  <2>2. ASSUME NEW b \in Addr PROVE relayaddr'[b] < relayIndex'
    <3>1. relayaddr[b] < n /\ relayaddr[b] \in Nat
      BY <1>0, WidthAssumption DEF CountersInStep, ContractTypeOK, Index
    <3>2. relayaddr'[b] = n \/ relayaddr'[b] = relayaddr[b]
      BY <1>7
    <3> QED BY <3>1, <3>2, <1>1
  <2> QED BY <2>1, <2>2 DEF CountersInStep
<1>10. IndexOwnership'
  <2>1. ASSUME NEW i \in Index
        PROVE  relay'[i].registered <=> i # 0 /\ \E b \in Addr : relayaddr'[b] = i
    <3>1. CASE i = n
      BY <3>1, <1>1, <1>6, <1>7
    <3>2. CASE i # n
      BY <3>2, <1>0, <1>5, <1>6, <1>7 DEF IndexOwnership
    <3> QED BY <3>1, <3>2
  <2>2. ASSUME NEW b \in Addr, NEW c \in Addr, relayaddr'[b] = relayaddr'[c], relayaddr'[b] # 0
        PROVE  b = c
    <3>1. \A d \in Addr : relayaddr[d] # n
      BY <1>0, <1>1, WidthAssumption DEF CountersInStep, ContractTypeOK, Index
    <3> QED BY <2>2, <3>1, <1>0, <1>7 DEF IndexOwnership
  <2> QED BY <2>1, <2>2 DEF IndexOwnership
<1>11. IndexSet' = IndexSet \cup {n}
  BY RegisterEffect
<1>12. HealthyAreAddressed'
  BY <1>0, <1>6, <1>11 DEF HealthyAreAddressed
<1>13. UnregisteredHoldNothing'
  BY <1>0, <1>6 DEF UnregisteredHoldNothing
<1>14. HistoryComplete'
  <2>1. Changed(1, TRUE)' = Changed(1, TRUE) \cup {n}
    <3>1. 1 \in 1..CurrentCounter
      BY <1>0, <1>1 DEF CountersInStep
    <3> QED BY <1>2, <1>3, <3>1, LogChangeMonotone
  <2>2. 1..(relayIndex' - 1) = (1..(relayIndex - 1)) \cup {n}
    BY <1>1
  <2> QED BY <1>0, <2>1, <2>2 DEF HistoryComplete
<1>15. UnhealthyBelow'
  <2>1. ASSUME NEW k \in DOMAIN unhealthyRelaySet
        PROVE  unhealthyRelaySet[k] < n + 1
    <3>1. unhealthyRelaySet[k] \in Index /\ unhealthyRelaySet[k] < n
      BY <1>0 DEF UnhealthyBelow, ContractTypeOK
    <3> QED BY <3>1, <1>1, WidthAssumption DEF Index
  <2> QED BY <2>1, <1>1 DEF UnhealthyBelow, relay_register
<1> QED BY <1>15, <1>8, <1>9, <1>10, <1>12, <1>13, <1>14 DEF ContractInv

\* An upload touches neither the flags nor the addresses nor the history.
LEMMA UploadInv ==
    ASSUME ContractInv, NEW a \in Addr, NEW up \in UploadCalls, relay_upload_SRI_and_NSD(a, up)
    PROVE  ContractInv'
<1> DEFINE n == relayaddr[a]
<1>0. /\ ContractTypeOK /\ CountersInStep /\ UnhealthyBelow /\ IndexOwnership
      /\ HealthyAreAddressed /\ UnregisteredHoldNothing /\ HistoryComplete
  BY DEF ContractInv
<1>1. /\ UNCHANGED <<RelayUploadPeriod, relayIndex, unhealthyRelaySet, CurrentCounter,
                     CounterOP, CounterList, relayaddr, balance>>
      /\ relay[n].healthflag
  BY DEF relay_upload_SRI_and_NSD, setVars
<1>2. n \in Index
  BY <1>0 DEF ContractTypeOK
<1>3. up \in [counter : CounterValue, Hdr : Bytes, encryptedSRI : Bytes, NSD : Bytes]
  BY UploadCallsAssumption
<1>4. /\ relay' \in [Index -> RelayRecord]
      /\ \A i \in Index : /\ relay'[i].registered = relay[i].registered
                          /\ relay'[i].healthflag = relay[i].healthflag
                          /\ i # n => relay'[i] = relay[i]
  BY <1>0, <1>2, <1>3 DEF ContractTypeOK, relay_upload_SRI_and_NSD, RelayRecord
<1>5. ContractTypeOK'
  BY <1>0, <1>1, <1>4 DEF ContractTypeOK
<1>6. CountersInStep' /\ UnhealthyBelow' /\ HistoryComplete'
  BY <1>0, <1>1 DEF CountersInStep, UnhealthyBelow, HistoryComplete, Changed
<1>7. IndexOwnership'
  BY <1>0, <1>1, <1>4 DEF IndexOwnership
<1>8. HealthyAreAddressed'
  BY <1>0, <1>1, <1>4 DEF HealthyAreAddressed, IndexSet
<1>9. UnregisteredHoldNothing'
  <2>1. relay[n].registered
    BY <1>0, <1>1, <1>2 DEF HealthyAreAddressed
  <2> QED BY <1>0, <1>4, <2>1 DEF UnregisteredHoldNothing
<1> QED BY <1>5, <1>6, <1>7, <1>8, <1>9 DEF ContractInv

\* A cancellation empties the record and frees the address, and nothing else.
LEMMA CancellationInv ==
    ASSUME ContractInv, NEW a \in Addr, relay_cancellation(a)
    PROVE  ContractInv'
<1> DEFINE n == relayaddr[a]
<1>0. /\ ContractTypeOK /\ CountersInStep /\ UnhealthyBelow /\ IndexOwnership
      /\ HealthyAreAddressed /\ UnregisteredHoldNothing /\ HistoryComplete
  BY DEF ContractInv
<1>1. UNCHANGED <<RelayUploadPeriod, relayIndex, unhealthyRelaySet, CurrentCounter,
                  CounterOP, CounterList, balance>>
  BY DEF relay_cancellation, setVars
<1>2. n \in Index /\ relay[n].registered /\ 0 \in Index /\ n # 0
  BY <1>0, WidthAssumption
     DEF ContractTypeOK, relay_cancellation, registered, Index, IndexOwnership
<1>3. NoRelay \in RelayRecord /\ ~NoRelay.registered /\ ~NoRelay.healthflag
  BY WidthAssumption, BytesAssumption DEF NoRelay, RelayRecord, CounterValue
<1>4. /\ relay' \in [Index -> RelayRecord]
      /\ relay'[n] = NoRelay
      /\ \A i \in Index \ {n} : relay'[i] = relay[i]
  BY <1>0, <1>2, <1>3 DEF ContractTypeOK, relay_cancellation
<1>5. /\ relayaddr' \in [Addr -> Index]
      /\ relayaddr'[a] = 0
      /\ \A b \in Addr \ {a} : relayaddr'[b] = relayaddr[b]
  BY <1>0, <1>2 DEF ContractTypeOK, relay_cancellation
<1>6. ContractTypeOK'
  BY <1>0, <1>1, <1>4, <1>5 DEF ContractTypeOK
<1>7. UnhealthyBelow' /\ HistoryComplete'
  BY <1>0, <1>1 DEF UnhealthyBelow, HistoryComplete, Changed
<1>8. CountersInStep'
  <2>1. ASSUME NEW b \in Addr PROVE relayaddr'[b] < relayIndex
    <3>1. CASE b = a
      BY <3>1, <1>0, <1>5, WidthAssumption DEF CountersInStep, ContractTypeOK, Index
    <3>2. CASE b # a
      BY <3>2, <1>0, <1>5 DEF CountersInStep
    <3> QED BY <3>1, <3>2
  <2> QED BY <2>1, <1>0, <1>1 DEF CountersInStep
<1>9. IndexOwnership'
  <2>1. ASSUME NEW i \in Index
        PROVE  relay'[i].registered <=> i # 0 /\ \E b \in Addr : relayaddr'[b] = i
    <3>1. CASE i = n
      <4>1. \A b \in Addr : relayaddr'[b] # n
        BY <1>0, <1>2, <1>5 DEF IndexOwnership
      <4> QED BY <3>1, <4>1, <1>3, <1>4
    <3>2. CASE i # n
      BY <3>2, <1>0, <1>4, <1>5 DEF IndexOwnership
    <3> QED BY <3>1, <3>2
  <2>2. ASSUME NEW b \in Addr, NEW c \in Addr, relayaddr'[b] = relayaddr'[c], relayaddr'[b] # 0
        PROVE  b = c
    BY <2>2, <1>0, <1>5 DEF IndexOwnership
  <2> QED BY <2>1, <2>2 DEF IndexOwnership
<1>10. HealthyAreAddressed' /\ UnregisteredHoldNothing'
  BY <1>0, <1>1, <1>3, <1>4 DEF HealthyAreAddressed, IndexSet, UnregisteredHoldNothing
<1> QED BY <1>6, <1>7, <1>8, <1>9, <1>10 DEF ContractInv

\* Marking relays unhealthy clears flags of healthy relays only, appends those
\* indices to unhealthyRelaySet and takes a counter step.
LEMMA ModifyHealthInv ==
    ASSUME NoWrap, ContractInv, NEW a \in Addr, NEW call \in HealthCalls,
           modifyHealthFlag(a, call[1], call[2])
    PROVE  ContractInv'
<1> DEFINE size == call[1]
           list == call[2]
           gone == {list[k] : k \in 1..size}
<1>0. /\ ContractTypeOK /\ CountersInStep /\ UnhealthyBelow /\ IndexOwnership
      /\ HealthyAreAddressed /\ UnregisteredHoldNothing /\ HistoryComplete
  BY DEF ContractInv
<1>1. /\ size \in Index /\ size \in Nat /\ list \in Seq(Index) /\ size <= Len(list)
      /\ DOMAIN list = 1..Len(list) /\ Len(list) \in Nat
  BY HealthCallsAssumption, WidthAssumption DEF modifyHealthFlag, Index
<1>2. \A k \in 1..size : list[k] \in Index /\ relay[list[k]].healthflag
  BY <1>1 DEF modifyHealthFlag
<1>3. UNCHANGED <<RelayUploadPeriod, relayIndex, relayaddr, balance>>
  BY DEF modifyHealthFlag
<1>4. LogChange(FALSE, list)
  BY DEF modifyHealthFlag
<1>5. /\ CurrentCounter' = CurrentCounter + 1 /\ CurrentCounter' \in CounterValue
      /\ CounterOP' \in [CounterValue -> BOOLEAN]
      /\ CounterList' \in [CounterValue -> Seq(Index)]
  BY <1>1, <1>4, LogChangeExtends
<1>6. /\ unhealthyRelaySet' \in Seq(Index)
      /\ Range(unhealthyRelaySet') = Range(unhealthyRelaySet) \cup gone
  BY <1>0, <1>1, RangeAppendPrefix DEF ContractTypeOK, modifyHealthFlag
<1>7. relay' = [i \in Index |-> IF i \in gone THEN [relay[i] EXCEPT !.healthflag = FALSE]
                                              ELSE relay[i]]
  BY DEF modifyHealthFlag
<1> HIDE DEF size, list, gone
<1>8. /\ relay' \in [Index -> RelayRecord]
      /\ \A i \in Index : /\ relay'[i].registered = relay[i].registered
                          /\ relay'[i].healthflag => relay[i].healthflag /\ i \notin gone
                          /\ relay[i] = NoRelay => relay'[i] = NoRelay
  <2>1. ASSUME NEW i \in Index
        PROVE  /\ relay'[i] \in RelayRecord
               /\ relay'[i].registered = relay[i].registered
               /\ relay'[i].healthflag => relay[i].healthflag /\ i \notin gone
               /\ relay[i] = NoRelay => relay'[i] = NoRelay
    <3>1. relay[i] \in RelayRecord
      BY <1>0 DEF ContractTypeOK
    <3>2. CASE i \in gone
      <4>1. relay'[i] = [relay[i] EXCEPT !.healthflag = FALSE]
        BY <3>2, <1>7
      <4>2. /\ relay'[i] \in RelayRecord
            /\ relay'[i].registered = relay[i].registered
            /\ relay'[i].healthflag = FALSE
        BY <3>1, <4>1 DEF RelayRecord
      <4>3. relay[i] # NoRelay
        <5>1. relay[i].healthflag
          BY <3>2, <1>2 DEF gone
        <5> QED BY <5>1 DEF NoRelay
      <4> QED BY <4>2, <4>3
    <3>3. CASE i \notin gone
      BY <3>1, <3>3, <1>7
    <3> QED BY <3>2, <3>3
  <2> QED BY <2>1, <1>7
<1>9. ContractTypeOK'
  BY <1>0, <1>3, <1>5, <1>6, <1>8 DEF ContractTypeOK
<1>10. CountersInStep'
  <2>1. relayIndex \in Nat /\ CurrentCounter \in Nat
    BY <1>0, WidthAssumption DEF ContractTypeOK, Index, CounterValue
  <2> QED BY <2>1, <1>0, <1>3, <1>5 DEF CountersInStep
<1>11. gone \subseteq IndexSet
  BY <1>0, <1>2 DEF HealthyAreAddressed, gone
<1>12. UnhealthyBelow'
  <2>1. \A i \in Range(unhealthyRelaySet) : i < relayIndex
    BY <1>0 DEF UnhealthyBelow, Range
  <2>2. \A i \in IndexSet : i < relayIndex
    BY <1>0, WidthAssumption DEF IndexSet, ContractTypeOK, Index
  <2>3. \A i \in Range(unhealthyRelaySet') : i < relayIndex'
    BY <1>3, <1>6, <1>11, <2>1, <2>2
  <2> QED BY <2>3 DEF UnhealthyBelow, Range
<1>13. IndexOwnership'
  BY <1>0, <1>3, <1>8 DEF IndexOwnership
<1>14. HealthyAreAddressed'
  <2>1. ASSUME NEW i \in Index, relay'[i].healthflag
        PROVE  relay'[i].registered /\ i \in IndexSet'
    <3>1. relay[i].registered /\ i \in IndexSet /\ i \notin gone
      BY <2>1, <1>0, <1>8 DEF HealthyAreAddressed
    <3> QED BY <3>1, <1>3, <1>6, <1>8 DEF IndexSet
  <2> QED BY <2>1 DEF HealthyAreAddressed
<1>15. UnregisteredHoldNothing'
  BY <1>0, <1>8 DEF UnregisteredHoldNothing
<1>16. HistoryComplete'
  <2>1. 1 \in 1..CurrentCounter
    BY <1>0, WidthAssumption DEF CountersInStep, ContractTypeOK, CounterValue, Index
  <2>2. Changed(1, TRUE)' = Changed(1, TRUE) \cup (IF TRUE = FALSE THEN Range(list) ELSE {})
    BY <1>1, <1>4, <2>1, LogChangeMonotone
  <2> QED BY <1>0, <1>3, <2>2 DEF HistoryComplete
<1> QED BY <1>9, <1>10, <1>12, <1>13, <1>14, <1>15, <1>16 DEF ContractInv

\* Every transaction keeps the invariant.
LEMMA ContractStepInv ==
    ASSUME NoWrap, ContractInv, [ContractNext]_contractVars
    PROVE  ContractInv'
<1>1. ASSUME NEW a \in Addr, relay_register(a) PROVE ContractInv'
  BY <1>1, RegisterInv
<1>2. ASSUME NEW a \in Addr, NEW up \in UploadCalls, relay_upload_SRI_and_NSD(a, up)
      PROVE  ContractInv'
  BY <1>2, UploadInv
<1>3. ASSUME NEW a \in Addr, relay_cancellation(a) PROVE ContractInv'
  BY <1>3, CancellationInv
<1>4. ASSUME NEW a \in Addr, NEW call \in HealthCalls, modifyHealthFlag(a, call[1], call[2])
      PROVE  ContractInv'
  BY <1>4, ModifyHealthInv
<1>5. ASSUME UNCHANGED <<setVars, relay, relayaddr>>,
             RelayUploadPeriod' \in Periods, balance' \in 0..MaxBalance
      PROVE  ContractInv'
  <2>1. ContractTypeOK'
    BY <1>5 DEF ContractInv, ContractTypeOK, setVars
  <2>2. CountersInStep' /\ UnhealthyBelow'
    BY <1>5 DEF ContractInv, CountersInStep, UnhealthyBelow, setVars
  <2>3. IndexOwnership' /\ UnregisteredHoldNothing'
    BY <1>5 DEF ContractInv, IndexOwnership, UnregisteredHoldNothing, setVars
  <2>4. HealthyAreAddressed'
    BY <1>5 DEF ContractInv, HealthyAreAddressed, IndexSet, setVars
  <2>5. HistoryComplete'
    BY <1>5 DEF ContractInv, HistoryComplete, Changed, setVars
  <2> QED BY <2>1, <2>2, <2>3, <2>4, <2>5 DEF ContractInv
<1>6. RelayUploadPeriod \in Periods /\ balance \in 0..MaxBalance /\ MaxBalance \in Nat
  BY WidthAssumption DEF ContractInv, ContractTypeOK
<1>7. ASSUME NEW a \in Addr, NEW period \in Periods, setSRIperiod(a, period)
      PROVE  ContractInv'
  BY <1>5, <1>6, <1>7 DEF setSRIperiod
<1>8. ASSUME NEW value \in 0..MaxBalance, receive(value) PROVE ContractInv'
  <2>1. balance' \in 0..MaxBalance
    BY <1>6, <1>8 DEF receive
  <2> QED BY <1>5, <1>6, <1>8, <2>1 DEF receive
<1>9. ASSUME NEW value \in 0..MaxBalance, contract_transfer_to_relay(value)
      PROVE  ContractInv'
  <2>1. balance' \in 0..MaxBalance
    BY <1>6, <1>9 DEF contract_transfer_to_relay
  <2> QED BY <1>5, <1>6, <1>9, <2>1 DEF contract_transfer_to_relay
<1>10. ASSUME UNCHANGED contractVars PROVE ContractInv'
  BY <1>5, <1>6, <1>10 DEF contractVars
<1> QED
  BY <1>1, <1>2, <1>3, <1>4, <1>7, <1>8, <1>9, <1>10 DEF ContractNext

\* The invariant holds in every reachable state of the contract.
THEOREM ContractInvariant ==
    ASSUME NoWrap PROVE ContractSpec => []ContractInv
<1>1. ContractInit => ContractInv
  BY ContractInitInv
<1>2. ContractInv /\ [ContractNext]_contractVars => ContractInv'
  BY ContractStepInv
<1> QED BY <1>1, <1>2, PTL DEF ContractSpec

\* Below 2^8 counter steps, whoever calls the contract in whatever order, its
\* storage keeps its types.
THEOREM ContractTypes ==
    ASSUME NoWrap PROVE ContractSpec => []ContractTypeOK
<1>1. ContractInv => ContractTypeOK
  BY DEF ContractInv
<1> QED BY <1>1, ContractInvariant, PTL

\* Indices have one holder each, and 0, "no relay", has none.
THEOREM IndicesHaveOneHolder ==
    ASSUME NoWrap PROVE ContractSpec => []IndexOwnership
<1>1. ContractInv => IndexOwnership
  BY DEF ContractInv
<1> QED BY <1>1, ContractInvariant, PTL

\* A healthy relay is in everybody's broadcast set.
THEOREM HealthyRelaysAddressed ==
    ASSUME NoWrap PROVE ContractSpec => []HealthyAreAddressed
<1>1. ContractInv => HealthyAreAddressed
  BY DEF ContractInv
<1> QED BY <1>1, ContractInvariant, PTL

\* No record outlives its registration.
THEOREM RecordsEndWithRegistration ==
    ASSUME NoWrap PROVE ContractSpec => []UnregisteredHoldNothing
<1>1. ContractInv => UnregisteredHoldNothing
  BY DEF ContractInv
<1> QED BY <1>1, ContractInvariant, PTL

\* The history names every index handed out.
THEOREM HistoryNamesEveryIndex ==
    ASSUME NoWrap PROVE ContractSpec => []HistoryComplete
<1>1. ContractInv => HistoryComplete
  BY DEF ContractInv
<1> QED BY <1>1, ContractInvariant, PTL

-----------------------------------------------------------------------------
(* The contract implements MembershipLog.                                  *)

\* The history only mentions indices that were handed out.
LoggedBelow ==
    \A c \in 1..(CurrentCounter - 1) : Range(CounterList[c]) \subseteq 1..(relayIndex - 1)

\* What marking a list of relays unhealthy does to the broadcast set.
LEMMA ModifyHealthEffect ==
    ASSUME CarefulOwner, ContractInv, NEW a \in Addr, NEW call \in HealthCalls,
           modifyHealthFlag(a, call[1], call[2])
    PROVE  /\ call[2] \in Seq(Index)
           /\ LogChange(FALSE, call[2])
           /\ Range(call[2]) \subseteq IndexSet
           /\ relayIndex' = relayIndex
           /\ IndexSet' = IndexSet \ Range(call[2])
<1> DEFINE size == call[1]
           list == call[2]
<1>1. /\ size \in Nat /\ list \in Seq(Index) /\ size = Len(list)
      /\ DOMAIN list = 1..Len(list)
  BY HealthCallsAssumption, WidthAssumption DEF CarefulOwner, Index
<1>2. LogChange(FALSE, list) /\ relayIndex' = relayIndex
  BY DEF modifyHealthFlag
<1>3. Range(list) = {list[k] : k \in 1..size}
  BY <1>1 DEF Range
<1>4. Range(list) \subseteq IndexSet
  <2>1. \A k \in 1..size : list[k] \in Index /\ relay[list[k]].healthflag
    BY <1>1 DEF modifyHealthFlag
  <2> QED BY <2>1, <1>3 DEF ContractInv, HealthyAreAddressed
<1>5. Range(unhealthyRelaySet') = Range(unhealthyRelaySet) \cup Range(list)
  <2>1. size <= Len(list) /\ unhealthyRelaySet \in Seq(Index)
    BY <1>1 DEF ContractInv, ContractTypeOK
  <2>2. unhealthyRelaySet' = unhealthyRelaySet \o SubSeq(list, 1, size)
    BY DEF modifyHealthFlag
  <2>3. Range(unhealthyRelaySet \o SubSeq(list, 1, size))
          = Range(unhealthyRelaySet) \cup {list[k] : k \in 1..size}
    <3> HIDE DEF size, list
    <3> QED BY <1>1, <2>1, RangeAppendPrefix
  <2> QED BY <1>3, <2>2, <2>3
<1> HIDE DEF size, list
<1>6. IndexSet' = IndexSet \ Range(list)
  BY <1>2, <1>5 DEF IndexSet
<1> QED BY <1>1, <1>2, <1>4, <1>6 DEF list

\* A transaction that is not a counter step changes nothing the history shows.
LEMMA OtherSteps ==
    ASSUME [ContractNext]_contractVars,
           \A a \in Addr : ~relay_register(a),
           \A a \in Addr, call \in HealthCalls : ~modifyHealthFlag(a, call[1], call[2])
    PROVE  UNCHANGED <<relayIndex, unhealthyRelaySet, CurrentCounter, CounterOP, CounterList>>
  BY DEF ContractNext, contractVars, setVars, relay_upload_SRI_and_NSD, relay_cancellation,
         setSRIperiod, receive, contract_transfer_to_relay

\* A longer interval contains a shorter one.
LEMMA IntervalGrows ==
    ASSUME NEW m \in Nat, NEW n \in Nat, n >= m
    PROVE  1..(m - 1) \subseteq 1..(n - 1)
  OBVIOUS

\* LoggedBelow is kept by a step.
LEMMA LoggedBelowStep ==
    ASSUME NoWrap, CarefulOwner, ContractInv, LoggedBelow, [ContractNext]_contractVars
    PROVE  LoggedBelow'
<1>0. CurrentCounter \in Nat /\ relayIndex \in Nat
  BY WidthAssumption DEF ContractInv, ContractTypeOK, CounterValue, Index
<1>1. ASSUME NEW op \in BOOLEAN, NEW list \in Seq(Index), LogChange(op, list),
             relayIndex' \in Nat, relayIndex' >= relayIndex,
             Range(list) \subseteq 1..(relayIndex' - 1)
      PROVE  LoggedBelow'
  <2> SUFFICES ASSUME NEW c \in 1..(CurrentCounter' - 1)
               PROVE  Range(CounterList'[c]) \subseteq 1..(relayIndex' - 1)
    BY DEF LoggedBelow
  <2>1. /\ CurrentCounter' = CurrentCounter + 1 /\ CounterList'[CurrentCounter] = list
        /\ \A k \in 1..(CurrentCounter - 1) : CounterList'[k] = CounterList[k]
    BY <1>1, LogChangeExtends
  <2>2. CASE c = CurrentCounter
    BY <2>1, <2>2, <1>1
  <2>3. CASE c # CurrentCounter
    <3>1. c \in 1..(CurrentCounter - 1)
      BY <1>0, <2>1, <2>3
    <3>2. Range(CounterList'[c]) \subseteq 1..(relayIndex - 1)
      BY <2>1, <3>1 DEF LoggedBelow
    <3>3. 1..(relayIndex - 1) \subseteq 1..(relayIndex' - 1)
      BY <1>0, <1>1, IntervalGrows
    <3> QED BY <3>2, <3>3
  <2> QED BY <2>2, <2>3
<1>2. ASSUME NEW a \in Addr, relay_register(a) PROVE LoggedBelow'
  <2>1. /\ LogChange(TRUE, <<relayIndex>>) /\ <<relayIndex>> \in Seq(Index)
        /\ Range(<<relayIndex>>) = {relayIndex} /\ relayIndex' = relayIndex + 1
        /\ relayIndex >= 1
    BY <1>2, RegisterEffect
  <2>2. {relayIndex} \subseteq 1..(relayIndex' - 1) /\ relayIndex' \in Nat
        /\ relayIndex' >= relayIndex
    BY <1>0, <2>1
  <2> QED BY <1>1, <2>1, <2>2
<1>3. ASSUME NEW a \in Addr, NEW call \in HealthCalls, modifyHealthFlag(a, call[1], call[2])
      PROVE  LoggedBelow'
  <2>1. /\ call[2] \in Seq(Index) /\ LogChange(FALSE, call[2])
        /\ Range(call[2]) \subseteq IndexSet /\ relayIndex' = relayIndex
    BY <1>3, ModifyHealthEffect
  <2>2. IndexSet \subseteq 1..(relayIndex' - 1)
    BY <2>1 DEF IndexSet
  <2>3. relayIndex' \in Nat /\ relayIndex' >= relayIndex
    BY <1>0, <2>1
  <2>4. Range(call[2]) \subseteq 1..(relayIndex' - 1)
    BY <2>1, <2>2
  <2> QED BY <1>1, <2>1, <2>3, <2>4
<1>4. CASE UNCHANGED <<relayIndex, unhealthyRelaySet, CurrentCounter, CounterOP, CounterList>>
  BY <1>4 DEF LoggedBelow
<1> QED BY <1>2, <1>3, <1>4, OtherSteps

\* The history of broadcast sets that a relay can reconstruct.
Past == [c \in 1..CurrentCounter |-> IndexSetAt(c)]

\* Nothing is undone at the current counter, and no earlier set holds an index
\* that is still to be handed out.
LEMMA PastShape ==
    ASSUME ContractInv, LoggedBelow
    PROVE  /\ CurrentCounter \in Nat /\ CurrentCounter >= 1
           /\ Past \in Seq(SUBSET Nat) /\ Len(Past) = CurrentCounter
           /\ Past[CurrentCounter] = IndexSet
           /\ \A c \in 1..CurrentCounter :
                 /\ Past[c] = IndexSetAt(c)
                 /\ Changed(c, FALSE) \subseteq 1..(relayIndex - 1)
                 /\ IndexSetAt(c) \subseteq 1..(relayIndex - 1)
<1>1. CurrentCounter \in Nat /\ CurrentCounter >= 1 /\ relayIndex \in Nat
  BY WidthAssumption DEF ContractInv, ContractTypeOK, CountersInStep, CounterValue, Index
<1>2. ASSUME NEW c \in 1..CurrentCounter
      PROVE  /\ Changed(c, FALSE) \subseteq 1..(relayIndex - 1)
             /\ IndexSetAt(c) \subseteq 1..(relayIndex - 1)
  <2>1. c..(CurrentCounter - 1) \subseteq 1..(CurrentCounter - 1)
    BY <1>1
  <2>2. Changed(c, FALSE) \subseteq 1..(relayIndex - 1)
    BY <2>1 DEF Changed, LoggedBelow
  <2> QED BY <2>2 DEF IndexSetAt, IndexSet
<1>3. 1..(relayIndex - 1) \subseteq Nat
  BY <1>1
<1>4. Past \in [1..CurrentCounter -> SUBSET Nat]
  BY <1>2, <1>3 DEF Past
<1>5. Past \in Seq(SUBSET Nat) /\ Len(Past) = CurrentCounter
  BY <1>1, <1>4
<1>6. \A b \in BOOLEAN : Changed(CurrentCounter, b) = {}
  <2>1. CurrentCounter..(CurrentCounter - 1) = {}
    BY <1>1
  <2> QED BY <2>1 DEF Changed
<1>7. IndexSetAt(CurrentCounter) = IndexSet
  BY <1>6 DEF IndexSetAt
<1>8. \A c \in 1..CurrentCounter : Past[c] = IndexSetAt(c)
  BY DEF Past
<1>9. Past[CurrentCounter] = IndexSet
  <2>1. CurrentCounter \in 1..CurrentCounter
    BY <1>1
  <2> QED BY <1>7, <1>8, <2>1
<1> HIDE DEF Past
<1> QED BY <1>1, <1>2, <1>5, <1>8, <1>9

\* A counter step that leaves the earlier sets as they are appends the new one.
LEMMA PastAppend ==
    ASSUME ContractInv, LoggedBelow,
           CurrentCounter' = CurrentCounter + 1,
           \A c \in 1..CurrentCounter : IndexSetAt(c)' = IndexSetAt(c)
    PROVE  Past' = Append(Past, IndexSet')
<1>1. /\ CurrentCounter \in Nat /\ Past \in Seq(SUBSET Nat) /\ Len(Past) = CurrentCounter
      /\ \A c \in 1..CurrentCounter : Past[c] = IndexSetAt(c)
  BY PastShape
<1>2. Past' = [c \in 1..(CurrentCounter + 1) |-> IndexSetAt(c)']
  BY DEF Past
<1>3. ASSUME NEW c \in 1..(CurrentCounter + 1)
      PROVE  IndexSetAt(c)' = IF c = CurrentCounter + 1 THEN IndexSet' ELSE Past[c]
  <2>1. CASE c = CurrentCounter + 1
    <3>1. c..(CurrentCounter' - 1) = {}
      BY <1>1, <2>1
    <3>2. \A b \in BOOLEAN : Changed(c, b)' = {}
      BY <3>1 DEF Changed
    <3> QED BY <2>1, <3>2 DEF IndexSetAt
  <2>2. CASE c # CurrentCounter + 1
    <3>1. c \in 1..CurrentCounter
      BY <1>1, <2>2
    <3> QED BY <1>1, <2>2, <3>1
  <2> QED BY <2>1, <2>2
<1>4. Append(Past, IndexSet') =
        [c \in 1..(CurrentCounter + 1) |-> IF c = CurrentCounter + 1 THEN IndexSet' ELSE Past[c]]
  <2> DEFINE T == (SUBSET Nat) \cup {IndexSet'}
  <2> HIDE DEF Past
  <2>1. Past \in Seq(T) /\ IndexSet' \in T
    BY <1>1
  <2> HIDE DEF T
  <2>2. /\ Append(Past, IndexSet') \in Seq(T)
        /\ Len(Append(Past, IndexSet')) = CurrentCounter + 1
        /\ \A c \in 1..CurrentCounter : Append(Past, IndexSet')[c] = Past[c]
        /\ Append(Past, IndexSet')[CurrentCounter + 1] = IndexSet'
    BY <1>1, <2>1, AppendElements
  <2>3. DOMAIN Append(Past, IndexSet') = 1..(CurrentCounter + 1)
    BY <2>2
  <2>4. ASSUME NEW c \in 1..(CurrentCounter + 1)
        PROVE  Append(Past, IndexSet')[c] = IF c = CurrentCounter + 1 THEN IndexSet' ELSE Past[c]
    <3>1. c = CurrentCounter + 1 \/ c \in 1..CurrentCounter
      BY <1>1
    <3> QED BY <1>1, <2>2, <3>1
  <2>5. Append(Past, IndexSet') = [c \in 1..(CurrentCounter + 1) |-> Append(Past, IndexSet')[c]]
    <3> DEFINE A == Append(Past, IndexSet')
    <3>1. A \in [1..(CurrentCounter + 1) -> T]
      BY <2>2, SequenceIsFunction
    <3> HIDE DEF A
    <3>2. A = [c \in 1..(CurrentCounter + 1) |-> A[c]]
      BY <3>1
    <3> QED BY <3>2 DEF A
  <2> QED BY <2>4, <2>5, Zenon
<1> HIDE DEF Past
<1> QED BY <1>2, <1>3, <1>4

\* A registration is a Join of MembershipLog.
LEMMA RegisterJoins ==
    ASSUME NoWrap, ContractInv, LoggedBelow, NEW a \in Addr, relay_register(a)
    PROVE  /\ \A c \in 1..CurrentCounter : relayIndex \notin Past[c]
           /\ Past' = Append(Past, Past[CurrentCounter] \cup {relayIndex})
<1>1. /\ CurrentCounter \in Nat /\ Past[CurrentCounter] = IndexSet
      /\ \A c \in 1..CurrentCounter :
            /\ Past[c] = IndexSetAt(c)
            /\ Changed(c, FALSE) \subseteq 1..(relayIndex - 1)
            /\ IndexSetAt(c) \subseteq 1..(relayIndex - 1)
  BY PastShape
<1>2. /\ relayIndex \in Nat
      /\ LogChange(TRUE, <<relayIndex>>)
      /\ <<relayIndex>> \in Seq(Index) /\ Range(<<relayIndex>>) = {relayIndex}
      /\ IndexSet' = IndexSet \cup {relayIndex}
  BY RegisterEffect
<1>3. relayIndex \notin 1..(relayIndex - 1)
  BY <1>2
<1>4. ASSUME NEW c \in 1..CurrentCounter PROVE IndexSetAt(c)' = IndexSetAt(c)
  <2>1. Changed(c, TRUE)' = Changed(c, TRUE) \cup {relayIndex}
    BY <1>2, LogChangeMonotone
  <2>2. Changed(c, FALSE)' = Changed(c, FALSE) \cup (IF FALSE = TRUE THEN Range(<<relayIndex>>) ELSE {})
    BY <1>2, LogChangeMonotone
  <2>3. relayIndex \notin Changed(c, FALSE) /\ relayIndex \notin IndexSet
    BY <1>1, <1>3 DEF IndexSet
  <2> QED BY <1>2, <2>1, <2>2, <2>3 DEF IndexSetAt
<1>5. CurrentCounter' = CurrentCounter + 1
  BY <1>2, LogChangeExtends
<1>6. Past' = Append(Past, IndexSet')
  BY <1>4, <1>5, PastAppend
<1> QED BY <1>1, <1>2, <1>3, <1>6

\* Marking relays unhealthy is an Expel of MembershipLog.
LEMMA ModifyHealthExpels ==
    ASSUME NoWrap, CarefulOwner, ContractInv, LoggedBelow, NEW a \in Addr, NEW call \in HealthCalls,
           modifyHealthFlag(a, call[1], call[2])
    PROVE  /\ Range(call[2]) \subseteq Past[CurrentCounter]
           /\ Past' = Append(Past, Past[CurrentCounter] \ Range(call[2]))
<1>1. /\ CurrentCounter \in Nat /\ Past[CurrentCounter] = IndexSet
  BY PastShape
<1>2. /\ call[2] \in Seq(Index)
      /\ LogChange(FALSE, call[2])
      /\ Range(call[2]) \subseteq IndexSet
      /\ IndexSet' = IndexSet \ Range(call[2])
  BY ModifyHealthEffect
<1>3. ASSUME NEW c \in 1..CurrentCounter PROVE IndexSetAt(c)' = IndexSetAt(c)
  <2>1. Changed(c, FALSE)' = Changed(c, FALSE) \cup Range(call[2])
    BY <1>2, LogChangeMonotone
  <2>2. Changed(c, TRUE)' = Changed(c, TRUE) \cup (IF TRUE = FALSE THEN Range(call[2]) ELSE {})
    BY <1>2, LogChangeMonotone
  <2> QED BY <1>2, <2>1, <2>2 DEF IndexSetAt
<1>4. CurrentCounter' = CurrentCounter + 1
  BY <1>2, LogChangeExtends
<1>5. Past' = Append(Past, IndexSet')
  BY <1>3, <1>4, PastAppend
<1> QED BY <1>1, <1>2, <1>5

\* As long as the counter does not wrap and the owner passes the right size, the
\* contract implements MembershipLog: whatever is registered, cancelled or
\* expelled, every earlier broadcast set can be recovered from the current one
\* and the history.
THEOREM ContractImplementsMembershipLog ==
    ASSUME NoWrap, CarefulOwner PROVE ContractSpec => ImplementsMembershipLog
<1>1. ContractInit => LoggedBelow /\ Log!MLInit
  <2> SUFFICES ASSUME ContractInit PROVE LoggedBelow /\ Log!MLInit
    OBVIOUS
  <2>1. relayIndex = 1 /\ CurrentCounter = 1 /\ unhealthyRelaySet = <<>>
    BY DEF ContractInit
  <2>2. IndexSetAt(1) = {}
    BY <2>1 DEF IndexSetAt, Changed, IndexSet
  <2>3. [c \in 1..CurrentCounter |-> IndexSetAt(c)] = <<{}>>
    <3>1. [c \in 1..1 |-> IndexSetAt(c)] = [c \in 1..1 |-> {}]
      BY <2>2
    <3> QED BY <2>1, <3>1
  <2> QED BY <2>1, <2>3 DEF LoggedBelow, Log!MLInit
<1>2. ContractInv /\ LoggedBelow /\ [ContractNext]_contractVars => LoggedBelow'
  BY LoggedBelowStep
<1>3. ContractInv /\ LoggedBelow /\ [ContractNext]_contractVars => [Log!MLNext]_Past
  <2> SUFFICES ASSUME ContractInv, LoggedBelow, [ContractNext]_contractVars
               PROVE  [Log!MLNext]_Past
    OBVIOUS
  <2>1. CurrentCounter \in Nat /\ Len(Past) = CurrentCounter
    BY PastShape
  <2>2. Log!Members = Past[CurrentCounter]
    BY <2>1 DEF Log!Members, Past
  <2>3. Log!EverMember = UNION {Past[c] : c \in 1..CurrentCounter}
    BY <2>1 DEF Log!EverMember, Past
  <2>4. ASSUME NEW a \in Addr, relay_register(a) PROVE Log!MLNext
    <3>1. /\ \A c \in 1..CurrentCounter : relayIndex \notin Past[c]
          /\ Past' = Append(Past, Past[CurrentCounter] \cup {relayIndex})
      BY <2>4, RegisterJoins
    <3>2. Log!Join(relayIndex)
      BY <2>2, <2>3, <3>1 DEF Log!Join, Past
    <3>3. relayIndex \in Index
      BY DEF ContractInv, ContractTypeOK
    <3> QED BY <3>2, <3>3 DEF Log!MLNext
  <2>5. ASSUME NEW a \in Addr, NEW call \in HealthCalls, modifyHealthFlag(a, call[1], call[2])
        PROVE  Log!MLNext
    <3>1. /\ Range(call[2]) \subseteq Past[CurrentCounter]
          /\ Past' = Append(Past, Past[CurrentCounter] \ Range(call[2]))
      BY <2>5, ModifyHealthExpels
    <3>2. Log!Expel(Range(call[2]))
      BY <2>2, <3>1 DEF Log!Expel, Past
    <3>3. Range(call[2]) \in SUBSET Log!Members
      BY <2>2, <3>1
    <3> QED BY <3>2, <3>3 DEF Log!MLNext
  <2>6. ASSUME UNCHANGED <<relayIndex, unhealthyRelaySet, CurrentCounter, CounterOP, CounterList>>
        PROVE  UNCHANGED Past
    BY <2>6 DEF Past, IndexSetAt, IndexSet, Changed
  <2> QED BY <2>4, <2>5, <2>6, OtherSteps
<1>4. ContractSpec => []ContractInv
  BY ContractInvariant
<1> QED BY <1>1, <1>2, <1>3, <1>4, PTL DEF ContractSpec, ImplementsMembershipLog, Log!MLSpec, Past

=============================================================================
