------------------------ MODULE RelayDirectoryChain -------------------------
(***************************************************************************)
(* That the transactions of the contract keep the invariant of every relay,*)
(* the one whose transaction is executed and those that take no part.      *)
(***************************************************************************)
EXTENDS RelayDirectorySteps, DirectoryContractProofs

(* Zenon is the default prover; leaves that need arithmetic, records or    *)
(* sequences cite SMT.                                                     *)
USE Zenon

\* Attribution outlasts every transaction.
LEMMA AttributedLasts ==
    ASSUME ChainGrows, NEW s \in SRI, NEW i, Attributed(i, s)
    PROVE  Attributed(i, s)'
<1>1. s.by \in Addr
  BY RelayAssumption DEF SRI
<1> QED BY <1>1 DEF Attributed, ChainGrows

LEMMA AttributedBytesLast ==
    ASSUME ChainGrows, NEW i, NEW bytes, AttributedBytes(i, bytes)
    PROVE  bytes = EmptyBytes \/ \E s \in SRI : bytes = <<s>> /\ Attributed(i, s)'
  BY AttributedLasts DEF AttributedBytes

\* Records that a transaction leaves alone, empties or fills with an SRI that
\* belongs there are attributed after it.
LEMMA RecordsStayAttributed ==
    ASSUME ChainGrows, RecordsAttributed,
           \A i \in Index : \/ relay'[i].encryptedSRI = relay[i].encryptedSRI
                            \/ relay'[i].encryptedSRI = EmptyBytes
                            \/ \E s \in SRI : /\ relay'[i].encryptedSRI = <<s>>
                                              /\ Attributed(i, s)
    PROVE  RecordsAttributed'
<1> SUFFICES ASSUME NEW i \in Index
             PROVE  \/ relay'[i].encryptedSRI = EmptyBytes
                    \/ \E s \in SRI : relay'[i].encryptedSRI = <<s>> /\ Attributed(i, s)'
  BY DEF RecordsAttributed, AttributedBytes
<1>1. CASE relay'[i].encryptedSRI = relay[i].encryptedSRI
  BY <1>1, AttributedBytesLast DEF RecordsAttributed
<1>2. CASE relay'[i].encryptedSRI = EmptyBytes
  BY <1>2
<1>3. ASSUME NEW s \in SRI, relay'[i].encryptedSRI = <<s>>, Attributed(i, s)
      PROVE  \E t \in SRI : relay'[i].encryptedSRI = <<t>> /\ Attributed(i, t)'
  BY <1>3, AttributedLasts
<1> QED BY <1>1, <1>2, <1>3

\* A relay whose index and record stay is undisturbed.
LEMMA SameRecord ==
    ASSUME ContractInv, RecordsAttributed, NEW q \in Addr,
           relayaddr'[q] = relayaddr[q], relay'[relayaddr[q]] = relay[relayaddr[q]]
    PROVE  Undisturbed(q)
<1>1. relayaddr[q] \in Index
  BY ContractNumbers
<1>2. PublishedKey(relayaddr[q]) \in Nat
  BY <1>1, PublishedKeyType
<1>3. PublishedKey(relayaddr[q])' = PublishedKey(relayaddr[q])
  BY DEF PublishedKey
<1>4. registered(q)' = registered(q)
  BY DEF registered
<1> QED BY <1>2, <1>3, <1>4, SMT DEF Undisturbed

-----------------------------------------------------------------------------
(* The transactions of the contract.                                       *)

\* A registration gives the caller, who had no index, a fresh one without a
\* record.
LEMMA RegisterChain ==
    ASSUME NoWrap, ContractInv, RecordsAttributed, NEW a \in Addr, relay_register(a)
    PROVE  /\ ChainGrows
           /\ RecordsAttributed'
           /\ \A q \in Addr \ {a} : Undisturbed(q)
           /\ relay'[relayaddr'[a]].encryptedSRI = EmptyBytes
           /\ registered(a)'
           /\ \A i \in Index : relay'[i].encryptedSRI = relay[i].encryptedSRI
<1> DEFINE n == relayIndex
<1>1. /\ n \in Index /\ n \in Nat /\ n >= 1 /\ relayIndex' = n + 1
      /\ LogChange(TRUE, <<n>>) /\ <<n>> \in Seq(Index)
  BY RegisterEffect
<1>2. CurrentCounter' = CurrentCounter + 1
  BY <1>1, LogChangeExtends
<1>3. relay[n] = NoRelay
  <2>1. \A b \in Addr : relayaddr[b] # n
    BY <1>1, ContractNumbers, SMT
  <2> QED BY <1>1, <2>1 DEF ContractInv, IndexOwnership, UnregisteredHoldNothing
<1>4. relayaddr[a] = 0
  <2>1. relayaddr[a] \in Index /\ ~relay[relayaddr[a]].registered
    BY ContractNumbers DEF relay_register, registered
  <2> QED BY <2>1 DEF ContractInv, IndexOwnership
<1>5. /\ relayaddr'[a] = n
      /\ \A b \in Addr \ {a} : relayaddr'[b] = relayaddr[b]
  BY DEF relay_register, ContractInv, ContractTypeOK
<1>6. /\ relay'[n].registered /\ relay'[n].encryptedSRI = EmptyBytes
      /\ \A i \in Index \ {n} : relay'[i] = relay[i]
  <2>1. relay \in [Index -> RelayRecord]
    BY DEF ContractInv, ContractTypeOK
  <2>2. relay' = [relay EXCEPT ![n].registered = TRUE, ![n].healthflag = TRUE]
    BY DEF relay_register
  <2>3. relay'[n] = [relay[n] EXCEPT !.registered = TRUE, !.healthflag = TRUE]
        /\ \A i \in Index \ {n} : relay'[i] = relay[i]
    BY <1>1, <2>1, <2>2
  <2> QED BY <1>3, <2>3, SMT DEF NoRelay
<1>7. ChainGrows
  <2>1. /\ CurrentCounter <= CurrentCounter' /\ relayIndex <= relayIndex'
        /\ relayIndex' \in Nat /\ CurrentCounter' \in Nat
    BY <1>1, <1>2, ContractNumbers, SMT
  <2>2. \A i \in 1..(n - 1) : i \in Index \ {n}
    BY <1>1, WidthAssumption, SMT DEF Index
  <2>3. \A i \in 1..(n - 1) : ~relay[i].registered => ~relay'[i].registered
    BY <1>6, <2>2
  <2>4. \A b \in Addr \ Cancelling : relayaddr[b] # 0 => relayaddr'[b] = relayaddr[b]
    BY <1>4, <1>5
  <2> QED BY <2>1, <2>3, <2>4 DEF ChainGrows
<1>8. RecordsAttributed'
  BY <1>6, <1>7, RecordsStayAttributed
<1>9. ASSUME NEW q \in Addr \ {a} PROVE Undisturbed(q)
  <2>1. relayaddr[q] \in Index \ {n}
    BY <1>1, ContractNumbers, SMT
  <2> QED BY <1>5, <1>6, <2>1, SameRecord
<1>10. \A i \in Index : relay'[i].encryptedSRI = relay[i].encryptedSRI
  BY <1>3, <1>6, SMT DEF NoRelay
<1> QED BY <1>5, <1>6, <1>7, <1>8, <1>9, <1>10 DEF registered

\* An upload replaces the record of the caller, who is registered.
LEMMA UploadChain ==
    ASSUME ContractInv, RecordsAttributed, NEW a \in Relay, NEW up \in Upload,
           NEW s \in SRI, up.encryptedSRI = <<s>>, s.by = a,
           relay_upload_SRI_and_NSD(a, up)
    PROVE  /\ ChainGrows
           /\ RecordsAttributed'
           /\ \A q \in Addr \ {a} : Undisturbed(q)
           /\ relayaddr' = relayaddr
           /\ relay'[relayaddr[a]].encryptedSRI = up.encryptedSRI
           /\ relay'[relayaddr[a]].counter = up.counter
           /\ \A i \in Index \ {relayaddr[a]} : relay'[i] = relay[i]
           /\ registered(a) /\ registered(a)'
<1> DEFINE n == relayaddr[a]
<1>0. a \in Addr
  BY RelayAssumption
<1>1. n \in Index /\ relay[n].healthflag /\ relay[n].registered /\ n # 0
  BY <1>0, ContractNumbers DEF relay_upload_SRI_and_NSD, ContractInv, HealthyAreAddressed,
                               IndexOwnership
<1>2. /\ relayaddr' = relayaddr /\ relayIndex' = relayIndex
      /\ CurrentCounter' = CurrentCounter
  BY DEF relay_upload_SRI_and_NSD, setVars
<1>3. /\ relay'[n].registered = relay[n].registered
      /\ relay'[n].encryptedSRI = up.encryptedSRI /\ relay'[n].counter = up.counter
      /\ \A i \in Index \ {n} : relay'[i] = relay[i]
  BY <1>1 DEF relay_upload_SRI_and_NSD, ContractInv, ContractTypeOK
<1>4. ChainGrows
  <2>1. \A i \in Index : relay'[i].registered = relay[i].registered
    BY <1>3
  <2>2. 1..(relayIndex - 1) \subseteq Index
    BY WidthAssumption, ContractNumbers, SMT DEF Index
  <2> QED BY <1>2, <2>1, <2>2, ContractNumbers, SMT DEF ChainGrows
<1>5. Attributed(n, s)
  BY <1>1 DEF Attributed
<1>6. RecordsAttributed'
  BY <1>3, <1>4, <1>5, RecordsStayAttributed
<1>7. ASSUME NEW q \in Addr \ {a} PROVE Undisturbed(q)
  <2>1. relayaddr[q] \in Index \ {n}
    BY <1>0, <1>1, ContractNumbers DEF ContractInv, IndexOwnership
  <2> QED BY <1>2, <1>3, <2>1, SameRecord
<1> QED BY <1>1, <1>2, <1>3, <1>4, <1>6, <1>7 DEF registered

\* A cancellation leaves the index behind, without a record.
LEMMA CancelChain ==
    ASSUME ContractInv, RecordsAttributed, NEW a \in Cancelling, relay_cancellation(a)
    PROVE  /\ ChainGrows /\ RecordsAttributed' /\ \A q \in Addr : Undisturbed(q)
           /\ \A i \in Index : relay'[i].registered =>
                 relay'[i].encryptedSRI = relay[i].encryptedSRI
<1> DEFINE n == relayaddr[a]
<1>0. a \in Addr
  BY RelayAssumption
<1>1. n \in Index /\ n # 0 /\ n \in 1..(relayIndex - 1)
  <2>1. n \in Index /\ n \in Nat /\ n < relayIndex /\ relayIndex \in Nat
    BY <1>0, ContractNumbers
  <2>2. n # 0
    BY <2>1 DEF relay_cancellation, registered, ContractInv, IndexOwnership
  <2> QED BY <2>1, <2>2, SMT
<1>2. relayIndex' = relayIndex /\ CurrentCounter' = CurrentCounter
  BY DEF relay_cancellation, setVars
<1>3. /\ relayaddr'[a] = 0
      /\ \A b \in Addr \ {a} : relayaddr'[b] = relayaddr[b]
  BY <1>0 DEF relay_cancellation, ContractInv, ContractTypeOK
<1>4. relay'[n] = NoRelay /\ \A i \in Index \ {n} : relay'[i] = relay[i]
  BY <1>1 DEF relay_cancellation, ContractInv, ContractTypeOK
<1>5. 0 \in Index /\ relay'[0] = NoRelay
  BY <1>1, <1>4, RecordZero
<1>6. ~NoRelay.registered /\ ~NoRelay.healthflag /\ NoRelay.encryptedSRI = EmptyBytes
  BY DEF NoRelay
<1>7. ChainGrows
  <2>1. \A i \in Index : ~relay[i].registered => ~relay'[i].registered
    BY <1>4, <1>6
  <2>2. 1..(relayIndex - 1) \subseteq Index
    BY WidthAssumption, ContractNumbers, SMT DEF Index
  <2> QED BY <1>2, <1>3, <2>1, <2>2, ContractNumbers, SMT DEF ChainGrows
<1>8. RecordsAttributed'
  BY <1>4, <1>6, <1>7, RecordsStayAttributed
<1>9. ASSUME NEW q \in Addr PROVE Undisturbed(q)
  <2>1. CASE q = a
    <3>1. PublishedKey(relayaddr[a])' = 0
      BY <1>3, <1>5, <1>6 DEF PublishedKey
    <3>2. PublishedKey(relayaddr[a]) \in Nat
      BY <1>1, PublishedKeyType
    <3>3. ~relay'[relayaddr'[a]].healthflag
      BY <1>3, <1>5, <1>6
    <3>4. \E i \in 1..(relayIndex' - 1) : ~relay'[i].registered
      BY <1>1, <1>2, <1>4, <1>6
    <3> QED BY <2>1, <3>1, <3>2, <3>3, <3>4, SMT DEF Undisturbed
  <2>2. CASE q # a
    <3>1. relayaddr[q] \in Index \ {n}
      BY <1>0, <1>1, <2>2, ContractNumbers DEF ContractInv, IndexOwnership
    <3> QED BY <1>3, <1>4, <2>2, <3>1, SameRecord
  <2> QED BY <2>1, <2>2
<1>10. \A i \in Index : relay'[i].registered => relay'[i] = relay[i]
  BY <1>4, <1>6
<1> QED BY <1>7, <1>8, <1>9, <1>10

\* An expulsion only clears health flags.
LEMMA ExpelChain ==
    ASSUME NoWrap, ContractInv, RecordsAttributed, NEW call \in HealthCalls,
           modifyHealthFlag(Owner, call[1], call[2])
    PROVE  /\ ChainGrows /\ RecordsAttributed' /\ \A q \in Addr : Undisturbed(q)
           /\ \A i \in Index : relay'[i].encryptedSRI = relay[i].encryptedSRI
<1> DEFINE gone == {call[2][k] : k \in 1..call[1]}
<1>1. relayIndex' = relayIndex /\ relayaddr' = relayaddr
  BY DEF modifyHealthFlag
<1>2. CurrentCounter' = CurrentCounter + 1
  <2>1. call[2] \in Seq(Index) /\ LogChange(FALSE, call[2])
    BY HealthCallsAssumption DEF modifyHealthFlag
  <2> QED BY <2>1, LogChangeExtends
<1>3. relay' = [i \in Index |-> IF i \in gone THEN [relay[i] EXCEPT !.healthflag = FALSE]
                                              ELSE relay[i]]
  BY DEF modifyHealthFlag
<1> HIDE DEF gone
<1>4. ASSUME NEW i \in Index
      PROVE  /\ relay'[i].registered = relay[i].registered
             /\ relay'[i].encryptedSRI = relay[i].encryptedSRI
             /\ relay'[i].counter = relay[i].counter
             /\ relay'[i].healthflag => relay[i].healthflag
  <2>1. relay[i] \in RelayRecord
    BY ContractNumbers
  <2>2. CASE i \in gone
    <3>1. relay'[i] = [relay[i] EXCEPT !.healthflag = FALSE]
      BY <1>3, <2>2
    <3> QED BY <2>1, <3>1 DEF RelayRecord
  <2>3. CASE i \notin gone
    BY <1>3, <2>3
  <2> QED BY <2>2, <2>3
<1>5. ChainGrows
  <2>1. 1..(relayIndex - 1) \subseteq Index
    BY WidthAssumption, ContractNumbers, SMT DEF Index
  <2> QED BY <1>1, <1>2, <1>4, <2>1, ContractNumbers, SMT DEF ChainGrows
<1>6. RecordsAttributed'
  BY <1>4, <1>5, RecordsStayAttributed
<1>7. ASSUME NEW q \in Addr PROVE Undisturbed(q)
  <2>1. PICK i \in Index : i = relayaddr[q] /\ i = relayaddr'[q]
    BY <1>1, ContractNumbers
  <2>2. PublishedKey(relayaddr[q])' = PublishedKey(relayaddr[q])
    BY <1>4, <2>1 DEF PublishedKey
  <2>3. PublishedKey(relayaddr[q]) \in Nat
    BY <2>1, PublishedKeyType
  <2>4. PublishedKey(relayaddr[q])' <= PublishedKey(relayaddr[q])
    BY <2>2, <2>3, SMT
  <2>5. registered(q)' = registered(q)
    BY <1>4, <2>1 DEF registered
  <2> QED BY <1>4, <2>1, <2>4, <2>5 DEF Undisturbed
<1> QED BY <1>4, <1>5, <1>6, <1>7

\* A step that leaves the contract alone disturbs nobody.
LEMMA QuietChain ==
    ASSUME ContractInv, RecordsAttributed, UNCHANGED contractVars
    PROVE  ChainGrows /\ RecordsAttributed' /\ \A q \in Addr : Undisturbed(q)
<1>1. ChainGrows
  BY ContractNumbers, SMT DEF ChainGrows, contractVars, setVars
<1>2. RecordsAttributed'
  BY <1>1, RecordsStayAttributed DEF contractVars
<1>3. \A q \in Addr : Undisturbed(q)
  BY SameRecord DEF contractVars
<1> QED BY <1>1, <1>2, <1>3

\* The history keeps what HistoryInv says of it.
LEMMA HistoryStep ==
    ASSUME NoWrap, ContractInv, HistoryInv, [ContractNext]_contractVars
    PROVE  HistoryInv'
<1>0. /\ CurrentCounter \in Nat /\ CurrentCounter >= 1 /\ relayIndex \in Nat
      /\ 1 \in 1..CurrentCounter
  BY ContractNumbers, SMT
<1>1. ASSUME NEW op \in BOOLEAN, NEW list \in Seq(Index), LogChange(op, list)
      PROVE  CounterList'[0] = <<>>
  <2>1. 0 \in CounterValue /\ CurrentCounter # 0
    BY <1>0, ContractNumbers, SMT
  <2> QED BY <1>1, <2>1 DEF LogChange, HistoryInv, ContractInv, ContractTypeOK
<1>2. ASSUME NEW a \in Addr, relay_register(a) PROVE HistoryInv'
  <2>1. /\ LogChange(TRUE, <<relayIndex>>) /\ <<relayIndex>> \in Seq(Index)
        /\ Range(<<relayIndex>>) = {relayIndex} /\ relayIndex' = relayIndex + 1
        /\ relayIndex >= 1
    BY <1>2, RegisterEffect
  <2>2. Changed(1, TRUE)' = Changed(1, TRUE) \cup (IF TRUE = TRUE THEN {relayIndex} ELSE {})
    BY <1>0, <2>1, LogChangeMonotone
  <2>3. Changed(1, FALSE)' = Changed(1, FALSE) \cup (IF FALSE = TRUE THEN {relayIndex} ELSE {})
    BY <1>0, <2>1, LogChangeMonotone
  <2>4. unhealthyRelaySet' = unhealthyRelaySet
    BY <1>2 DEF relay_register
  <2>5. (1..(relayIndex - 1)) \cup {relayIndex} \subseteq 1..(relayIndex' - 1)
    BY <1>0, <2>1, SMT
  <2> QED BY <1>1, <2>1, <2>2, <2>3, <2>4, <2>5 DEF HistoryInv
<1>3. ASSUME NEW a \in Addr, NEW call \in HealthCalls, modifyHealthFlag(a, call[1], call[2])
      PROVE  HistoryInv'
  <2> DEFINE size == call[1]
             list == call[2]
  <2>1. /\ size \in Nat /\ list \in Seq(Index) /\ size <= Len(list)
        /\ LogChange(FALSE, list) /\ relayIndex' = relayIndex
        /\ unhealthyRelaySet' = unhealthyRelaySet \o SubSeq(list, 1, size)
        /\ unhealthyRelaySet \in Seq(Index)
    <3>1. size \in Nat /\ list \in Seq(Index)
      BY HealthCallsAssumption, WidthAssumption, SMT DEF Index
    <3>2. /\ size <= Len(list) /\ LogChange(FALSE, list) /\ relayIndex' = relayIndex
          /\ unhealthyRelaySet' = unhealthyRelaySet \o SubSeq(list, 1, size)
      BY <1>3 DEF modifyHealthFlag
    <3>3. unhealthyRelaySet \in Seq(Index)
      BY DEF ContractInv, ContractTypeOK
    <3> QED BY <3>1, <3>2, <3>3
  <2> HIDE DEF size, list
  <2>2. Changed(1, TRUE)' = Changed(1, TRUE) \cup (IF TRUE = FALSE THEN Range(list) ELSE {})
    BY <1>0, <2>1, LogChangeMonotone
  <2>3. Changed(1, FALSE)' = Changed(1, FALSE) \cup (IF FALSE = FALSE THEN Range(list) ELSE {})
    BY <1>0, <2>1, LogChangeMonotone
  <2>4. Range(unhealthyRelaySet') = Range(unhealthyRelaySet) \cup {list[k] : k \in 1..size}
    <3>1. /\ unhealthyRelaySet \in Seq(Index) /\ list \in Seq(Index)
          /\ size \in Nat /\ size <= Len(list)
      BY <2>1
    <3>2. Range(unhealthyRelaySet \o SubSeq(list, 1, size))
            = Range(unhealthyRelaySet) \cup {list[k] : k \in 1..size}
      BY <3>1, RangeAppendPrefix, SMT
    <3> QED BY <2>1, <3>2
  <2>5. {list[k] : k \in 1..size} \subseteq Range(list)
    <3>1. DOMAIN list = 1..Len(list) /\ Len(list) \in Nat
      BY <2>1, SMT
    <3>2. 1..size \subseteq DOMAIN list
      BY <2>1, <3>1, SMT
    <3> QED BY <3>2 DEF Range
  <2> QED BY <1>1, <2>1, <2>2, <2>3, <2>4, <2>5 DEF HistoryInv
<1>4. CASE UNCHANGED <<relayIndex, unhealthyRelaySet, CurrentCounter, CounterOP, CounterList>>
  BY <1>4 DEF HistoryInv, Changed
<1> QED BY <1>2, <1>3, <1>4, OtherSteps

-----------------------------------------------------------------------------
(* A relay that takes no part in a step.                                   *)

\* The invariants of a relay that do not speak of its pending transaction.
LEMMA ProcessKept ==
    ASSUME ContractInv, TypeOK, ChainGrows, NEW q \in Relay, OneRelayInv(q), SameProcess(q),
           registered(q) =>
              registered(q)' \/ \E i \in 1..(relayIndex' - 1) : ~relay'[i].registered
    PROVE  ViewInv(q)' /\ FileInv(q)' /\ DescriptorInv(q)' /\ RegisteredInv(q)'
<1>0. ViewInv(q) /\ FileInv(q) /\ DescriptorInv(q) /\ RegisteredInv(q)
  BY DEF OneRelayInv
<1>1. ViewInv(q)'
  <2>1. Counter'[q] <= CurrentCounter'
    <3>1. /\ Counter[q] \in Nat /\ CurrentCounter \in Nat /\ CurrentCounter' \in Nat
          /\ CurrentCounter <= CurrentCounter'
      BY RelayTypes, ContractNumbers DEF ChainGrows
    <3>2. Counter'[q] = Counter[q] /\ Counter[q] <= CurrentCounter
      BY <1>0 DEF ViewInv, SameProcess, SameData
    <3> QED BY <3>1, <3>2, SMT
  <2>2. NextID(q)' = NextID(q)
    BY DEF NextID, SameProcess, SameData
  <2>3. pc'[q] = "dl_list" => AttributedBytes(NextID(q), fetched[q].encryptedSRI)'
    BY <1>0, <2>2, AttributedBytesLast DEF ViewInv, SameProcess, SameData, AttributedBytes
  <2> QED BY <1>0, <2>1, <2>3 DEF ViewInv, SameProcess, SameData
<1>2. FileInv(q)'
  <2>1. ASSUME NEW e \in nime[q] \cup nimeCached[q] PROVE Attributed(e.index, e.sri)'
    <3>1. e.sri \in SRI
      BY RelayTypes DEF Entry
    <3> QED BY <1>0, <3>1, AttributedLasts DEF FileInv
  <2> QED BY <2>1 DEF FileInv, SameProcess, SameData
<1>3. DescriptorInv(q)'
  BY <1>0 DEF DescriptorInv, SameProcess, SameData
<1>4. RegisteredInv(q)'
  <2>1. ASSUME NEW i \in 1..(relayIndex - 1), ~relay[i].registered
        PROVE  \E j \in 1..(relayIndex' - 1) : ~relay'[j].registered
    <3>1. relayIndex \in Nat /\ relayIndex' \in Nat /\ relayIndex <= relayIndex'
      BY ContractNumbers DEF ChainGrows
    <3>2. 1..(relayIndex - 1) \subseteq 1..(relayIndex' - 1)
      BY <3>1, IntervalGrows
    <3> QED BY <2>1, <3>2 DEF ChainGrows
  <2> QED BY <1>0, <2>1 DEF RegisteredInv, SameProcess
<1> QED BY <1>1, <1>2, <1>3, <1>4

\* The invariants that do, when its transaction stays pending.
LEMMA TransactionKept ==
    ASSUME ContractInv, ContractInv', TypeOK, RecordsAttributed, RecordsAttributed',
           NEW q \in Relay, OneRelayInv(q), SameProcess(q), Undisturbed(q),
           mempool'[q] = mempool[q]
    PROVE  KeyInv(q)' /\ ReceiptInv(q)'
<1>0. KeyInv(q) /\ ReceiptInv(q)
  BY DEF OneRelayInv
<1>1. PICK old \in Nat : old = PublishedKey(relayaddr[q])
  <2>1. relayaddr[q] \in Index
    BY RelayTypes, ContractNumbers
  <2> QED BY <2>1, PublishedKeyType
<1>2. PICK new \in Nat : new = PublishedKey(relayaddr[q])'
  <2>1. PICK i \in Index : i = relayaddr'[q]
    <3>1. q \in Addr
      BY RelayTypes
    <3> QED BY <3>1 DEF ContractInv, ContractTypeOK
  <2>2. AttributedBytes(i, relay[i].encryptedSRI)'
    BY DEF RecordsAttributed
  <2>3. CASE relay'[i].encryptedSRI = EmptyBytes
    BY <2>1, <2>3 DEF PublishedKey
  <2>4. ASSUME NEW s \in SRI, relay'[i].encryptedSRI = <<s>>
        PROVE  PublishedKey(relayaddr[q])' \in Nat
    <3>1. <<s>> # EmptyBytes /\ <<s>>[1] = s /\ s.key \in Nat
      BY BoundAssumption, SMT DEF EmptyBytes, SRI
    <3> QED BY <2>1, <2>4, <3>1 DEF PublishedKey
  <2> QED BY <2>2, <2>3, <2>4 DEF AttributedBytes
<1>3. new <= old
  BY <1>1, <1>2 DEF Undisturbed
<1>4. PICK cur \in Nat : cur = onionKey[q] /\ cur = onionKey'[q]
  BY RelayTypes DEF SameProcess, SameData
<1>5. KeyInv(q)'
  <2>1. old <= cur
    BY <1>0, <1>1, <1>4 DEF KeyInv
  <2>2. new <= cur
    BY <1>3, <2>1, SMT
  <2>3. ASSUME mempool'[q].call = "upload"
        PROVE  \E s \in SRI : /\ mempool'[q].up.encryptedSRI = <<s>> /\ s.by = q
                              /\ new <= s.key /\ s.key <= cur
    <3>1. PICK s \in SRI : /\ mempool[q].up.encryptedSRI = <<s>> /\ s.by = q
                           /\ old <= s.key /\ s.key <= cur
      BY <1>0, <1>1, <1>4, <2>3 DEF KeyInv
    <3>2. s.key \in Nat
      BY BoundAssumption, SMT DEF SRI
    <3>3. new <= s.key
      BY <1>3, <3>1, <3>2, SMT
    <3> QED BY <3>1, <3>3
  <2> QED BY <1>2, <1>4, <2>2, <2>3 DEF KeyInv
<1>6. ReceiptInv(q)'
  BY <1>0 DEF ReceiptInv, Undisturbed, SameProcess, SameData
<1> QED BY <1>5, <1>6

\* A relay that takes no part in a step keeps its invariant.
LEMMA BystanderKept ==
    ASSUME ContractInv, ContractInv', TypeOK, RecordsAttributed, RecordsAttributed',
           ChainGrows, NEW q \in Relay, OneRelayInv(q), SameProcess(q), Undisturbed(q),
           mempool'[q] = mempool[q]
    PROVE  OneRelayInv(q)'
<1>1. ViewInv(q)' /\ FileInv(q)' /\ DescriptorInv(q)' /\ RegisteredInv(q)'
  BY ProcessKept DEF Undisturbed
<1>2. KeyInv(q)' /\ ReceiptInv(q)'
  BY TransactionKept
<1> QED BY <1>1, <1>2 DEF OneRelayInv

\* For such a step it is enough to look at the relay that takes it.
LEMMA LocalStepInv ==
    ASSUME NoWrap, RelayInv, NEW r \in Relay, RelayKept(r)
    PROVE  RelayInv'
<1>0. /\ ContractInv /\ TypeOK /\ RecordsAttributed /\ HistoryInv
      /\ \A q \in Relay : OneRelayInv(q)
  BY DEF RelayInv
<1>1. UNCHANGED contractVars /\ LocalStep(r) /\ TypeOK' /\ OneRelayInv(r)'
  BY DEF RelayKept, LocalStep
<1>2. ChainGrows /\ RecordsAttributed' /\ \A q \in Addr : Undisturbed(q)
  BY <1>0, <1>1, QuietChain
<1>3. ContractInv' /\ HistoryInv'
  BY <1>0, <1>1, ContractStepInv, HistoryStep
<1>4. ASSUME NEW q \in Relay \ {r} PROVE OneRelayInv(q)'
  <2>1. /\ Undisturbed(q) /\ SameProcess(q) /\ OneRelayInv(q) /\ mempool'[q] = mempool[q]
    BY <1>0, <1>1, <1>2, RelayAssumption DEF LocalStep
  <2> QED BY <1>0, <1>2, <1>3, <2>1, BystanderKept
<1> QED BY <1>1, <1>2, <1>3, <1>4 DEF RelayInv

-----------------------------------------------------------------------------
(* Steps that change the contract.                                         *)

\* The owner's and the operators' calls.
LEMMA ManageInv ==
    ASSUME NoWrap, RelayInv, Manage
    PROVE  RelayInv' /\ ContractNext
<1>0. /\ ContractInv /\ TypeOK /\ RecordsAttributed /\ HistoryInv
      /\ \A q \in Relay : OneRelayInv(q)
  BY DEF RelayInv
<1>1. ContractNext /\ ChainGrows /\ RecordsAttributed' /\ \A q \in Addr : Undisturbed(q)
  <2>1. ASSUME NEW call \in HealthCalls, modifyHealthFlag(Owner, call[1], call[2])
        PROVE  ContractNext /\ ChainGrows /\ RecordsAttributed' /\ \A q \in Addr : Undisturbed(q)
    <3>1. ContractNext
      BY <2>1, OwnerAssumption DEF ContractNext
    <3> QED BY <1>0, <2>1, <3>1, ExpelChain
  <2>2. ASSUME NEW a \in Cancelling, relay_cancellation(a)
        PROVE  ContractNext /\ ChainGrows /\ RecordsAttributed' /\ \A q \in Addr : Undisturbed(q)
    <3>1. ContractNext
      BY <2>2, RelayAssumption DEF ContractNext
    <3> QED BY <1>0, <2>2, <3>1, CancelChain
  <2> QED BY <2>1, <2>2 DEF Manage
<1>2. ContractInv' /\ HistoryInv'
  BY <1>0, <1>1, ContractStepInv, HistoryStep
<1>3. TypeOK'
  BY <1>0 DEF TypeOK, Manage, relayVars, processVars, fileVars
<1>4. ASSUME NEW q \in Relay PROVE OneRelayInv(q)'
  <2>1. SameProcess(q) /\ mempool'[q] = mempool[q]
    BY DEF Manage, relayVars, processVars, fileVars, SameProcess, SameData
  <2>2. Undisturbed(q)
    BY <1>1, RelayAssumption
  <2> QED BY <1>0, <1>1, <1>2, <2>1, <2>2, BystanderKept
<1> QED BY <1>1, <1>2, <1>3, <1>4 DEF RelayInv

LEMMA MineContract ==
    ASSUME NoWrap, RelayInv, NEW r \in Relay, Mine(r)
    PROVE  MineEffect(r)
<1>0. /\ ContractInv /\ TypeOK /\ RecordsAttributed
      /\ KeyInv(r) /\ ReceiptInv(r)
      /\ r \in Addr /\ onionKey[r] \in Nat /\ relayaddr[r] \in Index
      /\ mempool[r] \in Tx
  BY RelayTypes, ContractNumbers DEF RelayInv, OneRelayInv
<1>5. pc[r] = "up_wait" => /\ mempool[r].call = "upload"
                          /\ mempool[r].up.encryptedSRI = <<ri[r]>>
                          /\ mempool[r].up.counter = Counter[r]
  BY <1>0 DEF ReceiptInv, Mine
<1>1. CASE mempool[r].call = "register" /\ relay_register(r)
  <2>1. /\ ChainGrows /\ RecordsAttributed' /\ \A q \in Addr \ {r} : Undisturbed(q)
        /\ relay'[relayaddr'[r]].encryptedSRI = EmptyBytes /\ registered(r)'
    BY <1>0, <1>1, RegisterChain
  <2>2. ContractNext
    BY <1>0, <1>1 DEF ContractNext
  <2>3. PublishedKey(relayaddr[r])' <= onionKey[r]
    <3>1. PublishedKey(relayaddr[r])' = 0
      BY <2>1 DEF PublishedKey
    <3> QED BY <1>0, <3>1, SMT
  <2>4. pc[r] # "up_wait"
    BY <1>5, <1>1
  <2> QED BY <2>1, <2>2, <2>3, <2>4, RelayAssumption DEF MineEffect
<1>2. CASE mempool[r].call = "upload" /\ relay_upload_SRI_and_NSD(r, mempool[r].up)
  <2>1. PICK s \in SRI : /\ mempool[r].up.encryptedSRI = <<s>> /\ s.by = r
                         /\ s.key <= onionKey[r]
    BY <1>0, <1>2 DEF KeyInv
  <2>2. mempool[r].up \in Upload
    BY <1>0, <1>2, UploadType
  <2>3. /\ ChainGrows /\ RecordsAttributed' /\ \A q \in Addr \ {r} : Undisturbed(q)
        /\ relayaddr' = relayaddr
        /\ relay'[relayaddr[r]].encryptedSRI = mempool[r].up.encryptedSRI
        /\ relay'[relayaddr[r]].counter = mempool[r].up.counter
        /\ registered(r)'
    BY <1>0, <1>2, <2>1, <2>2, UploadChain
  <2>4. ContractNext
    BY <1>0, <1>2, <2>2, UploadAssumption DEF ContractNext
  <2>5. PublishedKey(relayaddr[r])' <= onionKey[r]
    <3>1. <<s>> # EmptyBytes /\ <<s>>[1] = s
      BY DEF EmptyBytes
    <3>2. PublishedKey(relayaddr[r])' = s.key
      BY <2>1, <2>3, <3>1 DEF PublishedKey
    <3> QED BY <2>1, <3>2
  <2> QED BY <1>5, <2>3, <2>4, <2>5, RelayAssumption DEF MineEffect
<1>3. CASE UNCHANGED contractVars /\ mempool[r].call = "register" /\ registered(r)
  <2>1. ChainGrows /\ RecordsAttributed' /\ \A q \in Addr : Undisturbed(q)
    BY <1>0, <1>3, QuietChain
  <2>2. PublishedKey(relayaddr[r])' <= onionKey[r]
    BY <1>0, <1>3 DEF KeyInv, PublishedKey, contractVars
  <2>3. pc[r] # "up_wait"
    BY <1>5, <1>3
  <2> QED BY <1>0, <1>3, <2>1, <2>2, <2>3, RelayAssumption DEF MineEffect, Undisturbed
<1>4. CASE /\ UNCHANGED contractVars /\ mempool[r].call = "upload"
           /\ ~relay[relayaddr[r]].healthflag
  <2>1. ChainGrows /\ RecordsAttributed' /\ \A q \in Addr : Undisturbed(q)
    BY <1>0, <1>4, QuietChain
  <2>2. PublishedKey(relayaddr[r])' <= onionKey[r]
    BY <1>0, <1>4 DEF KeyInv, PublishedKey, contractVars
  <2>3. ~relay'[relayaddr'[r]].healthflag
    BY <1>4 DEF contractVars
  <2> QED BY <1>0, <1>4, <2>1, <2>2, <2>3, RelayAssumption DEF MineEffect, Undisturbed
<1> QED BY <1>1, <1>2, <1>3, <1>4 DEF Mine

\* Execution of a pending transaction.
LEMMA MineInv ==
    ASSUME NoWrap, RelayInv, NEW r \in Relay, Mine(r)
    PROVE  RelayInv' /\ [ContractNext]_contractVars
<1>0. /\ ContractInv /\ TypeOK /\ RecordsAttributed /\ HistoryInv
      /\ \A q \in Relay : OneRelayInv(q)
  BY DEF RelayInv
<1>1. MineEffect(r)
  BY MineContract
<1>2. ContractInv' /\ HistoryInv' /\ RecordsAttributed' /\ ChainGrows
  BY <1>0, <1>1, ContractStepInv, HistoryStep DEF MineEffect
<1>3. /\ mempool \in [Relay -> Tx] /\ mempool' = [mempool EXCEPT ![r] = NoTx]
      /\ UNCHANGED <<pc, processVars, fileVars, crashes>>
  BY <1>0 DEF TypeOK, Mine
<1>4. mempool' \in [Relay -> Tx] /\ mempool'[r] = NoTx
      /\ \A q \in Relay \ {r} : mempool'[q] = mempool[q]
  BY <1>3 DEF Tx
<1>5. TypeOK'
  BY <1>0, <1>3, <1>4 DEF TypeOK, processVars, fileVars
<1>6. \A q \in Relay : SameProcess(q)
  BY <1>3 DEF processVars, fileVars, SameProcess, SameData
<1>7. ASSUME NEW q \in Relay \ {r} PROVE OneRelayInv(q)'
  <2>1. Undisturbed(q) /\ SameProcess(q) /\ OneRelayInv(q) /\ mempool'[q] = mempool[q]
    BY <1>0, <1>1, <1>4, <1>6 DEF MineEffect
  <2> QED BY <1>0, <1>2, <2>1, BystanderKept
<1>8. OneRelayInv(r)'
  <2>1. ViewInv(r)' /\ FileInv(r)' /\ DescriptorInv(r)' /\ RegisteredInv(r)'
    BY <1>0, <1>1, <1>2, <1>6, ProcessKept DEF MineEffect
  <2>2. KeyInv(r)'
    <3>1. mempool'[r].call # "upload"
      BY <1>4, SMT DEF NoTx
    <3>2. PublishedKey(relayaddr[r])' <= onionKey[r] /\ onionKey'[r] = onionKey[r]
      BY <1>1, <1>6 DEF MineEffect, SameProcess, SameData
    <3> QED BY <3>1, <3>2 DEF KeyInv
  <2>3. ReceiptInv(r)'
    BY <1>1, <1>4, <1>6 DEF ReceiptInv, MineEffect, SameProcess, SameData
  <2> QED BY <2>1, <2>2, <2>3 DEF OneRelayInv
<1> QED BY <1>1, <1>2, <1>5, <1>7, <1>8 DEF RelayInv, MineEffect
=============================================================================
