------------------------ MODULE RelayDirectoryProofs ------------------------
(***************************************************************************)
(* Proofs about relays that keep their directory on the contract, for any  *)
(* number of relays, any faults, kills, expulsions and cancellations, as   *)
(* long as the contract's counters do not wrap around.                     *)
(***************************************************************************)
EXTENDS RelayDirectoryChain

(* Zenon is the default prover; leaves that need arithmetic, records or    *)
(* sequences cite SMT.                                                     *)
USE Zenon

LEMMA RelayInitInv == Init => RelayInv
<1> SUFFICES ASSUME Init PROVE RelayInv
  OBVIOUS
<1>1. ContractInit /\ RelayInit /\ ContractInv
  BY ContractInitInv DEF Init
<1>2. /\ 0 \in Index /\ 0 \in CounterValue /\ 1 \in CounterValue
      /\ NoRelay \in RelayRecord /\ NoRelay.encryptedSRI = EmptyBytes
  <2>1. relay[0] = NoRelay /\ 0 \in Index /\ relay[0] \in RelayRecord /\ 0 \in CounterValue
    BY <1>1, RecordZero, ContractNumbers
  <2>2. 1 \in CounterValue
    BY WidthAssumption, SMT DEF CounterValue
  <2> QED BY <2>1, <2>2 DEF NoRelay
<1>3. TypeOK
  <2>1. 1 \in 1..MaxKey /\ 0 \in 0..MaxKey /\ 0 \in 0..MaxCrash
    BY BoundAssumption, SMT
  <2>2. "idle" \in Place
    BY DEF Place
  <2> QED BY <1>1, <1>2, <2>1, <2>2 DEF RelayInit, TypeOK, NoFile, Tx
<1>4. RecordsAttributed
  BY <1>1, <1>2 DEF ContractInit, RecordsAttributed, AttributedBytes
<1>5. HistoryInv
  <2>1. /\ relayIndex = 1 /\ unhealthyRelaySet = <<>> /\ CounterList[0] = <<>>
        /\ CurrentCounter = 1
    BY <1>1, <1>2 DEF ContractInit
  <2>2. Range(<<>>) = {}
    BY SMT DEF Range
  <2>3. Changed(1, TRUE) = {}
    BY <2>1, SMT DEF Changed
  <2> QED BY <2>1, <2>2, <2>3 DEF HistoryInv
<1>6. ASSUME NEW r \in Relay PROVE OneRelayInv(r)
  <2>1. /\ pc[r] = "idle" /\ Counter[r] = 1 /\ onionKey[r] = 1 /\ ri[r].by = r
        /\ nime[r] = {} /\ nimeCached[r] = {} /\ mempool[r].call = "none"
    BY <1>1 DEF RelayInit, NoFile, NoTx
  <2>2. PublishedKey(relayaddr[r]) = 0
    <3>1. r \in Addr
      BY RelayAssumption
    <3>2. relayaddr[r] = 0 /\ relay[0] = NoRelay
      BY <1>1, <1>2, <3>1 DEF ContractInit
    <3> QED BY <1>2, <3>2 DEF PublishedKey
  <2>3. ViewInv(r)
    <3>1. CurrentCounter = 1
      BY <1>1 DEF ContractInit
    <3> QED BY <2>1, <3>1, SMT DEF ViewInv
  <2>4. FileInv(r) /\ DescriptorInv(r)
    BY <2>1 DEF FileInv, DescriptorInv
  <2>5. KeyInv(r)
    BY <2>1, <2>2, SMT DEF KeyInv
  <2>6. ReceiptInv(r) /\ RegisteredInv(r)
    BY <2>1 DEF ReceiptInv, RegisteredInv, PastFirstRead
  <2> QED BY <2>3, <2>4, <2>5, <2>6 DEF OneRelayInv
<1> QED BY <1>1, <1>3, <1>4, <1>5, <1>6 DEF RelayInv

Orders == INSTANCE WellFoundedInduction

\* A set of numbers has a least one.
LEMMA LeastNumber ==
    ASSUME NEW S \in SUBSET Nat, S # {}
    PROVE  \E n \in S : \A k \in S : n <= k
<1> DEFINE R == Orders!OpToRel(<, Nat)
<1>1. Orders!IsWellFoundedOn(R, Nat)
  BY Orders!NatLessThanWellFounded
<1>2. \A x, y \in Nat : <<y, x>> \in R <=> y < x
  BY DEF Orders!OpToRel
<1> HIDE DEF R
<1>3. PICK n \in S : \A k \in S : ~(<<k, n>> \in R)
  BY <1>1, Orders!WFMin
<1>4. \A k \in S : ~(k < n)
  BY <1>2, <1>3
<1> QED BY <1>4, SMT

\* So the steps of a relay keep its invariant.
LEMMA AnyRelayStepInv ==
    ASSUME RelayInv, NEW r \in Relay, RelayStep(r) \/ RotateOnionKey(r) \/ Crash(r)
    PROVE  RelayKept(r)
  BY LeastNumber, RelayStepInv DEF NumbersHaveLeast

LEMMA RelayNextInv ==
    ASSUME NoWrap, RelayInv, [Next]_vars
    PROVE  RelayInv' /\ [ContractNext]_contractVars
<1>1. CASE Manage
  BY <1>1, ManageInv
<1>2. ASSUME NEW r \in Relay, Mine(r) PROVE RelayInv' /\ [ContractNext]_contractVars
  BY <1>2, MineInv
<1>3. ASSUME NEW r \in Relay, RelayStep(r) \/ RotateOnionKey(r) \/ Crash(r)
      PROVE  RelayInv' /\ UNCHANGED contractVars
  <2>1. RelayKept(r)
    BY <1>3, AnyRelayStepInv
  <2> QED BY <2>1, LocalStepInv DEF RelayKept, LocalStep
<1>4. CASE UNCHANGED vars
  <2>1. UNCHANGED contractVars
    BY <1>4 DEF vars
  <2>2. TypeOK' /\ \A q \in Relay : SameProcess(q) /\ mempool'[q] = mempool[q]
    BY <1>4 DEF RelayInv, TypeOK, vars, relayVars, processVars, fileVars, SameProcess, SameData
  <2>3. ContractInv /\ RecordsAttributed /\ TypeOK /\ HistoryInv
        /\ \A q \in Relay : OneRelayInv(q) /\ q \in Addr
    BY RelayAssumption DEF RelayInv
  <2>4. ChainGrows /\ RecordsAttributed' /\ \A q \in Addr : Undisturbed(q)
    BY <2>1, <2>3, QuietChain
  <2>5. ContractInv' /\ HistoryInv'
    BY <2>1, <2>3, ContractStepInv, HistoryStep
  <2>6. \A q \in Relay : OneRelayInv(q)'
    BY <2>2, <2>3, <2>4, <2>5, BystanderKept
  <2> QED BY <2>1, <2>2, <2>4, <2>5, <2>6 DEF RelayInv
<1> QED BY <1>1, <1>2, <1>3, <1>4 DEF Next

\* Through every interleaving of rounds, transactions, timeouts, kills, restarts,
\* expulsions and cancellations the invariant holds.
THEOREM RelayInvariant ==
    ASSUME NoWrap PROVE Spec => []RelayInv
<1>1. Init => RelayInv
  BY RelayInitInv
<1>2. RelayInv /\ [Next]_vars => RelayInv'
  BY RelayNextInv
<1> QED BY <1>1, <1>2, PTL DEF Spec

-----------------------------------------------------------------------------
(* What follows from it.                                                   *)

\* The relays use the contract as its interface allows: every step of the
\* system is a transaction of the contract or leaves it alone.
THEOREM RelaysUseContract ==
    ASSUME NoWrap PROVE Spec => ContractSpec
<1>1. Init => ContractInit
  BY DEF Init
<1>2. RelayInv /\ [Next]_vars => [ContractNext]_contractVars
  BY RelayNextInv
<1> QED BY <1>1, <1>2, RelayInvariant, PTL DEF Spec, ContractSpec

\* With relays that die, restart and time out as they may, undoing the history
\* still gives back every earlier broadcast set.
THEOREM RelaysKeepMembershipLog ==
    ASSUME NoWrap, CarefulOwner PROVE Spec => ImplementsMembershipLog
  BY RelaysUseContract, ContractImplementsMembershipLog, PTL

\* The statics, globals and files of every relay, and the transactions it sends,
\* have their types.
THEOREM RelayTypesCorrect ==
    ASSUME NoWrap PROVE Spec => []TypeOK
<1>1. RelayInv => TypeOK
  BY DEF RelayInv
<1> QED BY <1>1, RelayInvariant, PTL

\* Between the read of a record's counter in relayDownloadSRI and the call of
\* relay_get_counter_list, nothing makes that call revert for a registered relay.
THEOREM HistoryIsAvailable ==
    ASSUME NoWrap PROVE Spec => []CounterListAvailable
<1>1. RelayInv => CounterListAvailable
  <2> SUFFICES ASSUME RelayInv, NEW r \in Relay, pc[r] = "dl_list", registered(r)
               PROVE  relay_get_counter_list_allowed(r, fetched[r].counter)
    BY DEF CounterListAvailable
  <2>1. fetched[r].counter < Counter[r] /\ Counter[r] <= CurrentCounter
    BY DEF RelayInv, OneRelayInv, ViewInv
  <2>2. fetched[r].counter \in Nat /\ Counter[r] \in Nat /\ CurrentCounter \in Nat
    BY RelayTypes, ContractNumbers DEF RelayInv
  <2>3. fetched[r].counter < CurrentCounter
    BY <2>1, <2>2, SMT
  <2> QED BY <2>3 DEF relay_get_counter_list_allowed
<1> QED BY <1>1, RelayInvariant, PTL

\* A receipt of relayUploadSRIAndNSD means that the contract holds the SRI and the
\* counter of this round, unless the relay is no longer healthy.
THEOREM ReceiptsMeanPublished ==
    ASSUME NoWrap PROVE Spec => []ReceiptMeansPublished
<1>1. RelayInv => ReceiptMeansPublished
  <2> SUFFICES ASSUME RelayInv PROVE ReceiptMeansPublished
    OBVIOUS
  <2>1. \A r \in Relay : ReceiptInv(r)
    BY DEF RelayInv, OneRelayInv
  <2>2. NoTx.call # "upload"
    BY DEF NoTx
  <2> QED BY <2>1, <2>2 DEF ReceiptInv, ReceiptMeansPublished
<1> QED BY <1>1, RelayInvariant, PTL

\* The files of every relay list an SRI under the index of the relay that built
\* it, whatever was uploaded, expelled or restarted since it was downloaded.
THEOREM NimeIsAttributed ==
    ASSUME NoWrap PROVE Spec => []NimeAttribution
<1>1. RelayInv => NimeAttribution
  BY DEF RelayInv, OneRelayInv, FileInv, Attributed, NimeAttribution
<1> QED BY <1>1, RelayInvariant, PTL

\* No transaction, however late or replaced, takes back a published onion key.
THEOREM PublishedKeysNeverGoBack ==
    ASSUME NoWrap PROVE Spec => UploadsNeverGoBack
<1> DEFINE Kept == \A i \in Index : relay'[i].registered => PublishedKey(i)' >= PublishedKey(i)
<1>1. ASSUME RelayInv, \A i \in Index : relay'[i].registered =>
                           relay'[i].encryptedSRI = relay[i].encryptedSRI
      PROVE  Kept
  <2> SUFFICES ASSUME NEW i \in Index, relay'[i].encryptedSRI = relay[i].encryptedSRI
               PROVE  PublishedKey(i)' >= PublishedKey(i)
    BY <1>1
  <2>1. PICK k \in Nat : k = PublishedKey(i)
    BY <1>1, PublishedKeyType DEF RelayInv
  <2>2. PublishedKey(i)' = k
    BY <2>1 DEF PublishedKey
  <2>3. k >= k
    BY SMT
  <2> QED BY <2>1, <2>2, <2>3
<1>2. ASSUME RelayInv, UNCHANGED contractVars PROVE Kept
  BY <1>1, <1>2, QuietViews
<1>3. ASSUME RelayInv, Manage PROVE Kept
  <2>1. ContractInv /\ RecordsAttributed
    BY <1>3 DEF RelayInv
  <2>2. \A i \in Index : relay'[i].registered =>
            relay'[i].encryptedSRI = relay[i].encryptedSRI
    BY <1>3, <2>1, CancelChain, ExpelChain DEF Manage
  <2> QED BY <1>1, <1>3, <2>2
<1>4. ASSUME RelayInv, NEW r \in Relay, Mine(r) PROVE Kept
  <2>1. ContractInv /\ RecordsAttributed /\ r \in Addr
    BY <1>4, RelayAssumption DEF RelayInv
  <2>2. CASE relay_register(r)
    BY <1>1, <1>4, <2>1, <2>2, RegisterChain
  <2>3. CASE mempool[r].call = "upload" /\ relay_upload_SRI_and_NSD(r, mempool[r].up)
    <3>1. PICK s \in SRI : /\ mempool[r].up.encryptedSRI = <<s>> /\ s.by = r
                           /\ PublishedKey(relayaddr[r]) <= s.key
      BY <1>4, <2>3 DEF RelayInv, OneRelayInv, KeyInv
    <3>2. mempool[r].up \in Upload
      BY <1>4, <2>3, UploadType DEF RelayInv, TypeOK
    <3>3. /\ relay'[relayaddr[r]].encryptedSRI = <<s>>
          /\ \A i \in Index \ {relayaddr[r]} : relay'[i] = relay[i]
      BY <2>1, <2>3, <3>1, <3>2, UploadChain
    <3>4. ASSUME NEW i \in Index PROVE PublishedKey(i)' >= PublishedKey(i)
      <4>1. PICK k \in Nat : k = PublishedKey(i)
        BY <2>1, PublishedKeyType
      <4>2. CASE i = relayaddr[r]
        <5>1. <<s>> # EmptyBytes /\ <<s>>[1] = s /\ s.key \in Nat
          BY BoundAssumption, SMT DEF EmptyBytes, SRI
        <5>2. PublishedKey(i)' = s.key
          BY <3>3, <4>2, <5>1 DEF PublishedKey
        <5>3. s.key >= k
          BY <3>1, <4>1, <4>2, <5>1
        <5> QED BY <4>1, <5>2, <5>3
      <4>3. CASE i # relayaddr[r]
        <5>1. PublishedKey(i)' = k
          BY <3>3, <4>1, <4>3 DEF PublishedKey
        <5>2. k >= k
          BY SMT
        <5> QED BY <4>1, <5>1, <5>2
      <4> QED BY <4>2, <4>3
    <3> QED BY <3>4
  <2>4. CASE UNCHANGED contractVars
    BY <1>2, <1>4, <2>4
  <2> QED BY <1>4, <2>2, <2>3, <2>4 DEF Mine
<1>5. RelayInv /\ [Next]_vars => Kept \/ UNCHANGED vars
  <2> SUFFICES ASSUME RelayInv, Next PROVE Kept
    OBVIOUS
  <2>1. ASSUME NEW r \in Relay, RelayStep(r) \/ RotateOnionKey(r) \/ Crash(r) PROVE Kept
    <3>1. UNCHANGED contractVars
      BY <2>1, AnyRelayStepInv DEF RelayKept, LocalStep
    <3> QED BY <1>2, <3>1
  <2> QED BY <1>3, <1>4, <2>1 DEF Next
<1> QED BY <1>5, RelayInvariant, PTL DEF Spec, UploadsNeverGoBack

-----------------------------------------------------------------------------
(* A quiet network.                                                        *)

\* The contract keeps the bound on the counter.
LEMMA CounterBoundStep ==
    ASSUME NoWrap, ContractInv, CounterBound, [ContractNext]_contractVars
    PROVE  CounterBound'
<1>1. CurrentCounter \in Nat /\ MaxCounter \in Nat
  BY ContractNumbers, WidthAssumption
<1>2. ASSUME NEW op, NEW list, LogChange(op, list), CurrentCounter' = CurrentCounter + 1
      PROVE  CounterBound'
  BY <1>1, <1>2, SMT DEF CounterBound, LogChange
<1>3. ASSUME NEW a \in Addr, relay_register(a) PROVE CounterBound'
  <2>1. LogChange(TRUE, <<relayIndex>>) /\ <<relayIndex>> \in Seq(Index)
    BY <1>3, RegisterEffect
  <2>2. CurrentCounter' = CurrentCounter + 1
    BY <2>1, LogChangeExtends
  <2> QED BY <1>2, <2>1, <2>2
<1>4. ASSUME NEW a \in Addr, NEW call \in HealthCalls, modifyHealthFlag(a, call[1], call[2])
      PROVE  CounterBound'
  <2>1. call[2] \in Seq(Index) /\ LogChange(FALSE, call[2])
    BY <1>4, HealthCallsAssumption DEF modifyHealthFlag
  <2>2. CurrentCounter' = CurrentCounter + 1
    BY <2>1, LogChangeExtends
  <2> QED BY <1>2, <2>1, <2>2
<1>5. CASE UNCHANGED <<relayIndex, unhealthyRelaySet, CurrentCounter, CounterOP, CounterList>>
  BY <1>5 DEF CounterBound
<1> QED BY <1>3, <1>4, <1>5, OtherSteps

\* A relay takes its index from the contract, which only hands out further ones.
LEMMA MyIndexBelowStep ==
    ASSUME NoWrap, RelayInv, MyIndexBelow, [Next]_vars
    PROVE  MyIndexBelow'
<1>1. /\ ContractInv /\ TypeOK /\ relayIndex \in Nat /\ relayIndex >= 1
      /\ \A r \in Relay : relayaddr[r] < relayIndex
  BY ContractNumbers, RelayAssumption DEF RelayInv
<1>2. myIndex \in [Relay -> Index \cup {-1}] /\ \A r \in Relay : myIndex[r] \in Int
  <2>1. Index \cup {-1} \subseteq Int
    BY WidthAssumption, SMT DEF Index
  <2> QED BY <1>1, <2>1 DEF TypeOK
<1>3. 0 < relayIndex /\ -1 < relayIndex
  BY <1>1, SMT
<1>4. ASSUME UNCHANGED myIndex, relayIndex' \in Nat, relayIndex <= relayIndex'
      PROVE  MyIndexBelow'
  BY <1>1, <1>2, <1>4, SMT DEF MyIndexBelow
<1>5. ASSUME NEW r \in Relay, NEW i, i < relayIndex, myIndex' = [myIndex EXCEPT ![r] = i],
             UNCHANGED contractVars
      PROVE  MyIndexBelow'
  <2>1. relayIndex' = relayIndex
    BY <1>5, QuietViews
  <2>2. \A q \in Relay : myIndex'[q] = myIndex[q] \/ myIndex'[q] = i
    BY <1>2, <1>5
  <2> QED BY <1>5, <2>1, <2>2 DEF MyIndexBelow
<1>6. ASSUME UNCHANGED <<contractVars, myIndex>> PROVE MyIndexBelow'
  BY <1>6, QuietViews DEF MyIndexBelow
<1>7. CASE Manage
  <2>1. ChainGrows
    BY <1>1, <1>7, CancelChain, ExpelChain DEF Manage, RelayInv
  <2> QED BY <1>4, <1>7, <2>1 DEF Manage, relayVars, processVars, ChainGrows
<1>8. ASSUME NEW r \in Relay, Mine(r) PROVE MyIndexBelow'
  <2>1. ChainGrows
    BY <1>8, MineContract DEF MineEffect
  <2> QED BY <1>4, <1>8, <2>1 DEF Mine, processVars, ChainGrows
<1>9. ASSUME NEW r \in Relay, NEW i \in {relay_registration_check(r), -1}, Registered(r, i)
      PROVE  MyIndexBelow'
  <2>1. i < relayIndex
    BY <1>1, <1>3 DEF relay_registration_check
  <2> QED BY <1>5, <1>9, <2>1 DEF Registered
<1>10. ASSUME NEW r \in Relay, RelayStep(r) \/ RotateOnionKey(r) \/ Crash(r)
       PROVE  MyIndexBelow'
  <2>1. CASE CheckRegistration(r) \/ RecheckRegistration(r)
    BY <1>6, <1>9, <2>1 DEF CheckRegistration, RecheckRegistration, processVars
  <2>2. CASE Restart(r)
    BY <1>3, <1>5, <2>2 DEF Restart
  <2>3. CASE StartRound(r) \/ SendRegistration(r) \/ AwaitRegistration(r)
    BY <1>6, <2>3 DEF StartRound, SendRegistration, AwaitRegistration, processVars
  <2>4. ASSUME NEW from, NEW to, GetIndexSet(r, from, to) \/ GetCurrentCounter(r, from, to)
        PROVE  MyIndexBelow'
    BY <1>6, <2>4 DEF GetIndexSet, GetCurrentCounter, Fault, processVars
  <2>5. CASE DownloadSRI(r)
    BY <1>6, <2>5 DEF DownloadSRI, Decrypt, Fault, processVars
  <2>6. CASE DownloadCounterList(r)
    BY <1>6, <2>6 DEF DownloadCounterList, Decrypt, Fault, processVars
  <2>7. CASE RemoveNime(r) \/ RenameNime(r)
    BY <1>6, <2>7 DEF RemoveNime, RenameNime, processVars
  <2>8. CASE UploadSRI(r) \/ AwaitUpload(r)
    BY <1>6, <2>8 DEF UploadSRI, AwaitUpload, Fault, processVars
  <2>9. CASE RotateOnionKey(r) \/ Crash(r)
    BY <1>6, <2>9 DEF RotateOnionKey, Crash, processVars
  <2> QED BY <1>10, <2>1, <2>2, <2>3, <2>4, <2>5, <2>6, <2>7, <2>8, <2>9 DEF RelayStep
<1>11. CASE UNCHANGED vars
  BY <1>6, <1>11 DEF vars, relayVars, processVars
<1> QED BY <1>7, <1>8, <1>10, <1>11 DEF Next

\* As long as the encryption has room for every relay, a relay process dies in
\* its round only if the set of relays changed since it read it, a relay was
\* expelled or cancelled, or its own registration failed.
THEOREM FaultsNeedChange ==
    ASSUME NoWrap, RoomForAll PROVE Spec => FaultNeedsChange
<1> DEFINE Safe == \A r \in Relay : pc[r] \in FaultyPlace /\ pc'[r] = "dead" /\ crashes' = crashes
                          => ~Quiet(r)
<1>1. Init => CounterBound /\ MyIndexBelow
  <2>1. 0 < 1
    BY SMT
  <2> QED BY <2>1 DEF Init, ContractInit, RelayInit, CounterBound, MyIndexBelow
<1>2. RelayInv /\ CounterBound /\ MyIndexBelow /\ [Next]_vars
        => CounterBound' /\ MyIndexBelow'
  BY RelayNextInv, CounterBoundStep, MyIndexBelowStep DEF RelayInv
<1>3. RelayInv /\ CounterBound /\ MyIndexBelow /\ [Next]_vars => Safe \/ UNCHANGED vars
  <2> SUFFICES ASSUME RelayInv, CounterBound, MyIndexBelow, Next, NEW r \in Relay,
                      pc[r] \in FaultyPlace, pc'[r] = "dead", crashes' = crashes, Quiet(r)
               PROVE  FALSE
    OBVIOUS
  <2>1. /\ TypeOK /\ pc \in [Relay -> Place]
    BY DEF RelayInv, TypeOK
  <2>2. CASE Manage
    BY <2>2 DEF Manage, relayVars, FaultyPlace
  <2>3. ASSUME NEW q \in Relay, q # r, RelayStep(q) \/ RotateOnionKey(q) \/ Crash(q)
        PROVE  FALSE
    <3>1. RelayKept(q)
      BY <2>3, AnyRelayStepInv
    <3> QED BY <2>3, <3>1 DEF RelayKept, LocalStep, SameProcess, FaultyPlace
  <2>4. ASSUME NEW q \in Relay, Mine(q) \/ RotateOnionKey(r) PROVE FALSE
    BY <2>4 DEF Mine, RotateOnionKey, FaultyPlace
  <2>5. ~Crash(r)
    <3>1. crashes \in Nat
      <4>1. crashes \in 0..MaxCrash
        BY <2>1 DEF TypeOK
      <4> QED BY <4>1, BoundAssumption, SMT
    <3> QED BY <3>1, SMT DEF Crash
  <2>6. ~RelayStep(r)
    BY LeastNumber, QuietRelayLives DEF NumbersHaveLeast
  <2> QED BY <2>2, <2>3, <2>4, <2>5, <2>6 DEF Next
<1> QED BY <1>1, <1>2, <1>3, RelayInvariant, PTL DEF Spec, FaultNeedsChange, FaultyPlace
=============================================================================
