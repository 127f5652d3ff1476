------------------------ MODULE RelayDirectorySteps -------------------------
(***************************************************************************)
(* That the steps of one relay, none of which touches the contract, keep the*)
(* invariant of that relay, whatever state the contract and the other relays*)
(* are in.                                                                 *)
(***************************************************************************)
EXTENDS RelayDirectoryInvariants, TLAPS

(* Zenon is the default prover; leaves that need arithmetic, records or    *)
(* sequences cite SMT.                                                     *)
USE Zenon

\* Index 0 has no record.
LEMMA RecordZero ==
    ASSUME ContractInv
    PROVE  0 \in Index /\ relay[0] = NoRelay
  BY WidthAssumption, SMT DEF ContractInv, IndexOwnership, UnregisteredHoldNothing, Index

\* What the contract's types say of its counters.
LEMMA ContractNumbers ==
    ASSUME ContractInv
    PROVE  /\ CurrentCounter \in Nat /\ CurrentCounter >= 1
           /\ relayIndex \in Nat /\ relayIndex >= 1
           /\ relayIndex \in Index /\ CurrentCounter \in CounterValue
           /\ \A i \in Index : i \in Nat /\ relay[i] \in RelayRecord
           /\ \A a \in Addr : relayaddr[a] \in Index /\ relayaddr[a] < relayIndex
           /\ \A c \in CounterValue : c \in Nat
           /\ 0 \in CounterValue
  BY WidthAssumption, SMT
     DEF ContractInv, ContractTypeOK, CountersInStep, Index, CounterValue

\* A published key is a number, and none is 0.
LEMMA PublishedKeyType ==
    ASSUME RecordsAttributed, NEW i \in Index
    PROVE  PublishedKey(i) \in Nat
<1>1. AttributedBytes(i, relay[i].encryptedSRI)
  BY DEF RecordsAttributed
<1>2. CASE relay[i].encryptedSRI = EmptyBytes
  BY <1>2 DEF PublishedKey
<1>3. ASSUME NEW s \in SRI, relay[i].encryptedSRI = <<s>> PROVE PublishedKey(i) \in Nat
  <2>1. <<s>> # EmptyBytes /\ <<s>>[1] = s /\ s.key \in Nat
    BY BoundAssumption, SMT DEF EmptyBytes, SRI
  <2> QED BY <1>3, <2>1 DEF PublishedKey
<1> QED BY <1>1, <1>2, <1>3 DEF AttributedBytes

\* What the types say of a relay.
LEMMA RelayTypes ==
    ASSUME ContractInv, TypeOK, NEW q \in Relay
    PROVE  /\ q \in Addr
           /\ Counter[q] \in CounterValue /\ Counter[q] \in Nat
           /\ relaySet[q] \in SUBSET Index /\ todo[q] \in SUBSET Index
           /\ relaySet[q] \in SUBSET Nat /\ todo[q] \in SUBSET Nat
           /\ fetched[q] \in RelayRecord /\ fetched[q].counter \in Nat
           /\ onionKey[q] \in 1..MaxKey /\ onionKey[q] \in Nat
           /\ ri[q] \in [by : Relay, key : 0..MaxKey]
           /\ nime[q] \in SUBSET Entry /\ nimeCached[q] \in SUBSET Entry
           /\ mempool[q] \in Tx
<1>1. q \in Addr
  BY RelayAssumption
<1>2. /\ Counter[q] \in CounterValue
      /\ relaySet[q] \in SUBSET Index /\ todo[q] \in SUBSET Index
      /\ fetched[q] \in RelayRecord
      /\ onionKey[q] \in 1..MaxKey
      /\ ri[q] \in [by : Relay, key : 0..MaxKey]
      /\ nime[q] \in SUBSET Entry /\ nimeCached[q] \in SUBSET Entry
      /\ mempool[q] \in Tx
  BY DEF TypeOK
<1>3. Index \in SUBSET Nat /\ CounterValue \in SUBSET Nat
  BY WidthAssumption, SMT DEF Index, CounterValue
<1>4. fetched[q].counter \in CounterValue
  BY <1>2 DEF RelayRecord
<1>5. 1..MaxKey \in SUBSET Nat
  BY BoundAssumption, SMT
<1> QED BY <1>1, <1>2, <1>3, <1>4, <1>5

\* A pending transaction that is an upload has the parts of an upload.
LEMMA UploadType ==
    ASSUME NEW tx \in Tx, tx.call = "upload"
    PROVE  tx.up \in Upload
  BY SMT DEF Tx, NoTx

\* With the contract unchanged, what it says is unchanged.
LEMMA QuietViews ==
    ASSUME UNCHANGED contractVars
    PROVE  /\ \A i, s : Attributed(i, s)' = Attributed(i, s)
           /\ \A i, b : AttributedBytes(i, b)' = AttributedBytes(i, b)
           /\ \A i : PublishedKey(i)' = PublishedKey(i)
           /\ \A a : registered(a)' = registered(a)
           /\ UNCHANGED <<relay, relayaddr, relayIndex, CurrentCounter>>
<1>1. UNCHANGED <<relay, relayaddr, relayIndex, CurrentCounter>>
  BY DEF contractVars, setVars
<1> QED BY <1>1 DEF Attributed, AttributedBytes, PublishedKey, registered

\* Files that lose entries or change places stay attributed.
LEMMA FilesKept ==
    ASSUME UNCHANGED contractVars, NEW r \in Relay, FileInv(r),
           nime'[r] \cup nimeCached'[r] \subseteq nime[r] \cup nimeCached[r]
    PROVE  FileInv(r)'
  BY QuietViews DEF FileInv

\* Outside the download loop only the counter matters.
LEMMA ViewKept ==
    ASSUME UNCHANGED contractVars, NEW r \in Relay, ViewInv(r), Counter'[r] = Counter[r],
           pc'[r] \notin {"dl_sri", "dl_list"}
    PROVE  ViewInv(r)'
  BY QuietViews DEF ViewInv

\* A step that keeps key and descriptor, sends no upload and does not enter a
\* round or its later part in another way than the code does.
LEMMA StepKept ==
    ASSUME RelayInv, NEW r \in Relay, UNCHANGED contractVars,
           onionKey'[r] = onionKey[r], ri'[r] = ri[r],
           mempool'[r] = mempool[r] \/ mempool'[r].call = "register",
           ViewInv(r)', FileInv(r)',
           pc'[r] # "up_wait",
           pc'[r] \notin {"idle", "dead"} => pc[r] \notin {"idle", "dead"},
           pc'[r] \in PastFirstRead => pc[r] \in PastFirstRead \/ registered(r)
    PROVE  OneRelayInv(r)'
<1>0. DescriptorInv(r) /\ KeyInv(r) /\ RegisteredInv(r)
  BY DEF RelayInv, OneRelayInv
<1>1. DescriptorInv(r)'
  BY <1>0 DEF DescriptorInv
<1>2. KeyInv(r)'
  BY <1>0, QuietViews DEF KeyInv
<1>3. ReceiptInv(r)'
  BY DEF ReceiptInv
<1>4. RegisteredInv(r)'
  BY <1>0, QuietViews DEF RegisteredInv
<1> QED BY <1>1, <1>2, <1>3, <1>4 DEF OneRelayInv

\* A step that moves on, without a download, and leaves the files alone.
LEMMA MoveKept ==
    ASSUME RelayInv, NEW r \in Relay, UNCHANGED contractVars,
           onionKey'[r] = onionKey[r], ri'[r] = ri[r], Counter'[r] = Counter[r],
           nime'[r] = nime[r], nimeCached'[r] = nimeCached[r],
           mempool'[r] = mempool[r] \/ mempool'[r].call = "register",
           pc'[r] \notin {"up_wait", "dl_sri", "dl_list"},
           pc'[r] \notin {"idle", "dead"} => pc[r] \notin {"idle", "dead"},
           pc'[r] \in PastFirstRead => pc[r] \in PastFirstRead \/ registered(r)
    PROVE  OneRelayInv(r)'
<1>1. ViewInv(r)' /\ FileInv(r)'
  BY ViewKept, FilesKept DEF RelayInv, OneRelayInv
<1> QED BY <1>1, StepKept

-----------------------------------------------------------------------------
(* Faults and kills.                                                       *)

\* A process that dies leaves everything else.
LEMMA FaultInv ==
    ASSUME RelayInv, NEW r \in Relay, NEW from, Fault(r, from)
    PROVE  RelayKept(r)
<1>1. /\ TypeOK /\ pc' = [pc EXCEPT ![r] = "dead"]
      /\ UNCHANGED <<contractVars, processVars, fileVars, mempool, crashes>>
  BY DEF RelayInv, Fault, Go
<1>2. TypeOK'
  BY <1>1 DEF TypeOK, Place, processVars, fileVars
<1>3. LocalStep(r)
  BY <1>1 DEF LocalStep, SameProcess, SameData, processVars, fileVars, TypeOK
<1>4. pc'[r] = "dead"
  BY <1>1 DEF TypeOK
<1>5. OneRelayInv(r)'
  BY <1>1, <1>4, MoveKept DEF processVars, fileVars, PastFirstRead
<1> QED BY <1>2, <1>3, <1>5 DEF RelayKept

LEMMA CrashInv ==
    ASSUME RelayInv, NEW r \in Relay, Crash(r)
    PROVE  RelayKept(r)
<1>1. /\ TypeOK /\ pc' = [pc EXCEPT ![r] = "dead"] /\ crashes' = crashes + 1
      /\ UNCHANGED <<contractVars, processVars, fileVars, mempool>> /\ crashes < MaxCrash
  BY DEF RelayInv, Crash
<1>2. TypeOK'
  <2>1. crashes' \in 0..MaxCrash
    BY <1>1, BoundAssumption, SMT DEF TypeOK
  <2> QED BY <1>1, <2>1 DEF TypeOK, Place, processVars, fileVars
<1>3. LocalStep(r)
  BY <1>1 DEF LocalStep, SameProcess, SameData, processVars, fileVars, TypeOK
<1>4. pc'[r] = "dead"
  BY <1>1 DEF TypeOK
<1>5. OneRelayInv(r)'
  BY <1>1, <1>4, MoveKept DEF processVars, fileVars, PastFirstRead
<1> QED BY <1>2, <1>3, <1>5 DEF RelayKept

-----------------------------------------------------------------------------
(* A round, up to its first read.                                          *)

\* The steps of a round up to its first read.
LEMMA StartRoundInv ==
    ASSUME RelayInv, NEW r \in Relay, StartRound(r)
    PROVE  RelayKept(r)
<1>1. /\ TypeOK /\ pc[r] = "idle" /\ OneRelayInv(r)
      /\ ri' = [ri EXCEPT ![r] = FreshDescriptor(r)]
      /\ UNCHANGED <<contractVars, relay_is_registered, myIndex, Counter, relaySet, todo,
                     fetched, fileVars, mempool, crashes>>
  BY DEF RelayInv, StartRound, Go
<1>2. pc' = [pc EXCEPT ![r] = "dl_set"] \/ pc' = [pc EXCEPT ![r] = "check"]
  BY DEF StartRound, Go
<1>3. FreshDescriptor(r) \in [by : Relay, key : 0..MaxKey]
      /\ FreshDescriptor(r).by = r /\ FreshDescriptor(r).key = onionKey[r]
  <2>1. onionKey[r] \in 1..MaxKey
    BY <1>1 DEF TypeOK
  <2>2. onionKey[r] \in 0..MaxKey
    BY <2>1, BoundAssumption, SMT
  <2> QED BY <2>2 DEF FreshDescriptor
<1>4. /\ ri' \in [Relay -> [by : Relay, key : 0..MaxKey]] /\ ri'[r] = FreshDescriptor(r)
      /\ \A q \in Relay \ {r} : ri'[q] = ri[q] /\ pc'[q] = pc[q]
      /\ pc'[r] \in {"dl_set", "check"}
  BY <1>1, <1>2, <1>3 DEF TypeOK
<1>5. TypeOK'
  <2>1. pc' \in [Relay -> Place]
    BY <1>1, <1>2 DEF TypeOK, Place
  <2> QED BY <1>1, <1>4, <2>1, SMT DEF TypeOK, fileVars
<1>6. LocalStep(r)
  BY <1>1, <1>4 DEF LocalStep, SameProcess, SameData, fileVars
<1>7. OneRelayInv(r)'
  <2>1. ViewInv(r)' /\ FileInv(r)'
    BY <1>1, <1>4, ViewKept, FilesKept DEF OneRelayInv, fileVars
  <2>2. DescriptorInv(r)'
    BY <1>1, <1>3, <1>4 DEF DescriptorInv, fileVars
  <2>3. KeyInv(r)'
    BY <1>1, QuietViews DEF OneRelayInv, KeyInv, fileVars
  <2>4. ReceiptInv(r)' /\ RegisteredInv(r)'
    BY <1>4 DEF ReceiptInv, RegisteredInv, PastFirstRead
  <2> QED BY <2>1, <2>2, <2>3, <2>4 DEF OneRelayInv
<1> QED BY <1>5, <1>6, <1>7 DEF RelayKept

\* Steps between states before the first read, or back to idle.
Early == {"check", "send_register", "register", "recheck", "recheck_failed", "dl_set"}
EarlyStep(r) ==
    /\ pc[r] \in Early
    /\ \E to \in Early \cup {"idle"} : pc' = [pc EXCEPT ![r] = to]
    /\ \/ UNCHANGED mempool
       \/ mempool' = [mempool EXCEPT ![r] = [call |-> "register"]]
    /\ \/ UNCHANGED <<relay_is_registered, myIndex>>
       \/ /\ relay_is_registered' = [relay_is_registered EXCEPT ![r] = TRUE]
          /\ \E i \in Index \cup {-1} : myIndex' = [myIndex EXCEPT ![r] = i]
    /\ UNCHANGED <<contractVars, Counter, relaySet, todo, fetched, ri, fileVars, crashes>>

LEMMA EarlyStepInv ==
    ASSUME RelayInv, NEW r \in Relay, EarlyStep(r)
    PROVE  RelayKept(r)
<1>1. /\ TypeOK /\ pc[r] \in Early
      /\ UNCHANGED <<contractVars, Counter, relaySet, todo, fetched, ri, fileVars, crashes>>
  BY DEF RelayInv, EarlyStep
<1>2. PICK to \in Early \cup {"idle"} : pc' = [pc EXCEPT ![r] = to]
  BY DEF EarlyStep
<1>3. pc'[r] = to /\ \A q \in Relay \ {r} : pc'[q] = pc[q]
  BY <1>1, <1>2 DEF TypeOK
<1>4. /\ mempool' \in [Relay -> Tx]
      /\ \A q \in Relay \ {r} : mempool'[q] = mempool[q]
      /\ mempool'[r] = mempool[r] \/ mempool'[r].call = "register"
  <2>1. mempool \in [Relay -> Tx] /\ [call |-> "register"] \in Tx
    BY <1>1 DEF TypeOK, Tx
  <2>2. CASE UNCHANGED mempool
    BY <2>1, <2>2
  <2>3. CASE mempool' = [mempool EXCEPT ![r] = [call |-> "register"]]
    BY <2>1, <2>3
  <2> QED BY <2>2, <2>3 DEF EarlyStep
<1>5. relay_is_registered' \in [Relay -> BOOLEAN] /\ myIndex' \in [Relay -> Index \cup {-1}]
  <2>1. relay_is_registered \in [Relay -> BOOLEAN] /\ myIndex \in [Relay -> Index \cup {-1}]
    BY <1>1 DEF TypeOK
  <2>2. CASE UNCHANGED <<relay_is_registered, myIndex>>
    BY <2>1, <2>2
  <2>3. ASSUME relay_is_registered' = [relay_is_registered EXCEPT ![r] = TRUE],
               NEW i \in Index \cup {-1}, myIndex' = [myIndex EXCEPT ![r] = i]
        PROVE  /\ relay_is_registered' \in [Relay -> BOOLEAN]
               /\ myIndex' \in [Relay -> Index \cup {-1}]
    BY <2>1, <2>3
  <2> QED BY <2>2, <2>3 DEF EarlyStep
<1>6. pc' \in [Relay -> Place]
  <2>1. pc \in [Relay -> Place]
    BY <1>1 DEF TypeOK
  <2>2. to \in Place
    BY DEF Early, Place
  <2> QED BY <1>2, <2>1, <2>2
<1>7. TypeOK'
  BY <1>1, <1>3, <1>4, <1>5, <1>6 DEF TypeOK, fileVars, Early
<1>8. LocalStep(r)
  BY <1>1, <1>3, <1>4 DEF LocalStep, SameProcess, SameData, fileVars
<1>9. OneRelayInv(r)'
  BY <1>1, <1>3, <1>4, MoveKept DEF fileVars, PastFirstRead, Early
<1> QED BY <1>7, <1>8, <1>9 DEF RelayKept

LEMMA RegistrationInv ==
    ASSUME RelayInv, NEW r \in Relay,
           \/ CheckRegistration(r) \/ SendRegistration(r) \/ AwaitRegistration(r)
           \/ RecheckRegistration(r)
    PROVE  RelayKept(r)
<1>1. relay_registration_check(r) \in Index
  <2>1. r \in Addr /\ ContractInv
    BY RelayAssumption DEF RelayInv
  <2>2. relayaddr[r] \in Index /\ 0 \in Index
    BY <2>1, ContractNumbers, RecordZero
  <2> QED BY <2>2 DEF relay_registration_check
<1>2. CASE CheckRegistration(r)
  <2>1. EarlyStep(r)
    BY <1>1, <1>2 DEF CheckRegistration, Go, Registered, EarlyStep, Early, processVars
  <2> QED BY <2>1, EarlyStepInv
<1>3. CASE SendRegistration(r)
  <2>1. EarlyStep(r)
    BY <1>3 DEF SendRegistration, Send, Go, EarlyStep, Early, processVars
  <2> QED BY <2>1, EarlyStepInv
<1>4. CASE AwaitRegistration(r)
  <2>1. EarlyStep(r)
    BY <1>4 DEF AwaitRegistration, Go, EarlyStep, Early, processVars
  <2> QED BY <2>1, EarlyStepInv
<1>5. CASE RecheckRegistration(r)
  <2>1. EarlyStep(r)
    BY <1>1, <1>5 DEF RecheckRegistration, Go, Registered, EarlyStep, Early, processVars
  <2> QED BY <2>1, EarlyStepInv
<1> QED BY <1>2, <1>3, <1>4, <1>5

-----------------------------------------------------------------------------
(* The reads of relayGetSet, and the files.                                *)

\* The two reads of relayGetSet, at the start of the download and of the upload.
LEMMA GetIndexSetInv ==
    ASSUME RelayInv, NEW r \in Relay, NEW from, NEW to,
           GetIndexSet(r, from, to), from \notin {"idle", "dead"},
           to \in {"dl_counter", "up_counter"}
    PROVE  RelayKept(r)
<1>1. CASE Fault(r, from)
  BY <1>1, FaultInv
<1>2. CASE ~Fault(r, from)
  <2>1. /\ TypeOK /\ registered(r) /\ pc[r] = from /\ pc' = [pc EXCEPT ![r] = to]
        /\ relaySet' = [relaySet EXCEPT ![r] = IndexSet]
        /\ UNCHANGED <<contractVars, relay_is_registered, myIndex, Counter, todo, fetched, ri,
                       fileVars, mempool, crashes>>
    BY <1>2 DEF RelayInv, GetIndexSet, Go
  <2>2. IndexSet \subseteq Index
    <3>1. ContractInv
      BY DEF RelayInv
    <3>2. \A i \in 1..(relayIndex - 1) : i \in Index
      BY <3>1, ContractNumbers, WidthAssumption, SMT DEF Index
    <3> QED BY <3>2 DEF IndexSet
  <2>3. /\ relaySet' \in [Relay -> SUBSET Index]
        /\ \A q \in Relay \ {r} : relaySet'[q] = relaySet[q]
    BY <2>1, <2>2 DEF TypeOK
  <2>4. /\ pc' \in [Relay -> Place] /\ pc'[r] = to
        /\ \A q \in Relay \ {r} : pc'[q] = pc[q]
    BY <2>1 DEF TypeOK, Place
  <2>5. TypeOK'
    BY <2>1, <2>3, <2>4 DEF TypeOK, fileVars
  <2>6. LocalStep(r)
    BY <2>1, <2>3, <2>4 DEF LocalStep, SameProcess, SameData, fileVars
  <2>7. OneRelayInv(r)'
    BY <2>1, <2>4, MoveKept DEF fileVars
  <2> QED BY <2>5, <2>6, <2>7 DEF RelayKept
<1> QED BY <1>1, <1>2

LEMMA GetCurrentCounterInv ==
    ASSUME RelayInv, NEW r \in Relay, NEW from, NEW to,
           GetCurrentCounter(r, from, to),
           \/ from = "up_counter" /\ to = "up_send"
           \/ from = "dl_counter" /\ relaySet[r] = {} /\ to = "up_set"
           \/ from = "dl_counter" /\ relaySet[r] # {} /\ to = "dl_sri"
    PROVE  RelayKept(r)
<1>1. CASE Fault(r, from)
  BY <1>1, FaultInv
<1>2. CASE ~Fault(r, from)
  <2> DEFINE S == IF from = "dl_counter" THEN relaySet[r] ELSE {}
  <2>1. /\ TypeOK /\ registered(r) /\ pc[r] = from /\ pc' = [pc EXCEPT ![r] = to]
        /\ Counter' = [Counter EXCEPT ![r] = CurrentCounter]
        /\ todo' = [todo EXCEPT ![r] = S]
        /\ UNCHANGED <<contractVars, relay_is_registered, myIndex, relaySet, fetched, ri,
                       fileVars, mempool, crashes>>
    BY <1>2 DEF RelayInv, GetCurrentCounter, Go
  <2>2. /\ CurrentCounter \in CounterValue /\ CurrentCounter \in Nat
        /\ FileInv(r)
    BY ContractNumbers DEF RelayInv, OneRelayInv
  <2>3. S \subseteq relaySet[r] /\ S \subseteq Index /\ (to = "dl_sri" => S # {})
    BY <2>1 DEF TypeOK
  <2> HIDE DEF S
  <2>4. /\ Counter' \in [Relay -> CounterValue] /\ Counter'[r] = CurrentCounter
        /\ \A q \in Relay \ {r} : Counter'[q] = Counter[q]
    BY <2>1, <2>2 DEF TypeOK
  <2>5. /\ todo' \in [Relay -> SUBSET Index] /\ todo'[r] = S
        /\ \A q \in Relay \ {r} : todo'[q] = todo[q]
    BY <2>1, <2>3 DEF TypeOK
  <2>6. /\ pc' \in [Relay -> Place] /\ pc'[r] = to
        /\ \A q \in Relay \ {r} : pc'[q] = pc[q]
    BY <2>1 DEF TypeOK, Place
  <2>7. TypeOK'
    BY <2>1, <2>3, <2>4, <2>5, <2>6 DEF TypeOK, fileVars
  <2>8. LocalStep(r)
    BY <2>1, <2>4, <2>5, <2>6 DEF LocalStep, SameProcess, SameData, fileVars
  <2>9. ViewInv(r)'
    <3>1. CurrentCounter' = CurrentCounter
      BY <2>1, QuietViews
    <3>2. Counter'[r] <= CurrentCounter'
      BY <2>2, <2>4, <3>1, SMT
    <3>3. todo'[r] \subseteq relaySet'[r] /\ pc'[r] # "dl_list"
      BY <2>1, <2>3, <2>5, <2>6
    <3> QED BY <3>2, <3>3 DEF ViewInv
  <2>10. FileInv(r)'
    BY <2>1, <2>2, FilesKept DEF fileVars
  <2>11. OneRelayInv(r)'
    BY <2>1, <2>6, <2>9, <2>10, StepKept DEF fileVars
  <2> QED BY <2>7, <2>8, <2>11 DEF RelayKept
<1> QED BY <1>1, <1>2

\* The replacement of NIME.
LEMMA ReplaceNimeInv ==
    ASSUME RelayInv, NEW r \in Relay, RemoveNime(r) \/ RenameNime(r)
    PROVE  RelayKept(r)
<1>1. /\ TypeOK /\ ViewInv(r) /\ FileInv(r)
      /\ UNCHANGED <<contractVars, processVars, onionKey, mempool, crashes>>
  BY DEF RelayInv, OneRelayInv, RemoveNime, RenameNime
<1>2. /\ pc' \in [Relay -> Place] /\ pc'[r] \in {"rename", "up_set"}
      /\ pc[r] \in {"remove", "rename"}
      /\ \A q \in Relay \ {r} : pc'[q] = pc[q]
  BY <1>1, ZenonT(40) DEF TypeOK, Place, Go, RemoveNime, RenameNime
<1>3. /\ nime \in [Relay -> SUBSET Entry] /\ nimeCached \in [Relay -> SUBSET Entry]
      /\ NoFile \in SUBSET Entry /\ NoFile = {}
  BY <1>1 DEF TypeOK, NoFile
<1>4. /\ nime' \in [Relay -> SUBSET Entry] /\ nimeCached' \in [Relay -> SUBSET Entry]
      /\ \A q \in Relay \ {r} : nime'[q] = nime[q] /\ nimeCached'[q] = nimeCached[q]
      /\ nime'[r] \cup nimeCached'[r] \subseteq nime[r] \cup nimeCached[r]
  <2>1. CASE RemoveNime(r)
    BY <1>3, <2>1 DEF RemoveNime
  <2>2. CASE RenameNime(r)
    BY <1>3, <2>2 DEF RenameNime
  <2> QED BY <2>1, <2>2
<1>5. TypeOK'
  BY <1>1, <1>2, <1>4 DEF TypeOK, processVars
<1>6. LocalStep(r)
  BY <1>1, <1>2, <1>4 DEF LocalStep, SameProcess, SameData, processVars
<1>7. ViewInv(r)' /\ FileInv(r)'
  BY <1>1, <1>2, <1>4, ViewKept, FilesKept DEF processVars
<1>8. OneRelayInv(r)'
  BY <1>1, <1>2, <1>7, StepKept DEF processVars, PastFirstRead
<1> QED BY <1>5, <1>6, <1>8 DEF RelayKept

-----------------------------------------------------------------------------
(* The end of a round, and what happens between rounds.                    *)

\* A step that ends a round.
LEMMA EndOfRound ==
    ASSUME RelayInv, NEW r \in Relay, NEW from,
           Go(r, from, "idle"), from \notin {"idle", "dead"},
           UNCHANGED <<contractVars, processVars, fileVars, mempool, crashes>>
    PROVE  RelayKept(r)
<1>1. TypeOK /\ pc' = [pc EXCEPT ![r] = "idle"] /\ pc[r] = from
  BY DEF RelayInv, Go
<1>2. TypeOK'
  BY <1>1 DEF TypeOK, Place, processVars, fileVars
<1>3. LocalStep(r)
  BY <1>1 DEF LocalStep, SameProcess, SameData, processVars, fileVars, TypeOK
<1>4. pc'[r] = "idle"
  BY <1>1 DEF TypeOK
<1>5. OneRelayInv(r)'
  BY <1>1, <1>4, MoveKept DEF processVars, fileVars, PastFirstRead
<1> QED BY <1>2, <1>3, <1>5 DEF RelayKept

LEMMA UploadSRIInv ==
    ASSUME RelayInv, NEW r \in Relay, UploadSRI(r)
    PROVE  RelayKept(r)
<1> DEFINE up == [counter |-> Counter[r], Hdr |-> <<[receivers |-> relaySet[r]]>>,
                  encryptedSRI |-> <<ri[r]>>, NSD |-> <<sha256(ri[r])>>]
           tx == [call |-> "upload", up |-> up]
<1>1. CASE Fault(r, "up_send")
  BY <1>1, FaultInv
<1>2. CASE /\ Go(r, "up_send", "idle") /\ UNCHANGED mempool
           /\ UNCHANGED <<contractVars, processVars, fileVars, crashes>>
  BY <1>2, EndOfRound
<1>3. CASE /\ mempool' = [mempool EXCEPT ![r] = tx] /\ Go(r, "up_send", "up_wait")
           /\ UNCHANGED <<contractVars, processVars, fileVars, crashes>>
  <2>1. /\ TypeOK /\ ContractInv /\ RecordsAttributed /\ OneRelayInv(r)
        /\ pc[r] = "up_send" /\ pc' = [pc EXCEPT ![r] = "up_wait"]
    BY <1>3 DEF RelayInv, Go
  <2>2. PICK s \in SRI : s = ri[r] /\ s.by = r /\ s.key = onionKey[r]
    <3>1. ri[r].by = r /\ ri[r].key = onionKey[r]
      BY <2>1 DEF OneRelayInv, DescriptorInv
    <3>2. ri[r] \in [by : Relay, key : 0..MaxKey] /\ onionKey[r] \in 1..MaxKey
      BY <2>1, RelayTypes
    <3>3. ri[r] = [by |-> r, key |-> onionKey[r]]
      BY <3>1, <3>2
    <3>4. [by |-> r, key |-> onionKey[r]] \in SRI
      BY <3>2 DEF SRI
    <3> QED BY <3>1, <3>3, <3>4
  <2>3. up \in Upload
    <3>1. Counter[r] \in CounterValue /\ relaySet[r] \in SUBSET Index
      BY <2>1, RelayTypes
    <3> QED BY <2>2, <3>1 DEF Upload
  <2>4. up.encryptedSRI = <<s>> /\ up.counter = Counter[r] /\ tx.call = "upload" /\ tx.up = up
    BY <2>2
  <2> HIDE DEF up
  <2>5. tx \in Tx
    BY <2>3 DEF Tx
  <2> HIDE DEF tx
  <2>6. /\ mempool' \in [Relay -> Tx] /\ mempool'[r] = tx
        /\ \A q \in Relay \ {r} : mempool'[q] = mempool[q]
    BY <1>3, <2>1, <2>5 DEF TypeOK
  <2>7. /\ pc' \in [Relay -> Place] /\ pc'[r] = "up_wait"
        /\ \A q \in Relay \ {r} : pc'[q] = pc[q]
    BY <2>1 DEF TypeOK, Place
  <2>8. TypeOK'
    BY <1>3, <2>1, <2>6, <2>7 DEF TypeOK, processVars, fileVars
  <2>9. LocalStep(r)
    BY <1>3, <2>6, <2>7 DEF LocalStep, SameProcess, SameData, processVars, fileVars
  <2>10. ViewInv(r)' /\ FileInv(r)'
    BY <1>3, <2>1, <2>7, ViewKept, FilesKept DEF OneRelayInv, processVars, fileVars
  <2>11. DescriptorInv(r)'
    BY <1>3, <2>1 DEF OneRelayInv, DescriptorInv, processVars, fileVars
  <2>12. KeyInv(r)'
    <3>1. PublishedKey(relayaddr[r]) <= onionKey[r]
      BY <2>1 DEF OneRelayInv, KeyInv
    <3>2. onionKey'[r] = onionKey[r] /\ s.key <= s.key
      BY <1>3, BoundAssumption, SMT DEF fileVars, SRI
    <3>3. PublishedKey(relayaddr[r])' = PublishedKey(relayaddr[r])
      BY <1>3, QuietViews
    <3> QED BY <2>2, <2>4, <2>6, <3>1, <3>2, <3>3 DEF KeyInv
  <2>13. ReceiptInv(r)'
    BY <1>3, <2>2, <2>4, <2>6 DEF ReceiptInv, processVars
  <2>14. RegisteredInv(r)'
    BY <1>3, <2>1, QuietViews DEF OneRelayInv, RegisteredInv, PastFirstRead
  <2>15. OneRelayInv(r)'
    BY <2>10, <2>11, <2>12, <2>13, <2>14 DEF OneRelayInv
  <2> QED BY <2>8, <2>9, <2>15 DEF RelayKept
<1> QED BY <1>1, <1>2, <1>3 DEF UploadSRI, Send

LEMMA AwaitUploadInv ==
    ASSUME RelayInv, NEW r \in Relay, AwaitUpload(r)
    PROVE  RelayKept(r)
  BY EndOfRound DEF AwaitUpload

\* A new onion key, only between rounds.
LEMMA RotateInv ==
    ASSUME RelayInv, NEW r \in Relay, RotateOnionKey(r)
    PROVE  RelayKept(r)
<1>1. /\ TypeOK /\ ContractInv /\ RecordsAttributed /\ OneRelayInv(r) /\ pc[r] = "idle"
      /\ UNCHANGED <<contractVars, pc, processVars, nimeCached, nime, mempool, crashes>>
  BY DEF RelayInv, RotateOnionKey
<1>2. PICK k \in Nat : k = onionKey[r] /\ k + 1 \in 1..MaxKey
  <2>1. onionKey[r] \in Nat /\ onionKey[r] < MaxKey /\ MaxKey \in Nat
    BY <1>1, RelayTypes, BoundAssumption DEF RotateOnionKey
  <2> QED BY <2>1, SMT
<1>3. /\ onionKey' \in [Relay -> 1..MaxKey] /\ onionKey'[r] = k + 1
      /\ \A q \in Relay \ {r} : onionKey'[q] = onionKey[q]
  BY <1>1, <1>2 DEF TypeOK, RotateOnionKey
<1>4. TypeOK'
  BY <1>1, <1>3 DEF TypeOK, processVars
<1>5. LocalStep(r)
  BY <1>1, <1>3 DEF LocalStep, SameProcess, SameData, processVars
<1>6. ViewInv(r)' /\ FileInv(r)'
  BY <1>1, ViewKept, FilesKept DEF OneRelayInv, processVars
<1>7. DescriptorInv(r)' /\ ReceiptInv(r)' /\ RegisteredInv(r)'
  BY <1>1 DEF OneRelayInv, DescriptorInv, ReceiptInv, RegisteredInv, PastFirstRead, processVars
<1>8. KeyInv(r)'
  <2>1. PICK p \in Nat : p = PublishedKey(relayaddr[r])
    <3>1. relayaddr[r] \in Index
      BY <1>1, RelayTypes, ContractNumbers
    <3> QED BY <1>1, <3>1, PublishedKeyType
  <2>2. p <= k
    BY <1>1, <1>2, <2>1 DEF OneRelayInv, KeyInv
  <2>3. p = PublishedKey(relayaddr[r])' /\ mempool' = mempool
    BY <1>1, <2>1, QuietViews
  <2>4. p <= k + 1
    BY <2>2, SMT
  <2>5. ASSUME mempool[r].call = "upload"
        PROVE  \E s \in SRI : /\ mempool[r].up.encryptedSRI = <<s>> /\ s.by = r
                              /\ p <= s.key /\ s.key <= k + 1
    <3>1. PICK s \in SRI : /\ mempool[r].up.encryptedSRI = <<s>> /\ s.by = r
                           /\ p <= s.key /\ s.key <= k
      BY <1>1, <1>2, <2>1, <2>5 DEF OneRelayInv, KeyInv
    <3>2. s.key \in Nat
      BY BoundAssumption, SMT DEF SRI
    <3>3. s.key <= k + 1
      BY <3>1, <3>2, SMT
    <3> QED BY <3>1, <3>3
  <2> QED BY <1>3, <2>3, <2>4, <2>5 DEF KeyInv
<1>9. OneRelayInv(r)'
  BY <1>6, <1>7, <1>8 DEF OneRelayInv
<1> QED BY <1>4, <1>5, <1>9 DEF RelayKept

LEMMA RestartInv ==
    ASSUME RelayInv, NEW r \in Relay, Restart(r)
    PROVE  RelayKept(r)
<1>1. /\ TypeOK /\ ContractInv /\ OneRelayInv(r) /\ pc[r] = "dead"
      /\ UNCHANGED <<contractVars, fileVars, mempool, crashes>>
  BY DEF RelayInv, Restart, Go
<1>2. /\ pc' \in [Relay -> Place] /\ pc'[r] = "idle"
      /\ \A q \in Relay \ {r} : pc'[q] = pc[q]
  BY <1>1 DEF TypeOK, Place, Go, Restart
<1>3. /\ relay_is_registered' \in [Relay -> BOOLEAN]
      /\ myIndex' \in [Relay -> Index \cup {-1}]
  <2>1. 0 \in Index
    BY <1>1, RecordZero
  <2> QED BY <1>1, <2>1 DEF TypeOK, Restart
<1>4. /\ Counter' \in [Relay -> CounterValue] /\ Counter'[r] = 1
      /\ \A q \in Relay \ {r} : Counter'[q] = Counter[q]
  <2>1. 1 \in CounterValue
    BY WidthAssumption, SMT DEF CounterValue
  <2> QED BY <1>1, <2>1 DEF TypeOK, Restart
<1>5. /\ relaySet' \in [Relay -> SUBSET Index] /\ todo' \in [Relay -> SUBSET Index]
      /\ \A q \in Relay \ {r} : relaySet'[q] = relaySet[q] /\ todo'[q] = todo[q]
  BY <1>1 DEF TypeOK, Restart
<1>6. /\ fetched' \in [Relay -> RelayRecord] /\ \A q \in Relay \ {r} : fetched'[q] = fetched[q]
  <2>1. NoRelay \in RelayRecord
    BY <1>1, RecordZero, ContractNumbers
  <2> QED BY <1>1, <2>1 DEF TypeOK, Restart
<1>7. /\ ri' \in [Relay -> [by : Relay, key : 0..MaxKey]] /\ ri'[r].by = r
      /\ \A q \in Relay \ {r} : ri'[q] = ri[q]
  <2>1. ri \in [Relay -> [by : Relay, key : 0..MaxKey]]
    BY <1>1 DEF TypeOK
  <2>2. ri[r].by = r
    BY <1>1 DEF OneRelayInv, DescriptorInv
  <2>3. 0 \in 0..MaxKey
    BY BoundAssumption, SMT
  <2>4. ri' = [ri EXCEPT ![r].key = 0]
    BY DEF Restart
  <2> QED BY <2>1, <2>2, <2>3, <2>4, SMT
<1>8. TypeOK'
  <2>1. \A q \in Relay : /\ pc'[q] \in {"dl_sri", "dl_list"} => todo'[q] # {}
                         /\ pc'[q] = "dl_list" => fetched'[q] # NoRelay
    <3>1. \A q \in Relay : /\ pc[q] \in {"dl_sri", "dl_list"} => todo[q] # {}
                           /\ pc[q] = "dl_list" => fetched[q] # NoRelay
      BY <1>1 DEF TypeOK
    <3> QED BY <1>2, <1>5, <1>6, <3>1
  <2> QED BY <1>1, <1>2, <1>3, <1>4, <1>5, <1>6, <1>7, <2>1 DEF TypeOK, fileVars
<1>9. LocalStep(r)
  BY <1>1, <1>2, <1>4, <1>5, <1>6, <1>7 DEF LocalStep, SameProcess, SameData, fileVars
<1>10. OneRelayInv(r)'
  <2>1. ViewInv(r)'
    <3>1. 1 <= CurrentCounter'
      BY <1>1, QuietViews, ContractNumbers
    <3> QED BY <1>2, <1>4, <3>1 DEF ViewInv
  <2>2. FileInv(r)'
    BY <1>1, FilesKept DEF OneRelayInv, fileVars
  <2>3. DescriptorInv(r)' /\ ReceiptInv(r)' /\ RegisteredInv(r)'
    BY <1>2, <1>7 DEF DescriptorInv, ReceiptInv, RegisteredInv, PastFirstRead
  <2>4. KeyInv(r)'
    BY <1>1, QuietViews DEF OneRelayInv, KeyInv, fileVars
  <2> QED BY <2>1, <2>2, <2>3, <2>4 DEF OneRelayInv
<1> QED BY <1>8, <1>9, <1>10 DEF RelayKept

-----------------------------------------------------------------------------
(* The download loop, which visits the indices in ascending order.         *)

\* Sets of numbers have least elements.
NumbersHaveLeast == \A S \in SUBSET Nat : S # {} => \E n \in S : \A k \in S : n <= k

\* The next index to download is one of those to do.
LEMMA NextToDo ==
    ASSUME NumbersHaveLeast, RelayInv, NEW r \in Relay, pc[r] \in {"dl_sri", "dl_list"}
    PROVE  /\ NextID(r) \in todo[r] /\ NextID(r) \in Index
           /\ todo[r] \subseteq relaySet[r] /\ relaySet[r] \subseteq Index
<1>1. todo[r] # {} /\ todo[r] \subseteq Nat /\ todo[r] \subseteq Index
      /\ relaySet[r] \subseteq Index /\ todo[r] \subseteq relaySet[r]
  <2>1. todo[r] # {}
    BY DEF RelayInv, TypeOK
  <2>2. /\ todo[r] \in SUBSET Index /\ todo[r] \in SUBSET Nat
        /\ relaySet[r] \in SUBSET Index
    BY RelayTypes DEF RelayInv
  <2>3. todo[r] \subseteq relaySet[r]
    BY DEF RelayInv, OneRelayInv, ViewInv
  <2> QED BY <2>1, <2>2, <2>3
<1>2. \E i \in todo[r] : \A j \in todo[r] : i <= j
  BY <1>1 DEF NumbersHaveLeast
<1>3. Smallest(todo[r]) \in todo[r]
  BY <1>2 DEF Smallest
<1> QED BY <1>1, <1>3 DEF NextID

\* A pass of the download loop ends.
LEMMA DecryptInv ==
    ASSUME NumbersHaveLeast, RelayInv, NEW r \in Relay, NEW from \in {"dl_sri", "dl_list"}, NEW S, NEW rec,
           AttributedBytes(NextID(r), rec.encryptedSRI), Decrypt(r, from, S, rec)
    PROVE  RelayKept(r)
<1>1. /\ TypeOK /\ pc[r] = from /\ ViewInv(r) /\ FileInv(r)
      /\ todo' = [todo EXCEPT ![r] = @ \ {NextID(r)}]
      /\ fetched' = [fetched EXCEPT ![r] = NoRelay]
      /\ UNCHANGED <<contractVars, relay_is_registered, myIndex, Counter, relaySet, ri,
                     onionKey, nime, mempool, crashes>>
  BY DEF RelayInv, OneRelayInv, Decrypt, Go
<1>2. PICK to \in {"dl_sri", "remove", "up_set"} :
         pc' = [pc EXCEPT ![r] = to] /\ (to = "dl_sri" => ~FileEnd(r))
  BY DEF Decrypt, Go
<1>3. NextID(r) \in todo[r] /\ NextID(r) \in Index /\ todo[r] \subseteq relaySet[r]
  BY <1>1, NextToDo
<1>4. /\ nimeCached' \in [Relay -> SUBSET Entry]
      /\ \A q \in Relay \ {r} : nimeCached'[q] = nimeCached[q]
      /\ \A e \in nimeCached'[r] \ nimeCached[r] : Attributed(e.index, e.sri)
  <2>1. nimeCached \in [Relay -> SUBSET Entry]
    BY <1>1 DEF TypeOK
  <2>2. CASE nimeCached' = nimeCached
    BY <2>1, <2>2
  <2>3. CASE /\ rec.encryptedSRI # EmptyBytes
             /\ nimeCached' = [nimeCached EXCEPT ![r] = @ \cup {NimeEntry(r, rec)}]
    <3>1. PICK s \in SRI : rec.encryptedSRI = <<s>> /\ Attributed(NextID(r), s)
      BY <2>3 DEF AttributedBytes
    <3>2. PICK e : e = NimeEntry(r, rec)
      OBVIOUS
    <3>3. e = [index |-> NextID(r), sri |-> s]
      <4>1. rec.encryptedSRI[1] = s
        BY <3>1, SMT
      <4> QED BY <3>2, <4>1 DEF NimeEntry
    <3>4. e \in Entry /\ Attributed(e.index, e.sri)
      BY <1>3, <3>1, <3>3 DEF Entry
    <3>5. nimeCached' = [nimeCached EXCEPT ![r] = @ \cup {e}]
      BY <2>3, <3>2
    <3>6. nimeCached'[r] \ nimeCached[r] \subseteq {e}
      BY <2>1, <3>5
    <3> QED BY <2>1, <3>4, <3>5, <3>6
  <2> QED BY <2>2, <2>3 DEF Decrypt
<1>5. /\ todo' \in [Relay -> SUBSET Index] /\ todo'[r] = todo[r] \ {NextID(r)}
      /\ \A q \in Relay \ {r} : todo'[q] = todo[q]
  BY <1>1 DEF TypeOK
<1>6. /\ fetched' \in [Relay -> RelayRecord] /\ \A q \in Relay \ {r} : fetched'[q] = fetched[q]
  <2>1. NoRelay \in RelayRecord
    BY RecordZero, ContractNumbers DEF RelayInv
  <2> QED BY <1>1, <2>1 DEF TypeOK
<1>7. /\ pc' \in [Relay -> Place] /\ pc'[r] = to
      /\ \A q \in Relay \ {r} : pc'[q] = pc[q]
  BY <1>1, <1>2 DEF TypeOK, Place
<1>8. to = "dl_sri" => todo'[r] # {}
  BY <1>2, <1>3, <1>5 DEF FileEnd
<1>9. TypeOK'
  BY <1>1, <1>4, <1>5, <1>6, <1>7, <1>8, SMT DEF TypeOK
<1>10. LocalStep(r)
  BY <1>1, <1>4, <1>5, <1>6, <1>7 DEF LocalStep, SameProcess, SameData
<1>11. ViewInv(r)'
  <2>1. CurrentCounter' = CurrentCounter
    BY <1>1, QuietViews
  <2> QED BY <1>1, <1>3, <1>5, <1>7, <2>1 DEF ViewInv
<1>12. FileInv(r)'
  <2>1. ASSUME NEW e \in nime'[r] \cup nimeCached'[r] PROVE Attributed(e.index, e.sri)'
    <3>1. Attributed(e.index, e.sri)
      BY <1>1, <1>4 DEF FileInv
    <3> QED BY <1>1, <3>1, QuietViews
  <2> QED BY <2>1 DEF FileInv
<1>13. OneRelayInv(r)'
  BY <1>1, <1>7, <1>11, <1>12, StepKept DEF PastFirstRead
<1> QED BY <1>9, <1>10, <1>13 DEF RelayKept

LEMMA DownloadSRIInv ==
    ASSUME NumbersHaveLeast, RelayInv, NEW r \in Relay, DownloadSRI(r)
    PROVE  RelayKept(r)
<1> DEFINE rec == relay[NextID(r)]
<1>1. /\ TypeOK /\ pc[r] = "dl_sri" /\ ViewInv(r) /\ FileInv(r)
  BY DEF RelayInv, OneRelayInv, DownloadSRI
<1>2. NextID(r) \in todo[r] /\ NextID(r) \in Index /\ todo[r] \subseteq relaySet[r]
  BY <1>1, NextToDo
<1>3. rec \in RelayRecord /\ AttributedBytes(NextID(r), rec.encryptedSRI)
  BY <1>2, ContractNumbers DEF RelayInv, RecordsAttributed
<1>4. CASE Fault(r, "dl_sri")
  BY <1>4, FaultInv
<1>5. CASE Decrypt(r, "dl_sri", relaySet[r], rec)
  BY <1>3, <1>5, DecryptInv
<1>6. CASE /\ rec.healthflag /\ Outdated(r, rec)
           /\ Go(r, "dl_sri", "dl_list")
           /\ fetched' = [fetched EXCEPT ![r] = rec]
           /\ UNCHANGED <<contractVars, relay_is_registered, myIndex, Counter, relaySet,
                          todo, ri, fileVars, mempool, crashes>>
  <2> HIDE DEF rec
  <2>1. /\ fetched' \in [Relay -> RelayRecord] /\ fetched'[r] = rec
        /\ \A q \in Relay \ {r} : fetched'[q] = fetched[q]
    BY <1>1, <1>3, <1>6 DEF TypeOK
  <2>2. /\ pc' \in [Relay -> Place] /\ pc'[r] = "dl_list"
        /\ \A q \in Relay \ {r} : pc'[q] = pc[q]
    BY <1>1, <1>6 DEF TypeOK, Place, Go
  <2>3. rec # NoRelay
    BY <1>6, SMT DEF NoRelay
  <2>4. TypeOK'
    BY <1>1, <1>6, <2>1, <2>2, <2>3, SMT DEF TypeOK, fileVars
  <2>5. LocalStep(r)
    BY <1>6, <2>1, <2>2 DEF LocalStep, SameProcess, SameData, fileVars
  <2>6. ViewInv(r)'
    <3>1. CurrentCounter' = CurrentCounter /\ NextID(r)' = NextID(r)
      BY <1>6, QuietViews DEF NextID
    <3>2. AttributedBytes(NextID(r), fetched[r].encryptedSRI)'
      <4>1. PICK i, b : i = NextID(r) /\ b = rec.encryptedSRI /\ AttributedBytes(i, b)
        BY <1>3
      <4>2. AttributedBytes(i, b)'
        BY <1>6, <4>1, QuietViews
      <4> QED BY <2>1, <3>1, <4>1, <4>2 DEF AttributedBytes
    <3> QED BY <1>1, <1>2, <1>6, <2>1, <2>2, <3>1, <3>2 DEF ViewInv, Outdated
  <2>7. FileInv(r)'
    BY <1>1, <1>6, FilesKept DEF fileVars
  <2>8. OneRelayInv(r)'
    BY <1>1, <1>6, <2>2, <2>6, <2>7, StepKept DEF fileVars, PastFirstRead
  <2> QED BY <2>4, <2>5, <2>8 DEF RelayKept
<1> QED BY <1>4, <1>5, <1>6 DEF DownloadSRI, relay_download_SRI_allowed

LEMMA DownloadCounterListInv ==
    ASSUME NumbersHaveLeast, RelayInv, NEW r \in Relay, DownloadCounterList(r)
    PROVE  RelayKept(r)
<1>1. pc[r] = "dl_list" /\ ViewInv(r)
  BY DEF RelayInv, OneRelayInv, DownloadCounterList
<1>2. CASE Fault(r, "dl_list")
  BY <1>2, FaultInv
<1>3. ASSUME NEW S, Decrypt(r, "dl_list", S, fetched[r]) PROVE RelayKept(r)
  <2>1. AttributedBytes(NextID(r), fetched[r].encryptedSRI)
    BY <1>1 DEF ViewInv
  <2> QED BY <1>3, <2>1, DecryptInv
<1> QED BY <1>2, <1>3 DEF DownloadCounterList

-----------------------------------------------------------------------------
(* Every step of a relay.                                                  *)

LEMMA RelayStepInv ==
    ASSUME NumbersHaveLeast, RelayInv, NEW r \in Relay,
           RelayStep(r) \/ RotateOnionKey(r) \/ Crash(r)
    PROVE  RelayKept(r)
<1>1. CASE GetIndexSet(r, "dl_set", "dl_counter") \/ GetIndexSet(r, "up_set", "up_counter")
  BY <1>1, GetIndexSetInv
<1>2. CASE GetCurrentCounter(r, "dl_counter", IF relaySet[r] = {} THEN "up_set" ELSE "dl_sri")
  <2>1. CASE relaySet[r] = {}
    <3>1. GetCurrentCounter(r, "dl_counter", "up_set")
      BY <1>2, <2>1
    <3> QED BY <2>1, <3>1, GetCurrentCounterInv
  <2>2. CASE relaySet[r] # {}
    <3>1. GetCurrentCounter(r, "dl_counter", "dl_sri")
      BY <1>2, <2>2
    <3> QED BY <2>2, <3>1, GetCurrentCounterInv
  <2> QED BY <2>1, <2>2
<1>3. CASE GetCurrentCounter(r, "up_counter", "up_send")
  BY <1>3, GetCurrentCounterInv
<1>4. CASE StartRound(r) \/ Restart(r) \/ AwaitUpload(r) \/ UploadSRI(r)
  BY <1>4, StartRoundInv, RestartInv, AwaitUploadInv, UploadSRIInv
<1>5. CASE \/ CheckRegistration(r) \/ SendRegistration(r)
           \/ AwaitRegistration(r) \/ RecheckRegistration(r)
  BY <1>5, RegistrationInv
<1>6. CASE DownloadSRI(r) \/ DownloadCounterList(r)
  BY <1>6, DownloadSRIInv, DownloadCounterListInv
<1>7. CASE RemoveNime(r) \/ RenameNime(r)
  BY <1>7, ReplaceNimeInv
<1>8. CASE RotateOnionKey(r) \/ Crash(r)
  BY <1>8, RotateInv, CrashInv
<1> QED BY <1>1, <1>2, <1>3, <1>4, <1>5, <1>6, <1>7, <1>8 DEF RelayStep

-----------------------------------------------------------------------------
(* A quiet network.                                                        *)

\* The encryption has room for every relay that can register, and for index 0;
\* in the code a uint8 counts the registrations and max_relay_number is 1000.
RoomForAll ==
    /\ KEM!EncryptionDefined(1..(MaxCounter - 1))
    /\ \A S \in SUBSET (1..(MaxCounter - 1)), i \in {0} \cup 1..(MaxCounter - 1) :
          KEM!DerivationDefined(S, i)

\* The index a relay was given is one that was handed out, or 0, or -1.
MyIndexBelow == \A r \in Relay : myIndex[r] < relayIndex

\* The counter stops at its bound.
CounterBound == CurrentCounter <= MaxCounter \/ CurrentCounter = 1

\* In a quiet network every index handed out is a healthy relay's, within the
\* bounds of the encryption, and the relay is still registered.
LEMMA QuietNetwork ==
    ASSUME RoomForAll, RelayInv, CounterBound, MyIndexBelow, NEW r \in Relay, Quiet(r),
           pc[r] \in PastFirstRead
    PROVE  /\ registered(r)
           /\ relaySet[r] = 1..(relayIndex - 1)
           /\ \A i \in relaySet[r] : i < relayIndex /\ relay[i].healthflag
           /\ KEM!EncryptionDefined(relaySet[r])
           /\ \A S \in SUBSET relaySet[r] : KEM!DerivationDefined(S, myIndex[r])
<1>0. /\ relayIndex \in Nat /\ CurrentCounter \in Nat /\ relayIndex <= CurrentCounter
      /\ MaxCounter \in Nat /\ ContractInv
  BY ContractNumbers, WidthAssumption DEF RelayInv, ContractInv, CountersInStep
<1>1. relaySet[r] = IndexSet /\ IndexSet = {i \in Index : relay[i].healthflag}
  BY DEF Quiet
<1>2. IndexSet = 1..(relayIndex - 1)
  <2>1. Range(unhealthyRelaySet) = {}
    BY DEF RelayInv, HistoryInv, Quiet
  <2> QED BY <2>1 DEF IndexSet
<1>3. \A i \in 1..(relayIndex - 1) : relay[i].healthflag /\ i \in Index /\ relay[i].registered
  BY <1>0, <1>1, <1>2 DEF ContractInv, HealthyAreAddressed
<1>4. registered(r)
  BY <1>3 DEF RelayInv, OneRelayInv, RegisteredInv
<1>5. \A i \in 1..(relayIndex - 1) : i < relayIndex
  BY <1>0, SMT
<1>6. KEM!EncryptionDefined(relaySet[r])
  <2>1. 1..(relayIndex - 1) \subseteq 1..(MaxCounter - 1)
    BY <1>0, SMT DEF CounterBound
  <2> QED BY <1>1, <1>2, <2>1 DEF KEM!EncryptionDefined, RoomForAll
<1>7. \A S \in SUBSET relaySet[r] : KEM!DerivationDefined(S, myIndex[r])
  <2>1. SUBSET (1..(relayIndex - 1)) \subseteq SUBSET (1..(MaxCounter - 1))
    BY <1>0, SMT DEF CounterBound
  <2>2. myIndex[r] \in Int
    <3>1. myIndex[r] \in Index \cup {-1}
      BY DEF RelayInv, TypeOK
    <3> QED BY <3>1, WidthAssumption, SMT DEF Index
  <2>3. myIndex[r] >= 0 /\ myIndex[r] < relayIndex
    BY DEF Quiet, MyIndexBelow
  <2>4. myIndex[r] \in {0} \cup 1..(MaxCounter - 1)
    BY <1>0, <2>2, <2>3, SMT DEF CounterBound
  <2> QED BY <1>1, <1>2, <2>1, <2>4 DEF RoomForAll
<1> QED BY <1>1, <1>2, <1>3, <1>4, <1>5, <1>6, <1>7

\* And the history holds nothing that relayGetCounterList cannot apply.
LEMMA QuietHistory ==
    ASSUME RelayInv, NEW r \in Relay, Quiet(r), NEW c \in Nat
    PROVE  Changed(c, FALSE) = {} /\ Changed(c, TRUE) \subseteq 1..(relayIndex - 1)
<1>1. CounterList[0] = <<>> /\ Range(<<>>) = {} /\ CurrentCounter \in Nat
  <2>1. Range(<<>>) = {}
    BY SMT DEF Range
  <2> QED BY <2>1, ContractNumbers DEF RelayInv, HistoryInv
<1>2. ASSUME NEW b PROVE Changed(c, b) \subseteq Changed(1, b)
  <2> SUFFICES ASSUME NEW j \in c..(CurrentCounter - 1), CounterOP[j] = b,
                      NEW i \in Range(CounterList[j])
               PROVE  i \in Changed(1, b)
    BY DEF Changed
  <2>1. j # 0
    BY <1>1
  <2>2. j \in 1..(CurrentCounter - 1)
    BY <1>1, <2>1, SMT
  <2> QED BY <2>2 DEF Changed
<1>3. Changed(1, FALSE) = {} /\ Changed(1, TRUE) \subseteq 1..(relayIndex - 1)
  BY DEF Quiet, RelayInv, HistoryInv
<1> QED BY <1>2, <1>3

\* A relay in a quiet network dies only when it is killed: none of its own steps
\* from these places on ends the process.
FaultyPlace == {"dl_sri", "dl_list", "up_set", "up_counter", "up_send"}

LEMMA QuietRelayLives ==
    ASSUME NumbersHaveLeast, RoomForAll, RelayInv, CounterBound, MyIndexBelow,
           NEW r \in Relay, pc[r] \in FaultyPlace, Quiet(r), RelayStep(r), pc'[r] = "dead"
    PROVE  FALSE
<1>1. /\ registered(r)
      /\ relaySet[r] = 1..(relayIndex - 1)
      /\ \A i \in relaySet[r] : i < relayIndex /\ relay[i].healthflag
      /\ KEM!EncryptionDefined(relaySet[r])
      /\ \A S \in SUBSET relaySet[r] : KEM!DerivationDefined(S, myIndex[r])
  BY QuietNetwork DEF PastFirstRead, FaultyPlace
<1>0. /\ TypeOK /\ CurrentCounter = Counter[r]
      /\ pc \in [Relay -> Place]
  BY DEF Quiet, RelayInv, TypeOK
<1>2. ASSUME NEW S \in SUBSET relaySet[r], NEW rec PROVE ~NoKey(r, S, rec)
  BY <1>1 DEF NoKey
<1>6. ASSUME NEW from, NEW to, to # "dead" PROVE ~Go(r, from, to)
  BY <1>0, <1>6 DEF Go
<1>7. ASSUME NEW from, NEW S, NEW rec PROVE ~Decrypt(r, from, S, rec)
  <2>1. ASSUME Decrypt(r, from, S, rec) PROVE FALSE
    <3>1. \E to \in {"dl_sri", "remove", "up_set"} : Go(r, from, to)
      BY <2>1 DEF Decrypt
    <3> QED BY <1>6, <3>1
  <2> QED BY <2>1
<1>8. ~DownloadSRI(r)
  <2>1. ASSUME DownloadSRI(r) PROVE FALSE
    <3>1. NextID(r) \in relaySet[r]
      BY <2>1, NextToDo DEF DownloadSRI
    <3>2. relay_download_SRI_allowed(r, NextID(r))
      BY <1>1, <3>1 DEF relay_download_SRI_allowed
    <3>3. ~NoKey(r, relaySet[r], relay[NextID(r)])
      BY <1>2
    <3>4. Go(r, "dl_sri", "dl_list") \/ Decrypt(r, "dl_sri", relaySet[r], relay[NextID(r)])
      BY <2>1, <3>2, <3>3 DEF DownloadSRI
    <3> QED BY <1>6, <1>7, <3>4
  <2> QED BY <2>1
<1>9. ~DownloadCounterList(r)
  <2>1. ASSUME DownloadCounterList(r) PROVE FALSE
    <3>1. pc[r] = "dl_list" /\ fetched[r].counter \in Nat
      BY <2>1, RelayTypes DEF DownloadCounterList, RelayInv
    <3>2. fetched[r].counter < CurrentCounter
      BY <1>0, <3>1 DEF RelayInv, OneRelayInv, ViewInv
    <3>3. /\ Changed(fetched[r].counter, FALSE) = {}
          /\ Changed(fetched[r].counter, TRUE) \subseteq relaySet[r]
      BY <1>1, <3>1, QuietHistory
    <3>4. \A S : ~NoKey(r, relaySet[r] \ S, fetched[r])
      BY <1>2
    <3>5. relay_get_counter_list_allowed(r, fetched[r].counter)
      BY <1>1, <3>2 DEF relay_get_counter_list_allowed
    <3> QED BY <1>7, <2>1, <3>3, <3>4, <3>5 DEF DownloadCounterList
  <2> QED BY <2>1
<1>10. ASSUME NEW from, NEW to, to # "dead"
       PROVE  ~GetIndexSet(r, from, to) /\ ~GetCurrentCounter(r, from, to)
  BY <1>1, <1>6, <1>10 DEF GetIndexSet, GetCurrentCounter
<1>11. ~UploadSRI(r)
  <2>1. UploadSRI(r) => Go(r, "up_send", "up_wait") \/ Go(r, "up_send", "idle")
    BY <1>1 DEF UploadSRI, Send
  <2> QED BY <1>6, <2>1
<1>12. ~CheckRegistration(r) /\ ~RecheckRegistration(r)
  BY <1>6 DEF CheckRegistration, RecheckRegistration
<1>13. ~SendRegistration(r) /\ ~AwaitRegistration(r)
  BY <1>6 DEF SendRegistration, AwaitRegistration, Send
<1>14. /\ ~StartRound(r) /\ ~RemoveNime(r) /\ ~RenameNime(r) /\ ~AwaitUpload(r)
       /\ ~Restart(r)
  BY <1>6 DEF StartRound, RemoveNime, RenameNime, AwaitUpload, Restart
<1> QED BY <1>8, <1>9, <1>10, <1>11, <1>12, <1>13, <1>14 DEF RelayStep
=============================================================================
