--------------------------- MODULE RelayDirectory ---------------------------
(***************************************************************************)
(* Relays keeping their directory on the blockchain: the hourly call of    *)
(* router_rebuild_descriptor(1, 1) in router.c, the Python functions of    *)
(* Relay.py it calls, and the transactions they send, composed with the    *)
(* directory contract.                                                     *)
(*                                                                         *)
(* A relay is single-threaded and waits for each call, so a round is a     *)
(* sequence of steps, one per read of the chain: between two reads any     *)
(* other relay and the owner may change the chain.  A Python exception     *)
(* reaches C as a NULL that is used as a result; where that kills the      *)
(* process the step ends in pc = "dead".                                   *)
(*                                                                         *)
(* An SRI is [by, key]: the relay that built it and the number of its      *)
(* onion key.  The files NIME-cached and NIME are the sets of their        *)
(* entries [index, sri]; order and repetition are not told apart.          *)
(***************************************************************************)
EXTENDS DirectoryContract

CONSTANTS
    Relay,           \* the addresses that run a relay
    MaxRelayNumber,  \* size of the broadcast encryption system
    MaxKey,          \* bound on the onion keys of a relay
    MaxCrash,        \* bound on the number of process kills
    Faults,          \* of "registration", "upload": which calls may fail
    Cancelling       \* relays whose operator may cancel the registration

KEM == INSTANCE BroadcastKEM

ASSUME RelayAssumption == Relay \subseteq Addr /\ Cancelling \subseteq Relay
ASSUME BoundAssumption == MaxRelayNumber \in Nat \ {0} /\ MaxKey \in Nat \ {0} /\ MaxCrash \in Nat

NoFile == {}  \* a file is created by writing its first entry
NoTx == [call |-> "none"]

SRI == [by : Relay, key : 1..MaxKey]
Entry == [index : Index, sri : SRI]
sha256(sri) == [sha256 |-> sri]

\* What a relay uploads: the header of an encryption, the encrypted SRI and its
\* digest.  A transaction is none, a registration or an upload.
Upload == [counter : CounterValue, Hdr : {<<[receivers |-> S]>> : S \in SUBSET Index},
           encryptedSRI : {<<s>> : s \in SRI}, NSD : {<<sha256(s)>> : s \in SRI}]
Tx == {NoTx, [call |-> "register"]} \cup [call : {"upload"}, up : Upload]

ASSUME UploadAssumption == Upload \subseteq UploadCalls

VARIABLES
    pc,                   \* where each relay is in its round
    relay_is_registered,  \* router.c: registration was attempted
    myIndex,              \* router.c: index of this relay, 0 or -1 on failure
    Counter, relaySet,    \* Relay.py globals
    todo,                 \* indices the download loop has still to visit
    fetched,              \* record waiting for its history
    onionKey,             \* number of the current onion key, kept on disk
    ri,                   \* the descriptor of this round, key 0 before the first
    nimeCached, nime,     \* the two files
    mempool,              \* pending transaction of each relay's account
    crashes               \* number of kills so far

processVars == <<relay_is_registered, myIndex, Counter, relaySet, todo, fetched, ri>>
fileVars == <<onionKey, nimeCached, nime>>
relayVars == <<pc, processVars, fileVars, mempool, crashes>>
vars == <<contractVars, relayVars>>

RelayInit ==
    /\ pc = [r \in Relay |-> "idle"]
    /\ relay_is_registered = [r \in Relay |-> FALSE]
    /\ myIndex = [r \in Relay |-> 0]
    /\ Counter = [r \in Relay |-> 1]
    /\ relaySet = [r \in Relay |-> {}]
    /\ todo = [r \in Relay |-> {}]
    /\ fetched = [r \in Relay |-> NoRelay]
    /\ onionKey = [r \in Relay |-> 1]
    /\ ri = [r \in Relay |-> [by |-> r, key |-> 0]]
    /\ nimeCached = [r \in Relay |-> NoFile]
    /\ nime = [r \in Relay |-> NoFile]
    /\ mempool = [r \in Relay |-> NoTx]
    /\ crashes = 0

Init == ContractInit /\ RelayInit

Go(r, from, to) == pc[r] = from /\ pc' = [pc EXCEPT ![r] = to]

\* The process is killed by the use of a failed call's result.
Fault(r, from) ==
    /\ Go(r, from, "dead")
    /\ UNCHANGED <<contractVars, processVars, fileVars, mempool, crashes>>

-----------------------------------------------------------------------------
(* The blockchain.                                                         *)

\* A transaction is executed; if the contract reverts it has no effect.  The
\* nonce of a transaction is the number of executed ones of the account, so
\* each account has at most one pending transaction.
Mine(r) ==
    /\ mempool[r] # NoTx
    /\ mempool' = [mempool EXCEPT ![r] = NoTx]
    /\ \/ mempool[r].call = "register" /\ relay_register(r)
       \/ mempool[r].call = "register" /\ registered(r) /\ UNCHANGED contractVars
       \/ mempool[r].call = "upload" /\ relay_upload_SRI_and_NSD(r, mempool[r].up)
       \/ /\ mempool[r].call = "upload" /\ ~relay[relayaddr[r]].healthflag
          /\ UNCHANGED contractVars
    /\ UNCHANGED <<pc, processVars, fileVars, crashes>>

\* Mutant: a second transaction is dropped without an error.
SendFirstOnly(r, tx, failure, accepted, refused) ==
    \/ mempool' = [mempool EXCEPT ![r] = IF @ = NoTx THEN tx ELSE @] /\ accepted
    \/ failure \in Faults /\ UNCHANGED mempool /\ refused

\* sendRawTransaction: the node takes the transaction, in place of a pending one
\* with the same nonce, or refuses it, as it may always do with a second one.
Send(r, tx, failure, accepted, refused) ==
    \/ mempool' = [mempool EXCEPT ![r] = tx] /\ accepted
    \/ (failure \in Faults \/ mempool[r] # NoTx) /\ UNCHANGED mempool /\ refused

\* The owner and the operators act on the contract directly, as long as
\* MaxCounter leaves room for the registrations that follow.
Manage ==
    /\ CurrentCounter + Cardinality(Relay) <= MaxCounter
    /\ \/ \E call \in HealthCalls : modifyHealthFlag(Owner, call[1], call[2])
       \/ \E r \in Cancelling : relay_cancellation(r)
    /\ UNCHANGED relayVars

-----------------------------------------------------------------------------
(* router_rebuild_descriptor(1, 1): build, register, download, upload.     *)

\* Mutant: the first descriptor of a process is built before the keys are loaded.
DescriptorBeforeKeys(r) ==
    [by |-> r, key |-> IF relay_is_registered[r] THEN onionKey[r] ELSE 1]

\* Mutant: the descriptor of the first round is kept.
DescriptorKept(r) == [by |-> r, key |-> IF ri[r].key = 0 THEN onionKey[r] ELSE ri[r].key]

\* router_build_fresh_descriptor: the current onion key goes into the descriptor.
FreshDescriptor(r) == [by |-> r, key |-> onionKey[r]]

\* check_descriptor_callback: a fresh descriptor with the current key.
StartRound(r) ==
    /\ Go(r, "idle", IF relay_is_registered[r] THEN "dl_set" ELSE "check")
    /\ ri' = [ri EXCEPT ![r] = FreshDescriptor(r)]
    /\ UNCHANGED <<contractVars, relay_is_registered, myIndex, Counter, relaySet, todo,
                   fetched, fileVars, mempool, crashes>>

\* relay_register ends: whatever the calls returned, the relay counts itself
\* as registered; PyLong_AsLong makes -1 of a call that raised.
Registered(r, index) ==
    /\ relay_is_registered' = [relay_is_registered EXCEPT ![r] = TRUE]
    /\ myIndex' = [myIndex EXCEPT ![r] = index]
    /\ UNCHANGED <<contractVars, Counter, relaySet, todo, fetched, ri, fileVars, crashes>>

\* The first check.  If Python or the module Relay cannot be loaded the round ends.
CheckRegistration(r) ==
    \/ /\ Go(r, "check", "dl_set")
       /\ \/ relay_registration_check(r) # 0 /\ Registered(r, relay_registration_check(r))
          \/ "registration" \in Faults /\ Registered(r, -1)
       /\ UNCHANGED mempool
    \/ /\ relay_registration_check(r) = 0
       /\ Go(r, "check", "send_register")
       /\ UNCHANGED <<contractVars, processVars, fileVars, mempool, crashes>>
    \/ /\ "registration" \in Faults
       /\ Go(r, "check", "idle")
       /\ UNCHANGED <<contractVars, processVars, fileVars, mempool, crashes>>

SendRegistration(r) ==
    /\ pc[r] = "send_register"
    /\ Send(r, [call |-> "register"], "registration",
            Go(r, "send_register", "register"), Go(r, "send_register", "recheck_failed"))
    /\ UNCHANGED <<contractVars, processVars, fileVars, crashes>>

\* relayRegister: the receipt arrives, or the wait of 600 s ends in an exception.
AwaitRegistration(r) ==
    /\ \/ mempool[r] = NoTx /\ Go(r, "register", "recheck")
       \/ /\ mempool[r] # NoTx /\ "registration" \in Faults
          /\ Go(r, "register", "recheck_failed")
    /\ UNCHANGED <<contractVars, processVars, fileVars, mempool, crashes>>

\* The second check.  An exception left over from relayRegister may also fail it.
RecheckRegistration(r) ==
    /\ \/ /\ Go(r, "recheck", "dl_set") \/ Go(r, "recheck_failed", "dl_set")
          /\ Registered(r, relay_registration_check(r))
       \/ /\ \/ Go(r, "recheck_failed", "dl_set")
             \/ "registration" \in Faults /\ Go(r, "recheck", "dl_set")
          /\ Registered(r, -1)
    /\ UNCHANGED mempool

\* relayGetSet, first read: the set of indices.
GetIndexSet(r, from, to) ==
    \/ /\ registered(r)
       /\ Go(r, from, to)
       /\ relaySet' = [relaySet EXCEPT ![r] = IndexSet]
       /\ UNCHANGED <<contractVars, relay_is_registered, myIndex, Counter, todo, fetched, ri,
                      fileVars, mempool, crashes>>
    \/ ~registered(r) /\ Fault(r, from)

\* relayGetSet, second read: the counter.  The download loop starts.
GetCurrentCounter(r, from, to) ==
    \/ /\ registered(r)
       /\ Go(r, from, to)
       /\ Counter' = [Counter EXCEPT ![r] = CurrentCounter]
       /\ todo' = [todo EXCEPT ![r] = IF from = "dl_counter" THEN relaySet[r] ELSE {}]
       /\ UNCHANGED <<contractVars, relay_is_registered, myIndex, relaySet, fetched, ri,
                      fileVars, mempool, crashes>>
    \/ ~registered(r) /\ Fault(r, from)

-----------------------------------------------------------------------------
(* router_download_descriptor_from_blockchain: one pass of its loop.       *)

Smallest(S) == CHOOSE i \in S : \A j \in S : i <= j
NextID(r) == Smallest(todo[r])

\* The private key file belongs to the index the chain gave the relay.
KeyOpens(r, Senc, S) == KEM!Opens(Senc, S, myIndex[r], relayaddr[r])

\* The entry written for a decrypted record, and, as a mutant, the relay's own
\* index in place of the author's.
OwnIndexEntry(r, rec) == [index |-> myIndex[r], sri |-> rec.encryptedSRI[1]]
NimeEntry(r, rec) == [index |-> NextID(r), sri |-> rec.encryptedSRI[1]]

\* fileEnd: this is the last pass.
FileEnd(r) == todo[r] = {NextID(r)}

\* The end of a pass, with receiver set S for the record rec of NextID(r).  An
\* empty record is skipped, one that does not decrypt (UnicodeDecodeError) is
\* dropped; both also drop the replacement of NIME that goes with the last
\* pass.
Decrypt(r, from, S, rec) ==
    LET opens == rec.encryptedSRI # EmptyBytes /\ KeyOpens(r, rec.Hdr[1].receivers, S)
    IN /\ todo' = [todo EXCEPT ![r] = @ \ {NextID(r)}]
       /\ Go(r, from, IF ~FileEnd(r) THEN "dl_sri" ELSE IF opens THEN "remove" ELSE "up_set")
       /\ fetched' = [fetched EXCEPT ![r] = NoRelay]
       /\ nimeCached' = IF ~opens THEN nimeCached
                        ELSE [nimeCached EXCEPT ![r] = @ \cup {NimeEntry(r, rec)}]
       /\ UNCHANGED <<contractVars, relay_is_registered, myIndex, Counter, relaySet, ri,
                      onionKey, nime, mempool, crashes>>

\* bkem_decryption goes on where get_decryption_key left no key: it returned at a
\* receiver out of range, or read outside its arrays for an index off the grid.
\* The key is then garbage, which opens nothing, or its use ends the process.
NoKey(r, S, rec) ==
    rec.encryptedSRI # EmptyBytes /\ ~KEM!DerivationDefined(S, myIndex[r])

\* relayDownloadSRI: was the record encrypted for an older set?  Mutant: <=.
OutdatedOrEqual(r, rec) == rec.counter <= Counter[r]
Outdated(r, rec) == rec.counter < Counter[r]

DownloadSRI(r) ==
    /\ pc[r] = "dl_sri"
    /\ IF ~relay_download_SRI_allowed(r, NextID(r)) THEN Fault(r, "dl_sri")
       ELSE LET rec == relay[NextID(r)] IN
            \/ /\ Outdated(r, rec)
               /\ Go(r, "dl_sri", "dl_list")
               /\ fetched' = [fetched EXCEPT ![r] = rec]
               /\ UNCHANGED <<contractVars, relay_is_registered, myIndex, Counter, relaySet,
                              todo, ri, fileVars, mempool, crashes>>
            \/ ~Outdated(r, rec) /\ Decrypt(r, "dl_sri", relaySet[r], rec)
            \/ ~Outdated(r, rec) /\ NoKey(r, relaySet[r], rec) /\ Fault(r, "dl_sri")

\* relayGetCounterList and the update of S.  `S += addSet[i]' adds a number to a
\* list and raises; S.remove raises when the number is not there.
DownloadCounterList(r) ==
    LET rec == fetched[r]
        addSet == Changed(rec.counter, FALSE)
        deleteSet == Changed(rec.counter, TRUE)
    IN /\ pc[r] = "dl_list"
       /\ IF \/ ~relay_get_counter_list_allowed(r, rec.counter)
             \/ addSet # {}
             \/ ~(deleteSet \subseteq relaySet[r])
          THEN Fault(r, "dl_list")
          ELSE \/ Decrypt(r, "dl_list", relaySet[r] \ deleteSet, rec)
               \/ NoKey(r, relaySet[r] \ deleteSet, rec) /\ Fault(r, "dl_list")

\* relayDecryptSRIs with fileEnd = 1: remove NIME, then rename NIME-cached.
RemoveNime(r) ==
    /\ Go(r, "remove", "rename")
    /\ nime' = [nime EXCEPT ![r] = NoFile]
    /\ UNCHANGED <<contractVars, processVars, onionKey, nimeCached, mempool, crashes>>

RenameNime(r) ==
    /\ Go(r, "rename", "up_set")
    /\ nime' = [nime EXCEPT ![r] = nimeCached[r]]
    /\ nimeCached' = [nimeCached EXCEPT ![r] = NoFile]
    /\ UNCHANGED <<contractVars, processVars, onionKey, mempool, crashes>>

-----------------------------------------------------------------------------
(* router_upload_descriptor_to_blockchain.                                 *)

\* relayUploadSRIAndNSD: encrypt for relaySet, send.  A refused transaction
\* raises, which C ignores.  Receivers out of range leave the key pair unset.
UploadSRI(r) ==
    \/ /\ pc[r] = "up_send"
       /\ KEM!EncryptionDefined(relaySet[r])
       /\ Send(r, [call |-> "upload",
                   up |-> [counter |-> Counter[r], Hdr |-> <<[receivers |-> relaySet[r]]>>,
                           encryptedSRI |-> <<ri[r]>>, NSD |-> <<sha256(ri[r])>>]],
               "upload", Go(r, "up_send", "up_wait"), Go(r, "up_send", "idle"))
       /\ UNCHANGED <<contractVars, processVars, fileVars, crashes>>
    \/ ~KEM!EncryptionDefined(relaySet[r]) /\ Fault(r, "up_send")

\* The receipt arrives, or the wait of 300 s ends; either way the round is over.
AwaitUpload(r) ==
    /\ mempool[r] = NoTx \/ "upload" \in Faults
    /\ Go(r, "up_wait", "idle")
    /\ UNCHANGED <<contractVars, processVars, fileVars, mempool, crashes>>

-----------------------------------------------------------------------------

\* rotate_onion_key_callback, between two rounds: router_rebuild_descriptor(1, 0)
\* builds a descriptor but leaves the chain alone.
RotateOnionKey(r) ==
    /\ pc[r] = "idle" /\ onionKey[r] < MaxKey
    /\ onionKey' = [onionKey EXCEPT ![r] = @ + 1]
    /\ UNCHANGED <<contractVars, pc, processVars, nimeCached, nime, mempool, crashes>>

\* The process is killed, by an operator or by an RPC that raises in relayGetSet
\* or relayDownloadSRI.
Crash(r) ==
    /\ pc[r] # "dead" /\ crashes < MaxCrash
    /\ pc' = [pc EXCEPT ![r] = "dead"]
    /\ crashes' = crashes + 1
    /\ UNCHANGED <<contractVars, processVars, fileVars, mempool>>

\* A new process: the statics and globals start over, files and chain remain.
Restart(r) ==
    /\ Go(r, "dead", "idle")
    /\ relay_is_registered' = [relay_is_registered EXCEPT ![r] = FALSE]
    /\ myIndex' = [myIndex EXCEPT ![r] = 0]
    /\ Counter' = [Counter EXCEPT ![r] = 1]
    /\ relaySet' = [relaySet EXCEPT ![r] = {}]
    /\ todo' = [todo EXCEPT ![r] = {}]
    /\ fetched' = [fetched EXCEPT ![r] = NoRelay]
    /\ ri' = [ri EXCEPT ![r].key = 0]
    /\ UNCHANGED <<contractVars, fileVars, mempool, crashes>>

\* The steps a running relay takes by itself.
RelayStep(r) ==
    \/ StartRound(r)
    \/ CheckRegistration(r)
    \/ SendRegistration(r)
    \/ AwaitRegistration(r)
    \/ RecheckRegistration(r)
    \/ GetIndexSet(r, "dl_set", "dl_counter")
    \/ GetCurrentCounter(r, "dl_counter", IF relaySet[r] = {} THEN "up_set" ELSE "dl_sri")
    \/ DownloadSRI(r)
    \/ DownloadCounterList(r)
    \/ RemoveNime(r)
    \/ RenameNime(r)
    \/ GetIndexSet(r, "up_set", "up_counter")
    \/ GetCurrentCounter(r, "up_counter", "up_send")
    \/ UploadSRI(r)
    \/ AwaitUpload(r)
    \/ Restart(r)

Next ==
    \/ Manage
    \/ \E r \in Relay : RelayStep(r) \/ Mine(r) \/ RotateOnionKey(r) \/ Crash(r)

Spec == Init /\ [][Next]_vars

-----------------------------------------------------------------------------
(* Fairness: timers fire, calls return, the chain executes transactions    *)
(* and an operator restarts a dead relay.                                  *)

Fairness == \A r \in Relay : WF_vars(RelayStep(r)) /\ WF_vars(Mine(r))
FairSpec == Spec /\ Fairness

-----------------------------------------------------------------------------
(* Properties.                                                             *)

Place == {"idle", "check", "send_register", "register", "recheck", "recheck_failed", "dl_set",
          "dl_counter", "dl_sri", "dl_list", "remove", "rename", "up_set", "up_counter",
          "up_send", "up_wait", "dead"}

\* Where each relay may be, and what its statics, globals and files hold.
TypeOK ==
    /\ pc \in [Relay -> Place]
    /\ relay_is_registered \in [Relay -> BOOLEAN]
    /\ myIndex \in [Relay -> Index \cup {-1}]
    /\ Counter \in [Relay -> CounterValue]
    /\ relaySet \in [Relay -> SUBSET Index] /\ todo \in [Relay -> SUBSET Index]
    /\ fetched \in [Relay -> RelayRecord]
    /\ \A r \in Relay : pc[r] \in {"dl_sri", "dl_list"} => todo[r] # {}
    /\ \A r \in Relay : pc[r] = "dl_list" => fetched[r] # NoRelay
    /\ onionKey \in [Relay -> 1..MaxKey]
    /\ ri \in [Relay -> [by : Relay, key : 0..MaxKey]]
    /\ nime \in [Relay -> SUBSET Entry] /\ nimeCached \in [Relay -> SUBSET Entry]
    /\ mempool \in [Relay -> Tx]
    /\ crashes \in 0..MaxCrash

\* The history a relay asks for always exists: between reading a record's
\* counter and asking for the history from it, relay_get_counter_list never
\* becomes a reverting call, however old the record and the relay's own view.
CounterListAvailable ==
    \A r \in Relay : pc[r] = "dl_list" /\ registered(r) =>
        relay_get_counter_list_allowed(r, fetched[r].counter)

\* A receipt means published: when relayUploadSRIAndNSD gets its receipt, the
\* contract holds this round's SRI and counter, whatever was pending before.
ReceiptMeansPublished ==
    \A r \in Relay :
        pc[r] = "up_wait" /\ mempool[r] = NoTx /\ relay[relayaddr[r]].healthflag =>
            /\ relay[relayaddr[r]].encryptedSRI = <<ri[r]>>
            /\ relay[relayaddr[r]].counter = Counter[r]

\* NIME and NIME-cached list an SRI under the index of the relay that built it.
NimeAttribution ==
    \A r \in Relay : \A e \in nime[r] \cup nimeCached[r] :
        e.index = relayaddr[e.sri.by] \/ e.sri.by \in Cancelling

\* The published onion key of an index never goes back, through timeouts,
\* late and replaced transactions and restarts.
PublishedKey(i) == IF relay[i].encryptedSRI = EmptyBytes THEN 0 ELSE relay[i].encryptedSRI[1].key
UploadsNeverGoBack ==
    [][\A i \in Index : relay'[i].registered => PublishedKey(i)' >= PublishedKey(i)]_vars

\* A relay process dies in its round only because the set of relays changed
\* after its first read, or a relay was expelled or cancelled, or its own
\* registration failed: never in a quiet network.
Quiet(r) ==
    /\ CurrentCounter = Counter[r] /\ IndexSet = relaySet[r]
    /\ IndexSet = {i \in Index : relay[i].healthflag}
    /\ Changed(1, FALSE) = {}
    /\ myIndex[r] >= 0
FaultNeedsChange ==
    [][\A r \in Relay :
          pc[r] \in {"dl_sri", "dl_list", "up_set", "up_counter", "up_send"}
          /\ pc'[r] = "dead" /\ crashes' = crashes => ~Quiet(r)]_vars

\* Every relay's NIME settles on the newest SRI of every relay: in the end it is
\* again and again complete, and never anything else but absent.
Complete == {[index |-> relayaddr[q], sri |-> [by |-> q, key |-> onionKey[q]]] : q \in Relay}
NimeConverges ==
    \A r \in Relay : /\ []<>(nime[r] = Complete)
                     /\ <>[](nime[r] \in {NoFile, Complete})

\* Healthy relays keep renewing their upload: after the last change of the set,
\* every healthy relay has an upload under the current counter.
HealthyRelaysRenew ==
    \A r \in Relay : <>[](relay[relayaddr[r]].healthflag =>
                              relay[relayaddr[r]].counter = CurrentCounter)

=============================================================================
