-------------------------- MODULE DirectoryContract --------------------------
(***************************************************************************)
(* The directory contract (DirectoryContract.sol, Solidity 0.7): one       *)
(* action per state-changing method, one operator per view method.  A      *)
(* transaction is atomic, and a failed require() reverts all of it, so a   *)
(* reverting call is a call whose action is not enabled.                   *)
(*                                                                         *)
(* Solidity 0.7 integers wrap around silently.  UINT8 and UINT16 stand for *)
(* 2^8 and 2^16; the relay counter and the relay index are taken modulo    *)
(* them.  MaxCounter bounds the number of counter steps of a behaviour:    *)
(* with MaxCounter < UINT8 the counter does not wrap.                      *)
(***************************************************************************)
EXTENDS Integers, Sequences, FiniteSets, Functions

CONSTANTS
    Addr,         \* Ethereum addresses that call the contract
    Owner,        \* the address that deployed it
    UINT8,        \* number of values of a uint8
    UINT16,       \* number of values of a uint16
    Bytes,        \* values of type bytes, the empty one included
    UploadCalls,  \* arguments [counter, Hdr, encryptedSRI, NSD] of an upload
    HealthCalls,  \* argument pairs <<size, list>> of modifyHealthFlag
    Periods,      \* upload periods the owner may set
    MaxBalance,   \* bound on the contract's balance, in relay fees
    MaxCounter    \* bound: no counter step is taken from MaxCounter on

EmptyBytes == <<>>
Index == 0..(UINT16 - 1)
CounterValue == 0..(UINT8 - 1)

ASSUME WidthAssumption ==
    /\ UINT8 \in Nat /\ UINT8 > 2
    /\ UINT16 \in Nat /\ UINT16 > 2
    /\ MaxCounter \in Nat /\ MaxBalance \in Nat
ASSUME OwnerAssumption == Owner \in Addr
ASSUME BytesAssumption == EmptyBytes \in Bytes
ASSUME UploadCallsAssumption ==
    UploadCalls \subseteq [counter : CounterValue, Hdr : Bytes,
                           encryptedSRI : Bytes, NSD : Bytes]
ASSUME HealthCallsAssumption == HealthCalls \subseteq Index \X Seq(Index)
ASSUME PeriodsAssumption == 60 \in Periods

VARIABLES
    RelayUploadPeriod,
    relayIndex,         \* the next index to hand out
    unhealthyRelaySet,  \* indices marked unhealthy, in the order of marking
    CurrentCounter,     \* the next slot of the history
    CounterOP,          \* TRUE: a registration, FALSE: a health change
    CounterList,        \* the indices concerned
    relay,
    relayaddr,          \* address -> index, 0 when it has none
    balance             \* ether held, in units of the 0.0005 ether fee

setVars == <<relayIndex, unhealthyRelaySet, CurrentCounter, CounterOP, CounterList>>
contractVars == <<RelayUploadPeriod, setVars, relay, relayaddr, balance>>

NoRelay == [registered |-> FALSE, healthflag |-> FALSE, counter |-> 0,
            Hdr |-> EmptyBytes, encryptedSRI |-> EmptyBytes, NSD |-> EmptyBytes]

RelayRecord == [registered : BOOLEAN, healthflag : BOOLEAN, counter : CounterValue,
                Hdr : Bytes, encryptedSRI : Bytes, NSD : Bytes]

ContractInit ==
    /\ RelayUploadPeriod = 60
    /\ relayIndex = 1
    /\ unhealthyRelaySet = <<>>
    /\ CurrentCounter = 1
    /\ CounterOP = [c \in CounterValue |-> FALSE]
    /\ CounterList = [c \in CounterValue |-> <<>>]
    /\ relay = [i \in Index |-> NoRelay]
    /\ relayaddr = [a \in Addr |-> 0]
    /\ balance = 0

-----------------------------------------------------------------------------
(* View methods.  X_allowed is the conjunction of the require()s of X.     *)

registered(a) == relay[relayaddr[a]].registered

relay_registration_check(a) == IF registered(a) THEN relayaddr[a] ELSE 0

relay_download_SRI_allowed(a, i) ==
    registered(a) /\ i < relayIndex /\ relay[i].healthflag

relay_get_counter_list_allowed(a, counter) ==
    registered(a) /\ counter < CurrentCounter

\* The history from the newest change back to the one at counter.
relay_get_counter_list(counter) ==
    [k \in 1..(CurrentCounter - counter) |->
        [operation |-> CounterOP[CurrentCounter - k],
         alterSet  |-> CounterList[CurrentCounter - k]]]

\* The method writes NSDIndex[i], not NSDIndex[i-1], for a relay i that is not
\* healthy: past the end of the array of relayIndex-1 flags for the last one.
client_download_NSD_allowed ==
    \A i \in 1..(relayIndex - 1) : relay[i].healthflag \/ i < relayIndex - 1

-----------------------------------------------------------------------------
(* State-changing methods; a is msg.sender.                                *)

\* Mutant: the list goes to the slot after the operation.
LogChangeShifted(operation, alterSet) ==
    /\ CurrentCounter < MaxCounter
    /\ CounterOP' = [CounterOP EXCEPT ![CurrentCounter] = operation]
    /\ CounterList' = [CounterList EXCEPT ![CurrentCounter + 1] = alterSet]
    /\ CurrentCounter' = (CurrentCounter + 1) % UINT8

\* Write a change to the history and move to the next counter.
LogChange(operation, alterSet) ==
    /\ CurrentCounter < MaxCounter
    /\ CounterOP' = [CounterOP EXCEPT ![CurrentCounter] = operation]
    /\ CounterList' = [CounterList EXCEPT ![CurrentCounter] = alterSet]
    /\ CurrentCounter' = (CurrentCounter + 1) % UINT8

\* Mutant: a registered address may register again.
RegisterTwice(a) ==
    /\ relayaddr' = [relayaddr EXCEPT ![a] = relayIndex]
    /\ relay' = [relay EXCEPT ![relayIndex].registered = TRUE,
                              ![relayIndex].healthflag = TRUE]
    /\ LogChange(TRUE, <<relayIndex>>)
    /\ relayIndex' = (relayIndex + 1) % UINT16
    /\ UNCHANGED <<RelayUploadPeriod, unhealthyRelaySet, balance>>

relay_register(a) ==
    /\ ~registered(a)
    /\ relayaddr' = [relayaddr EXCEPT ![a] = relayIndex]
    /\ relay' = [relay EXCEPT ![relayIndex].registered = TRUE,
                              ![relayIndex].healthflag = TRUE]
    /\ LogChange(TRUE, <<relayIndex>>)
    /\ relayIndex' = (relayIndex + 1) % UINT16
    /\ UNCHANGED <<RelayUploadPeriod, unhealthyRelaySet, balance>>

\* Mutant: the health flag is not required.
UploadUnchecked(a, up) ==
    /\ relay' = [relay EXCEPT ![relayaddr[a]] =
                    [registered |-> @.registered, healthflag |-> @.healthflag,
                     counter |-> up.counter, Hdr |-> up.Hdr,
                     encryptedSRI |-> up.encryptedSRI, NSD |-> up.NSD]]
    /\ UNCHANGED <<RelayUploadPeriod, setVars, relayaddr, balance>>

relay_upload_SRI_and_NSD(a, up) ==
    /\ relay[relayaddr[a]].healthflag
    /\ relay' = [relay EXCEPT ![relayaddr[a]] =
                    [registered |-> @.registered, healthflag |-> @.healthflag,
                     counter |-> up.counter, Hdr |-> up.Hdr,
                     encryptedSRI |-> up.encryptedSRI, NSD |-> up.NSD]]
    /\ UNCHANGED <<RelayUploadPeriod, setVars, relayaddr, balance>>

\* Mutant: only the registration is undone, the rest of the record stays.
CancelRegistrationOnly(a) ==
    /\ registered(a)
    /\ relay' = [relay EXCEPT ![relayaddr[a]].registered = FALSE]
    /\ relayaddr' = [relayaddr EXCEPT ![a] = 0]
    /\ UNCHANGED <<RelayUploadPeriod, setVars, balance>>

relay_cancellation(a) ==
    /\ registered(a)
    /\ relay' = [relay EXCEPT ![relayaddr[a]] = NoRelay]
    /\ relayaddr' = [relayaddr EXCEPT ![a] = 0]
    /\ UNCHANGED <<RelayUploadPeriod, setVars, balance>>

\* Mutant: the change is logged as a registration.
ExpelAsJoin(a, size, list) ==
    /\ a = Owner
    /\ size <= Len(list)
    /\ \A i \in 1..size : relay[list[i]].healthflag
    /\ \A i, j \in 1..size : i # j => list[i] # list[j]
    /\ relay' = [i \in Index |-> IF \E k \in 1..size : list[k] = i
                                  THEN [relay[i] EXCEPT !.healthflag = FALSE]
                                  ELSE relay[i]]
    /\ unhealthyRelaySet' = unhealthyRelaySet \o SubSeq(list, 1, size)
    /\ LogChange(TRUE, list)
    /\ UNCHANGED <<RelayUploadPeriod, relayIndex, relayaddr, balance>>

\* The loop stops, and the call reverts, at the first entry that is past the
\* end of list, not healthy, or cleared by an earlier iteration.
modifyHealthFlag(a, size, list) ==
    /\ a = Owner
    /\ size <= Len(list)
    /\ \A i \in 1..size : relay[list[i]].healthflag
    /\ \A i, j \in 1..size : i # j => list[i] # list[j]
    /\ relay' = [i \in Index |-> IF \E k \in 1..size : list[k] = i
                                  THEN [relay[i] EXCEPT !.healthflag = FALSE]
                                  ELSE relay[i]]
    /\ unhealthyRelaySet' = unhealthyRelaySet \o SubSeq(list, 1, size)
    /\ LogChange(FALSE, list)
    /\ UNCHANGED <<RelayUploadPeriod, relayIndex, relayaddr, balance>>

setSRIperiod(a, period) ==
    /\ a = Owner
    /\ RelayUploadPeriod' = period
    /\ UNCHANGED <<setVars, relay, relayaddr, balance>>

\* fallback(), receive(): ether arrives.
receive(value) ==
    /\ balance + value <= MaxBalance
    /\ balance' = balance + value
    /\ UNCHANGED <<RelayUploadPeriod, setVars, relay, relayaddr>>

\* Anyone may have the contract pay one fee; transfer() reverts without funds.
contract_transfer_to_relay(value) ==
    /\ balance + value \in 1..(MaxBalance + 1)
    /\ balance' = balance + value - 1
    /\ UNCHANGED <<RelayUploadPeriod, setVars, relay, relayaddr>>

ContractNext ==
    \/ \E a \in Addr : relay_register(a)
    \/ \E a \in Addr, up \in UploadCalls : relay_upload_SRI_and_NSD(a, up)
    \/ \E a \in Addr : relay_cancellation(a)
    \/ \E a \in Addr, call \in HealthCalls : modifyHealthFlag(a, call[1], call[2])
    \/ \E a \in Addr, period \in Periods : setSRIperiod(a, period)
    \/ \E value \in 0..MaxBalance : receive(value)
    \/ \E value \in 0..MaxBalance : contract_transfer_to_relay(value)

ContractSpec == ContractInit /\ [][ContractNext]_contractVars

-----------------------------------------------------------------------------
(* What a relay computes from the views.                                   *)

\* The broadcast set S (relayGetSet): every index handed out and not marked
\* unhealthy.
IndexSet == {i \in 1..(relayIndex - 1) : i \notin Range(unhealthyRelaySet)}

\* The indices the history from counter c on reports as registered / expelled,
\* and the broadcast set as it was at counter c, with those changes undone: what
\* relayDownloadSRI is after.  Its branch for expelled relays, `S += addSet[i]',
\* raises instead, which RelayDirectory models.
Changed(c, op) ==
    UNION {Range(CounterList[k]) : k \in {j \in c..(CurrentCounter - 1) : CounterOP[j] = op}}
IndexSetAt(c) == (IndexSet \cup Changed(c, FALSE)) \ Changed(c, TRUE)

-----------------------------------------------------------------------------
(* Properties.                                                             *)

\* Every variable has the type the contract declares for it.
ContractTypeOK ==
    /\ RelayUploadPeriod \in Periods
    /\ relayIndex \in Index
    /\ unhealthyRelaySet \in Seq(Index)
    /\ CurrentCounter \in CounterValue
    /\ CounterOP \in [CounterValue -> BOOLEAN]
    /\ CounterList \in [CounterValue -> Seq(Index)]
    /\ relay \in [Index -> RelayRecord]
    /\ relayaddr \in [Addr -> Index]
    /\ balance \in 0..MaxBalance

\* relayaddr and relay agree: an index is registered exactly when one address
\* holds it, no two addresses hold the same one, and index 0, which stands for
\* "no relay" in relay_registration_check, is never registered.
IndexOwnership ==
    /\ \A i \in Index : relay[i].registered <=> i # 0 /\ \E a \in Addr : relayaddr[a] = i
    /\ \A a, b \in Addr : relayaddr[a] = relayaddr[b] /\ relayaddr[a] # 0 => a = b

\* A relay that may upload is a registered one that everybody encrypts for:
\* registration, cancellation and health changes never leave a healthy relay
\* outside the broadcast set, so an index once expelled is never healthy again.
HealthyAreAddressed ==
    \A i \in Index : relay[i].healthflag => relay[i].registered /\ i \in IndexSet

\* A record survives nobody: an index that is not registered holds no upload.
UnregisteredHoldNothing ==
    \A i \in Index : ~relay[i].registered => relay[i] = NoRelay

\* Every index ever handed out is in the history that relay_get_counter_list
\* returns from the first counter on.
HistoryComplete == 1..(relayIndex - 1) \subseteq Changed(1, TRUE)

\* Undoing the history gives back every earlier broadcast set: no transaction
\* changes what IndexSetAt computes for an earlier counter, and each counter
\* step is the join of a fresh index or the expulsion of members.
Log == INSTANCE MembershipLog WITH RelayIndex <- Index,
                                  past <- [c \in 1..CurrentCounter |-> IndexSetAt(c)]
ImplementsMembershipLog == Log!MLSpec

\* client_download_NSD, which has no require(), returns.
ClientCanDownload == client_download_NSD_allowed

-----------------------------------------------------------------------------
(* The inductive invariant behind the safety properties.                   *)

\* Fewer counter steps than a uint8 (and a uint16) can count.
NoWrap == MaxCounter < UINT8 /\ MaxCounter < UINT16

\* The owner passes the length of the list as its size.
CarefulOwner == \A call \in HealthCalls : call[1] = Len(call[2])

\* Indices are handed out in order, one per registration, and each registration
\* takes a counter step.
CountersInStep ==
    /\ 1 <= relayIndex
    /\ relayIndex <= CurrentCounter
    /\ \A a \in Addr : relayaddr[a] < relayIndex

\* Only indices that were handed out are marked unhealthy.
UnhealthyBelow == \A k \in DOMAIN unhealthyRelaySet : unhealthyRelaySet[k] < relayIndex

\* The inductive invariant.
ContractInv ==
    /\ ContractTypeOK
    /\ CountersInStep
    /\ UnhealthyBelow
    /\ IndexOwnership
    /\ HealthyAreAddressed
    /\ UnregisteredHoldNothing
    /\ HistoryComplete
=============================================================================
