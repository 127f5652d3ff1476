---------------------- MODULE RelayDirectoryInvariants ----------------------
(***************************************************************************)
(* The inductive invariant of relays that keep their directory on the      *)
(* contract, and what steps may do to it.                                  *)
(***************************************************************************)
EXTENDS RelayDirectory

\* An SRI listed under index i belongs there: its author holds i, or may have
\* cancelled.
Attributed(i, sri) == sri.by \in Cancelling \/ (i # 0 /\ relayaddr[sri.by] = i)

\* Bytes found under index i are empty or hold an SRI that belongs there.
AttributedBytes(i, bytes) ==
    \/ bytes = EmptyBytes
    \/ \E s \in SRI : bytes = <<s>> /\ Attributed(i, s)

\* Every record of the contract is attributed.
RecordsAttributed == \A i \in Index : AttributedBytes(i, relay[i].encryptedSRI)

\* What relay r has read is not ahead of the chain, and the record it is about
\* to ask the history for is older than its own counter.
ViewInv(r) ==
    /\ Counter[r] <= CurrentCounter
    /\ pc[r] \in {"dl_sri", "dl_list"} => todo[r] \subseteq relaySet[r]
    /\ pc[r] = "dl_list" => /\ fetched[r].healthflag
                            /\ fetched[r].counter < Counter[r]
                            /\ AttributedBytes(NextID(r), fetched[r].encryptedSRI)

\* Its files are attributed.
FileInv(r) == \A e \in nime[r] \cup nimeCached[r] : Attributed(e.index, e.sri)

\* Its descriptor is its own and, during a round, has the current onion key.
DescriptorInv(r) ==
    /\ ri[r].by = r
    /\ pc[r] \notin {"idle", "dead"} => ri[r].key = onionKey[r]

\* The published key is at most the pending one, which is at most the current.
KeyInv(r) ==
    /\ PublishedKey(relayaddr[r]) <= onionKey[r]
    /\ mempool[r].call = "upload" =>
          \E s \in SRI : /\ mempool[r].up.encryptedSRI = <<s>> /\ s.by = r
                         /\ PublishedKey(relayaddr[r]) <= s.key /\ s.key <= onionKey[r]

\* While it waits for a receipt, the upload of this round is pending, or it was
\* executed and, if the relay is healthy, is what the contract holds.
ReceiptInv(r) ==
    pc[r] = "up_wait" =>
        \/ /\ mempool[r].call = "upload"
           /\ mempool[r].up.encryptedSRI = <<ri[r]>>
           /\ mempool[r].up.counter = Counter[r]
        \/ /\ mempool[r] = NoTx
           /\ relay[relayaddr[r]].healthflag =>
                 /\ relay[relayaddr[r]].encryptedSRI = <<ri[r]>>
                 /\ relay[relayaddr[r]].counter = Counter[r]

\* Once it has passed the first read of a round, it is registered, or the index
\* of a cancelled relay is left behind.
PastFirstRead == {"dl_counter", "dl_sri", "dl_list", "remove", "rename", "up_set",
                  "up_counter", "up_send", "up_wait"}
RegisteredInv(r) ==
    pc[r] \in PastFirstRead =>
        registered(r) \/ \E i \in 1..(relayIndex - 1) : ~relay[i].registered

\* Everything about relay r.
OneRelayInv(r) ==
    /\ ViewInv(r) /\ FileInv(r) /\ DescriptorInv(r)
    /\ KeyInv(r) /\ ReceiptInv(r) /\ RegisteredInv(r)

\* The history reports every index marked unhealthy as expelled, reports as
\* registered only indices handed out, and has nothing before the first counter.
HistoryInv ==
    /\ Range(unhealthyRelaySet) \subseteq Changed(1, FALSE)
    /\ Changed(1, TRUE) \subseteq 1..(relayIndex - 1)
    /\ CounterList[0] = <<>>

\* The inductive invariant.
RelayInv ==
    /\ ContractInv /\ TypeOK /\ RecordsAttributed /\ HistoryInv
    /\ \A r \in Relay : OneRelayInv(r)

-----------------------------------------------------------------------------
(* What a transaction does to a relay that did not send it.                *)

\* Counters and indices grow, an index once given up stays so, and only an
\* operator that may cancel loses its index.
ChainGrows ==
    /\ CurrentCounter <= CurrentCounter' /\ CurrentCounter' \in Nat
    /\ relayIndex <= relayIndex' /\ relayIndex' \in Nat
    /\ \A i \in 1..(relayIndex - 1) : ~relay[i].registered => ~relay'[i].registered
    /\ \A a \in Addr \ Cancelling : relayaddr[a] # 0 => relayaddr'[a] = relayaddr[a]

\* The record of relay q stays, or is no longer healthy.
Undisturbed(q) ==
    /\ PublishedKey(relayaddr[q])' <= PublishedKey(relayaddr[q])
    /\ relay'[relayaddr'[q]].healthflag =>
          /\ relay[relayaddr[q]].healthflag
          /\ relay'[relayaddr'[q]].encryptedSRI = relay[relayaddr[q]].encryptedSRI
          /\ relay'[relayaddr'[q]].counter = relay[relayaddr[q]].counter
    /\ registered(q) => registered(q)' \/ \E i \in 1..(relayIndex' - 1) : ~relay'[i].registered

\* What the execution of r's transaction does to the chain.
MineEffect(r) ==
    /\ [ContractNext]_contractVars
    /\ ChainGrows /\ RecordsAttributed'
    /\ \A q \in Relay \ {r} : Undisturbed(q)
    /\ registered(r) =>
          registered(r)' \/ \E i \in 1..(relayIndex' - 1) : ~relay'[i].registered
    /\ PublishedKey(relayaddr[r])' <= onionKey[r]
    /\ pc[r] = "up_wait" /\ relay'[relayaddr'[r]].healthflag =>
          /\ relay'[relayaddr'[r]].encryptedSRI = <<ri[r]>>
          /\ relay'[relayaddr'[r]].counter = Counter[r]

-----------------------------------------------------------------------------
(* What a step of a relay leaves alone.                                    *)

\* The process and the files of relay q, but for where it is in its round.
SameData(q) ==
    /\ Counter'[q] = Counter[q] /\ relaySet'[q] = relaySet[q] /\ todo'[q] = todo[q]
    /\ fetched'[q] = fetched[q] /\ onionKey'[q] = onionKey[q] /\ ri'[q] = ri[q]
    /\ nime'[q] = nime[q] /\ nimeCached'[q] = nimeCached[q]
SameProcess(q) == pc'[q] = pc[q] /\ SameData(q)

\* A step of relay r that leaves the contract and the other relays alone.
LocalStep(r) ==
    /\ UNCHANGED contractVars
    /\ \A q \in Relay \ {r} : SameProcess(q) /\ mempool'[q] = mempool[q]

\* Such a step, with the relay's own invariant kept.
RelayKept(r) == LocalStep(r) /\ TypeOK' /\ OneRelayInv(r)'
=============================================================================
