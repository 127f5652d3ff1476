--------------------------- MODULE ClientDirectory ---------------------------
(***************************************************************************)
(* A client keeping its directory: fetch_networkstatus_callback, called    *)
(* once a minute, with download_NSD_from_blockchain, clientDownloadNSD in  *)
(* Client.py and router_reload_consensus_networkstatus, composed with the  *)
(* directory contract and with the client's list of nodes.                 *)
(*                                                                         *)
(* The NSD file is the sequence of its lines <<relay index, hash>>; a hash *)
(* is 32 bytes, kept as a sequence of one element.  The consensus is read  *)
(* from the file GSRI, which the operator of the client replaces by hand.  *)
(***************************************************************************)
EXTENDS DirectoryContract, Nodelist

CONSTANTS
    DownloadTicks,  \* 60: minutes counted between two downloads
    MaxFailure,     \* bound on failed imports and RPC calls
    MaxKill,        \* bound on kills of the client
    MaxReplace      \* bound on replacements of the GSRI file

ASSUME ClientAssumption ==
    /\ DownloadTicks \in Nat \ {0}
    /\ MaxFailure \in Nat /\ MaxKill \in Nat /\ MaxReplace \in Nat

VARIABLES
    NSD_download_times,
    cpc,                \* "run", "writing" (clientDownloadNSD has the file open), "dead"
    answer,             \* the lines clientDownloadNSD is writing
    NSD,                \* the file
    GSRI,               \* the file
    failures, kills, replacements

bounds == <<failures, kills, replacements>>
clientVars == <<NSD_download_times, cpc, answer, NSD, GSRI, nodelistVars, bounds>>
vars == <<contractVars, clientVars>>

ClientInit ==
    /\ NSD_download_times = DownloadTicks
    /\ cpc = "run"
    /\ answer = <<>>
    /\ NSD = <<>>
    /\ GSRI = None
    /\ current_consensus = NoConsensus /\ the_nodelist = EmptyNodelist
    /\ failures = 0 /\ kills = 0 /\ replacements = 0

Init == ContractInit /\ ClientInit

-----------------------------------------------------------------------------
(* clientDownloadNSD.                                                      *)

\* What the contract's view returns when it does not fail: a flag per relay, and
\* the NSDs of the healthy ones one after another.
client_download_NSD ==
    [NSDIndex |-> [i \in 1..(relayIndex - 1) |-> relay[i].healthflag],
     NSDbytes |-> FlattenSeq([i \in 1..(relayIndex - 1) |->
                      IF relay[i].healthflag THEN relay[i].NSD ELSE EmptyBytes])]

\* NSD[local*64:(local+1)*64], the hash number local + 1: a slice past the end
\* is empty.
Slice(bytes, k) == IF k <= Len(bytes) THEN <<bytes[k]>> ELSE EmptyBytes

Flagged(NSDIndex) == SelectSeq([i \in 1..Len(NSDIndex) |-> i], LAMBDA i : NSDIndex[i])

\* One line per relay flagged in NSDIndex, with the next hash of the answer.
\* Mutant: `local' counts every relay.
LinesByPosition(nsd) ==
    LET relayID == Flagged(nsd.NSDIndex)
    IN [k \in 1..Len(relayID) |-> <<relayID[k], Slice(nsd.NSDbytes, relayID[k])>>]
Lines(nsd) ==
    LET relayID == Flagged(nsd.NSDIndex)
    IN [k \in 1..Len(relayID) |-> <<relayID[k], Slice(nsd.NSDbytes, k)>>]

-----------------------------------------------------------------------------
(* fetch_networkstatus_callback.                                           *)

\* Mutant: the counter also runs on when the download is due.
CountPastLimit ==
    /\ cpc = "run"
    /\ NSD_download_times' = NSD_download_times + 1
    /\ UNCHANGED <<contractVars, cpc, answer, NSD, GSRI, nodelistVars, bounds>>
CountTick ==
    /\ cpc = "run" /\ NSD_download_times # DownloadTicks
    /\ NSD_download_times' = NSD_download_times + 1
    /\ UNCHANGED <<contractVars, cpc, answer, NSD, GSRI, nodelistVars, bounds>>

DownloadDue == cpc = "run" /\ NSD_download_times = DownloadTicks

Fail == failures < MaxFailure /\ failures' = failures + 1 /\ UNCHANGED <<kills, replacements>>

\* Python or the module Client cannot be loaded: the next minute tries again.
LoadFails ==
    /\ DownloadDue
    /\ Fail
    /\ UNCHANGED <<contractVars, NSD_download_times, cpc, answer, NSD, GSRI, nodelistVars>>

\* After any call of clientDownloadNSD.  Mutant: the consensus is not read again.
ResetOnly ==
    /\ NSD_download_times' = 0
    /\ UNCHANGED nodelistVars
ResetAndReload ==
    /\ NSD_download_times' = 0
    /\ networkstatus_set_current_consensus(GSRI, current_consensus, the_nodelist)

\* The call raises: it reverts, or the node does not answer.
DownloadRaises ==
    /\ DownloadDue
    /\ \/ ~client_download_NSD_allowed /\ UNCHANGED bounds
       \/ Fail
    /\ ResetAndReload
    /\ UNCHANGED <<contractVars, cpc, answer, NSD, GSRI>>

\* The call returns, and the file is opened, which empties it.
DownloadNSD ==
    /\ DownloadDue /\ client_download_NSD_allowed
    /\ cpc' = "writing"
    /\ answer' = Lines(client_download_NSD)
    /\ NSD' = <<>>
    /\ UNCHANGED <<contractVars, NSD_download_times, GSRI, nodelistVars, bounds>>

WriteNSD ==
    /\ cpc = "writing"
    /\ cpc' = "run"
    /\ NSD' = answer
    /\ answer' = <<>>
    /\ ResetAndReload
    /\ UNCHANGED <<contractVars, GSRI, bounds>>

\* The memory of the process is lost, and lines not yet written with it.
Kill ==
    /\ cpc # "dead" /\ kills < MaxKill
    /\ cpc' = "dead" /\ kills' = kills + 1
    /\ NSD_download_times' = DownloadTicks
    /\ answer' = <<>>
    /\ current_consensus' = NoConsensus /\ the_nodelist' = EmptyNodelist
    /\ UNCHANGED <<contractVars, NSD, GSRI, failures, replacements>>

\* A new process reads the consensus before its event loop starts.
Restart ==
    /\ cpc = "dead" /\ cpc' = "run"
    /\ networkstatus_set_current_consensus(GSRI, current_consensus, the_nodelist)
    /\ UNCHANGED <<contractVars, NSD_download_times, answer, NSD, GSRI, bounds>>

\* The operator of the client replaces or removes the file GSRI.
ReplaceGSRI ==
    /\ replacements < MaxReplace /\ replacements' = replacements + 1
    /\ GSRI' \in (Documents \cup {None}) \ {GSRI}
    /\ UNCHANGED <<contractVars, NSD_download_times, cpc, answer, NSD, nodelistVars,
                   failures, kills>>

ClientStep ==
    CountTick \/ LoadFails \/ DownloadRaises \/ DownloadNSD \/ WriteNSD \/ Restart

\* Relays and the owner change the directory meanwhile.
ContractStep ==
    /\ \/ \E a \in Addr \ {Owner} : relay_register(a)
       \/ \E a \in Addr, up \in UploadCalls : relay_upload_SRI_and_NSD(a, up)
       \/ \E a \in Addr : relay_cancellation(a)
       \/ \E call \in HealthCalls : modifyHealthFlag(Owner, call[1], call[2])
    /\ UNCHANGED clientVars

Next == ClientStep \/ Kill \/ ReplaceGSRI \/ ContractStep

Spec == Init /\ [][Next]_vars

\* The timer keeps firing, an open file gets written, a dead client restarted.
FairSpec == Spec /\ WF_vars(ClientStep)

-----------------------------------------------------------------------------
(* Properties.                                                             *)

\* The types of the client's statics and files; only a process that has the file
\* open has lines to write, and the file is empty as long as it is open.
ClientTypeOK ==
    /\ NSD_download_times \in 0..DownloadTicks
    /\ cpc \in {"run", "writing", "dead"}
    /\ answer \in Seq(Index \X Bytes) /\ NSD \in Seq(Index \X Bytes)
    /\ GSRI \in Documents \cup {None}
    /\ current_consensus \in [routerstatus_list : {Routerstatuses(d) : d \in Documents \cup {None}},
                              parse : {0, 1}]
    /\ cpc # "writing" => answer = <<>>
    /\ cpc = "writing" => NSD = <<>> /\ NSD_download_times = DownloadTicks

\* What the file should say: the healthy relays, each with the hash it uploaded.
Healthy == {i \in 1..(relayIndex - 1) : relay[i].healthflag}
Directory == {<<i, relay[i].NSD>> : i \in Healthy}
AllUploaded == \A i \in Healthy : relay[i].NSD # EmptyBytes

\* Each hash is filed under the relay that uploaded it, however many relays
\* before it are cancelled or expelled, once every healthy relay has uploaded.
\* (A healthy relay without an upload shifts the hashes of all later ones.)
NSDAttribution ==
    [][cpc' = "writing" /\ cpc # "writing" /\ AllUploaded => ToSet(answer') = Directory]_vars

\* Once the directory stays downloadable and complete, the file follows it: it
\* is that directory again and again, and otherwise at most being rewritten.
NSDConverges ==
    <>[][UNCHANGED relay]_vars /\ <>[](client_download_NSD_allowed /\ AllUploaded) =>
        /\ []<>(ToSet(NSD) = Directory)
        /\ <>[](NSD = <<>> \/ ToSet(NSD) = Directory)

\* A GSRI file that parses and stays in place becomes the consensus, even if every
\* download of NSD raises, and every relay it lists with an ed25519 identity of
\* its own ends up listed under that identity: a node that finds its key still
\* taken by a node about to be dropped gets it with the next reload.  A file of
\* some other text parses too, and ends with the client knowing no relay.
NodelistFollowsFile ==
    <>[][UNCHANGED GSRI]_vars => <>[](Parses(GSRI) =>
        LET rs == Routerstatuses(GSRI)
        IN  /\ Entries = rs
            /\ \A i \in DOMAIN rs : rs[i].ed25519 # NoKey =>
                 the_nodelist.nodes[rs[i].identity_digest].ed25519_id = rs[i].ed25519)

=============================================================================
