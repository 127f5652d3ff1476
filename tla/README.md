# A TLA+ model of BADNET's directory and of the circuits it serves

BADNET is Tor 0.4.6.5 with its directory authorities replaced by an Ethereum
contract. Relays register in the contract, read one another's descriptors from
it and upload their own, encrypted for the current set of relays; clients read
the hashes of the descriptors. The contract is shared by processes that know
nothing of one another: each reads it in several calls and writes it with
transactions that may be late, replaced or refused. This project models that
directory, and two concurrent parts of Tor itself: the worker threads that
answer onion handshakes, and the flow control of a circuit.

It covers a small part of the repository. The lines the modules stand for are
1.6% of its 309,693 lines, most of which are Tor's. What the project says, it
says of the parts in the next table and of nothing else.

## The system and its parts

| Part | Source | Modules |
|---|---|---|
| Directory contract | `DirectoryContract.sol` | `DirectoryContract`, abstractly `MembershipLog` |
| Relay: registration, download, upload, key rotation | `SC/Relay.py`, `feature/relay/router.c` 2475-3065, `relay_periodic.c` | `RelayDirectory` |
| Broadcast key encapsulation | `router.c` 2476-2879 | `BroadcastKEM` |
| Client: NSD download, consensus reload | `SC/Client.py`, `mainloop.c`, `networkstatus.c` | `ClientDirectory` |
| Consensus in memory, list of nodes | `ns_parse.c`, `nodelist.c` | `Nodelist` |
| Thread pool and reply queue | `lib/evloop/workqueue.c` | `WorkQueue`, abstractly `WorkItems` |
| Onion handshakes of a relay | `cpuworker.c`, `onion_queue.c`, `command.c`, `circuitlist.c` | `CpuWorker` |
| Windows, SENDMEs and cell queue of a circuit | `sendme.c`, `relay.c`, `connection_edge.c` | `FlowControl`, abstractly `CreditWindow` |

A relay is a single-threaded C program that calls Python for every access to
the chain and waits for it. Once an hour `check_descriptor_callback` runs
`router_rebuild_descriptor(1, 1)`: build a descriptor (an *SRI*), register if
this process has not tried yet, download and decrypt everybody's SRI into the
file `NIME`, encrypt and upload its own SRI and its hash (the *NSD*). A client
reads all hashes once an hour into the file `NSD` and reloads its consensus
from the file `GSRI`. The contract numbers every registration and every health
change with a *counter* and keeps the history, so that a reader can rebuild the
receiver set an older upload was encrypted for.

Independently of this, a relay answers CREATE cells: the main thread hands the
handshakes to a pool of threads, keeps those that find no room on the onion
queue, and must cope with circuits that close while a thread has their job.

## Modules

`DirectoryContract` has one action per state-changing method. A transaction is
atomic and a failed `require` reverts it, so a reverting call is a disabled
action. Solidity 0.7 integers wrap around: `UINT8` and `UINT16` stand for 2^8
and 2^16. `IndexSet` is the receiver set `relayGetSet` computes, and
`IndexSetAt(c)` the set at counter `c`, with the history since then undone. That
is what `relayDownloadSRI` is after; its branch for expelled relays raises, which
`RelayDirectory` models.

`MembershipLog` says what the history is for: an append-only sequence of
receiver sets in which each step is the join of a fresh index or the expulsion
of members. The mapping sends the contract's state to `IndexSetAt` of all
counters.

`BroadcastKEM` models key derivation in the exponent: a group element is a
polynomial in the scheme's secrets. `KeyRecovered` is the specification that
`Opens` is compared with. The pairing library is external. Division and remainder
truncate as in C, and an index may be -1, which a failed call leaves behind:
`DerivationDefined` says when the derivation of a key neither returns early nor
leaves `g_i` and `HDR`.

`RelayDirectory` composes relays with the contract. A round is a sequence of
steps, one per call to the chain, and between two steps anything else may
happen. A Python exception reaches C as a NULL: where C uses it as a tuple or a
string the process dies (`Fault`), where it is read as a number it becomes -1,
where it is ignored the round goes on. An account has at most one pending
transaction, because the nonce is the number of executed ones. The private key
file is not part of the repository; the model gives a relay the key of the
index the chain assigned it. A wrong key is one whose plaintext does not decode;
where no key is derived at all (`NoKey`) the process may die.

`ClientDirectory` composes a client with the contract and with `Nodelist`.
Opening `NSD` empties it, so download and write are two steps. `Nodelist` reads a
consensus file as `ns_parse.c` does, without a header: entries up to the first
text that starts none. A missing file or a malformed entry leaves the consensus
alone; a file that begins with anything else is a consensus without relays. It
keeps routerstatuses, microdescriptors and their `held_by_nodes` counts through
successive consensuses. The other three cache files
`router_reload_consensus_networkstatus` looks for are taken to be absent: nothing
writes them.

`WorkQueue` has one action per stretch of code between two lock operations of a
worker, and the calls of the main thread. `CpuWorker` composes it with the main
thread's handlers, the circuits and the onion queue. `WorkItems` is the life of
one item: queued, started or cancelled, answered, once each.

`FlowControl` is both ends of an open circuit; each is one event loop, so a
handler is one step. `CreditWindow` is the abstract credit account, implemented
once in each direction. Streams have sockets of their own; linked connections
are left out. `FlowAssumption` takes the consensus parameter `circwindow` to be
a multiple of the increment, which the code does not check.

Each `MC*` module instantiates its namesake for TLC. Definitions marked
*mutant* are plausible faults; each property of a passing run is violated when
one of them replaces the definition it follows.

## What is checked

| Run | What it shows | Bounds |
|---|---|---|
| `contract` | Any callers in any order: an index has one holder, healthy relays are addressed, unregistered indices hold nothing, the history is complete and rebuilds every earlier set | 3 addresses, `MaxCounter` 5, lists with and without repetition |
| `kem` | A receiver gets the key exactly when addressed, with its own private key and the right neighbours; the exact condition under which no array is left; every index below `MaxRelayNumber` is served | a 3 x 2 grid, all pairs of receiver sets, indices from -1 |
| `relay_crash` | With key rotation and a kill anywhere: SRIs are filed under their authors, published keys never go back | 2 relays, 2 keys, 1 kill, `MaxCounter` 3 |
| `relay_faults` | Refused, late and replaced transactions, an expulsion and a cancellation: a receipt means this round's upload is what the contract holds, the history asked for exists, and a process dies only after a change or a failed registration | 2 relays, any number of faults, `MaxCounter` 4, `MaxRelayNumber` 3 |
| `relay_liveness` | Every `NIME` settles on the newest SRI of every relay | 2 relays, 2 keys, no faults |
| `client` | Hashes are filed under the right relay, `NSD` follows the chain, consensus and nodes follow the file and agree with each other | 2 relays, 2 replacements of the file, 4 contents: ordered, with a relay listed twice and a footer, malformed, other text; 1 failed call, 1 kill, `DownloadTicks` 2 for 60 |
| `flow` | No credit is lost or made up, the ends never close the circuit on each other or wait for each other, only a full queue leaves data behind | 2 streams, circuit windows 4 and 8 by 4, stream window 5 by 5, queue marks 4 and 1, limit 6 |
| `cpuworker` | No wake-up is lost, update arguments have one owner, no job loses its circuit, the pool implements `WorkItems` | 2 threads, 2 circuits, 1 other job, 2 updates |
| `onion_queue` | Counters and queues stay in step, jobs come back, updates reach the threads, neither handshake type starves the other | 3 circuits, 1 thread, room for 1 job |

Two relays are enough for every interleaving of one relay's round with another
actor's steps; the second registration, the second key and the second upload
are what the properties tell apart. In `relay_faults` `MaxRelayNumber` 3 is
what the third registration exceeds, so the encryption does run out of room; a
row then has one place and the index -1 stays inside the arrays, so `NoKey` never
holds in this run. With `MaxRelayNumber` 4 it is the other way round (760,355
states, no error): no registration exceeds the grid and processes die of
`NoKey`. `FaultsNeedChange` proves the second case, room for every
index, for all constants; the first is only model-checked. In `flow` the client writes 9 cells: the
windows of the circuit and of a stream run out and are refilled, both streams
wait for the same SENDME, and a stream has more to send after the first round
that serves it. The exit sends enough for a SENDME of the circuit in the other
direction, and on a stream that ends meanwhile. The limit of the cell queue is
reached there and is the least that will do: with 5, DATA, SENDME and one END
cell close the circuit of two ends that follow the protocol. `CircuitSurvives`
is therefore no promise for any number of streams; the comment before
`max_circuit_cell_queue_size` in `relay.c` says so too. The circuit comes to
rest when everything written has arrived, so deadlock is not checked. Symmetry
is used only
where no liveness is checked. The type invariants of the contract, the relays
and the handshakes are proved and not checked again by the runs.

*Fairness.* `RelayDirectory`: timers fire, calls to the chain return, a dead
relay is restarted (weak fairness of each relay's steps), and a pending
transaction is executed (weak fairness of `Mine`). `ClientDirectory` asks the
same of the client. `CpuWorker`: the operating system schedules every thread
and the event loop runs what is activated (weak fairness of `MainStep` and of
each worker; strong fairness of the reply callback, which other events may
interrupt but not displace for ever), and the random choice between priorities
does not pass over the same queue for ever (strong fairness of `TakeWork`).
Nothing makes a sleeping thread wake without a signal. Key rotation, kills,
faults, management, new circuits and closing ones are not fair.

### Where the code differs from what it says

Each of these runs ends in a counterexample.

| Run | What happens |
|---|---|
| `client_download` | `client_download_NSD` writes the flag of an unhealthy relay one slot too far; when that relay has the highest index, every client's download reverts. |
| `renew_after_expulsion` | After `modifyHealthFlag` every record older than the change makes `S += addSet[i]` raise; the process dies before its upload in every round. |
| `onion_queue_wait` | When the last job in flight is cancelled, the circuits on the onion queue are neither served nor culled until another CREATE cell comes. |

The models show more that has no run of its own. `relayGetSet` reads set and
counter in two calls, and a registration in between pairs one set with the
counter of another. When the last record of a round is empty or does not
decrypt, `NIME-cached` is not renamed and the next round appends to it. A
cancelled relay stays in the set everybody encrypts for. When the 8-bit counter
wraps the history is lost. With a kill during registration the new process can
go on with index 0 for good, which is why `relay_liveness` has no kills. A
client download that raises counts as a download. A healthy relay without an
upload shifts the hashes of all later ones. A consensus whose entries are out
of order is accepted, and the binary search may then miss a listed relay. One
that lists a relay twice is accepted as well, and then the assertion of
`nodelist_assert_ok` that every entry is the routerstatus of its node is false;
its call after a purge is commented out. `NodelistConsistent` states that this
assertion holds exactly for documents without repeats. A `GSRI` file that begins
with anything but an entry replaces the consensus by an empty one. With a
`circwindow` that is no multiple of the increment the ends close the circuit or
wait for each other.

## What is proved

The theorems hold for every value of the constants: any number of relays,
threads, circuits, any grid, any window, under the named `ASSUME`s on them
(integer widths are above 2, a relay is an address, the calls have their
types). Three hypotheses limit some of them:

- `NoWrap`: `MaxCounter` is below both integer widths. The contract's history
  is lost when its `uint8` wraps: `HistoryComplete` is false without it.
- `CarefulOwner`, for the refinement of `MembershipLog` only: the owner passes
  `size = list.length` to `modifyHealthFlag`, which logs the whole list but
  marks its first `size` entries.
- `RoomForAll`, for `FaultsNeedChange` only: encryption and decryption are
  defined for all indices that can be handed out, and for 0, the index of a relay
  that has none. `EncryptionHasRoom` shows that they are when
  `MaxCounter <= MaxRelayNumber`; in the code a counter that does not wrap is
  below 256 and `MAX_REALY_NUMBER` is 1000.

**Contract** (`DirectoryContractProofs`, under `NoWrap`). The invariants of the
run `contract`, type correctness, and the refinement. None is inductive alone;
`ContractInv` adds that held indices are below `relayIndex`, that only indices
handed out are unhealthy (`UnhealthyBelow`), and that `relayIndex` and
`CurrentCounter` move together (`CountersInStep`). The refinement needs
`LoggedBelow`: the history names only indices already handed out, so a step
leaves the set of every earlier counter alone.

**Key encapsulation** (`BroadcastKEMProofs`). The three properties of `kem` on
every grid.
`GridSize` shows that the A x B grid that `setup_global_system` derives from an
integer square root has at least `MaxRelayNumber` places; `KeysAgree` compares
the polynomials of the two sides coefficient by coefficient. `InBoundsOnTheGrid`
and `OffTheGrid` are the two directions of the condition in `ReadsInBounds`: an
index on the grid keeps decryption inside its arrays, -1 or `N` does not, unless
a row has a single place.

**Relays** (`RelayDirectorySteps`, `RelayDirectoryChain`,
`RelayDirectoryProofs`, under `NoWrap`). Every property of `relay_crash` and
`relay_faults`: the invariants `CounterListAvailable`, `ReceiptMeansPublished`
and `NimeAttribution`, the action properties `UploadsNeverGoBack` and
`FaultNeedsChange`; and type correctness. Also `RelaysUseContract`: the
composed system is a behaviour of the contract, so the contract's theorems hold
of it, and with `CarefulOwner` it implements `MembershipLog`. The inductive
invariant is `RelayInv`. Its conjuncts, and why they are needed:

- `ContractInv` and `HistoryInv`: a relay relies on the history it reads later;
- `RecordsAttributed` and `FileInv`: a file entry comes from a record, so the
  record must have been attributed before it was read; `ViewInv` carries this
  over the two reads in between and keeps what was read behind the chain;
- `DescriptorInv` and `KeyInv`: the key on chain is at most the pending one,
  which is at most the one on disk, so neither a late nor a replaced
  transaction takes a published key back;
- `ReceiptInv`: while a relay waits, its upload is pending, or was executed and
  not overwritten, since only its own account uploads to its record;
- `RegisteredInv`: past its first read a relay is registered, unless an index
  was given up.

`RelayInv` (in `RelayDirectoryInvariants`) is a statement about the contract and
one about each relay, `OneRelayInv(r)`. `RelayDirectorySteps` shows that a step
of relay `r` keeps its own (`RelayKept`): such a step reads the chain and changes
nothing but the process, its files and its pending transaction.
`RelayDirectoryChain` does the steps that change the contract, where the relays
that are not the sender must be shown not to be disturbed (`Undisturbed`).
`RelayDirectoryProofs` puts the steps together and draws the conclusions.
`RelayInv` was checked with TLC on the instances of `relay_crash` and
`relay_faults` before it was proved.

**Thread pool and handshakes** (`WorkQueueProofs`, `CpuWorkerProofs`). Every
safety and action property and the refinement of the runs `cpuworker` and
`onion_queue`. `WQInv` adds that an entry is in one place once (`OnePlace`,
`Apart`) and that no thread is ahead of the pool's generation (`Generations`).
`CpuInv` adds, per circuit, that its flags and pointers agree with the place of
its job. `RelayUsesPool` shows every behaviour of the relay to be one of the
pool.

**Data path of a circuit** (`CreditWindowProofs`). `WindowsStayBounded`, about
the abstract account: for every window and increment, windows stay in
`0..Start` and at most `Start` cells are under way. Its inductive invariant is
the chain credited, granted, received, packaged (`CreditChain`). That
`FlowControl` implements `CreditWindow` is checked by the run `flow`.

### Only model-checked

- Liveness (`NimeConverges`, `NSDConverges`, `NodelistFollowsFile`,
  `JobsComeBack`, `UpdatesReachThreads`, `WaitingServed`): temporal reasoning
  with fairness is outside the prover.
- `FlowControl`: its properties tie the windows, the digests and the cells under
  way of two ends to each other through nested loops over the streams; only the
  abstract account it implements is proved.
- `ClientDirectory` and `Nodelist`: the hashes of an answer are a flattened
  sequence and the list of nodes is built by folds; what they compute for every
  input needs induction over data, which the provers cannot instantiate.
- The counterexamples.

## Not modelled

The text of an SRI and of a consensus, logging, the RPC transport, gas, and the
reference counts of the embedded interpreter (the C loops over `relaySet`
release list items they only borrow; a model would have to count the references
of Python's integers). Work functions that end their thread: this program has
none. Grace period and last onion key.

Of Tor: channels and the link handshake, the cell scheduler, token buckets,
connections and buffers, circuit building by clients, path selection and entry
guards, hibernation, SOCKS, DNS and exit policies. These have state machines
that could be modelled in the same way and are not yet. Onion services, the
controller and pluggable transports are unchanged from Tor and not used by the
directory. Directory authorities, caches and clients of Tor are replaced by the
contract; their calls are commented out. Libraries, generated and bundled code
and the setup documents are pure functions, I/O or text.
