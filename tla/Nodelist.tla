------------------------------ MODULE Nodelist ------------------------------
(***************************************************************************)
(* The consensus a client has in memory and the list of nodes built from   *)
(* it: ns_parse.c makes a routerstatus with a microdescriptor of its own   *)
(* for every entry of the document, in the order of the file, and          *)
(* nodelist_set_consensus() moves the nodes to the new routerstatuses.     *)
(*                                                                         *)
(* Routerstatuses are named by their position.  A microdescriptor is named *)
(* by its routerstatus and by the parse that made it; only two parses can  *)
(* be told apart at a time, so they alternate.  Microdescriptors that      *)
(* neither a node nor the consensus knows are left out, and so are the     *)
(* three other cache files of router_reload_consensus_networkstatus():     *)
(* nothing writes them any more.                                           *)
(***************************************************************************)
EXTENDS Integers, Sequences, SequencesExt, FiniteSets, Functions

CONSTANT Documents   \* contents of the consensus file: sequences of entries
                     \* [identity_digest, ed25519], with Malformed and Text

None == <<>>         \* no file, or an empty one, which is not read either
NoKey == "zero"      \* no ed25519 identity

\* An "r " entry that does not parse, and text that starts no entry: a footer, or
\* anything else at the start of a file.
Malformed == [identity_digest |-> 0, ed25519 |-> "malformed"]
Text == [identity_digest |-> 0, ed25519 |-> "text"]

VARIABLES
    current_consensus,   \* the document, and the parse it comes from
    the_nodelist         \* nodes by identity and by ed25519 identity, and
                         \* held_by_nodes of each microdescriptor

nodelistVars == <<current_consensus, the_nodelist>>

NoConsensus == [routerstatus_list |-> <<>>, parse |-> 0]
EmptyNodelist == [nodes |-> <<>>, nodes_by_ed_id |-> <<>>,
                  held_by_nodes |-> <<>>]

With(f, x, y) == [z \in DOMAIN f \cup {x} |-> IF z = x THEN y ELSE f[z]]
Without(f, S) == Restrict(f, DOMAIN f \ S)

(* Step(x): one assignment after another.  Stated through the value of x,  *)
(* so that TLC evaluates x once.                                           *)
Then(x, Step(_)) == CHOOSE y \in {Step(z) : z \in {x}} : TRUE

(* The loop of networkstatus_parse_vote_from_string() reads entries as     *)
(* long as the text goes on with "r ".  One malformed entry among them     *)
(* rejects the file; whatever comes after them does not: a file of         *)
(* something else is a consensus without relays.                           *)
Routerstatuses(file) ==
    LET ends == {i \in DOMAIN file : file[i] = Text}
    IN  SubSeq(file, 1, IF ends = {} THEN Len(file) ELSE Min(ends) - 1)
Parses(file) == file # None /\ Malformed \notin Range(Routerstatuses(file))

networkstatus_parse(file, old) ==
    [routerstatus_list |-> Routerstatuses(file), parse |-> 1 - old.parse]

Microdesc(ns, i) == [parse |-> ns.parse, rs |-> i,
                     ed25519 |-> ns.routerstatus_list[i].ed25519]
Microdescs(ns) == {Microdesc(ns, i) : i \in DOMAIN ns.routerstatus_list}
NoMicrodesc == [parse |-> 0, rs |-> 0, ed25519 |-> NoKey]

-----------------------------------------------------------------------------
(* nodelist_set_consensus().  A nodelist is passed through its steps.      *)

node_get_or_create(nl, id) ==
    IF id \in DOMAIN nl.nodes THEN nl
    ELSE [nl EXCEPT !.nodes = With(@, id,
             [rs |-> 0, md |-> NoMicrodesc, ed25519_id |-> NoKey])]

node_remove_from_ed25519_map(nl, id) ==
    LET ed == nl.nodes[id].ed25519_id
    IN  IF ed = NoKey THEN nl
        ELSE [nl EXCEPT !.nodes[id].ed25519_id = NoKey,
                        !.nodes_by_ed_id =
                            Without(@, {k \in {ed} \cap DOMAIN @ : @[k] = id})]

(* A key that another node has, even one that is about to be dropped, is   *)
(* not taken over.                                                         *)
node_add_to_ed25519_map(nl, id) ==
    LET key == nl.nodes[id].md.ed25519
    IN  IF \/ nl.nodes[id].ed25519_id # NoKey \/ key = NoKey
           \/ key \in DOMAIN nl.nodes_by_ed_id
          THEN nl
          ELSE [nl EXCEPT !.nodes[id].ed25519_id = key,
                          !.nodes_by_ed_id = With(@, key, id)]

Release(held, md) == [m \in DOMAIN held |-> IF m = md THEN held[m] - 1
                                                      ELSE held[m]]

\* Mutant: the microdescriptor a node had is not released.
HoldOnly(nl, id, md) ==
    [nl EXCEPT !.nodes[id].md = md, !.held_by_nodes[md] = @ + 1]

SetMicrodesc(nl, id, md) ==
    [nl EXCEPT !.nodes[id].md = md,
               !.held_by_nodes = [Release(@, nl.nodes[id].md)
                                    EXCEPT ![md] = @ + 1]]

SetNode(nl, ns, i) ==
    LET id == ns.routerstatus_list[i].identity_digest
        Create(l) == [node_get_or_create(l, id) EXCEPT !.nodes[id].rs = i]
        Unlist(l) == node_remove_from_ed25519_map(l, id)
        Hold(l) == SetMicrodesc(l, id, Microdesc(ns, i))
        List(l) == node_add_to_ed25519_map(l, id)
    IN  Then(Then(Then(Then(nl, Create), Unlist), Hold), List)

nodelist_drop_node(nl, id) ==
    LET Unlist(l) == node_remove_from_ed25519_map(l, id)
        Free(l) == [l EXCEPT !.held_by_nodes = Release(@, l.nodes[id].md),
                             !.nodes = Without(@, {id})]
    IN  Then(Then(nl, Unlist), Free)

nodelist_purge(nl) ==
    LET unusable == {id \in DOMAIN nl.nodes : nl.nodes[id].rs = 0}
    IN  FoldLeft(nodelist_drop_node, nl, SetToSeq(unusable))

(* Microdescriptors nobody knows any more (they are never freed).          *)
Forget(nl, ns) ==
    LET known == Microdescs(ns) \cup {nl.nodes[id].md : id \in DOMAIN nl.nodes}
                   \cup {m \in DOMAIN nl.held_by_nodes :
                           nl.held_by_nodes[m] # 0}
    IN  [nl EXCEPT !.held_by_nodes = [m \in known |-> @[m]]]

nodelist_set_consensus(nl, ns) ==
    LET Parsed(l) == [l EXCEPT
            !.nodes = [id \in DOMAIN @ |-> [@[id] EXCEPT !.rs = 0]],
            !.held_by_nodes = [m \in DOMAIN @ \cup Microdescs(ns) |->
                                 IF m \in Microdescs(ns) THEN 0 ELSE @[m]]]
        Set(l) == FoldLeft(LAMBDA k, i : SetNode(k, ns, i), l,
                           [i \in DOMAIN ns.routerstatus_list |-> i])
        End(l) == Forget(l, ns)
    IN  Then(Then(Then(Then(nl, Parsed), Set), nodelist_purge), End)

(* reload_consensus_from_file(): a file that is missing or has a malformed *)
(* entry leaves the consensus alone; any other becomes the consensus.      *)
networkstatus_set_current_consensus(file, ns, nl) ==
    LET new == networkstatus_parse(file, ns)
    IN  IF Parses(file)
          THEN /\ current_consensus' = new
               /\ the_nodelist' = nodelist_set_consensus(nl, new)
          ELSE /\ current_consensus' = ns
               /\ the_nodelist' = nl

-----------------------------------------------------------------------------
(* Looking a relay up in the consensus: smartlist_bsearch_idx(), with      *)
(* positions from 1 and 0 for "not found".                                 *)
smartlist_bsearch_idx(sl, digest, last) ==
    LET search[range \in (1 .. last + 1) \X (0 .. last)] ==
          LET lo == range[1]
              hi == range[2]
              mid == lo + (hi - lo) \div 2
          IN  IF lo > hi THEN 0
              ELSE IF sl[mid].identity_digest = digest THEN mid
              ELSE IF digest > sl[mid].identity_digest
                THEN search[<<mid + 1, hi>>] ELSE search[<<lo, mid - 1>>]
    IN  search[<<1, last>>]

\* Mutant: the search starts one entry short of the end.
FindAllButLast(ns, digest) ==
    LET sl == ns.routerstatus_list
    IN  IF sl = <<>> THEN 0 ELSE smartlist_bsearch_idx(sl, digest, Len(sl) - 1)

networkstatus_vote_find_entry(ns, digest) ==
    smartlist_bsearch_idx(ns.routerstatus_list, digest,
                          Len(ns.routerstatus_list))

-----------------------------------------------------------------------------
(* Properties.                                                             *)

Entries == current_consensus.routerstatus_list
Identities == {Entries[i].identity_digest : i \in DOMAIN Entries}
Newest(id) == CHOOSE i \in DOMAIN Entries :
    /\ Entries[i].identity_digest = id
    /\ \A j \in DOMAIN Entries : Entries[j].identity_digest = id => j <= i

(* nodelist_assert_ok(), which nodelist_purge() no longer calls, asserts   *)
(* that the node of every entry has that entry for its routerstatus.       *)
EveryEntryHasItsNode ==
    \A i \in DOMAIN Entries : the_nodelist.nodes[Entries[i].identity_digest].rs = i
ListedOnce == Cardinality(Identities) = Len(Entries)

(* After every reload the nodes are the relays of the consensus, each with *)
(* its last entry and the microdescriptor that came with it, none is left  *)
(* with a routerstatus or microdescriptor of an earlier consensus, every   *)
(* held_by_nodes is the number of nodes that hold the microdescriptor, and *)
(* the maps by identity and by ed25519 identity agree.  This is weaker     *)
(* than nodelist_assert_ok(): its assertion on entries holds exactly when  *)
(* the document lists no relay twice, which the parser no longer checks.   *)
NodelistConsistent ==
    LET nl == the_nodelist
    IN  /\ DOMAIN nl.nodes = Identities
        /\ EveryEntryHasItsNode <=> ListedOnce
        /\ \A id \in Identities : LET node == nl.nodes[id] IN
             /\ node.rs = Newest(id)
             /\ node.md = Microdesc(current_consensus, Newest(id))
             /\ node.ed25519_id # NoKey =>
                  /\ node.ed25519_id = node.md.ed25519
                  /\ nl.nodes_by_ed_id[node.ed25519_id] = id
        /\ \A m \in DOMAIN nl.held_by_nodes : nl.held_by_nodes[m] =
             Cardinality({id \in Identities : nl.nodes[id].md = m})
        /\ \A k \in DOMAIN nl.nodes_by_ed_id :
             nl.nodes[nl.nodes_by_ed_id[k]].ed25519_id = k

(* The binary search finds the entry of every node as long as the document *)
(* lists the relays in the order of their digests, and never that of       *)
(* another relay.  The parser no longer checks the order.                  *)
ListedRelaysFound ==
    LET Found(id) == networkstatus_vote_find_entry(current_consensus, id)
        sorted == \A i, j \in DOMAIN Entries : i < j =>
                    Entries[i].identity_digest < Entries[j].identity_digest
    IN  \A id \in DOMAIN the_nodelist.nodes :
          \/ Found(id) = the_nodelist.nodes[id].rs
          \/ ~sorted /\ (Found(id) # 0 =>
                           Entries[Found(id)].identity_digest = id)
=============================================================================
