-------------------------- MODULE MCClientDirectory --------------------------
(* One client, two relays and the owner. *)
EXTENDS ClientDirectory

CONSTANTS o, a1, a2

MCAddr == {o, a1, a2}
MCBytes == {<<>>, <<"h">>, <<"k">>}
MCUploads == {[counter |-> 1, Hdr |-> <<>>, encryptedSRI |-> <<>>, NSD |-> h] :
                 h \in {<<"h">>, <<"k">>}}
Entry(id, ed) == [identity_digest |-> id, ed25519 |-> ed]
\* Two relays in order; one of them again under a new identity digest, listed
\* twice and out of order, with the other one's ed25519 identity withdrawn, and a
\* footer; a file with a malformed entry, and one of something else.
MCDocuments == {<<Entry(1, "k1"), Entry(2, "k2")>>,
                <<Entry(3, "k1"), Entry(2, NoKey), Entry(3, "k1"), Text>>,
                <<Entry(1, "k1"), Malformed>>,
                <<Text>>}
ExpelFirst == {<<1, <<1>>>>}

=============================================================================
