------------------------- MODULE MCDirectoryContract -------------------------
(* The contract alone, called by anyone in any order. *)
EXTENDS DirectoryContract

CONSTANTS o, a1, a2

MCAddr == {o, a1, a2}
MCBytes == {<<>>, <<"x">>}
MCUploads == {[counter |-> 1, Hdr |-> <<"x">>, encryptedSRI |-> <<"x">>, NSD |-> <<"x">>]}
\* Lists without and with repetitions, and a size past the end of the list.
MCHealthCalls ==
    {<<Len(l), l>> : l \in {<<>>, <<1>>, <<2>>, <<2, 1>>, <<1, 1>>, <<3>>}} \cup {<<2, <<1>>>>}

=============================================================================
