--------------------------- MODULE MCBroadcastKEM ---------------------------
(* One encryption after another, each decrypted by any receiver with any view *)
(* of the receiver set.  The receiver passes any index it can have: -1 when   *)
(* it is in no set of indices, N when it counts past the grid. *)
EXTENDS BroadcastKEM

VARIABLES Senc, Sdec, index, sk

vars == <<Senc, Sdec, index, sk>>

Receivers == SUBSET (0..N)

Init == Senc = {} /\ Sdec = {} /\ index = 0 /\ sk = 0

Encrypt == /\ Senc = {}
           /\ Senc' \in Receivers
           /\ UNCHANGED <<Sdec, index, sk>>

Decrypt == /\ Sdec = {} /\ index = 0 /\ sk = 0
           /\ Sdec' \in Receivers
           /\ index' \in -1..N
           /\ sk' \in {index' % N, (index' + 1) % N, (index' + B) % N}
           /\ UNCHANGED Senc

NextRecord == Senc' = {} /\ Sdec' = {} /\ index' = 0 /\ sk' = 0

Next == Encrypt \/ Decrypt \/ NextRecord

Spec == Init /\ [][Next]_vars

\* Where the derivations of both sides are defined, decryption yields the key
\* exactly for addressed receivers with their own private key and the right
\* neighbours, whatever the rest of the set is.
DecryptionCorrect ==
    EncryptionDefined(Senc) /\ DerivationDefined(Sdec, index) =>
        (Opens(Senc, Sdec, index, sk) <=> KeyRecovered(Senc, Sdec, index, sk))

\* get_encryption_key never leaves g_i or HDR, whatever the set: it checks every
\* receiver before it uses it.  get_decryption_key checks the receivers only,
\* and one too weakly (S[i] > N): it stays inside g_i and HDR, and off the
\* missing entry g_i[B], for every set if its index is on the grid, and for no
\* set if the index is -1 (with more than one column) or N.  That the index is
\* on the grid is the caller's to ensure.
ReadsInBounds ==
    /\ EncryptionReads(Senc) \subseteq 0..(B - 1)
    /\ HDRWrites(Senc) \subseteq 1..A
    /\ IF index \in 0..(N - 1)
       THEN DecryptionInBounds(Sdec, index) /\ B \notin DecryptionReads(Sdec, index)
       ELSE B > 1 => ~DecryptionInBounds(Sdec, index)

\* The grid of setup_global_system has a place for every index below
\* MAX_REALY_NUMBER: whatever set of them is addressed, each member gets the key.
EveryReceiverServed ==
    Senc \subseteq 0..(MaxRelayNumber - 1) =>
        EncryptionDefined(Senc) /\ \A i \in Senc : Opens(Senc, Senc, i, i)

=============================================================================
