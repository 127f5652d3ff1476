-------------------------- MODULE MCRelayDirectory --------------------------
(* Two relays and the owner on one contract. *)
EXTENDS RelayDirectory, TLC

CONSTANTS o, r1, r2

MCAddr == {o, r1, r2}
MCRelay == {r1, r2}
MCBytes == {EmptyBytes} \cup {<<[receivers |-> S]>> : S \in SUBSET Index}
           \cup {<<s>> : s \in SRI} \cup {<<sha256(s)>> : s \in SRI}
ExpelFirst == {<<1, <<1>>>>}
Symmetry == Permutations(MCRelay)

=============================================================================
