---------------------------- MODULE MembershipLog ----------------------------
(***************************************************************************)
(* What the directory promises about the set of relays: it has a history   *)
(* of broadcast sets, one per value of the counter, which only grows.  A   *)
(* relay that joins gets an index that no earlier set contains; a relay    *)
(* that is expelled never comes back under the same index.                 *)
(*                                                                         *)
(* past[c] is the set of indices an SRI uploaded under counter c is        *)
(* encrypted for.  DirectoryContract implements this specification as long *)
(* as its counters do not wrap around (ImplementsMembershipLog there).     *)
(***************************************************************************)
EXTENDS Naturals, Sequences

CONSTANT RelayIndex    \* the indices a relay can be given
VARIABLE past

\* The set in force, and every index that was ever in one.
Members == past[Len(past)]
EverMember == UNION {past[c] : c \in 1..Len(past)}

MLInit == past = <<{}>>

Join(n) ==
    /\ n \notin EverMember
    /\ past' = Append(past, Members \cup {n})

Expel(gone) ==
    /\ gone \subseteq Members
    /\ past' = Append(past, Members \ gone)

MLNext ==
    \/ \E n \in RelayIndex : Join(n)
    \/ \E gone \in SUBSET Members : Expel(gone)

MLSpec == MLInit /\ [][MLNext]_past

=============================================================================
