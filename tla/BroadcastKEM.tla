---------------------------- MODULE BroadcastKEM ----------------------------
(***************************************************************************)
(* The broadcast key encapsulation of router.c (the BGW scheme over the    *)
(* PBC library): receivers 0..N-1 are laid out in A rows of B columns.     *)
(*                                                                         *)
(* Group elements are modelled in the exponent.  With secrets alpha and    *)
(* gamma_1..gamma_A an element g^p is the polynomial p, a function from    *)
(* monomials to integer coefficients: <<0, k>> is alpha^k and <<r, k>> is  *)
(* gamma_r * alpha^k.  Multiplying elements adds polynomials, dividing     *)
(* subtracts them, and pairing with g^(alpha^k) multiplies by alpha^k.     *)
(* The random t of an encryption multiplies K and all of HDR alike and is  *)
(* left out.  Two elements with different polynomials are different keys.  *)
(*                                                                         *)
(* The receivers S are sets: relayGetSet and relayDownloadSRI never hand   *)
(* over a list with repetitions.                                           *)
(***************************************************************************)
EXTENDS Integers

CONSTANT MaxRelayNumber    \* MAX_REALY_NUMBER, 1000 in the code

ASSUME MaxRelayAssumption == MaxRelayNumber \in Nat \ {0}

\* setup_global_system: B = (int) sqrt(n), A = ceiling(n / B), N = A * B.
B == CHOOSE b \in 1..MaxRelayNumber :
        b * b <= MaxRelayNumber /\ (b + 1) * (b + 1) > MaxRelayNumber
ARoundedDown == MaxRelayNumber \div B    \* mutant: the last row is missing
A == (MaxRelayNumber + B - 1) \div B
N == A * B

\* index / B and index % B, which C truncates towards zero: a relay that is not
\* in its own set of indices has index -1.
Row(i) == IF i >= 0 THEN i \div B ELSE -((-i) \div B)
Col(i) == IF i >= 0 THEN i % B ELSE -((-i) % B)

Monomial == (0..A) \X (0..(2 * B))
One == [m \in Monomial |-> 0]
Power(m) == [One EXCEPT ![m] = 1]
Divide(x, y) == [m \in Monomial |-> x[m] - y[m]]

\* The public key PK (bkem_param) and the private key d_i of index i.
g_i(k) == Power(<<0, k + 1>>)
v_i(r) == Power(<<r + 1, 0>>)
d_i(i) == Power(<<Row(i) + 1, Col(i) + 1>>)

-----------------------------------------------------------------------------

\* The receivers each side accepts: encryption refuses S[i] >= N, decryption
\* S[i] > N.  At the first receiver refused the function returns with the key
\* unset.  Neither side checks index.
EncryptionAccepts(s) == 0 <= s /\ s < N
DecryptionAccepts(s) == 0 <= s /\ s <= N
EncryptionDefined(S) == \A s \in S : EncryptionAccepts(s)
DecryptionDefined(S) == \A s \in S : DecryptionAccepts(s)

\* Entries of the array g_i, of 2B elements, that the derivations read.  g_i[B]
\* would be alpha^(B+1), the key itself.
EncryptionReads(S) ==
    {B - 1, 0} \cup {B - 1 - Col(s) : s \in {r \in S : EncryptionAccepts(r)}}
\* Mutant: the receiver's own place is not left out.
DecryptionReadsSelf(S, index) ==
    {Col(index)} \cup
    {B - Col(s) + Col(index) :
        s \in {r \in S : DecryptionAccepts(r) /\ Row(r) = Row(index)}}
DecryptionReads(S, index) ==
    {Col(index)} \cup
    {B - Col(s) + Col(index) :
        s \in {r \in S : /\ DecryptionAccepts(r)
                        /\ Row(r) = Row(index) /\ Col(r) # Col(index)}}

\* Entries of the array HDR, of A+1 elements, that encryption multiplies and
\* decryption reads, the latter before it looks at S.
HDRWrites(S) == {Row(s) + 1 : s \in {r \in S : EncryptionAccepts(r)}}
HDRReads(index) == {0, Row(index) + 1}

\* Decryption stays inside both arrays.
DecryptionInBounds(S, index) ==
    /\ DecryptionReads(S, index) \subseteq 0..(2 * B - 1)
    /\ HDRReads(index) \subseteq 0..A

\* The key derivation ends with a key: it neither returns early nor leaves the
\* arrays.
DerivationDefined(S, index) == DecryptionDefined(S) /\ DecryptionInBounds(S, index)

\* Pairing with g_i[b] multiplies by alpha^(b+1).
Pair(b, x) ==
    [m \in Monomial |->
        IF m[2] - (b + 1) >= 0 THEN x[<<m[1], m[2] - (b + 1)>>] ELSE 0]

\* K = e(g_i[B-1], g_i[0])^t
EncryptionKey == Pair(B - 1, g_i(0))

\* HDR[r+1] = v_r times g_i[B-1-pos] for every receiver in row r; HDR[0], "row"
\* -1, is the generator, of exponent alpha^0.
HDR(S, r) ==
    [m \in Monomial |->
        v_i(r)[m] + IF \E s \in S : Row(s) = r /\ g_i(B - 1 - Col(s))[m] = 1 THEN 1 ELSE 0]

\* d_i times g_i[B-pos+b] for every other receiver in the row of index.
\* Mutant: of any row.
DenominatorAllRows(S, index, d) ==
    [m \in Monomial |->
        d[m] + IF \E s \in S : /\ Col(s) # Col(index)
                               /\ g_i(B - Col(s) + Col(index))[m] = 1
               THEN 1 ELSE 0]
Denominator(S, index, d) ==
    [m \in Monomial |->
        d[m] + IF \E s \in S : /\ Row(s) = Row(index) /\ Col(s) # Col(index)
                               /\ g_i(B - Col(s) + Col(index))[m] = 1
               THEN 1 ELSE 0]

\* get_decryption_key, for a header encrypted to Senc, a receiver with index
\* index and private key d that takes Sdec for the set of receivers.
DecryptionKey(Senc, Sdec, index, d) ==
    Divide(Pair(Col(index), HDR(Senc, Row(index))), Denominator(Sdec, index, d))

\* Does the receiver get the key the sender encrypted with?
Opens(Senc, Sdec, index, sk) ==
    /\ EncryptionDefined(Senc)
    /\ DerivationDefined(Sdec, index)
    /\ DecryptionKey(Senc, Sdec, index, d_i(sk)) = EncryptionKey

-----------------------------------------------------------------------------
(* What the scheme is for.                                                 *)

\* The other receivers in the row of index.
Neighbours(S, index) == {s \in S : Row(s) = Row(index) /\ s # index}

\* A receiver gets the key exactly when the sender addressed it, it holds its
\* own private key, and it knows which others in its row were addressed.
KeyRecovered(Senc, Sdec, index, sk) ==
    /\ index \in Senc
    /\ sk = index
    /\ Neighbours(Senc, index) = Neighbours(Sdec, index)

=============================================================================
