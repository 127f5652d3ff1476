------------------------- MODULE BroadcastKEMProofs -------------------------
(***************************************************************************)
(* Proofs about the broadcast key encapsulation, for every size of the     *)
(* system, every set of receivers and every view a receiver has of it.     *)
(***************************************************************************)
EXTENDS MCBroadcastKEM, WellFoundedInduction, TLAPS

-----------------------------------------------------------------------------
(* Facts about natural numbers.                                            *)

\* A set of numbers has a least one.
LEMMA LeastNumber ==
    ASSUME NEW S \in SUBSET Nat, S # {}
    PROVE  \E n \in S : \A k \in S : n <= k
<1> DEFINE R == OpToRel(<, Nat)
<1>1. IsWellFoundedOn(R, Nat)
  BY NatLessThanWellFounded
<1>2. \A x, y \in Nat : <<y, x>> \in R <=> y < x
  BY DEF OpToRel
<1> HIDE DEF R
<1>3. PICK n \in S : \A k \in S : ~(<<k, n>> \in R)
  BY <1>1, WFMin
<1>4. \A k \in S : ~(k < n)
  BY <1>2, <1>3
<1> QED BY <1>4

\* Quotient and remainder.
LEMMA Division ==
    ASSUME NEW s \in Nat, NEW b \in Nat, b >= 1
    PROVE  /\ s \div b \in Nat
           /\ s % b \in 0..(b - 1)
           /\ s = b * (s \div b) + (s % b)
  BY SMT

\* A product grows with its factors.
LEMMA ProductMonotone ==
    ASSUME NEW b \in Nat, NEW x \in Int, NEW y \in Int, x <= y
    PROVE  b * x <= b * y /\ b * x \in Int /\ b * y \in Int
  BY SMT

-----------------------------------------------------------------------------
(* The grid.                                                               *)

\* setup_global_system finds the number of columns: every positive number has
\* an integer square root.
LEMMA SquareRoot ==
    /\ B \in 1..MaxRelayNumber
    /\ B * B <= MaxRelayNumber /\ (B + 1) * (B + 1) > MaxRelayNumber
<1> DEFINE M == MaxRelayNumber
           S == {n \in Nat : (n + 1) * (n + 1) > M}
<1>1. M \in Nat /\ M >= 1
  BY MaxRelayAssumption
<1>2. M \in S
  <2>1. (M + 1) * (M + 1) = M * M + M + M + 1 /\ M * M >= 0
    BY <1>1
  <2> QED BY <1>1, <2>1
<1>3. PICK n \in S : \A k \in S : n <= k
  <2>1. S \in SUBSET Nat /\ S # {}
    BY <1>2
  <2> HIDE DEF S
  <2> QED BY <2>1, LeastNumber
<1>4. n \in Nat /\ (n + 1) * (n + 1) > M
  OBVIOUS
<1>5. n >= 1
  <2>1. n # 0
    BY <1>1, <1>4
  <2> QED BY <2>1, <1>4
<1>6. n * n <= M
  <2>1. n - 1 \in Nat /\ n - 1 \notin S
    BY <1>3, <1>4, <1>5
  <2>2. ~((n - 1 + 1) * (n - 1 + 1) > M)
    BY <2>1
  <2>3. n - 1 + 1 = n
    BY <1>4
  <2>4. n * n \in Int
    BY <1>4
  <2> QED BY <1>1, <2>2, <2>3, <2>4
<1>7. n <= M
  <2>1. n * 1 <= n * n
    BY <1>4, <1>5, ProductMonotone
  <2> QED BY <2>1, <1>1, <1>4, <1>6
<1>8. \E b \in 1..M : b * b <= M /\ (b + 1) * (b + 1) > M
  BY <1>1, <1>4, <1>5, <1>6, <1>7
<1> QED BY <1>8 DEF B

\* The grid has A >= 1 rows of B >= 1 columns and room for every index.
LEMMA GridSize ==
    /\ A \in Nat /\ A >= 1
    /\ B \in Nat /\ B >= 1
    /\ N \in Nat /\ N = B * A
    /\ MaxRelayNumber <= N
<1>1. MaxRelayNumber \in Nat /\ B \in Nat /\ B >= 1 /\ B <= MaxRelayNumber
  BY SquareRoot, MaxRelayAssumption
<1> DEFINE m == MaxRelayNumber + B - 1
<1>2. m \in Nat
  BY <1>1
<1>3. /\ A \in Nat
      /\ m % B \in 0..(B - 1)
      /\ m = B * A + (m % B)
  BY <1>1, <1>2, Division DEF A
<1>4. B * A \in Nat /\ N = B * A
  BY <1>1, <1>3 DEF N
<1>5. MaxRelayNumber <= B * A
  BY <1>1, <1>3, <1>4
<1>6. A # 0
  <2> SUFFICES ASSUME A = 0 PROVE FALSE
    OBVIOUS
  <2>1. B * A = 0
    BY <1>1
  <2> QED BY <1>1, <1>5, <2>1
<1> QED BY <1>1, <1>3, <1>4, <1>5, <1>6

\* Row and column of a place, and that they determine it.
LEMMA Place ==
    ASSUME NEW s \in Nat
    PROVE  /\ Row(s) \in Nat
           /\ Col(s) \in 0..(B - 1)
           /\ s = B * Row(s) + Col(s)
<1>1. Row(s) = s \div B /\ Col(s) = s % B
  BY DEF Row, Col
<1>2. B \in Nat /\ B >= 1
  BY GridSize
<1>3. /\ s \div B \in Nat /\ s % B \in 0..(B - 1)
      /\ s = B * (s \div B) + (s % B)
  BY <1>2, Division
<1> QED BY <1>1, <1>3

LEMMA PlaceUnique ==
    ASSUME NEW s \in Nat, NEW t \in Nat, Row(s) = Row(t), Col(s) = Col(t)
    PROVE  s = t
<1>1. s = B * Row(s) + Col(s) /\ t = B * Row(t) + Col(t)
  BY Place
<1> QED BY <1>1

\* The places below N are those in the first A rows.
LEMMA RowBelow ==
    ASSUME NEW s \in Nat
    PROVE  s < N <=> Row(s) < A
<1>1. /\ Row(s) \in Nat /\ Col(s) \in 0..(B - 1) /\ s = B * Row(s) + Col(s)
  BY Place
<1>2. A \in Nat /\ B \in Nat /\ B >= 1 /\ N = B * A
  BY GridSize
<1>3. ASSUME Row(s) < A PROVE s < N
  <2>1. B * (Row(s) + 1) <= B * A /\ B * (Row(s) + 1) = B * Row(s) + B
        /\ B * Row(s) \in Int /\ B * A \in Int
    BY <1>1, <1>2, <1>3, ProductMonotone
  <2> QED BY <1>1, <1>2, <2>1
<1>4. ASSUME ~(Row(s) < A) PROVE ~(s < N)
  <2>1. B * A <= B * Row(s) /\ B * Row(s) \in Int /\ B * A \in Int
    BY <1>1, <1>2, <1>4, ProductMonotone
  <2> QED BY <1>1, <1>2, <2>1
<1> QED BY <1>3, <1>4

-----------------------------------------------------------------------------
(* Group elements, monomial by monomial.                                   *)

\* The coefficient 1 if F, else 0.
If(F) == IF F THEN 1 ELSE 0

\* Is a receiver in row r and column c addressed?
Addressed(S, r, c) == \E s \in S : Row(s) = r /\ Col(s) = c

\* The exponents used are those of a monomial.
LEMMA PowerAt ==
    ASSUME NEW p \in 0..A, NEW k \in 0..(2 * B), NEW q \in 0..A, NEW l \in 0..(2 * B)
    PROVE  Power(<<q, l>>)[<<p, k>>] = If(p = q /\ k = l)
<1>1. <<p, k>> \in Monomial /\ <<q, l>> \in Monomial
  BY DEF Monomial
<1>2. <<p, k>> = <<q, l>> <=> p = q /\ k = l
  OBVIOUS
<1> QED BY <1>1, <1>2 DEF Power, One, If

\* The key of the sender is alpha^(B+1).
LEMMA EncryptionKeyAt ==
    ASSUME NEW p \in 0..A, NEW k \in 0..(2 * B)
    PROVE  EncryptionKey[<<p, k>>] = If(p = 0 /\ k = B + 1)
<1>1. A \in Nat /\ B \in Nat /\ B >= 1
  BY GridSize
<1>2. <<p, k>> \in Monomial /\ <<p, k>>[1] = p /\ <<p, k>>[2] = k
  BY DEF Monomial
<1>3. EncryptionKey[<<p, k>>] =
        IF k - (B - 1 + 1) >= 0 THEN g_i(0)[<<p, k - (B - 1 + 1)>>] ELSE 0
  BY <1>2 DEF EncryptionKey, Pair
<1>4. B - 1 + 1 = B
  BY <1>1
<1>5. CASE k - B >= 0
  <2>1. k - B \in 0..(2 * B) /\ 0 \in 0..A /\ 0 + 1 \in 0..(2 * B)
    BY <1>1, <1>5
  <2>2. Power(<<0, 0 + 1>>)[<<p, k - B>>] = If(p = 0 /\ k - B = 0 + 1)
    BY <2>1, PowerAt
  <2>3. k - B = 0 + 1 <=> k = B + 1
    BY <1>1
  <2> QED BY <1>3, <1>4, <1>5, <2>2, <2>3 DEF g_i, If
<1>6. CASE ~(k - B >= 0)
  <2>1. k # B + 1
    BY <1>1, <1>6
  <2> QED BY <1>3, <1>4, <1>6, <2>1 DEF If
<1> QED BY <1>5, <1>6

\* HDR[r+1] has gamma_r, and alpha^(B-c) for every column c addressed in row r.
LEMMA HDRAt ==
    ASSUME NEW S \in SUBSET Nat, NEW r \in 0..(A - 1),
           NEW p \in 0..A, NEW k \in 0..(2 * B)
    PROVE  HDR(S, r)[<<p, k>>] =
             If(p = r + 1 /\ k = 0) + If(p = 0 /\ Addressed(S, r, B - k))
<1>1. A \in Nat /\ B \in Nat /\ B >= 1
  BY GridSize
<1>2. <<p, k>> \in Monomial
  BY DEF Monomial
<1>3. v_i(r)[<<p, k>>] = If(p = r + 1 /\ k = 0)
  <2>1. r + 1 \in 0..A /\ 0 \in 0..(2 * B)
    BY <1>1
  <2> QED BY <2>1, PowerAt DEF v_i
<1>4. ASSUME NEW s \in S
      PROVE  g_i(B - 1 - Col(s))[<<p, k>>] = 1 <=> p = 0 /\ Col(s) = B - k
  <2>1. Col(s) \in 0..(B - 1)
    BY Place
  <2>2. 0 \in 0..A /\ B - 1 - Col(s) + 1 \in 0..(2 * B)
    BY <1>1, <2>1
  <2>3. g_i(B - 1 - Col(s))[<<p, k>>] = If(p = 0 /\ k = B - 1 - Col(s) + 1)
    BY <2>2, PowerAt DEF g_i
  <2>4. k = B - 1 - Col(s) + 1 <=> Col(s) = B - k
    <3>1. k \in Int /\ Col(s) \in Int /\ B \in Int
      BY <1>1, <2>1
    <3> QED BY <3>1
  <2> QED BY <2>3, <2>4 DEF If
<1>5. (\E s \in S : Row(s) = r /\ g_i(B - 1 - Col(s))[<<p, k>>] = 1)
        <=> p = 0 /\ Addressed(S, r, B - k)
  BY <1>4 DEF Addressed
<1>6. HDR(S, r)[<<p, k>>] = v_i(r)[<<p, k>>]
        + If(\E s \in S : Row(s) = r /\ g_i(B - 1 - Col(s))[<<p, k>>] = 1)
  BY <1>2 DEF HDR, If
<1> QED BY <1>3, <1>5, <1>6 DEF If

\* The column whose factor the key of receiver i has at alpha^k.
ColumnAt(i, k) == B + 1 + Col(i) - k

\* Is it there for another member of S in the row, or for the private key of j?
OtherAt(S, i, p, k) == p = 0 /\ k # B + 1 /\ Addressed(S, Row(i), ColumnAt(i, k))
PrivateAt(j, p, k) == p = Row(j) + 1 /\ k = Col(j) + 1

\* The denominator has the private key, and alpha^(B-c+b+1) for every other
\* column c that the receiver takes for addressed in its row.
LEMMA DenominatorAt ==
    ASSUME NEW S \in SUBSET Nat, NEW i \in 0..(N - 1), NEW j \in 0..(N - 1),
           NEW p \in 0..A, NEW k \in 0..(2 * B)
    PROVE  Denominator(S, i, d_i(j))[<<p, k>>] =
             If(PrivateAt(j, p, k)) + If(OtherAt(S, i, p, k))
<1> USE DEF ColumnAt, PrivateAt, OtherAt
<1>1. A \in Nat /\ B \in Nat /\ B >= 1 /\ N \in Nat
  BY GridSize
<1>2. <<p, k>> \in Monomial
  BY DEF Monomial
<1>3. i \in Nat /\ j \in Nat /\ j < N
  BY <1>1
<1>4. /\ Row(j) + 1 \in 0..A /\ Col(j) + 1 \in 0..(2 * B)
      /\ Col(i) \in 0..(B - 1)
  <2>1. /\ Row(j) \in Nat /\ Col(j) \in 0..(B - 1)
        /\ Col(i) \in 0..(B - 1)
    BY <1>3, Place
  <2>2. Row(j) < A
    BY <1>3, RowBelow
  <2> QED BY <1>1, <2>1, <2>2
<1>5. d_i(j)[<<p, k>>] = If(p = Row(j) + 1 /\ k = Col(j) + 1)
  BY <1>4, PowerAt DEF d_i
<1>6. ASSUME NEW s \in S, Col(s) # Col(i)
      PROVE  g_i(B - Col(s) + Col(i))[<<p, k>>] = 1
               <=> p = 0 /\ Col(s) = B + 1 + Col(i) - k
  <2>1. Col(s) \in 0..(B - 1)
    BY Place
  <2>2. 0 \in 0..A /\ B - Col(s) + Col(i) + 1 \in 0..(2 * B)
    BY <1>1, <1>4, <2>1
  <2>3. g_i(B - Col(s) + Col(i))[<<p, k>>] =
          If(p = 0 /\ k = B - Col(s) + Col(i) + 1)
    BY <2>2, PowerAt DEF g_i
  <2>4. k = B - Col(s) + Col(i) + 1 <=> Col(s) = B + 1 + Col(i) - k
    BY <1>1, <1>4, <2>1
  <2> QED BY <2>3, <2>4 DEF If
<1>7. B + 1 + Col(i) - k # Col(i) <=> k # B + 1
  BY <1>1, <1>4
<1>8. (\E s \in S : /\ Row(s) = Row(i) /\ Col(s) # Col(i)
                    /\ g_i(B - Col(s) + Col(i))[<<p, k>>] = 1)
        <=> p = 0 /\ k # B + 1 /\ Addressed(S, Row(i), B + 1 + Col(i) - k)
  BY <1>6, <1>7 DEF Addressed
<1>9. Denominator(S, i, d_i(j))[<<p, k>>] = d_i(j)[<<p, k>>]
        + If(\E s \in S : /\ Row(s) = Row(i) /\ Col(s) # Col(i)
                          /\ g_i(B - Col(s) + Col(i))[<<p, k>>] = 1)
  BY <1>2 DEF Denominator, If
<1> QED BY <1>5, <1>8, <1>9 DEF If

\* Row and column of the receiver whose factor pairs to alpha^k.
LEMMA PairedHDRAt ==
    ASSUME NEW S \in SUBSET Nat, NEW i \in 0..(N - 1),
           NEW p \in 0..A, NEW k \in 0..(2 * B)
    PROVE  Pair(Col(i), HDR(S, Row(i)))[<<p, k>>] =
             If(p = Row(i) + 1 /\ k = Col(i) + 1)
             + If(p = 0 /\ Addressed(S, Row(i), ColumnAt(i, k)))
<1> USE DEF ColumnAt
<1>1. A \in Nat /\ B \in Nat /\ B >= 1 /\ N \in Nat
  BY GridSize
<1>2. i \in Nat /\ i < N
  BY <1>1
<1>3. Row(i) \in 0..(A - 1) /\ Col(i) \in 0..(B - 1)
  BY <1>1, <1>2, Place, RowBelow
<1>4. <<p, k>> \in Monomial /\ <<p, k>>[1] = p /\ <<p, k>>[2] = k
  BY DEF Monomial
<1>5. Pair(Col(i), HDR(S, Row(i)))[<<p, k>>] =
        IF k - (Col(i) + 1) >= 0 THEN HDR(S, Row(i))[<<p, k - (Col(i) + 1)>>] ELSE 0
  BY <1>4 DEF Pair
<1> DEFINE l == k - (Col(i) + 1)
<1>6. l \in Int /\ k \in Int /\ Col(i) \in Int /\ B \in Int
  BY <1>1, <1>3
<1>7. B - l = B + 1 + Col(i) - k /\ (l = 0 <=> k = Col(i) + 1)
  BY <1>6
<1>8. CASE l >= 0
  <2>1. l \in 0..(2 * B)
    BY <1>1, <1>3, <1>8
  <2>2. HDR(S, Row(i))[<<p, l>>] =
          If(p = Row(i) + 1 /\ l = 0) + If(p = 0 /\ Addressed(S, Row(i), B - l))
    <3> HIDE DEF l
    <3> QED BY <1>3, <2>1, HDRAt
  <2> QED BY <1>5, <1>7, <1>8, <2>2
<1>9. CASE ~(l >= 0)
  <2>1. k # Col(i) + 1
    BY <1>6, <1>9
  <2>2. B + 1 + Col(i) - k > B
    BY <1>6, <1>9
  <2>3. ~Addressed(S, Row(i), B + 1 + Col(i) - k)
    <3> SUFFICES ASSUME NEW s \in S, Col(s) = B + 1 + Col(i) - k PROVE FALSE
      BY DEF Addressed
    <3>1. Col(s) \in 0..(B - 1)
      BY Place
    <3> QED BY <1>1, <3>1, <2>2
  <2> QED BY <1>5, <1>9, <2>1, <2>3 DEF If
<1> QED BY <1>8, <1>9

-----------------------------------------------------------------------------
(* Who gets the key.                                                       *)

\* Do the key of receiver i, with the private key of j, and the key of the
\* sender agree at a monomial?
AgreeAt(Se, Sd, i, j, p, k) ==
    DecryptionKey(Se, Sd, i, d_i(j))[<<p, k>>] = EncryptionKey[<<p, k>>]

\* The key of a receiver, and the key of the sender, agree at a monomial iff
\* the private key is the receiver's and the column of the monomial is
\* addressed alike; the receiver's own column is k = B + 1.
LEMMA KeysAgreeAt ==
    ASSUME NEW Se \in SUBSET Nat, NEW Sd \in SUBSET Nat,
           NEW i \in 0..(N - 1), NEW j \in 0..(N - 1),
           NEW p \in 0..A, NEW k \in 0..(2 * B)
    PROVE  AgreeAt(Se, Sd, i, j, p, k) <=>
             IF p = 0
             THEN Addressed(Se, Row(i), ColumnAt(i, k)) <=>
                    (k = B + 1 \/ Addressed(Sd, Row(i), ColumnAt(i, k)))
             ELSE (p = Row(i) + 1 /\ k = Col(i) + 1) <=> (p = Row(j) + 1 /\ k = Col(j) + 1)
<1> DEFINE c == ColumnAt(i, k)
           E == Addressed(Se, Row(i), c)
           F == Addressed(Sd, Row(i), c)
           I == p = Row(i) + 1 /\ k = Col(i) + 1
           J == p = Row(j) + 1 /\ k = Col(j) + 1
<1>1. <<p, k>> \in Monomial
  BY DEF Monomial
<1>2. DecryptionKey(Se, Sd, i, d_i(j))[<<p, k>>] =
        Pair(Col(i), HDR(Se, Row(i)))[<<p, k>>] - Denominator(Sd, i, d_i(j))[<<p, k>>]
  BY <1>1 DEF DecryptionKey, Divide
<1>3. Pair(Col(i), HDR(Se, Row(i)))[<<p, k>>] = If(I) + If(p = 0 /\ E)
  BY PairedHDRAt
<1>4. Denominator(Sd, i, d_i(j))[<<p, k>>] = If(PrivateAt(j, p, k)) + If(OtherAt(Sd, i, p, k))
  BY DenominatorAt
<1>5. EncryptionKey[<<p, k>>] = If(p = 0 /\ k = B + 1)
  BY EncryptionKeyAt
<1>6. p = 0 => ~I /\ ~J
  <2>1. Row(i) \in Nat /\ Row(j) \in Nat
    BY GridSize, Place
  <2> QED BY <2>1
<1> HIDE DEF E, F, I, J
<1>7. CASE p = 0
  BY <1>2, <1>3, <1>4, <1>5, <1>6, <1>7 DEF AgreeAt, If, E, F, J, PrivateAt, OtherAt
<1>8. CASE p # 0
  BY <1>2, <1>3, <1>4, <1>5, <1>8 DEF AgreeAt, If, I, J, PrivateAt, OtherAt
<1> QED BY <1>7, <1>8

\* Addressing a place is addressing the receiver that has it.
LEMMA AddressedAt ==
    ASSUME NEW S \in SUBSET Nat, NEW s \in Nat
    PROVE  Addressed(S, Row(s), Col(s)) <=> s \in S
  BY PlaceUnique DEF Addressed

\* The key a receiver derives is the sender's exactly when it should be.
LEMMA KeysAgree ==
    ASSUME NEW Se \in SUBSET Nat, NEW Sd \in SUBSET Nat,
           NEW i \in 0..(N - 1), NEW j \in 0..(N - 1)
    PROVE  DecryptionKey(Se, Sd, i, d_i(j)) = EncryptionKey <=> KeyRecovered(Se, Sd, i, j)
<1> DEFINE Agree(p, k) == AgreeAt(Se, Sd, i, j, p, k)
<1>1. A \in Nat /\ B \in Nat /\ B >= 1 /\ N \in Nat
  BY GridSize
<1>2. i \in Nat /\ i < N /\ j \in Nat /\ j < N
  BY <1>1
<1>3. /\ Row(i) \in 0..(A - 1) /\ Row(j) \in 0..(A - 1)
      /\ Col(i) \in 0..(B - 1) /\ Col(j) \in 0..(B - 1)
  BY <1>1, <1>2, Place, RowBelow
<1>4. DecryptionKey(Se, Sd, i, d_i(j)) = EncryptionKey
        <=> \A p \in 0..A, k \in 0..(2 * B) : Agree(p, k)
  <2>1. /\ DecryptionKey(Se, Sd, i, d_i(j)) =
              [m \in Monomial |-> DecryptionKey(Se, Sd, i, d_i(j))[m]]
        /\ EncryptionKey = [m \in Monomial |-> EncryptionKey[m]]
    BY DEF DecryptionKey, Divide, EncryptionKey, Pair
  <2>2. \A m \in Monomial : \E p \in 0..A, k \in 0..(2 * B) : m = <<p, k>>
    BY DEF Monomial
  <2>3. \A p \in 0..A, k \in 0..(2 * B) : <<p, k>> \in Monomial
    BY DEF Monomial
  <2> HIDE DEF Agree
  <2>4. ASSUME \A p \in 0..A, k \in 0..(2 * B) : Agree(p, k)
        PROVE  \A m \in Monomial : DecryptionKey(Se, Sd, i, d_i(j))[m] = EncryptionKey[m]
    BY <2>2, <2>4 DEF Agree, AgreeAt
  <2>5. ASSUME DecryptionKey(Se, Sd, i, d_i(j)) = EncryptionKey
        PROVE  \A p \in 0..A, k \in 0..(2 * B) : Agree(p, k)
    BY <2>5 DEF Agree, AgreeAt
  <2>6. ASSUME \A m \in Monomial : DecryptionKey(Se, Sd, i, d_i(j))[m] = EncryptionKey[m]
        PROVE  DecryptionKey(Se, Sd, i, d_i(j)) = EncryptionKey
    BY <2>1, <2>6, Zenon
  <2> QED BY <2>4, <2>5, <2>6
<1>5. \A k \in 0..(2 * B) : Agree(0, k) <=>
        (Addressed(Se, Row(i), ColumnAt(i, k)) <=>
           (k = B + 1 \/ Addressed(Sd, Row(i), ColumnAt(i, k))))
  <2> TAKE k \in 0..(2 * B)
  <2>1. 0 \in 0..A
    BY <1>1
  <2>2. Agree(0, k) <=>
          IF 0 = 0
          THEN Addressed(Se, Row(i), ColumnAt(i, k)) <=>
                 (k = B + 1 \/ Addressed(Sd, Row(i), ColumnAt(i, k)))
          ELSE (0 = Row(i) + 1 /\ k = Col(i) + 1) <=> (0 = Row(j) + 1 /\ k = Col(j) + 1)
    BY <2>1, KeysAgreeAt
  <2> QED BY <2>2, Zenon
<1>6. \A p \in 1..A, k \in 0..(2 * B) : Agree(p, k) <=>
        ((p = Row(i) + 1 /\ k = Col(i) + 1) <=> (p = Row(j) + 1 /\ k = Col(j) + 1))
  <2> TAKE p \in 1..A, k \in 0..(2 * B)
  <2>1. p \in 0..A /\ p # 0
    BY <1>1
  <2>2. Agree(p, k) <=>
          IF p = 0
          THEN Addressed(Se, Row(i), ColumnAt(i, k)) <=>
                 (k = B + 1 \/ Addressed(Sd, Row(i), ColumnAt(i, k)))
          ELSE (p = Row(i) + 1 /\ k = Col(i) + 1) <=> (p = Row(j) + 1 /\ k = Col(j) + 1)
    BY <2>1, KeysAgreeAt
  <2> QED BY <2>1, <2>2, Zenon
<1> HIDE DEF Agree
\* The sender's key appears where the receiver itself is addressed, ...
<1>7. Agree(0, B + 1) <=> i \in Se
  <2>1. B + 1 \in 0..(2 * B) /\ B + 1 + Col(i) - (B + 1) = Col(i)
    BY <1>1, <1>3
  <2> QED BY <1>2, <1>5, <2>1, AddressedAt DEF ColumnAt
\* ... the factors of its neighbours cancel, ...
<1>8. (\A k \in (0..(2 * B)) \ {B + 1} : Agree(0, k))
        <=> Neighbours(Se, i) = Neighbours(Sd, i)
  <2>1. ASSUME \A k \in (0..(2 * B)) \ {B + 1} : Agree(0, k),
               NEW s \in Nat, Row(s) = Row(i), s # i
        PROVE  s \in Se <=> s \in Sd
    <3> DEFINE k == B + 1 + Col(i) - Col(s)
    <3>1. Col(s) \in 0..(B - 1) /\ Col(s) # Col(i)
      BY <1>2, <2>1, Place, PlaceUnique
    <3>2. k \in (0..(2 * B)) \ {B + 1} /\ B + 1 + Col(i) - k = Col(s)
      BY <1>1, <1>3, <3>1
    <3> HIDE DEF k
    <3>3. Addressed(Se, Row(i), Col(s)) <=> Addressed(Sd, Row(i), Col(s))
      BY <1>5, <2>1, <3>2 DEF ColumnAt
    <3> QED BY <2>1, <3>3, AddressedAt
  <2>2. ASSUME \A k \in (0..(2 * B)) \ {B + 1} : Agree(0, k)
        PROVE  Neighbours(Se, i) = Neighbours(Sd, i)
    BY <2>1, <2>2 DEF Neighbours
  <2>3. ASSUME Neighbours(Se, i) = Neighbours(Sd, i),
               NEW k \in (0..(2 * B)) \ {B + 1}
        PROVE  Agree(0, k)
    <3> DEFINE c == B + 1 + Col(i) - k
    <3>1. c # Col(i)
      BY <1>1, <1>3
    <3> HIDE DEF c
    <3>2. ASSUME NEW s \in Nat, Row(s) = Row(i), Col(s) = c
          PROVE  s \in Se <=> s \in Sd
      BY <2>3, <3>1, <3>2 DEF Neighbours
    <3>3. Addressed(Se, Row(i), c) <=> Addressed(Sd, Row(i), c)
      BY <3>2 DEF Addressed
    <3> QED BY <1>5, <3>3 DEF c, ColumnAt
  <2> QED BY <2>2, <2>3
\* ... and the private key cancels the gamma of the row.
<1>9. (\A p \in 1..A, k \in 0..(2 * B) : Agree(p, k)) <=> j = i
  <2>1. ASSUME \A p \in 1..A, k \in 0..(2 * B) : Agree(p, k)
        PROVE  j = i
    <3>1. Row(i) + 1 \in 1..A /\ Col(i) + 1 \in 0..(2 * B)
      BY <1>1, <1>3
    <3>2. Row(i) + 1 = Row(j) + 1 /\ Col(i) + 1 = Col(j) + 1
      BY <1>6, <2>1, <3>1
    <3>3. Row(i) = Row(j) /\ Col(i) = Col(j)
      BY <1>3, <3>2
    <3> QED BY <1>2, <3>3, PlaceUnique
  <2>2. ASSUME j = i
        PROVE  \A p \in 1..A, k \in 0..(2 * B) : Agree(p, k)
    BY <1>6, <2>2
  <2> QED BY <2>1, <2>2
<1>10. (\A p \in 0..A, k \in 0..(2 * B) : Agree(p, k)) <=>
         /\ Agree(0, B + 1)
         /\ \A k \in (0..(2 * B)) \ {B + 1} : Agree(0, k)
         /\ \A p \in 1..A, k \in 0..(2 * B) : Agree(p, k)
  <2>1. 0 \in 0..A /\ B + 1 \in 0..(2 * B)
    BY <1>1
  <2>2. \A p \in 0..A : p = 0 \/ p \in 1..A
    BY <1>1
  <2>3. \A p \in 1..A : p \in 0..A
    BY <1>1
  <2> QED BY <2>1, <2>2, <2>3, Zenon
<1> QED BY <1>4, <1>7, <1>8, <1>9, <1>10 DEF KeyRecovered

-----------------------------------------------------------------------------
(* What the two sides compute.                                             *)

\* What the two sides of an encryption are given.
KEMTypeOK ==
    /\ Senc \in Receivers /\ Sdec \in Receivers
    /\ index \in -1..N /\ sk \in 0..(N - 1)

\* Encryption and decryption are asked for receivers 0..N, with an index that is
\* on the grid or next to it and a private key of the grid.
THEOREM KEMTypeCorrect == Spec => []KEMTypeOK
<1>1. N \in Nat /\ N >= 1 /\ B \in Nat
  <2>1. A \in Nat /\ A >= 1 /\ B \in Nat /\ B >= 1 /\ N \in Nat /\ N = B * A
    BY GridSize
  <2>2. B * 1 <= B * A
    BY <2>1, ProductMonotone
  <2> QED BY <2>1, <2>2
<1>2. Init => KEMTypeOK
  BY <1>1 DEF Init, KEMTypeOK, Receivers
<1>3. KEMTypeOK /\ [Next]_vars => KEMTypeOK'
  <2> SUFFICES ASSUME KEMTypeOK, [Next]_vars PROVE KEMTypeOK'
    OBVIOUS
  <2>1. CASE Encrypt
    BY <2>1 DEF KEMTypeOK, Encrypt
  <2>2. CASE Decrypt
    <3>1. PICK i \in -1..N : i = index'
      BY <2>2 DEF Decrypt
    <3>2. i \in Int /\ i + 1 \in Int /\ i + B \in Int
      BY <1>1
    <3>3. \A n \in Int : n % N \in 0..(N - 1)
      BY <1>1
    <3> QED BY <2>2, <3>1, <3>2, <3>3 DEF KEMTypeOK, Decrypt
  <2>3. CASE NextRecord
    BY <1>1, <2>3 DEF KEMTypeOK, NextRecord, Receivers
  <2>4. CASE UNCHANGED vars
    BY <2>4 DEF KEMTypeOK, vars
  <2> QED BY <2>1, <2>2, <2>3, <2>4 DEF Next
<1> QED BY <1>2, <1>3, PTL DEF Spec

\* The places next to the grid: -1 is column -1 of row 0, or row -1 when there
\* is one column, and N starts row A.
LEMMA NextToTheGrid ==
    /\ B > 1 => Col(-1) = -1
    /\ B = 1 => Row(-1) = -1 /\ Col(-1) = 0
    /\ Row(N) = A
<1>1. A \in Nat /\ B \in Nat /\ B >= 1 /\ N \in Nat /\ N = B * A
  BY GridSize
<1>2. B > 1 => Col(-1) = -1
  <2>1. B > 1 => 1 % B = 1
    BY <1>1
  <2> QED BY <2>1 DEF Col
<1>3. B = 1 => Row(-1) = -1 /\ Col(-1) = 0
  BY DEF Row, Col
<1>4. Row(N) = A
  <2>1. /\ Row(N) \in Nat /\ Col(N) \in 0..(B - 1)
        /\ N = B * Row(N) + Col(N)
    BY <1>1, Place
  <2>2. ~(Row(N) < A)
    BY <1>1, RowBelow
  <2>3. ASSUME Row(N) > A PROVE FALSE
    <3>1. B * (A + 1) <= B * Row(N) /\ B * (A + 1) = B * A + B
          /\ B * Row(N) \in Int /\ B * A \in Int
      BY <1>1, <2>1, <2>3, ProductMonotone
    <3> QED BY <1>1, <2>1, <3>1
  <2> QED BY <1>1, <2>1, <2>2, <2>3
<1> QED BY <1>2, <1>3, <1>4

\* Next to the grid decryption leaves the arrays, unless there is one column
\* and the index is -1.
LEMMA OffTheGrid ==
    ASSUME NEW S, NEW i \in {-1, N}, DecryptionInBounds(S, i)
    PROVE  i = -1 /\ B = 1
<1>1. A \in Nat /\ B \in Nat /\ B >= 1
  BY GridSize
<1>2. ASSUME i = N PROVE FALSE
  <2>1. A + 1 \in HDRReads(i)
    BY <1>2, NextToTheGrid DEF HDRReads
  <2>2. A + 1 \in 0..A
    BY <2>1 DEF DecryptionInBounds
  <2> QED BY <1>1, <2>2
<1>3. ASSUME i = -1, B > 1 PROVE FALSE
  <2>1. -1 \in DecryptionReads(S, i)
    BY <1>3, NextToTheGrid DEF DecryptionReads
  <2>2. -1 \in 0..(2 * B - 1)
    BY <2>1 DEF DecryptionInBounds
  <2> QED BY <1>1, <2>2
<1> QED BY <1>1, <1>2, <1>3

\* With one column and index -1 decryption pairs HDR[0], the generator, and
\* never gets the sender's key alpha^2.
LEMMA MinusOneGetsNoKey ==
    ASSUME B = 1, NEW Se \in SUBSET Nat, NEW Sd \in SUBSET Nat, NEW j \in 0..(N - 1)
    PROVE  DecryptionKey(Se, Sd, -1, d_i(j)) # EncryptionKey
<1>1. A \in Nat /\ A >= 1 /\ N \in Nat
  BY GridSize
<1>2. Row(-1) = -1 /\ Col(-1) = 0
  BY NextToTheGrid
<1>3. \A s \in Nat : Row(s) # -1
  <2> TAKE s \in Nat
  <2>1. Row(s) \in Nat
    BY Place
  <2> QED BY <2>1
<1>4. 0 \in 0..A /\ 0 \in 0..(2 * B) /\ 1 \in 0..(2 * B) /\ 2 \in 0..(2 * B)
  BY <1>1
<1>5. <<0, 1>> \in Monomial /\ <<0, 2>> \in Monomial
  BY <1>4 DEF Monomial
<1>6. HDR(Se, -1)[<<0, 1>>] = 0
  <2>1. v_i(-1)[<<0, 1>>] = 0
    <3>1. v_i(-1) = Power(<<0, 0>>) /\ <<0, 0>> # <<0, 1>>
      BY DEF v_i
    <3> QED BY <1>5, <3>1 DEF Power, One
  <2>2. ~\E s \in Se : Row(s) = -1
    BY <1>3
  <2> QED BY <1>5, <2>1, <2>2 DEF HDR, If
<1>7. Pair(0, HDR(Se, -1))[<<0, 2>>] = 0
  BY <1>5, <1>6 DEF Pair
<1>8. Denominator(Sd, -1, d_i(j))[<<0, 2>>] = 0
  <2>1. Row(j) + 1 \in 0..A /\ Col(j) + 1 \in 0..(2 * B) /\ Row(j) + 1 # 0
    <3>1. j \in Nat /\ j < N
      BY <1>1
    <3>2. Row(j) \in Nat /\ Col(j) \in 0..(B - 1) /\ Row(j) < A
      BY <3>1, Place, RowBelow
    <3> QED BY <1>1, <3>2
  <2>2. d_i(j)[<<0, 2>>] = 0
    <3>1. <<Row(j) + 1, Col(j) + 1>> # <<0, 2>>
      BY <2>1
    <3> QED BY <1>5, <3>1 DEF d_i, Power, One
  <2>3. ~\E s \in Sd : Row(s) = Row(-1)
    BY <1>2, <1>3
  <2> QED BY <1>5, <2>1, <2>2, <2>3 DEF Denominator, If
<1>9. DecryptionKey(Se, Sd, -1, d_i(j))[<<0, 2>>] = 0
  BY <1>2, <1>5, <1>7, <1>8 DEF DecryptionKey, Divide
<1>10. EncryptionKey[<<0, 2>>] = 1
  <2>1. EncryptionKey[<<0, 2>>] = If(0 = 0 /\ 2 = B + 1)
    BY <1>4, EncryptionKeyAt
  <2> QED BY <2>1 DEF If
<1> QED BY <1>9, <1>10

\* Whatever the sets, get_decryption_key yields the key of get_encryption_key
\* exactly for addressed receivers with their own private key that know their
\* addressed neighbours, wherever it yields a key at all.
THEOREM DecryptionIsCorrect == Spec => []DecryptionCorrect
<1>1. KEMTypeOK => DecryptionCorrect
  <2> SUFFICES ASSUME KEMTypeOK, EncryptionDefined(Senc), DerivationDefined(Sdec, index)
               PROVE  Opens(Senc, Sdec, index, sk) <=> KeyRecovered(Senc, Sdec, index, sk)
    BY DEF DecryptionCorrect
  <2>1. Senc \in SUBSET Nat /\ Sdec \in SUBSET Nat /\ N \in Nat
    BY GridSize DEF KEMTypeOK, Receivers
  <2>2. sk \in 0..(N - 1) /\ index \in -1..N
    BY DEF KEMTypeOK
  <2>3. CASE index \in 0..(N - 1)
    BY <2>1, <2>2, <2>3, KeysAgree DEF Opens
  <2>4. CASE index \notin 0..(N - 1)
    <3>1. index \in {-1, N}
      BY <2>1, <2>2, <2>4
    <3>2. index = -1 /\ B = 1
      BY <3>1, OffTheGrid DEF DerivationDefined
    <3>3. ~Opens(Senc, Sdec, index, sk)
      BY <2>1, <2>2, <3>2, MinusOneGetsNoKey DEF Opens
    <3>4. ~KeyRecovered(Senc, Sdec, index, sk)
      BY <2>1, <3>2 DEF KeyRecovered
    <3> QED BY <3>3, <3>4
  <2> QED BY <2>3, <2>4
<1> QED BY <1>1, KEMTypeCorrect, PTL

\* On the grid decryption stays inside g_i and HDR and needs no entry B.
LEMMA InBoundsOnTheGrid ==
    ASSUME NEW S \in SUBSET Nat, NEW i \in 0..(N - 1)
    PROVE  /\ DecryptionReads(S, i) \subseteq (0..(2 * B - 1)) \ {B}
           /\ DecryptionInBounds(S, i)
<1>1. A \in Nat /\ B \in Nat /\ B >= 1 /\ N \in Nat
  BY GridSize
<1>2. i \in Nat /\ i < N
  BY <1>1
<1>3. Row(i) \in Nat /\ Row(i) < A /\ Col(i) \in 0..(B - 1)
  BY <1>2, Place, RowBelow
<1>4. DecryptionReads(S, i) \subseteq (0..(2 * B - 1)) \ {B}
  <2>1. \A s \in S : Col(s) # Col(i) =>
          B - Col(s) + Col(i) \in (0..(2 * B - 1)) \ {B}
    <3> SUFFICES ASSUME NEW s \in S, Col(s) # Col(i)
                 PROVE  B - Col(s) + Col(i) \in (0..(2 * B - 1)) \ {B}
      OBVIOUS
    <3>1. Col(s) \in 0..(B - 1)
      BY Place
    <3> QED BY <1>1, <1>3, <3>1
  <2>2. Col(i) \in (0..(2 * B - 1)) \ {B}
    BY <1>1, <1>3
  <2> QED BY <2>1, <2>2 DEF DecryptionReads
<1>5. HDRReads(i) \subseteq 0..A
  BY <1>1, <1>3 DEF HDRReads
<1> QED BY <1>4, <1>5 DEF DecryptionInBounds

\* With fewer than MaxRelayNumber receivers, numbered from 1, both sides are
\* defined, also for the index 0 that no relay holds.
LEMMA EncryptionHasRoom ==
    ASSUME NEW n \in Nat, n <= MaxRelayNumber
    PROVE  /\ EncryptionDefined(1..(n - 1))
           /\ \A S \in SUBSET (1..(n - 1)), i \in {0} \cup 1..(n - 1) : DerivationDefined(S, i)
<1>1. N \in Nat /\ MaxRelayNumber <= N /\ MaxRelayNumber \in Nat /\ MaxRelayNumber >= 1
  BY GridSize, MaxRelayAssumption
<1>2. EncryptionDefined(1..(n - 1))
  BY <1>1 DEF EncryptionDefined, EncryptionAccepts
<1>3. ASSUME NEW S \in SUBSET (1..(n - 1)), NEW i \in {0} \cup 1..(n - 1)
      PROVE  DerivationDefined(S, i)
  <2>1. S \in SUBSET Nat /\ i \in 0..(N - 1)
    BY <1>1
  <2>2. DecryptionDefined(S)
    BY <1>1 DEF DecryptionDefined, DecryptionAccepts
  <2> QED BY <2>1, <2>2, InBoundsOnTheGrid DEF DerivationDefined
<1> QED BY <1>2, <1>3

\* The arrays g_i and HDR are long enough for every encryption, and for every
\* decryption by a receiver on the grid; no derivation of theirs needs the entry
\* that setup_global_system leaves out.  With more than one column, an index
\* next to the grid takes get_decryption_key out of the arrays whatever the set
\* of receivers.
THEOREM ReadsStayInBounds == Spec => []ReadsInBounds
<1>1. KEMTypeOK => ReadsInBounds
  <2> SUFFICES ASSUME KEMTypeOK
               PROVE  ReadsInBounds
    OBVIOUS
  <2>1. Senc \in SUBSET Nat /\ Sdec \in SUBSET Nat /\ index \in -1..N
    BY GridSize DEF KEMTypeOK, Receivers
  <2>2. A \in Nat /\ B \in Nat /\ B >= 1 /\ N \in Nat
    BY GridSize
  <2>3. EncryptionReads(Senc) \subseteq 0..(B - 1)
    <3>1. \A s \in Senc : B - 1 - Col(s) \in 0..(B - 1)
      <4> SUFFICES ASSUME NEW s \in Senc PROVE B - 1 - Col(s) \in 0..(B - 1)
        OBVIOUS
      <4>1. Col(s) \in 0..(B - 1)
        BY <2>1, Place
      <4> QED BY <2>2, <4>1
    <3> QED BY <2>2, <3>1 DEF EncryptionReads
  <2>4. HDRWrites(Senc) \subseteq 1..A
    <3>1. \A s \in Senc : EncryptionAccepts(s) => Row(s) + 1 \in 1..A
      <4> SUFFICES ASSUME NEW s \in Senc, EncryptionAccepts(s) PROVE Row(s) + 1 \in 1..A
        OBVIOUS
      <4>1. Row(s) \in Nat /\ Row(s) < A
        BY <2>1, Place, RowBelow DEF EncryptionAccepts
      <4> QED BY <2>2, <4>1
    <3> QED BY <3>1 DEF HDRWrites
  <2>5. CASE index \in 0..(N - 1)
    <3>1. /\ DecryptionInBounds(Sdec, index)
          /\ B \notin DecryptionReads(Sdec, index)
      BY <2>1, <2>5, InBoundsOnTheGrid
    <3> QED BY <2>3, <2>4, <2>5, <3>1 DEF ReadsInBounds
  <2>6. CASE index \notin 0..(N - 1)
    <3>1. index \in {-1, N}
      BY <2>1, <2>2, <2>6
    <3>2. B > 1 => ~DecryptionInBounds(Sdec, index)
      BY <2>2, <3>1, OffTheGrid
    <3> QED BY <2>3, <2>4, <2>6, <3>2 DEF ReadsInBounds
  <2> QED BY <2>5, <2>6
<1> QED BY <1>1, KEMTypeCorrect, PTL

\* setup_global_system makes the grid large enough for MAX_REALY_NUMBER relays,
\* and a record encrypted to any set of them opens for each.
THEOREM ReceiversAreServed == Spec => []EveryReceiverServed
<1>1. EveryReceiverServed
  <2> SUFFICES ASSUME Senc \subseteq 0..(MaxRelayNumber - 1)
               PROVE  EncryptionDefined(Senc) /\ \A i \in Senc : Opens(Senc, Senc, i, i)
    BY DEF EveryReceiverServed
  <2>1. Senc \in SUBSET (0..(N - 1)) /\ Senc \in SUBSET Nat
    BY GridSize, MaxRelayAssumption
  <2>2. EncryptionDefined(Senc)
    BY <2>1, GridSize DEF EncryptionDefined, EncryptionAccepts
  <2>3. ASSUME NEW i \in Senc PROVE Opens(Senc, Senc, i, i)
    <3>1. i \in 0..(N - 1) /\ DerivationDefined(Senc, i)
      <4>1. i \in 0..(N - 1) /\ DecryptionDefined(Senc)
        BY <2>1, GridSize DEF DecryptionDefined, DecryptionAccepts
      <4>2. DecryptionInBounds(Senc, i)
        BY <2>1, <4>1, InBoundsOnTheGrid
      <4> QED BY <4>1, <4>2 DEF DerivationDefined
    <3>2. KeyRecovered(Senc, Senc, i, i)
      BY DEF KeyRecovered
    <3>3. DecryptionKey(Senc, Senc, i, d_i(i)) = EncryptionKey
      BY <2>1, <3>1, <3>2, KeysAgree
    <3> QED BY <2>2, <3>1, <3>3 DEF Opens
  <2> QED BY <2>2, <2>3
<1> QED BY <1>1, PTL

=============================================================================
