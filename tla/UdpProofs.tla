------------------------------ MODULE UdpProofs ------------------------------
(***************************************************************************)
(* UDP: datagrams stay in order in both directions; the control, session   *)
(* and service slots are exact; an association has one client. For any     *)
(* number of associations, connections and datagrams, and any limits.      *)
(***************************************************************************)
EXTENDS Udp, TLAPS

(* Streams of records.                                                     *)

Piece == Nat \X {1, 2}

\* The n-th piece of the records of ids.
PieceAt(ids, n) == <<ids[(n + 1) \div 2], 2 - (n % 2)>>

\* Of the datagrams S, those of F have been taken; the pieces of the others are
\* in the receive buffer R and then on the way in U.
Ordered(S, F, R, U) ==
  /\ 2 * Len(S) = 2 * Len(F) + Len(R) + Len(U)
  /\ \A i \in 1..Len(F) : F[i] = S[i]
  /\ \A i \in 1..Len(R) : R[i] = PieceAt(S, 2 * Len(F) + i)
  /\ \A i \in 1..Len(U) : U[i] = PieceAt(S, 2 * Len(F) + Len(R) + i)

Streams(S, F, R, U) ==
  S \in Seq(Nat) /\ F \in Seq(Nat) /\ R \in Seq(Piece) /\ U \in Seq(Piece)

\* As DatagramsInOrder says it.
InOrder(S, F, R, U) == AllPieces(S) = AllPieces(F) \o R \o U

\* The elements of a concatenation.
LEMMA Joined ==
  ASSUME NEW X, NEW s \in Seq(X), NEW t \in Seq(X)
  PROVE  /\ s \o t \in Seq(X) /\ Len(s \o t) = Len(s) + Len(t)
         /\ \A i \in 1..Len(s) : (s \o t)[i] = s[i]
         /\ \A i \in 1..Len(t) : (s \o t)[Len(s) + i] = t[i]
<1>1. s \o t \in Seq(X) /\ Len(s \o t) = Len(s) + Len(t)
  OBVIOUS
<1>2. \A i \in 1..Len(s) : (s \o t)[i] = s[i]
  OBVIOUS
<1>3. \A i \in 1..Len(t) : (s \o t)[Len(s) + i] = t[i]
  OBVIOUS
<1>. QED  BY <1>1, <1>2, <1>3

\* Sequences with the same elements are equal.
LEMMA SameElements ==
  ASSUME NEW X, NEW s \in Seq(X), NEW t \in Seq(X), Len(s) = Len(t),
         \A i \in 1..Len(s) : s[i] = t[i]
  PROVE  s = t
<1>1. s = [i \in 1..Len(s) |-> s[i]] /\ t = [i \in 1..Len(t) |-> t[i]]
  OBVIOUS
<1>. QED  BY <1>1, Zenon

LEMMA OrderedPieces ==
  ASSUME NEW S, NEW F, NEW R, NEW U, Streams(S, F, R, U), Ordered(S, F, R, U)
  PROVE  InOrder(S, F, R, U)
<1>1. Len(S) \in Nat /\ Len(F) \in Nat /\ Len(R) \in Nat /\ Len(U) \in Nat
  BY DEF Streams
<1>2. \A ids \in Seq(Nat) : \A i \in 1..(2 * Len(ids)) :
        Pieces(ids[(i + 1) \div 2])[2 - (i % 2)] = PieceAt(ids, i)
  <2>. SUFFICES ASSUME NEW ids \in Seq(Nat), NEW i \in 1..(2 * Len(ids))
                PROVE  Pieces(ids[(i + 1) \div 2])[2 - (i % 2)] = PieceAt(ids, i)
    OBVIOUS
  <2>1. i % 2 = 0 \/ i % 2 = 1
    OBVIOUS
  <2>. QED  BY <2>1 DEF Pieces, PieceAt
<1>3. \A ids \in Seq(Nat) :
        /\ AllPieces(ids) = [i \in 1..(2 * Len(ids)) |-> PieceAt(ids, i)]
        /\ AllPieces(ids) \in Seq(Nat \X {1, 2}) /\ Len(AllPieces(ids)) = 2 * Len(ids)
  <2>. SUFFICES ASSUME NEW ids \in Seq(Nat)
                PROVE  /\ AllPieces(ids) = [i \in 1..(2 * Len(ids)) |-> PieceAt(ids, i)]
                       /\ AllPieces(ids) \in Seq(Nat \X {1, 2}) /\ Len(AllPieces(ids)) = 2 * Len(ids)
    OBVIOUS
  <2>1. AllPieces(ids) = [i \in 1..(2 * Len(ids)) |-> PieceAt(ids, i)]
    BY <1>2 DEF AllPieces
  <2>2. \A i \in 1..(2 * Len(ids)) : PieceAt(ids, i) \in Nat \X {1, 2}
    <3>. SUFFICES ASSUME NEW i \in 1..(2 * Len(ids))  PROVE  PieceAt(ids, i) \in Nat \X {1, 2}
      OBVIOUS
    <3>1. (i + 1) \div 2 \in 1..Len(ids) /\ 2 - (i % 2) \in {1, 2}
      OBVIOUS
    <3>. QED  BY <3>1 DEF PieceAt
  <2>3. 2 * Len(ids) \in Nat
    OBVIOUS
  <2>. QED  BY <2>1, <2>2, <2>3
<1>. DEFINE A == AllPieces(S)
            B == AllPieces(F)
<1>4. /\ A = [i \in 1..(2 * Len(S)) |-> PieceAt(S, i)] /\ A \in Seq(Piece) /\ Len(A) = 2 * Len(S)
      /\ B = [i \in 1..(2 * Len(F)) |-> PieceAt(F, i)] /\ B \in Seq(Piece) /\ Len(B) = 2 * Len(F)
  BY <1>3 DEF Piece, Streams
<1>. HIDE DEF A, B
<1>5. \A i \in 1..Len(B) : B[i] = A[i]
  <2>. SUFFICES ASSUME NEW i \in 1..Len(B)  PROVE  B[i] = A[i]
    OBVIOUS
  <2>1. (i + 1) \div 2 \in 1..Len(F) /\ i \in 1..(2 * Len(S))
    <3>1. 2 * Len(S) = 2 * Len(F) + Len(R) + Len(U)
      BY Zenon DEF Ordered
    <3>. QED  BY <1>1, <1>4, <3>1
  <2>2. PieceAt(F, i) = PieceAt(S, i)
    <3>1. F[(i + 1) \div 2] = S[(i + 1) \div 2]
      BY <2>1, Zenon DEF Ordered
    <3>. QED  BY <3>1, Zenon DEF PieceAt
  <2>. QED  BY <1>4, <2>1, <2>2
<1>. DEFINE C == (B \o R) \o U
<1>6. /\ C \in Seq(Piece) /\ Len(C) = Len(B) + Len(R) + Len(U)
      /\ \A i \in 1..Len(B) : C[i] = B[i]
      /\ \A i \in 1..Len(R) : C[Len(B) + i] = R[i]
      /\ \A i \in 1..Len(U) : C[Len(B) + Len(R) + i] = U[i]
  <2>. DEFINE D == B \o R
  <2>1. /\ D \in Seq(Piece) /\ Len(D) = Len(B) + Len(R)
        /\ \A i \in 1..Len(B) : D[i] = B[i]
        /\ \A i \in 1..Len(R) : D[Len(B) + i] = R[i]
    BY <1>4, Joined DEF Streams
  <2>. HIDE DEF D
  <2>2. /\ D \o U \in Seq(Piece) /\ Len(D \o U) = Len(D) + Len(U)
        /\ \A i \in 1..Len(D) : (D \o U)[i] = D[i]
        /\ \A i \in 1..Len(U) : (D \o U)[Len(D) + i] = U[i]
    <3>1. D \in Seq(Piece) /\ U \in Seq(Piece)
      BY <2>1 DEF Streams
    <3>. QED  BY <3>1, Joined
  <2>3. C = D \o U
    BY DEF D
  <2>. HIDE DEF C
  <2>4. /\ C \in Seq(Piece) /\ Len(C) = Len(D) + Len(U)
        /\ \A i \in 1..Len(D) : C[i] = D[i]
        /\ \A i \in 1..Len(U) : C[Len(D) + i] = U[i]
    BY <2>2, <2>3, Zenon
  <2>5. Len(B) \in Nat /\ Len(D) = Len(B) + Len(R)
    BY <1>4, <2>1
  <2>6. \A i \in 1..Len(B) : C[i] = B[i]
    <3>1. \A i \in 1..Len(B) : i \in 1..Len(D)
      BY <1>1, <2>5
    <3>. QED  BY <2>1, <2>4, <3>1, Zenon
  <2>7. \A i \in 1..Len(R) : C[Len(B) + i] = R[i]
    <3>1. \A i \in 1..Len(R) : Len(B) + i \in 1..Len(D)
      BY <1>1, <2>5
    <3>. QED  BY <2>1, <2>4, <3>1, Zenon
  <2>8. \A i \in 1..Len(U) : C[Len(B) + Len(R) + i] = U[i]
    BY <2>4, <2>5, Zenon
  <2>9. Len(C) = Len(B) + Len(R) + Len(U)
    BY <2>4, <2>5, Zenon
  <2>. QED  BY <2>4, <2>6, <2>7, <2>8, <2>9, Zenon
<1>. HIDE DEF C
<1>7. Len(C) = Len(A)
  <2>1. 2 * Len(S) = 2 * Len(F) + Len(R) + Len(U)
    BY Zenon DEF Ordered
  <2>2. Len(C) = Len(B) + Len(R) + Len(U) /\ Len(A) = 2 * Len(S) /\ Len(B) = 2 * Len(F)
    BY <1>4, <1>6, Zenon
  <2>. QED  BY <1>1, <2>1, <2>2
<1>8. \A i \in 1..Len(A) : C[i] = A[i]
  <2>. SUFFICES ASSUME NEW i \in 1..Len(A)  PROVE  C[i] = A[i]
    OBVIOUS
  <2>1. CASE i \in 1..Len(B)
    BY <1>5, <1>6, <2>1
  <2>2. CASE i - Len(B) \in 1..Len(R)
    <3>. DEFINE j == i - Len(B)
    <3>1. i = Len(B) + j /\ i = 2 * Len(F) + j /\ j \in 1..Len(R)
      BY <1>1, <1>4, <2>2
    <3>. HIDE DEF j
    <3>2. C[i] = PieceAt(S, i)
      <4>1. C[Len(B) + j] = R[j] /\ R[j] = PieceAt(S, 2 * Len(F) + j)
        BY <1>6, <3>1, Zenon DEF Ordered
      <4>. QED  BY <3>1, <4>1, Zenon
    <3>. QED  BY <1>4, <3>2
  <2>3. CASE i - Len(B) - Len(R) \in 1..Len(U)
    <3>. DEFINE j == i - Len(B) - Len(R)
    <3>1. i = Len(B) + Len(R) + j /\ i = 2 * Len(F) + Len(R) + j /\ j \in 1..Len(U)
      BY <1>1, <1>4, <2>3
    <3>. HIDE DEF j
    <3>2. C[i] = PieceAt(S, i)
      <4>1. C[Len(B) + Len(R) + j] = U[j] /\ U[j] = PieceAt(S, 2 * Len(F) + Len(R) + j)
        BY <1>6, <3>1, Zenon DEF Ordered
      <4>. QED  BY <3>1, <4>1, Zenon
    <3>. QED  BY <1>4, <3>2
  <2>. QED  BY <1>1, <1>4, <1>6, <1>7, <2>1, <2>2, <2>3
<1>9. A = C
  BY <1>4, <1>6, <1>7, <1>8, SameElements, Zenon
<1>. QED  BY <1>9 DEF InOrder, A, B, C

LEMMA NothingSent == Streams(<<>>, <<>>, <<>>, <<>>) /\ Ordered(<<>>, <<>>, <<>>, <<>>)
BY DEF Streams, Ordered

\* A record is sent.
LEMMA SendOrdered ==
  ASSUME NEW S, NEW F, NEW R, NEW U, Streams(S, F, R, U), Ordered(S, F, R, U), NEW id \in Nat
  PROVE  /\ Streams(Append(S, id), F, R, U \o Pieces(id))
         /\ Ordered(Append(S, id), F, R, U \o Pieces(id))
<1>. DEFINE T == Append(S, id)
            P == Pieces(id)
            V == U \o P
<1>1. Len(S) \in Nat /\ Len(F) \in Nat /\ Len(R) \in Nat /\ Len(U) \in Nat
  BY DEF Streams
<1>2. P \in Seq(Piece) /\ Len(P) = 2 /\ P[1] = <<id, 1>> /\ P[2] = <<id, 2>>
  BY DEF Pieces, Piece
<1>. HIDE DEF P
<1>3. /\ V \in Seq(Piece) /\ Len(V) = Len(U) + 2
      /\ \A i \in 1..Len(U) : V[i] = U[i]
      /\ V[Len(U) + 1] = <<id, 1>> /\ V[Len(U) + 2] = <<id, 2>>
  <2>1. U \in Seq(Piece)
    BY DEF Streams
  <2>2. V \in Seq(Piece) /\ Len(V) = Len(U) + 2 /\ \A i \in 1..Len(U) : V[i] = U[i]
    BY <1>2, <2>1, Joined
  <2>3. V[Len(U) + 1] = P[1] /\ V[Len(U) + 2] = P[2]
    <3>1. \A i \in 1..Len(P) : V[Len(U) + i] = P[i]
      BY <1>2, <2>1, Joined, SMTT(60)
    <3>. HIDE DEF V
    <3>. QED  BY <1>2, <3>1
  <2>. QED  BY <1>2, <2>2, <2>3
<1>. HIDE DEF V
<1>4. /\ T \in Seq(Nat) /\ Len(T) = Len(S) + 1
      /\ \A i \in 1..Len(S) : T[i] = S[i]
      /\ T[Len(S) + 1] = id
  BY <1>1 DEF Streams
<1>. HIDE DEF T
<1>5. \A n \in 1..(2 * Len(S)) : PieceAt(T, n) = PieceAt(S, n)
  <2>. SUFFICES ASSUME NEW n \in 1..(2 * Len(S))  PROVE  PieceAt(T, n) = PieceAt(S, n)
    OBVIOUS
  <2>1. (n + 1) \div 2 \in 1..Len(S)
    BY <1>1
  <2>. QED  BY <1>4, <2>1 DEF PieceAt
<1>6. /\ PieceAt(T, 2 * Len(S) + 1) = <<id, 1>> /\ PieceAt(T, 2 * Len(S) + 2) = <<id, 2>>
  <2>1. /\ (2 * Len(S) + 1 + 1) \div 2 = Len(S) + 1 /\ (2 * Len(S) + 2 + 1) \div 2 = Len(S) + 1
        /\ (2 * Len(S) + 1) % 2 = 1 /\ (2 * Len(S) + 2) % 2 = 0
    BY <1>1
  <2>. QED  BY <1>4, <2>1 DEF PieceAt
<1>7. 2 * Len(T) = 2 * Len(F) + Len(R) + Len(V) /\ 2 * Len(S) = 2 * Len(F) + Len(R) + Len(U)
  <2>1. 2 * Len(S) = 2 * Len(F) + Len(R) + Len(U)
    BY Zenon DEF Ordered
  <2>2. Len(V) = Len(U) + 2 /\ Len(T) = Len(S) + 1
    BY <1>3, <1>4
  <2>. QED  BY <1>1, <2>1, <2>2
<1>8. \A i \in 1..Len(F) : F[i] = T[i]
  <2>1. \A i \in 1..Len(F) : i \in 1..Len(S)
    BY <1>1, <1>7
  <2>. QED  BY <1>4, <2>1, Zenon DEF Ordered
<1>9. \A i \in 1..Len(R) : R[i] = PieceAt(T, 2 * Len(F) + i)
  <2>. SUFFICES ASSUME NEW i \in 1..Len(R)  PROVE  R[i] = PieceAt(T, 2 * Len(F) + i)
    OBVIOUS
  <2>1. 2 * Len(F) + i \in 1..(2 * Len(S))
    BY <1>1, <1>7
  <2>2. R[i] = PieceAt(S, 2 * Len(F) + i)
    BY Zenon DEF Ordered
  <2>. QED  BY <1>5, <2>1, <2>2, Zenon
<1>10. \A i \in 1..Len(V) : V[i] = PieceAt(T, 2 * Len(F) + Len(R) + i)
  <2>. SUFFICES ASSUME NEW i \in 1..Len(V)  PROVE  V[i] = PieceAt(T, 2 * Len(F) + Len(R) + i)
    OBVIOUS
  <2>1. CASE i \in 1..Len(U)
    <3>1. 2 * Len(F) + Len(R) + i \in 1..(2 * Len(S))
      BY <1>1, <1>7, <2>1
    <3>2. U[i] = PieceAt(S, 2 * Len(F) + Len(R) + i)
      BY <2>1, Zenon DEF Ordered
    <3>. QED  BY <1>3, <1>5, <2>1, <3>1, <3>2, Zenon
  <2>2. CASE i = Len(U) + 1
    <3>1. 2 * Len(F) + Len(R) + i = 2 * Len(S) + 1
      BY <1>1, <1>7, <2>2
    <3>. QED  BY <1>3, <1>6, <2>2, <3>1, Zenon
  <2>3. CASE i = Len(U) + 2
    <3>1. 2 * Len(F) + Len(R) + i = 2 * Len(S) + 2
      BY <1>1, <1>7, <2>3
    <3>. QED  BY <1>3, <1>6, <2>3, <3>1, Zenon
  <2>. QED  BY <1>1, <1>3, <2>1, <2>2, <2>3
<1>11. Ordered(T, F, R, V)
  BY <1>7, <1>8, <1>9, <1>10, Zenon DEF Ordered
<1>12. Streams(T, F, R, V)
  BY <1>3, <1>4 DEF Streams
<1>. QED  BY <1>11, <1>12 DEF T, V, P

\* A piece is read.
LEMMA ReadOrdered ==
  ASSUME NEW S, NEW F, NEW R, NEW U, Streams(S, F, R, U), Ordered(S, F, R, U), U # <<>>
  PROVE  /\ Streams(S, F, Append(R, Head(U)), Tail(U))
         /\ Ordered(S, F, Append(R, Head(U)), Tail(U))
<1>. DEFINE Q == Append(R, Head(U))
            V == Tail(U)
<1>1. Len(S) \in Nat /\ Len(F) \in Nat /\ Len(R) \in Nat /\ Len(U) \in Nat /\ Len(U) > 0
  BY DEF Streams
<1>2. Head(U) = U[1] /\ Head(U) \in Piece
  BY <1>1 DEF Streams
<1>3. /\ V \in Seq(Piece) /\ Len(V) = Len(U) - 1
      /\ \A i \in 1..Len(V) : V[i] = U[i + 1]
  BY <1>1 DEF Streams
<1>4. /\ Q \in Seq(Piece) /\ Len(Q) = Len(R) + 1
      /\ \A i \in 1..Len(R) : Q[i] = R[i]
      /\ Q[Len(R) + 1] = U[1]
  BY <1>1, <1>2 DEF Streams
<1>. HIDE DEF Q, V
<1>5. 2 * Len(S) = 2 * Len(F) + Len(Q) + Len(V)
  <2>1. 2 * Len(S) = 2 * Len(F) + Len(R) + Len(U)
    BY Zenon DEF Ordered
  <2>2. Len(V) = Len(U) - 1 /\ Len(Q) = Len(R) + 1
    BY <1>3, <1>4
  <2>. QED  BY <1>1, <2>1, <2>2
<1>6. \A i \in 1..Len(Q) : Q[i] = PieceAt(S, 2 * Len(F) + i)
  <2>. SUFFICES ASSUME NEW i \in 1..Len(Q)  PROVE  Q[i] = PieceAt(S, 2 * Len(F) + i)
    OBVIOUS
  <2>1. CASE i \in 1..Len(R)
    BY <1>4, <2>1, Zenon DEF Ordered
  <2>2. CASE i = Len(R) + 1
    <3>1. 2 * Len(F) + i = 2 * Len(F) + Len(R) + 1 /\ 1 \in 1..Len(U)
      BY <1>1, <2>2
    <3>2. U[1] = PieceAt(S, 2 * Len(F) + Len(R) + 1)
      BY <3>1, Zenon DEF Ordered
    <3>. QED  BY <1>4, <2>2, <3>1, <3>2, Zenon
  <2>. QED  BY <1>1, <1>4, <2>1, <2>2
<1>7. \A i \in 1..Len(V) : V[i] = PieceAt(S, 2 * Len(F) + Len(Q) + i)
  <2>. SUFFICES ASSUME NEW i \in 1..Len(V)  PROVE  V[i] = PieceAt(S, 2 * Len(F) + Len(Q) + i)
    OBVIOUS
  <2>1. 2 * Len(F) + Len(Q) + i = 2 * Len(F) + Len(R) + (i + 1) /\ i + 1 \in 1..Len(U)
    BY <1>1, <1>3, <1>4, SMTT(60)
  <2>2. U[i + 1] = PieceAt(S, 2 * Len(F) + Len(R) + (i + 1))
    BY <2>1, Zenon DEF Ordered
  <2>. QED  BY <1>3, <2>1, <2>2, Zenon
<1>8. Ordered(S, F, Q, V)
  <2>1. \A i \in 1..Len(F) : F[i] = S[i]
    BY Zenon DEF Ordered
  <2>. QED  BY <1>5, <1>6, <1>7, <2>1, Zenon DEF Ordered
<1>9. Streams(S, F, Q, V)
  BY <1>3, <1>4 DEF Streams
<1>. QED  BY <1>8, <1>9 DEF Q, V

\* The record in front is taken whole: its two pieces are of one datagram.
LEMMA RecordOrdered ==
  ASSUME NEW S, NEW F, NEW R, NEW U, Streams(S, F, R, U), Ordered(S, F, R, U), Len(R) >= 2
  PROVE  /\ Streams(S, Append(F, R[1][1]), SubSeq(R, 3, Len(R)), U)
         /\ Ordered(S, Append(F, R[1][1]), SubSeq(R, 3, Len(R)), U)
<1>. DEFINE G == Append(F, R[1][1])
            Q == SubSeq(R, 3, Len(R))
<1>1. Len(S) \in Nat /\ Len(F) \in Nat /\ Len(R) \in Nat /\ Len(U) \in Nat
  BY DEF Streams
<1>2. R[1] = PieceAt(S, 2 * Len(F) + 1) /\ Len(F) + 1 \in 1..Len(S)
  <2>1. 2 * Len(S) = 2 * Len(F) + Len(R) + Len(U)
    BY Zenon DEF Ordered
  <2>2. 1 \in 1..Len(R) /\ Len(F) + 1 \in 1..Len(S)
    BY <1>1, <2>1
  <2>. QED  BY <2>2, Zenon DEF Ordered
<1>3. (2 * Len(F) + 1 + 1) \div 2 = Len(F) + 1
  BY <1>1
<1>4. R[1][1] = S[Len(F) + 1] /\ R[1][1] \in Nat
  BY <1>2, <1>3 DEF PieceAt, Streams
<1>5. /\ G \in Seq(Nat) /\ Len(G) = Len(F) + 1
      /\ \A i \in 1..Len(F) : G[i] = F[i]
      /\ G[Len(F) + 1] = S[Len(F) + 1]
  BY <1>1, <1>4 DEF Streams
<1>6. /\ Q \in Seq(Piece) /\ Len(Q) = Len(R) - 2
      /\ \A i \in 1..Len(Q) : Q[i] = R[i + 2]
  <2>1. R \in Seq(Piece) /\ \A i \in 3..Len(R) : R[i] \in Piece
    BY <1>1 DEF Streams
  <2>2. Q = [i \in 1..(Len(R) - 2) |-> R[i + 2]]
    BY <1>1, <2>1
  <2>3. Len(R) - 2 \in Nat /\ \A i \in 1..(Len(R) - 2) : R[i + 2] \in Piece
    BY <1>1, <2>1
  <2>. HIDE DEF Q
  <2>. QED  BY <2>2, <2>3
<1>. HIDE DEF G, Q
<1>7. 2 * Len(S) = 2 * Len(G) + Len(Q) + Len(U)
  <2>1. 2 * Len(S) = 2 * Len(F) + Len(R) + Len(U)
    BY Zenon DEF Ordered
  <2>2. Len(Q) = Len(R) - 2 /\ Len(G) = Len(F) + 1
    BY <1>5, <1>6
  <2>. QED  BY <1>1, <2>1, <2>2
<1>8. \A i \in 1..Len(G) : G[i] = S[i]
  <2>. SUFFICES ASSUME NEW i \in 1..Len(G)  PROVE  G[i] = S[i]
    OBVIOUS
  <2>1. CASE i \in 1..Len(F)
    BY <1>5, <2>1, Zenon DEF Ordered
  <2>2. CASE i = Len(F) + 1
    BY <1>5, <2>2
  <2>. QED  BY <1>1, <1>5, <2>1, <2>2
<1>9. \A i \in 1..Len(Q) : Q[i] = PieceAt(S, 2 * Len(G) + i)
  <2>. SUFFICES ASSUME NEW i \in 1..Len(Q)  PROVE  Q[i] = PieceAt(S, 2 * Len(G) + i)
    OBVIOUS
  <2>1. 2 * Len(G) + i = 2 * Len(F) + (i + 2) /\ i + 2 \in 1..Len(R)
    BY <1>1, <1>5, <1>6
  <2>2. R[i + 2] = PieceAt(S, 2 * Len(F) + (i + 2))
    BY <2>1, Zenon DEF Ordered
  <2>. QED  BY <1>6, <2>1, <2>2, Zenon
<1>10. \A i \in 1..Len(U) : U[i] = PieceAt(S, 2 * Len(G) + Len(Q) + i)
  <2>. SUFFICES ASSUME NEW i \in 1..Len(U)  PROVE  U[i] = PieceAt(S, 2 * Len(G) + Len(Q) + i)
    OBVIOUS
  <2>1. 2 * Len(G) + Len(Q) + i = 2 * Len(F) + Len(R) + i
    BY <1>1, <1>5, <1>6
  <2>2. U[i] = PieceAt(S, 2 * Len(F) + Len(R) + i)
    BY Zenon DEF Ordered
  <2>. QED  BY <2>1, <2>2, Zenon
<1>11. Ordered(S, G, Q, U)
  BY <1>7, <1>8, <1>9, <1>10, Zenon DEF Ordered
<1>12. Streams(S, G, Q, U)
  BY <1>5, <1>6 DEF Streams
<1>. QED  BY <1>11, <1>12 DEF G, Q
-----------------------------------------------------------------------------
(* What holds of associations and connections.                             *)

AssocFields == {"at", "open", "client", "hold", "conn", "recv", "count", "sources", "got"}
ConnFields == {"open", "up", "down", "reply", "at", "recv", "hold", "count", "sent", "flowed", "written"}

\* Where an association has a connection, and where a server's task relays.
Connected == {"setup", "forward", "pump"}
Relaying == {"relay", "reply"}

\* An association has read nothing before it has a connection, and it holds the
\* datagram that it is to forward.
IsAssoc(q) ==
  /\ q = [f \in AssocFields |-> q[f]]
  /\ q.count \in Nat
  /\ q.at \in Connected => q.conn \in Conns
  /\ q.at \notin Connected => q.conn = None
  /\ q.at \in {"open", "setup", "forward"} => q.hold.id \in Nat
  /\ q.at \in {"none", "recv", "open"} => q.recv = <<>> /\ q.got = <<>>

\* Nothing has been sent on a connection, in either direction.
Unused(l) ==
  /\ l.sent = <<>> /\ l.flowed = <<>> /\ l.recv = <<>> /\ l.up = <<>>
  /\ l.down = <<>> /\ l.written = <<>>

\* The requests are in order while the server relays them, and nothing is sent
\* before it does.
IsConn(l) ==
  /\ l = [f \in ConnFields |-> l[f]]
  /\ l.count \in Nat
  /\ l.at = "reply" => l.hold \in Nat
  /\ l.reply = "tunnel" => l.at \in Relaying \cup {"closed"}
  /\ l.at \in {"none", "setup", "flow"} => Unused(l)
  /\ l.at \in Relaying =>
       Streams(l.sent, l.flowed, l.recv, l.up) /\ Ordered(l.sent, l.flowed, l.recv, l.up)

\* The replies that q reads from its connection l are in order, and a session
\* that forwards has been accepted.
Reads(q, l) ==
  /\ l.at # "none"
  /\ Streams(l.written, q.got, q.recv, l.down) /\ Ordered(l.written, q.got, q.recv, l.down)
  /\ q.at \in {"forward", "pump"} => l.at \in Relaying \cup {"closed"}

\* A connection belongs to one association.
DInv ==
  /\ assoc = [a \in Assocs |-> assoc[a]] /\ \A a \in Assocs : IsAssoc(assoc[a])
  /\ conn = [k \in Conns |-> conn[k]] /\ \A k \in Conns : IsConn(conn[k])
  /\ \A a \in Assocs : assoc[a].conn # None => Reads(assoc[a], conn[assoc[a].conn])
  /\ \A a, b \in Assocs : assoc[a].conn # None /\ assoc[a].conn = assoc[b].conn => a = b

\* g is f with another value at x, if x is in S at all.
Alike(f, g, S, x) == g = [y \in S |-> g[y]] /\ \A y \in S \ {x} : g[y] = f[y]

\* g is f with another record at x.
Puts(f, g, x, r) == g = [f EXCEPT ![x] = r]
-----------------------------------------------------------------------------
LEMMA PutAlike ==
  ASSUME NEW S, NEW f, f = [y \in S |-> f[y]], NEW x \in S, NEW r, NEW g, Puts(f, g, x, r)
  PROVE  Alike(f, g, S, x) /\ g[x] = r
<1>1. g = [y \in S |-> IF y = x THEN r ELSE f[y]]
  BY DEF Puts
<1>2. \A y \in S : g[y] = IF y = x THEN r ELSE f[y]
  BY <1>1
<1>3. g = [y \in S |-> g[y]]
  BY <1>1
<1>. QED  BY <1>2, <1>3 DEF Alike

\* What a step of the association a and the connection k has to keep.
LEMMA OrderKept ==
  ASSUME DInv, NEW a, NEW k, Alike(assoc, assoc', Assocs, a), Alike(conn, conn', Conns, k),
         a \in Assocs => IsAssoc(assoc'[a]),
         k \in Conns => IsConn(conn'[k]),
         \A b \in Assocs : (b = a \/ assoc'[b].conn = k) /\ assoc'[b].conn # None =>
            Reads(assoc'[b], conn'[assoc'[b].conn]),
         a \in Assocs => \A b \in Assocs : assoc'[a].conn # None /\ assoc'[b].conn = assoc'[a].conn => b = a
  PROVE  DInv'
<1>1. \A b \in Assocs : IsAssoc(assoc'[b])
  BY DEF DInv, Alike
<1>2. \A j \in Conns : IsConn(conn'[j])
  BY DEF DInv, Alike
<1>3. \A b \in Assocs : assoc'[b].conn # None => Reads(assoc'[b], conn'[assoc'[b].conn])
  <2>. SUFFICES ASSUME NEW b \in Assocs, assoc'[b].conn # None, b # a, assoc'[b].conn # k
                PROVE  Reads(assoc'[b], conn'[assoc'[b].conn])
    OBVIOUS
  <2>1. assoc'[b] = assoc[b]
    BY DEF Alike
  <2>2. assoc[b].conn \in Conns
    BY <2>1 DEF DInv, IsAssoc
  <2>3. conn'[assoc[b].conn] = conn[assoc[b].conn]
    BY <2>1, <2>2 DEF Alike
  <2>4. Reads(assoc[b], conn[assoc[b].conn])
    BY <2>1 DEF DInv
  <2>. QED  BY <2>1, <2>3, <2>4
<1>4. \A b, c \in Assocs : assoc'[b].conn # None /\ assoc'[b].conn = assoc'[c].conn => b = c
  <2>. SUFFICES ASSUME NEW b \in Assocs, NEW c \in Assocs, assoc'[b].conn # None,
                       assoc'[b].conn = assoc'[c].conn
                PROVE  b = c
    OBVIOUS
  <2>1. CASE b = a \/ c = a
    BY <2>1
  <2>2. CASE b # a /\ c # a
    <3>1. assoc'[b] = assoc[b] /\ assoc'[c] = assoc[c]
      BY <2>2 DEF Alike
    <3>. QED  BY <3>1 DEF DInv
  <2>. QED  BY <2>1, <2>2
<1>5. assoc' = [b \in Assocs |-> assoc'[b]] /\ conn' = [j \in Conns |-> conn'[j]]
  BY DEF Alike
<1>. QED  BY <1>1, <1>2, <1>3, <1>4, <1>5 DEF DInv

\* A step of an association on its own record, which keeps its connection or
\* has none.
LEMMA AssocKept ==
  ASSUME DInv, NEW a \in Assocs, NEW r, Puts(assoc, assoc', a, r), UNCHANGED conn, IsAssoc(r),
         r.conn # None => r.conn = assoc[a].conn /\ Reads(r, conn[r.conn])
  PROVE  DInv'
<1>1. Alike(assoc, assoc', Assocs, a) /\ assoc'[a] = r
  <2>1. assoc = [b \in Assocs |-> assoc[b]]
    BY DEF DInv
  <2>. QED  BY <2>1, PutAlike
<1>2. Alike(conn, conn', Conns, None)
  BY DEF DInv, Alike
<1>3. \A b \in Assocs : (b = a \/ assoc'[b].conn = None) /\ assoc'[b].conn # None =>
         Reads(assoc'[b], conn'[assoc'[b].conn])
  BY <1>1
<1>4. \A b \in Assocs : assoc'[a].conn # None /\ assoc'[b].conn = assoc'[a].conn => b = a
  <2>. SUFFICES ASSUME NEW b \in Assocs, r.conn # None, assoc'[b].conn = r.conn, b # a  PROVE  FALSE
    BY <1>1
  <2>1. assoc'[b] = assoc[b]
    BY <1>1 DEF Alike
  <2>. QED  BY <2>1 DEF DInv
<1>5. None \notin Conns
  BY AddrsAssumption
<1>. QED  BY <1>1, <1>2, <1>3, <1>4, <1>5, OrderKept

\* A step of an association with its connection, or one that takes a new one.
LEMMA PairKept ==
  ASSUME DInv, NEW a \in Assocs, NEW r, Puts(assoc, assoc', a, r), IsAssoc(r),
         NEW k \in Conns, NEW l, Puts(conn, conn', k, l), IsConn(l),
         r.conn = k, Reads(r, l), assoc[a].conn = k \/ conn[k].at = "none"
  PROVE  DInv'
<1>1. Alike(assoc, assoc', Assocs, a) /\ assoc'[a] = r
  <2>1. assoc = [b \in Assocs |-> assoc[b]]
    BY DEF DInv
  <2>. QED  BY <2>1, PutAlike
<1>2. Alike(conn, conn', Conns, k) /\ conn'[k] = l
  <2>1. conn = [j \in Conns |-> conn[j]]
    BY DEF DInv
  <2>. QED  BY <2>1, PutAlike
<1>3. \A b \in Assocs : assoc'[b].conn = k => b = a
  <2>. SUFFICES ASSUME NEW b \in Assocs, assoc'[b].conn = k, b # a  PROVE  FALSE
    OBVIOUS
  <2>1. assoc'[b] = assoc[b] /\ assoc[b].conn = k /\ k # None
    BY <1>1, AddrsAssumption DEF Alike
  <2>2. Reads(assoc[b], conn[k])
    BY <2>1 DEF DInv
  <2>3. conn[k].at # "none"
    BY <2>2 DEF Reads
  <2>. QED  BY <2>1, <2>3 DEF DInv
<1>. QED  BY <1>1, <1>2, <1>3, OrderKept

\* A step of the server's task on a connection.
LEMMA ConnKept ==
  ASSUME DInv, UNCHANGED assoc, NEW k \in Conns, NEW l, Puts(conn, conn', k, l), IsConn(l),
         \A b \in Assocs : assoc[b].conn = k => Reads(assoc[b], l)
  PROVE  DInv'
<1>1. Alike(assoc, assoc', Assocs, None)
  BY DEF DInv, Alike
<1>2. Alike(conn, conn', Conns, k) /\ conn'[k] = l
  <2>1. conn = [j \in Conns |-> conn[j]]
    BY DEF DInv
  <2>. QED  BY <2>1, PutAlike
<1>3. \A b \in Assocs : IsAssoc(assoc'[b]) /\ (assoc'[b].conn # None => Reads(assoc[b], conn[assoc[b].conn]))
  BY DEF DInv
<1>4. \A b \in Assocs : (b = None \/ assoc'[b].conn = k) /\ assoc'[b].conn # None =>
         Reads(assoc'[b], conn'[assoc'[b].conn])
  <2>. SUFFICES ASSUME NEW b \in Assocs, assoc[b].conn # None
                PROVE  Reads(assoc[b], conn'[assoc[b].conn])
    OBVIOUS
  <2>1. CASE assoc[b].conn = k
    BY <1>2, <2>1
  <2>2. CASE assoc[b].conn # k
    <3>1. assoc[b].conn \in Conns
      BY <1>3, Zenon DEF IsAssoc
    <3>. QED  BY <1>2, <1>3, <2>2, <3>1 DEF Alike
  <2>. QED  BY <2>1, <2>2
<1>5. \A c \in Assocs : \A b \in Assocs : assoc'[c].conn # None /\ assoc'[b].conn = assoc'[c].conn => b = c
  BY DEF DInv
<1>6. None \in Assocs => /\ IsAssoc(assoc'[None])
                         /\ \A b \in Assocs : assoc'[None].conn # None /\ assoc'[b].conn = assoc'[None].conn => b = None
  BY <1>3, <1>5
<1>. QED  BY <1>1, <1>2, <1>4, <1>6, OrderKept
-----------------------------------------------------------------------------
(* Steps of the client.                                                    *)

\* What the invariant says of an association with a connection.
LEMMA OwnConn ==
  ASSUME DInv, NEW a \in Assocs, assoc[a].at \in Connected
  PROVE  /\ assoc[a].conn \in Conns /\ assoc[a].conn # None
         /\ Reads(assoc[a], conn[assoc[a].conn]) /\ IsConn(conn[assoc[a].conn])
<1>1. IsAssoc(assoc[a])
  BY DEF DInv
<1>2. assoc[a].conn \in Conns /\ assoc[a].conn # None
  BY <1>1, AddrsAssumption DEF IsAssoc
<1>. QED  BY <1>2 DEF DInv

\* An association without a connection, which may have dropped one.
LEMMA HungUp ==
  ASSUME DInv, NEW a \in Assocs, NEW r, Puts(assoc, assoc', a, r), IsAssoc(r), r.conn = None, Hangup(a)
  PROVE  DInv'
<1>. DEFINE k == assoc[a].conn
            c == conn[k]
            l == [c EXCEPT !.open = FALSE, !.reply = None, !.down = <<>>, !.written = <<>>]
<1>1. CASE k = None
  <2>1. UNCHANGED conn
    BY <1>1, Zenon DEF Hangup
  <2>. QED  BY <2>1, AssocKept
<1>2. CASE k # None
  <2>1. k \in Conns /\ IsConn(c)
    BY <1>2 DEF DInv, IsAssoc
  <2>2. Puts(conn, conn', k, l)
    BY <1>2, Zenon DEF Hangup, Puts
  <2>. HIDE DEF c
  <2>3. IsConn(l)
    BY <2>1, AddrsAssumption, Zenon DEF IsConn, ConnFields, Unused
  <2>. HIDE DEF k, l
  <2>4. Alike(assoc, assoc', Assocs, a) /\ assoc'[a] = r
    <3>1. assoc = [b \in Assocs |-> assoc[b]]
      BY DEF DInv
    <3>. QED  BY <3>1, PutAlike
  <2>5. Alike(conn, conn', Conns, k) /\ conn'[k] = l
    <3>1. conn = [j \in Conns |-> conn[j]]
      BY DEF DInv
    <3>. QED  BY <2>1, <2>2, <3>1, PutAlike
  <2>6. \A b \in Assocs : (b = a \/ assoc'[b].conn = k) => assoc'[b].conn = None
    <3>. SUFFICES ASSUME NEW b \in Assocs, b # a, assoc'[b].conn = k  PROVE  FALSE
      BY <2>4
    <3>1. assoc[b].conn = k
      BY <2>4 DEF Alike
    <3>. QED  BY <1>2, <3>1 DEF DInv, k
  <2>. QED  BY <2>3, <2>4, <2>5, <2>6, OrderKept
<1>. QED  BY <1>1, <1>2

LEMMA EndedAssoc == IsAssoc(Ended) /\ Ended.conn = None
BY Zenon DEF Ended, NewAssoc, IsAssoc, AssocFields, Connected

LEMMA AssociateOrder ==
  ASSUME DInv, NEW a \in Assocs, Associate(a)
  PROVE  DInv'
<1>. DEFINE q == assoc[a]
            r == [q EXCEPT !.at = "recv"]
<1>1. IsAssoc(q) /\ q.at = "none"
  BY DEF DInv, Associate
<1>2. UNCHANGED conn /\ (Puts(assoc, assoc', a, Ended) \/ Puts(assoc, assoc', a, r))
  BY Zenon DEF Associate, Puts
<1>. HIDE DEF q
<1>3. IsAssoc(r) /\ r.conn = None
  BY <1>1, Zenon DEF IsAssoc, AssocFields, Connected
<1>. HIDE DEF r
<1>. QED  BY <1>2, <1>3, EndedAssoc, AssocKept

LEMMA AssociateFailsOrder ==
  ASSUME DInv, NEW a \in Assocs, AssociateFails(a)
  PROVE  DInv'
<1>1. UNCHANGED conn /\ Puts(assoc, assoc', a, Ended)
  BY Zenon DEF AssociateFails, Puts
<1>. QED  BY <1>1, EndedAssoc, AssocKept

LEMMA CloseControlOrder ==
  ASSUME DInv, NEW a \in Assocs, CloseControl(a)
  PROVE  DInv'
<1>. DEFINE q == assoc[a]
            r == [q EXCEPT !.open = FALSE]
<1>1. IsAssoc(q) /\ (q.conn # None => Reads(q, conn[q.conn]))
  BY DEF DInv
<1>2. UNCHANGED conn /\ Puts(assoc, assoc', a, r)
  BY Zenon DEF CloseControl, Puts
<1>. HIDE DEF q
<1>3. IsAssoc(r) /\ r.conn = q.conn /\ r.at = q.at /\ r.recv = q.recv /\ r.got = q.got
  BY <1>1, Zenon DEF IsAssoc, AssocFields
<1>. HIDE DEF r
<1>4. r.conn # None => Reads(r, conn[r.conn])
  BY <1>1, <1>3 DEF Reads
<1>. QED  BY <1>2, <1>3, <1>4, AssocKept DEF q

LEMMA ClosedOrder ==
  ASSUME DInv, NEW a \in Assocs, Closed(a)
  PROVE  DInv'
<1>1. Hangup(a) /\ Puts(assoc, assoc', a, Ended)
  BY Zenon DEF Closed, Puts
<1>. QED  BY <1>1, EndedAssoc, HungUp

LEMMA SessionOverOrder ==
  ASSUME DInv, NEW a \in Assocs, SessionOver(a)
  PROVE  DInv'
<1>. DEFINE q == assoc[a]
            r == [q EXCEPT !.at = "recv", !.conn = None, !.hold = None, !.recv = <<>>, !.got = <<>>]
<1>1. IsAssoc(q)
  BY DEF DInv
<1>2. Hangup(a) /\ Puts(assoc, assoc', a, r)
  BY Zenon DEF SessionOver, Puts
<1>. HIDE DEF q
<1>3. IsAssoc(r) /\ r.conn = None
  BY <1>1, Zenon DEF IsAssoc, AssocFields, Connected
<1>. HIDE DEF r
<1>. QED  BY <1>2, <1>3, HungUp

LEMMA RecvFirstOrder ==
  ASSUME DInv, NEW a \in Assocs, NEW from, NEW kind, RecvFirst(a, from, kind)
  PROVE  DInv'
<1>. DEFINE q == assoc[a]
            opens == Expected(a, from) /\ Parses(kind) /\ Admits
            d == [id |-> q.count, kind |-> kind, from |-> from]
            to == IF Expected(a, from) THEN from ELSE q.client
            at == IF opens THEN "open" ELSE q.at
            hold == IF opens THEN d ELSE q.hold
            n == q.count + 1
            r == [q EXCEPT !.count = n, !.client = to, !.at = at, !.hold = hold]
<1>1. IsAssoc(q) /\ q.at = "recv"
  BY DEF DInv, RecvFirst
<1>2. UNCHANGED conn /\ Puts(assoc, assoc', a, r)
  BY Zenon DEF RecvFirst, Puts
<1>3. (at = "open" /\ hold = d) \/ at = "recv"
  BY <1>1
<1>. HIDE DEF q, to, at, hold
<1>4. d.id \in Nat /\ n \in Nat
  BY <1>1 DEF IsAssoc
<1>. HIDE DEF d, n
<1>5. IsAssoc(r) /\ r.conn = None
  BY <1>1, <1>3, <1>4, Zenon DEF IsAssoc, AssocFields, Connected
<1>. HIDE DEF r
<1>. QED  BY <1>2, <1>5, AssocKept

LEMMA DialOrder ==
  ASSUME DInv, NEW a \in Assocs, NEW k \in Conns, Dial(a, k)
  PROVE  DInv'
<1>. DEFINE q == assoc[a]
            c == conn[k]
            r == [q EXCEPT !.at = "setup", !.conn = k]
            l == [c EXCEPT !.open = TRUE, !.at = "setup"]
<1>1. IsAssoc(q) /\ q.at = "open" /\ IsConn(c) /\ c.at = "none"
  BY DEF DInv, Dial
<1>2. Puts(assoc, assoc', a, r) /\ Puts(conn, conn', k, l)
  BY Zenon DEF Dial, Puts
<1>. HIDE DEF q, c
<1>3. /\ IsAssoc(r) /\ r.conn = k /\ r.at = "setup" /\ r.recv = <<>> /\ r.got = <<>>
  BY <1>1, Zenon DEF IsAssoc, AssocFields, Connected
<1>4. IsConn(l) /\ l.at = "setup" /\ l.down = <<>> /\ l.written = <<>>
  BY <1>1, Zenon DEF IsConn, ConnFields, Unused, Relaying
<1>. HIDE DEF r, l
<1>5. Reads(r, l)
  BY <1>3, <1>4, NothingSent DEF Reads
<1>. QED  BY <1>1, <1>2, <1>3, <1>4, <1>5, PairKept DEF c

LEMMA TunnelOrder ==
  ASSUME DInv, NEW a \in Assocs, Tunnel(a)
  PROVE  DInv'
<1>. DEFINE q == assoc[a]
            r == [q EXCEPT !.at = "forward"]
<1>1. IsAssoc(q) /\ q.at = "setup" /\ conn[q.conn].reply = "tunnel"
  BY DEF DInv, Tunnel
<1>2. q.conn \in Conns /\ q.conn # None /\ Reads(q, conn[q.conn]) /\ IsConn(conn[q.conn])
  BY <1>1, OwnConn DEF Connected
<1>3. UNCHANGED conn /\ Puts(assoc, assoc', a, r)
  BY Zenon DEF Tunnel, Puts
<1>. HIDE DEF q
<1>4. IsAssoc(r) /\ r.conn = q.conn /\ r.recv = q.recv /\ r.got = q.got
  BY <1>1, Zenon DEF IsAssoc, AssocFields, Connected
<1>. HIDE DEF r
<1>5. conn[q.conn].at \in Relaying \cup {"closed"}
  BY <1>1, <1>2 DEF IsConn
<1>6. Reads(r, conn[r.conn])
  BY <1>2, <1>4, <1>5 DEF Reads
<1>. QED  BY <1>3, <1>4, <1>6, AssocKept DEF q

LEMMA ForwardOrder ==
  ASSUME DInv, NEW a \in Assocs, Forward(a)
  PROVE  DInv'
<1>. DEFINE q == assoc[a]
            k == q.conn
            c == conn[k]
            d == q.hold
            sends == Parses(d.kind) /\ d.kind # "big"
            from == IF sends THEN q.sources \cup {d.from} ELSE q.sources
            r == [q EXCEPT !.at = "pump", !.hold = None, !.sources = from]
            l == [c EXCEPT !.up = @ \o Pieces(d.id), !.sent = Append(@, d.id)]
<1>1. IsAssoc(q) /\ q.at = "forward"
  BY Zenon DEF DInv, Forward
<1>2. k \in Conns /\ k # None /\ Reads(q, c) /\ IsConn(c)
  BY <1>1, OwnConn DEF Connected
<1>3. Puts(assoc, assoc', a, r)
  BY Zenon DEF Forward, Puts
<1>4. IF sends THEN c.at # "closed" /\ Puts(conn, conn', k, l) ELSE UNCHANGED conn
  BY Zenon DEF Forward, Puts, ServerGone
<1>. HIDE DEF from, sends, k
<1>5. d.id \in Nat
  BY <1>1 DEF IsAssoc
<1>. HIDE DEF d, c
<1>. HIDE DEF q
<1>6. IsAssoc(r) /\ r.conn = q.conn /\ r.at = "pump" /\ r.recv = q.recv /\ r.got = q.got
  BY <1>1, Zenon DEF IsAssoc, AssocFields, Connected
<1>. HIDE DEF r
<1>7. Reads(r, c)
  BY <1>1, <1>2, <1>6 DEF Reads
<1>8. CASE sends
  <2>1. c.at \in Relaying /\ c.at # "none"
    BY <1>1, <1>2, <1>4, <1>8 DEF Reads
  <2>2. Streams(c.sent, c.flowed, c.recv, c.up) /\ Ordered(c.sent, c.flowed, c.recv, c.up)
    BY <1>2, <2>1 DEF IsConn
  <2>3. /\ Streams(Append(c.sent, d.id), c.flowed, c.recv, c.up \o Pieces(d.id))
        /\ Ordered(Append(c.sent, d.id), c.flowed, c.recv, c.up \o Pieces(d.id))
    BY <1>5, <2>2, SendOrdered
  <2>4. /\ l = [f \in ConnFields |-> l[f]]
        /\ l.sent = Append(c.sent, d.id) /\ l.up = c.up \o Pieces(d.id)
        /\ l.flowed = c.flowed /\ l.recv = c.recv /\ l.at = c.at /\ l.reply = c.reply
        /\ l.count = c.count /\ l.hold = c.hold /\ l.down = c.down /\ l.written = c.written
    BY <1>2, Zenon DEF IsConn, ConnFields
  <2>. HIDE DEF l
  <2>5. IsConn(l)
    BY <1>2, <2>1, <2>3, <2>4, Zenon DEF IsConn, Relaying
  <2>6. Reads(r, l)
    BY <1>7, <2>4 DEF Reads
  <2>. QED  BY <1>2, <1>3, <1>4, <1>6, <1>8, <2>5, <2>6, PairKept DEF q, k
<1>9. CASE ~sends
  BY <1>3, <1>4, <1>6, <1>7, <1>9, AssocKept DEF q, k, c
<1>. QED  BY <1>8, <1>9

LEMMA PumpDatagramOrder ==
  ASSUME DInv, NEW a \in Assocs, NEW from, NEW kind, PumpDatagram(a, from, kind)
  PROVE  DInv'
<1>. DEFINE q == assoc[a]
            d == [id |-> q.count, kind |-> kind, from |-> from]
            n == q.count + 1
            r == [q EXCEPT !.count = n, !.at = "forward", !.hold = d]
            s == [q EXCEPT !.count = n]
<1>1. IsAssoc(q) /\ q.at = "pump"
  BY DEF DInv, PumpDatagram
<1>2. q.conn \in Conns /\ q.conn # None /\ Reads(q, conn[q.conn])
  BY <1>1, OwnConn DEF Connected
<1>3. UNCHANGED conn /\ (Puts(assoc, assoc', a, r) \/ Puts(assoc, assoc', a, s))
  BY Zenon DEF PumpDatagram, Puts
<1>. HIDE DEF q
<1>4. d.id \in Nat /\ n \in Nat
  BY <1>1 DEF IsAssoc
<1>. HIDE DEF d, n
<1>5. IsAssoc(r) /\ r.conn = q.conn /\ r.at = "forward" /\ r.recv = q.recv /\ r.got = q.got
  BY <1>1, <1>4, Zenon DEF IsAssoc, AssocFields, Connected
<1>6. IsAssoc(s) /\ s.conn = q.conn /\ s.at = "pump" /\ s.recv = q.recv /\ s.got = q.got
  BY <1>1, <1>4 DEF IsAssoc, AssocFields, Connected
<1>. HIDE DEF r, s
<1>7. Reads(r, conn[r.conn]) /\ Reads(s, conn[s.conn])
  BY <1>1, <1>2, <1>5, <1>6 DEF Reads
<1>. QED  BY <1>3, <1>5, <1>6, <1>7, AssocKept DEF q

LEMMA PumpReadOrder ==
  ASSUME DInv, NEW a \in Assocs, PumpRead(a)
  PROVE  DInv'
<1>. DEFINE q == assoc[a]
            k == q.conn
            c == conn[k]
            r == [q EXCEPT !.recv = Append(@, Head(c.down))]
            l == [c EXCEPT !.down = Tail(@)]
<1>1. IsAssoc(q) /\ q.at = "pump" /\ c.down # <<>>
  BY DEF DInv, PumpRead
<1>2. k \in Conns /\ k # None /\ Reads(q, c) /\ IsConn(c)
  BY <1>1, OwnConn DEF Connected
<1>3. Puts(assoc, assoc', a, r) /\ Puts(conn, conn', k, l)
  BY Zenon DEF PumpRead, Puts
<1>. HIDE DEF c, q
<1>4. /\ Streams(c.written, q.got, Append(q.recv, Head(c.down)), Tail(c.down))
      /\ Ordered(c.written, q.got, Append(q.recv, Head(c.down)), Tail(c.down))
  BY <1>1, <1>2, ReadOrdered DEF Reads
<1>5. /\ IsAssoc(r) /\ r.conn = k /\ r.at = "pump" /\ r.got = q.got
      /\ r.recv = Append(q.recv, Head(c.down))
  BY <1>1, Zenon DEF IsAssoc, AssocFields, Connected
<1>6. l.at = c.at /\ l.written = c.written /\ l.down = Tail(c.down)
  BY <1>2 DEF IsConn, ConnFields
<1>7. IsConn(l)
  <2>1. c.at \in Relaying \cup {"closed"}
    BY <1>1, <1>2 DEF Reads
  <2>. QED  BY <1>2, <2>1, Zenon DEF IsConn, ConnFields, Relaying
<1>. HIDE DEF r, l
<1>8. Reads(r, l)
  BY <1>1, <1>2, <1>4, <1>5, <1>6 DEF Reads
<1>. QED  BY <1>2, <1>3, <1>5, <1>7, <1>8, PairKept DEF q

LEMMA PumpRecordOrder ==
  ASSUME DInv, NEW a \in Assocs, PumpRecord(a)
  PROVE  DInv'
<1>. DEFINE q == assoc[a]
            c == conn[q.conn]
            r == [q EXCEPT !.recv = SubSeq(@, 3, Len(@)), !.got = Append(@, q.recv[1][1])]
<1>1. IsAssoc(q) /\ q.at = "pump" /\ Len(q.recv) >= 2
  BY DEF DInv, PumpRecord, HasRecord
<1>2. q.conn \in Conns /\ q.conn # None /\ Reads(q, c)
  BY <1>1, OwnConn DEF Connected
<1>3. UNCHANGED conn /\ Puts(assoc, assoc', a, r)
  BY Zenon DEF PumpRecord, Puts
<1>. HIDE DEF q
<1>4. /\ Streams(c.written, Append(q.got, q.recv[1][1]), SubSeq(q.recv, 3, Len(q.recv)), c.down)
      /\ Ordered(c.written, Append(q.got, q.recv[1][1]), SubSeq(q.recv, 3, Len(q.recv)), c.down)
  BY <1>1, <1>2, RecordOrdered DEF Reads
<1>5. /\ IsAssoc(r) /\ r.conn = q.conn /\ r.at = "pump" /\ r.got = Append(q.got, q.recv[1][1])
      /\ r.recv = SubSeq(q.recv, 3, Len(q.recv))
  BY <1>1, Zenon DEF IsAssoc, AssocFields, Connected
<1>. HIDE DEF r
<1>6. Reads(r, conn[r.conn])
  BY <1>1, <1>2, <1>4, <1>5 DEF Reads
<1>. QED  BY <1>3, <1>5, <1>6, AssocKept DEF q
-----------------------------------------------------------------------------
(* Steps of the server.                                                    *)

\* A step of the server's task that leaves the replies alone: for the client it
\* matters only that the task goes on relaying, or closes.
LEMMA RepliesKept ==
  ASSUME DInv, UNCHANGED assoc, NEW k \in Conns, NEW l, Puts(conn, conn', k, l), IsConn(l),
         conn[k].at # "none", l.down = conn[k].down, l.written = conn[k].written, l.at # "none",
         conn[k].at \in Relaying \cup {"closed"} => l.at \in Relaying \cup {"closed"}
  PROVE  DInv'
<1>1. \A b \in Assocs : assoc[b].conn = k => Reads(assoc[b], l)
  <2>. SUFFICES ASSUME NEW b \in Assocs, assoc[b].conn = k  PROVE  Reads(assoc[b], l)
    OBVIOUS
  <2>1. Reads(assoc[b], conn[k])
    BY AddrsAssumption DEF DInv
  <2>. QED  BY <2>1 DEF Reads
<1>. QED  BY <1>1, ConnKept

LEMMA SetupFailsOrder ==
  ASSUME DInv, NEW k \in Conns, SetupFails(k)
  PROVE  DInv'
<1>. DEFINE c == conn[k]
            l == [c EXCEPT !.at = "closed"]
<1>1. IsConn(c) /\ c.at = "setup"
  BY DEF DInv, SetupFails
<1>2. UNCHANGED assoc /\ Puts(conn, conn', k, l)
  BY Zenon DEF SetupFails, Puts
<1>. HIDE DEF c
<1>3. IsConn(l) /\ l.at = "closed" /\ l.down = c.down /\ l.written = c.written
  BY <1>1 DEF IsConn, ConnFields, Relaying
<1>. HIDE DEF l
<1>. QED  BY <1>1, <1>2, <1>3, RepliesKept DEF c

LEMMA ServerAdmitOrder ==
  ASSUME DInv, NEW k \in Conns, ServerAdmit(k)
  PROVE  DInv'
<1>. DEFINE c == conn[k]
            l == [c EXCEPT !.at = "flow"]
            m == [c EXCEPT !.at = "closed", !.reply = "reject"]
<1>1. IsConn(c) /\ c.at = "setup"
  BY DEF DInv, ServerAdmit
<1>2. UNCHANGED assoc /\ (Puts(conn, conn', k, l) \/ Puts(conn, conn', k, m))
  BY Zenon DEF ServerAdmit, Puts
<1>. HIDE DEF c
<1>3. IsConn(l) /\ l.at = "flow" /\ l.down = c.down /\ l.written = c.written
  BY <1>1 DEF IsConn, ConnFields, Relaying, Unused
<1>4. IsConn(m) /\ m.at = "closed" /\ m.down = c.down /\ m.written = c.written
  BY <1>1, Zenon DEF IsConn, ConnFields, Relaying
<1>. HIDE DEF l, m
<1>5. c.at \notin Relaying \cup {"closed"}
  BY <1>1 DEF Relaying
<1>. QED  BY <1>1, <1>2, <1>3, <1>4, <1>5, RepliesKept DEF c

LEMMA FlowOpensOrder ==
  ASSUME DInv, NEW k \in Conns, FlowOpens(k)
  PROVE  DInv'
<1>. DEFINE c == conn[k]
            l == [c EXCEPT !.at = "relay", !.reply = "tunnel"]
<1>1. IsConn(c) /\ c.at = "flow"
  BY DEF DInv, FlowOpens
<1>2. UNCHANGED assoc /\ Puts(conn, conn', k, l)
  BY Zenon DEF FlowOpens, Puts
<1>. HIDE DEF c
<1>3. /\ l = [f \in ConnFields |-> l[f]] /\ l.count \in Nat
      /\ l.at = "relay" /\ l.down = c.down /\ l.written = c.written
      /\ l.sent = <<>> /\ l.flowed = <<>> /\ l.recv = <<>> /\ l.up = <<>>
  BY <1>1, Zenon DEF IsConn, ConnFields, Unused
<1>. HIDE DEF l
<1>4. IsConn(l)
  BY <1>3, NothingSent DEF IsConn, Relaying
<1>. QED  BY <1>1, <1>2, <1>3, <1>4, RepliesKept DEF c, Relaying

LEMMA ServerOverOrder ==
  ASSUME DInv, NEW k \in Conns, conn[k].at # "none", ServerOver(k)
  PROVE  DInv'
<1>. DEFINE c == conn[k]
            l == [c EXCEPT !.at = "closed", !.hold = None, !.recv = <<>>, !.up = <<>>,
                           !.count = 0, !.sent = <<>>, !.flowed = <<>>]
<1>1. IsConn(c)
  BY DEF DInv
<1>2. UNCHANGED assoc /\ Puts(conn, conn', k, l)
  BY Zenon DEF ServerOver, Puts
<1>. HIDE DEF c
<1>3. IsConn(l) /\ l.at = "closed" /\ l.down = c.down /\ l.written = c.written
  BY <1>1, Zenon DEF IsConn, ConnFields, Relaying
<1>. HIDE DEF l
<1>. QED  BY <1>2, <1>3, RepliesKept DEF c

LEMMA ServerReadOrder ==
  ASSUME DInv, NEW k \in Conns, ServerRead(k)
  PROVE  DInv'
<1>. DEFINE c == conn[k]
            l == [c EXCEPT !.recv = Append(@, Head(c.up)), !.up = Tail(@)]
<1>1. IsConn(c) /\ c.at = "relay" /\ c.up # <<>>
  BY DEF DInv, ServerRead
<1>2. UNCHANGED assoc /\ Puts(conn, conn', k, l)
  BY Zenon DEF ServerRead, Puts
<1>. HIDE DEF c
<1>3. Streams(c.sent, c.flowed, c.recv, c.up) /\ Ordered(c.sent, c.flowed, c.recv, c.up)
  BY <1>1 DEF IsConn, Relaying
<1>4. /\ Streams(c.sent, c.flowed, Append(c.recv, Head(c.up)), Tail(c.up))
      /\ Ordered(c.sent, c.flowed, Append(c.recv, Head(c.up)), Tail(c.up))
  BY <1>1, <1>3, ReadOrdered
<1>5. /\ l = [f \in ConnFields |-> l[f]] /\ l.count \in Nat
      /\ l.at = "relay" /\ l.down = c.down /\ l.written = c.written
      /\ l.sent = c.sent /\ l.flowed = c.flowed
      /\ l.recv = Append(c.recv, Head(c.up)) /\ l.up = Tail(c.up)
  BY <1>1, Zenon DEF IsConn, ConnFields
<1>. HIDE DEF l
<1>6. IsConn(l)
  BY <1>4, <1>5, Zenon DEF IsConn, Relaying
<1>. QED  BY <1>1, <1>2, <1>5, <1>6, RepliesKept DEF c, Relaying

LEMMA ServerRecordOrder ==
  ASSUME DInv, NEW k \in Conns, ServerRecord(k)
  PROVE  DInv'
<1>. DEFINE c == conn[k]
            l == [c EXCEPT !.recv = SubSeq(@, 3, Len(@)), !.flowed = Append(@, c.recv[1][1])]
<1>1. IsConn(c) /\ c.at = "relay" /\ Len(c.recv) >= 2
  BY DEF DInv, ServerRecord, HasRecord
<1>2. UNCHANGED assoc /\ Puts(conn, conn', k, l)
  BY Zenon DEF ServerRecord, Puts
<1>. HIDE DEF c
<1>3. Streams(c.sent, c.flowed, c.recv, c.up) /\ Ordered(c.sent, c.flowed, c.recv, c.up)
  BY <1>1 DEF IsConn, Relaying
<1>4. /\ Streams(c.sent, Append(c.flowed, c.recv[1][1]), SubSeq(c.recv, 3, Len(c.recv)), c.up)
      /\ Ordered(c.sent, Append(c.flowed, c.recv[1][1]), SubSeq(c.recv, 3, Len(c.recv)), c.up)
  BY <1>1, <1>3, RecordOrdered
<1>5. /\ l = [f \in ConnFields |-> l[f]] /\ l.count \in Nat
      /\ l.at = "relay" /\ l.down = c.down /\ l.written = c.written
      /\ l.sent = c.sent /\ l.flowed = Append(c.flowed, c.recv[1][1])
      /\ l.recv = SubSeq(c.recv, 3, Len(c.recv)) /\ l.up = c.up
  BY <1>1, Zenon DEF IsConn, ConnFields
<1>. HIDE DEF l
<1>6. IsConn(l)
  BY <1>4, <1>5, Zenon DEF IsConn, Relaying
<1>. QED  BY <1>1, <1>2, <1>5, <1>6, RepliesKept DEF c, Relaying

LEMMA FlowRecvOrder ==
  ASSUME DInv, NEW k \in Conns, FlowRecv(k)
  PROVE  DInv'
<1>. DEFINE c == conn[k]
            n == c.count + 1
            l == [c EXCEPT !.at = "reply", !.hold = c.count, !.count = n]
<1>1. IsConn(c) /\ c.at = "relay"
  BY DEF DInv, FlowRecv
<1>2. UNCHANGED assoc /\ Puts(conn, conn', k, l)
  BY Zenon DEF FlowRecv, Puts
<1>. HIDE DEF c
<1>3. n \in Nat /\ c.count \in Nat
  BY <1>1 DEF IsConn
<1>. HIDE DEF n
<1>4. IsConn(l) /\ l.at = "reply" /\ l.down = c.down /\ l.written = c.written
  BY <1>1, <1>3, Zenon DEF IsConn, ConnFields, Relaying
<1>. HIDE DEF l
<1>. QED  BY <1>1, <1>2, <1>4, RepliesKept DEF c, Relaying

LEMMA ServerWriteOrder ==
  ASSUME DInv, NEW k \in Conns, ServerWrite(k)
  PROVE  DInv'
<1>. DEFINE c == conn[k]
            l == [c EXCEPT !.at = "relay", !.hold = None,
                           !.down = @ \o Pieces(c.hold), !.written = Append(@, c.hold)]
<1>1. IsConn(c) /\ c.at = "reply"
  BY DEF DInv, ServerWrite
<1>2. UNCHANGED assoc /\ Puts(conn, conn', k, l)
  BY Zenon DEF ServerWrite, Puts
<1>3. \A b \in Assocs : assoc[b].conn = k => Reads(assoc[b], c)
  BY AddrsAssumption DEF DInv
<1>. HIDE DEF c
<1>4. c.hold \in Nat
  BY <1>1 DEF IsConn
<1>5. /\ IsConn(l) /\ l.at = "relay"
      /\ l.down = c.down \o Pieces(c.hold) /\ l.written = Append(c.written, c.hold)
  BY <1>1, Zenon DEF IsConn, ConnFields, Relaying
<1>. HIDE DEF l
<1>6. \A b \in Assocs : assoc[b].conn = k => Reads(assoc[b], l)
  <2>. SUFFICES ASSUME NEW b \in Assocs, assoc[b].conn = k  PROVE  Reads(assoc[b], l)
    OBVIOUS
  <2>. DEFINE q == assoc[b]
  <2>1. Reads(q, c)
    BY <1>3
  <2>. HIDE DEF q
  <2>2. Streams(c.written, q.got, q.recv, c.down) /\ Ordered(c.written, q.got, q.recv, c.down)
    BY <2>1 DEF Reads
  <2>3. /\ Streams(l.written, q.got, q.recv, l.down)
        /\ Ordered(l.written, q.got, q.recv, l.down)
    BY <1>4, <1>5, <2>2, SendOrdered
  <2>4. Reads(q, l)
    BY <1>5, <2>3 DEF Reads, Relaying
  <2>. QED  BY <2>4 DEF q
<1>. QED  BY <1>2, <1>5, <1>6, ConnKept

LEMMA ServerOversizeOrder ==
  ASSUME DInv, NEW k \in Conns, ServerOversize(k)
  PROVE  DInv'
<1>. DEFINE c == conn[k]
            l == [c EXCEPT !.at = "relay", !.hold = None]
<1>1. IsConn(c) /\ c.at = "reply"
  BY DEF DInv, ServerOversize
<1>2. UNCHANGED assoc /\ Puts(conn, conn', k, l)
  BY Zenon DEF ServerOversize, Puts
<1>. HIDE DEF c
<1>3. IsConn(l) /\ l.at = "relay" /\ l.down = c.down /\ l.written = c.written
  BY <1>1, Zenon DEF IsConn, ConnFields, Relaying
<1>. HIDE DEF l
<1>. QED  BY <1>1, <1>2, <1>3, RepliesKept DEF c, Relaying

LEMMA OrderInit == Init => DInv
<1>. SUFFICES ASSUME Init  PROVE  DInv
  OBVIOUS
<1>1. IsAssoc(NewAssoc) /\ NewAssoc.conn = None
  BY Zenon DEF NewAssoc, IsAssoc, AssocFields, Connected
<1>2. IsConn(NewConn)
  BY AddrsAssumption DEF NewConn, IsConn, ConnFields, Relaying, Unused
<1>3. /\ assoc = [a \in Assocs |-> assoc[a]] /\ \A a \in Assocs : assoc[a] = NewAssoc
      /\ conn = [k \in Conns |-> conn[k]] /\ \A k \in Conns : conn[k] = NewConn
  BY DEF Init
<1>. QED  BY <1>1, <1>2, <1>3 DEF DInv

LEMMA OrderStep == DInv /\ [Next]_vars => DInv'
<1>. SUFFICES ASSUME DInv, [Next]_vars  PROVE  DInv'
  OBVIOUS
<1>1. CASE UNCHANGED vars
  BY <1>1 DEF DInv, vars
<1>2. ASSUME NEW a \in Assocs, Client(a)  PROVE  DInv'
  <2>1. ASSUME NEW from \in Addrs, NEW kind \in Kinds,
               RecvFirst(a, from, kind) \/ PumpDatagram(a, from, kind)
        PROVE  DInv'
    BY <2>1, RecvFirstOrder, PumpDatagramOrder
  <2>2. CASE \E k \in Conns : Dial(a, k)
    BY <2>2, DialOrder
  <2>3. CASE Associate(a) \/ AssociateFails(a) \/ CloseControl(a) \/ Closed(a)
    BY <2>3, AssociateOrder, AssociateFailsOrder, CloseControlOrder, ClosedOrder
  <2>4. CASE OpenFails(a) \/ ForwardFails(a) \/ PumpEnds(a)
    BY <2>4, SessionOverOrder DEF OpenFails, ForwardFails, PumpEnds
  <2>5. CASE Tunnel(a) \/ Forward(a) \/ PumpRead(a) \/ PumpRecord(a)
    BY <2>5, TunnelOrder, ForwardOrder, PumpReadOrder, PumpRecordOrder
  <2>. QED  BY <1>2, <2>1, <2>2, <2>3, <2>4, <2>5, Zenon DEF Client
<1>3. ASSUME NEW k \in Conns, Server(k)  PROVE  DInv'
  <2>1. CASE SetupFails(k) \/ ServerAdmit(k) \/ FlowOpens(k)
    BY <2>1, SetupFailsOrder, ServerAdmitOrder, FlowOpensOrder
  <2>2. CASE FlowFails(k) \/ ClientGone(k) \/ ServerIdle(k)
    <3>1. ServerOver(k) /\ conn[k].at # "none"
      BY <2>2 DEF FlowFails, ClientGone, ServerIdle
    <3>. QED  BY <3>1, ServerOverOrder
  <2>3. CASE ServerRead(k) \/ ServerRecord(k) \/ FlowRecv(k) \/ ServerWrite(k) \/ ServerOversize(k)
    BY <2>3, ServerReadOrder, ServerRecordOrder, FlowRecvOrder, ServerWriteOrder, ServerOversizeOrder
  <2>. QED  BY <1>3, <2>1, <2>2, <2>3, Zenon DEF Server
<1>. QED  BY <1>1, <1>2, <1>3, Zenon DEF Next

LEMMA OrderSafe == DInv => DatagramsInOrder
<1>. SUFFICES ASSUME DInv  PROVE  DatagramsInOrder
  OBVIOUS
<1>1. ASSUME NEW k \in Conns, conn[k].at \in {"relay", "reply"}
      PROVE  AllPieces(conn[k].sent) = AllPieces(conn[k].flowed) \o conn[k].recv \o conn[k].up
  <2>. DEFINE c == conn[k]
  <2>1. IsConn(c) /\ c.at \in Relaying
    BY <1>1 DEF DInv, Relaying
  <2>. HIDE DEF c
  <2>2. Streams(c.sent, c.flowed, c.recv, c.up) /\ Ordered(c.sent, c.flowed, c.recv, c.up)
    BY <2>1 DEF IsConn
  <2>3. InOrder(c.sent, c.flowed, c.recv, c.up)
    BY <2>2, OrderedPieces, SMTT(30)
  <2>. QED  BY <2>3 DEF InOrder, c
<1>2. ASSUME NEW a \in Assocs, assoc[a].at \in {"forward", "pump"}
      PROVE  AllPieces(conn[assoc[a].conn].written) =
               AllPieces(assoc[a].got) \o assoc[a].recv \o conn[assoc[a].conn].down
  <2>. DEFINE q == assoc[a]
              c == conn[assoc[a].conn]
  <2>1. Reads(q, c)
    BY <1>2, OwnConn DEF Connected
  <2>. HIDE DEF q, c
  <2>2. Streams(c.written, q.got, q.recv, c.down) /\ Ordered(c.written, q.got, q.recv, c.down)
    BY <2>1 DEF Reads
  <2>3. InOrder(c.written, q.got, q.recv, c.down)
    BY <2>2, OrderedPieces
  <2>. QED  BY <2>3, Zenon DEF InOrder, q, c
<1>. QED  BY <1>1, <1>2, Zenon DEF DatagramsInOrder

\* Every request the server relays reaches the flow, and every reply its client,
\* in the order in which they were sent and none is lost on the way, wherever
\* select! cancels decode_once: what is behind the datagrams that were taken is
\* in the receive buffer and on the connection, to the piece (pump, relay).
THEOREM DatagramsKeepOrder == Safety => []DatagramsInOrder
<1>1. Init => DInv
  BY OrderInit
<1>2. DInv /\ [Next]_vars => DInv'
  BY OrderStep
<1>3. DInv => DatagramsInOrder
  BY OrderSafe
<1>. QED  BY <1>1, <1>2, <1>3, PTL DEF Safety
-----------------------------------------------------------------------------
(* Slots.                                                                  *)

INSTANCE FiniteSetTheorems

\* f is a function on S to records with a place; what else they hold does not
\* matter here.
Placed(f, S) == f = [x \in S |-> f[x]] /\ \A x \in S : "at" \in DOMAIN f[x]

\* How many of S are at one of the places of T.
Count(f, S, T) == Cardinality({x \in S : f[x].at \in T})
Held(r, T) == IF r.at \in T THEN 1 ELSE 0

Controlled == {"recv"} \cup Sessions

UInv == Placed(assoc, Assocs) /\ Placed(conn, Conns) /\ SlotsExact

\* Everything but the record of x is as in f.
Others(f, g, S, x) == Placed(g, S) /\ \A y \in S \ {x} : g[y] = f[y]

\* The tasks of the server that hold a slot are the same.
Stays(f, g) == Placed(g, Conns) /\ \A k \in Conns : g[k].at \in Serving <=> f[k].at \in Serving
-----------------------------------------------------------------------------
\* Only the record of x changes, to r.
Sets(f, g, S, x, r) == Others(f, g, S, x) /\ g[x] = r

LEMMA Put ==
  ASSUME NEW S, NEW f, Placed(f, S), NEW x \in S, NEW r, "at" \in DOMAIN r,
         NEW g, Puts(f, g, x, r)
  PROVE  Sets(f, g, S, x, r)
<1>1. g = [y \in S |-> IF y = x THEN r ELSE f[y]]
  BY DEF Placed, Puts
<1>2. \A y \in S : g[y] = IF y = x THEN r ELSE f[y]
  BY <1>1
<1>3. g = [y \in S |-> g[y]]
  BY <1>1
<1>. QED  BY <1>2, <1>3 DEF Placed, Others, Sets

\* A record that keeps its slot or has none, at an x that may be no connection.
LEMMA PutStays ==
  ASSUME NEW f, Placed(f, Conns), NEW x, NEW r,
         x \in Conns => "at" \in DOMAIN r /\ (r.at \in Serving <=> f[x].at \in Serving),
         NEW g, Puts(f, g, x, r)
  PROVE  Stays(f, g)
<1>1. g = [y \in Conns |-> IF y = x THEN r ELSE f[y]]
  BY DEF Placed, Puts
<1>2. \A y \in Conns : g[y] = IF y = x THEN r ELSE f[y]
  BY <1>1
<1>3. g = [y \in Conns |-> g[y]]
  BY <1>1
<1>. QED  BY <1>2, <1>3 DEF Placed, Stays

\* One that moves from one place to another is counted where it was and where
\* it is.
LEMMA Recount ==
  ASSUME NEW S, IsFiniteSet(S), NEW T, NEW f, NEW g, NEW x \in S,
         \A y \in S \ {x} : g[y] = f[y]
  PROVE  /\ Count(f, S, T) \in Nat /\ Count(g, S, T) \in Nat
         /\ Count(g, S, T) = Count(f, S, T) + Held(g[x], T) - Held(f[x], T)
<1>. DEFINE F == {y \in S : f[y].at \in T}
            G == {y \in S : g[y].at \in T}
<1>1. IsFiniteSet(F) /\ IsFiniteSet(G)
  BY FS_Subset
<1>2. Cardinality(F) \in Nat /\ Cardinality(G) \in Nat
  BY <1>1, FS_CardinalityType
<1>3. CASE x \in F /\ x \notin G
  <2>1. G = F \ {x}
    BY <1>3
  <2>2. Cardinality(G) = Cardinality(F) - 1
    BY <1>1, <1>3, <2>1, FS_RemoveElement, Zenon
  <2>. QED  BY <1>2, <1>3, <2>2 DEF Count, Held
<1>4. CASE x \notin F /\ x \in G
  <2>1. G = F \cup {x}
    BY <1>4
  <2>2. Cardinality(G) = Cardinality(F) + 1
    BY <1>1, <1>4, <2>1, FS_AddElement, Zenon
  <2>. QED  BY <1>2, <1>4, <2>2 DEF Count, Held
<1>5. CASE x \in F <=> x \in G
  <2>1. G = F
    BY <1>5
  <2>2. Held(g[x], T) = Held(f[x], T) /\ Held(f[x], T) \in Nat
    BY <1>5 DEF Held
  <2>3. Count(g, S, T) = Count(f, S, T) /\ Count(f, S, T) \in Nat
    BY <1>2, <2>1, Zenon DEF Count
  <2>. QED  BY <2>2, <2>3
<1>. QED  BY <1>3, <1>4, <1>5

\* Then so is their number.
LEMMA SameCount ==
  ASSUME NEW f, NEW g, Stays(f, g)
  PROVE  Count(g, Conns, Serving) = Count(f, Conns, Serving)
<1>1. {k \in Conns : g[k].at \in Serving} = {k \in Conns : f[k].at \in Serving}
  BY DEF Stays
<1>. QED  BY <1>1 DEF Count

\* SlotsExact in these terms.
LEMMA SlotsCount ==
  SlotsExact <=>
    /\ controls \in Nat /\ live.client <= ClientMax /\ live.server <= ServerMax
    /\ live = [client |-> Count(assoc, Assocs, Sessions), server |-> Count(conn, Conns, Serving)]
    /\ controls + Count(assoc, Assocs, Controlled) = Controls
BY DEF SlotsExact, Count, InSession, InService, Controlled
-----------------------------------------------------------------------------
\* An association that moves takes and gives back the slots of the places it
\* enters and leaves; the server's tasks stay where they are.
LEMMA ClientMoves ==
  ASSUME UInv, NEW a \in Assocs, Others(assoc, assoc', Assocs, a), Stays(conn, conn'),
         controls' = controls + Held(assoc[a], Controlled) - Held(assoc'[a], Controlled),
         controls' \in Nat,
         live' = [client |-> live.client + Held(assoc'[a], Sessions) - Held(assoc[a], Sessions),
                  server |-> live.server],
         live'.client <= ClientMax
  PROVE  UInv'
<1>1. /\ Count(assoc', Assocs, Sessions) =
           Count(assoc, Assocs, Sessions) + Held(assoc'[a], Sessions) - Held(assoc[a], Sessions)
      /\ Count(assoc, Assocs, Sessions) \in Nat
  BY Recount, FiniteAssumption DEF Others
<1>2. /\ Count(assoc', Assocs, Controlled) =
           Count(assoc, Assocs, Controlled) + Held(assoc'[a], Controlled) - Held(assoc[a], Controlled)
      /\ Count(assoc, Assocs, Controlled) \in Nat
  BY Recount, FiniteAssumption, SMTT(30) DEF Others
<1>3. Count(conn', Conns, Serving) = Count(conn, Conns, Serving)
  BY SameCount, SMTT(30)
<1>4. SlotsExact
  BY Zenon DEF UInv
<1>5. Held(assoc[a], Controlled) \in Nat /\ Held(assoc'[a], Controlled) \in Nat
  BY Zenon DEF Held
<1>6. controls' + Count(assoc', Assocs, Controlled) = Controls
  BY <1>2, <1>4, <1>5, SlotsCount
<1>7. live' = [client |-> Count(assoc', Assocs, Sessions), server |-> Count(conn', Conns, Serving)]
  BY <1>1, <1>3, <1>4, SlotsCount
<1>8. live'.server <= ServerMax
  BY <1>4, SlotsCount
<1>9. SlotsExact'
  BY <1>6, <1>7, <1>8 DEF SlotsExact, Count, InSession, InService, Controlled, Sessions, Serving
<1>. QED  BY <1>9 DEF UInv, Others, Stays

\* The same of a task of the server, while the associations stay.
LEMMA ServerMoves ==
  ASSUME UInv, NEW k \in Conns, Others(conn, conn', Conns, k), UNCHANGED <<controls, assoc>>,
         live' = [client |-> live.client,
                  server |-> live.server + Held(conn'[k], Serving) - Held(conn[k], Serving)],
         live'.server <= ServerMax
  PROVE  UInv'
<1>1. /\ Count(conn', Conns, Serving) =
           Count(conn, Conns, Serving) + Held(conn'[k], Serving) - Held(conn[k], Serving)
      /\ Count(conn, Conns, Serving) \in Nat
  BY Recount, FiniteAssumption, SMTT(30) DEF Others
<1>2. /\ Count(assoc', Assocs, Sessions) = Count(assoc, Assocs, Sessions)
      /\ Count(assoc', Assocs, Controlled) = Count(assoc, Assocs, Controlled)
  BY Zenon
<1>3. SlotsExact
  BY DEF UInv
<1>4. controls' + Count(assoc', Assocs, Controlled) = Controls /\ controls' \in Nat
  BY <1>2, <1>3, SlotsCount
<1>5. live' = [client |-> Count(assoc', Assocs, Sessions), server |-> Count(conn', Conns, Serving)]
  BY <1>1, <1>2, <1>3, SlotsCount, SMTT(30)
<1>6. live'.client <= ClientMax
  BY <1>3, SlotsCount
<1>7. SlotsExact'
  BY <1>4, <1>5, <1>6 DEF SlotsExact, Count, InSession, InService, Controlled, Sessions, Serving
<1>. QED  BY <1>7 DEF UInv, Others, Stays

\* What is known of the counters before a step.
LEMMA Counters ==
  ASSUME UInv
  PROVE  /\ live = [client |-> live.client, server |-> live.server]
         /\ live.client \in Nat /\ live.server \in Nat /\ controls \in Nat
         /\ live.client <= ClientMax /\ live.server <= ServerMax
         /\ ClientMax \in Nat /\ ServerMax \in Nat
<1>1. SlotsExact
  BY DEF UInv
<1>2. /\ IsFiniteSet({a \in Assocs : assoc[a].at \in Sessions})
      /\ IsFiniteSet({k \in Conns : conn[k].at \in Serving})
  BY FS_Subset, FiniteAssumption
<1>3. Count(assoc, Assocs, Sessions) \in Nat /\ Count(conn, Conns, Serving) \in Nat
  BY <1>2, FS_CardinalityType DEF Count
<1>. QED  BY <1>1, <1>3, SlotsCount, LimitsAssumption
-----------------------------------------------------------------------------
\* An association that keeps its slots, with whatever happens to its record.
LEMMA ClientKeeps ==
  ASSUME UInv, NEW a \in Assocs, NEW r, Puts(assoc, assoc', a, r), "at" \in DOMAIN r,
         r.at \in Controlled <=> assoc[a].at \in Controlled,
         r.at \in Sessions <=> assoc[a].at \in Sessions,
         Stays(conn, conn'), UNCHANGED <<controls, live>>
  PROVE  UInv'
<1>1. Others(assoc, assoc', Assocs, a) /\ assoc'[a] = r
  <2>1. Placed(assoc, Assocs)
    BY Zenon DEF UInv
  <2>2. Sets(assoc, assoc', Assocs, a, r)
    BY <2>1, Put, Zenon
  <2>. QED  BY <2>2, Zenon DEF Sets
<1>2. /\ Held(assoc'[a], Controlled) = Held(assoc[a], Controlled)
      /\ Held(assoc'[a], Sessions) = Held(assoc[a], Sessions)
      /\ Held(assoc[a], Controlled) \in Nat /\ Held(assoc[a], Sessions) \in Nat
  BY <1>1 DEF Held
<1>3. /\ live' = [client |-> live.client + Held(assoc'[a], Sessions) - Held(assoc[a], Sessions),
                  server |-> live.server]
      /\ controls' = controls + Held(assoc[a], Controlled) - Held(assoc'[a], Controlled)
      /\ controls' \in Nat /\ live'.client <= ClientMax
  BY <1>2, Counters
<1>. QED  BY <1>1, <1>3, ClientMoves

\* The same of a task of the server.
LEMMA ServerKeeps ==
  ASSUME UInv, NEW k \in Conns, NEW r, Puts(conn, conn', k, r), "at" \in DOMAIN r,
         r.at \in Serving <=> conn[k].at \in Serving, UNCHANGED <<controls, live, assoc>>
  PROVE  UInv'
<1>1. Others(conn, conn', Conns, k) /\ conn'[k] = r
  <2>1. Placed(conn, Conns)
    BY Zenon DEF UInv
  <2>2. Sets(conn, conn', Conns, k, r)
    BY <2>1, Put, Zenon
  <2>. QED  BY <2>2, Zenon DEF Sets
<1>2. /\ Held(conn'[k], Serving) = Held(conn[k], Serving) /\ Held(conn[k], Serving) \in Nat
  BY <1>1 DEF Held
<1>3. /\ live' = [client |-> live.client,
                  server |-> live.server + Held(conn'[k], Serving) - Held(conn[k], Serving)]
      /\ live'.server <= ServerMax
  BY <1>2, Counters
<1>. QED  BY <1>1, <1>3, ServerMoves

\* Hanging up moves no task of the server: it has yet to notice.
LEMMA HangupStays ==
  ASSUME UInv, NEW a, Hangup(a)
  PROVE  Stays(conn, conn')
<1>. DEFINE k == assoc[a].conn
            r == [conn[k] EXCEPT !.open = FALSE, !.reply = None, !.down = <<>>, !.written = <<>>]
<1>1. CASE k = None
  BY <1>1 DEF Hangup, UInv, Stays
<1>2. CASE k # None
  <2>1. Puts(conn, conn', k, r)
    BY <1>2, Zenon DEF Hangup, Puts
  <2>2. k \in Conns => "at" \in DOMAIN r /\ r.at = conn[k].at
    BY DEF UInv, Placed
  <2>. HIDE DEF r, k
  <2>. QED  BY <2>1, <2>2, PutStays DEF UInv
<1>. QED  BY <1>1, <1>2
-----------------------------------------------------------------------------
LEMMA EndedPlace == "at" \in DOMAIN Ended /\ Ended.at = "ended"
BY DEF Ended, NewAssoc

LEMMA AssociatePreserves ==
  ASSUME UInv, NEW a \in Assocs, Associate(a)
  PROVE  UInv'
<1>1. Stays(conn, conn')
  BY DEF UInv, Stays, Associate
<1>2. CASE controls = 0
  <2>1. Puts(assoc, assoc', a, Ended)
    BY <1>2, Zenon DEF Associate, Puts
  <2>2. assoc[a].at \notin Controlled /\ assoc[a].at \notin Sessions
    BY DEF Associate, Controlled, Sessions
  <2>3. Ended.at \notin Controlled /\ Ended.at \notin Sessions
    BY EndedPlace DEF Controlled, Sessions
  <2>4. UNCHANGED <<controls, live>>
    BY <1>2, Zenon DEF Associate
  <2>. QED  BY <1>1, <2>1, <2>2, <2>3, <2>4, EndedPlace, ClientKeeps
<1>3. CASE controls # 0
  <2>. DEFINE r == [assoc[a] EXCEPT !.at = "recv"]
  <2>1. Puts(assoc, assoc', a, r)
    BY <1>3, Zenon DEF Associate, Puts
  <2>2. "at" \in DOMAIN r /\ r.at = "recv"
    BY DEF UInv, Placed
  <2>. HIDE DEF r
  <2>3. Others(assoc, assoc', Assocs, a) /\ assoc'[a] = r
    <3>1. Placed(assoc, Assocs)
      BY Zenon DEF UInv
    <3>2. Sets(assoc, assoc', Assocs, a, r)
      BY <2>1, <2>2, <3>1, Put, Zenon
    <3>. QED  BY <3>2, Zenon DEF Sets
  <2>4. /\ Held(assoc[a], Controlled) = 0 /\ Held(assoc[a], Sessions) = 0
        /\ Held(assoc'[a], Controlled) = 1 /\ Held(assoc'[a], Sessions) = 0
    BY <2>2, <2>3 DEF Associate, Held, Controlled, Sessions
  <2>5. controls' = controls - 1 /\ live' = live
    BY <1>3, Zenon DEF Associate
  <2>6. /\ live' = [client |-> live.client + 0 - 0, server |-> live.server]
        /\ controls' = controls + 0 - 1 /\ controls' \in Nat /\ live'.client <= ClientMax
    BY <1>3, <2>5, Counters, SMTT(30)
  <2>. QED  BY <1>1, <2>3, <2>4, <2>6, ClientMoves
<1>. QED  BY <1>2, <1>3

LEMMA AssociateFailsPreserves ==
  ASSUME UInv, NEW a \in Assocs, AssociateFails(a)
  PROVE  UInv'
<1>1. Stays(conn, conn')
  BY DEF UInv, Stays, AssociateFails
<1>2. Puts(assoc, assoc', a, Ended)
  BY Zenon DEF AssociateFails, Puts
<1>3. Others(assoc, assoc', Assocs, a) /\ assoc'[a] = Ended
  <2>1. Placed(assoc, Assocs)
    BY Zenon DEF UInv
  <2>2. Sets(assoc, assoc', Assocs, a, Ended)
    BY <1>2, EndedPlace, <2>1, Put, Zenon
  <2>. QED  BY <2>2, Zenon DEF Sets
<1>4. /\ Held(assoc[a], Controlled) = IF assoc[a].at = "recv" THEN 1 ELSE 0
      /\ Held(assoc[a], Sessions) = 0
      /\ Held(assoc'[a], Controlled) = 0 /\ Held(assoc'[a], Sessions) = 0
  BY <1>3, EndedPlace DEF AssociateFails, Held, Controlled, Sessions
<1>5. live' = live /\ controls' = IF assoc[a].at = "recv" THEN controls + 1 ELSE controls
  BY Zenon DEF AssociateFails
<1>6. /\ live' = [client |-> live.client + 0 - 0, server |-> live.server]
      /\ controls' = controls + Held(assoc[a], Controlled) - 0
      /\ controls' \in Nat /\ live'.client <= ClientMax
  BY <1>4, <1>5, Counters
<1>. QED  BY <1>1, <1>3, <1>4, <1>6, ClientMoves, Zenon

LEMMA CloseControlPreserves ==
  ASSUME UInv, NEW a \in Assocs, CloseControl(a)
  PROVE  UInv'
<1>. DEFINE r == [assoc[a] EXCEPT !.open = FALSE]
<1>1. Stays(conn, conn')
  BY DEF UInv, Stays, CloseControl
<1>2. Puts(assoc, assoc', a, r)
  BY Zenon DEF CloseControl, Puts
<1>3. "at" \in DOMAIN r /\ r.at = assoc[a].at
  BY DEF UInv, Placed
<1>4. UNCHANGED <<controls, live>>
  BY Zenon DEF CloseControl
<1>. HIDE DEF r
<1>. QED  BY <1>1, <1>2, <1>3, <1>4, ClientKeeps

LEMMA ClosedPreserves ==
  ASSUME UInv, NEW a \in Assocs, Closed(a)
  PROVE  UInv'
<1>1. Stays(conn, conn')
  BY HangupStays DEF Closed
<1>2. Puts(assoc, assoc', a, Ended)
  BY Zenon DEF Closed, Puts
<1>3. Others(assoc, assoc', Assocs, a) /\ assoc'[a] = Ended
  <2>1. Placed(assoc, Assocs)
    BY Zenon DEF UInv
  <2>2. Sets(assoc, assoc', Assocs, a, Ended)
    BY <1>2, EndedPlace, <2>1, Put, Zenon
  <2>. QED  BY <2>2, Zenon DEF Sets
<1>4. /\ Held(assoc[a], Controlled) = 1
      /\ Held(assoc[a], Sessions) = IF assoc[a].at \in Sessions THEN 1 ELSE 0
      /\ Held(assoc'[a], Controlled) = 0 /\ Held(assoc'[a], Sessions) = 0
  BY <1>3, EndedPlace DEF Closed, Held, Controlled, Sessions
<1>5. /\ controls' = controls + 1
      /\ live' = IF assoc[a].at \in Sessions THEN [live EXCEPT !.client = @ - 1] ELSE live
  BY Zenon DEF Closed
<1>6. /\ live' = [client |-> live.client + 0 - Held(assoc[a], Sessions), server |-> live.server]
      /\ controls' = controls + 1 - 0
      /\ controls' \in Nat /\ live'.client <= ClientMax
  BY <1>4, <1>5, Counters
<1>. QED  BY <1>1, <1>3, <1>4, <1>6, ClientMoves, Zenon

\* A session that returns, from wherever it is.
LEMMA SessionOverPreserves ==
  ASSUME UInv, NEW a \in Assocs, assoc[a].at \in Sessions, SessionOver(a)
  PROVE  UInv'
<1>. DEFINE r == [assoc[a] EXCEPT !.at = "recv", !.conn = None, !.hold = None,
                                  !.recv = <<>>, !.got = <<>>]
<1>1. Stays(conn, conn')
  BY HangupStays DEF SessionOver
<1>2. Puts(assoc, assoc', a, r)
  BY Zenon DEF SessionOver, Puts
<1>3. "at" \in DOMAIN r /\ r.at = "recv"
  BY DEF UInv, Placed
<1>4. live' = [live EXCEPT !.client = @ - 1] /\ controls' = controls
  BY Zenon DEF SessionOver
<1>. HIDE DEF r
<1>5. Others(assoc, assoc', Assocs, a) /\ assoc'[a] = r
  <2>1. Placed(assoc, Assocs)
    BY Zenon DEF UInv
  <2>2. Sets(assoc, assoc', Assocs, a, r)
    BY <1>2, <1>3, <2>1, Put, Zenon
  <2>. QED  BY <2>2, Zenon DEF Sets
<1>6. /\ Held(assoc[a], Controlled) = 1 /\ Held(assoc[a], Sessions) = 1
      /\ Held(assoc'[a], Controlled) = 1 /\ Held(assoc'[a], Sessions) = 0
  BY <1>3, <1>5 DEF Held, Controlled, Sessions
<1>7. /\ live' = [client |-> live.client + 0 - 1, server |-> live.server]
      /\ controls' = controls + 1 - 1
      /\ controls' \in Nat /\ live'.client <= ClientMax
  BY <1>4, Counters, SMTT(30)
<1>. QED  BY <1>1, <1>5, <1>6, <1>7, ClientMoves, Zenon

LEMMA RecvFirstPreserves ==
  ASSUME UInv, NEW a \in Assocs, NEW from, NEW kind, RecvFirst(a, from, kind)
  PROVE  UInv'
<1>. DEFINE opens == Expected(a, from) /\ Parses(kind) /\ Admits
            r == [assoc[a] EXCEPT !.count = assoc[a].count + 1,
                    !.client = IF Expected(a, from) THEN from ELSE assoc[a].client,
                    !.at = IF opens THEN "open" ELSE assoc[a].at,
                    !.hold = IF opens THEN [id |-> assoc[a].count, kind |-> kind, from |-> from]
                             ELSE assoc[a].hold]
<1>1. Stays(conn, conn') /\ assoc[a].at = "recv" /\ controls' = controls
  BY DEF UInv, Stays, RecvFirst
<1>2. Puts(assoc, assoc', a, r)
  BY Zenon DEF RecvFirst, Puts
<1>3. "at" \in DOMAIN r /\ r.at = IF opens THEN "open" ELSE assoc[a].at
  BY DEF UInv, Placed
<1>4. live' = IF opens THEN [live EXCEPT !.client = @ + 1] ELSE live
  BY Zenon DEF RecvFirst
<1>5. opens => live.client < ClientMax
  BY SMTT(30) DEF Admits
<1>. HIDE DEF r, opens
<1>6. Others(assoc, assoc', Assocs, a) /\ assoc'[a] = r
  <2>1. Placed(assoc, Assocs)
    BY Zenon DEF UInv
  <2>2. Sets(assoc, assoc', Assocs, a, r)
    BY <1>2, <1>3, <2>1, Put, Zenon
  <2>. QED  BY <2>2, Zenon DEF Sets
<1>7. /\ Held(assoc[a], Controlled) = 1 /\ Held(assoc[a], Sessions) = 0
      /\ Held(assoc'[a], Controlled) = 1
      /\ Held(assoc'[a], Sessions) = IF opens THEN 1 ELSE 0
  BY <1>1, <1>3, <1>6 DEF Held, Controlled, Sessions
<1>8. /\ live' = [client |-> live.client + Held(assoc'[a], Sessions) - 0, server |-> live.server]
      /\ controls' = controls + 1 - 1
      /\ controls' \in Nat /\ live'.client <= ClientMax
  BY <1>1, <1>4, <1>5, <1>7, Counters
<1>. QED  BY <1>1, <1>6, <1>7, <1>8, ClientMoves, Zenon

LEMMA DialPreserves ==
  ASSUME UInv, NEW a \in Assocs, NEW k \in Conns, Dial(a, k)
  PROVE  UInv'
<1>. DEFINE r == [assoc[a] EXCEPT !.at = "setup", !.conn = k]
            t == [conn[k] EXCEPT !.open = TRUE, !.at = "setup"]
<1>1. Puts(assoc, assoc', a, r) /\ Puts(conn, conn', k, t)
  BY Zenon DEF Dial, Puts
<1>2. /\ "at" \in DOMAIN r /\ r.at = "setup"
      /\ "at" \in DOMAIN t /\ t.at = "setup"
  BY DEF UInv, Placed
<1>3. assoc[a].at = "open" /\ conn[k].at = "none" /\ UNCHANGED <<controls, live>>
  BY Zenon DEF Dial
<1>. HIDE DEF r, t
<1>4. t.at \in Serving <=> conn[k].at \in Serving
  BY <1>2, <1>3 DEF Serving
<1>5. Stays(conn, conn')
  BY <1>1, <1>2, <1>4, PutStays, Zenon DEF UInv
<1>6. r.at \in Controlled /\ assoc[a].at \in Controlled /\ r.at \in Sessions /\ assoc[a].at \in Sessions
  BY <1>2, <1>3 DEF Controlled, Sessions
<1>. QED  BY <1>1, <1>2, <1>3, <1>5, <1>6, ClientKeeps

LEMMA TunnelPreserves ==
  ASSUME UInv, NEW a \in Assocs, Tunnel(a)
  PROVE  UInv'
<1>. DEFINE r == [assoc[a] EXCEPT !.at = "forward"]
<1>1. Puts(assoc, assoc', a, r)
  BY Zenon DEF Tunnel, Puts
<1>2. "at" \in DOMAIN r /\ r.at = "forward"
  BY DEF UInv, Placed
<1>3. assoc[a].at = "setup" /\ UNCHANGED <<controls, live>>
  BY Zenon DEF Tunnel
<1>4. Stays(conn, conn')
  BY DEF UInv, Stays, Tunnel
<1>. HIDE DEF r
<1>5. r.at \in Controlled /\ assoc[a].at \in Controlled /\ r.at \in Sessions /\ assoc[a].at \in Sessions
  BY <1>2, <1>3 DEF Controlled, Sessions
<1>. QED  BY <1>1, <1>2, <1>3, <1>4, <1>5, ClientKeeps

LEMMA ForwardPreserves ==
  ASSUME UInv, NEW a \in Assocs, Forward(a)
  PROVE  UInv'
<1>. DEFINE k == assoc[a].conn
            d == assoc[a].hold
            sends == Parses(d.kind) /\ d.kind # "big"
            r == [assoc[a] EXCEPT !.at = "pump", !.hold = None,
                    !.sources = IF sends THEN assoc[a].sources \cup {d.from} ELSE assoc[a].sources]
            t == [conn[k] EXCEPT !.up = conn[k].up \o Pieces(d.id), !.sent = Append(conn[k].sent, d.id)]
<1>1. Puts(assoc, assoc', a, r) /\ (IF sends THEN Puts(conn, conn', k, t) ELSE conn' = conn)
  BY Zenon DEF Forward, Puts
<1>2. "at" \in DOMAIN r /\ r.at = "pump"
  BY DEF UInv, Placed
<1>3. k \in Conns => "at" \in DOMAIN t /\ t.at = conn[k].at
  BY DEF UInv, Placed
<1>4. assoc[a].at = "forward" /\ UNCHANGED <<controls, live>>
  BY Zenon DEF Forward
<1>. HIDE DEF r, t, k, sends
<1>5. Stays(conn, conn')
  BY <1>1, <1>3, PutStays DEF UInv, Stays
<1>6. r.at \in Controlled /\ assoc[a].at \in Controlled /\ r.at \in Sessions /\ assoc[a].at \in Sessions
  BY <1>2, <1>4 DEF Controlled, Sessions
<1>. QED  BY <1>1, <1>2, <1>4, <1>5, <1>6, ClientKeeps, Zenon

LEMMA PumpDatagramPreserves ==
  ASSUME UInv, NEW a \in Assocs, NEW from, NEW kind, PumpDatagram(a, from, kind)
  PROVE  UInv'
<1>. DEFINE r == [assoc[a] EXCEPT !.count = assoc[a].count + 1, !.at = "forward",
                    !.hold = [id |-> assoc[a].count, kind |-> kind, from |-> from]]
            q == [assoc[a] EXCEPT !.count = assoc[a].count + 1]
<1>1. Puts(assoc, assoc', a, IF Expected(a, from) THEN r ELSE q)
  BY Zenon DEF PumpDatagram, Puts
<1>2. "at" \in DOMAIN r /\ r.at = "forward" /\ "at" \in DOMAIN q /\ q.at = assoc[a].at
  BY DEF UInv, Placed
<1>3. assoc[a].at = "pump" /\ UNCHANGED <<controls, live>>
  BY Zenon DEF PumpDatagram
<1>4. Stays(conn, conn')
  BY DEF UInv, Stays, PumpDatagram
<1>. HIDE DEF r, q
<1>. DEFINE u == IF Expected(a, from) THEN r ELSE q
<1>5. /\ "at" \in DOMAIN u
      /\ u.at \in Controlled /\ assoc[a].at \in Controlled /\ u.at \in Sessions /\ assoc[a].at \in Sessions
  BY <1>2, <1>3 DEF Controlled, Sessions
<1>6. Puts(assoc, assoc', a, u)
  BY <1>1
<1>. HIDE DEF u
<1>. QED  BY <1>3, <1>4, <1>5, <1>6, ClientKeeps, Zenon

LEMMA PumpReadPreserves ==
  ASSUME UInv, NEW a \in Assocs, PumpRead(a)
  PROVE  UInv'
<1>. DEFINE k == assoc[a].conn
            r == [assoc[a] EXCEPT !.recv = Append(assoc[a].recv, Head(conn[k].down))]
            t == [conn[k] EXCEPT !.down = Tail(conn[k].down)]
<1>1. Puts(assoc, assoc', a, r) /\ Puts(conn, conn', k, t)
  BY Zenon DEF PumpRead, Puts
<1>2. "at" \in DOMAIN r /\ r.at = assoc[a].at
  BY DEF UInv, Placed
<1>3. k \in Conns => "at" \in DOMAIN t /\ t.at = conn[k].at
  BY DEF UInv, Placed
<1>4. UNCHANGED <<controls, live>>
  BY Zenon DEF PumpRead
<1>. HIDE DEF r, t, k
<1>5. Stays(conn, conn')
  BY <1>1, <1>3, PutStays DEF UInv
<1>. QED  BY <1>1, <1>2, <1>4, <1>5, ClientKeeps

LEMMA PumpRecordPreserves ==
  ASSUME UInv, NEW a \in Assocs, PumpRecord(a)
  PROVE  UInv'
<1>. DEFINE r == [assoc[a] EXCEPT !.recv = SubSeq(assoc[a].recv, 3, Len(assoc[a].recv)),
                                  !.got = Append(assoc[a].got, assoc[a].recv[1][1])]
<1>1. Puts(assoc, assoc', a, r)
  BY Zenon DEF PumpRecord, Puts
<1>2. "at" \in DOMAIN r /\ r.at = assoc[a].at
  BY DEF UInv, Placed
<1>3. UNCHANGED <<controls, live>>
  BY Zenon DEF PumpRecord
<1>4. Stays(conn, conn')
  BY DEF UInv, Stays, PumpRecord
<1>. HIDE DEF r
<1>. QED  BY <1>1, <1>2, <1>3, <1>4, ClientKeeps
-----------------------------------------------------------------------------
\* A task of the server that returns while it holds a slot.
LEMMA ServerOverPreserves ==
  ASSUME UInv, NEW k \in Conns, conn[k].at \in Serving, ServerOver(k)
  PROVE  UInv'
<1>. DEFINE r == [conn[k] EXCEPT !.at = "closed", !.hold = None, !.recv = <<>>, !.up = <<>>,
                                 !.count = 0, !.sent = <<>>, !.flowed = <<>>]
<1>1. Puts(conn, conn', k, r)
  BY Zenon DEF ServerOver, Puts
<1>2. "at" \in DOMAIN r /\ r.at = "closed"
  BY DEF UInv, Placed
<1>3. live' = [live EXCEPT !.server = @ - 1] /\ UNCHANGED <<controls, assoc>>
  BY Zenon DEF ServerOver
<1>. HIDE DEF r
<1>4. Others(conn, conn', Conns, k) /\ conn'[k] = r
  <2>1. Placed(conn, Conns)
    BY Zenon DEF UInv
  <2>2. Sets(conn, conn', Conns, k, r)
    BY <1>1, <1>2, <2>1, Put, Zenon
  <2>. QED  BY <2>2, Zenon DEF Sets
<1>5. Held(conn[k], Serving) = 1 /\ Held(conn'[k], Serving) = 0
  BY <1>2, <1>4 DEF Held, Serving
<1>6. /\ live' = [client |-> live.client, server |-> live.server + 0 - 1]
      /\ live'.server <= ServerMax
  BY <1>3, Counters
<1>. QED  BY <1>3, <1>4, <1>5, <1>6, ServerMoves, Zenon

LEMMA ServerAdmitPreserves ==
  ASSUME UInv, NEW k \in Conns, ServerAdmit(k)
  PROVE  UInv'
<1>. DEFINE r == [conn[k] EXCEPT !.at = "flow"]
            q == [conn[k] EXCEPT !.at = "closed", !.reply = "reject"]
<1>1. conn[k].at = "setup" /\ UNCHANGED <<controls, assoc>>
  BY Zenon DEF ServerAdmit
<1>2. CASE live.server < ServerMax
  <2>1. Puts(conn, conn', k, r) /\ live' = [live EXCEPT !.server = @ + 1]
    BY <1>2, Zenon DEF ServerAdmit, Puts
  <2>2. "at" \in DOMAIN r /\ r.at = "flow"
    BY DEF UInv, Placed
  <2>. HIDE DEF r
  <2>3. Others(conn, conn', Conns, k) /\ conn'[k] = r
    <3>1. Placed(conn, Conns)
      BY Zenon DEF UInv
    <3>2. Sets(conn, conn', Conns, k, r)
      BY <2>1, <2>2, <3>1, Put, Zenon
    <3>. QED  BY <3>2, Zenon DEF Sets
  <2>4. Held(conn[k], Serving) = 0 /\ Held(conn'[k], Serving) = 1
    BY <1>1, <2>2, <2>3 DEF Held, Serving
  <2>5. /\ live' = [client |-> live.client, server |-> live.server + 1 - 0]
        /\ live'.server <= ServerMax
    BY <1>2, <2>1, Counters
  <2>. QED  BY <1>1, <2>3, <2>4, <2>5, ServerMoves
<1>3. CASE ~(live.server < ServerMax)
  <2>1. Puts(conn, conn', k, q) /\ live' = live
    BY <1>3, Zenon DEF ServerAdmit, Puts
  <2>2. "at" \in DOMAIN q /\ q.at = "closed"
    BY DEF UInv, Placed
  <2>. HIDE DEF q
  <2>3. q.at \in Serving <=> conn[k].at \in Serving
    BY <1>1, <2>2 DEF Serving
  <2>. QED  BY <1>1, <2>1, <2>2, <2>3, ServerKeeps
<1>. QED  BY <1>2, <1>3

LEMMA SetupFailsPreserves ==
  ASSUME UInv, NEW k \in Conns, SetupFails(k)
  PROVE  UInv'
<1>. DEFINE r == [conn[k] EXCEPT !.at = "closed"]
<1>1. Puts(conn, conn', k, r)
  BY Zenon DEF SetupFails, Puts
<1>2. "at" \in DOMAIN r /\ r.at = "closed"
  BY DEF UInv, Placed
<1>3. conn[k].at = "setup" /\ UNCHANGED <<controls, live, assoc>>
  BY Zenon DEF SetupFails
<1>. HIDE DEF r
<1>4. r.at \in Serving <=> conn[k].at \in Serving
  BY <1>2, <1>3 DEF Serving
<1>. QED  BY <1>1, <1>2, <1>3, <1>4, ServerKeeps

LEMMA FlowOpensPreserves ==
  ASSUME UInv, NEW k \in Conns, FlowOpens(k)
  PROVE  UInv'
<1>. DEFINE r == [conn[k] EXCEPT !.at = "relay", !.reply = "tunnel"]
<1>1. Puts(conn, conn', k, r)
  BY Zenon DEF FlowOpens, Puts
<1>2. "at" \in DOMAIN r /\ r.at = "relay"
  BY DEF UInv, Placed
<1>3. conn[k].at = "flow" /\ UNCHANGED <<controls, live, assoc>>
  BY Zenon DEF FlowOpens
<1>. HIDE DEF r
<1>4. r.at \in Serving <=> conn[k].at \in Serving
  BY <1>2, <1>3 DEF Serving
<1>. QED  BY <1>1, <1>2, <1>3, <1>4, ServerKeeps

LEMMA ServerReadPreserves ==
  ASSUME UInv, NEW k \in Conns, ServerRead(k)
  PROVE  UInv'
<1>. DEFINE r == [conn[k] EXCEPT !.recv = Append(conn[k].recv, Head(conn[k].up)), !.up = Tail(conn[k].up)]
<1>1. Puts(conn, conn', k, r)
  BY Zenon DEF ServerRead, Puts
<1>2. "at" \in DOMAIN r /\ r.at = conn[k].at
  BY DEF UInv, Placed
<1>3. conn[k].at = "relay" /\ UNCHANGED <<controls, live, assoc>>
  BY Zenon DEF ServerRead
<1>. HIDE DEF r
<1>4. r.at \in Serving <=> conn[k].at \in Serving
  BY <1>2, <1>3 DEF Serving
<1>. QED  BY <1>1, <1>2, <1>3, <1>4, ServerKeeps, Zenon

LEMMA ServerRecordPreserves ==
  ASSUME UInv, NEW k \in Conns, ServerRecord(k)
  PROVE  UInv'
<1>. DEFINE r == [conn[k] EXCEPT !.recv = SubSeq(conn[k].recv, 3, Len(conn[k].recv)),
                                 !.flowed = Append(conn[k].flowed, conn[k].recv[1][1])]
<1>1. Puts(conn, conn', k, r)
  BY Zenon DEF ServerRecord, Puts
<1>2. "at" \in DOMAIN r /\ r.at = conn[k].at
  BY DEF UInv, Placed
<1>3. conn[k].at = "relay" /\ UNCHANGED <<controls, live, assoc>>
  BY Zenon DEF ServerRecord
<1>. HIDE DEF r
<1>4. r.at \in Serving <=> conn[k].at \in Serving
  BY <1>2, <1>3 DEF Serving
<1>. QED  BY <1>1, <1>2, <1>3, <1>4, ServerKeeps

LEMMA FlowRecvPreserves ==
  ASSUME UInv, NEW k \in Conns, FlowRecv(k)
  PROVE  UInv'
<1>. DEFINE r == [conn[k] EXCEPT !.at = "reply", !.hold = conn[k].count, !.count = conn[k].count + 1]
<1>1. Puts(conn, conn', k, r)
  BY Zenon DEF FlowRecv, Puts
<1>2. "at" \in DOMAIN r /\ r.at = "reply"
  BY DEF UInv, Placed
<1>3. conn[k].at = "relay" /\ UNCHANGED <<controls, live, assoc>>
  BY Zenon DEF FlowRecv
<1>. HIDE DEF r
<1>4. r.at \in Serving <=> conn[k].at \in Serving
  BY <1>2, <1>3, Zenon DEF Serving
<1>. QED  BY <1>1, <1>2, <1>3, <1>4, ServerKeeps

LEMMA ServerWritePreserves ==
  ASSUME UInv, NEW k \in Conns, ServerWrite(k)
  PROVE  UInv'
<1>. DEFINE r == [conn[k] EXCEPT !.at = "relay", !.hold = None,
                                 !.down = conn[k].down \o Pieces(conn[k].hold),
                                 !.written = Append(conn[k].written, conn[k].hold)]
<1>1. Puts(conn, conn', k, r)
  BY Zenon DEF ServerWrite, Puts
<1>2. "at" \in DOMAIN r /\ r.at = "relay"
  BY DEF UInv, Placed
<1>3. conn[k].at = "reply" /\ UNCHANGED <<controls, live, assoc>>
  BY Zenon DEF ServerWrite
<1>. HIDE DEF r
<1>4. r.at \in Serving <=> conn[k].at \in Serving
  BY <1>2, <1>3 DEF Serving
<1>. QED  BY <1>1, <1>2, <1>3, <1>4, ServerKeeps

LEMMA ServerOversizePreserves ==
  ASSUME UInv, NEW k \in Conns, ServerOversize(k)
  PROVE  UInv'
<1>. DEFINE r == [conn[k] EXCEPT !.at = "relay", !.hold = None]
<1>1. Puts(conn, conn', k, r)
  BY Zenon DEF ServerOversize, Puts
<1>2. "at" \in DOMAIN r /\ r.at = "relay"
  BY DEF UInv, Placed
<1>3. conn[k].at = "reply" /\ UNCHANGED <<controls, live, assoc>>
  BY Zenon DEF ServerOversize
<1>. HIDE DEF r
<1>4. r.at \in Serving <=> conn[k].at \in Serving
  BY <1>2, <1>3 DEF Serving
<1>. QED  BY <1>1, <1>2, <1>3, <1>4, ServerKeeps
-----------------------------------------------------------------------------
LEMMA UdpInit == Init => UInv
<1>. SUFFICES ASSUME Init PROVE UInv
  OBVIOUS
<1>1. \A a \in Assocs : assoc[a] = NewAssoc
  BY DEF Init
<1>2. \A k \in Conns : conn[k] = NewConn
  BY DEF Init
<1>3. Placed(assoc, Assocs)
  BY DEF Init, Placed, NewAssoc
<1>4. Placed(conn, Conns)
  BY DEF Init, Placed, NewConn
<1>5. NewAssoc.at = "none" /\ NewConn.at = "none"
  BY Zenon DEF NewAssoc, NewConn
<1>6. /\ {a \in Assocs : assoc[a].at \in Sessions} = {}
      /\ {a \in Assocs : assoc[a].at \in Controlled} = {}
      /\ {k \in Conns : conn[k].at \in Serving} = {}
  BY <1>1, <1>2, <1>5 DEF Sessions, Controlled, Serving
<1>7. /\ Count(assoc, Assocs, Sessions) = 0 /\ Count(assoc, Assocs, Controlled) = 0
      /\ Count(conn, Conns, Serving) = 0
  BY <1>6, FS_EmptySet, Zenon DEF Count
<1>8. /\ controls = Controls /\ live = [client |-> 0, server |-> 0]
      /\ Controls \in Nat /\ ClientMax \in Nat /\ ServerMax \in Nat
  BY LimitsAssumption DEF Init
<1>9. SlotsExact
  BY <1>7, <1>8, SlotsCount
<1>. QED  BY <1>3, <1>4, <1>9 DEF UInv

LEMMA ClientPreserves ==
  ASSUME UInv, NEW a \in Assocs, Client(a)
  PROVE  UInv'
<1>1. CASE Associate(a)
  BY <1>1, AssociatePreserves
<1>2. CASE AssociateFails(a)
  BY <1>2, AssociateFailsPreserves
<1>3. CASE CloseControl(a)
  BY <1>3, CloseControlPreserves
<1>4. CASE Closed(a)
  BY <1>4, ClosedPreserves
<1>5. CASE \E from \in Addrs, kind \in Kinds : RecvFirst(a, from, kind) \/ PumpDatagram(a, from, kind)
  BY <1>5, RecvFirstPreserves, PumpDatagramPreserves, Zenon
<1>6. CASE \E k \in Conns : Dial(a, k)
  BY <1>6, DialPreserves, Zenon
<1>7. CASE Tunnel(a)
  BY <1>7, TunnelPreserves
<1>8. CASE OpenFails(a) \/ ForwardFails(a) \/ PumpEnds(a)
  <2>1. assoc[a].at \in Sessions /\ SessionOver(a)
    BY <1>8 DEF OpenFails, ForwardFails, PumpEnds, Sessions
  <2>. QED  BY <2>1, SessionOverPreserves
<1>9. CASE Forward(a)
  BY <1>9, ForwardPreserves
<1>10. CASE PumpRead(a)
  BY <1>10, PumpReadPreserves
<1>11. CASE PumpRecord(a)
  BY <1>11, PumpRecordPreserves
<1>. QED  BY <1>1, <1>2, <1>3, <1>4, <1>5, <1>6, <1>7, <1>8, <1>9, <1>10, <1>11, Zenon DEF Client

LEMMA ServerPreserves ==
  ASSUME UInv, NEW k \in Conns, Server(k)
  PROVE  UInv'
<1>1. CASE SetupFails(k)
  BY <1>1, SetupFailsPreserves
<1>2. CASE ServerAdmit(k)
  BY <1>2, ServerAdmitPreserves
<1>3. CASE FlowOpens(k)
  BY <1>3, FlowOpensPreserves
<1>4. CASE FlowFails(k) \/ ClientGone(k) \/ ServerIdle(k)
  <2>1. conn[k].at \in Serving /\ ServerOver(k)
    BY <1>4 DEF FlowFails, ClientGone, ServerIdle, Serving
  <2>. QED  BY <2>1, ServerOverPreserves
<1>5. CASE ServerRead(k)
  BY <1>5, ServerReadPreserves
<1>6. CASE ServerRecord(k)
  BY <1>6, ServerRecordPreserves
<1>7. CASE FlowRecv(k)
  BY <1>7, FlowRecvPreserves
<1>8. CASE ServerWrite(k)
  BY <1>8, ServerWritePreserves
<1>9. CASE ServerOversize(k)
  BY <1>9, ServerOversizePreserves
<1>. QED  BY <1>1, <1>2, <1>3, <1>4, <1>5, <1>6, <1>7, <1>8, <1>9, Zenon DEF Server

LEMMA UdpStep == UInv /\ [Next]_vars => UInv'
<1>. SUFFICES ASSUME UInv, [Next]_vars PROVE UInv'
  OBVIOUS
<1>1. CASE UNCHANGED vars
  BY <1>1 DEF vars, UInv, SlotsExact, InSession, InService
<1>2. CASE \E a \in Assocs : Client(a)
  BY <1>2, ClientPreserves, Zenon
<1>3. CASE \E k \in Conns : Server(k)
  BY <1>3, ServerPreserves, Zenon
<1>. QED  BY <1>1, <1>2, <1>3, Zenon DEF Next

\* Whatever ends a session (its idle limit, an error, a rejection, the control
\* connection closing in the middle of anything), the control slots, the client's
\* sessions and the server's associations are counted exactly and never exceed
\* their limits (SessionSlot, _control_slot, admit), for any number of
\* associations and connections.
THEOREM SlotsAreExact == Safety => []SlotsExact
<1>1. UInv => SlotsExact
  BY SMTT(30) DEF UInv
<1>. QED  BY <1>1, UdpInit, UdpStep, PTL DEF Safety
-----------------------------------------------------------------------------
(* The client of an association.                                           *)

\* What an association knows of its client: an address at the right IP from its
\* first session on, the only source of what it relays and of what it holds.
Bound(r) ==
  /\ {"at", "client", "hold", "sources"} \subseteq DOMAIN r
  /\ r.client = None => r.sources = {}
  /\ r.client # None => r.client.ip = ClientIp /\ r.sources \subseteq {r.client}
  /\ r.at \in Sessions => r.client # None
  /\ r.at \in Sessions \ {"pump"} => r.hold.from = r.client

CInv == Placed(assoc, Assocs) /\ \A a \in Assocs : Bound(assoc[a])

LEMMA BindsOne ==
  ASSUME CInv, NEW a \in Assocs, NEW r, Puts(assoc, assoc', a, r), Bound(r)
  PROVE  CInv'
<1>1. Others(assoc, assoc', Assocs, a) /\ assoc'[a] = r
  <2>1. Placed(assoc, Assocs) /\ "at" \in DOMAIN r
    BY Zenon DEF CInv, Bound
  <2>2. Sets(assoc, assoc', Assocs, a, r)
    BY <2>1, Put, Zenon
  <2>. QED  BY <2>2, Zenon DEF Sets
<1>2. \A x \in Assocs : Bound(assoc'[x])
  <2>. TAKE x \in Assocs
  <2>1. CASE x = a
    BY <1>1, <2>1
  <2>2. CASE x # a
    BY <1>1, <2>2 DEF CInv, Others
  <2>. QED  BY <2>1, <2>2
<1>. QED  BY <1>1, <1>2, Zenon DEF CInv, Others, Placed

LEMMA EndedBound == Bound(Ended)
BY DEF Bound, Ended, NewAssoc, Sessions

LEMMA AssociateBinds ==
  ASSUME CInv, NEW a \in Assocs, Associate(a)
  PROVE  CInv'
<1>. DEFINE r == [assoc[a] EXCEPT !.at = "recv"]
<1>1. Puts(assoc, assoc', a, Ended) \/ Puts(assoc, assoc', a, r)
  BY Zenon DEF Associate, Puts
<1>2. Bound(r)
  BY DEF CInv, Bound, Sessions
<1>. HIDE DEF r
<1>. QED  BY <1>1, <1>2, EndedBound, BindsOne

\* The first datagram of a session, or one that opens none.
LEMMA RecvFirstBinds ==
  ASSUME CInv, NEW a \in Assocs, NEW from \in Addrs, NEW kind, RecvFirst(a, from, kind)
  PROVE  CInv'
<1>. DEFINE opens == Expected(a, from) /\ Parses(kind) /\ Admits
            d == [id |-> assoc[a].count, kind |-> kind, from |-> from]
            r == [assoc[a] EXCEPT !.count = assoc[a].count + 1,
                    !.client = IF Expected(a, from) THEN from ELSE assoc[a].client,
                    !.at = IF opens THEN "open" ELSE assoc[a].at,
                    !.hold = IF opens THEN d ELSE assoc[a].hold]
<1>1. Puts(assoc, assoc', a, r) /\ assoc[a].at = "recv"
  BY Zenon DEF RecvFirst, Puts
<1>2. Bound(assoc[a]) /\ from # None
  BY AddrsAssumption, SMTT(30) DEF CInv
<1>3. /\ opens => Expected(a, from)
      /\ Expected(a, from) => /\ from.ip = ClientIp
                              /\ assoc[a].client # None => from = assoc[a].client
      /\ d.from = from
  BY <1>2, Zenon DEF Expected, Bound
<1>. HIDE DEF opens, d
<1>4. /\ {"at", "client", "hold", "sources"} \subseteq DOMAIN r
      /\ r.client = IF Expected(a, from) THEN from ELSE assoc[a].client
      /\ r.at = IF opens THEN "open" ELSE assoc[a].at
      /\ r.hold = IF opens THEN d ELSE assoc[a].hold
      /\ r.sources = assoc[a].sources
  BY <1>2 DEF Bound
<1>. HIDE DEF r
<1>5. Bound(r)
  <2>1. CASE ~Expected(a, from)
    <3>1. r.client = assoc[a].client /\ r.at = assoc[a].at /\ r.hold = assoc[a].hold
      BY <1>3, <1>4, <2>1, Zenon
    <3>. QED  BY <1>2, <1>4, <3>1, Zenon DEF Bound
  <2>2. CASE Expected(a, from)
    BY <1>1, <1>2, <1>3, <1>4, <2>2, Zenon DEF Bound, Sessions
  <2>. QED  BY <2>1, <2>2, Zenon
<1>. QED  BY <1>1, <1>5, BindsOne

LEMMA ForwardBinds ==
  ASSUME CInv, NEW a \in Assocs, Forward(a)
  PROVE  CInv'
<1>. DEFINE d == assoc[a].hold
            sends == Parses(d.kind) /\ d.kind # "big"
            r == [assoc[a] EXCEPT !.at = "pump", !.hold = None,
                    !.sources = IF sends THEN assoc[a].sources \cup {d.from} ELSE assoc[a].sources]
<1>1. Puts(assoc, assoc', a, r) /\ assoc[a].at = "forward"
  BY Zenon DEF Forward, Puts
<1>2. d.from = assoc[a].client /\ Bound(assoc[a]) /\ assoc[a].client # None
  BY <1>1 DEF CInv, Bound, Sessions
<1>. HIDE DEF sends, d
<1>3. Bound(r)
  BY <1>2, SMTT(30) DEF Bound, Sessions
<1>. HIDE DEF r
<1>. QED  BY <1>1, <1>3, BindsOne

LEMMA PumpDatagramBinds ==
  ASSUME CInv, NEW a \in Assocs, NEW from, NEW kind, PumpDatagram(a, from, kind)
  PROVE  CInv'
<1>. DEFINE r == [assoc[a] EXCEPT !.count = assoc[a].count + 1, !.at = "forward",
                    !.hold = [id |-> assoc[a].count, kind |-> kind, from |-> from]]
            q == [assoc[a] EXCEPT !.count = assoc[a].count + 1]
<1>1. /\ IF Expected(a, from) THEN Puts(assoc, assoc', a, r) ELSE Puts(assoc, assoc', a, q)
      /\ assoc[a].at = "pump"
  BY Zenon DEF PumpDatagram, Puts
<1>2. Bound(q)
  BY DEF CInv, Bound
<1>3. Expected(a, from) => from = assoc[a].client
  BY <1>1 DEF Expected, CInv, Bound, Sessions
<1>4. Expected(a, from) => Bound(r)
  BY <1>1, <1>3 DEF CInv, Bound, Sessions
<1>. HIDE DEF r, q
<1>. QED  BY <1>1, <1>2, <1>4, BindsOne

LEMMA SessionOverBinds ==
  ASSUME CInv, NEW a \in Assocs, SessionOver(a)
  PROVE  CInv'
<1>. DEFINE r == [assoc[a] EXCEPT !.at = "recv", !.conn = None, !.hold = None,
                                  !.recv = <<>>, !.got = <<>>]
<1>1. Puts(assoc, assoc', a, r)
  BY Zenon DEF SessionOver, Puts
<1>2. Bound(r)
  BY DEF CInv, Bound, Sessions
<1>. HIDE DEF r
<1>. QED  BY <1>1, <1>2, BindsOne

LEMMA CloseControlBinds ==
  ASSUME CInv, NEW a \in Assocs, CloseControl(a)
  PROVE  CInv'
<1>. DEFINE r == [assoc[a] EXCEPT !.open = FALSE]
<1>1. Puts(assoc, assoc', a, r)
  BY Zenon DEF CloseControl, Puts
<1>2. Bound(r)
  BY DEF CInv, Bound, Sessions, CloseControl
<1>. HIDE DEF r
<1>. QED  BY <1>1, <1>2, BindsOne

LEMMA DialBinds ==
  ASSUME CInv, NEW a \in Assocs, NEW k \in Conns, Dial(a, k)
  PROVE  CInv'
<1>. DEFINE r == [assoc[a] EXCEPT !.at = "setup", !.conn = k]
<1>1. Puts(assoc, assoc', a, r)
  BY Zenon DEF Dial, Puts
<1>2. Bound(r)
  BY DEF CInv, Bound, Sessions, Dial
<1>. HIDE DEF r
<1>. QED  BY <1>1, <1>2, BindsOne

LEMMA TunnelBinds ==
  ASSUME CInv, NEW a \in Assocs, Tunnel(a)
  PROVE  CInv'
<1>. DEFINE r == [assoc[a] EXCEPT !.at = "forward"]
<1>1. Puts(assoc, assoc', a, r)
  BY Zenon DEF Tunnel, Puts
<1>2. Bound(r)
  BY DEF CInv, Bound, Sessions, Tunnel
<1>. HIDE DEF r
<1>. QED  BY <1>1, <1>2, BindsOne

LEMMA PumpReadBinds ==
  ASSUME CInv, NEW a \in Assocs, PumpRead(a)
  PROVE  CInv'
<1>. DEFINE r == [assoc[a] EXCEPT !.recv = Append(assoc[a].recv, Head(conn[assoc[a].conn].down))]
<1>1. Puts(assoc, assoc', a, r)
  BY Zenon DEF PumpRead, Puts
<1>2. Bound(r)
  BY Zenon DEF CInv, Bound, Sessions, PumpRead
<1>. HIDE DEF r
<1>. QED  BY <1>1, <1>2, BindsOne

LEMMA PumpRecordBinds ==
  ASSUME CInv, NEW a \in Assocs, PumpRecord(a)
  PROVE  CInv'
<1>. DEFINE r == [assoc[a] EXCEPT !.recv = SubSeq(assoc[a].recv, 3, Len(assoc[a].recv)),
                                  !.got = Append(assoc[a].got, assoc[a].recv[1][1])]
<1>1. Puts(assoc, assoc', a, r)
  BY Zenon DEF PumpRecord, Puts
<1>2. Bound(r)
  BY DEF CInv, Bound, Sessions, PumpRecord
<1>. HIDE DEF r
<1>. QED  BY <1>1, <1>2, BindsOne

LEMMA ClientBinds ==
  ASSUME CInv, NEW a \in Assocs, Client(a)
  PROVE  CInv'
<1>1. CASE Associate(a)
  BY <1>1, AssociateBinds
<1>2. CASE AssociateFails(a) \/ Closed(a)
  <2>1. Puts(assoc, assoc', a, Ended)
    BY <1>2, Zenon DEF AssociateFails, Closed, Puts
  <2>. QED  BY <2>1, EndedBound, BindsOne
<1>3. CASE CloseControl(a)
  BY <1>3, CloseControlBinds
<1>4. CASE \E from \in Addrs, kind \in Kinds : RecvFirst(a, from, kind) \/ PumpDatagram(a, from, kind)
  BY <1>4, RecvFirstBinds, PumpDatagramBinds, Zenon
<1>5. CASE \E k \in Conns : Dial(a, k)
  BY <1>5, DialBinds, Zenon
<1>6. CASE Tunnel(a)
  BY <1>6, TunnelBinds
<1>7. CASE OpenFails(a) \/ ForwardFails(a) \/ PumpEnds(a)
  BY <1>7, SessionOverBinds, Zenon DEF OpenFails, ForwardFails, PumpEnds
<1>8. CASE Forward(a)
  BY <1>8, ForwardBinds
<1>9. CASE PumpRead(a) \/ PumpRecord(a)
  BY <1>9, PumpReadBinds, PumpRecordBinds
<1>. QED  BY <1>1, <1>2, <1>3, <1>4, <1>5, <1>6, <1>7, <1>8, <1>9, Zenon DEF Client

LEMMA BindInit == Init => CInv
<1>. SUFFICES ASSUME Init PROVE CInv
  OBVIOUS
<1>1. \A a \in Assocs : assoc[a] = NewAssoc
  BY DEF Init
<1>2. Bound(NewAssoc)
  BY DEF Bound, NewAssoc, Sessions
<1>3. Placed(assoc, Assocs)
  BY DEF Init, Placed, NewAssoc
<1>. QED  BY <1>1, <1>2, <1>3 DEF CInv

LEMMA BindStep == CInv /\ [Next]_vars => CInv'
<1>. SUFFICES ASSUME CInv, [Next]_vars PROVE CInv'
  OBVIOUS
<1>1. CASE assoc' = assoc
  BY <1>1 DEF CInv
<1>2. CASE \E a \in Assocs : Client(a)
  BY <1>2, ClientBinds, Zenon
<1>3. CASE \E k \in Conns : Server(k)
  <2>1. PICK k \in Conns : Server(k)
    BY <1>3, Zenon
  <2>2. \/ SetupFails(k) \/ ServerAdmit(k) \/ FlowOpens(k) \/ ServerOver(k) \/ ServerRead(k)
        \/ ServerRecord(k) \/ FlowRecv(k) \/ ServerWrite(k) \/ ServerOversize(k)
    BY <2>1, Zenon DEF Server, FlowFails, ClientGone, ServerIdle
  <2>3. /\ SetupFails(k) => assoc' = assoc
        /\ ServerAdmit(k) => assoc' = assoc
        /\ FlowOpens(k) => assoc' = assoc
        /\ ServerOver(k) => assoc' = assoc
    BY Zenon DEF SetupFails, ServerAdmit, FlowOpens, ServerOver
  <2>4. /\ ServerRead(k) => assoc' = assoc
        /\ ServerRecord(k) => assoc' = assoc
        /\ FlowRecv(k) => assoc' = assoc
        /\ ServerWrite(k) => assoc' = assoc
        /\ ServerOversize(k) => assoc' = assoc
    BY Zenon DEF ServerRead, ServerRecord, FlowRecv, ServerWrite, ServerOversize
  <2>. QED  BY <1>1, <2>2, <2>3, <2>4, Zenon
<1>. QED  BY <1>1, <1>2, <1>3, Zenon DEF Next, vars

\* An association relays the datagrams of one address only, at the IP of its
\* control connection, in all its sessions together (Relay::recv, run), for any
\* number of associations and senders.
THEOREM AssociationsHaveOneClient == Safety => []OneClient
<1>1. CInv => OneClient
  BY DEF CInv, Bound, OneClient
<1>. QED  BY <1>1, BindInit, BindStep, PTL DEF Safety
=============================================================================
