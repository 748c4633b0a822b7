------------------------- MODULE RecordCodecProofs -------------------------
(***************************************************************************)
(* The nonces of an encoder, for every codec, payload and padding, and any *)
(* number of records.                                                      *)
(***************************************************************************)
EXTENDS RecordCodec, SequenceTheorems, TLAPS

\* The nonces used are those below the counter, each once and in order.
Counted(n, s) ==
  n \in Nat /\ s \in Seq(Int) /\ Len(s) = n /\ \A i \in 1..n : s[i] = i - 1

NInv == "nonce" \in DOMAIN enc /\ Counted(enc.nonce, used)

\* Counting on from n.
LEMMA CountOn ==
  ASSUME NEW n, NEW k \in Nat, NEW s, NEW t \in Seq(Int), Counted(n, s),
         Len(t) = k, \A i \in 1..k : t[i] = n + i - 1
  PROVE  Counted(n + k, s \o t)
<1>1. n \in Nat /\ s \in Seq(Int) /\ Len(s) = n /\ \A i \in 1..n : s[i] = i - 1
  BY DEF Counted
<1>. DEFINE c == s \o t
<1>2. /\ c \in Seq(Int) /\ Len(c) = n + k
      /\ \A i \in 1..(n + k) : c[i] = IF i <= n THEN s[i] ELSE t[i - n]
  <2>1. /\ c \in Seq(Int) /\ Len(c) = Len(s) + Len(t)
        /\ \A i \in 1..(Len(s) + Len(t)) : c[i] = IF i <= Len(s) THEN s[i] ELSE t[i - Len(s)]
    BY <1>1, ConcatProperties, Zenon
  <2>. HIDE DEF c
  <2>. QED  BY <1>1, <2>1
<1>. HIDE DEF c
<1>3. ASSUME NEW i \in 1..(n + k) PROVE c[i] = i - 1
  <2>1. CASE i <= n
    BY <1>1, <1>2, <2>1
  <2>2. CASE ~(i <= n)
    <3>1. i - n \in 1..k /\ n + (i - n) - 1 = i - 1
      BY <1>1, <2>2
    <3>2. c[i] = t[i - n]
      BY <1>2, <2>2
    <3>. QED  BY <3>1, <3>2
  <2>. QED  BY <2>1, <2>2
<1>4. Counted(n + k, c)
  BY <1>1, <1>2, <1>3 DEF Counted
<1>. QED  BY <1>4 DEF c

\* k more seals of a record.
LEMMA CountedMore ==
  ASSUME NInv, NEW k \in Nat
  PROVE  Counted(enc.nonce + k, used \o Nonces(k))
<1>1. Counted(enc.nonce, used) /\ enc.nonce \in Nat
  BY DEF NInv, Counted
<1>2. Nonces(k) = [i \in 1..k |-> enc.nonce + i - 1]
  BY DEF Nonces
<1>3. /\ Nonces(k) \in Seq(Int) /\ Len(Nonces(k)) = k
      /\ \A i \in 1..k : Nonces(k)[i] = enc.nonce + i - 1
  BY <1>1, <1>2
<1>. QED  BY <1>1, <1>3, CountOn, Zenon

\* An encoder that keeps its counter, whatever its state.
LEMMA StateKeeps ==
  ASSUME NInv, NEW v, enc' = [enc EXCEPT !.state = v], used' = used
  PROVE  NInv'
<1>1. "nonce" \in DOMAIN enc' /\ enc'.nonce = enc.nonce
  BY DEF NInv
<1>. QED  BY <1>1 DEF NInv

LEMMA SealPreserves ==
  ASSUME NInv, NEW n, NEW padding, Seal(n, padding)
  PROVE  NInv'
<1>1. Seals(n) \in Nat
  BY DEF Seals
<1>2. enc' = Advanced(n) /\ used' = used \o Nonces(Seals(n))
  BY Zenon DEF Seal
<1>3. "nonce" \in DOMAIN enc' /\ enc'.nonce = enc.nonce + Seals(n)
  BY <1>2 DEF Advanced
<1>4. Counted(enc.nonce + Seals(n), used \o Nonces(Seals(n)))
  BY <1>1, CountedMore
<1>. QED  BY <1>2, <1>3, <1>4, Zenon DEF NInv

LEMMA SealFailsPreserves ==
  ASSUME NInv, NEW n, NEW k \in Nat, SealFails(n, k)
  PROVE  NInv'
<1>1. enc' = [enc EXCEPT !.state = AfterSeal(k > 0), !.nonce = enc.nonce + k] /\ used' = used \o Nonces(k)
  BY Zenon DEF SealFails
<1>2. "nonce" \in DOMAIN enc' /\ enc'.nonce = enc.nonce + k
  BY <1>1 DEF NInv
<1>3. Counted(enc.nonce + k, used \o Nonces(k))
  BY CountedMore
<1>. QED  BY <1>1, <1>2, <1>3, Zenon DEF NInv

\* What the encoder does not take part in.
LEMMA OtherPreserves ==
  ASSUME NInv, UNCHANGED <<enc, used>>
  PROVE  NInv'
BY DEF NInv

LEMMA NonceInit == Init => NInv
<1>. SUFFICES ASSUME Init PROVE NInv
  OBVIOUS
<1>1. enc = InitEncoder /\ used = <<>>
  BY Zenon DEF Init
<1>2. "nonce" \in DOMAIN enc /\ enc.nonce = 0
  BY <1>1 DEF InitEncoder
<1>. QED  BY <1>1, <1>2 DEF NInv, Counted

LEMMA NonceStep == NInv /\ [Next]_vars => NInv'
<1>. SUFFICES ASSUME NInv, [Next]_vars PROVE NInv'
  OBVIOUS
<1>1. CASE UNCHANGED vars
  BY <1>1, OtherPreserves, Zenon DEF vars, encoder
<1>2. CASE \E n \in 0..MaxPayload : Reserve(n)
  <2>1. enc' = [enc EXCEPT !.state = "Reserving"] /\ used' = used
    BY <1>2, Zenon DEF Reserve
  <2>. QED  BY <2>1, StateKeeps
<1>3. CASE PayloadMut
  BY <1>3, OtherPreserves, Zenon DEF PayloadMut
<1>4. CASE Cancel
  <2>1. enc' = [enc EXCEPT !.state = "Ready"] /\ used' = used
    BY <1>4, Zenon DEF Cancel
  <2>. QED  BY <2>1, StateKeeps
<1>5. CASE \E n \in 0..MaxPayload, p \in 0..MaxPadding : Seal(n, p)
  BY <1>5, SealPreserves, Zenon
<1>6. CASE \E n \in 0..MaxPayload, k \in 0..2 : SealFails(n, k)
  <2>1. PICK n \in 0..MaxPayload, k \in 0..2 : SealFails(n, k)
    BY <1>6, Zenon
  <2>2. k \in Nat
    OBVIOUS
  <2>. QED  BY <2>1, <2>2, SealFailsPreserves, Zenon
<1>7. CASE WriteRecord
  BY <1>7, OtherPreserves, Zenon DEF WriteRecord
<1>8. CASE \E k \in 1..InMax : Read(k)
  BY <1>8, OtherPreserves, Zenon DEF Read, encoder
<1>9. CASE DecodeSalt \/ DecodeHeader \/ DecodeBody
  BY <1>9, OtherPreserves, Zenon DEF DecodeSalt, DecodeHeader, DecodeBody, encoder
<1>10. CASE Drain
  BY <1>10, OtherPreserves, Zenon DEF Drain, encoder
<1>. QED  BY <1>1, <1>2, <1>3, <1>4, <1>5, <1>6, <1>7, <1>8, <1>9, <1>10, Zenon
          DEF Next, Encode, Decode

\* No nonce seals twice, whatever reservations were cancelled and whatever seals
\* failed half way: a failed seal keeps the nonces it used (finish, after_seal).
THEOREM NoncesAreFresh == Safety => []FreshNonces
<1>1. NInv => FreshNonces
  <2>. SUFFICES ASSUME NInv PROVE FreshNonces
    OBVIOUS
  <2>1. /\ enc.nonce \in Nat /\ used \in Seq(Int)
        /\ DOMAIN used = 1..enc.nonce /\ \A i \in 1..enc.nonce : used[i] = i - 1
    BY DEF NInv, Counted
  <2>. QED  BY <2>1 DEF FreshNonces
<1>. QED  BY <1>1, NonceInit, NonceStep, PTL DEF Safety
=============================================================================
