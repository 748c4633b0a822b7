------------------------- MODULE ReplayCacheProofs -------------------------
(***************************************************************************)
(* No salt is accepted again within its window, for every set of threads   *)
(* and salts, every capacity and TTL, and without a bound on the clock.    *)
(***************************************************************************)
EXTENDS ReplayCache, SequenceTheorems, TLAPS

Dropped == Len(hist) - Len(order)

\* Entries leave `order` at the front and enter it at the back when an insert
\* is accepted, so `order` is what is left of the history's end.
Suffix ==
  /\ Len(order) <= Len(hist)
  /\ \A i \in 1..Len(order) : /\ order[i].salt = hist[Dropped + i].salt
                              /\ order[i].at = hist[Dropped + i].at

\* What may be forgotten: an expired salt, and one behind Cap newer ones.
Gone(i) == clock >= hist[i].at + TTL \/ Len(hist) >= i + Cap

Forgotten == \A i \in 1..Dropped : Gone(i)

RInv == TypeOK /\ IndexExact /\ Suffix /\ Forgotten /\ NoEarlyReplay

\* The state after the expiry loop of an insert has popped k entries.
LEMMA Sweep ==
  ASSUME RInv, NEW c \in calls, NEW k \in 0..Len(order), Expires(k, c.at)
  PROVE  /\ Live(k) \in Seq(Entry)
         /\ Len(Live(k)) = Len(order) - k
         /\ \A i \in 1..(Len(order) - k) : Live(k)[i] = order[k + i]
         /\ Index(k) = {Live(k)[i].salt : i \in 1..Len(Live(k))}
         /\ Index(k) \subseteq Salts
         /\ \A i, j \in 1..Len(Live(k)) : Live(k)[i].salt = Live(k)[j].salt => i = j
         /\ \A i \in 1..(Dropped + k) : Gone(i)
<1>. DEFINE L == Live(k)
<1>. HIDE DEF L
<1>1. /\ order \in Seq(Entry) /\ Len(order) \in Nat /\ k \in Nat /\ k <= Len(order)
      /\ DOMAIN order = 1..Len(order)
      /\ \A i \in 1..Len(order) : order[i] \in Entry
      /\ clock \in Nat /\ Len(hist) \in Nat
  BY DEF RInv, TypeOK
<1>2. /\ L \in Seq(Entry)
      /\ Len(L) = Len(order) - k
      /\ \A i \in 1..(Len(order) - k) : L[i] = order[k + i]
  <2>1. \A i \in (k + 1)..Len(order) : order[i] \in Entry
    BY <1>1
  <2>2. /\ L \in Seq(Entry)
        /\ Len(L) = IF k + 1 <= Len(order) THEN Len(order) - (k + 1) + 1 ELSE 0
        /\ \A i \in 1..(Len(order) - (k + 1) + 1) : L[i] = order[(k + 1) + i - 1]
    BY <1>1, <2>1, SubSeqProperties DEF L, Live
  <2>3. Len(order) - (k + 1) + 1 = Len(order) - k
    BY <1>1
  <2>4. Len(L) = Len(order) - k
    <3>1. CASE k + 1 <= Len(order)
      BY <2>2, <2>3, <3>1
    <3>2. CASE ~(k + 1 <= Len(order))
      <4>1. Len(order) \in Nat /\ k \in Nat /\ k <= Len(order)
        BY <1>1
      <4>2. k = Len(order)
        BY <3>2, <4>1
      <4>3. Len(order) - k = 0
        BY <4>1, <4>2
      <4>. QED  BY <2>2, <3>2, <4>3
    <3>. QED  BY <3>1, <3>2
  <2>5. ASSUME NEW i \in 1..(Len(order) - k)
        PROVE  L[i] = order[k + i]
    <3>1. (k + 1) + i - 1 = k + i
      OBVIOUS
    <3>. QED  BY <2>2, <2>3, <3>1, Zenon
  <2>. QED  BY <2>2, <2>4, <2>5
<1>3. Index(k) = {L[i].salt : i \in 1..Len(L)}
  <2>1. ASSUME NEW x \in Index(k)
        PROVE  x \in {L[i].salt : i \in 1..Len(L)}
    <3>1. PICK j \in 1..Len(order) : x = order[j].salt
      BY <1>1, <2>1 DEF Index, RInv, IndexExact
    <3>2. j > k
      BY <1>1, <2>1, <3>1 DEF Index
    <3>3. j - k \in 1..Len(L) /\ L[j - k] = order[j]
      BY <1>1, <1>2, <3>2
    <3>. QED  BY <3>1, <3>3
  <2>2. ASSUME NEW i \in 1..Len(L)
        PROVE  L[i].salt \in Index(k)
    <3>1. k + i \in 1..Len(order) /\ L[i] = order[k + i]
      BY <1>1, <1>2
    <3>2. order[k + i].salt \in seen
      BY <1>1, <3>1 DEF RInv, IndexExact
    <3>3. ASSUME NEW j \in 1..k
          PROVE  order[j].salt # order[k + i].salt
      <4>1. j \in DOMAIN order /\ k + i \in DOMAIN order /\ j # k + i
        BY <1>1, <1>2, <3>1
      <4>. QED  BY <4>1 DEF RInv, IndexExact
    <3>. QED  BY <3>1, <3>2, <3>3 DEF Index
  <2>. QED  BY <2>1, <2>2
<1>4. \A i, j \in 1..Len(L) : L[i].salt = L[j].salt => i = j
  <2>. SUFFICES ASSUME NEW i \in 1..Len(L), NEW j \in 1..Len(L), L[i].salt = L[j].salt
                PROVE  i = j
    OBVIOUS
  <2>1. /\ k + i \in DOMAIN order /\ k + j \in DOMAIN order
        /\ order[k + i].salt = order[k + j].salt
    BY <1>1, <1>2
  <2>2. k + i = k + j
    BY <2>1 DEF RInv, IndexExact
  <2>. QED  BY <1>1, <1>2, <2>2
<1>5. ASSUME NEW i \in 1..(Dropped + k)
      PROVE  Gone(i)
  <2>1. Dropped \in Nat
    BY <1>1 DEF RInv, Suffix, Dropped
  <2>2. CASE i <= Dropped
    BY <2>1, <2>2 DEF RInv, Forgotten
  <2>3. CASE i > Dropped
    <3>1. i - Dropped \in 1..k /\ Dropped + (i - Dropped) = i
      BY <1>1, <2>1, <2>3
    <3>2. Expired(order[i - Dropped], c.at) /\ order[i - Dropped].at = hist[i].at
      BY <1>1, <3>1 DEF Expires, RInv, Suffix
    <3>3. c.at \in 0..clock
      BY DEF RInv, TypeOK
    <3>4. i - Dropped \in 1..Len(order)
      BY <1>1, <3>1
    <3>5. order[i - Dropped].at \in Nat
      BY <1>1, <3>4 DEF Entry
    <3>. QED  BY <1>1, <3>2, <3>3, <3>5, LimitsAssumption DEF Expired, Gone
  <2>. QED  BY <2>1, <2>2, <2>3
<1>6. Index(k) \subseteq Salts
  BY DEF Index, RInv, TypeOK
<1>. QED  BY <1>2, <1>3, <1>4, <1>5, <1>6 DEF L

\* An insert under the lock preserves the inductive invariant.
LEMMA InsertPreserves ==
  ASSUME RInv, NEW c \in calls, Insert(c)
  PROVE  RInv'
<1>1. PICK k \in 0..Len(order) : Expires(k, c.at) /\ (Duplicate(c, k) \/ Accept(c, k))
  BY DEF Insert
<1>. DEFINE L == Live(k)
            d == Dropped + k
<1>. HIDE DEF L, d
<1>a. L \in Seq(Entry) /\ Len(L) \in Nat /\ Len(L) = Len(order) - k
  BY <1>1, Sweep DEF L
<1>b. \A i \in 1..(Len(order) - k) : L[i] = order[k + i]
  BY <1>1, Sweep DEF L
<1>c. Index(k) = {L[i].salt : i \in 1..Len(L)} /\ Index(k) \subseteq Salts
  BY <1>1, Sweep DEF L
<1>d. \A i, j \in 1..Len(L) : L[i].salt = L[j].salt => i = j
  BY <1>1, Sweep DEF L
<1>e. \A i \in 1..d : Gone(i)
  BY <1>1, Sweep DEF d
<1>f. /\ clock \in Nat /\ c.salt \in Salts /\ c.at \in 0..clock
      /\ UNCHANGED clock
      /\ calls' \subseteq [thread : Threads, salt : Salts, at : 0..clock']
      /\ hist \in Seq([salt : Salts, at : Nat, when : Nat])
  BY DEF RInv, TypeOK, Insert
<1>g. /\ Len(order) \in Nat /\ Len(hist) \in Nat /\ Dropped \in Nat /\ k \in Nat
      /\ Len(order) <= Cap /\ Len(hist) = Dropped + Len(order) /\ k <= Len(order)
  BY DEF RInv, TypeOK, IndexExact, Suffix, Dropped
<1>h. d \in Nat /\ Len(hist) = d + Len(L) /\ Len(L) <= Cap
  BY <1>a, <1>g, LimitsAssumption DEF d
<1>i. ASSUME NEW i \in 1..Len(L)
      PROVE  L[i].salt = hist[d + i].salt /\ L[i].at = hist[d + i].at
  <2>1. k + i \in 1..Len(order) /\ i \in 1..(Len(order) - k)
    BY <1>a, <1>g
  <2>2. Dropped + (k + i) = d + i
    BY <1>a, <1>g DEF d
  <2>. QED  BY <1>b, <2>1, <2>2 DEF RInv, Suffix
<1>5. CASE Duplicate(c, k)
  <2>1. order' = L /\ seen' = Index(k) /\ hist' = hist
    BY <1>5 DEF Duplicate, L
  <2>2. TypeOK'
    BY <1>a, <1>c, <1>f, <2>1 DEF TypeOK
  <2>3. IndexExact'
    <3>1. DOMAIN L = 1..Len(L)
      BY <1>a
    <3>. QED  BY <1>c, <1>d, <1>h, <2>1, <3>1 DEF IndexExact
  <2>4. Dropped' = d
    BY <1>a, <1>h, <2>1 DEF Dropped
  <2>5. Suffix'
    <3>1. Len(L) <= Len(hist)
      BY <1>a, <1>h
    <3>. QED  BY <1>i, <2>1, <2>4, <3>1 DEF Suffix
  <2>6. Forgotten'
    BY <1>e, <1>f, <2>1, <2>4 DEF Forgotten, Gone
  <2>7. NoEarlyReplay'
    BY <2>1 DEF RInv, NoEarlyReplay
  <2>. QED  BY <2>2, <2>3, <2>5, <2>6, <2>7 DEF RInv
<1>6. CASE Accept(c, k)
  <2>. DEFINE e == [salt |-> c.salt, at |-> c.at]
              h == [salt |-> c.salt, at |-> c.at, when |-> clock]
              n == Len(hist)
  <2>1. /\ e \in Entry /\ h \in [salt : Salts, at : Nat, when : Nat]
        /\ hist' = Append(hist, h)
        /\ c.salt \notin Index(k)
    BY <1>f, <1>6 DEF Accept, Entry
  <2>2. /\ hist' \in Seq([salt : Salts, at : Nat, when : Nat])
        /\ Len(hist') = n + 1
        /\ \A i \in 1..n : hist'[i] = hist[i]
        /\ hist'[n + 1] = h
        /\ DOMAIN hist = 1..n /\ DOMAIN hist' = 1..(n + 1)
    BY <1>f, <2>1
  <2>h. h.salt = c.salt /\ h.at = c.at /\ h.when = clock /\ e.salt = c.salt /\ e.at = c.at
    OBVIOUS
  <2>n. n \in Nat /\ n = d + Len(L)
    BY <1>g, <1>h
  <2>. HIDE DEF e, h, n
  \* The accepted salt was gone at every earlier place of the history.
  <2>3. NoEarlyReplay'
    <3>1. ASSUME NEW i \in 1..n, NEW j \in 1..n, i < j, hist'[i].salt = hist'[j].salt
          PROVE  hist'[j].when >= hist'[i].at + TTL \/ j - i > Cap
      BY <2>2, <3>1, Zenon DEF RInv, NoEarlyReplay
    <3>2. ASSUME NEW i \in 1..n, hist'[i].salt = hist'[n + 1].salt
          PROVE  hist'[n + 1].when >= hist'[i].at + TTL \/ (n + 1) - i > Cap
      <4>1. hist'[i] = hist[i] /\ hist[i].salt = c.salt /\ hist'[n + 1].when = clock
        BY <2>2, <2>h, <3>2
      <4>2. i <= d
        <5>. SUFFICES ASSUME i > d PROVE FALSE
          BY <1>h, <2>n
        <5>1. i - d \in 1..Len(L) /\ d + (i - d) = i
          BY <1>a, <1>h, <2>n
        <5>2. L[i - d].salt = c.salt
          BY <1>i, <4>1, <5>1
        <5>. QED  BY <1>c, <2>1, <5>1, <5>2
      <4>3. Gone(i)
        <5>1. i \in 1..d
          BY <1>h, <2>n, <4>2
        <5>. QED  BY <1>e, <5>1
      <4>4. n >= i + Cap => (n + 1) - i > Cap
        BY <2>n, LimitsAssumption
      <4>. QED  BY <4>1, <4>3, <4>4 DEF Gone, n
    <3>. SUFFICES ASSUME NEW i \in 1..(n + 1), NEW j \in 1..(n + 1), i < j,
                         hist'[i].salt = hist'[j].salt
                  PROVE  hist'[j].when >= hist'[i].at + TTL \/ j - i > Cap
      BY <2>2, Zenon DEF NoEarlyReplay
    <3>3. i \in 1..n /\ (j \in 1..n \/ j = n + 1)
      BY <2>n
    <3>. QED  BY <3>1, <3>2, <3>3
  \* Both branches append e to the end of the live entries, from m + 1 on.
  <2>4. ASSUME NEW m \in Nat, NEW kept \in Seq(Entry), m <= Len(L),
               Len(kept) = Len(L) - m, Len(kept) < Cap,
               \A i \in 1..Len(kept) : kept[i] = L[m + i],
               m = 0 \/ (m = 1 /\ Len(L) = Cap),
               order' = Append(kept, e),
               seen' = {kept[i].salt : i \in 1..Len(kept)} \cup {c.salt}
        PROVE  RInv'
    <3>. DEFINE q == Len(kept)
    <3>1. /\ order' \in Seq(Entry)
          /\ Len(order') = q + 1
          /\ DOMAIN order' = 1..(q + 1)
          /\ \A i \in 1..q : order'[i] = kept[i]
          /\ order'[q + 1] = e
      BY <2>1, <2>4
    <3>q. q \in Nat /\ q < Cap
      BY <2>4
    <3>k. q = Len(L) - m
      BY <2>4
    <3>s. seen' = {kept[i].salt : i \in 1..q} \cup {c.salt}
      BY <2>4
    <3>t. \A i \in 1..q : kept[i] = L[m + i]
      BY <2>4
    <3>. HIDE DEF q
    <3>i. ASSUME NEW i \in 1..q
          PROVE  /\ m + i \in 1..Len(L) /\ d + (m + i) = d + m + i /\ d + m + i \in 1..n
      BY <1>a, <1>h, <2>n, <3>q, <3>k
    <3>j. n + 1 = d + m + (q + 1)
      BY <1>a, <1>h, <2>n, <3>q, <3>k
    <3>2. TypeOK'
      <4>1. ASSUME NEW i \in 1..q PROVE kept[i].salt \in Salts
        <5>1. L[m + i].salt \in Index(k)
          BY <1>c, <3>i
        <5>. QED  BY <1>c, <3>t, <5>1
      <4>2. seen' \subseteq Salts
        BY <1>f, <3>s, <4>1, Zenon
      <4>. QED  BY <1>f, <2>2, <3>1, <4>2 DEF TypeOK
    <3>3. ASSUME NEW i \in 1..q PROVE kept[i].salt # c.salt
      BY <1>c, <2>1, <3>i, <3>t, Zenon
    <3>4. IndexExact'
      <4>1. Len(order') <= Cap
        BY <3>1, <3>q, LimitsAssumption
      <4>2. seen' = {order'[i].salt : i \in 1..(q + 1)}
        <5>1. ASSUME NEW i \in 1..q
              PROVE  kept[i].salt \in {order'[j].salt : j \in 1..(q + 1)}
          <6>1. i \in 1..(q + 1) /\ order'[i] = kept[i]
            BY <3>1, <3>q
          <6>. QED  BY <6>1
        <5>2. c.salt \in {order'[j].salt : j \in 1..(q + 1)}
          <6>1. q + 1 \in 1..(q + 1) /\ order'[q + 1].salt = c.salt
            BY <2>h, <3>1, <3>q
          <6>. QED  BY <6>1
        <5>3. ASSUME NEW i \in 1..(q + 1)
              PROVE  order'[i].salt \in {kept[j].salt : j \in 1..q} \cup {c.salt}
          <6>1. i \in 1..q \/ i = q + 1
            BY <3>q
          <6>. QED  BY <2>h, <3>1, <6>1
        <5>. QED  BY <3>s, <5>1, <5>2, <5>3
      <4>3. ASSUME NEW i \in 1..(q + 1), NEW j \in 1..(q + 1),
                   order'[i].salt = order'[j].salt
            PROVE  i = j
        <5>1. CASE i \in 1..q /\ j \in 1..q
          <6>1. L[m + i].salt = L[m + j].salt
            BY <3>1, <3>t, <4>3, <5>1
          <6>2. m + i = m + j
            BY <1>d, <3>i, <5>1, <6>1
          <6>. QED  BY <5>1, <6>2
        <5>2. CASE i = q + 1 /\ j \in 1..q
          BY <2>h, <3>1, <3>3, <4>3, <5>2
        <5>3. CASE i \in 1..q /\ j = q + 1
          BY <2>h, <3>1, <3>3, <4>3, <5>3
        <5>4. (i \in 1..q \/ i = q + 1) /\ (j \in 1..q \/ j = q + 1)
          BY <3>q
        <5>. QED  BY <5>1, <5>2, <5>3, <5>4
      <4>. QED  BY <3>1, <4>1, <4>2, <4>3 DEF IndexExact
    <3>5. Dropped' = d + m
      <4>1. (n + 1) - (q + 1) = d + m
        BY <1>h, <3>j, <3>q
      <4>. QED  BY <2>2, <3>1, <4>1 DEF Dropped
    <3>6. Suffix'
      <4>1. ASSUME NEW i \in 1..(q + 1)
            PROVE  /\ order'[i].salt = hist'[d + m + i].salt
                   /\ order'[i].at = hist'[d + m + i].at
        <5>1. CASE i \in 1..q
          <6>1. order'[i] = L[m + i] /\ hist'[d + m + i] = hist[d + (m + i)]
            BY <2>2, <3>1, <3>i, <3>t, <5>1
          <6>2. m + i \in 1..Len(L)
            BY <3>i, <5>1
          <6>. QED  BY <1>i, <6>1, <6>2
        <5>2. CASE i = q + 1
          BY <2>2, <2>h, <3>1, <3>j, <5>2
        <5>3. i \in 1..q \/ i = q + 1
          BY <3>q
        <5>. QED  BY <5>1, <5>2, <5>3
      <4>2. q + 1 <= n + 1
        BY <1>h, <3>j, <3>q
      <4>. QED  BY <2>2, <3>1, <3>5, <4>1, <4>2 DEF Suffix
    <3>7. Forgotten'
      <4>. SUFFICES ASSUME NEW i \in 1..(d + m) PROVE Gone(i)'
        BY <3>5 DEF Forgotten
      <4>1. i \in 1..n
        BY <1>a, <1>h, <2>4, <2>n
      <4>2. CASE i \in 1..d
        <5>1. clock >= hist[i].at + TTL \/ n >= i + Cap
          BY <1>e, <4>2 DEF Gone, n
        <5>2. n >= i + Cap => n + 1 >= i + Cap
          BY <2>n, LimitsAssumption
        <5>. QED  BY <1>f, <2>2, <4>1, <5>1, <5>2 DEF Gone
      <4>3. CASE i = d + 1 /\ Len(L) = Cap
        <5>1. n + 1 >= i + Cap
          BY <1>h, <2>n, <4>3, LimitsAssumption
        <5>. QED  BY <2>2, <5>1 DEF Gone
      <4>4. i \in 1..d \/ (m = 1 /\ i = d + 1)
        BY <1>h, <2>4
      <4>. QED  BY <2>4, <4>2, <4>3, <4>4
    <3>. QED  BY <2>3, <3>2, <3>4, <3>6, <3>7 DEF RInv
  <2>5. CASE Len(L) = Cap
    <3>1. /\ order' = Append(Tail(L), e)
          /\ seen' = (Index(k) \cup {c.salt}) \ {Head(L).salt}
      BY <1>6, <2>5 DEF Accept, L, e
    <3>. DEFINE T == Tail(L)
    <3>2. /\ T \in Seq(Entry) /\ Len(T) = Len(L) - 1 /\ Len(T) \in Nat
          /\ Head(L) = L[1] /\ 1 \in 1..Len(L)
      BY <1>a, <2>5, LimitsAssumption
    <3>3. \A i \in 1..Len(T) : T[i] = L[1 + i]
      BY <1>a, <2>5, LimitsAssumption
    <3>. HIDE DEF T
    <3>4. ASSUME NEW i \in 1..Len(T)
          PROVE  T[i].salt \in Index(k) /\ T[i].salt # L[1].salt
      <4>1. 1 + i \in 1..Len(L) /\ 1 + i # 1
        BY <1>a, <3>2
      <4>2. L[1 + i].salt # L[1].salt
        BY <1>d, <3>2, <4>1
      <4>3. L[1 + i].salt \in Index(k)
        BY <1>c, <4>1
      <4>. QED  BY <3>3, <4>2, <4>3
    <3>5. ASSUME NEW x \in Index(k), x # L[1].salt
          PROVE  x \in {T[i].salt : i \in 1..Len(T)}
      <4>1. PICK j \in 1..Len(L) : x = L[j].salt
        BY <1>c
      <4>2. j # 1
        BY <3>5, <4>1
      <4>3. j - 1 \in 1..Len(T) /\ 1 + (j - 1) = j
        BY <1>a, <3>2, <4>2
      <4>4. T[j - 1].salt = x
        BY <3>3, <4>1, <4>3
      <4>. QED  BY <4>3, <4>4
    <3>6. seen' = {T[i].salt : i \in 1..Len(T)} \cup {c.salt}
      <4>1. c.salt # L[1].salt
        BY <1>c, <2>1, <3>2
      <4>. QED  BY <3>1, <3>2, <3>4, <3>5, <4>1
    <3>7. Len(T) < Cap /\ 1 <= Len(L)
      BY <1>a, <2>5, <3>2, LimitsAssumption
    <3>8. order' = Append(T, e)
      BY <3>1 DEF T
    <3>. QED  BY <2>4, <2>5, <3>2, <3>3, <3>6, <3>7, <3>8, Zenon
  <2>6. CASE Len(L) # Cap
    <3>1. order' = Append(L, e) /\ seen' = Index(k) \cup {c.salt}
      BY <1>6, <2>6 DEF Accept, L, e
    <3>2. 0 <= Len(L) /\ Len(L) = Len(L) - 0 /\ Len(L) < Cap
      BY <1>a, <1>h, <2>6, LimitsAssumption
    <3>3. \A i \in 1..Len(L) : L[i] = L[0 + i]
      OBVIOUS
    <3>. QED  BY <1>a, <1>c, <2>4, <3>1, <3>2, <3>3, Zenon
  <2>. QED  BY <2>5, <2>6
<1>. QED  BY <1>1, <1>5, <1>6

\* The inductive invariant holds of every reachable cache.
LEMMA ReplayInvariant == Spec => []RInv
<1>1. Init => RInv
  <2>. SUFFICES ASSUME Init PROVE RInv
    OBVIOUS
  <2>1. /\ clock = 0 /\ calls = {} /\ order = <<>> /\ seen = {} /\ hist = <<>>
        /\ Len(order) = 0 /\ Len(hist) = 0 /\ DOMAIN order = {} /\ DOMAIN hist = {}
        /\ 1..0 = {} /\ Len(hist) - Len(order) = 0
    BY DEF Init
  <2>2. TypeOK
    BY <2>1 DEF TypeOK
  <2>3. IndexExact
    BY <2>1, LimitsAssumption DEF IndexExact
  <2>4. Suffix /\ Forgotten /\ NoEarlyReplay
    BY <2>1 DEF Suffix, Forgotten, Dropped, NoEarlyReplay
  <2>. QED  BY <2>2, <2>3, <2>4 DEF RInv
<1>2. RInv /\ [Next]_vars => RInv'
  <2>. SUFFICES ASSUME RInv, [Next]_vars
                PROVE  RInv'
    OBVIOUS
  <2>1. CASE Tick
    <3>1. TypeOK'
      BY <2>1 DEF Tick, RInv, TypeOK
    <3>2. Forgotten'
      <4>1. /\ clock \in Nat /\ clock' = clock + 1 /\ hist' = hist /\ Dropped' = Dropped
            /\ Dropped \in Nat /\ Dropped <= Len(hist) /\ Len(hist) \in Nat
        BY <2>1 DEF Tick, RInv, TypeOK, Suffix, Dropped
      <4>2. ASSUME NEW i \in 1..Dropped, Gone(i)
            PROVE  Gone(i)'
        <5>1. i \in 1..Len(hist)
          BY <4>1
        <5>2. hist[i].at \in Nat
          <6>1. hist \in Seq([salt : Salts, at : Nat, when : Nat])
            BY DEF RInv, TypeOK
          <6>2. hist[i] \in [salt : Salts, at : Nat, when : Nat]
            BY <5>1, <6>1, ElementOfSeq, Zenon
          <6>. QED  BY <6>2
        <5>3. clock >= hist[i].at + TTL => clock + 1 >= hist[i].at + TTL
          BY <4>1, <5>2, LimitsAssumption
        <5>. QED  BY <4>1, <4>2, <5>3 DEF Gone
      <4>. QED  BY <4>1, <4>2 DEF RInv, Forgotten
    <3>. QED  BY <2>1, <3>1, <3>2 DEF Tick, RInv, IndexExact, Suffix, Dropped, NoEarlyReplay
  <2>2. ASSUME NEW t \in Threads, NEW salt \in Salts, ReadClock(t, salt)
        PROVE  RInv'
    <3>1. TypeOK'
      BY <2>2 DEF ReadClock, RInv, TypeOK
    <3>. QED
      BY <2>2, <3>1 DEF ReadClock, RInv, IndexExact, Suffix, Dropped, Forgotten, Gone, NoEarlyReplay
  <2>3. ASSUME NEW c \in calls, Insert(c)
        PROVE  RInv'
    BY <2>3, InsertPreserves
  <2>4. CASE UNCHANGED vars
    BY <2>4
    DEF vars, RInv, TypeOK, IndexExact, Suffix, Dropped, Forgotten, Gone, NoEarlyReplay
  <2>. QED  BY <2>1, <2>2, <2>3, <2>4 DEF Next
<1>. QED  BY <1>1, <1>2, PTL DEF Spec

\* A salt is accepted again only TTL after its time or behind more than Cap
\* others, whatever the order in which inserts get the lock (replay.rs, insert).
THEOREM NoReplay == Spec => []NoEarlyReplay
<1>1. RInv => NoEarlyReplay
  BY DEF RInv
<1>. QED  BY <1>1, ReplayInvariant, PTL

\* `seen` stays the index of `order`, within the capacity (replay.rs, Inner).
THEOREM IndexIsExact == Spec => []IndexExact
<1>1. RInv => IndexExact
  BY DEF RInv
<1>. QED  BY <1>1, ReplayInvariant, PTL
=============================================================================
