---------------------------- MODULE ReuseProofs ----------------------------
(***************************************************************************)
(* Who owns a connection, and what is on its way on it, for any number of  *)
(* sessions, connections and records and any size of the pool.             *)
(***************************************************************************)
EXTENDS Reuse, Integers, TLAPS

\* Sequences: the tail, the empty one, a segment.
LEMMA TailOf ==
  ASSUME NEW S, NEW q \in Seq(S), q # <<>>
  PROVE  /\ Head(q) \in S /\ Tail(q) \in Seq(S) /\ Len(Tail(q)) = Len(q) - 1
         /\ \A i \in 1..Len(Tail(q)) : Tail(q)[i] = q[i + 1]
OBVIOUS

\* Only the empty sequence has no elements.
LEMMA EmptyOrNot ==
  ASSUME NEW S
  PROVE  <<>> \in Seq(S) /\ Len(<<>>) = 0 /\ \A q \in Seq(S) : q # <<>> => Len(q) \in Nat \ {0}
OBVIOUS

\* What SubSeq gives.
LEMMA Segment ==
  ASSUME NEW S, NEW q, NEW m \in Int, NEW n \in Int, \A i \in m..n : q[i] \in S
  PROVE  /\ SubSeq(q, m, n) \in Seq(S)
         /\ Len(SubSeq(q, m, n)) = IF m <= n THEN n - m + 1 ELSE 0
         /\ \A i \in 1..(n - m + 1) : SubSeq(q, m, n)[i] = q[m + i - 1]
OBVIOUS

SessionRecord ==
  [pc : {"new", "dialing", "picked", "opening", "relay", "ok", "failed"},
   conn : Conns \cup {None}, reused : BOOLEAN, sent : Nat, upDone : BOOLEAN, downDone : BOOLEAN]

Using == {"picked", "opening", "relay"}

\* The types; only dialed connections are owned, and one that was not dialed is
\* not closed.
OwnerType ==
  /\ sess \in [Sessions -> SessionRecord]
  /\ \A s \in Sessions :
       /\ sess[s].pc \in Using <=> sess[s].conn # None
       /\ sess[s].conn \in dialed \cup {None}
  /\ dialed \subseteq Conns
  /\ pool \in Seq(dialed)
  /\ cend \in [Conns -> {"open", "closed"}]
  /\ \A c \in Conns \ dialed : cend[c] = "open"

OInv == OwnerType /\ OneOwner

\* An action gives session s the record r.
Updates(s, r) == sess' = [sess EXCEPT ![s] = r]

\* An action closes the client's end of the connections cs.
Closes(cs) == cend' = [c \in Conns |-> IF c \in cs THEN "closed" ELSE cend[c]]

\* An action takes the first n entries from the pool.
Removes(n) == pool' = SubSeq(pool, n + 1, Len(pool))

\* No session gets or loses a connection.
SameOwners ==
  /\ sess' \in [Sessions -> SessionRecord]
  /\ \A t \in Sessions : /\ sess'[t].conn = sess[t].conn
                         /\ sess'[t].pc \in Using <=> sess[t].pc \in Using

\* The sessions after an action that gives s the record r.
LEMMA SessionSet ==
  ASSUME OwnerType, NEW s \in Sessions, NEW r \in SessionRecord, Updates(s, r)
  PROVE  /\ sess' \in [Sessions -> SessionRecord] /\ sess'[s] = r
         /\ \A t \in Sessions \ {s} : sess'[t] = sess[t]
BY DEF OwnerType, Updates

\* The entries that the pool has behind its first n ones.
LEMMA PoolTail ==
  ASSUME OInv, NEW n \in 0..Len(pool), Removes(n)
  PROVE  /\ pool' \in Seq(dialed) /\ Len(pool') \in Nat /\ Len(pool') <= MaxSize
         /\ \A i, k \in DOMAIN pool' : i # k => pool'[i] # pool'[k]
         /\ Range(pool') = Range(pool) \ {pool[k] : k \in 1..n}
<1>1. /\ pool \in Seq(dialed) /\ Len(pool) \in Nat /\ DOMAIN pool = 1..Len(pool)
      /\ Len(pool) <= MaxSize /\ \A i, k \in DOMAIN pool : i # k => pool[i] # pool[k]
  BY DEF OInv, OwnerType, OneOwner
<1>2. n + 1 \in Int /\ Len(pool) \in Int /\ \A k \in (n + 1)..Len(pool) : pool[k] \in dialed
  BY <1>1
<1>3. /\ pool' \in Seq(dialed)
      /\ Len(pool') = IF n + 1 <= Len(pool) THEN Len(pool) - (n + 1) + 1 ELSE 0
      /\ \A k \in 1..(Len(pool) - (n + 1) + 1) : pool'[k] = pool[(n + 1) + k - 1]
  <2>. DEFINE m == n + 1
              l == Len(pool)
  <2>1. m \in Int /\ l \in Int /\ (\A k \in m..l : pool[k] \in dialed) /\ pool' = SubSeq(pool, m, l)
    BY <1>2 DEF Removes
  <2>. HIDE DEF m, l
  <2>2. /\ SubSeq(pool, m, l) \in Seq(dialed)
        /\ Len(SubSeq(pool, m, l)) = IF m <= l THEN l - m + 1 ELSE 0
        /\ \A k \in 1..(l - m + 1) : SubSeq(pool, m, l)[k] = pool[m + k - 1]
    BY <2>1, Segment
  <2>. QED  BY <2>1, <2>2, Zenon DEF m, l
<1>4. Len(pool') = Len(pool) - n
  <2>1. CASE n + 1 <= Len(pool)
    BY <1>1, <1>3, <2>1
  <2>2. CASE n = Len(pool)
    BY <1>1, <1>3, <2>2
  <2>3. n + 1 <= Len(pool) \/ n = Len(pool)
    <3>1. Len(pool) \in Nat /\ n \in Int /\ n <= Len(pool)
      BY <1>1
    <3>. QED  BY <3>1
  <2>. QED  BY <2>1, <2>2, <2>3
<1>5. DOMAIN pool' = 1..(Len(pool) - n)
  BY <1>3, <1>4
<1>6. ASSUME NEW k \in DOMAIN pool'
      PROVE  pool'[k] = pool[n + k] /\ n + k \in DOMAIN pool /\ n + k \notin 1..n /\ k \in Int
  <2>1. k \in 1..(Len(pool) - (n + 1) + 1) /\ (n + 1) + k - 1 = n + k
    BY <1>1, <1>5
  <2>2. n + k \in DOMAIN pool /\ n + k \notin 1..n
    BY <1>1, <1>5
  <2>3. pool'[k] = pool[(n + 1) + k - 1]
    BY <1>3, <2>1, Zenon
  <2>4. k \in Int
    BY <1>1, <1>5
  <2>. QED  BY <2>1, <2>2, <2>3, <2>4, Zenon
<1>7. ASSUME NEW i \in DOMAIN pool', NEW k \in DOMAIN pool', i # k
      PROVE  pool'[i] # pool'[k]
  <2>1. n + i # n + k
    BY <1>6, <1>7
  <2>. QED  BY <1>1, <1>6, <2>1
<1>8. ASSUME NEW i \in DOMAIN pool, i \notin 1..n
      PROVE  \E k \in DOMAIN pool' : pool'[k] = pool[i]
  <2>1. i - n \in DOMAIN pool' /\ n + (i - n) = i
    BY <1>1, <1>5, <1>8
  <2>. QED  BY <1>6, <2>1
<1>9. 1..n \subseteq DOMAIN pool
  BY <1>1
<1>10. ASSUME NEW x
       PROVE  x \in Range(pool') <=> x \in Range(pool) /\ x \notin {pool[k] : k \in 1..n}
  <2>1. ASSUME NEW k \in DOMAIN pool'
        PROVE  pool'[k] \in Range(pool) /\ pool'[k] \notin {pool[l] : l \in 1..n}
    <3>1. pool'[k] \in Range(pool)
      BY <1>6 DEF Range
    <3>2. \A l \in 1..n : pool[l] # pool[n + k]
      BY <1>1, <1>6, <1>9
    <3>. QED  BY <1>6, <3>1, <3>2
  <2>. QED  BY <1>8, <2>1 DEF Range
<1>11. Len(pool') \in Nat /\ Len(pool') <= MaxSize
  BY <1>1, <1>4, LimitsAssumption
<1>. QED  BY <1>3, <1>7, <1>10, <1>11

\* Sessions that go on with what they have.
LEMMA Stays ==
  ASSUME OInv, SameOwners, UNCHANGED <<pool, dialed, cend>>
  PROVE  OInv'
<1>1. OwnerType'
  BY DEF OInv, OwnerType, Using, SameOwners
<1>2. {sess'[t].conn : t \in Sessions} = {sess[t].conn : t \in Sessions}
  BY DEF SameOwners
<1>3. OneOwner'
  BY <1>2 DEF OInv, OneOwner, SameOwners
<1>. QED  BY <1>1, <1>3 DEF OInv

\* A session that ends and drops its connection.
LEMMA GivesUp ==
  ASSUME OInv, NEW s \in Sessions, NEW r \in SessionRecord, Updates(s, r),
         sess[s].pc \in Using, r.conn = None, r.pc \notin Using,
         Closes({sess[s].conn}), UNCHANGED <<pool, dialed>>
  PROVE  OInv'
<1>. DEFINE c == sess[s].conn
<1>1. c \in dialed /\ c \in Conns /\ c # None
  BY DEF OInv, OwnerType
<1>2. /\ sess' \in [Sessions -> SessionRecord] /\ sess'[s] = r
      /\ \A t \in Sessions \ {s} : sess'[t] = sess[t]
  BY SessionSet DEF OInv
<1>3. /\ cend' \in [Conns -> {"open", "closed"}]
      /\ cend'[c] = "closed" /\ \A x \in Conns \ {c} : cend'[x] = cend[x]
  BY <1>1 DEF Closes, OInv, OwnerType
<1>4. OwnerType'
  BY <1>1, <1>2, <1>3 DEF OInv, OwnerType, Using
<1>5. \A t \in Sessions : sess'[t].conn # c
  BY <1>1, <1>2 DEF OInv, OneOwner
<1>6. /\ \A t, u \in Sessions : t # u /\ sess'[t].conn # None => sess'[t].conn # sess'[u].conn
      /\ \A t \in Sessions, i \in DOMAIN pool : sess'[t].conn # pool[i]
  <2>1. \A i \in DOMAIN pool : pool[i] # None
    BY NoneAssumption DEF OInv, OwnerType
  <2>. QED  BY <1>2, <2>1 DEF OInv, OneOwner
<1>7. ASSUME NEW x \in dialed
      PROVE  cend'[x] = "open" <=> x \in Range(pool) \cup {sess'[t].conn : t \in Sessions}
  <2>1. x \in Conns /\ x # None
    BY NoneAssumption DEF OInv, OwnerType
  <2>2. CASE x = c
    <3>1. x \notin Range(pool)
      BY <2>2 DEF OInv, OneOwner, Range
    <3>. QED  BY <1>3, <1>5, <2>2, <3>1
  <2>3. CASE x # c
    <3>1. x \in {sess'[t].conn : t \in Sessions} <=> x \in {sess[t].conn : t \in Sessions}
      BY <1>2, <2>1, <2>3
    <3>. QED  BY <1>3, <2>1, <2>3, <3>1 DEF OInv, OneOwner
  <2>. QED  BY <2>2, <2>3
<1>8. OneOwner'
  BY <1>6, <1>7 DEF OInv, OneOwner
<1>. QED  BY <1>4, <1>8 DEF OInv

\* put: the connection goes from the session to the end of the pool.
LEMMA Returns ==
  ASSUME OInv, NEW s \in Sessions, NEW r \in SessionRecord, Updates(s, r),
         sess[s].pc \in Using, r.conn = None, r.pc \notin Using,
         Len(pool) < MaxSize, pool' = Append(pool, sess[s].conn),
         UNCHANGED <<dialed, cend>>
  PROVE  OInv'
<1>. DEFINE c == sess[s].conn
<1>1. c \in dialed /\ c \in Conns /\ c # None
  BY DEF OInv, OwnerType
<1>2. /\ sess' \in [Sessions -> SessionRecord] /\ sess'[s] = r
      /\ \A t \in Sessions \ {s} : sess'[t] = sess[t]
  BY SessionSet DEF OInv
<1>3. /\ pool \in Seq(dialed) /\ Len(pool) \in Nat /\ DOMAIN pool = 1..Len(pool)
      /\ pool' \in Seq(dialed) /\ Len(pool') = Len(pool) + 1 /\ DOMAIN pool' = 1..(Len(pool) + 1)
      /\ \A i \in 1..Len(pool) : pool'[i] = pool[i]
      /\ pool'[Len(pool) + 1] = c
  BY <1>1 DEF OInv, OwnerType
<1>4. OwnerType'
  BY <1>2, <1>3 DEF OInv, OwnerType, Using
<1>5. \A i \in DOMAIN pool : pool[i] # c
  BY DEF OInv, OneOwner
<1>6. \A i, k \in DOMAIN pool' : i # k => pool'[i] # pool'[k]
  BY <1>3, <1>5 DEF OInv, OneOwner
<1>7. \A t, u \in Sessions : t # u /\ sess'[t].conn # None => sess'[t].conn # sess'[u].conn
  BY <1>2 DEF OInv, OneOwner
<1>8. \A t \in Sessions, i \in DOMAIN pool' : sess'[t].conn # pool'[i]
  <2>1. \A i \in DOMAIN pool' : pool'[i] # None
    BY <1>3, NoneAssumption DEF OInv, OwnerType
  <2>2. \A t \in Sessions \ {s} : sess[t].conn # c
    BY <1>1 DEF OInv, OneOwner
  <2>. QED  BY <1>2, <1>3, <2>1, <2>2 DEF OInv, OneOwner
<1>9. ASSUME NEW x \in dialed
      PROVE  cend[x] = "open" <=> x \in Range(pool') \cup {sess'[t].conn : t \in Sessions}
  <2>1. x # None
    BY NoneAssumption DEF OInv, OwnerType
  <2>2. x \in Range(pool') <=> x \in Range(pool) \/ x = c
    BY <1>3 DEF Range
  <2>3. x \in {sess[t].conn : t \in Sessions} <=> x \in {sess'[t].conn : t \in Sessions} \/ x = c
    BY <1>2, <2>1
  <2>. QED  BY <2>2, <2>3 DEF OInv, OneOwner
<1>10. Len(pool') <= MaxSize
  BY <1>3, LimitsAssumption
<1>11. OneOwner'
  BY <1>6, <1>7, <1>8, <1>9, <1>10 DEF OneOwner
<1>. QED  BY <1>4, <1>11 DEF OInv

\* A session dials a connection of its own.
LEMMA Dials ==
  ASSUME OInv, NEW s \in Sessions, NEW r \in SessionRecord, Updates(s, r),
         NEW c \in Conns \ dialed, r.conn = c, r.pc \in Using, sess[s].conn = None,
         dialed' = dialed \cup {c}, UNCHANGED <<pool, cend>>
  PROVE  OInv'
<1>1. /\ sess' \in [Sessions -> SessionRecord] /\ sess'[s] = r
      /\ \A t \in Sessions \ {s} : sess'[t] = sess[t]
  BY SessionSet DEF OInv
<1>2. c # None /\ \A t \in Sessions : sess[t].conn # c
  BY NoneAssumption DEF OInv, OwnerType
<1>3. pool \in Seq(dialed) /\ pool \in Seq(dialed') /\ \A i \in DOMAIN pool : pool[i] # c
  BY DEF OInv, OwnerType
<1>4. OwnerType'
  BY <1>1, <1>2, <1>3 DEF OInv, OwnerType, Using
<1>5. \A t, u \in Sessions : t # u /\ sess'[t].conn # None => sess'[t].conn # sess'[u].conn
  BY <1>1, <1>2 DEF OInv, OneOwner
<1>6. \A t \in Sessions, i \in DOMAIN pool : sess'[t].conn # pool[i]
  BY <1>1, <1>3 DEF OInv, OneOwner
<1>7. ASSUME NEW x \in dialed'
      PROVE  cend[x] = "open" <=> x \in Range(pool) \cup {sess'[t].conn : t \in Sessions}
  <2>1. CASE x = c
    <3>1. x \in {sess'[t].conn : t \in Sessions}
      BY <1>1, <2>1
    <3>. QED  BY <2>1, <3>1 DEF OInv, OwnerType
  <2>2. CASE x # c
    <3>1. x \in dialed /\ x # None
      BY <2>2, NoneAssumption DEF OInv, OwnerType
    <3>2. x \in {sess[t].conn : t \in Sessions} <=> x \in {sess'[t].conn : t \in Sessions}
      BY <1>1, <2>2, <3>1
    <3>. QED  BY <3>1, <3>2 DEF OInv, OneOwner
  <2>. QED  BY <2>1, <2>2
<1>8. OneOwner'
  BY <1>5, <1>6, <1>7 DEF OInv, OneOwner
<1>. QED  BY <1>4, <1>8 DEF OInv

\* Entries that leave the front of the pool are closed.
LEMMA Expires ==
  ASSUME OInv, NEW n \in 0..Len(pool), Removes(n),
         NEW cs, cs = {pool[k] : k \in 1..n}, Closes(cs),
         SameOwners, UNCHANGED dialed
  PROVE  OInv'
<1>1. /\ pool' \in Seq(dialed) /\ Len(pool') \in Nat /\ Len(pool') <= MaxSize
      /\ \A i, k \in DOMAIN pool' : i # k => pool'[i] # pool'[k]
      /\ Range(pool') = Range(pool) \ cs
  BY PoolTail
<1>2. cs \subseteq Range(pool) /\ Range(pool) \subseteq dialed /\ dialed \subseteq Conns
  BY DEF OInv, OwnerType, Range
<1>3. OwnerType'
  <2>1. /\ cend' \in [Conns -> {"open", "closed"}]
        /\ \A c \in Conns \ dialed : cend'[c] = "open"
    BY <1>2 DEF OInv, OwnerType, Closes
  <2>. QED  BY <1>1, <2>1 DEF OInv, OwnerType, SameOwners
<1>4. \A t \in Sessions : sess[t].conn \notin Range(pool)
  BY DEF OInv, OneOwner, Range
<1>5. \A t \in Sessions, i \in DOMAIN pool' : sess'[t].conn # pool'[i]
  BY <1>1, <1>4, Zenon DEF Range, SameOwners
<1>6. ASSUME NEW x \in dialed
      PROVE  cend'[x] = "open" <=> x \in Range(pool') \cup {sess'[t].conn : t \in Sessions}
  <2>1. cend[x] = "open" <=> x \in Range(pool) \cup {sess[t].conn : t \in Sessions}
    BY DEF OInv, OneOwner
  <2>2. cend'[x] = IF x \in cs THEN "closed" ELSE cend[x]
    BY <1>2 DEF Closes
  <2>3. x \in cs => x \notin {sess[t].conn : t \in Sessions}
    BY <1>2, <1>4
  <2>4. {sess'[t].conn : t \in Sessions} = {sess[t].conn : t \in Sessions}
    BY DEF SameOwners
  <2>. QED  BY <1>1, <1>2, <2>1, <2>2, <2>3, <2>4, Zenon
<1>7. OneOwner'
  <2>1. \A t, u \in Sessions : t # u /\ sess'[t].conn # None => sess'[t].conn # sess'[u].conn
    BY DEF OInv, OneOwner, SameOwners
  <2>. QED  BY <1>1, <1>5, <1>6, <2>1 DEF OneOwner
<1>. QED  BY <1>3, <1>7 DEF OInv

\* take: the entries in front of entry i are closed, which goes to the session.
LEMMA Takes ==
  ASSUME OInv, NEW s \in Sessions, NEW r \in SessionRecord, Updates(s, r),
         NEW i \in 1..Len(pool), Removes(i),
         NEW cs, cs = {pool[k] : k \in 1..(i - 1)}, Closes(cs),
         sess[s].conn = None, r.conn = pool[i], r.pc \in Using, UNCHANGED dialed
  PROVE  OInv'
<1>. DEFINE p == pool[i]
<1>1. pool \in Seq(dialed) /\ Len(pool) \in Nat /\ DOMAIN pool = 1..Len(pool)
  BY DEF OInv, OwnerType
<1>2. {pool[k] : k \in 1..i} = cs \cup {p}
  <2>1. 1..i = 1..(i - 1) \cup {i}
    BY <1>1
  <2>. QED  BY <2>1
<1>3. /\ pool' \in Seq(dialed) /\ Len(pool') \in Nat /\ Len(pool') <= MaxSize
      /\ \A l, k \in DOMAIN pool' : l # k => pool'[l] # pool'[k]
      /\ Range(pool') = Range(pool) \ (cs \cup {p})
  <2>1. i \in 0..Len(pool)
    BY <1>1
  <2>. QED  BY <1>2, <2>1, PoolTail
<1>4. cs \cup {p} \subseteq Range(pool) /\ p \notin cs
  <2>1. 1..(i - 1) \subseteq DOMAIN pool /\ i \in DOMAIN pool /\ i \notin 1..(i - 1)
    BY <1>1
  <2>. QED  BY <2>1 DEF OInv, OneOwner, Range
<1>5. Range(pool) \subseteq dialed /\ dialed \subseteq Conns /\ None \notin dialed /\ p \in dialed
  BY <1>1, <1>4, NoneAssumption DEF OInv, OwnerType, Range
<1>6. /\ sess' \in [Sessions -> SessionRecord] /\ sess'[s] = r
      /\ \A t \in Sessions \ {s} : sess'[t] = sess[t]
  BY SessionSet DEF OInv
<1>. HIDE DEF p
<1>7. r.conn = p
  BY DEF p
<1>8. OwnerType'
  <2>1. /\ cend' \in [Conns -> {"open", "closed"}]
        /\ \A c \in Conns \ dialed : cend'[c] = "open"
    BY <1>4, <1>5 DEF OInv, OwnerType, Closes
  <2>. QED  BY <1>3, <1>5, <1>6, <1>7, <2>1 DEF OInv, OwnerType, Using
<1>9. \A t \in Sessions : sess[t].conn \notin Range(pool)
  BY DEF OInv, OneOwner, Range
<1>10. \A t, u \in Sessions : t # u /\ sess'[t].conn # None => sess'[t].conn # sess'[u].conn
  BY <1>4, <1>6, <1>7, <1>9 DEF OInv, OneOwner
<1>11. \A t \in Sessions : sess'[t].conn \notin Range(pool')
  BY <1>3, <1>6, <1>7, <1>9
<1>12. ASSUME NEW x \in dialed
       PROVE  cend'[x] = "open" <=> x \in Range(pool') \cup {sess'[t].conn : t \in Sessions}
  <2>1. cend[x] = "open" <=> x \in Range(pool) \cup {sess[t].conn : t \in Sessions}
    BY DEF OInv, OneOwner
  <2>2. cend'[x] = IF x \in cs THEN "closed" ELSE cend[x]
    BY <1>5 DEF Closes
  <2>3. x \in {sess'[t].conn : t \in Sessions} <=> x \in {sess[t].conn : t \in Sessions} \/ x = p
    BY <1>5, <1>6, <1>7
  <2>4. x \in cs => x \notin {sess[t].conn : t \in Sessions} /\ x # p
    BY <1>4, <1>9
  <2>. QED  BY <1>3, <1>4, <2>1, <2>2, <2>3, <2>4
<1>13. OneOwner'
  <2>1. \A t \in Sessions, k \in DOMAIN pool' : sess'[t].conn # pool'[k]
    BY <1>11 DEF Range
  <2>. QED  BY <1>3, <1>10, <1>12, <2>1 DEF OneOwner
<1>. QED  BY <1>8, <1>13 DEF OInv

\* The record of a session that only moves.
LEMMA SessionMoves ==
  ASSUME OwnerType, NEW s \in Sessions, NEW r \in SessionRecord, Updates(s, r),
         r.conn = sess[s].conn, r.pc \in Using <=> sess[s].pc \in Using
  PROVE  SameOwners
BY SessionSet DEF SameOwners

\* What NewSession and Finished give.
LEMMA FinishedRecord ==
  ASSUME NEW pc \in {"dialing", "ok", "failed"}
  PROVE  /\ Finished(pc) \in SessionRecord
         /\ Finished(pc).conn = None /\ Finished(pc).pc \notin Using
BY Zenon DEF Finished, NewSession, SessionRecord, Using

\* The steps that look for a connection.
LEMMA OpensPreserve ==
  ASSUME OInv, NEW s \in Sessions, Opens(s)
  PROVE  OInv'
<1>. DEFINE r0 == sess[s]
<1>1. OwnerType /\ r0 \in SessionRecord /\ (r0.pc \in Using <=> r0.conn # None)
  BY DEF OInv, OwnerType
<1>2. CASE TakePooled(s)
  <2>1. PICK i \in 1..Len(pool) :
          /\ sess' = [sess EXCEPT ![s].pc = "picked", ![s].conn = pool[i], ![s].reused = TRUE]
          /\ Closes({pool[k] : k \in 1..(i - 1)})
          /\ Removes(i)
    <3>1. Len(pool) \in Nat
      BY DEF OInv, OwnerType
    <3>2. PICK n \in 0..Len(pool) : \E i \in (n + 1)..Len(pool) :
            /\ sess' = [sess EXCEPT ![s].pc = "picked", ![s].conn = pool[i], ![s].reused = TRUE]
            /\ Close({pool[k] : k \in 1..(i - 1)})
            /\ Removes(i)
      BY <1>2, Zenon DEF TakePooled, Removes
    <3>3. PICK i \in (n + 1)..Len(pool) :
            /\ sess' = [sess EXCEPT ![s].pc = "picked", ![s].conn = pool[i], ![s].reused = TRUE]
            /\ Close({pool[k] : k \in 1..(i - 1)})
            /\ Removes(i)
      BY <3>2, Zenon
    <3>4. i \in 1..Len(pool)
      BY <3>1
    <3>. QED  BY <3>3, <3>4, Zenon DEF Close, Closes
  <2>. DEFINE p == pool[i]
              r == [r0 EXCEPT !.pc = "picked", !.conn = p, !.reused = TRUE]
  <2>2. p \in Conns
    BY DEF OInv, OwnerType
  <2>3. sess' = [sess EXCEPT ![s] = r]
    BY <2>1, Zenon
  <2>. HIDE DEF p
  <2>4. r \in SessionRecord /\ r.conn = p /\ r.pc \in Using
    BY <1>1, <2>2, Zenon DEF SessionRecord, Using
  <2>5. Updates(s, r) /\ r0.conn = None /\ dialed' = dialed
    BY <1>1, <1>2, <2>3, Zenon DEF Updates, TakePooled, Using
  <2>. HIDE DEF r
  <2>. QED  BY <2>1, <2>4, <2>5, Takes DEF p
<1>3. CASE TakeNone(s)
  <2>. DEFINE r == [r0 EXCEPT !.pc = "dialing"]
  <2>1. /\ r \in SessionRecord /\ r.conn = r0.conn /\ Updates(s, r)
        /\ r.pc \notin Using /\ r0.pc \notin Using /\ dialed' = dialed
    BY <1>1, <1>3 DEF TakeNone, SessionRecord, Updates, Using
  <2>. HIDE DEF r
  <2>2. SameOwners
    BY <1>1, <2>1, SessionMoves
  <2>3. Len(pool) \in Nat /\ DOMAIN pool = 1..Len(pool)
    BY DEF OInv, OwnerType
  <2>4. Range(pool) = {pool[k] : k \in 1..Len(pool)} /\ Closes(Range(pool))
    BY <1>3, <2>3, Zenon DEF TakeNone, Close, Closes, Range
  <2>5. Removes(Len(pool))
    <3>1. SubSeq(pool, Len(pool) + 1, Len(pool)) = <<>>
      BY <2>3
    <3>. QED  BY <1>3, <3>1 DEF TakeNone, Removes
  <2>6. Len(pool) \in 0..Len(pool)
    BY <2>3
  <2>. QED  BY <2>1, <2>2, <2>4, <2>5, <2>6, Expires
<1>4. CASE Dial(s)
  <2>1. PICK c \in Conns \ dialed :
          /\ dialed' = dialed \cup {c}
          /\ sess' = [sess EXCEPT ![s].pc = "picked", ![s].conn = c, ![s].reused = FALSE]
    BY <1>4, Zenon DEF Dial
  <2>. DEFINE r == [r0 EXCEPT !.pc = "picked", !.conn = c, !.reused = FALSE]
  <2>2. sess' = [sess EXCEPT ![s] = r]
    BY <2>1, Zenon
  <2>3. r \in SessionRecord /\ r.conn = c /\ r.pc \in Using
    BY <1>1, Zenon DEF SessionRecord, Using
  <2>4. Updates(s, r) /\ r0.conn = None /\ UNCHANGED <<pool, cend>>
    BY <1>1, <1>4, <2>2, Zenon DEF Updates, Dial, Using
  <2>. HIDE DEF r
  <2>. QED  BY <2>1, <2>3, <2>4, Dials
<1>5. CASE DialFails(s)
  <2>1. Updates(s, Finished("failed")) /\ r0.conn = None /\ r0.pc \notin Using
    BY <1>1, <1>5 DEF DialFails, Updates, Using
  <2>2. SameOwners
    BY <1>1, <2>1, FinishedRecord, SessionMoves
  <2>. QED  BY <1>5, <2>2, Stays DEF DialFails
<1>6. CASE WriteConnect(s)
  <2>. DEFINE r == [r0 EXCEPT !.pc = "opening"]
  <2>1. r \in SessionRecord /\ r.conn = r0.conn /\ Updates(s, r) /\ r.pc \in Using /\ r0.pc \in Using
    BY <1>1, <1>6 DEF WriteConnect, SessionRecord, Updates, Using
  <2>. HIDE DEF r
  <2>2. SameOwners
    BY <1>1, <2>1, SessionMoves
  <2>. QED  BY <1>6, <2>2, Stays DEF WriteConnect
<1>7. CASE ReadTunnel(s)
  <2>. DEFINE r == [r0 EXCEPT !.pc = "relay"]
  <2>1. r \in SessionRecord /\ r.conn = r0.conn /\ Updates(s, r) /\ r.pc \in Using /\ r0.pc \in Using
    BY <1>1, <1>7 DEF ReadTunnel, SessionRecord, Updates, Using
  <2>. HIDE DEF r
  <2>2. SameOwners
    BY <1>1, <2>1, SessionMoves
  <2>. QED  BY <1>7, <2>2, Stays DEF ReadTunnel
<1>8. CASE ServerGone(s) \/ HandshakeTimeout(s) \/ ReadReject(s)
  <2>1. PICK pc \in {"dialing", "failed"} : Updates(s, Finished(pc))
    BY <1>8 DEF ServerGone, HandshakeTimeout, ReadReject, Stale, Updates
  <2>2. r0.pc \in Using /\ Closes({r0.conn}) /\ UNCHANGED <<pool, dialed>>
    BY <1>8, Zenon DEF ServerGone, HandshakeTimeout, ReadReject, Stale, Drop, Close, Closes, Using
  <2>. QED  BY <2>1, <2>2, FinishedRecord, GivesUp
<1>. QED  BY <1>2, <1>3, <1>4, <1>5, <1>6, <1>7, <1>8 DEF Opens

\* The steps of a session that has its tunnel.
LEMMA RelaysPreserve ==
  ASSUME OInv, NEW s \in Sessions, Relays(s)
  PROVE  OInv'
<1>. DEFINE r0 == sess[s]
<1>1. OwnerType /\ r0 \in SessionRecord /\ (r0.pc \in Using <=> r0.conn # None)
  BY DEF OInv, OwnerType
<1>2. r0.pc \in Using
  BY DEF Relays, ClientSend, ClientEnd, ClientReceive, ClientEof, ClientFails, Put, Using
<1>3. CASE ClientSend(s) \/ ClientEnd(s) \/ ClientReceive(s) \/ ClientEof(s)
  <2>1. UNCHANGED <<pool, dialed, cend>>
    BY <1>3 DEF ClientSend, ClientEnd, ClientReceive, ClientEof
  <2>2. PICK r \in SessionRecord : Updates(s, r) /\ r.pc = r0.pc /\ r.conn = r0.conn
    <3>1. CASE ClientSend(s)
      <4>. DEFINE r == [r0 EXCEPT !.sent = r0.sent + 1]
      <4>1. r \in SessionRecord /\ Updates(s, r) /\ r.pc = r0.pc /\ r.conn = r0.conn
        BY <1>1, <3>1 DEF ClientSend, SessionRecord, Updates
      <4>. QED  BY <4>1, Zenon
    <3>2. CASE ClientEnd(s)
      <4>. DEFINE r == [r0 EXCEPT !.upDone = TRUE]
      <4>1. r \in SessionRecord /\ Updates(s, r) /\ r.pc = r0.pc /\ r.conn = r0.conn
        BY <1>1, <3>2, Zenon DEF ClientEnd, SessionRecord, Updates
      <4>. QED  BY <4>1, Zenon
    <3>3. CASE ClientReceive(s) \/ ClientEof(s)
      <4>1. PICK b \in BOOLEAN : Updates(s, [r0 EXCEPT !.downDone = b])
        BY <3>3, Zenon DEF ClientReceive, ClientEof, Updates
      <4>. DEFINE r == [r0 EXCEPT !.downDone = b]
      <4>2. r \in SessionRecord /\ r.pc = r0.pc /\ r.conn = r0.conn
        BY <1>1 DEF SessionRecord
      <4>. QED  BY <4>1, <4>2, Zenon
    <3>. QED  BY <1>3, <3>1, <3>2, <3>3
  <2>3. SameOwners
    BY <1>1, <2>2, SessionMoves
  <2>. QED  BY <2>1, <2>3, Stays
<1>4. CASE ClientFails(s)
  <2>1. Updates(s, Finished("failed")) /\ Closes({r0.conn}) /\ UNCHANGED <<pool, dialed>>
    BY <1>4, Zenon DEF ClientFails, Drop, Close, Closes, Updates
  <2>. QED  BY <1>2, <2>1, FinishedRecord, GivesUp
<1>5. CASE Put(s)
  <2>1. Updates(s, Finished("ok")) /\ dialed' = dialed
    BY <1>5 DEF Put, Updates
  <2>2. CASE SocketDead(r0.conn) \/ Len(pool) >= MaxSize
    <3>1. Closes({r0.conn}) /\ pool' = pool
      BY <1>5, <2>2, Zenon DEF Put, Drop, Close, Closes
    <3>. QED  BY <1>2, <2>1, <3>1, FinishedRecord, GivesUp
  <2>3. CASE ~(SocketDead(r0.conn) \/ Len(pool) >= MaxSize)
    <3>1. pool' = Append(pool, r0.conn) /\ cend' = cend
      BY <1>5, <2>3, Zenon DEF Put
    <3>2. Len(pool) < MaxSize
      BY <2>3, LimitsAssumption DEF OInv, OwnerType
    <3>. QED  BY <1>2, <2>1, <3>1, <3>2, FinishedRecord, Returns
  <2>. QED  BY <2>2, <2>3
<1>. QED  BY <1>3, <1>4, <1>5 DEF Relays

\* At first nobody owns anything.
LEMMA OwnersAtFirst == Init => OInv
<1>. SUFFICES ASSUME Init  PROVE OInv
  OBVIOUS
<1>1. NewSession \in SessionRecord /\ NewSession.conn = None /\ NewSession.pc \notin Using
  BY DEF NewSession, SessionRecord, Using
<1>2. /\ sess \in [Sessions -> SessionRecord] /\ dialed = {} /\ pool = <<>>
      /\ \A s \in Sessions : sess[s].conn = None /\ sess[s].pc \notin Using
      /\ cend = [c \in Conns |-> "open"]
  BY <1>1 DEF Init
<1>3. pool \in Seq(dialed) /\ Len(pool) = 0 /\ DOMAIN pool = {}
  BY <1>2
<1>4. OwnerType
  BY <1>2, <1>3 DEF OwnerType
<1>5. OneOwner
  BY <1>2, <1>3, LimitsAssumption DEF OneOwner
<1>. QED  BY <1>4, <1>5 DEF OInv

\* Every step of Reuse keeps one owner for each connection.
LEMMA OwnersPreserved == OInv /\ [Next]_vars => OInv'
<1>. SUFFICES ASSUME OInv, [Next]_vars  PROVE OInv'
  OBVIOUS
<1>1. CASE \E s \in Sessions : Opens(s) \/ Relays(s)
  BY <1>1, OpensPreserve, RelaysPreserve
<1>2. CASE UNCHANGED <<sess, pool, dialed, cend>>
  <2>1. SameOwners
    BY <1>2 DEF OInv, OwnerType, SameOwners
  <2>. QED  BY <1>2, <2>1, Stays
<1>3. CASE \E c \in Conns : Serves(c)
  <2>1. UNCHANGED <<sess, pool, dialed, cend>>
    BY <1>3 DEF Serves, ReadConnect, NoConnect, WriteTunnel, WriteReject, TearTunnel, ServerSend,
                ServerEnd, ServerReceive, ServerEof, ServerFails, NextRequest, ServerClose
  <2>. QED  BY <1>2, <2>1
<1>4. CASE Expire
  <2>1. PICK n \in 1..Len(pool) : Closes(Range(Idle(n))) /\ Removes(n)
    BY <1>4, Zenon DEF Expire, Close, Closes, Removes
  <2>2. Len(pool) \in Nat /\ DOMAIN pool = 1..Len(pool) /\ pool \in Seq(dialed)
    BY DEF OInv, OwnerType
  <2>3. n \in 0..Len(pool)
    BY <2>2
  <2>4. Range(Idle(n)) = {pool[k] : k \in 1..n}
    <3>1. /\ Idle(n) \in Seq(dialed) /\ DOMAIN Idle(n) = 1..n
          /\ \A k \in 1..n : Idle(n)[k] = pool[k]
      BY <2>2 DEF Idle
    <3>. QED  BY <3>1 DEF Range
  <2>5. SameOwners /\ dialed' = dialed
    BY <1>4 DEF Expire, OInv, OwnerType, SameOwners
  <2>. QED  BY <2>1, <2>3, <2>4, <2>5, Expires
<1>5. CASE UNCHANGED vars
  BY <1>2, <1>5 DEF vars
<1>. QED  BY <1>1, <1>3, <1>4, <1>5 DEF Next

\* A connection belongs to one session or one place in the pool, is closed when
\* it leaves both (take, put, expire, establish), and the pool keeps its limit,
\* for any number of sessions, connections and places.
THEOREM ConnectionsHaveOneOwner == Spec => []OneOwner
<1>1. OInv => OneOwner
  BY DEF OInv
<1>. QED  BY <1>1, OwnersAtFirst, OwnersPreserved, PTL DEF Spec
-----------------------------------------------------------------------------
(* What is on the wire.                                                    *)

Record ==
  [kind : {"connect", "data", "zero", "tunnel", "reject", "torn"}, s : Sessions \cup {NoSession}]

TaskRecord ==
  [pc : {"request", "opening", "relay", "closed"}, s : Sessions \cup {NoSession}, sent : Nat,
   upDone : BOOLEAN, downDone : BOOLEAN]

LastIs(q, kind) == q # <<>> /\ q[Len(q)].kind = kind

\* What the server finds in u while it relays for s: data, the zero chunk, and
\* behind that no more than the next request.
RestOf(u, s) ==
  /\ u # <<>> => u[1].kind # "connect"
  /\ \A i \in 1..Len(u) :
       /\ u[i].kind \in {"data", "zero", "connect"}
       /\ u[i].kind # "connect" => u[i].s = s
       /\ u[i].kind = "zero" => i = Len(u) \/ (i + 1 = Len(u) /\ u[i + 1].kind = "connect")
       /\ u[i].kind = "connect" => i = Len(u) /\ i > 1 /\ u[i - 1].kind = "zero"

\* What a server's task v finds in u.
Served(u, v) ==
  /\ v.pc \in {"opening", "closed"} => u = <<>>
  /\ v.pc = "opening" => ~v.upDone /\ ~v.downDone
  /\ v.pc = "request" \/ (v.pc = "relay" /\ v.upDone)
       => Len(u) <= 1 /\ (u # <<>> => u[1].kind = "connect")
  /\ v.pc = "relay" /\ ~v.upDone => RestOf(u, v.s)

\* The client has sent its zero chunk, or nothing yet.
Over(u, v) ==
  /\ v.pc # "opening"
  /\ IF v.pc = "relay" /\ ~v.upDone THEN LastIs(u, "zero") ELSE u = <<>>

\* The client s has its tunnel and has not sent its zero chunk.
Going(u, v, s) ==
  v.pc = "relay" /\ ~v.upDone /\ v.s = s /\ \A i \in 1..Len(u) : u[i].kind = "data"

\* The server sends nothing until the next request.
Silent(d, v) == d = <<>> /\ (v.pc = "relay" => v.downDone)

Quiet(u, d, v) == Over(u, v) /\ Silent(d, v)

\* Records for s, the zero chunk last; the first one is of the given kinds.
Answers(d, s, first) ==
  \A i \in 1..Len(d) :
    /\ d[i].s = s
    /\ i = 1 => d[i].kind \in first
    /\ i > 1 => d[i].kind \in {"data", "zero"}
    /\ d[i].kind = "zero" => i = Len(d)

Asked(u, d, v, s) ==
  /\ v.pc \in {"request", "relay"} /\ u # <<>> /\ u[Len(u)].kind = "connect" /\ u[Len(u)].s = s
  /\ Silent(d, v)

Opened(u, d, v, s) ==
  /\ Going(u, v, s) /\ u = <<>> /\ Answers(d, s, {"tunnel"})
  /\ d # <<>> /\ (v.downDone <=> LastIs(d, "zero"))

\* Session s has sent its request: it waits to be read, is being served, is
\* answered, or the server is gone.
Opening(u, d, v, s) ==
  \/ Asked(u, d, v, s)
  \/ v.pc = "opening" /\ v.s = s /\ d = <<>>
  \/ Opened(u, d, v, s)
  \/ v.pc = "closed" /\ Answers(d, s, {"tunnel", "reject", "torn"})

UpRelayed(r, u, v, s) == v.pc = "closed" \/ IF r.upDone THEN Over(u, v) ELSE Going(u, v, s)

DownRelayed(r, d, v, s) ==
  IF r.downDone THEN Silent(d, v)
  ELSE /\ Answers(d, s, {"data", "zero"})
       /\ v.pc = "relay" => v.s = s /\ (v.downDone <=> LastIs(d, "zero"))
       /\ v.pc = "request" => LastIs(d, "zero")

Relaying(r, u, d, v, s) == UpRelayed(r, u, v, s) /\ DownRelayed(r, d, v, s)

\* A step of the server, from u, d and v to u2, d2 and v2, disturbs no client.
Keeps(u, d, v, u2, d2, v2) ==
  /\ Quiet(u, d, v) => Quiet(u2, d2, v2)
  /\ \A s \in Sessions : Opening(u, d, v, s) => Opening(u2, d2, v2, s)
  /\ \A s \in Sessions, r \in SessionRecord : Relaying(r, u, d, v, s) => Relaying(r, u2, d2, v2, s)
-----------------------------------------------------------------------------
\* The places of what a reader leaves.
LEMMA TailProps ==
  ASSUME NEW S, NEW q \in Seq(S), q # <<>>
  PROVE  /\ Tail(q) \in Seq(S) /\ Len(q) \in Nat \ {0} /\ Len(Tail(q)) = Len(q) - 1
         /\ \A i \in 1..Len(Tail(q)) : Tail(q)[i] = q[i + 1]
         /\ Head(q) = q[1]
         /\ Tail(q) = <<>> <=> Len(q) = 1
<1>1. /\ Tail(q) \in Seq(S) /\ Len(Tail(q)) = Len(q) - 1
      /\ \A i \in 1..Len(Tail(q)) : Tail(q)[i] = q[i + 1]
  BY TailOf
<1>2. Len(q) \in Nat \ {0} /\ Head(q) = q[1]
  BY EmptyOrNot
<1>3. Tail(q) = <<>> <=> Len(Tail(q)) = 0
  BY <1>1, EmptyOrNot, Zenon
<1>. QED  BY <1>1, <1>2, <1>3

\* The places of what a writer adds to.
LEMMA PutProps ==
  ASSUME NEW S, NEW q \in Seq(S), NEW x \in S
  PROVE  /\ q \o <<x>> \in Seq(S) /\ Len(q) \in Nat /\ Len(q \o <<x>>) = Len(q) + 1
         /\ \A i \in 1..Len(q) : (q \o <<x>>)[i] = q[i]
         /\ (q \o <<x>>)[Len(q) + 1] = x
         /\ q \o <<x>> # <<>>
         /\ q = <<>> <=> Len(q) = 0
BY SMT

\* ReadConnect takes the request from u.
LEMMA ReadsConnect ==
  ASSUME NEW u \in Seq(Record), NEW d \in Seq(Record), NEW v \in TaskRecord, Served(u, v),
         v.pc = "request", u # <<>>,
         NEW w \in TaskRecord, w.pc = "opening", w.s = Head(u).s, ~w.upDone, ~w.downDone
  PROVE  Served(Tail(u), w) /\ Keeps(u, d, v, Tail(u), d, w)
<1>1. Len(u) = 1 /\ Tail(u) = <<>> /\ Head(u) = u[1]
  BY TailProps DEF Served
<1>2. Served(Tail(u), w)
  BY <1>1 DEF Served
<1>3. ~Over(u, v) /\ \A s : ~Going(u, v, s)
  BY DEF Over, Going
<1>4. \A s \in Sessions : Opening(u, d, v, s) => Opening(Tail(u), d, w, s)
  BY <1>1, <1>3 DEF Opening, Asked, Opened, Silent
<1>. QED  BY <1>2, <1>3, <1>4, Zenon DEF Keeps, Quiet, Relaying, UpRelayed

\* ServerReceive takes a record from u.
LEMMA ReadsRelayed ==
  ASSUME NEW u \in Seq(Record), NEW d \in Seq(Record), NEW v \in TaskRecord, Served(u, v),
         v.pc = "relay", ~v.upDone, u # <<>>,
         NEW w \in TaskRecord, w.pc = "relay", w.s = v.s, w.downDone = v.downDone,
         w.upDone <=> Head(u).kind = "zero"
  PROVE  Served(Tail(u), w) /\ Keeps(u, d, v, Tail(u), d, w)
<1>. DEFINE t == Tail(u)
<1>1. /\ t \in Seq(Record) /\ Len(u) \in Nat \ {0} /\ Len(t) = Len(u) - 1
      /\ \A i \in 1..Len(t) : t[i] = u[i + 1]
      /\ Head(u) = u[1]
      /\ t = <<>> <=> Len(u) = 1
  BY TailProps
<1>. HIDE DEF t
<1>2. RestOf(u, v.s) /\ u[1].kind \in {"data", "zero"}
  BY <1>1 DEF Served, RestOf
<1>3. CASE u[1].kind = "zero"
  <2>1. w.upDone /\ (Len(u) = 1 \/ (Len(u) = 2 /\ u[2].kind = "connect"))
    BY <1>1, <1>2, <1>3 DEF RestOf
  <2>2. Served(t, w)
    BY <1>1, <2>1 DEF Served
  <2>3. LastIs(u, "zero") => t = <<>>
    BY <1>1, <2>1 DEF LastIs
  <2>4. \A s : ~Going(u, v, s)
    BY <1>1, <1>3 DEF Going
  <2>5. Over(u, v) => Over(t, w)
    BY <2>1, <2>3 DEF Over
  <2>6. \A s : Asked(u, d, v, s) => Asked(t, d, w, s)
    BY <1>1, <1>3, <2>1 DEF Asked, Silent
  <2>7. \A s \in Sessions, r \in SessionRecord : Relaying(r, u, d, v, s) => Relaying(r, t, d, w, s)
    BY <2>4, <2>5 DEF Relaying, UpRelayed, DownRelayed, Silent
  <2>. QED  BY <2>2, <2>4, <2>5, <2>6, <2>7 DEF Keeps, Quiet, Silent, Opening, Opened, t
<1>4. CASE u[1].kind = "data"
  <2>1. ~w.upDone
    BY <1>1, <1>4
  <2>2. RestOf(t, w.s)
    <3>1. ASSUME NEW i \in 1..Len(t)
          PROVE  /\ t[i].kind \in {"data", "zero", "connect"}
                 /\ t[i].kind # "connect" => t[i].s = w.s
                 /\ t[i].kind = "zero" => i = Len(t) \/ (i + 1 = Len(t) /\ t[i + 1].kind = "connect")
                 /\ t[i].kind = "connect" => i = Len(t) /\ i > 1 /\ t[i - 1].kind = "zero"
      <4>1. i + 1 \in 1..Len(u) /\ t[i] = u[i + 1]
        BY <1>1
      <4>2. t[i].kind = "zero" => i = Len(t) \/ (i + 1 = Len(t) /\ t[i + 1].kind = "connect")
        BY <1>1, <1>2, <4>1 DEF RestOf
      <4>3. ASSUME t[i].kind = "connect"
            PROVE  i = Len(t) /\ i > 1 /\ t[i - 1].kind = "zero"
        <5>1. i + 1 = Len(u) /\ u[i].kind = "zero"
          BY <1>2, <4>1, <4>3 DEF RestOf
        <5>2. i # 1
          BY <1>4, <5>1
        <5>. QED  BY <1>1, <5>1, <5>2
      <4>. QED  BY <1>2, <4>1, <4>2, <4>3 DEF RestOf
    <3>2. t # <<>> => t[1].kind # "connect"
      BY <1>1, <3>1
    <3>. QED  BY <3>1, <3>2, Zenon DEF RestOf
  <2>3. Served(t, w)
    BY <2>1, <2>2 DEF Served
  <2>4. \A k \in {"zero", "connect"} : LastIs(u, k) => LastIs(t, k) /\ t[Len(t)] = u[Len(u)]
    BY <1>1, <1>4 DEF LastIs
  <2>5. Over(u, v) => Over(t, w)
    BY <2>1, <2>4 DEF Over
  <2>6. \A s : Asked(u, d, v, s) => Asked(t, d, w, s)
    BY <2>4 DEF Asked, Silent, LastIs
  <2>7. \A s : Going(u, v, s) => Going(t, w, s)
    BY <1>1, <2>1 DEF Going
  <2>8. \A s \in Sessions, r \in SessionRecord : Relaying(r, u, d, v, s) => Relaying(r, t, d, w, s)
    BY <2>5, <2>7 DEF Relaying, UpRelayed, DownRelayed, Silent
  <2>. QED  BY <2>3, <2>5, <2>6, <2>8 DEF Keeps, Quiet, Silent, Opening, Opened, t
<1>. QED  BY <1>2, <1>3, <1>4

\* A task that ends closes the connection, behind what it still says or over
\* everything.
LEMMA ClosesDown ==
  ASSUME NEW u \in Seq(Record), NEW d \in Seq(Record), NEW v \in TaskRecord, Served(u, v),
         NEW w \in TaskRecord, w.pc = "closed", NEW e \in Seq(Record),
         \/ e = <<>>
         \/ v.pc \in {"request", "relay"} /\ e = d
         \/ v.pc = "opening" /\ \E k \in {"reject", "torn"} : e = d \o <<Rec(k, v.s)>>
  PROVE  Served(<<>>, w) /\ Keeps(u, d, v, <<>>, e, w)
<1>1. Served(<<>>, w) /\ Over(<<>>, w)
  BY DEF Served, Over
<1>2. Quiet(u, d, v) => Quiet(<<>>, e, w)
  BY <1>1 DEF Quiet, Over, Silent
<1>3. ASSUME NEW s \in Sessions, Opening(u, d, v, s)
      PROVE  Opening(<<>>, e, w, s)
  <2>1. Answers(e, s, {"tunnel", "reject", "torn"})
    <3>1. CASE e = <<>>
      BY <3>1 DEF Answers
    <3>2. CASE v.pc \in {"request", "relay"} /\ e = d
      BY <1>3, <3>2 DEF Opening, Asked, Opened, Silent, Answers
    <3>3. CASE v.pc = "opening" /\ \E k \in {"reject", "torn"} : e = d \o <<Rec(k, v.s)>>
      <4>1. d = <<>> /\ v.s = s
        BY <1>3, <3>3 DEF Opening, Asked, Opened, Going
      <4>2. PICK k \in {"reject", "torn"} : e = <<>> \o <<Rec(k, v.s)>>
        BY <3>3, <4>1
      <4>3. e = <<Rec(k, v.s)>> /\ Len(e) = 1 /\ e[1] = Rec(k, v.s)
        BY <4>2
      <4>. QED  BY <4>1, <4>3 DEF Answers, Rec
    <3>. QED  BY <3>1, <3>2, <3>3, Zenon
  <2>. QED  BY <2>1 DEF Opening
<1>4. ASSUME NEW s \in Sessions, NEW r \in SessionRecord, Relaying(r, u, d, v, s)
      PROVE  Relaying(r, <<>>, e, w, s)
  <2>1. v.pc # "opening"
    BY <1>4 DEF Relaying, UpRelayed, Over, Going
  <2>2. e = <<>> \/ e = d
    BY <2>1
  <2>3. Answers(<<>>, s, {"data", "zero"})
    BY DEF Answers
  <2>. QED  BY <1>4, <2>2, <2>3 DEF Relaying, UpRelayed, DownRelayed, Silent
<1>. QED  BY <1>1, <1>2, <1>3, <1>4 DEF Keeps

\* WriteTunnel answers the request.
LEMMA WritesTunnel ==
  ASSUME NEW u \in Seq(Record), NEW d \in Seq(Record), NEW v \in TaskRecord, Served(u, v),
         v.pc = "opening",
         NEW w \in TaskRecord, w.pc = "relay", w.s = v.s, w.upDone = v.upDone, w.downDone = v.downDone
  PROVE  Served(u, w) /\ Keeps(u, d, v, u, d \o <<Rec("tunnel", v.s)>>, w)
<1>1. u = <<>> /\ Len(u) = 0 /\ ~w.upDone /\ ~w.downDone
  BY DEF Served
<1>2. Served(u, w)
  BY <1>1 DEF Served, RestOf
<1>3. ~Quiet(u, d, v) /\ \A r, s : ~Relaying(r, u, d, v, s)
  BY DEF Quiet, Over, Relaying, UpRelayed, Going
<1>4. ASSUME NEW s \in Sessions, Opening(u, d, v, s)
      PROVE  Opening(u, d \o <<Rec("tunnel", v.s)>>, w, s)
  <2>. DEFINE e == d \o <<Rec("tunnel", v.s)>>
  <2>1. d = <<>> /\ v.s = s
    BY <1>4 DEF Opening, Asked, Opened, Going
  <2>2. e = <<Rec("tunnel", s)>>
    BY <2>1
  <2>. HIDE DEF e
  <2>3. Len(e) = 1 /\ e[1].kind = "tunnel" /\ e[1].s = s /\ e # <<>>
    BY <2>2 DEF Rec
  <2>4. Answers(e, s, {"tunnel"}) /\ ~LastIs(e, "zero")
    BY <2>3 DEF Answers, LastIs
  <2>5. Going(u, w, s)
    BY <1>1, <2>1 DEF Going
  <2>6. Opening(u, e, w, s)
    BY <1>1, <2>3, <2>4, <2>5 DEF Opening, Opened
  <2>. QED  BY <2>6 DEF e
<1>. QED  BY <1>2, <1>3, <1>4 DEF Keeps

\* ServerSend and ServerEnd: a data record, or the zero chunk.
LEMMA SendsMore ==
  ASSUME NEW u \in Seq(Record), NEW d \in Seq(Record), NEW v \in TaskRecord, Served(u, v),
         v.pc = "relay", ~v.downDone, NEW kind \in {"data", "zero"},
         NEW w \in TaskRecord, w.pc = "relay", w.s = v.s, w.upDone = v.upDone,
         w.downDone <=> kind = "zero"
  PROVE  Served(u, w) /\ Keeps(u, d, v, u, d \o <<Rec(kind, v.s)>>, w)
<1>. DEFINE e == d \o <<Rec(kind, v.s)>>
<1>1. Rec(kind, v.s) \in Record
  BY DEF Rec, Record, TaskRecord
<1>2. /\ e \in Seq(Record) /\ Len(d) \in Nat /\ Len(e) = Len(d) + 1
      /\ \A i \in 1..Len(d) : e[i] = d[i]
      /\ e[Len(d) + 1] = Rec(kind, v.s)
      /\ e # <<>>
      /\ d = <<>> <=> Len(d) = 0
  BY <1>1, PutProps
<1>. HIDE DEF e
<1>3. LastIs(e, "zero") <=> kind = "zero"
  BY <1>2 DEF LastIs, Rec
<1>4. Served(u, w) /\ ~Silent(d, v)
  BY Zenon DEF Served, Silent
<1>5. ASSUME NEW first, Answers(d, v.s, first), ~LastIs(d, "zero"), d = <<>> => kind \in first
      PROVE  Answers(e, v.s, first)
  <2>. SUFFICES ASSUME NEW i \in 1..Len(e)
                PROVE  /\ e[i].s = v.s
                       /\ i = 1 => e[i].kind \in first
                       /\ i > 1 => e[i].kind \in {"data", "zero"}
                       /\ e[i].kind = "zero" => i = Len(e)
    BY DEF Answers
  <2>1. CASE i \in 1..Len(d)
    BY <1>2, <1>5, <2>1 DEF Answers, LastIs
  <2>2. CASE i = Len(d) + 1
    BY <1>2, <1>5, <2>2 DEF Rec
  <2>. QED  BY <1>2, <2>1, <2>2
<1>6. \A s : Going(u, v, s) => Going(u, w, s)
  BY DEF Going
<1>7. ASSUME NEW s \in Sessions, Opening(u, d, v, s)
      PROVE  Opening(u, e, w, s)
  <2>1. Opened(u, d, v, s)
    BY <1>4, <1>7 DEF Opening, Asked
  <2>2. v.s = s /\ Answers(e, s, {"tunnel"})
    BY <1>5, <2>1 DEF Opened, Going
  <2>. QED  BY <1>2, <1>3, <1>6, <2>1, <2>2, Zenon DEF Opening, Opened
<1>8. ASSUME NEW s \in Sessions, NEW r \in SessionRecord, Relaying(r, u, d, v, s)
      PROVE  Relaying(r, u, e, w, s)
  <2>1. UpRelayed(r, u, w, s)
    BY <1>6, <1>8 DEF Relaying, UpRelayed, Over
  <2>2. /\ ~r.downDone /\ v.s = s /\ Answers(d, s, {"data", "zero"}) /\ ~LastIs(d, "zero")
    BY <1>4, <1>8 DEF Relaying, DownRelayed
  <2>3. Answers(e, s, {"data", "zero"})
    BY <1>5, <2>2
  <2>. QED  BY <1>3, <2>1, <2>2, <2>3 DEF Relaying, DownRelayed
<1>9. Keeps(u, d, v, u, e, w)
  BY <1>4, <1>7, <1>8 DEF Keeps, Quiet
<1>. QED  BY <1>4, <1>9 DEF e

\* NextRequest: both directions have ended.
LEMMA WaitsForNext ==
  ASSUME NEW u \in Seq(Record), NEW d \in Seq(Record), NEW v \in TaskRecord, Served(u, v),
         v.pc = "relay", v.upDone, v.downDone, NEW w \in TaskRecord, w.pc = "request"
  PROVE  Served(u, w) /\ Keeps(u, d, v, u, d, w)
<1>1. Served(u, w)
  BY DEF Served
<1>2. \A s : ~Going(u, v, s)
  BY DEF Going
<1>3. Over(u, v) => Over(u, w)
  BY Zenon DEF Over
<1>4. \A s \in Sessions : Opening(u, d, v, s) => Opening(u, d, w, s)
  BY <1>2 DEF Opening, Asked, Opened, Silent
<1>5. \A s \in Sessions, r \in SessionRecord : Relaying(r, u, d, v, s) => Relaying(r, u, d, w, s)
  BY <1>2, <1>3 DEF Relaying, UpRelayed, DownRelayed, Silent
<1>. QED  BY <1>1, <1>3, <1>4, <1>5 DEF Keeps, Quiet, Silent
-----------------------------------------------------------------------------
\* WriteConnect sends the request of s on a quiet connection, or loses it.
LEMMA AsksQuiet ==
  ASSUME NEW u \in Seq(Record), NEW d \in Seq(Record), NEW v \in TaskRecord, Served(u, v),
         Quiet(u, d, v), NEW s \in Sessions, NEW x \in Seq(Record),
         x = IF v.pc # "closed" THEN u \o <<Rec("connect", s)>> ELSE u
  PROVE  Served(x, v) /\ Opening(x, d, v, s)
<1>1. CASE v.pc = "closed"
  BY <1>1 DEF Quiet, Silent, Opening, Answers
<1>2. CASE v.pc # "closed"
  <2>1. Rec("connect", s) \in Record /\ x = u \o <<Rec("connect", s)>>
    BY <1>2 DEF Rec, Record
  <2>2. /\ Len(u) \in Nat /\ Len(x) = Len(u) + 1
        /\ \A i \in 1..Len(u) : x[i] = u[i]
        /\ x[Len(u) + 1] = Rec("connect", s)
        /\ x # <<>>
        /\ u = <<>> <=> Len(u) = 0
    BY <2>1, PutProps
  <2>3. x[Len(x)].kind = "connect" /\ x[Len(x)].s = s
    BY <2>2 DEF Rec
  <2>4. v.pc \in {"request", "relay"}
    BY <1>2, Zenon DEF Quiet, Over, TaskRecord
  <2>5. Opening(x, d, v, s)
    BY <2>2, <2>3, <2>4, Zenon DEF Opening, Asked, Quiet
  <2>6. CASE v.pc = "relay" /\ ~v.upDone
    <3>1. RestOf(u, v.s) /\ LastIs(u, "zero")
      BY <2>6, Zenon DEF Quiet, Over, Served
    <3>2. Len(u) > 0 /\ u[Len(u)].kind = "zero" /\ x[1].kind # "connect"
      BY <2>2, <3>1 DEF LastIs, RestOf
    <3>3. ASSUME NEW i \in 1..Len(x)
          PROVE  /\ x[i].kind \in {"data", "zero", "connect"}
                 /\ x[i].kind # "connect" => x[i].s = v.s
                 /\ x[i].kind = "zero" => i = Len(x) \/ (i + 1 = Len(x) /\ x[i + 1].kind = "connect")
                 /\ x[i].kind = "connect" => i = Len(x) /\ i > 1 /\ x[i - 1].kind = "zero"
      <4>1. CASE i = Len(x)
        BY <2>2, <2>3, <3>2, <4>1
      <4>2. CASE i \in 1..Len(u)
        <5>1. x[i] = u[i] /\ u[i].kind # "connect"
          BY <2>2, <3>1, <3>2, <4>2 DEF RestOf
        <5>2. u[i].kind = "zero" => i = Len(u)
          BY <3>1, <3>2, <4>2, Zenon DEF RestOf
        <5>. QED  BY <2>2, <2>3, <3>1, <4>2, <5>1, <5>2 DEF RestOf
      <4>. QED  BY <2>2, <4>1, <4>2
    <3>4. RestOf(x, v.s)
      BY <3>2, <3>3, Zenon DEF RestOf
    <3>. QED  BY <2>5, <2>6, <3>4, Zenon DEF Served
  <2>7. CASE ~(v.pc = "relay" /\ ~v.upDone)
    <3>1. u = <<>> /\ Len(x) = 1
      BY <2>2, <2>7 DEF Quiet, Over
    <3>. QED  BY <2>3, <2>4, <2>5, <2>7, <3>1 DEF Served
  <2>. QED  BY <2>6, <2>7
<1>. QED  BY <1>1, <1>2

\* ReadTunnel takes the reply from d.
LEMMA GetsTunnel ==
  ASSUME NEW u \in Seq(Record), NEW d \in Seq(Record), NEW v \in TaskRecord,
         NEW s \in Sessions, Opening(u, d, v, s), d # <<>>, Head(d).kind = "tunnel",
         NEW r \in SessionRecord, ~r.upDone, ~r.downDone
  PROVE  Relaying(r, u, Tail(d), v, s)
<1>. DEFINE t == Tail(d)
<1>1. /\ t \in Seq(Record) /\ Len(d) \in Nat \ {0} /\ Len(t) = Len(d) - 1
      /\ \A i \in 1..Len(t) : t[i] = d[i + 1]
      /\ Head(d) = d[1]
      /\ t = <<>> <=> Len(d) = 1
  BY TailProps
<1>. HIDE DEF t
<1>2. \/ Opened(u, d, v, s)
      \/ v.pc = "closed" /\ Answers(d, s, {"tunnel", "reject", "torn"})
  BY DEF Opening, Asked, Silent
<1>3. Answers(t, s, {"data", "zero"})
  <2>. SUFFICES ASSUME NEW i \in 1..Len(t)
                PROVE  /\ t[i].s = s /\ t[i].kind \in {"data", "zero"}
                       /\ t[i].kind = "zero" => i = Len(t)
    BY DEF Answers
  <2>1. i + 1 \in 1..Len(d) /\ i + 1 > 1 /\ t[i] = d[i + 1]
    BY <1>1
  <2>. QED  BY <1>1, <1>2, <2>1 DEF Answers, Opened
<1>4. LastIs(t, "zero") <=> LastIs(d, "zero")
  BY <1>1 DEF LastIs
<1>5. Relaying(r, u, t, v, s)
  BY <1>2, <1>3, <1>4 DEF Relaying, UpRelayed, DownRelayed, Opened, Going
<1>. QED  BY <1>5 DEF t

\* ClientSend and ClientEnd: a data record, or the zero chunk.
LEMMA SendsUp ==
  ASSUME NEW u \in Seq(Record), NEW d \in Seq(Record), NEW v \in TaskRecord, Served(u, v),
         NEW s \in Sessions, NEW r \in SessionRecord, Relaying(r, u, d, v, s), ~r.upDone,
         NEW kind \in {"data", "zero"}, NEW x \in Seq(Record),
         x = IF v.pc # "closed" THEN u \o <<Rec(kind, s)>> ELSE u,
         NEW q \in SessionRecord, q.upDone <=> kind = "zero", q.downDone = r.downDone
  PROVE  Served(x, v) /\ Relaying(q, x, d, v, s)
<1>1. DownRelayed(q, d, v, s)
  BY DEF Relaying, DownRelayed
<1>2. CASE v.pc = "closed"
  BY <1>1, <1>2 DEF Relaying, UpRelayed
<1>3. CASE v.pc # "closed"
  <2>1. Rec(kind, s) \in Record /\ x = u \o <<Rec(kind, s)>>
    BY <1>3 DEF Rec, Record
  <2>2. /\ Len(u) \in Nat /\ Len(x) = Len(u) + 1
        /\ \A i \in 1..Len(u) : x[i] = u[i]
        /\ x[Len(u) + 1] = Rec(kind, s)
        /\ x # <<>>
        /\ u = <<>> <=> Len(u) = 0
    BY <2>1, PutProps
  <2>3. x[Len(u) + 1].kind = kind /\ x[Len(u) + 1].s = s
    BY <2>2 DEF Rec
  <2>4. Going(u, v, s) /\ RestOf(u, s)
    BY <1>3, Zenon DEF Relaying, UpRelayed, Going, Served
  <2>5. ASSUME NEW i \in 1..Len(x)
        PROVE  /\ x[i].kind \in {"data", "zero"} /\ x[i].s = s
               /\ x[i].kind = "zero" => i = Len(x)
    <3>1. CASE i \in 1..Len(u)
      BY <2>2, <2>4, <3>1 DEF Going, RestOf
    <3>2. CASE i = Len(u) + 1
      BY <2>2, <2>3, <3>2
    <3>3. i \in 1..Len(u) \/ i = Len(u) + 1
      BY <2>2
    <3>. QED  BY <3>1, <3>2, <3>3, Zenon
  <2>6. 1 \in 1..Len(x)
    BY <2>2
  <2>7. RestOf(x, s)
    BY <2>5, <2>6, Zenon DEF RestOf
  <2>8. Served(x, v)
    BY <2>4, <2>7, Zenon DEF Served, Going
  <2>9. CASE kind = "zero"
    BY <1>1, <2>2, <2>3, <2>4, <2>8, <2>9, Zenon DEF Relaying, UpRelayed, Over, Going, LastIs
  <2>10. CASE kind = "data"
    <3>1. \A i \in 1..Len(x) : x[i].kind = "data"
      BY <2>2, <2>3, <2>4, <2>10 DEF Going
    <3>. QED  BY <1>1, <2>4, <2>8, <2>10, <3>1, Zenon DEF Relaying, UpRelayed, Going
  <2>. QED  BY <2>9, <2>10
<1>. QED  BY <1>2, <1>3

\* ClientReceive takes a record from d.
LEMMA Receives ==
  ASSUME NEW u \in Seq(Record), NEW d \in Seq(Record), NEW v \in TaskRecord,
         NEW s \in Sessions, NEW r \in SessionRecord, Relaying(r, u, d, v, s), ~r.downDone, d # <<>>,
         NEW q \in SessionRecord, q.upDone = r.upDone, q.downDone <=> Head(d).kind = "zero"
  PROVE  Relaying(q, u, Tail(d), v, s)
<1>. DEFINE t == Tail(d)
<1>1. /\ t \in Seq(Record) /\ Len(d) \in Nat \ {0} /\ Len(t) = Len(d) - 1
      /\ \A i \in 1..Len(t) : t[i] = d[i + 1]
      /\ Head(d) = d[1]
      /\ t = <<>> <=> Len(d) = 1
  BY TailProps
<1>. HIDE DEF t
<1>2. UpRelayed(q, u, v, s) /\ Answers(d, s, {"data", "zero"})
  BY DEF Relaying, UpRelayed, DownRelayed
<1>3. CASE d[1].kind = "zero"
  <2>1. t = <<>> /\ LastIs(d, "zero") /\ q.downDone
    BY <1>1, <1>2, <1>3 DEF Answers, LastIs
  <2>2. Relaying(q, u, t, v, s)
    BY <1>2, <2>1 DEF Relaying, DownRelayed, Silent
  <2>. QED  BY <2>2 DEF t
<1>4. CASE d[1].kind # "zero"
  <2>1. Answers(t, s, {"data", "zero"})
    <3>. SUFFICES ASSUME NEW i \in 1..Len(t)
                  PROVE  /\ t[i].s = s /\ t[i].kind \in {"data", "zero"}
                         /\ t[i].kind = "zero" => i = Len(t)
      BY DEF Answers
    <3>1. i + 1 \in 1..Len(d) /\ i + 1 > 1 /\ t[i] = d[i + 1]
      BY <1>1
    <3>. QED  BY <1>1, <1>2, <3>1 DEF Answers
  <2>2. LastIs(t, "zero") <=> LastIs(d, "zero")
    BY <1>1, <1>4 DEF LastIs
  <2>3. Relaying(q, u, t, v, s)
    BY <1>1, <1>2, <1>4, <2>1, <2>2 DEF Relaying, DownRelayed
  <2>. QED  BY <2>3 DEF t
<1>. QED  BY <1>3, <1>4

\* ClientEof: the server's end is closed and everything is read.
LEMMA FindsEnd ==
  ASSUME NEW u \in Seq(Record), NEW v \in TaskRecord, v.pc = "closed",
         NEW s \in Sessions, NEW r \in SessionRecord, Relaying(r, u, <<>>, v, s),
         NEW q \in SessionRecord, q.downDone
  PROVE  Relaying(q, u, <<>>, v, s)
BY Zenon DEF Relaying, UpRelayed, DownRelayed, Silent

\* Put: the session has sent and read a zero chunk, or found the end.
LEMMA LeavesQuiet ==
  ASSUME NEW u \in Seq(Record), NEW d \in Seq(Record), NEW v \in TaskRecord, Served(u, v),
         NEW s \in Sessions, NEW r \in SessionRecord, Relaying(r, u, d, v, s), r.upDone, r.downDone
  PROVE  Quiet(u, d, v)
BY Zenon DEF Relaying, UpRelayed, DownRelayed, Quiet, Over, Served
-----------------------------------------------------------------------------
(* Connections on both hosts.                                              *)

WireType ==
  /\ up \in [Conns -> Seq(Record)] /\ down \in [Conns -> Seq(Record)]
  /\ srv \in [Conns -> TaskRecord] /\ send \in [Conns -> {"open", "eof", "reset"}]

\* The server's task of c; nothing has happened on what was not dialed.
HasTask(c) ==
  /\ Served(up[c], srv[c])
  /\ srv[c].pc = "closed" <=> send[c] # "open"
  /\ c \notin dialed => srv[c].pc = "request" /\ up[c] = <<>> /\ down[c] = <<>>

IsQuiet(c) == Quiet(up[c], down[c], srv[c])

\* What session s, having the record r, makes of its connection.
Uses(r, u, d, v, s) ==
  /\ r.pc = "picked" => Quiet(u, d, v)
  /\ r.pc = "opening" => Opening(u, d, v, s)
  /\ r.pc = "relay" => Relaying(r, u, d, v, s)
  /\ r.pc # "relay" => ~r.upDone /\ ~r.downDone

UsesConn(r, s) == Uses(r, up[r.conn], down[r.conn], srv[r.conn], s)

\* The inductive invariant: who owns a connection, what its server's task finds,
\* that a pooled one is quiet, and what the session that has one makes of it.
WInv ==
  /\ OInv /\ WireType
  /\ \A c \in Conns : HasTask(c)
  /\ \A i \in DOMAIN pool : IsQuiet(pool[i])
  /\ \A s \in Sessions : UsesConn(sess[s], s)

\* Nothing happens to connection c.
SameWire(c) == up'[c] = up[c] /\ down'[c] = down[c] /\ srv'[c] = srv[c] /\ send'[c] = send[c]

\* Who has a connection keeps it open.
OwnedOpen ==
  /\ \A i \in DOMAIN pool : pool[i] \in dialed /\ pool[i] \in Conns /\ cend[pool[i]] = "open"
  /\ \A s \in Sessions : sess[s].pc \in Using =>
       sess[s].conn \in dialed /\ sess[s].conn \in Conns /\ cend[sess[s].conn] = "open"

\* One owner for each connection: what is owned is open.
LEMMA OwnedIsOpen == OInv => OwnedOpen
<1>. SUFFICES ASSUME OInv  PROVE OwnedOpen
  OBVIOUS
<1>1. \A i \in DOMAIN pool : pool[i] \in dialed /\ pool[i] \in Conns /\ pool[i] \in Range(pool)
  BY DEF OInv, OwnerType, Range
<1>2. \A s \in Sessions : sess[s].pc \in Using => sess[s].conn \in dialed /\ sess[s].conn \in Conns
  BY DEF OInv, OwnerType
<1>3. \A c \in dialed : c \in Range(pool) \cup {sess[s].conn : s \in Sessions} => cend[c] = "open"
  BY DEF OInv, OneOwner
<1>. QED  BY <1>1, <1>2, <1>3 DEF OwnedOpen

\* Sessions that have no connection use none.
LEMMA UsesNone ==
  ASSUME NEW r, r.pc \notin Using, ~r.upDone, ~r.downDone
  PROVE  \A u, d, v, s : Uses(r, u, d, v, s)
BY DEF Uses, Using

\* A session without a connection does not depend on any.
LEMMA NotUsing ==
  ASSUME NEW r, NEW u, NEW d, NEW v, NEW s, Uses(r, u, d, v, s), r.pc \notin Using
  PROVE  \A u2, d2, v2, s2 : Uses(r, u2, d2, v2, s2)
BY Zenon DEF Uses, Using

\* The server's task of c takes a step.
LEMMA ServerStep ==
  ASSUME WInv, OInv', WireType', NEW c \in Conns, UNCHANGED <<sess, pool, dialed, cend>>,
         \A x \in Conns \ {c} : SameWire(x),
         HasTask(c)',
         cend[c] = "open" => Keeps(up[c], down[c], srv[c], up'[c], down'[c], srv'[c])
  PROVE  WInv'
<1>1. OInv /\ sess \in [Sessions -> SessionRecord]
  BY Zenon DEF WInv, OInv, OwnerType
<1>2. \A x \in Conns : HasTask(x)'
  BY Zenon DEF WInv, HasTask, SameWire
<1>3. ASSUME NEW i \in DOMAIN pool
      PROVE  IsQuiet(pool[i])'
  <2>1. pool[i] \in Conns /\ cend[pool[i]] = "open" /\ IsQuiet(pool[i])
    BY <1>1, OwnedIsOpen, Zenon DEF WInv, OwnedOpen
  <2>2. CASE pool[i] = c
    BY <2>1, <2>2, Zenon DEF IsQuiet, Keeps
  <2>3. CASE pool[i] # c
    BY <2>1, <2>3, Zenon DEF IsQuiet, SameWire
  <2>. QED  BY <2>2, <2>3, Zenon
<1>4. ASSUME NEW s \in Sessions
      PROVE  UsesConn(sess[s], s)'
  <2>. DEFINE r == sess[s]
  <2>1. UsesConn(r, s) /\ r \in SessionRecord
    BY <1>1, Zenon DEF WInv
  <2>2. CASE r.pc \notin Using
    BY <2>1, <2>2, NotUsing, Zenon DEF UsesConn
  <2>3. CASE r.pc \in Using
    <3>1. r.conn \in Conns /\ cend[r.conn] = "open"
      BY <1>1, <2>3, OwnedIsOpen, Zenon DEF OwnedOpen
    <3>2. CASE r.conn = c
      BY <2>1, <3>1, <3>2, Zenon DEF UsesConn, Uses, Keeps
    <3>3. CASE r.conn # c
      BY <2>1, <3>1, <3>3, Zenon DEF UsesConn, SameWire
    <3>. QED  BY <3>2, <3>3, Zenon
  <2>. QED  BY <2>2, <2>3, Zenon
<1>. QED  BY <1>2, <1>3, <1>4, Zenon DEF WInv

\* Session s takes a step on its connection.
LEMMA ClientStep ==
  ASSUME WInv, OInv', WireType', NEW s \in Sessions, NEW r \in SessionRecord, Updates(s, r),
         NEW c \in Conns, sess[s].conn = c, r.conn = c, sess[s].pc \in Using,
         UNCHANGED <<pool, dialed, srv, send>>,
         \A x \in Conns \ {c} : up'[x] = up[x] /\ down'[x] = down[x],
         Served(up'[c], srv[c]), Uses(r, up'[c], down'[c], srv[c], s)
  PROVE  WInv'
<1>1. OInv /\ OwnerType /\ OneOwner /\ sess \in [Sessions -> SessionRecord]
  BY Zenon DEF WInv, OInv, OwnerType
<1>2. sess'[s] = r /\ \A t \in Sessions \ {s} : sess'[t] = sess[t]
  BY <1>1, SessionSet, Zenon
<1>3. c \in dialed
  BY <1>1, OwnedIsOpen, Zenon DEF OwnedOpen
<1>4. ASSUME NEW x \in Conns  PROVE HasTask(x)'
  <2>1. CASE x = c
    BY <1>3, <2>1, Zenon DEF WInv, HasTask
  <2>2. CASE x # c
    BY <2>2, Zenon DEF WInv, HasTask
  <2>. QED  BY <2>1, <2>2, Zenon
<1>5. ASSUME NEW i \in DOMAIN pool
      PROVE  IsQuiet(pool[i])'
  <2>1. pool[i] \in Conns
    BY <1>1, OwnedIsOpen, Zenon DEF OwnedOpen
  <2>2. IsQuiet(pool[i])
    BY Zenon DEF WInv
  <2>3. pool[i] # c
    <3>1. \A t \in Sessions, k \in DOMAIN pool : sess[t].conn # pool[k]
      BY <1>1, Zenon DEF OneOwner
    <3>. QED  BY <3>1, Zenon
  <2>. QED  BY <2>1, <2>2, <2>3, Zenon DEF IsQuiet
<1>6. \A x, y \in Sessions : x # y /\ sess[x].conn # None => sess[x].conn # sess[y].conn
  BY <1>1, Zenon DEF OneOwner
<1>7. ASSUME NEW t \in Sessions
      PROVE  UsesConn(sess[t], t)'
  <2>1. CASE t = s
    BY <1>2, <2>1, Zenon DEF UsesConn
  <2>2. CASE t # s
    <3>1. sess'[t] = sess[t] /\ UsesConn(sess[t], t)
      BY <1>2, <2>2, Zenon DEF WInv
    <3>2. CASE sess[t].pc \notin Using
      BY <3>1, <3>2, NotUsing, Zenon DEF UsesConn
    <3>3. CASE sess[t].pc \in Using
      <4>1. sess[t].conn \in Conns
        BY <1>1, <3>3, OwnedIsOpen, Zenon DEF OwnedOpen
      <4>2. sess[t].conn # c
        BY <1>6, <2>2, NoneAssumption, Zenon
      <4>. QED  BY <3>1, <4>1, <4>2, Zenon DEF UsesConn
    <3>. QED  BY <3>2, <3>3, Zenon
  <2>. QED  BY <2>1, <2>2, Zenon
<1>. QED  BY <1>4, <1>5, <1>7, Zenon DEF WInv

\* Connections change hands, and those of cs are closed.
LEMMA OwnersStep ==
  ASSUME WInv, OInv', UNCHANGED <<up, srv, send>>,
         NEW cs, down' \in [Conns -> Seq(Record)],
         \A c \in Conns : /\ c \in cs => cend'[c] = "closed" /\ down'[c] = <<>>
                          /\ c \notin cs => down'[c] = down[c],
         dialed \subseteq dialed',
         \A i \in DOMAIN pool' : IsQuiet(pool'[i]),
         \A s \in Sessions : UsesConn(sess'[s], s)
  PROVE  WInv'
<1>1. WireType'
  BY Zenon DEF WInv, WireType
<1>2. \A c \in Conns : HasTask(c)'
  BY Zenon DEF WInv, HasTask
<1>3. /\ \A i \in DOMAIN pool' : pool'[i] \in Conns /\ cend'[pool'[i]] = "open"
      /\ \A s \in Sessions : sess'[s].pc \in Using =>
           sess'[s].conn \in Conns /\ cend'[sess'[s].conn] = "open"
  <2>1. OwnedOpen'
    BY OwnedIsOpen, PTL
  <2>. QED  BY <2>1, Zenon DEF OwnedOpen
<1>4. (\A i \in DOMAIN pool : IsQuiet(pool[i]))'
  BY <1>3, Zenon DEF IsQuiet
<1>5. ASSUME NEW s \in Sessions
      PROVE  UsesConn(sess[s], s)'
  <2>1. CASE sess'[s].pc \notin Using
    <3>1. \A u, d, v : Uses(sess'[s], u, d, v, s)
      <4>1. UsesConn(sess'[s], s)
        BY Zenon
      <4>. QED  BY <2>1, <4>1, NotUsing, Zenon DEF UsesConn
    <3>. QED  BY <3>1, Zenon DEF UsesConn
  <2>2. CASE sess'[s].pc \in Using
    BY <1>3, <2>2, Zenon DEF UsesConn
  <2>. QED  BY <2>1, <2>2, Zenon
<1>. QED  BY <1>1, <1>2, <1>4, <1>5, Zenon DEF WInv

\* An action changes f to g, at c, where it becomes x.
Puts(f, g, c, x) == g = [f EXCEPT ![c] = x]

\* An action that leaves f alone puts at c what is there.
LEMMA PutSame ==
  ASSUME NEW S, NEW f \in [Conns -> S], NEW c \in Conns
  PROVE  Puts(f, f, c, f[c])
BY DEF Puts

\* ServerStep, with what the action makes of c.
LEMMA TaskStep ==
  ASSUME WInv, OInv', NEW c \in Conns, c \in dialed, UNCHANGED <<sess, pool, dialed, cend>>,
         NEW x \in Seq(Record), NEW e \in Seq(Record), NEW w \in TaskRecord,
         NEW z \in {"open", "eof", "reset"},
         Puts(up, up', c, x), Puts(down, down', c, e), Puts(srv, srv', c, w), Puts(send, send', c, z),
         Served(x, w), w.pc = "closed" <=> z # "open",
         cend[c] = "open" => Keeps(up[c], down[c], srv[c], x, e, w)
  PROVE  WInv'
<1>1. WireType
  BY Zenon DEF WInv
<1>2. /\ up' \in [Conns -> Seq(Record)] /\ up'[c] = x /\ \A y \in Conns \ {c} : up'[y] = up[y]
      /\ down' \in [Conns -> Seq(Record)] /\ down'[c] = e /\ \A y \in Conns \ {c} : down'[y] = down[y]
  BY <1>1 DEF WireType, Puts
<1>3. /\ srv' \in [Conns -> TaskRecord] /\ srv'[c] = w /\ \A y \in Conns \ {c} : srv'[y] = srv[y]
      /\ send' \in [Conns -> {"open", "eof", "reset"}] /\ send'[c] = z
      /\ \A y \in Conns \ {c} : send'[y] = send[y]
  BY <1>1, Zenon DEF WireType, Puts
<1>4. WireType' /\ (\A y \in Conns \ {c} : SameWire(y))
  BY <1>2, <1>3, Zenon DEF WireType, SameWire
<1>5. HasTask(c)'
  BY <1>2, <1>3, Zenon DEF HasTask
<1>. QED  BY <1>2, <1>3, <1>4, <1>5, ServerStep, Zenon

\* The ends of a task.
LEMMA CloseStep ==
  ASSUME WInv, OInv', NEW c \in Conns, c \in dialed, NEW q, ServerClose(c, q),
         \/ srv[c].pc \in {"request", "relay"} /\ q = <<>>
         \/ srv[c].pc = "opening" /\ \E k \in {"reject", "torn"} : q = <<Rec(k, srv[c].s)>>
  PROVE  WInv'
<1>. DEFINE u == up[c]
            d == down[c]
            v == srv[c]
            w == [NewTask EXCEPT !.pc = "closed"]
<1>1. u \in Seq(Record) /\ d \in Seq(Record) /\ v \in TaskRecord /\ Served(u, v) /\ WireType
  BY DEF WInv, WireType, HasTask
<1>2. w \in TaskRecord /\ w.pc = "closed"
  BY Zenon DEF NewTask, TaskRecord
<1>3. UNCHANGED <<sess, pool, dialed, cend>> /\ Puts(up, up', c, <<>>) /\ Puts(srv, srv', c, w)
  BY Zenon DEF ServerClose, Puts
<1>. HIDE DEF w
<1>4. <<>> \in Seq(Record) /\ d \o <<>> = d
  BY <1>1
<1>5. \A k \in {"reject", "torn"} : d \o <<Rec(k, v.s)>> \in Seq(Record)
  <2>1. \A k \in {"reject", "torn"} : Rec(k, v.s) \in Record
    BY <1>1, Zenon DEF Rec, Record, TaskRecord
  <2>. QED  BY <1>1, <2>1, PutProps, Zenon
<1>6. d \o q \in Seq(Record)
  BY <1>1, <1>4, <1>5, Zenon
<1>7. PICK e \in {<<>>, d, d \o q}, z \in {"eof", "reset"} :
        /\ Puts(down, down', c, e) /\ Puts(send, send', c, z)
        /\ e = <<>> \/ e = (IF cend[c] = "open" THEN d \o q ELSE d)
  BY Zenon DEF ServerClose, SendDown, Puts
<1>8. e \in Seq(Record)
  BY <1>1, <1>4, <1>6, <1>7, Zenon
<1>9. Served(<<>>, w) /\ Keeps(u, d, v, <<>>, <<>>, w)
  BY <1>1, <1>2, <1>4, ClosesDown, Zenon
<1>10. ASSUME cend[c] = "open"  PROVE Keeps(u, d, v, <<>>, e, w)
  <2>1. e = <<>> \/ e = d \o q
    BY <1>7, <1>10, Zenon
  <2>2. \/ e = <<>>
        \/ v.pc \in {"request", "relay"} /\ e = d
        \/ v.pc = "opening" /\ \E k \in {"reject", "torn"} : e = d \o <<Rec(k, v.s)>>
    BY <1>4, <2>1, Zenon
  <2>. QED  BY <1>1, <1>2, <1>8, <2>2, ClosesDown, Zenon
<1>. QED  BY <1>2, <1>3, <1>4, <1>7, <1>8, <1>9, <1>10, TaskStep, Zenon

\* The steps of the server's task.
LEMMA ServesKeep ==
  ASSUME WInv, OInv', NEW c \in Conns, Serves(c)
  PROVE  WInv'
<1>. DEFINE u == up[c]
            d == down[c]
            v == srv[c]
<1>1. /\ u \in Seq(Record) /\ d \in Seq(Record) /\ v \in TaskRecord
      /\ send[c] \in {"open", "eof", "reset"} /\ WireType
  BY DEF WInv, WireType
<1>2. Served(u, v) /\ (v.pc = "closed" <=> send[c] # "open") /\ (c \notin dialed => v.pc = "request")
  BY DEF WInv, HasTask
<1>3. /\ Puts(up, up, c, u) /\ Puts(down, down, c, d)
      /\ Puts(srv, srv, c, v) /\ Puts(send, send, c, send[c])
  BY <1>1, PutSame, Zenon DEF WireType
<1>4. CASE ReadConnect(c)
  <2>. DEFINE w == [NewTask EXCEPT !.pc = "opening", !.s = Head(up[c]).s]
  <2>1. /\ u # <<>> /\ v.pc = "request" /\ c \in dialed
        /\ UNCHANGED <<sess, pool, dialed, cend, down, send>>
        /\ Puts(srv, srv', c, w) /\ Puts(up, up', c, Tail(u))
    BY <1>4, Zenon DEF ReadConnect, Puts
  <2>2. Head(u) \in Record /\ Tail(u) \in Seq(Record)
    BY <1>1, <2>1, TailOf
  <2>3. w \in TaskRecord /\ w.pc = "opening" /\ w.s = Head(u).s /\ ~w.upDone /\ ~w.downDone
    BY <2>2, Zenon DEF NewTask, TaskRecord, Record
  <2>. HIDE DEF w
  <2>4. Served(Tail(u), w) /\ Keeps(u, d, v, Tail(u), d, w)
    BY <1>1, <1>2, <2>1, <2>3, ReadsConnect, Zenon
  <2>. QED  BY <1>1, <1>2, <1>3, <2>1, <2>2, <2>3, <2>4, TaskStep, Zenon
<1>5. CASE NoConnect(c) \/ WriteReject(c) \/ TearTunnel(c) \/ ServerFails(c)
  <2>1. PICK q : /\ c \in dialed /\ ServerClose(c, q)
                 /\ \/ v.pc \in {"request", "relay"} /\ q = <<>>
                    \/ v.pc = "opening" /\ \E k \in {"reject", "torn"} : q = <<Rec(k, v.s)>>
    BY <1>2, <1>5 DEF NoConnect, WriteReject, TearTunnel, ServerFails
  <2>. QED  BY <2>1, CloseStep, Zenon
<1>6. CASE WriteTunnel(c)
  <2>. DEFINE w == [v EXCEPT !.pc = "relay"]
              e == IF cend[c] = "open" THEN d \o <<Rec("tunnel", v.s)>> ELSE d
  <2>1. /\ v.pc = "opening" /\ c \in dialed
        /\ UNCHANGED <<sess, pool, dialed, cend, up, send>>
        /\ Puts(srv, srv', c, w) /\ Puts(down, down', c, e)
    BY <1>2, <1>6, Zenon DEF WriteTunnel, SendDown, Puts
  <2>2. /\ w \in TaskRecord /\ w.pc = "relay" /\ w.s = v.s
        /\ w.upDone = v.upDone /\ w.downDone = v.downDone
    BY <1>1, Zenon DEF TaskRecord
  <2>3. Rec("tunnel", v.s) \in Record
    BY <1>1, Zenon DEF Rec, Record, TaskRecord
  <2>4. e \in Seq(Record)
    BY <1>1, <2>3, PutProps, Zenon
  <2>. HIDE DEF w
  <2>5. Served(u, w) /\ Keeps(u, d, v, u, d \o <<Rec("tunnel", v.s)>>, w)
    BY <1>1, <1>2, <2>1, <2>2, WritesTunnel, Zenon
  <2>6. cend[c] = "open" => Keeps(u, d, v, u, e, w)
    BY <2>5
  <2>. HIDE DEF e
  <2>. QED  BY <1>1, <1>2, <1>3, <2>1, <2>2, <2>4, <2>5, <2>6, TaskStep, Zenon
<1>7. ASSUME NEW kind \in {"data", "zero"}, NEW w \in TaskRecord,
             v.pc = "relay", ~v.downDone, w.pc = "relay", w.s = v.s, w.upDone = v.upDone,
             w.downDone <=> kind = "zero",
             UNCHANGED <<sess, pool, dialed, cend, up, send>>, Puts(srv, srv', c, w),
             SendDown(c, <<Rec(kind, v.s)>>)
      PROVE  WInv'
  <2>. DEFINE e == IF cend[c] = "open" THEN d \o <<Rec(kind, v.s)>> ELSE d
  <2>1. c \in dialed /\ Puts(down, down', c, e)
    BY <1>2, <1>7, Zenon DEF SendDown, Puts
  <2>2. Rec(kind, v.s) \in Record
    BY <1>1, Zenon DEF Rec, Record, TaskRecord
  <2>3. e \in Seq(Record)
    BY <1>1, <2>2, PutProps
  <2>4. Served(u, w) /\ Keeps(u, d, v, u, d \o <<Rec(kind, v.s)>>, w)
    BY <1>1, <1>2, <1>7, SendsMore, Zenon
  <2>5. cend[c] = "open" => Keeps(u, d, v, u, e, w)
    BY <2>4, Zenon
  <2>. HIDE DEF e
  <2>. QED  BY <1>1, <1>2, <1>3, <1>7, <2>1, <2>3, <2>4, <2>5, TaskStep, Zenon
<1>8. CASE ServerSend(c)
  <2>. DEFINE w == [v EXCEPT !.sent = v.sent + 1]
  <2>1. /\ w \in TaskRecord /\ w.pc = v.pc /\ w.s = v.s /\ w.upDone = v.upDone /\ w.downDone = v.downDone
    BY <1>1 DEF TaskRecord
  <2>2. Puts(srv, srv', c, w)
    BY <1>8, Zenon DEF ServerSend, Puts
  <2>. HIDE DEF w
  <2>. QED  BY <1>7, <1>8, <2>1, <2>2 DEF ServerSend
<1>9. CASE ServerEnd(c)
  <2>. DEFINE w == [v EXCEPT !.downDone = TRUE]
  <2>1. w \in TaskRecord /\ w.pc = v.pc /\ w.s = v.s /\ w.upDone = v.upDone /\ w.downDone
    BY <1>1, Zenon DEF TaskRecord
  <2>2. Puts(srv, srv', c, w)
    BY <1>9, Zenon DEF ServerEnd, Puts
  <2>. HIDE DEF w
  <2>. QED  BY <1>7, <1>9, <2>1, <2>2, Zenon DEF ServerEnd
<1>10. CASE ServerReceive(c)
  <2>. DEFINE w == [v EXCEPT !.upDone = (Head(u).kind = "zero")]
  <2>1. /\ u # <<>> /\ v.pc = "relay" /\ ~v.upDone
        /\ UNCHANGED <<sess, pool, dialed, cend, down, send>>
        /\ Puts(srv, srv', c, w) /\ Puts(up, up', c, Tail(u))
    BY <1>10, Zenon DEF ServerReceive, Puts
  <2>2. Tail(u) \in Seq(Record)
    BY <1>1, <2>1, TailOf
  <2>3. /\ w \in TaskRecord /\ w.pc = v.pc /\ w.s = v.s /\ w.downDone = v.downDone
        /\ w.upDone <=> Head(u).kind = "zero"
    BY <1>1, Zenon DEF TaskRecord
  <2>. HIDE DEF w
  <2>4. Served(Tail(u), w) /\ Keeps(u, d, v, Tail(u), d, w)
    BY <1>1, <1>2, <2>1, <2>3, ReadsRelayed, Zenon
  <2>. QED  BY <1>1, <1>2, <1>3, <2>1, <2>2, <2>3, <2>4, TaskStep, Zenon
<1>11. CASE ServerEof(c)
  <2>. DEFINE w == [v EXCEPT !.upDone = TRUE]
  <2>1. /\ u = <<>> /\ v.pc = "relay" /\ cend[c] = "closed"
        /\ UNCHANGED <<sess, pool, dialed, cend, up, down, send>>
        /\ Puts(srv, srv', c, w)
    BY <1>11, Zenon DEF ServerEof, Puts
  <2>2. w \in TaskRecord /\ w.pc = v.pc /\ w.upDone
    BY <1>1, Zenon DEF TaskRecord
  <2>. HIDE DEF w
  <2>3. Served(u, w)
    BY <2>1, <2>2, SMTT(20) DEF Served
  <2>. QED  BY <1>1, <1>2, <1>3, <2>1, <2>2, <2>3, TaskStep, Zenon
<1>12. CASE NextRequest(c)
  <2>1. /\ v.pc = "relay" /\ v.upDone /\ v.downDone
        /\ UNCHANGED <<sess, pool, dialed, cend, up, down, send>>
        /\ Puts(srv, srv', c, NewTask)
    BY <1>12, Zenon DEF NextRequest, Puts
  <2>2. NewTask \in TaskRecord /\ NewTask.pc = "request"
    BY DEF NewTask, TaskRecord
  <2>3. Served(u, NewTask) /\ Keeps(u, d, v, u, d, NewTask)
    BY <1>1, <1>2, <2>1, <2>2, WaitsForNext, Zenon
  <2>. QED  BY <1>1, <1>2, <1>3, <2>1, <2>2, <2>3, TaskStep, Zenon
<1>. QED  BY <1>4, <1>5, <1>6, <1>8, <1>9, <1>10, <1>11, <1>12 DEF Serves

\* Session s sends or receives on its connection c.
LEMMA SessionStep ==
  ASSUME WInv, OInv', NEW s \in Sessions, NEW r \in SessionRecord, Updates(s, r),
         NEW c \in Conns, sess[s].conn = c, r.conn = c, sess[s].pc \in Using,
         UNCHANGED <<pool, dialed, srv, send>>,
         NEW x \in Seq(Record), NEW e \in Seq(Record),
         Puts(up, up', c, x), Puts(down, down', c, e),
         Served(x, srv[c]), Uses(r, x, e, srv[c], s)
  PROVE  WInv'
<1>1. WireType
  BY Zenon DEF WInv
<1>2. /\ up' \in [Conns -> Seq(Record)] /\ up'[c] = x /\ \A y \in Conns \ {c} : up'[y] = up[y]
      /\ down' \in [Conns -> Seq(Record)] /\ down'[c] = e /\ \A y \in Conns \ {c} : down'[y] = down[y]
  BY <1>1, Zenon DEF WireType, Puts
<1>3. WireType'
  BY <1>1, <1>2, Zenon DEF WireType
<1>. QED  BY <1>2, <1>3, ClientStep, Zenon

\* Session s gets a connection or gives one up, and those of cs are closed.
LEMMA HandStep ==
  ASSUME WInv, OInv', NEW s \in Sessions, NEW r \in SessionRecord, Updates(s, r),
         UNCHANGED <<up, srv, send>>, dialed \subseteq dialed',
         NEW cs, Close(cs) \/ (cs = {} /\ UNCHANGED down),
         \A i \in DOMAIN pool' : IsQuiet(pool'[i]),
         UsesConn(r, s)
  PROVE  WInv'
<1>1. OwnerType /\ down \in [Conns -> Seq(Record)]
  BY Zenon DEF WInv, OInv, WireType
<1>2. \A t \in Sessions : UsesConn(sess'[t], t)
  <2>1. sess'[s] = r /\ \A t \in Sessions \ {s} : sess'[t] = sess[t]
    BY <1>1, SessionSet, Zenon
  <2>2. \A t \in Sessions : UsesConn(sess[t], t)
    BY Zenon DEF WInv
  <2>. QED  BY <2>1, <2>2, Zenon
<1>3. /\ down' \in [Conns -> Seq(Record)]
      /\ \A c \in Conns : /\ c \in cs => cend'[c] = "closed" /\ down'[c] = <<>>
                          /\ c \notin cs => down'[c] = down[c]
  <2>1. CASE Close(cs)
    BY <1>1, <2>1 DEF Close
  <2>2. CASE cs = {} /\ UNCHANGED down
    BY <1>1, <2>2
  <2>. QED  BY <2>1, <2>2
<1>. QED  BY <1>2, <1>3, OwnersStep, Zenon

\* The entries that stay in the pool are quiet.
LEMMA TailIsQuiet ==
  ASSUME WInv, NEW n \in 0..Len(pool), Removes(n)
  PROVE  \A i \in DOMAIN pool' : IsQuiet(pool'[i])
<1>1. OInv /\ \A i \in DOMAIN pool : IsQuiet(pool[i])
  BY DEF WInv
<1>2. Range(pool') = Range(pool) \ {pool[k] : k \in 1..n}
  BY <1>1, PoolTail
<1>3. \A i \in DOMAIN pool' : \E k \in DOMAIN pool : pool'[i] = pool[k]
  BY <1>2, Zenon DEF Range
<1>. QED  BY <1>1, <1>3

\* A session that is over uses nothing.
LEMMA FinishedUses ==
  ASSUME NEW pc \in {"dialing", "ok", "failed"}, NEW s
  PROVE  UsesConn(Finished(pc), s)
<1>1. Finished(pc).pc \notin Using /\ ~Finished(pc).upDone /\ ~Finished(pc).downDone
  BY DEF Finished, NewSession, Using
<1>. QED  BY <1>1, UsesNone, Zenon DEF UsesConn

\* The steps that look for a connection and open a tunnel.
LEMMA OpensKeep ==
  ASSUME WInv, OInv', NEW s \in Sessions, Opens(s)
  PROVE  WInv'
<1>. DEFINE r0 == sess[s]
            c == sess[s].conn
            u == up[c]
            d == down[c]
            v == srv[c]
<1>1. /\ OInv /\ OwnerType /\ WireType /\ r0 \in SessionRecord /\ UsesConn(r0, s)
      /\ \A i \in DOMAIN pool : IsQuiet(pool[i])
  BY Zenon DEF WInv, OInv, OwnerType
<1>2. Len(pool) \in Nat /\ DOMAIN pool = 1..Len(pool) /\ \A i \in DOMAIN pool : pool[i] \in Conns
  BY <1>1 DEF OwnerType
<1>3. r0.pc # "relay" => ~r0.upDone /\ ~r0.downDone
  BY <1>1, Zenon DEF UsesConn, Uses
<1>4. ASSUME r0.pc \in Using
      PROVE  /\ c \in Conns /\ u \in Seq(Record) /\ d \in Seq(Record) /\ v \in TaskRecord
             /\ Served(u, v) /\ (v.pc = "closed" <=> send[c] # "open")
             /\ Puts(up, up, c, u) /\ Puts(down, down, c, d)
  <2>1. c \in Conns
    BY <1>1, <1>4, OwnedIsOpen DEF OwnedOpen
  <2>2. u \in Seq(Record) /\ d \in Seq(Record) /\ v \in TaskRecord
    BY <1>1, <2>1, Zenon DEF WireType
  <2>3. Served(u, v) /\ (v.pc = "closed" <=> send[c] # "open")
    BY <2>1 DEF WInv, HasTask
  <2>4. Puts(up, up, c, u) /\ Puts(down, down, c, d)
    BY <1>1, <2>1, PutSame, Zenon DEF WireType
  <2>. QED  BY <2>1, <2>2, <2>3, <2>4, Zenon
<1>5. CASE TakePooled(s)
  <2>1. PICK i \in 1..Len(pool) :
          /\ sess' = [sess EXCEPT ![s].pc = "picked", ![s].conn = pool[i], ![s].reused = TRUE]
          /\ Close({pool[k] : k \in 1..(i - 1)})
          /\ Removes(i)
    <3>1. PICK n \in 0..Len(pool) : \E i \in (n + 1)..Len(pool) :
            /\ sess' = [sess EXCEPT ![s].pc = "picked", ![s].conn = pool[i], ![s].reused = TRUE]
            /\ Close({pool[k] : k \in 1..(i - 1)})
            /\ Removes(i)
      BY <1>5, Zenon DEF TakePooled, Removes
    <3>2. PICK i \in (n + 1)..Len(pool) :
            /\ sess' = [sess EXCEPT ![s].pc = "picked", ![s].conn = pool[i], ![s].reused = TRUE]
            /\ Close({pool[k] : k \in 1..(i - 1)})
            /\ Removes(i)
      BY <3>1, Zenon
    <3>3. i \in 1..Len(pool)
      BY <1>2
    <3>. QED  BY <3>2, <3>3, Zenon
  <2>. DEFINE p == pool[i]
              r == [r0 EXCEPT !.pc = "picked", !.conn = p, !.reused = TRUE]
              cs == {pool[k] : k \in 1..(i - 1)}
  <2>2. p \in Conns /\ IsQuiet(p)
    BY <1>1, <1>2
  <2>3. Updates(s, r)
    BY <2>1, Zenon DEF Updates
  <2>. HIDE DEF p
  <2>4. /\ r \in SessionRecord /\ r.conn = p /\ r.pc = "picked"
        /\ r.upDone = r0.upDone /\ r.downDone = r0.downDone
    BY <1>1, <2>2, Zenon DEF SessionRecord
  <2>5. UNCHANGED <<up, srv, send, dialed>> /\ r0.pc = "new"
    BY <1>5, Zenon DEF TakePooled
  <2>. HIDE DEF r
  <2>6. UsesConn(r, s)
    BY <1>3, <2>2, <2>4, <2>5, Zenon DEF UsesConn, Uses, IsQuiet
  <2>7. \A k \in DOMAIN pool' : IsQuiet(pool'[k])
    BY <1>2, <2>1, TailIsQuiet
  <2>8. Close(cs)
    BY <2>1, Zenon
  <2>. HIDE DEF cs
  <2>. QED  BY <2>3, <2>4, <2>5, <2>6, <2>7, <2>8, HandStep
<1>6. CASE TakeNone(s)
  <2>. DEFINE r == [r0 EXCEPT !.pc = "dialing"]
              cs == Range(pool)
  <2>1. /\ Updates(s, r) /\ UNCHANGED <<up, srv, send, dialed>> /\ r0.pc = "new"
        /\ Close(cs) /\ pool' = <<>>
    BY <1>6, Zenon DEF TakeNone, Updates
  <2>2. /\ r \in SessionRecord /\ r.pc \notin Using
        /\ r.upDone = r0.upDone /\ r.downDone = r0.downDone
    BY <1>1 DEF SessionRecord, Using
  <2>. HIDE DEF r, cs
  <2>3. UsesConn(r, s)
    BY <1>3, <2>1, <2>2, UsesNone, Zenon DEF UsesConn
  <2>4. \A k \in DOMAIN pool' : IsQuiet(pool'[k])
    BY <2>1
  <2>. QED  BY <2>1, <2>2, <2>3, <2>4, HandStep, Zenon
<1>7. CASE Dial(s)
  <2>1. PICK p \in Conns \ dialed :
          /\ dialed' = dialed \cup {p}
          /\ sess' = [sess EXCEPT ![s].pc = "picked", ![s].conn = p, ![s].reused = FALSE]
    BY <1>7, Zenon DEF Dial
  <2>. DEFINE r == [r0 EXCEPT !.pc = "picked", !.conn = p, !.reused = FALSE]
  <2>2. UNCHANGED <<up, srv, send, pool, down>> /\ r0.pc = "dialing" /\ Updates(s, r)
    <3>1. Updates(s, r)
      BY <2>1, Zenon DEF Updates
    <3>. QED  BY <1>7, <3>1 DEF Dial
  <2>3. /\ r \in SessionRecord /\ r.conn = p /\ r.pc = "picked"
        /\ r.upDone = r0.upDone /\ r.downDone = r0.downDone
    BY <1>1, Zenon DEF SessionRecord
  <2>. HIDE DEF r
  <2>4. IsQuiet(p)
    BY Zenon DEF WInv, HasTask, IsQuiet, Quiet, Over, Silent
  <2>5. UsesConn(r, s)
    BY <1>3, <2>2, <2>3, <2>4, Zenon DEF UsesConn, Uses, IsQuiet
  <2>. QED  BY <1>1, <2>1, <2>2, <2>3, <2>5, HandStep, Zenon
<1>8. CASE DialFails(s)
  <2>1. Updates(s, Finished("failed")) /\ UNCHANGED <<up, srv, send, pool, down, dialed>>
    BY <1>8 DEF DialFails, Updates
  <2>. QED  BY <1>1, <2>1, FinishedRecord, FinishedUses, HandStep, Zenon
<1>9. CASE WriteConnect(s)
  <2>. DEFINE r == [r0 EXCEPT !.pc = "opening"]
              x == IF send[c] = "open" THEN u \o <<Rec("connect", s)>> ELSE u
  <2>1. /\ Updates(s, r) /\ UNCHANGED <<pool, dialed, down, srv, send>>
        /\ r0.pc = "picked" /\ Puts(up, up', c, x)
    BY <1>9, Zenon DEF WriteConnect, SendUp, Updates, Puts
  <2>2. /\ r \in SessionRecord /\ r.conn = c /\ r.pc = "opening"
        /\ r.upDone = r0.upDone /\ r.downDone = r0.downDone
    BY <1>1, Zenon DEF SessionRecord
  <2>. HIDE DEF r
  <2>3. r0.pc \in Using
    BY <2>1 DEF Using
  <2>4. Rec("connect", s) \in Record
    BY Zenon DEF Rec, Record
  <2>5. x \in Seq(Record) /\ x = IF v.pc # "closed" THEN u \o <<Rec("connect", s)>> ELSE u
    BY <1>4, <2>3, <2>4, PutProps, Zenon
  <2>6. Quiet(u, d, v)
    BY <1>1, <2>1, Zenon DEF UsesConn, Uses
  <2>. HIDE DEF x
  <2>7. Served(x, v) /\ Opening(x, d, v, s)
    BY <1>4, <2>3, <2>5, <2>6, AsksQuiet, Zenon
  <2>8. Uses(r, x, d, v, s)
    BY <1>3, <2>1, <2>2, <2>7, Zenon DEF Uses
  <2>. QED  BY <1>4, <2>1, <2>2, <2>3, <2>5, <2>7, <2>8, SessionStep, Zenon
<1>10. CASE ReadTunnel(s)
  <2>. DEFINE r == [r0 EXCEPT !.pc = "relay"]
  <2>1. /\ Updates(s, r) /\ UNCHANGED <<pool, dialed, up, srv, send>>
        /\ r0.pc = "opening" /\ Puts(down, down', c, Tail(d))
        /\ d # <<>> /\ Head(d).kind = "tunnel"
    BY <1>10, Zenon DEF ReadTunnel, Updates, Puts
  <2>2. /\ r \in SessionRecord /\ r.conn = c /\ r.pc = "relay"
        /\ r.upDone = r0.upDone /\ r.downDone = r0.downDone
    BY <1>1, Zenon DEF SessionRecord
  <2>. HIDE DEF r
  <2>3. r0.pc \in Using
    BY <2>1, Zenon DEF Using
  <2>4. Tail(d) \in Seq(Record)
    BY <1>4, <2>1, <2>3, TailOf, Zenon
  <2>5. Opening(u, d, v, s)
    BY <1>1, <2>1, Zenon DEF UsesConn, Uses
  <2>6. Relaying(r, u, Tail(d), v, s)
    BY <1>3, <1>4, <2>1, <2>2, <2>3, <2>5, GetsTunnel, Zenon
  <2>7. Uses(r, u, Tail(d), v, s)
    BY <2>2, <2>6, Zenon DEF Uses
  <2>. QED  BY <1>4, <2>1, <2>2, <2>3, <2>4, <2>7, SessionStep, Zenon
<1>11. CASE ServerGone(s) \/ HandshakeTimeout(s) \/ ReadReject(s)
  <2>1. PICK pc \in {"dialing", "failed"} : Updates(s, Finished(pc))
    BY <1>11, Zenon DEF ServerGone, HandshakeTimeout, ReadReject, Stale, Updates
  <2>2. Close({c}) /\ UNCHANGED <<pool, dialed, up, send, srv>>
    BY <1>11, Zenon DEF ServerGone, HandshakeTimeout, ReadReject, Stale, Drop
  <2>3. UsesConn(Finished(pc), s) /\ Finished(pc) \in SessionRecord
    BY <2>1, FinishedRecord, FinishedUses
  <2>. QED  BY <1>1, <2>1, <2>2, <2>3, HandStep, Zenon
<1>. QED  BY <1>5, <1>6, <1>7, <1>8, <1>9, <1>10, <1>11, Zenon DEF Opens

\* The steps of a session that has its tunnel.
LEMMA RelaysKeep ==
  ASSUME WInv, OInv', NEW s \in Sessions, Relays(s)
  PROVE  WInv'
<1>. DEFINE r0 == sess[s]
            c == sess[s].conn
            u == up[c]
            d == down[c]
            v == srv[c]
<1>1. /\ OInv /\ OwnerType /\ WireType /\ r0 \in SessionRecord /\ UsesConn(r0, s)
      /\ \A i \in DOMAIN pool : IsQuiet(pool[i])
  BY DEF WInv, OInv, OwnerType
<1>2. r0.pc = "relay" /\ r0.pc \in Using
  BY Zenon DEF Relays, ClientSend, ClientEnd, ClientReceive, ClientEof, ClientFails, Put, Using
<1>3. Relaying(r0, u, d, v, s)
  BY <1>1, <1>2, Zenon DEF UsesConn, Uses
<1>4. c \in Conns
  BY <1>1, <1>2, OwnedIsOpen DEF OwnedOpen
<1>5. u \in Seq(Record) /\ d \in Seq(Record) /\ v \in TaskRecord
  BY <1>1, <1>4 DEF WireType
<1>6. Served(u, v) /\ (v.pc = "closed" <=> send[c] # "open")
  BY <1>4 DEF WInv, HasTask
<1>7. Puts(up, up, c, u) /\ Puts(down, down, c, d)
  BY <1>1, <1>4, PutSame, Zenon DEF WireType
<1>8. ASSUME NEW kind \in {"data", "zero"}, NEW r \in SessionRecord, Updates(s, r), ~r0.upDone,
             r.pc = "relay", r.conn = c, r.upDone <=> kind = "zero", r.downDone = r0.downDone,
             UNCHANGED <<pool, dialed, down, srv, send>>, SendUp(c, <<Rec(kind, s)>>)
      PROVE  WInv'
  <2>. DEFINE x == IF send[c] = "open" THEN u \o <<Rec(kind, s)>> ELSE u
  <2>1. Puts(up, up', c, x)
    BY <1>8, Zenon DEF SendUp, Puts
  <2>2. Rec(kind, s) \in Record
    BY Zenon DEF Rec, Record
  <2>3. x \in Seq(Record) /\ x = IF v.pc # "closed" THEN u \o <<Rec(kind, s)>> ELSE u
    BY <1>5, <1>6, <2>2, PutProps, Zenon
  <2>. HIDE DEF x
  <2>4. Served(x, v) /\ Relaying(r, x, d, v, s)
    <3>1. r0 \in SessionRecord /\ ~r0.upDone /\ (r.upDone <=> kind = "zero") /\ r.downDone = r0.downDone
      BY <1>1, <1>8, Zenon
    <3>2. Served(u, v)
      BY <1>6
    <3>. HIDE DEF r0, u, d, v
    <3>. QED  BY <1>3, <1>5, <2>3, <3>1, <3>2, SendsUp, Zenon
  <2>5. Uses(r, x, d, v, s)
    BY <1>8, <2>4, Zenon DEF Uses
  <2>. QED  BY <1>2, <1>4, <1>5, <1>7, <1>8, <2>1, <2>3, <2>4, <2>5, SessionStep, Zenon
<1>9. CASE ClientSend(s)
  <2>. DEFINE r == [r0 EXCEPT !.sent = r0.sent + 1]
  <2>1. /\ r \in SessionRecord /\ r.pc = r0.pc /\ r.conn = c
        /\ r.upDone = r0.upDone /\ r.downDone = r0.downDone
    BY <1>1 DEF SessionRecord
  <2>2. Updates(s, r)
    BY <1>9, Zenon DEF ClientSend, Updates
  <2>. HIDE DEF r
  <2>. QED  BY <1>2, <1>8, <1>9, <2>1, <2>2 DEF ClientSend
<1>10. CASE ClientEnd(s)
  <2>. DEFINE r == [r0 EXCEPT !.upDone = TRUE]
  <2>1. /\ r \in SessionRecord /\ r.pc = r0.pc /\ r.conn = c
        /\ r.upDone /\ r.downDone = r0.downDone
    BY <1>1, Zenon DEF SessionRecord
  <2>2. Updates(s, r)
    BY <1>10, Zenon DEF ClientEnd, Updates
  <2>. HIDE DEF r
  <2>. QED  BY <1>2, <1>8, <1>10, <2>1, <2>2 DEF ClientEnd
<1>11. CASE ClientReceive(s)
  <2>. DEFINE r == [r0 EXCEPT !.downDone = (Head(d).kind = "zero")]
  <2>1. /\ Updates(s, r) /\ UNCHANGED <<pool, dialed, up, srv, send>>
        /\ ~r0.downDone /\ d # <<>> /\ Puts(down, down', c, Tail(d))
    BY <1>11, Zenon DEF ClientReceive, Updates, Puts
  <2>2. /\ r \in SessionRecord /\ r.pc = r0.pc /\ r.conn = c
        /\ r.upDone = r0.upDone /\ (r.downDone <=> Head(d).kind = "zero")
    BY <1>1, Zenon DEF SessionRecord
  <2>. HIDE DEF r
  <2>3. Tail(d) \in Seq(Record)
    BY <1>5, <2>1, TailOf, Zenon
  <2>4. Relaying(r, u, Tail(d), v, s)
    BY <1>1, <1>3, <1>5, <2>1, <2>2, Receives, Zenon
  <2>5. Uses(r, u, Tail(d), v, s)
    BY <1>2, <2>2, <2>4, Zenon DEF Uses
  <2>. QED  BY <1>2, <1>4, <1>5, <1>6, <1>7, <2>1, <2>2, <2>3, <2>5, SessionStep, Zenon
<1>12. CASE ClientEof(s)
  <2>. DEFINE r == [r0 EXCEPT !.downDone = TRUE]
  <2>1. /\ Updates(s, r) /\ UNCHANGED <<pool, dialed, up, down, srv, send>>
        /\ d = <<>> /\ send[c] = "eof"
    BY <1>12, Zenon DEF ClientEof, Updates
  <2>2. r \in SessionRecord /\ r.pc = r0.pc /\ r.conn = c /\ r.upDone = r0.upDone /\ r.downDone
    BY <1>1, Zenon DEF SessionRecord
  <2>. HIDE DEF r
  <2>3. v.pc = "closed"
    BY <1>6, <2>1, Zenon
  <2>4. Relaying(r, u, d, v, s)
    BY <1>1, <1>3, <1>5, <2>1, <2>2, <2>3, FindsEnd, Zenon
  <2>5. Uses(r, u, d, v, s)
    BY <1>2, <2>2, <2>4, Zenon DEF Uses
  <2>. QED  BY <1>2, <1>4, <1>5, <1>6, <1>7, <2>1, <2>2, <2>5, SessionStep, Zenon
<1>13. CASE ClientFails(s)
  <2>1. /\ Updates(s, Finished("failed")) /\ Close({c}) /\ UNCHANGED <<pool, dialed, up, send, srv>>
    BY <1>13, Zenon DEF ClientFails, Drop, Updates
  <2>. QED  BY <1>1, <2>1, FinishedRecord, FinishedUses, HandStep
<1>14. CASE Put(s)
  <2>1. Updates(s, Finished("ok")) /\ UNCHANGED <<dialed, up, send, srv>> /\ r0.upDone /\ r0.downDone
    BY <1>14, Zenon DEF Put, Updates
  <2>2. CASE SocketDead(c) \/ Len(pool) >= MaxSize
    <3>1. Close({c}) /\ pool' = pool
      BY <1>14, <2>2, Zenon DEF Put, Drop
    <3>. QED  BY <1>1, <2>1, <3>1, FinishedRecord, FinishedUses, HandStep
  <2>3. CASE ~(SocketDead(c) \/ Len(pool) >= MaxSize)
    <3>1. pool' = Append(pool, c) /\ UNCHANGED down
      BY <1>14, <2>3, Zenon DEF Put
    <3>2. IsQuiet(c)
      BY <1>1, <1>3, <1>5, <1>6, <2>1, LeavesQuiet, Zenon DEF IsQuiet
    <3>3. pool \in Seq(Conns)
      <4>1. pool \in Seq(dialed) /\ dialed \subseteq Conns
        BY <1>1, Zenon DEF OwnerType
      <4>. QED  BY <4>1
    <3>4. \A i \in DOMAIN pool' : pool'[i] = c \/ (i \in DOMAIN pool /\ pool'[i] = pool[i])
      <4>1. c \in Conns
        BY <1>4
      <4>2. /\ Len(pool') = Len(pool) + 1 /\ \A i \in 1..Len(pool) : pool'[i] = pool[i]
            /\ pool'[Len(pool) + 1] = c /\ DOMAIN pool = 1..Len(pool) /\ DOMAIN pool' = 1..Len(pool')
            /\ Len(pool) \in Nat
        BY <3>1, <3>3, <4>1
      <4>3. \A i \in 1..Len(pool) + 1 : i \in 1..Len(pool) \/ i = Len(pool) + 1
        BY <4>2
      <4>. QED  BY <4>2, <4>3, Zenon
    <3>5. \A i \in DOMAIN pool' : IsQuiet(pool'[i])
      BY <1>1, <3>2, <3>4, Zenon
    <3>. QED  BY <2>1, <3>1, <3>5, FinishedRecord, FinishedUses, HandStep, Zenon
  <2>. QED  BY <2>2, <2>3
<1>. QED  BY <1>9, <1>10, <1>11, <1>12, <1>13, <1>14 DEF Relays

\* Answers, from the reader's side.
LEMMA AnswersTo ==
  ASSUME NEW d \in Seq(Record), NEW s, NEW first, Answers(d, s, first)
  PROVE  (\A i \in DOMAIN d : d[i].s = s) /\ (d # <<>> => Head(d).kind \in first)
BY DEF Answers

\* At first nothing is on the wire.
LEMMA WiresAtFirst == Init => WInv
<1>. SUFFICES ASSUME Init  PROVE WInv
  OBVIOUS
<1>1. OInv
  BY OwnersAtFirst, Zenon
<1>2. NewTask \in TaskRecord /\ NewTask.pc = "request" /\ <<>> \in Seq(Record) /\ Len(<<>>) = 0
  BY DEF NewTask, TaskRecord
<1>3. WireType
  BY <1>2, Zenon DEF Init, WireType
<1>4. \A c \in Conns : HasTask(c)
  BY <1>2 DEF Init, HasTask, Served
<1>5. \A i \in DOMAIN pool : IsQuiet(pool[i])
  BY DEF Init
<1>6. \A s \in Sessions : UsesConn(sess[s], s)
  <2>1. NewSession.pc \notin Using /\ ~NewSession.upDone /\ ~NewSession.downDone
    BY DEF NewSession, Using
  <2>2. \A s \in Sessions : sess[s] = NewSession
    BY DEF Init
  <2>. QED  BY <2>1, <2>2, UsesNone, Zenon DEF UsesConn
<1>. QED  BY <1>1, <1>3, <1>4, <1>5, <1>6 DEF WInv

\* Every step of Reuse keeps what is on the wire and who uses it consistent.
LEMMA WiresPreserved == WInv /\ [Next]_vars => WInv'
<1>. SUFFICES ASSUME WInv, [Next]_vars  PROVE WInv'
  OBVIOUS
<1>1. OInv'
  BY OwnersPreserved DEF WInv
<1>2. CASE \E s \in Sessions : Opens(s) \/ Relays(s)
  BY <1>1, <1>2, OpensKeep, RelaysKeep
<1>3. CASE \E c \in Conns : Serves(c)
  BY <1>1, <1>3, ServesKeep
<1>4. CASE Expire
  <2>1. PICK n \in 1..Len(pool) : Close(Range(Idle(n))) /\ Removes(n)
    BY <1>4, Zenon DEF Expire, Removes
  <2>2. Len(pool) \in Nat /\ down \in [Conns -> Seq(Record)] /\ n \in 0..Len(pool)
    <3>1. pool \in Seq(dialed) /\ down \in [Conns -> Seq(Record)]
      BY Zenon DEF WInv, OInv, OwnerType, WireType
    <3>. QED  BY <3>1
  <2>3. \A k \in DOMAIN pool' : IsQuiet(pool'[k])
    BY <2>1, <2>2, TailIsQuiet
  <2>4. UNCHANGED <<sess, dialed, up, send, srv>>
    BY <1>4 DEF Expire
  <2>. DEFINE cs == Range(Idle(n))
  <2>5. Close(cs)
    BY <2>1
  <2>. HIDE DEF cs
  <2>6. /\ down' \in [Conns -> Seq(Record)]
        /\ \A c \in Conns : /\ c \in cs => cend'[c] = "closed" /\ down'[c] = <<>>
                            /\ c \notin cs => down'[c] = down[c]
    BY <2>2, <2>5 DEF Close
  <2>7. \A s \in Sessions : UsesConn(sess'[s], s)
    BY <2>4 DEF WInv
  <2>. QED  BY <1>1, <2>3, <2>4, <2>6, <2>7, OwnersStep, Zenon
<1>5. CASE UNCHANGED vars
  <2>1. UNCHANGED <<sess, pool, dialed, up, down, send, srv>>
    BY <1>5 DEF vars
  <2>2. \A k \in DOMAIN pool' : IsQuiet(pool'[k])
    BY <2>1 DEF WInv
  <2>3. \A s \in Sessions : UsesConn(sess'[s], s)
    BY <2>1, Zenon DEF WInv
  <2>. DEFINE cs == {}
  <2>4. /\ down' \in [Conns -> Seq(Record)] /\ dialed \subseteq dialed'
        /\ \A c \in Conns : /\ c \in cs => cend'[c] = "closed" /\ down'[c] = <<>>
                            /\ c \notin cs => down'[c] = down[c]
    BY <2>1, Zenon DEF WInv, WireType
  <2>. HIDE DEF cs
  <2>. QED  BY <1>1, <2>1, <2>2, <2>3, <2>4, OwnersStep, Zenon
<1>. QED  BY <1>2, <1>3, <1>4, <1>5 DEF Next

\* An idle connection is quiet (relay, which returns after both zero chunks, and
\* put): nothing has come on it that a session did not read, and the server's
\* task has sent its own zero chunk, waits for a request or is gone, for any
\* number of sessions, connections and records.
THEOREM PooledConnectionsAreQuiet == Spec => []PooledIsQuiet
<1>1. WInv => PooledIsQuiet
  <2>. SUFFICES ASSUME WInv, NEW i \in DOMAIN pool
                PROVE  /\ down[pool[i]] = <<>>
                       /\ srv[pool[i]].pc \in {"request", "closed"} \/ srv[pool[i]].downDone
    BY Zenon DEF PooledIsQuiet
  <2>1. IsQuiet(pool[i]) /\ OInv /\ WireType
    BY Zenon DEF WInv
  <2>2. pool[i] \in Conns
    BY <2>1, OwnedIsOpen, Zenon DEF OwnedOpen
  <2>3. srv[pool[i]] \in TaskRecord
    BY <2>1, <2>2, Zenon DEF WireType
  <2>. QED  BY <2>1, <2>3, Zenon DEF IsQuiet, Quiet, Over, Silent, TaskRecord
<1>. QED  BY <1>1, WiresAtFirst, WiresPreserved, PTL DEF Spec

\* No session reads what was meant for an earlier user of its connection, and the
\* server finds a request where it waits for one (server_session) and forwards
\* what its own session sent, for any number of sessions, connections and
\* records and any order of their steps.
THEOREM SessionsAreIsolated == Spec => []Isolated
<1>1. WInv => Isolated
  <2>. SUFFICES ASSUME WInv  PROVE Isolated
    OBVIOUS
  <2>1. ASSUME NEW s \in Sessions, sess[s].pc \in {"opening", "relay"}
        PROVE  LET d == down[sess[s].conn]
               IN  /\ \A i \in DOMAIN d : d[i].s = s
                   /\ sess[s].pc = "opening" /\ d # <<>> => Head(d).kind \in {"tunnel", "reject", "torn"}
    <3>. DEFINE c == sess[s].conn
                d == down[c]
    <3>1. OInv /\ sess[s].pc \in Using /\ UsesConn(sess[s], s)
      BY <2>1, Zenon DEF WInv, Using
    <3>2. c \in Conns
      BY <3>1, OwnedIsOpen DEF OwnedOpen
    <3>3. d \in Seq(Record) /\ DOMAIN d = 1..Len(d)
      BY <3>2 DEF WInv, WireType
    <3>4. CASE sess[s].pc = "opening"
      <4>1. Opening(up[c], d, srv[c], s)
        BY <3>1, <3>4, Zenon DEF UsesConn, Uses
      <4>. HIDE DEF d
      <4>2. d = <<>> \/ Answers(d, s, {"tunnel", "reject", "torn"}) \/ Answers(d, s, {"tunnel"})
        BY <4>1, Zenon DEF Opening, Asked, Opened, Silent
      <4>3. (\A i \in DOMAIN d : d[i].s = s) /\ (d # <<>> => Head(d).kind \in {"tunnel", "reject", "torn"})
        <5>1. CASE d = <<>>
          BY <5>1
        <5>2. CASE Answers(d, s, {"tunnel", "reject", "torn"})
          BY <3>3, <5>2, AnswersTo, Zenon
        <5>3. CASE Answers(d, s, {"tunnel"})
          <6>1. (\A i \in DOMAIN d : d[i].s = s) /\ (d # <<>> => Head(d).kind \in {"tunnel"})
            BY <3>3, <5>3, AnswersTo, ZenonT(30)
          <6>. QED  BY <6>1, Zenon
        <5>. QED  BY <4>2, <5>1, <5>2, <5>3
      <4>. QED  BY <4>3, Zenon DEF d
    <3>5. CASE sess[s].pc = "relay"
      <4>1. Relaying(sess[s], up[c], d, srv[c], s)
        BY <3>1, <3>5, Zenon DEF UsesConn, Uses
      <4>. HIDE DEF d
      <4>2. d = <<>> \/ Answers(d, s, {"data", "zero"})
        BY <4>1, Zenon DEF Relaying, DownRelayed, Silent
      <4>3. \A i \in DOMAIN d : d[i].s = s
        <5>1. CASE d = <<>>
          BY <5>1
        <5>2. CASE Answers(d, s, {"data", "zero"})
          BY <3>3, <5>2, AnswersTo, Zenon
        <5>. QED  BY <4>2, <5>1, <5>2
      <4>. QED  BY <3>5, <4>3, Zenon DEF d
    <3>. QED  BY <2>1, <3>4, <3>5, Zenon
  <2>2. ASSUME NEW c \in Conns
        PROVE  /\ srv[c].pc = "request" /\ up[c] # <<>> => Head(up[c]).kind = "connect"
               /\ srv[c].pc = "relay" /\ ~srv[c].upDone /\ up[c] # <<>>
                    => Head(up[c]).s = srv[c].s /\ Head(up[c]).kind \in {"data", "zero"}
    <3>1. Served(up[c], srv[c]) /\ up[c] \in Seq(Record)
      BY DEF WInv, HasTask, WireType
    <3>. QED  BY <3>1, SMTT(60) DEF Served, RestOf
  <2>. QED  BY <2>1, <2>2, Zenon DEF Isolated
<1>. QED  BY <1>1, WiresAtFirst, WiresPreserved, PTL DEF Spec
=============================================================================
