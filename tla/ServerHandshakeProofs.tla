----------------------- MODULE ServerHandshakeProofs -----------------------
(***************************************************************************)
(* The handshakes of the server, for any number of connections, permits    *)
(* and streams: their permits, what a session takes over from them, and    *)
(* the salts they remember.                                                *)
(***************************************************************************)
EXTENDS ServerHandshake, TLAPS

\* A task's record has its fields; what they hold does not matter here.
IsTask(r) ==
  r = [at |-> r.at, stream |-> r.stream, got |-> r.got, flavor |-> r.flavor, cand |-> r.cand]

AreTasks(f) == f = [c \in Conns |-> f[c]] /\ \A c \in Conns : IsTask(f[c])

HInv == AreTasks(conn) /\ PermitsExact

\* Everything but the task of c is as in f.
Others(f, g, c) == AreTasks(g) /\ \A x \in Conns \ {c} : g[x] = f[x]

\* The ways in which an action changes the record of one task.
Replaces(f, g, c, r) == g = [f EXCEPT ![c] = r]
Moves(f, g, c, v) == g = [f EXCEPT ![c].at = v]
Keeps(f, g, c) ==
  \E v, d :
    \/ g = [f EXCEPT ![c].stream = v] \/ g = [f EXCEPT ![c].got = v]
    \/ g = [f EXCEPT ![c].flavor = v] \/ g = [f EXCEPT ![c].cand[d] = v]

\* Replacing the record of one task.
LEMMA SetTask ==
  ASSUME NEW f, AreTasks(f), NEW c \in Conns, NEW r, IsTask(r),
         NEW g, Replaces(f, g, c, r)
  PROVE  Others(f, g, c) /\ g[c] = r
<1>1. g = [x \in Conns |-> IF x = c THEN r ELSE f[x]]
  BY DEF AreTasks, Replaces
<1>2. \A x \in Conns : g[x] = IF x = c THEN r ELSE f[x]
  BY <1>1
<1>3. g = [x \in Conns |-> g[x]]
  BY <1>1
<1>. QED  BY <1>2, <1>3 DEF AreTasks, Others

\* Moving one task.
LEMMA SetAt ==
  ASSUME NEW f, AreTasks(f), NEW c \in Conns, NEW v, NEW g, Moves(f, g, c, v)
  PROVE  Others(f, g, c) /\ g[c].at = v
<1>. DEFINE r == [f[c] EXCEPT !.at = v]
<1>1. Replaces(f, g, c, r)
  BY DEF Replaces, Moves
<1>2. IsTask(r) /\ r.at = v
  BY DEF AreTasks, IsTask
<1>. HIDE DEF r
<1>. QED  BY <1>1, <1>2, SetTask

\* Changing what else a task's record holds.
LEMMA SetOther ==
  ASSUME NEW f, AreTasks(f), NEW c \in Conns, NEW g, Keeps(f, g, c)
  PROVE  Others(f, g, c) /\ g[c].at = f[c].at
<1>1. PICK v, d :
        \/ g = [f EXCEPT ![c].stream = v] \/ g = [f EXCEPT ![c].got = v]
        \/ g = [f EXCEPT ![c].flavor = v] \/ g = [f EXCEPT ![c].cand[d] = v]
  BY Zenon DEF Keeps
<1>2. PICK r : /\ Replaces(f, g, c, r)
               /\ \/ r = [f[c] EXCEPT !.stream = v] \/ r = [f[c] EXCEPT !.got = v]
                  \/ r = [f[c] EXCEPT !.flavor = v] \/ r = [f[c] EXCEPT !.cand[d] = v]
  BY <1>1, Zenon DEF Replaces
<1>3. IsTask(r) /\ r.at = f[c].at
  BY <1>2 DEF AreTasks, IsTask
<1>. QED  BY <1>2, <1>3, SetTask

\* Two changes of one task's record after each other.
LEMMA OthersTwice ==
  ASSUME NEW f, NEW g, NEW h, NEW c, Others(f, g, c), Others(g, h, c)
  PROVE  Others(f, h, c)
BY DEF Others
-----------------------------------------------------------------------------
(* What a connection's candidates know of its stream.                      *)

\* The tokens after the first m, up to n.
Ramp(m, n) == [i \in 1..(n - m) |-> m + i]

\* The last token of the records that k has opened.
Base(k, s) == IF k.opened = 0 THEN 0 ELSE s.ends[k.opened]

\* A candidate of the protocol of s has in its buffer what it was fed and has not
\* opened, and never fails on a valid request.
Right(k, s) ==
  /\ k.opened <= Len(s.ends) /\ Base(k, s) <= k.fed
  /\ k.recv = Ramp(Base(k, s), k.fed)
  /\ s.reqs > 0 => k.state # "Invalid"
  /\ k.state = "Match" => s.reqs > 0 /\ k.opened >= s.reqs

\* A candidate of the other protocol never opens a record.
Wrong(k) == k.opened = 0 /\ k.state # "Match"

IsCandidate(k) ==
  /\ k = [fed |-> k.fed, recv |-> k.recv, opened |-> k.opened, state |-> k.state]
  /\ k.fed \in Nat /\ k.opened \in Nat

Good(k, d, s) == IsCandidate(k) /\ IF d = s.kind THEN Right(k, s) ELSE Wrong(k)

\* The record of a task.
Sane(r) ==
  /\ r.got \in Nat /\ r.cand = [d \in Flavors |-> r.cand[d]]
  /\ r.at \in {"new", "closed"} => r.got = 0 /\ \A d \in Flavors : r.cand[d] = NewCandidate
  /\ r.at \notin {"new", "closed"} =>
       /\ r.stream \in Streams
       /\ \A d \in Flavors : Good(r.cand[d], d, r.stream) /\ r.cand[d].fed <= r.got
  /\ r.at \in {"exact", "drain", "derive", "session"} =>
       r.flavor \in Flavors /\ r.cand[r.flavor].fed = r.got
  /\ r.at \in {"drain", "derive", "session"} => r.cand[r.flavor].state = "Match"
  /\ r.at \in {"v6", "decide"} => r.cand["v4"].fed = r.got
  /\ r.at = "decide" => r.cand["v6"].fed = r.got

\* A task whose salt has been checked, and remembered.
Holds(r) ==
  /\ r.flavor = "v6"
  /\ \/ r.at \in {"drain", "derive", "session"}
     \/ r.at = "exact" /\ r.cand["v6"].opened > 0

SInv ==
  /\ config.selection \in {"auto", "v4", "v6"}
  /\ \A c \in Conns :
       /\ Sane(conn[c])
       /\ Holds(conn[c]) => conn[c].stream.salt \in replayed
       /\ \A x \in Conns \ {c} :
            Holds(conn[c]) /\ Holds(conn[x]) => conn[c].stream.salt # conn[x].stream.salt

LEMMA RampSeq ==
  ASSUME NEW m \in Nat, NEW n \in Nat, m <= n
  PROVE  /\ Ramp(m, n) \in Seq(Nat) /\ Len(Ramp(m, n)) = n - m
         /\ DOMAIN Ramp(m, n) = 1..(n - m)
         /\ \A i \in 1..(n - m) : Ramp(m, n)[i] = m + i
<1>1. n - m \in Nat
  OBVIOUS
<1>. QED  BY <1>1 DEF Ramp

LEMMA RampCat ==
  ASSUME NEW l \in Nat, NEW m \in Nat, NEW n \in Nat, l <= m, m <= n
  PROVE  Ramp(l, m) \o Ramp(m, n) = Ramp(l, n)
<1>. DEFINE a == Ramp(l, m)
            b == Ramp(m, n)
            s == a \o b
<1>1. a \in Seq(Nat) /\ Len(a) = m - l /\ \A i \in 1..(m - l) : a[i] = l + i
  BY RampSeq
<1>2. b \in Seq(Nat) /\ Len(b) = n - m /\ \A i \in 1..(n - m) : b[i] = m + i
  BY RampSeq
<1>. HIDE DEF a, b
<1>3. s \in Seq(Nat) /\ Len(s) = (m - l) + (n - m)
  BY <1>1, <1>2
<1>4. \A i \in 1..((m - l) + (n - m)) : s[i] = IF i <= m - l THEN a[i] ELSE b[i - (m - l)]
  BY <1>1, <1>2, SMTT(60)
<1>. HIDE DEF s
<1>5. (m - l) + (n - m) = n - l
  OBVIOUS
<1>6. s = [i \in 1..(n - l) |-> s[i]]
  BY <1>3, <1>5
<1>7. \A i \in 1..(n - l) : s[i] = l + i
  BY <1>1, <1>2, <1>4, <1>5
<1>8. s = [i \in 1..(n - l) |-> l + i]
  BY <1>6, <1>7
<1>. QED  BY <1>8 DEF Ramp, a, b, s

LEMMA RampCut ==
  ASSUME NEW l \in Nat, NEW m \in Nat, NEW n \in Nat, l <= m, m <= n
  PROVE  SubSeq(Ramp(l, n), m - l + 1, Len(Ramp(l, n))) = Ramp(m, n)
<1>. DEFINE a == Ramp(l, n)
            b == Ramp(m, n)
            c == SubSeq(a, m - l + 1, n - l)
<1>1. /\ a \in Seq(Nat) /\ Len(a) = n - l /\ \A i \in 1..(n - l) : a[i] = l + i
      /\ b = [i \in 1..(n - m) |-> m + i]
  <2>1. l <= n
    OBVIOUS
  <2>. QED  BY <2>1, RampSeq DEF Ramp
<1>. HIDE DEF a, b
<1>2. c \in Seq(Nat) /\ Len(c) = n - m /\ \A i \in 1..(n - m) : c[i] = m + i
  BY <1>1
<1>. HIDE DEF c
<1>3. c = b
  <2>1. c = [i \in 1..(n - m) |-> c[i]]
    BY <1>2
  <2>. QED  BY <1>1, <1>2, <2>1
<1>. QED  BY <1>1, <1>3 DEF a, b, c

LEMMA StreamEnds ==
  ASSUME NEW s \in Streams, NEW n \in Nat, n + 1 <= Len(s.ends)
  PROVE  /\ s.ends[n + 1] \in Nat
         /\ n > 0 => s.ends[n] \in Nat /\ s.ends[n] < s.ends[n + 1]
<1>1. s.ends \in Seq(Nat \ {0}) /\ \A i \in 1..(Len(s.ends) - 1) : s.ends[i] < s.ends[i + 1]
  BY StreamsAssumption
<1>2. n + 1 \in 1..Len(s.ends) /\ (n > 0 => n \in 1..Len(s.ends) /\ n \in 1..(Len(s.ends) - 1))
  BY <1>1
<1>. QED  BY <1>1, <1>2

LEMMA BaseNat ==
  ASSUME NEW s \in Streams, NEW k, IsCandidate(k), k.opened <= Len(s.ends)
  PROVE  Base(k, s) \in Nat
<1>1. s.ends \in Seq(Nat \ {0})
  BY StreamsAssumption
<1>2. k.opened \in Nat
  BY DEF IsCandidate
<1>. QED  BY <1>1, <1>2 DEF Base

LEMMA NewGood ==
  ASSUME NEW s \in Streams, NEW d
  PROVE  Good(NewCandidate, d, s) /\ NewCandidate.fed = 0
<1>1. IsCandidate(NewCandidate) /\ NewCandidate.fed = 0 /\ NewCandidate.opened = 0
      /\ NewCandidate.recv = <<>> /\ NewCandidate.state = "NeedMore"
  BY DEF NewCandidate, IsCandidate
<1>2. s.ends \in Seq(Nat \ {0})
  BY StreamsAssumption
<1>3. Ramp(0, 0) = <<>>
  BY DEF Ramp
<1>4. Right(NewCandidate, s)
  BY <1>1, <1>2, <1>3 DEF Right, Base
<1>. QED  BY <1>1, <1>4 DEF Good, Wrong

\* Feeding a candidate.
LEMMA FedGood ==
  ASSUME NEW s \in Streams, NEW d, NEW k, Good(k, d, s), NEW n \in Nat, k.fed <= n
  PROVE  /\ Good(Fed(k, n), d, s) /\ Fed(k, n).fed = n
         /\ Fed(k, n).opened = k.opened /\ Fed(k, n).state = k.state
<1>. DEFINE f == Fed(k, n)
<1>1. /\ k = [fed |-> k.fed, recv |-> k.recv, opened |-> k.opened, state |-> k.state]
      /\ k.fed \in Nat /\ k.opened \in Nat
  BY DEF Good, IsCandidate
<1>2. f = [fed |-> n, recv |-> k.recv \o Ramp(k.fed, n), opened |-> k.opened, state |-> k.state]
  <2>. DEFINE q == k.recv \o Ramp(k.fed, n)
  <2>1. f = [k EXCEPT !.recv = q, !.fed = n]
    BY Zenon DEF Fed, Ramp
  <2>. HIDE DEF f, q
  <2>2. f = [fed |-> n, recv |-> q, opened |-> k.opened, state |-> k.state]
    BY <1>1, <2>1, Zenon
  <2>. QED  BY <2>2 DEF q
<1>. HIDE DEF f
<1>3. /\ f.fed = n /\ f.opened = k.opened /\ f.state = k.state
      /\ f.recv = k.recv \o Ramp(k.fed, n) /\ IsCandidate(f)
  BY <1>1, <1>2 DEF IsCandidate
<1>4. Base(f, s) = Base(k, s)
  BY <1>3 DEF Base
<1>5. ASSUME Right(k, s) PROVE Right(f, s)
  <2>1. Base(k, s) \in Nat /\ Base(k, s) <= k.fed /\ k.recv = Ramp(Base(k, s), k.fed)
    BY <1>5, BaseNat DEF Right, Good
  <2>2. f.recv = Ramp(Base(k, s), n)
    <3>. DEFINE b == Base(k, s)
    <3>. HIDE DEF b
    <3>1. Ramp(b, k.fed) \o Ramp(k.fed, n) = Ramp(b, n)
      BY <1>1, <2>1, RampCat, Zenon DEF b
    <3>. QED  BY <1>3, <2>1, <3>1 DEF b
  <2>3. Base(k, s) <= n
    BY <1>1, <2>1
  <2>. QED  BY <1>3, <1>4, <1>5, <2>2, <2>3 DEF Right
<1>6. Good(f, d, s)
  BY <1>3, <1>5 DEF Good, Wrong
<1>. QED  BY <1>3, <1>6 DEF f

\* A candidate of the right protocol does not fail on what it was fed.
LEMMA NotGarbled ==
  ASSUME NEW s \in Streams, NEW k, IsCandidate(k), Right(k, s)
  PROVE  ~Garbled(k, s.kind, s)
<1>1. Base(k, s) \in Nat /\ Base(k, s) <= k.fed /\ k.recv = Ramp(Base(k, s), k.fed) /\ k.fed \in Nat
  BY BaseNat DEF Right, IsCandidate
<1>2. \A i \in DOMAIN k.recv : k.recv[i] = Base(k, s) + i
  <2>. DEFINE b == Base(k, s)
              r == Ramp(b, k.fed)
  <2>. HIDE DEF b
  <2>1. DOMAIN r = 1..(k.fed - b) /\ \A i \in 1..(k.fed - b) : r[i] = b + i
    BY <1>1, RampSeq, Zenon DEF b
  <2>. QED  BY <1>1, <2>1 DEF b
<1>. QED  BY <1>2 DEF Garbled, Base

\* o is k after its next record.
Moved(k, o, s) ==
  /\ IsCandidate(o) /\ o.opened = k.opened + 1 /\ o.fed = k.fed /\ o.opened <= Len(s.ends)
  /\ Base(o, s) <= o.fed /\ o.recv = Ramp(Base(o, s), o.fed)

\* Opening a record moves the buffer to its end.
LEMMA OpenedRight ==
  ASSUME NEW s \in Streams, NEW k, IsCandidate(k), Right(k, s), HasRecord(k, s)
  PROVE  Moved(k, Opened(k, s), s) /\ Opened(k, s).state = k.state
<1>. DEFINE o == Opened(k, s)
            b == Base(k, s)
            n == k.opened + 1
            e == s.ends[n]
<1>1. /\ k = [fed |-> k.fed, recv |-> k.recv, opened |-> k.opened, state |-> k.state]
      /\ k.fed \in Nat /\ k.opened \in Nat /\ n <= Len(s.ends)
  BY DEF IsCandidate, HasRecord
<1>2. b \in Nat /\ b <= k.fed /\ k.recv = Ramp(b, k.fed)
  BY BaseNat DEF Right
<1>3. e \in Nat /\ (k.opened > 0 => s.ends[k.opened] \in Nat /\ s.ends[k.opened] < e)
  BY <1>1, StreamEnds
<1>4. RecordStart(s, n) = b + 1 /\ b <= e
  <2>1. k.opened = 0 => RecordStart(s, n) = b + 1 /\ b = 0
    BY <1>1 DEF RecordStart, Base
  <2>2. k.opened # 0 => RecordStart(s, n) = b + 1 /\ b = s.ends[k.opened]
    BY <1>1, <1>3 DEF RecordStart, Base
  <2>. QED  BY <1>1, <1>3, <2>1, <2>2
<1>5. Len(k.recv) = k.fed - b
  BY <1>1, <1>2, RampSeq
<1>6. Len(k.recv) >= e - (b + 1) + 1
  BY <1>4 DEF HasRecord
<1>. HIDE DEF b
<1>7. e <= k.fed
  BY <1>1, <1>2, <1>3, <1>5, <1>6
<1>8. o = [fed |-> k.fed, recv |-> SubSeq(k.recv, e - (b + 1) + 2, Len(k.recv)),
           opened |-> n, state |-> k.state]
  <2>. DEFINE q == SubSeq(k.recv, e - RecordStart(s, n) + 2, Len(k.recv))
  <2>1. o = [k EXCEPT !.opened = n, !.recv = q]
    BY Zenon DEF Opened
  <2>. HIDE DEF q, o, n
  <2>2. o = [fed |-> k.fed, recv |-> q, opened |-> n, state |-> k.state]
    BY <1>1, <2>1, Zenon
  <2>. QED  BY <1>4, <2>2 DEF q
<1>. HIDE DEF o
<1>9. e - (b + 1) + 2 = e - b + 1
  BY <1>2, <1>3
<1>10. SubSeq(k.recv, e - b + 1, Len(k.recv)) = Ramp(e, k.fed)
  <2>. HIDE DEF e
  <2>1. SubSeq(Ramp(b, k.fed), e - b + 1, Len(Ramp(b, k.fed))) = Ramp(e, k.fed)
    BY <1>1, <1>2, <1>3, <1>4, <1>7, RampCut, ZenonT(60)
  <2>. QED  BY <1>2, <2>1, Zenon
<1>11. o = [fed |-> k.fed, recv |-> Ramp(e, k.fed), opened |-> n, state |-> k.state]
  BY <1>8, <1>9, <1>10, Zenon
<1>12. /\ IsCandidate(o) /\ o.opened = n /\ o.fed = k.fed /\ o.state = k.state
       /\ o.recv = Ramp(e, k.fed)
  BY <1>1, <1>11 DEF IsCandidate
<1>13. Base(o, s) = e
  BY <1>1, <1>12 DEF Base
<1>14. Moved(k, o, s)
  BY <1>1, <1>7, <1>12, <1>13 DEF Moved
<1>. QED  BY <1>12, <1>14 DEF o

\* A record is opened and parsed.
Advanced(k, s) == [Opened(k, s) EXCEPT !.state = Parsed(Opened(k, s), s)]

\* After a record the request is whole, or invalid, or goes on.
LEMMA ParsedRight ==
  ASSUME NEW s \in Streams, NEW k, IsCandidate(k), Right(k, s), HasRecord(k, s)
  PROVE  /\ IsCandidate(Advanced(k, s)) /\ Right(Advanced(k, s), s)
         /\ Advanced(k, s).fed = k.fed /\ Advanced(k, s).opened = k.opened + 1
         /\ Advanced(k, s).state = Parsed(Opened(k, s), s)
<1>. DEFINE o == Advanced(k, s)
            n == Opened(k, s)
            p == Parsed(n, s)
<1>1. Moved(k, n, s)
  BY OpenedRight
<1>2. s.reqs \in Nat
  BY StreamsAssumption
<1>3. o = [n EXCEPT !.state = p]
  BY DEF Advanced
<1>. HIDE DEF n, o
<1>4. n.opened \in Nat /\ n.opened # 0
  BY <1>1 DEF Moved, IsCandidate
<1>5. (s.reqs > 0 => p # "Invalid") /\ (p = "Match" => s.reqs > 0 /\ n.opened >= s.reqs)
  <2>1. CASE s.reqs = 0
    <3>1. p = "Invalid"
      BY <1>4, <2>1 DEF Parsed
    <3>. QED  BY <2>1, <3>1
  <2>2. CASE s.reqs # 0
    <3>1. p \in {"Match", "NeedMore"} /\ (p = "Match" => n.opened = s.reqs)
      BY <2>2, Zenon DEF Parsed
    <3>. QED  BY <1>2, <1>4, <2>2, <3>1
  <2>. QED  BY <2>1, <2>2
<1>. HIDE DEF p
<1>6. /\ IsCandidate(o) /\ o.opened = n.opened /\ o.fed = n.fed /\ o.recv = n.recv /\ o.state = p
  BY <1>1, <1>3 DEF IsCandidate, Moved
<1>7. Base(o, s) = Base(n, s)
  BY <1>6 DEF Base
<1>8. Right(o, s)
  BY <1>1, <1>5, <1>6, <1>7 DEF Right, Moved
<1>9. o.fed = k.fed /\ o.opened = k.opened + 1
  BY <1>1, <1>6 DEF Moved
<1>. QED  BY <1>6, <1>8, <1>9 DEF n, o, p

\* One turn of Candidate::decode.
LEMMA DecodedGood ==
  ASSUME NEW s \in Streams, NEW d, NEW k, Good(k, d, s), k.state = "NeedMore"
  PROVE  Good(Decoded(k, d, s), d, s) /\ Decoded(k, d, s).fed = k.fed
<1>. DEFINE o == Advanced(k, s)
            i == [k EXCEPT !.state = "Invalid"]
            x == Decoded(k, d, s)
<1>1. CASE d = s.kind
  <2>1. IsCandidate(k) /\ Right(k, s) /\ ~Garbled(k, d, s)
    BY <1>1, NotGarbled DEF Good
  <2>2. CASE HasRecord(k, s)
    <3>1. x = o
      BY <1>1, <2>1, <2>2, Zenon DEF Decoded, Advanced
    <3>2. IsCandidate(o) /\ Right(o, s) /\ o.fed = k.fed
      BY <2>1, <2>2, ParsedRight
    <3>. HIDE DEF o, x
    <3>3. Good(x, d, s) /\ x.fed = k.fed
      BY <1>1, <3>1, <3>2 DEF Good
    <3>. QED  BY <3>3 DEF x
  <2>3. CASE ~HasRecord(k, s)
    <3>1. x = k
      BY <2>1, <2>3, Zenon DEF Decoded
    <3>. QED  BY <3>1
  <2>. QED  BY <2>2, <2>3
<1>2. CASE d # s.kind
  <2>1. x \in {i, k}
    BY <1>2, Zenon DEF Decoded
  <2>2. IsCandidate(k) /\ Wrong(k)
    BY <1>2 DEF Good
  <2>3. IsCandidate(i) /\ Wrong(i) /\ i.fed = k.fed
    BY <2>2 DEF IsCandidate, Wrong
  <2>. HIDE DEF x, i
  <2>4. Good(x, d, s) /\ x.fed = k.fed
    BY <1>2, <2>1, <2>2, <2>3 DEF Good
  <2>. QED  BY <2>4 DEF x
<1>. QED  BY <1>1, <1>2
-----------------------------------------------------------------------------
(* The steps of a task.                                                    *)

\* The ways in which the record q of a task becomes r.
Carries(q, r, d, k, a, g) == r = [q EXCEPT !.cand[d] = k, !.at = a, !.got = g]
Placed(q, r, a, g, f) == r = [q EXCEPT !.at = a, !.got = g, !.flavor = f]
Serves(q, r, s, a, f) == r = [q EXCEPT !.stream = s, !.at = a, !.flavor = f]

LEMMA WithCandidate ==
  ASSUME NEW q, IsTask(q), Sane(q), NEW d \in Flavors, NEW k, NEW a, NEW g,
         NEW r, Carries(q, r, d, k, a, g)
  PROVE  /\ IsTask(r) /\ r.at = a /\ r.stream = q.stream /\ r.got = g /\ r.flavor = q.flavor
         /\ r.cand[d] = k /\ \A e \in Flavors \ {d} : r.cand[e] = q.cand[e]
         /\ r.cand = [e \in Flavors |-> r.cand[e]]
<1>1. q.cand = [e \in Flavors |-> q.cand[e]]
  BY DEF Sane
<1>2. r = [at |-> a, stream |-> q.stream, got |-> g, flavor |-> q.flavor,
           cand |-> [q.cand EXCEPT ![d] = k]]
  BY Zenon DEF IsTask, Carries
<1>3. /\ IsTask(r) /\ r.at = a /\ r.stream = q.stream /\ r.got = g /\ r.flavor = q.flavor
      /\ r.cand = [q.cand EXCEPT ![d] = k]
  BY <1>2 DEF IsTask
<1>. QED  BY <1>1, <1>3

LEMMA WithPlace ==
  ASSUME NEW q, IsTask(q), NEW a, NEW g, NEW f,
         NEW r, Placed(q, r, a, g, f)
  PROVE  /\ IsTask(r) /\ r.at = a /\ r.stream = q.stream /\ r.got = g /\ r.flavor = f
         /\ r.cand = q.cand
<1>1. r = [at |-> a, stream |-> q.stream, got |-> g, flavor |-> f, cand |-> q.cand]
  BY Zenon DEF IsTask, Placed
<1>. QED  BY <1>1 DEF IsTask

LEMMA WithStream ==
  ASSUME NEW q, IsTask(q), NEW a, NEW s, NEW f,
         NEW r, Serves(q, r, s, a, f)
  PROVE  /\ IsTask(r) /\ r.at = a /\ r.stream = s /\ r.got = q.got /\ r.flavor = f
         /\ r.cand = q.cand
<1>1. r = [at |-> a, stream |-> s, got |-> q.got, flavor |-> f, cand |-> q.cand]
  BY Zenon DEF IsTask, Serves
<1>. QED  BY <1>1 DEF IsTask

\* The task of c goes on as r. A salt it comes to hold was not remembered before.
LEMMA TaskGoes ==
  ASSUME HInv, SInv, NEW c \in Conns, NEW r, Replaces(conn, conn', c, r), IsTask(r), Sane(r),
         config' = config, replayed \subseteq replayed',
         Holds(r) => /\ r.stream.salt \in replayed'
                     /\ \/ Holds(conn[c]) /\ conn[c].stream = r.stream
                        \/ r.stream.salt \notin replayed
  PROVE  SInv'
<1>1. conn'[c] = r /\ \A x \in Conns \ {c} : conn'[x] = conn[x]
  BY SetTask DEF HInv, Others
<1>. DEFINE P(x, y) == Holds(x) /\ Holds(y) => x.stream.salt # y.stream.salt
<1>2. \A x \in Conns : Sane(conn'[x]) /\ (Holds(conn'[x]) => conn'[x].stream.salt \in replayed')
  BY <1>1 DEF SInv
<1>3. \A x \in Conns \ {c} : P(r, conn[x]) /\ P(conn[x], r)
  BY DEF SInv
<1>4. \A x, y \in Conns \ {c} : x # y => P(conn[x], conn[y])
  BY DEF SInv
<1>5. \A x, y \in Conns : x # y => P(conn'[x], conn'[y])
  <2>. HIDE DEF P
  <2>. QED  BY <1>1, <1>3, <1>4
<1>6. config'.selection \in {"auto", "v4", "v6"}
  BY DEF SInv
<1>. QED  BY <1>2, <1>5, <1>6 DEF SInv

LEMMA TaskDrops ==
  ASSUME HInv, SInv, NEW c \in Conns, Replaces(conn, conn', c, Dropped),
         config' = config, replayed \subseteq replayed'
  PROVE  SInv'
<1>. DEFINE stream == CHOOSE s \in Streams : TRUE
            cand == [d \in Flavors |-> NewCandidate]
<1>1. Waiting = [at |-> "new", stream |-> stream, got |-> 0, flavor |-> "v4", cand |-> cand]
  BY Zenon DEF Waiting
<1>2. cand = [d \in Flavors |-> cand[d]] /\ \A d \in Flavors : cand[d] = NewCandidate
  BY Zenon
<1>. HIDE DEF stream, cand
<1>3. /\ Dropped.at = "closed" /\ Dropped.got = 0 /\ Dropped.cand = cand /\ IsTask(Dropped)
  BY <1>1 DEF Dropped, IsTask
<1>4. Sane(Dropped) /\ ~Holds(Dropped)
  BY <1>2, <1>3 DEF Sane, Holds
<1>. QED  BY <1>3, <1>4, TaskGoes

LEMMA CloseKeepsSane ==
  ASSUME HInv, SInv, NEW c \in Conns, Close(c), config' = config, replayed \subseteq replayed'
  PROVE  SInv'
BY TaskDrops, Zenon DEF Close, Replaces

\* Everything about a task in its handshake or session that is needed below.
LEMMA TaskFacts ==
  ASSUME HInv, SInv, NEW c \in Conns, conn[c].at \notin {"new", "closed"}
  PROVE  /\ IsTask(conn[c]) /\ Sane(conn[c]) /\ conn[c].got \in Nat
         /\ conn[c].stream \in Streams
         /\ \A d \in Flavors : Good(conn[c].cand[d], d, conn[c].stream) /\ conn[c].cand[d].fed <= conn[c].got
BY Zenon DEF HInv, AreTasks, SInv, Sane

LEMMA AcceptKeepsSane ==
  ASSUME HInv, SInv, NEW c \in Conns, NEW s \in Streams, Accept(c, s)
  PROVE  SInv'
<1>1. config' = config /\ replayed' = replayed /\ conn[c].at = "new"
  BY DEF Accept
<1>2. CASE permits = 0
  <2>1. Replaces(conn, conn', c, Dropped)
    BY <1>2, Zenon DEF Accept, Replaces
  <2>. QED  BY <1>1, <2>1, TaskDrops
<1>3. CASE permits # 0
  <2>. DEFINE q == conn[c]
              a == IF config.selection = "auto" THEN "v4" ELSE "exact"
              f == IF config.selection = "auto" THEN q.flavor ELSE config.selection
              r == [q EXCEPT !.stream = s, !.at = a, !.flavor = f]
  <2>1. Replaces(conn, conn', c, r)
    BY <1>3, Zenon DEF Accept, Started, Replaces
  <2>2. IsTask(q) /\ Sane(q) /\ q.got = 0 /\ \A d \in Flavors : q.cand[d] = NewCandidate
    BY <1>1 DEF HInv, AreTasks, SInv, Sane
  <2>3. a \in {"v4", "exact"} /\ (a = "exact" => f \in Flavors)
    BY DEF SInv, Flavors
  <2>. HIDE DEF a, f
  <2>4. Serves(q, r, s, a, f)
    BY Zenon DEF Serves
  <2>. HIDE DEF r, q
  <2>5. /\ IsTask(r) /\ r.at = a /\ r.stream = s /\ r.got = 0 /\ r.flavor = f
        /\ r.cand = q.cand
    BY <2>2, <2>4, WithStream
  <2>6. r.cand = [d \in Flavors |-> r.cand[d]]
    BY <2>2, <2>5 DEF Sane
  <2>7. \A d \in Flavors : r.cand[d] = NewCandidate /\ Good(r.cand[d], d, r.stream) /\ r.cand[d].fed = 0
    BY <2>2, <2>5, NewGood
  <2>8. Sane(r)
    BY <2>3, <2>5, <2>6, <2>7 DEF Sane
  <2>9. ~Holds(r)
    BY <2>3, <2>5, <2>7 DEF Holds, NewCandidate, Flavors
  <2>. QED  BY <1>1, <2>1, <2>5, <2>8, <2>9, TaskGoes
<1>. QED  BY <1>2, <1>3

LEMMA AdvanceKeepsSane ==
  ASSUME HInv, SInv, NEW c \in Conns, NEW d \in Flavors, Advance(c, d)
  PROVE  SInv'
<1>. DEFINE q == conn[c]
            s == q.stream
            fed == Fed(q.cand[d], q.got)
            k == IF fed.state = "NeedMore" THEN Decoded(fed, d, s) ELSE fed
            again == k.state = "NeedMore" /\ k.opened > fed.opened
            a == CASE again -> d [] ~again /\ d = "v4" -> "v6" [] OTHER -> "decide"
            r == [q EXCEPT !.cand[d] = k, !.at = a]
<1>1. config' = config /\ replayed' = replayed /\ q.at = d /\ Replaces(conn, conn', c, r)
  BY Zenon DEF Advance, Replaces
<1>2. /\ IsTask(q) /\ Sane(q) /\ q.got \in Nat /\ s \in Streams /\ Good(q.cand[d], d, s)
      /\ q.cand[d].fed <= q.got
      /\ \A e \in Flavors : Good(q.cand[e], e, s) /\ q.cand[e].fed <= q.got
  BY <1>1, TaskFacts, Zenon DEF Flavors
<1>3. Good(fed, d, s) /\ fed.fed = q.got
  BY <1>2, FedGood
<1>. HIDE DEF fed
<1>4. Good(k, d, s) /\ k.fed = q.got
  BY <1>2, <1>3, DecodedGood
<1>5. a \in {d, "v6", "decide"} /\ (a = "v6" /\ d # "v6" => d = "v4") /\ (a = "decide" => d = "v6")
  BY DEF Flavors
<1>. HIDE DEF k, a
<1>6. Carries(q, r, d, k, a, q.got)
  BY <1>2, Zenon DEF Carries, IsTask
<1>. HIDE DEF r, q
<1>7. /\ IsTask(r) /\ r.at = a /\ r.stream = s /\ r.got = q.got
      /\ r.cand[d] = k /\ \A e \in Flavors \ {d} : r.cand[e] = q.cand[e]
      /\ r.cand = [e \in Flavors |-> r.cand[e]]
  BY <1>2, <1>6, WithCandidate
<1>8. \A e \in Flavors : Good(r.cand[e], e, s) /\ r.cand[e].fed <= q.got
  <2>. TAKE e \in Flavors
  <2>1. CASE e = d
    BY <1>2, <1>4, <1>7, <2>1
  <2>2. CASE e # d
    BY <1>2, <1>7, <2>2
  <2>. QED  BY <2>1, <2>2
<1>9. /\ r.at \in {"v6", "decide"} => r.cand["v4"].fed = r.got
      /\ r.at = "decide" => r.cand["v6"].fed = r.got
  BY <1>1, <1>2, <1>4, <1>5, <1>7 DEF Sane, Flavors
<1>10. r.at \in {"v4", "v6", "decide"}
  BY <1>5, <1>7 DEF Flavors
<1>11. Sane(r) /\ ~Holds(r)
  BY <1>2, <1>7, <1>8, <1>9, <1>10, Zenon DEF Sane, Holds
<1>. QED  BY <1>1, <1>7, <1>11, TaskGoes

\* Where a task goes to with the candidates it has.
LEMMA PlaceKeepsSane ==
  ASSUME HInv, SInv, NEW c \in Conns, conn[c].at \notin {"new", "closed"},
         NEW a, NEW g \in Nat, NEW f, conn[c].got <= g,
         NEW r, Placed(conn[c], r, a, g, f), Replaces(conn, conn', c, r),
         config' = config, replayed \subseteq replayed',
         \/ a \in {"v4", "read"}
         \/ /\ a \in {"derive", "session"} /\ f \in Flavors /\ g = conn[c].got
            /\ conn[c].cand[f].state = "Match" /\ conn[c].cand[f].fed = conn[c].got
            /\ f = "v6" => \/ Holds(conn[c])
                           \/ conn[c].stream.salt \in replayed' \ replayed
  PROVE  SInv'
<1>. DEFINE q == conn[c]
<1>1. /\ IsTask(q) /\ Sane(q) /\ q.got \in Nat /\ q.got <= g /\ q.stream \in Streams
      /\ \A e \in Flavors : Good(q.cand[e], e, q.stream) /\ q.cand[e].fed <= q.got
  BY TaskFacts
<1>2. Placed(q, r, a, g, f)
  OBVIOUS
<1>. HIDE DEF q
<1>4. /\ IsTask(r) /\ r.at = a /\ r.stream = q.stream /\ r.got = g /\ r.flavor = f
      /\ r.cand = q.cand
  BY <1>1, <1>2, WithPlace
<1>5. r.cand = [e \in Flavors |-> r.cand[e]]
  BY <1>1, <1>4 DEF Sane
<1>6. \A e \in Flavors : Good(r.cand[e], e, r.stream) /\ r.cand[e].fed <= g
  <2>1. \A e \in Flavors : q.cand[e].fed \in Nat
    BY <1>1, Zenon DEF Good, IsCandidate
  <2>. QED  BY <1>1, <1>4, <2>1
<1>7. Sane(r)
  <2>1. /\ r.at \in {"v4", "read", "derive", "session"} /\ r.got \in Nat /\ r.stream \in Streams
        /\ r.at \in {"derive", "session"} =>
             r.flavor \in Flavors /\ r.cand[r.flavor].fed = r.got /\ r.cand[r.flavor].state = "Match"
    BY <1>1, <1>4 DEF q
  <2>. QED  BY <1>4, <1>5, <1>6, <2>1 DEF Sane
<1>8. Holds(r) => /\ r.stream.salt \in replayed'
                  /\ \/ Holds(conn[c]) /\ conn[c].stream = r.stream
                     \/ r.stream.salt \notin replayed
  <2>1. Holds(conn[c]) => conn[c].stream.salt \in replayed'
    BY DEF SInv
  <2>. QED  BY <1>4, <2>1 DEF Holds, q
<1>. QED  BY <1>4, <1>7, <1>8, TaskGoes

LEMMA DecideKeepsSane ==
  ASSUME HInv, SInv, NEW c \in Conns, Decide(c)
  PROVE  SInv'
<1>. DEFINE q == conn[c]
            matches == \E d \in Flavors : Verdict(c, d) = "Match"
            salt == q.stream.salt
            f == Chosen(c)
            known == matches /\ f = "v6" /\ salt \in replayed
<1>1. /\ q.at = "decide" /\ config' = config
      /\ \/ Close(c) /\ replayed' = replayed
         \/ /\ matches /\ ~known /\ conn' = [conn EXCEPT ![c].at = "derive", ![c].flavor = f]
            /\ replayed' = IF f = "v6" THEN replayed \cup {salt} ELSE replayed
         \/ conn' = [conn EXCEPT ![c].at = "read"] /\ replayed' = replayed
  BY Zenon DEF Decide
<1>2. /\ IsTask(q) /\ Sane(q) /\ q.got \in Nat /\ q.at \notin {"new", "closed"}
      /\ q.got <= q.got
  BY <1>1, TaskFacts
<1>3. CASE Close(c) /\ replayed' = replayed
  BY <1>1, <1>3, CloseKeepsSane
<1>4. CASE /\ matches /\ ~known /\ conn' = [conn EXCEPT ![c].at = "derive", ![c].flavor = f]
           /\ replayed' = IF f = "v6" THEN replayed \cup {salt} ELSE replayed
  <2>1. f \in Flavors /\ q.cand[f].state = "Match"
    BY <1>4, Zenon DEF Chosen, Verdict
  <2>2. q.cand[f].fed = q.got
    BY <1>1, <1>2, <2>1 DEF Sane, Flavors
  <2>. DEFINE r == [q EXCEPT !.at = "derive", !.flavor = f]
  <2>3. Replaces(conn, conn', c, r)
    BY <1>4, Zenon DEF Replaces
  <2>4. /\ replayed \subseteq replayed'
        /\ f = "v6" => salt \in replayed' \ replayed
    BY <1>4
  <2>5. Placed(q, r, "derive", q.got, f)
    <3>. HIDE DEF q, f
    <3>. QED  BY <1>2, Zenon DEF Placed, IsTask
  <2>. HIDE DEF f, r
  <2>. QED  BY <1>1, <1>2, <2>1, <2>2, <2>3, <2>4, <2>5, PlaceKeepsSane, Zenon
<1>5. CASE conn' = [conn EXCEPT ![c].at = "read"] /\ replayed' = replayed
  <2>. DEFINE r == [q EXCEPT !.at = "read"]
  <2>1. Replaces(conn, conn', c, r)
    BY <1>5, Zenon DEF Replaces
  <2>2. Placed(q, r, "read", q.got, q.flavor)
    <3>. HIDE DEF q
    <3>. QED  BY <1>2, Zenon DEF Placed, IsTask
  <2>. HIDE DEF r
  <2>. QED  BY <1>1, <1>2, <1>5, <2>1, <2>2, PlaceKeepsSane, Zenon
<1>. QED  BY <1>1, <1>3, <1>4, <1>5

LEMMA ReadPrefixKeepsSane ==
  ASSUME HInv, SInv, NEW c \in Conns, NEW n \in Nat, ReadPrefix(c, n)
  PROVE  SInv'
<1>. DEFINE q == conn[c]
            g == q.got + n
            r == [q EXCEPT !.got = g, !.at = "v4"]
<1>1. q.at = "read" /\ config' = config /\ replayed' = replayed /\ Replaces(conn, conn', c, r)
  BY Zenon DEF ReadPrefix, Replaces
<1>2. IsTask(q) /\ q.got \in Nat /\ q.at \notin {"new", "closed"}
  BY <1>1, TaskFacts
<1>3. g \in Nat /\ q.got <= g
  BY <1>2
<1>. HIDE DEF g
<1>4. Placed(q, r, "v4", g, q.flavor)
  <2>. HIDE DEF q
  <2>. QED  BY <1>2, Zenon DEF Placed, IsTask
<1>. HIDE DEF r
<1>. QED  BY <1>1, <1>2, <1>3, <1>4, PlaceKeepsSane, Zenon

\* A task at an exact protocol's decoder goes on with the candidate k.
LEMMA CandidateKeepsSane ==
  ASSUME HInv, SInv, NEW c \in Conns, conn[c].at \in {"exact", "drain"},
         NEW a \in {"exact", "drain", "derive"}, NEW g \in Nat, conn[c].got <= g,
         NEW d, d = conn[c].flavor, NEW k, Good(k, d, conn[c].stream), k.fed = g,
         NEW r, Carries(conn[c], r, d, k, a, g), Replaces(conn, conn', c, r),
         a # "exact" => k.state = "Match", k.opened >= conn[c].cand[d].opened,
         config' = config, replayed \subseteq replayed',
         d = "v6" /\ (a # "exact" \/ k.opened > 0) =>
           Holds(conn[c]) \/ conn[c].stream.salt \in replayed' \ replayed
  PROVE  SInv'
<1>. DEFINE q == conn[c]
<1>1. /\ IsTask(q) /\ Sane(q) /\ q.got \in Nat /\ q.stream \in Streams
      /\ \A e \in Flavors : Good(q.cand[e], e, q.stream) /\ q.cand[e].fed <= q.got
  BY TaskFacts
<1>2. d \in Flavors /\ q.at \in {"exact", "drain"} /\ q.got <= g /\ d = q.flavor
  BY <1>1, Zenon DEF Sane
<1>3. /\ IsTask(r) /\ r.at = a /\ r.stream = q.stream /\ r.got = g /\ r.flavor = d
      /\ r.cand[d] = k /\ \A e \in Flavors \ {d} : r.cand[e] = q.cand[e]
      /\ r.cand = [e \in Flavors |-> r.cand[e]]
  <2>1. Carries(q, r, d, k, a, g)
    OBVIOUS
  <2>. HIDE DEF q
  <2>. QED  BY <1>1, <1>2, <2>1, WithCandidate
<1>4. \A e \in Flavors : Good(r.cand[e], e, r.stream) /\ r.cand[e].fed <= g
  <2>. TAKE e \in Flavors
  <2>1. CASE e = d
    BY <1>3, <2>1
  <2>2. CASE e # d
    <3>1. Good(q.cand[e], e, q.stream) /\ q.cand[e].fed <= q.got /\ r.cand[e] = q.cand[e]
      BY <1>1, <1>3, <2>2
    <3>2. q.cand[e].fed \in Nat
      BY <3>1 DEF Good, IsCandidate
    <3>. QED  BY <1>1, <1>2, <1>3, <3>1, <3>2, SMTT(60)
  <2>. QED  BY <2>1, <2>2
<1>5. Sane(r)
  <2>1. r.cand[r.flavor].fed = r.got /\ (r.at # "exact" => r.cand[r.flavor].state = "Match")
    BY <1>3
  <2>2. r.at \in {"exact", "drain", "derive"} /\ r.got \in Nat /\ r.flavor \in Flavors /\ r.stream \in Streams
    BY <1>1, <1>2, <1>3, Zenon
  <2>. QED  BY <1>3, <1>4, <2>1, <2>2, Zenon DEF Sane
<1>6. Holds(r) => d = "v6" /\ (a # "exact" \/ k.opened > 0)
  BY <1>3 DEF Holds
<1>7. Holds(q) => q.stream.salt \in replayed'
  BY DEF SInv
<1>. QED  BY <1>3, <1>5, <1>6, <1>7, TaskGoes

\* Tokens from the socket go to the decoder.
LEMMA ReceivedKeepsSane ==
  ASSUME HInv, SInv, NEW c \in Conns, conn[c].at \in {"exact", "drain"}, NEW n \in Nat,
         conn' = Received(c, n), config' = config, replayed' = replayed
  PROVE  SInv'
<1>. DEFINE q == conn[c]
            d == q.flavor
            g == q.got + n
            k == Fed(q.cand[d], g)
            r == [q EXCEPT !.got = g, !.cand[d] = k]
<1>1. Replaces(conn, conn', c, r)
  BY Zenon DEF Received, Replaces
<1>2. /\ IsTask(q) /\ Sane(q) /\ q.got \in Nat /\ q.stream \in Streams
      /\ \A e \in Flavors : Good(q.cand[e], e, q.stream) /\ q.cand[e].fed <= q.got
  BY TaskFacts
<1>3. d \in Flavors /\ q.cand[d].fed = q.got /\ (q.at = "drain" => q.cand[d].state = "Match")
  BY <1>2, Zenon DEF Sane
<1>4. g \in Nat /\ q.got <= g
  BY <1>2
<1>. HIDE DEF g
<1>5. /\ Good(k, d, q.stream) /\ k.fed = g
      /\ k.opened = q.cand[d].opened /\ k.state = q.cand[d].state
  BY <1>2, <1>3, <1>4, FedGood
<1>. HIDE DEF k
<1>6. Carries(q, r, d, k, q.at, g)
  <2>1. IsTask(q)
    BY <1>2
  <2>. HIDE DEF q, d
  <2>. QED  BY <2>1, Zenon DEF Carries, IsTask
<1>. HIDE DEF r
<1>7. q.cand[d].opened \in Nat
  BY <1>2, <1>3, Zenon DEF Good, IsCandidate
<1>8. d = "v6" /\ (q.at # "exact" \/ k.opened > 0) => Holds(q)
  BY <1>5 DEF Holds
<1>9. /\ q.at \in {"exact", "drain", "derive"} /\ (q.at # "exact" => k.state = "Match")
      /\ k.opened >= q.cand[d].opened /\ replayed \subseteq replayed'
  <2>1. q.at # "exact" => k.state = "Match"
    BY <1>3, <1>5
  <2>2. k.opened >= q.cand[d].opened
    BY <1>5, <1>7
  <2>. QED  BY <2>1, <2>2
<1>10. d = "v6" /\ (q.at # "exact" \/ k.opened > 0) =>
         Holds(q) \/ q.stream.salt \in replayed' \ replayed
  BY <1>8
<1>. QED  BY <1>1, <1>4, <1>5, <1>6, <1>9, <1>10, CandidateKeepsSane, ZenonT(30)

\* The record opened next: the request goes on, or is whole.
LEMMA OpenKeepsSane ==
  ASSUME HInv, SInv, NEW c \in Conns, OpenExact(c)
  PROVE  SInv'
<1>. DEFINE q == conn[c]
            d == q.flavor
            s == q.stream
            check == d = "v6" /\ q.cand[d].opened = 0
            next == Opened(q.cand[d], s)
            request == Parsed(next, s)
            k == [next EXCEPT !.state = request]
            a == CASE request # "Match" -> "exact" [] request = "Match" /\ s.udp -> "derive"
                   [] OTHER -> "drain"
            r == [q EXCEPT !.cand[d] = k, !.at = a]
<1>1. /\ q.at = "exact" /\ d = s.kind /\ HasRecord(q.cand[d], s) /\ config' = config
      /\ \/ Close(c) /\ replayed' = replayed
         \/ /\ ~(check /\ s.salt \in replayed)
            /\ replayed' = IF check THEN replayed \cup {s.salt} ELSE replayed
            /\ Close(c) \/ (request # "Invalid" /\ conn' = [conn EXCEPT ![c].cand[d] = k, ![c].at = a])
  BY Zenon DEF OpenExact
<1>2. /\ IsTask(q) /\ Sane(q) /\ q.got \in Nat /\ s \in Streams
      /\ \A e \in Flavors : Good(q.cand[e], e, s) /\ q.cand[e].fed <= q.got
  BY <1>1, TaskFacts, Zenon
<1>3. d \in Flavors /\ q.cand[d].fed = q.got
  BY <1>1, <1>2, Zenon DEF Sane
<1>4. replayed \subseteq replayed'
  BY <1>1, Zenon
<1>5. CASE Close(c)
  BY <1>1, <1>4, <1>5, CloseKeepsSane
<1>6. CASE /\ ~(check /\ s.salt \in replayed)
           /\ replayed' = IF check THEN replayed \cup {s.salt} ELSE replayed
           /\ conn' = [conn EXCEPT ![c].cand[d] = k, ![c].at = a]
  <2>1. Replaces(conn, conn', c, r)
    BY <1>6, Zenon DEF Replaces
  <2>2. IsCandidate(q.cand[d]) /\ Right(q.cand[d], s)
    BY <1>1, <1>2, <1>3, Zenon DEF Good
  <2>3. /\ IsCandidate(k) /\ Right(k, s) /\ k.fed = q.cand[d].fed
        /\ k.opened = q.cand[d].opened + 1 /\ k.state = request
    <3>1. k = Advanced(q.cand[d], s)
      BY Zenon DEF Advanced
    <3>. HIDE DEF k
    <3>. QED  BY <1>1, <1>2, <2>2, <3>1, ParsedRight, Zenon
  <2>4. a \in {"exact", "drain", "derive"} /\ (a # "exact" => k.state = "Match")
    <3>1. a \in {"exact", "drain", "derive"} /\ (a # "exact" => request = "Match")
      <4>. HIDE DEF request
      <4>. QED  OBVIOUS
    <3>. QED  BY <2>3, <3>1, Zenon
  <2>. HIDE DEF k, a
  <2>5. Carries(q, r, d, k, a, q.got)
    <3>. HIDE DEF q, d
    <3>. QED  BY <1>2, Zenon DEF Carries, IsTask
  <2>. HIDE DEF r
  <2>6. q.cand[d].opened \in Nat /\ Good(k, d, s)
    BY <1>1, <2>2, <2>3, Zenon DEF Good, IsCandidate
  <2>7. d = "v6" => Holds(q) \/ s.salt \in replayed' \ replayed
    <3>1. CASE check
      BY <1>6, <3>1
    <3>2. CASE ~check
      BY <1>1, <2>6, <3>2 DEF Holds
    <3>. QED  BY <3>1, <3>2
  <2>8. k.opened >= q.cand[d].opened
    BY <2>3, <2>6
  <2>. QED  BY <1>1, <1>2, <1>3, <1>4, <2>1, <2>3, <2>4, <2>5, <2>6, <2>7, <2>8, CandidateKeepsSane, ZenonT(60)
<1>. QED  BY <1>1, <1>5, <1>6, Zenon

LEMMA DrainKeepsSane ==
  ASSUME HInv, SInv, NEW c \in Conns, DrainRecord(c)
  PROVE  SInv'
<1>. DEFINE q == conn[c]
            d == q.flavor
            s == q.stream
            k == Opened(q.cand[d], s)
            a == IF q.cand[d].opened + 1 = s.zero THEN "derive" ELSE "drain"
            r == [q EXCEPT !.cand[d] = k, !.at = a]
<1>1. /\ q.at = "drain" /\ HasRecord(q.cand[d], s) /\ config' = config /\ replayed' = replayed
      /\ Close(c) \/ conn' = [conn EXCEPT ![c].cand[d] = k, ![c].at = a]
  BY Zenon DEF DrainRecord
<1>2. /\ IsTask(q) /\ Sane(q) /\ q.got \in Nat /\ s \in Streams
      /\ \A e \in Flavors : Good(q.cand[e], e, s) /\ q.cand[e].fed <= q.got
  BY <1>1, TaskFacts
<1>3. d \in Flavors /\ q.cand[d].fed = q.got /\ q.cand[d].state = "Match"
  BY <1>1, <1>2, Zenon DEF Sane
<1>4. CASE Close(c)
  BY <1>1, <1>4, CloseKeepsSane
<1>5. CASE conn' = [conn EXCEPT ![c].cand[d] = k, ![c].at = a]
  <2>1. Replaces(conn, conn', c, r)
    BY <1>5, Zenon DEF Replaces
  <2>2. d = s.kind /\ IsCandidate(q.cand[d]) /\ Right(q.cand[d], s)
    BY <1>2, <1>3 DEF Good, Wrong
  <2>3. Moved(q.cand[d], k, s) /\ k.state = "Match"
    BY <1>3, <1>1, <1>2, <2>2, OpenedRight, Zenon
  <2>a. a \in {"drain", "derive"}
    OBVIOUS
  <2>. HIDE DEF k, a
  <2>4. q.cand[d].opened \in Nat /\ s.reqs \in Nat
    BY <1>2, <2>2, StreamsAssumption, Zenon DEF IsCandidate
  <2>5. Right(k, s)
    <3>1. s.reqs > 0 /\ q.cand[d].opened >= s.reqs
      BY <1>3, <2>2, Zenon DEF Right
    <3>. HIDE DEF q, d, s
    <3>. QED  BY <2>3, <2>4, <3>1 DEF Right, Moved
  <2>6. Carries(q, r, d, k, a, q.got)
    <3>. HIDE DEF q, d
    <3>. QED  BY <1>2, Zenon DEF Carries, IsTask
  <2>. HIDE DEF r
  <2>7. d = "v6" => Holds(q)
    BY <1>1 DEF Holds
  <2>8. Good(k, d, s) /\ k.opened >= q.cand[d].opened
    <3>. HIDE DEF q, d, s
    <3>1. Good(k, d, s)
      BY <2>2, <2>3, <2>5 DEF Good, Moved
    <3>. QED  BY <2>3, <2>4, <3>1 DEF Moved
  <2>9. k.fed = q.got
    BY <1>3, <2>3 DEF Moved
  <2>. QED  BY <1>1, <1>2, <2>1, <2>3, <2>a, <2>6, <2>7, <2>8, <2>9, CandidateKeepsSane
<1>. QED  BY <1>1, <1>4, <1>5

\* The response key is derived after the drain or at once, and then the session runs.
LEMMA DeriveKeepsSane ==
  ASSUME HInv, SInv, NEW c \in Conns, conn[c].at \in {"drain", "derive"}, NEW a \in {"derive", "session"},
         Moves(conn, conn', c, a), config' = config, replayed' = replayed
  PROVE  SInv'
<1>. DEFINE q == conn[c]
<1>1. /\ IsTask(q) /\ Sane(q) /\ q.got \in Nat
  BY TaskFacts
<1>. DEFINE r == [q EXCEPT !.at = a]
<1>2. Replaces(conn, conn', c, r) /\ Placed(q, r, a, q.got, q.flavor)
  <2>1. Replaces(conn, conn', c, r)
    BY Zenon DEF Replaces, Moves
  <2>2. Placed(q, r, a, q.got, q.flavor)
    <3>. HIDE DEF q
    <3>. QED  BY <1>1, Zenon DEF Placed, IsTask
  <2>. QED  BY <2>1, <2>2
<1>. HIDE DEF r
<1>3. q.flavor \in Flavors /\ q.cand[q.flavor].fed = q.got /\ q.cand[q.flavor].state = "Match"
  BY <1>1, Zenon DEF Sane
<1>4. q.flavor = "v6" => Holds(q)
  BY DEF Holds
<1>5. q.got <= q.got /\ replayed \subseteq replayed'
  BY <1>1
<1>. QED  BY <1>1, <1>2, <1>3, <1>4, <1>5, PlaceKeepsSane, ZenonT(30)

LEMMA ReadsKeepSane ==
  ASSUME HInv, SInv, NEW c \in Conns, NEW n \in Nat, ReadExact(c, n) \/ DrainRead(c, n)
  PROVE  SInv'
<1>1. CASE ReadExact(c, n)
  BY <1>1, ReceivedKeepsSane DEF ReadExact
<1>2. CASE DrainRead(c, n) /\ n # 0
  BY <1>2, ReceivedKeepsSane DEF DrainRead
<1>3. CASE DrainRead(c, n) /\ n = 0
  <2>1. conn[c].at = "drain" /\ Moves(conn, conn', c, "derive") /\ config' = config /\ replayed' = replayed
    BY <1>3 DEF DrainRead, Moves
  <2>. QED  BY <2>1, DeriveKeepsSane
<1>. QED  BY <1>1, <1>2, <1>3

LEMMA EndsKeepSane ==
  ASSUME HInv, SInv, NEW c \in Conns,
         \/ FailExact(c) \/ ReadEof(c) \/ DeriveFails(c) \/ Timeout(c)
         \/ Derive(c) \/ SessionEnds(c)
  PROVE  SInv'
<1>1. CASE FailExact(c) \/ ReadEof(c) \/ DeriveFails(c) \/ Timeout(c)
  <2>1. Close(c) /\ config' = config /\ replayed' = replayed
    BY <1>1 DEF FailExact, ReadEof, DeriveFails, Timeout
  <2>. QED  BY <2>1, CloseKeepsSane
<1>2. CASE Derive(c)
  <2>1. /\ conn[c].at = "derive" /\ Moves(conn, conn', c, "session")
        /\ config' = config /\ replayed' = replayed
    BY <1>2 DEF Derive, Moves
  <2>. QED  BY <2>1, DeriveKeepsSane
<1>3. CASE SessionEnds(c)
  <2>1. Replaces(conn, conn', c, Dropped) /\ config' = config /\ replayed' = replayed
    BY <1>3 DEF SessionEnds, Replaces
  <2>. QED  BY <2>1, TaskDrops
<1>. QED  BY <1>1, <1>2, <1>3
-----------------------------------------------------------------------------
LEMMA SaneInit == Init => SInv
<1>. SUFFICES ASSUME Init PROVE SInv
  OBVIOUS
<1>1. config.selection \in {"auto", "v4", "v6"} /\ \A c \in Conns : conn[c] = Waiting
  BY SelectionsAssumption, Zenon DEF Init
<1>. DEFINE cand == [d \in Flavors |-> NewCandidate]
<1>2. cand = [d \in Flavors |-> cand[d]] /\ \A d \in Flavors : cand[d] = NewCandidate
  BY Zenon
<1>. HIDE DEF cand
<1>3. Waiting.at = "new" /\ Waiting.got = 0 /\ Waiting.cand = cand
  BY DEF Waiting, cand
<1>4. Sane(Waiting) /\ ~Holds(Waiting)
  BY <1>2, <1>3 DEF Sane, Holds
<1>. QED  BY <1>1, <1>4 DEF SInv

LEMMA SaneStep == HInv /\ SInv /\ [Next]_vars => SInv'
<1>. SUFFICES ASSUME HInv, SInv, [Next]_vars PROVE SInv'
  OBVIOUS
<1>1. CASE \E c \in Conns, s \in Streams : Accept(c, s)
  BY <1>1, AcceptKeepsSane
<1>2. CASE AcceptResource \/ Wake \/ Stop \/ UNCHANGED vars
  <2>1. UNCHANGED <<config, conn, replayed>>
    BY <1>2 DEF AcceptResource, Wake, Stop, vars
  <2>. QED  BY <2>1 DEF SInv
<1>3. ASSUME NEW c \in Conns, Runs(c) PROVE SInv'
  BY <1>3, DecideKeepsSane, DrainKeepsSane, ReadsKeepSane, EndsKeepSane, OpenKeepsSane DEF Runs
<1>4. ASSUME NEW c \in Conns, Task(c) PROVE SInv'
  <2>1. \A n \in 1..conn[c].stream.total : n \in Nat
    OBVIOUS
  <2>. QED  BY <1>4, <2>1, AdvanceKeepsSane, ReadPrefixKeepsSane, ReadsKeepSane, EndsKeepSane, Zenon DEF Task
<1>5. ASSUME NEW c \in Conns, Timeout(c) PROVE SInv'
  BY <1>5, EndsKeepSane
<1>. QED  BY <1>1, <1>2, <1>3, <1>4, <1>5 DEF Next

LEMMA SaneHandsOver == SInv => Handoff
<1>. SUFFICES ASSUME SInv, NEW c \in Conns
              PROVE  LET s == conn[c].stream
                         k == conn[c].cand[s.kind]
                     IN  /\ conn[c].at = "session" =>
                              /\ conn[c].flavor = s.kind /\ s.reqs > 0 /\ k.opened >= s.reqs
                              /\ k.recv = [i \in 1..(conn[c].got - s.ends[k.opened]) |-> s.ends[k.opened] + i]
                         /\ s.kind \in Flavors /\ s.reqs > 0 => k.state # "Invalid"
  BY Zenon DEF Handoff
<1>. DEFINE q == conn[c]
            s == q.stream
            k == q.cand[s.kind]
<1>1. Sane(q)
  BY DEF SInv
<1>. HIDE DEF q
<1>2. s.kind \in Flavors /\ s.reqs > 0 => k.state # "Invalid"
  <2>1. CASE q.at \in {"new", "closed"}
    <3>1. s.kind \in Flavors => k = NewCandidate
      BY <1>1, <2>1 DEF Sane
    <3>. QED  BY <3>1 DEF NewCandidate
  <2>2. CASE q.at \notin {"new", "closed"}
    <3>1. s.kind \in Flavors => Good(k, s.kind, s)
      BY <1>1, <2>2 DEF Sane
    <3>. QED  BY <3>1 DEF Good, Right
  <2>. QED  BY <2>1, <2>2
<1>3. ASSUME q.at = "session"
      PROVE  /\ q.flavor = s.kind /\ s.reqs > 0 /\ k.opened >= s.reqs
             /\ k.recv = [i \in 1..(q.got - s.ends[k.opened]) |-> s.ends[k.opened] + i]
  <2>1. /\ q.flavor \in Flavors /\ s \in Streams /\ Good(q.cand[q.flavor], q.flavor, s)
        /\ q.cand[q.flavor].state = "Match" /\ q.cand[q.flavor].fed = q.got
    BY <1>1, <1>3 DEF Sane
  <2>2. q.flavor = s.kind
    BY <2>1 DEF Good, Wrong
  <2>3. IsCandidate(k) /\ Right(k, s) /\ k.state = "Match" /\ k.fed = q.got
    BY <2>1, <2>2 DEF Good
  <2>. HIDE DEF k
  <2>4. s.reqs > 0 /\ k.opened >= s.reqs /\ k.recv = Ramp(Base(k, s), q.got)
    BY <2>3 DEF Right
  <2>5. k.opened # 0
    BY <2>1, <2>3, <2>4, StreamsAssumption DEF IsCandidate
  <2>6. Base(k, s) = s.ends[k.opened]
    BY <2>5 DEF Base
  <2>7. k.recv = [i \in 1..(q.got - s.ends[k.opened]) |-> s.ends[k.opened] + i]
    BY <2>4, <2>6, Zenon DEF Ramp
  <2>. QED  BY <2>2, <2>4, <2>7
<1>. QED  BY <1>2, <1>3, Zenon DEF q
-----------------------------------------------------------------------------
(* The permits.                                                            *)

INSTANCE FiniteSetTheorems

\* The tasks that hold a permit are finitely many, with one more or one less too.
LEMMA HoldersCount ==
  /\ IsFiniteSet(Handshaking) /\ Cardinality(Handshaking) \in Nat
  /\ \A c \in Conns :
       /\ c \notin Handshaking
            => Cardinality(Handshaking \cup {c}) = Cardinality(Handshaking) + 1
       /\ c \in Handshaking
            => Cardinality(Handshaking \ {c}) = Cardinality(Handshaking) - 1
<1>1. Handshaking \subseteq Conns
  BY DEF Handshaking
<1>2. IsFiniteSet(Handshaking)
  BY <1>1, ConnsAssumption, FS_Subset
<1>3. Cardinality(Handshaking) \in Nat
  BY <1>2, FS_CardinalityType
<1>. QED  BY <1>2, <1>3, FS_AddElement, FS_RemoveElement

\* A task that moves within the handshake, or outside it, keeps the balance.
LEMMA MovePreserves ==
  ASSUME HInv, UNCHANGED <<config, permits>>, NEW c \in Conns,
         conn[c].at \in Handshakes <=> conn'[c].at \in Handshakes,
         Others(conn, conn', c)
  PROVE  HInv'
<1>1. Handshaking' = Handshaking
  BY DEF Handshaking, Handshakes, Others
<1>2. AreTasks(conn)'
  BY DEF AreTasks, Others
<1>. QED  BY <1>1, <1>2 DEF HInv, PermitsExact

\* A handshake that ends, in a session or not, returns its permit.
LEMMA EndPreserves ==
  ASSUME HInv, config' = config, permits' = permits + 1,
         NEW c \in Conns, conn[c].at \in Handshakes, conn'[c].at \notin Handshakes,
         Others(conn, conn', c)
  PROVE  HInv'
<1>1. Handshaking' = Handshaking \ {c} /\ c \in Handshaking
  BY DEF Handshaking, Handshakes, Others
<1>2. Cardinality(Handshaking') = Cardinality(Handshaking) - 1
  BY <1>1, HoldersCount
<1>3. AreTasks(conn)'
  BY DEF AreTasks, Others
<1>. QED  BY <1>2, <1>3, HoldersCount DEF HInv, PermitsExact

\* The task of c is dropped.
LEMMA DroppedTask ==
  ASSUME HInv, NEW c \in Conns, Replaces(conn, conn', c, Dropped)
  PROVE  Others(conn, conn', c) /\ conn'[c].at = "closed"
<1>1. IsTask(Dropped) /\ Dropped.at = "closed"
  <2>. DEFINE stream == CHOOSE s \in Streams : TRUE
              cand == [d \in Flavors |-> NewCandidate]
  <2>1. Waiting = [at |-> "new", stream |-> stream, got |-> 0, flavor |-> "v4", cand |-> cand]
    BY Zenon DEF Waiting
  <2>. HIDE DEF stream, cand
  <2>2. Dropped = [at |-> "closed", stream |-> stream, got |-> 0, flavor |-> "v4", cand |-> cand]
    BY <2>1 DEF Dropped
  <2>. QED  BY <2>2 DEF IsTask
<1>2. PICK r : IsTask(r) /\ r.at = "closed" /\ Replaces(conn, conn', c, r)
  BY <1>1
<1>3. AreTasks(conn)
  BY DEF HInv
<1>4. Others(conn, conn', c) /\ conn'[c] = r
  BY <1>2, <1>3, SetTask
<1>. QED  BY <1>2, <1>4

\* Close drops the task and its permit.
LEMMA ClosePreserves ==
  ASSUME HInv, config' = config, NEW c \in Conns, conn[c].at \in Handshakes, Close(c)
  PROVE  HInv'
<1>1. conn'[c].at \notin Handshakes /\ Others(conn, conn', c) /\ permits' = permits + 1
  <2>1. Replaces(conn, conn', c, Dropped) /\ permits' = permits + 1
    BY DEF Close, Replaces
  <2>. QED  BY <2>1, DroppedTask DEF Handshakes
<1>. QED  BY <1>1, EndPreserves

\* The accept loop takes a permit for every handshake it starts.
LEMMA AcceptPreserves ==
  ASSUME HInv, NEW c \in Conns, NEW s \in Streams, Accept(c, s)
  PROVE  HInv'
<1>1. conn[c].at \notin Handshakes /\ config' = config /\ AreTasks(conn)
  BY DEF Accept, Handshakes, HInv
<1>2. CASE permits = 0
  <2>1. Replaces(conn, conn', c, Dropped) /\ permits' = permits
    BY <1>2 DEF Accept, Replaces
  <2>2. conn'[c].at \notin Handshakes /\ Others(conn, conn', c)
    BY <2>1, DroppedTask DEF Handshakes
  <2>. QED  BY <1>1, <2>1, <2>2, MovePreserves
<1>3. CASE permits # 0
  <2>1. conn' = Started(c, s) /\ permits' = permits - 1
    BY <1>3 DEF Accept
  <2>. DEFINE to == IF config.selection = "auto" THEN "v4" ELSE "exact"
              f1 == [conn EXCEPT ![c].stream = s]
              f2 == [f1 EXCEPT ![c].at = to]
              flavor == IF config.selection = "auto" THEN f2[c].flavor ELSE config.selection
  <2>2. conn' = [f2 EXCEPT ![c].flavor = flavor]
    BY <2>1, Zenon DEF Started
  <2>3. to \in Handshakes
    BY DEF Handshakes
  <2>. HIDE DEF flavor, to
  <2>4. Keeps(conn, f1, c)
    BY Zenon DEF Keeps
  <2>. HIDE DEF f1
  <2>5. Moves(f1, f2, c, to)
    BY DEF Moves
  <2>. HIDE DEF f2
  <2>6. Keeps(f2, conn', c)
    BY <2>2, Zenon DEF Keeps
  <2>7. Others(conn, f1, c) /\ AreTasks(f1)
    BY <1>1, <2>4, SetOther DEF Others
  <2>8. Others(f1, f2, c) /\ f2[c].at = to /\ AreTasks(f2)
    BY <2>5, <2>7, SetAt DEF Others
  <2>9. Others(f2, conn', c) /\ conn'[c].at = to
    BY <2>6, <2>8, SetOther
  <2>10. Others(conn, conn', c)
    BY <2>7, <2>8, <2>9, OthersTwice
  <2>11. Handshaking' = Handshaking \cup {c} /\ c \notin Handshaking
    BY <1>1, <2>3, <2>9, <2>10 DEF Handshaking, Handshakes, Others
  <2>12. Cardinality(Handshaking') = Cardinality(Handshaking) + 1
    BY <2>11, HoldersCount
  <2>13. AreTasks(conn)'
    BY <2>10 DEF AreTasks, Others
  <2>. QED  BY <1>1, <1>3, <2>1, <2>12, <2>13, HoldersCount DEF HInv, PermitsExact
<1>. QED  BY <1>2, <1>3

\* A task that moves within the handshake.
LEMMA MovesPreserves ==
  ASSUME HInv, NEW c \in Conns, UNCHANGED <<config, permits>>, NEW to,
         conn[c].at \in Handshakes, to \in Handshakes, Moves(conn, conn', c, to)
  PROVE  HInv'
<1>1. Others(conn, conn', c) /\ conn'[c].at = to
  BY SetAt DEF HInv
<1>. QED  BY <1>1, MovePreserves

\* A task whose record changes in its other fields.
LEMMA KeepsPreserves ==
  ASSUME HInv, NEW c \in Conns, UNCHANGED <<config, permits>>, Keeps(conn, conn', c)
  PROVE  HInv'
<1>1. Others(conn, conn', c) /\ conn'[c].at = conn[c].at
  BY SetOther DEF HInv
<1>. QED  BY <1>1, MovePreserves

\* A task that moves within the handshake with such a change in front or behind.
LEMMA TwoPreserve ==
  ASSUME HInv, NEW c \in Conns, UNCHANGED <<config, permits>>, NEW to, NEW f,
         conn[c].at \in Handshakes, to \in Handshakes,
         \/ Keeps(conn, f, c) /\ Moves(f, conn', c, to)
         \/ Moves(conn, f, c, to) /\ Keeps(f, conn', c)
         \/ Keeps(conn, f, c) /\ Keeps(f, conn', c)
  PROVE  HInv'
<1>1. AreTasks(conn)
  BY DEF HInv
<1>2. CASE Keeps(conn, f, c)
  <2>1. Others(conn, f, c) /\ AreTasks(f) /\ f[c].at = conn[c].at
    BY <1>1, <1>2, SetOther DEF Others
  <2>2. CASE Moves(f, conn', c, to)
    <3>1. Others(f, conn', c) /\ conn'[c].at = to
      BY <2>1, <2>2, SetAt
    <3>. QED  BY <2>1, <3>1, OthersTwice, MovePreserves
  <2>3. CASE Keeps(f, conn', c)
    <3>1. Others(f, conn', c) /\ conn'[c].at = conn[c].at
      BY <2>1, <2>3, SetOther
    <3>. QED  BY <2>1, <3>1, OthersTwice, MovePreserves
  <2>4. CASE Moves(conn, f, c, to) /\ Keeps(f, conn', c)
    BY <2>3, <2>4
  <2>. QED  BY <2>2, <2>3, <2>4
<1>3. CASE Moves(conn, f, c, to) /\ Keeps(f, conn', c)
  <2>1. Others(conn, f, c) /\ AreTasks(f) /\ f[c].at = to
    BY <1>1, <1>3, SetAt DEF Others
  <2>2. Others(f, conn', c) /\ conn'[c].at = to
    BY <1>3, <2>1, SetOther
  <2>. QED  BY <2>1, <2>2, OthersTwice, MovePreserves
<1>. QED  BY <1>2, <1>3

\* The end of a turn of the detection keeps the permit or drops the task.
LEMMA DecidePreserves ==
  ASSUME HInv, NEW c \in Conns, Decide(c)
  PROVE  HInv'
<1>1. conn[c].at \in Handshakes /\ config' = config /\ "derive" \in Handshakes /\ "read" \in Handshakes
  BY DEF Decide, Handshakes
<1>. DEFINE f == [conn EXCEPT ![c].at = "derive"]
<1>2. \/ Close(c)
      \/ conn' = [f EXCEPT ![c].flavor = Chosen(c)] /\ permits' = permits
      \/ Moves(conn, conn', c, "read") /\ permits' = permits
  BY DEF Decide, Moves
<1>3. Moves(conn, f, c, "derive")
  BY DEF Moves
<1>. HIDE DEF f
<1>4. CASE conn' = [f EXCEPT ![c].flavor = Chosen(c)] /\ permits' = permits
  <2>1. Keeps(f, conn', c)
    BY <1>4, Zenon DEF Keeps
  <2>. QED  BY <1>1, <1>3, <1>4, <2>1, TwoPreserve, Zenon
<1>. QED  BY <1>1, <1>2, <1>4, ClosePreserves, MovesPreserves

\* Opening a record of an exact protocol keeps the permit or drops the task.
LEMMA OpenPreserves ==
  ASSUME HInv, NEW c \in Conns, OpenExact(c)
  PROVE  HInv'
<1>1. conn[c].at = "exact" /\ conn[c].at \in Handshakes /\ config' = config
  BY Zenon DEF OpenExact, Handshakes
<1>. DEFINE d == conn[c].flavor
            next == Opened(conn[c].cand[d], conn[c].stream)
            request == Parsed(next, conn[c].stream)
            there == CASE request # "Match" -> "exact"
                       [] request = "Match" /\ conn[c].stream.udp -> "derive"
                       [] OTHER -> "drain"
            k == [next EXCEPT !.state = request]
            f == [conn EXCEPT ![c].cand[d] = k]
<1>2. Close(c) \/ (Moves(f, conn', c, there) /\ permits' = permits)
  BY Zenon DEF OpenExact, Moves
<1>3. there \in Handshakes
  BY DEF Handshakes
<1>. HIDE DEF there, k, d
<1>4. Keeps(conn, f, c)
  BY Zenon DEF Keeps
<1>. HIDE DEF f
<1>. QED  BY <1>1, <1>2, <1>3, <1>4, ClosePreserves, TwoPreserve

\* One turn of a candidate stays in the detection.
LEMMA AdvancePreserves ==
  ASSUME HInv, NEW c \in Conns, NEW d \in Flavors, Advance(c, d)
  PROVE  HInv'
<1>1. conn[c].at = d /\ d \in Handshakes /\ UNCHANGED <<config, permits>>
  BY Zenon DEF Advance, Flavors, Handshakes
<1>. DEFINE fed == Fed(conn[c].cand[d], conn[c].got)
            k == IF fed.state = "NeedMore" THEN Decoded(fed, d, conn[c].stream) ELSE fed
            again == k.state = "NeedMore" /\ k.opened > fed.opened
            to == CASE again -> d [] ~again /\ d = "v4" -> "v6" [] OTHER -> "decide"
            f == [conn EXCEPT ![c].cand[d] = k]
<1>2. Moves(f, conn', c, to)
  BY Zenon DEF Advance, Moves
<1>3. to \in Handshakes
  <2>. HIDE DEF again
  <2>. QED  BY <1>1 DEF Handshakes
<1>. HIDE DEF k, to
<1>4. Keeps(conn, f, c)
  BY Zenon DEF Keeps
<1>. HIDE DEF f
<1>. QED  BY <1>1, <1>2, <1>3, <1>4, TwoPreserve, Zenon

\* Reading changes no task's place but to go on with it.
LEMMA ReadPreserves ==
  ASSUME HInv, NEW c \in Conns, NEW n, ReadPrefix(c, n) \/ ReadExact(c, n) \/ DrainRead(c, n)
  PROVE  HInv'
<1>1. /\ conn[c].at \in Handshakes /\ UNCHANGED <<config, permits>>
      /\ "v4" \in Handshakes /\ "derive" \in Handshakes
  BY DEF ReadPrefix, ReadExact, DrainRead, Handshakes
<1>. DEFINE f == [conn EXCEPT ![c].got = conn[c].got + n]
            d == conn[c].flavor
            k == Fed(conn[c].cand[d], conn[c].got + n)
<1>2. Keeps(conn, f, c)
  BY Zenon DEF Keeps
<1>3. ReadPrefix(c, n) => Moves(f, conn', c, "v4")
  BY Zenon DEF ReadPrefix, Moves
<1>4. conn' = Received(c, n) => conn' = [f EXCEPT ![c].cand[d] = k]
  BY Zenon DEF Received
<1>. HIDE DEF f, k, d
<1>5. conn' = Received(c, n) => Keeps(f, conn', c)
  BY <1>4, Zenon DEF Keeps
<1>6. ReadExact(c, n) => conn' = Received(c, n)
  BY Zenon DEF ReadExact
<1>7. DrainRead(c, n) => conn' = Received(c, n) \/ Moves(conn, conn', c, "derive")
  BY DEF DrainRead, Moves
<1>. QED  BY <1>1, <1>2, <1>3, <1>5, <1>6, <1>7, TwoPreserve, MovesPreserves, Zenon

\* The drain stops at its limit with the task, and goes on or ends with a zero chunk.
LEMMA DrainPreserves ==
  ASSUME HInv, NEW c \in Conns, DrainRecord(c)
  PROVE  HInv'
<1>. DEFINE d == conn[c].flavor
            k == Opened(conn[c].cand[d], conn[c].stream)
            to == IF conn[c].cand[d].opened + 1 = conn[c].stream.zero THEN "derive" ELSE "drain"
            f == [conn EXCEPT ![c].cand[d] = k]
<1>1. conn[c].at \in Handshakes /\ config' = config /\ to \in Handshakes
  BY DEF DrainRecord, Handshakes
<1>2. Close(c) \/ (permits' = permits /\ Moves(f, conn', c, to))
  BY Zenon DEF DrainRecord, Moves
<1>. HIDE DEF k, to
<1>3. Keeps(conn, f, c)
  BY Zenon DEF Keeps
<1>. HIDE DEF f
<1>. QED  BY <1>1, <1>2, <1>3, ClosePreserves, TwoPreserve, Zenon

\* A task ends: in its handshake, with a session, or after it.
LEMMA EndsPreserve ==
  ASSUME HInv, NEW c \in Conns,
         \/ FailExact(c) \/ ReadEof(c) \/ DeriveFails(c) \/ Timeout(c)
         \/ Derive(c) \/ SessionEnds(c)
  PROVE  HInv'
<1>1. CASE FailExact(c) \/ ReadEof(c) \/ DeriveFails(c) \/ Timeout(c)
  <2>1. Close(c) /\ config' = config /\ conn[c].at \in Handshakes
    BY <1>1, Zenon DEF FailExact, ReadEof, DeriveFails, Timeout, Handshakes
  <2>. QED  BY <2>1, ClosePreserves
<1>2. CASE Derive(c)
  <2>1. /\ conn[c].at \in Handshakes /\ "session" \notin Handshakes /\ AreTasks(conn)
        /\ Moves(conn, conn', c, "session") /\ config' = config /\ permits' = permits + 1
    BY <1>2 DEF Derive, Handshakes, Moves, HInv
  <2>2. Others(conn, conn', c) /\ conn'[c].at = "session"
    BY <2>1, SetAt
  <2>. QED  BY <2>1, <2>2, EndPreserves
<1>3. CASE SessionEnds(c)
  <2>1. /\ conn[c].at \notin Handshakes /\ "closed" \notin Handshakes
        /\ Replaces(conn, conn', c, Dropped) /\ UNCHANGED <<config, permits>>
    BY <1>3 DEF SessionEnds, Handshakes, Replaces
  <2>2. Others(conn, conn', c) /\ conn'[c].at = "closed"
    BY <2>1, DroppedTask
  <2>. QED  BY <2>1, <2>2, MovePreserves
<1>. QED  BY <1>1, <1>2, <1>3

LEMMA PermitInit == Init => HInv
<1>. SUFFICES ASSUME Init  PROVE HInv
  OBVIOUS
<1>1. \A c \in Conns : conn[c].at = "new"
  BY DEF Init, Waiting
<1>2. Handshaking = {}
  BY <1>1 DEF Handshaking, Handshakes
<1>3. permits = config.permits /\ permits \in Nat
  BY BoundsAssumption DEF Init
<1>4. AreTasks(conn)
  <2>1. IsTask(Waiting)
    BY DEF Waiting, IsTask
  <2>. QED  BY <2>1 DEF Init, AreTasks
<1>. QED  BY <1>2, <1>3, <1>4, FS_EmptySet DEF HInv, PermitsExact

LEMMA PermitStep == HInv /\ [Next]_vars => HInv'
<1>. SUFFICES ASSUME HInv, [Next]_vars  PROVE HInv'
  OBVIOUS
<1>1. CASE \E c \in Conns, s \in Streams : Accept(c, s)
  BY <1>1, AcceptPreserves
<1>2. CASE AcceptResource \/ Wake \/ Stop \/ UNCHANGED vars
  <2>1. UNCHANGED <<config, permits, conn>>
    BY <1>2 DEF AcceptResource, Wake, Stop, vars
  <2>. QED  BY <2>1 DEF HInv, AreTasks, PermitsExact, Handshaking
<1>3. ASSUME NEW c \in Conns, Runs(c)  PROVE HInv'
  BY <1>3, DecidePreserves, DrainPreserves, ReadPreserves, EndsPreserve, OpenPreserves DEF Runs
<1>4. ASSUME NEW c \in Conns, Task(c)  PROVE HInv'
  BY <1>4, AdvancePreserves, ReadPreserves, EndsPreserve, Zenon DEF Task
<1>5. ASSUME NEW c \in Conns, Timeout(c)  PROVE HInv'
  BY <1>5, EndsPreserve
<1>. QED  BY <1>1, <1>2, <1>3, <1>4, <1>5 DEF Next
-----------------------------------------------------------------------------
\* A permit of SERVER_MAX_HANDSHAKES is out exactly for every connection that
\* is still in its handshake (serve_server, drop(handshake)), however many
\* connections, permits and streams there are and however a handshake ends.
THEOREM HandshakePermits == Safety => []PermitsExact
<1>1. HInv => PermitsExact
  BY DEF HInv
<1>. QED  BY <1>1, PermitInit, PermitStep, PTL DEF Safety

\* The session's decoder takes over every token read from the socket that is not
\* in an opened record, and the candidate of the client's protocol is not given
\* up on a valid request, for any streams, in whatever pieces they arrive
\* (Candidate::advance, read_server_connect, drain_early_payload).
THEOREM DecoderHandsOver == Safety => []Handoff
<1>1. HInv /\ SInv /\ [Next]_vars => HInv' /\ SInv'
  BY PermitStep, SaneStep
<1>. QED  BY <1>1, SaneHandsOver, PermitInit, SaneInit, PTL DEF Safety

\* A salt opens one v6 session only (replay_cache, read_server_connect and
\* detect_inner), for any number of connections, whichever way their protocol is
\* found out and however their handshakes interleave.
THEOREM SaltOpensOnce == Safety => []SaltOnce
<1>1. SInv => SaltOnce
  BY DEF SInv, SaltOnce, Holds
<1>2. HInv /\ SInv /\ [Next]_vars => HInv' /\ SInv'
  BY PermitStep, SaneStep
<1>. QED  BY <1>1, <1>2, PermitInit, SaneInit, PTL DEF Safety
=============================================================================
