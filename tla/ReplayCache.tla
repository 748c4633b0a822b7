---------------------------- MODULE ReplayCache ----------------------------
(***************************************************************************)
(* The salts a v6 server has seen (crates/snell-runtime/src/replay.rs).    *)
(* Every connection task of the multi-threaded runtime calls insert: it    *)
(* reads the clock first and takes the lock afterwards, so inserts reach   *)
(* the cache in another order than the one their times were read in.       *)
(***************************************************************************)
EXTENDS Naturals, Sequences, FiniteSets

CONSTANTS Threads,
          Salts,
          Cap,         \* capacity; the code's `cap == 0` (cache off) is never configured
          TTL,         \* seconds a salt is remembered
          MaxTime,     \* bound on the clock
          MaxAccepted  \* bound on the accepted inserts

ASSUME LimitsAssumption == Cap \in Nat \ {0} /\ TTL \in Nat \ {0}
ASSUME BoundsAssumption == MaxTime \in Nat /\ MaxAccepted \in Nat

VARIABLES clock,  \* what Instant::now returns
          calls,  \* inserts that have read the clock and wait for the lock
          order,  \* remembered salts with their times, longest first
          seen,   \* the index of order
          hist    \* history: accepted inserts, with the clock at acceptance

vars == <<clock, calls, order, seen, hist>>

Entry == [salt : Salts, at : Nat]

Init ==
  /\ clock = 0
  /\ calls = {}
  /\ order = <<>>
  /\ seen = {}
  /\ hist = <<>>

Tick ==
  /\ clock < MaxTime
  /\ clock' = clock + 1
  /\ UNCHANGED <<calls, order, seen, hist>>

\* insert, up to the lock.
ReadClock(t, salt) ==
  /\ Len(hist) + Cardinality(calls) < MaxAccepted
  /\ \A c \in calls : c.thread # t
  /\ calls' = calls \cup {[thread |-> t, salt |-> salt, at |-> clock]}
  /\ UNCHANGED <<clock, order, seen, hist>>

\* Mutant: expired one second early.
ExpiredEarly(e, now) == now + 1 >= e.at + TTL

Expired(e, now) == now >= e.at + TTL

\* The loop that pops the front while it is expired pops the first k entries.
Expires(k, now) ==
  /\ \A i \in 1..k : Expired(order[i], now)
  /\ k < Len(order) => ~Expired(order[k + 1], now)

Live(k) == SubSeq(order, k + 1, Len(order))
Index(k) == seen \ {order[i].salt : i \in 1..k}

\* insert under the lock, the salt is in the index: ReplayDuplicate.
Duplicate(c, k) ==
  /\ c.salt \in Index(k)
  /\ order' = Live(k)
  /\ seen' = Index(k)
  /\ UNCHANGED hist

\* Mutant: an evicted salt stays in the index.
AcceptKeepsIndex(c, k) ==
  /\ c.salt \notin Index(k)
  /\ order' = Append(IF Len(Live(k)) = Cap THEN Tail(Live(k)) ELSE Live(k),
                     [salt |-> c.salt, at |-> c.at])
  /\ seen' = Index(k) \cup {c.salt}
  /\ hist' = Append(hist, [salt |-> c.salt, at |-> c.at, when |-> clock])

\* insert under the lock, the salt is new: at capacity the front is evicted.
Accept(c, k) ==
  /\ c.salt \notin Index(k)
  /\ \/ /\ Len(Live(k)) = Cap
        /\ order' = Append(Tail(Live(k)), [salt |-> c.salt, at |-> c.at])
        /\ seen' = (Index(k) \cup {c.salt}) \ {Head(Live(k)).salt}
     \/ /\ Len(Live(k)) # Cap
        /\ order' = Append(Live(k), [salt |-> c.salt, at |-> c.at])
        /\ seen' = Index(k) \cup {c.salt}
  /\ hist' = Append(hist, [salt |-> c.salt, at |-> c.at, when |-> clock])

Insert(c) ==
  /\ \E k \in 0..Len(order) : Expires(k, c.at) /\ (Duplicate(c, k) \/ Accept(c, k))
  /\ calls' = calls \ {c}
  /\ UNCHANGED clock

Next ==
  \/ Tick
  \/ \E t \in Threads, salt \in Salts : ReadClock(t, salt)
  \/ \E c \in calls : Insert(c)

Spec == Init /\ [][Next]_vars
-----------------------------------------------------------------------------
\* Every variable has its type; an insert never has a time of the future.
TypeOK ==
  /\ clock \in Nat
  /\ calls \subseteq [thread : Threads, salt : Salts, at : 0..clock]
  /\ order \in Seq(Entry)
  /\ seen \subseteq Salts
  /\ hist \in Seq([salt : Salts, at : Nat, when : Nat])

\* What makes the cache a replay filter: a salt is accepted a second time only
\* TTL or more after the time of its first acceptance, or behind more than Cap
\* accepted salts; no interleaving of inserts lets it in earlier (replay.rs,
\* insert: expire, index, evict, push).
NoEarlyReplay ==
  \A i, j \in DOMAIN hist :
    i < j /\ hist[i].salt = hist[j].salt
      => hist[j].when >= hist[i].at + TTL \/ j - i > Cap

\* `seen` indexes `order`, which holds at most Cap salts and each of them once
\* (replay.rs, Inner): neither grows with the inserts, and no salt stays
\* rejected after its entry has gone.
IndexExact ==
  /\ Len(order) <= Cap
  /\ seen = {order[i].salt : i \in DOMAIN order}
  /\ \A i, j \in DOMAIN order : order[i].salt = order[j].salt => i = j
=============================================================================
