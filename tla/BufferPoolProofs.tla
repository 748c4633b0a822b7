-------------------------- MODULE BufferPoolProofs --------------------------
(***************************************************************************)
(* Storage of the buffer pool has one owner, and its bytes are counted     *)
(* once, for any number of tasks, blocks, classes and shards.              *)
(***************************************************************************)
EXTENDS BufferPool, TLAPS

\* Exclusive without what it says of shards.
AllApart ==
  /\ \A t, u \in Tasks :
       /\ Apart(lease[t].block, op[u].hand)
       /\ t # u => Apart(lease[t].block, lease[u].block) /\ Apart(op[t].hand, op[u].hand)
  /\ \A i \in Ring : \A k \in DOMAIN queues[i] :
       /\ \A t \in Tasks : Apart(queues[i][k], lease[t].block) /\ Apart(queues[i][k], op[t].hand)
       /\ \A j \in Ring : \A l \in DOMAIN queues[j] :
            (i # j \/ k # l) => Apart(queues[i][k], queues[j][l])

Queues == \E S : queues \in [Ring -> Seq(S)]

\* What tasks other than t hold.
OthersKeep(t) ==
  \A u \in Tasks \ {t} : lease'[u].block = lease[u].block /\ op'[u].hand = op[u].hand

LEMMA ApartSymmetric ==
  ASSUME NEW b, NEW c, Apart(b, c)
  PROVE  Apart(c, b)
BY DEF Apart

LEMMA ApartNone == \A b : Apart(None, b) /\ Apart(b, None)
BY DEF Apart
-----------------------------------------------------------------------------
(* The ways in which storage changes hands.                                *)

\* A task lets go of what it has, or passes it from one of its hands to the other.
LEMMA TaskKeepsApart ==
  ASSUME AllApart, NEW t \in Tasks, OthersKeep(t), queues' = queues,
         \/ lease'[t].block = lease[t].block /\ op'[t].hand \in {op[t].hand, None}
         \/ lease'[t].block \in {op[t].hand, None} /\ op'[t].hand = None
         \/ lease'[t].block = None /\ op'[t].hand = lease[t].block
  PROVE  AllApart'
<1>. USE ApartNone
<1>1. \A u, v \in Tasks :
        /\ Apart(lease'[u].block, op'[v].hand)
        /\ u # v => Apart(lease'[u].block, lease'[v].block) /\ Apart(op'[u].hand, op'[v].hand)
  <2>. SUFFICES ASSUME NEW u \in Tasks, NEW v \in Tasks
                PROVE  /\ Apart(lease'[u].block, op'[v].hand)
                       /\ u # v => /\ Apart(lease'[u].block, lease'[v].block)
                                   /\ Apart(op'[u].hand, op'[v].hand)
    OBVIOUS
  <2>1. CASE u # t /\ v # t
    BY <2>1 DEF AllApart, OthersKeep
  <2>2. CASE u = t /\ v = t
    BY <2>2 DEF AllApart
  <2>3. CASE u = t /\ v # t
    BY <2>3, ApartSymmetric DEF AllApart, OthersKeep
  <2>4. CASE u # t /\ v = t
    BY <2>4, ApartSymmetric DEF AllApart, OthersKeep
  <2>. QED  BY <2>1, <2>2, <2>3, <2>4
<1>2. \A i \in Ring : \A k \in DOMAIN queues[i] : \A u \in Tasks :
        Apart(queues[i][k], lease'[u].block) /\ Apart(queues[i][k], op'[u].hand)
  BY DEF AllApart, OthersKeep
<1>. QED  BY <1>1, <1>2 DEF AllApart

\* A task takes the block at the head of a queue into its hand.
LEMMA PopKeepsApart ==
  ASSUME AllApart, Queues, NEW t \in Tasks, OthersKeep(t), NEW i \in Ring, queues[i] # <<>>,
         lease'[t].block = lease[t].block, op'[t].hand = Head(queues[i]),
         queues' = [queues EXCEPT ![i] = Tail(queues[i])]
  PROVE  AllApart' /\ Queues'
<1>1. PICK S : queues \in [Ring -> Seq(S)]
  BY DEF Queues
<1>2. /\ 1 \in DOMAIN queues[i] /\ Head(queues[i]) = queues[i][1]
      /\ Tail(queues[i]) \in Seq(S)
      /\ \A k \in DOMAIN Tail(queues[i]) :
           k + 1 \in DOMAIN queues[i] /\ k + 1 # 1 /\ Tail(queues[i])[k] = queues[i][k + 1]
  BY <1>1
<1>3. queues' \in [Ring -> Seq(S)] /\ queues'[i] = Tail(queues[i])
      /\ \A j \in Ring \ {i} : queues'[j] = queues[j]
  BY <1>1, <1>2
\* Where a block of a queue was before.
<1>. DEFINE Was(j, k) == IF j = i THEN k + 1 ELSE k
<1>4. \A j \in Ring : \A k \in DOMAIN queues'[j] :
        /\ Was(j, k) \in DOMAIN queues[j] /\ queues'[j][k] = queues[j][Was(j, k)]
        /\ j # i \/ Was(j, k) # 1
  BY <1>2, <1>3
<1>5. \A j \in Ring : \A k, l \in DOMAIN queues'[j] : k # l => Was(j, k) # Was(j, l)
  <2>1. \A j \in Ring : \A k \in DOMAIN queues'[j] : k \in Int
    BY <1>3
  <2>. QED  BY <2>1
<1>. HIDE DEF Was
<1>6. \A u, v \in Tasks :
        /\ Apart(lease'[u].block, op'[v].hand)
        /\ u # v => Apart(lease'[u].block, lease'[v].block) /\ Apart(op'[u].hand, op'[v].hand)
  BY <1>2, ApartSymmetric DEF AllApart, OthersKeep
<1>7. \A j \in Ring : \A k \in DOMAIN queues'[j] : \A u \in Tasks :
        Apart(queues'[j][k], lease'[u].block) /\ Apart(queues'[j][k], op'[u].hand)
  <2>. SUFFICES ASSUME NEW j \in Ring, NEW k \in DOMAIN queues'[j], NEW u \in Tasks
                PROVE  Apart(queues'[j][k], lease'[u].block) /\ Apart(queues'[j][k], op'[u].hand)
    OBVIOUS
  <2>. DEFINE w == Was(j, k)
  <2>1. /\ w \in DOMAIN queues[j] /\ queues'[j][k] = queues[j][w]
        /\ j # i \/ w # 1
    BY <1>4
  <2>. HIDE DEF w
  <2>2. Apart(queues[j][w], lease[u].block) /\ Apart(queues[j][w], op[u].hand)
    BY <2>1 DEF AllApart
  <2>3. Apart(queues[j][w], queues[i][1])
    BY <1>2, <2>1 DEF AllApart
  <2>4. lease'[u].block = lease[u].block /\ op'[u].hand \in {op[u].hand, queues[i][1]}
    BY <1>2 DEF OthersKeep
  <2>. QED  BY <2>1, <2>2, <2>3, <2>4
<1>8. \A j, m \in Ring : \A k \in DOMAIN queues'[j] : \A l \in DOMAIN queues'[m] :
        (j # m \/ k # l) => Apart(queues'[j][k], queues'[m][l])
  BY <1>4, <1>5 DEF AllApart
<1>9. AllApart'
  BY <1>6, <1>7, <1>8 DEF AllApart, Ring
<1>. QED  BY <1>3, <1>9 DEF Queues, Ring

\* A task puts the block in its hand at the end of a queue.
LEMMA PushKeepsApart ==
  ASSUME AllApart, Queues, NEW t \in Tasks, OthersKeep(t), NEW i \in Ring,
         lease'[t].block = lease[t].block, op'[t].hand = None,
         queues' = [queues EXCEPT ![i] = Append(queues[i], op[t].hand)]
  PROVE  AllApart' /\ Queues'
<1>. DEFINE b == op[t].hand
            last == Len(queues[i]) + 1
<1>1. PICK S : queues \in [Ring -> Seq(S)]
  BY DEF Queues
<1>. DEFINE T == S \cup {b}
<1>2. queues \in [Ring -> Seq(T)]
  BY <1>1
<1>3. b \in T
  OBVIOUS
<1>. HIDE DEF T, b
<1>4. /\ Append(queues[i], b) \in Seq(T) /\ DOMAIN Append(queues[i], b) = 1..last
      /\ DOMAIN queues[i] = 1..(last - 1) /\ last \in Nat
      /\ Append(queues[i], b)[last] = b
      /\ \A k \in 1..(last - 1) : Append(queues[i], b)[k] = queues[i][k]
  BY <1>2, <1>3
<1>. HIDE DEF last
<1>5. /\ queues' \in [Ring -> Seq(T)]
      /\ DOMAIN queues'[i] = 1..last /\ queues'[i][last] = b
      /\ \A k \in DOMAIN queues'[i] : k # last => k \in DOMAIN queues[i] /\ queues'[i][k] = queues[i][k]
      /\ \A j \in Ring \ {i} : queues'[j] = queues[j]
  <2>1. queues' = [queues EXCEPT ![i] = Append(queues[i], b)]
    BY DEF b
  <2>2. queues'[i] = Append(queues[i], b) /\ \A j \in Ring \ {i} : queues'[j] = queues[j]
    BY <1>2, <2>1
  <2>3. queues' \in [Ring -> Seq(T)]
    BY <1>2, <1>4, <2>1
  <2>. QED  BY <1>4, <2>2, <2>3
\* Every place of a queue but the last of this one was a place before.
<1>6. \A j \in Ring : \A k \in DOMAIN queues'[j] :
        \/ k \in DOMAIN queues[j] /\ queues'[j][k] = queues[j][k]
        \/ j = i /\ k = last /\ queues'[j][k] = b
  BY <1>5
<1>7. \A u, v \in Tasks :
        /\ Apart(lease'[u].block, op'[v].hand)
        /\ u # v => Apart(lease'[u].block, lease'[v].block) /\ Apart(op'[u].hand, op'[v].hand)
  BY ApartNone DEF AllApart, OthersKeep
<1>8. \A u \in Tasks : Apart(b, lease'[u].block) /\ Apart(b, op'[u].hand)
  BY ApartNone, ApartSymmetric DEF AllApart, OthersKeep, b
<1>9. \A j \in Ring : \A k \in DOMAIN queues[j] : \A u \in Tasks :
        Apart(queues[j][k], lease'[u].block) /\ Apart(queues[j][k], op'[u].hand)
  BY ApartNone DEF AllApart, OthersKeep
<1>10. \A j \in Ring : \A k \in DOMAIN queues[j] : Apart(queues[j][k], b) /\ Apart(b, queues[j][k])
  BY ApartSymmetric DEF AllApart, b
<1>11. \A j \in Ring : \A k \in DOMAIN queues'[j] : \A u \in Tasks :
         Apart(queues'[j][k], lease'[u].block) /\ Apart(queues'[j][k], op'[u].hand)
  BY <1>6, <1>8, <1>9
<1>12. \A j, m \in Ring : \A k \in DOMAIN queues'[j] : \A l \in DOMAIN queues'[m] :
         (j # m \/ k # l) => Apart(queues'[j][k], queues'[m][l])
  BY <1>6, <1>10 DEF AllApart
<1>13. AllApart'
  BY <1>7, <1>11, <1>12 DEF AllApart, Ring
<1>. QED  BY <1>5, <1>13 DEF Queues, Ring

\* A task allocates a block that nobody has.
LEMMA FreshKeepsApart ==
  ASSUME AllApart, NEW t \in Tasks, OthersKeep(t), queues' = queues,
         lease'[t].block = lease[t].block,
         \A b \in InUse \ {None} : b.id # op'[t].hand.id
  PROVE  AllApart'
<1>. DEFINE f == op'[t].hand
<1>1. \A b \in InUse : Apart(b, f) /\ Apart(f, b)
  BY DEF Apart
<1>2. /\ \A u \in Tasks : lease[u].block \in InUse /\ op[u].hand \in InUse
      /\ \A i \in Ring : \A k \in DOMAIN queues[i] : queues[i][k] \in InUse
  BY DEF InUse
<1>. HIDE DEF f
<1>3. op'[t].hand = f
  BY DEF f
<1>4. \A u, v \in Tasks :
        /\ Apart(lease'[u].block, op'[v].hand)
        /\ u # v => Apart(lease'[u].block, lease'[v].block) /\ Apart(op'[u].hand, op'[v].hand)
  BY <1>1, <1>2, <1>3 DEF AllApart, OthersKeep
<1>5. \A i \in Ring : \A k \in DOMAIN queues[i] : \A u \in Tasks :
        Apart(queues[i][k], lease'[u].block) /\ Apart(queues[i][k], op'[u].hand)
  BY <1>1, <1>2, <1>3 DEF AllApart, OthersKeep
<1>. QED  BY <1>4, <1>5 DEF AllApart
-----------------------------------------------------------------------------
(* The inductive invariant.                                                *)

Growing == {"shard", "scan", "small", "found", "grow"}

\* A lease l and an operation o of one task. An operation that uses a shard has
\* one, and while a lease grows it can be given back.
Sound(l, o) ==
  /\ {"held", "block", "shard"} \subseteq DOMAIN l
  /\ {"at", "hand", "shard", "offset"} \subseteq DOMAIN o
  /\ l.shard \in Ring \cup {None}
  /\ l.block # None => l.held /\ l.shard # None
  /\ o.at \in {"get", "got", "put"} => o.shard \in Ring
  /\ o.at \in Growing => o.shard \in Ring /\ o.offset \in Nat /\ l.held /\ l.shard # None

OnTasks(f) == f = [t \in Tasks |-> f[t]]
Tasked == OnTasks(lease) /\ OnTasks(op)

BInv ==
  /\ Tasked /\ \A t \in Tasks : Sound(lease[t], op[t])
  /\ next \in Ring /\ Queues /\ AllApart

Puts(f, g, t, r) == g = [f EXCEPT ![t] = r]

\* The lease and the operation of t become l and o.
Becomes(t, l, o) == Puts(lease, lease', t, l) /\ Puts(op, op', t, o)

LEMMA Put ==
  ASSUME NEW f, OnTasks(f), NEW t \in Tasks, NEW r, NEW g, Puts(f, g, t, r)
  PROVE  OnTasks(g) /\ g[t] = r /\ \A x \in Tasks \ {t} : g[x] = f[x]
<1>1. g = [x \in Tasks |-> IF x = t THEN r ELSE f[x]]
  BY DEF OnTasks, Puts
<1>. QED  BY <1>1 DEF OnTasks

LEMMA PutSame ==
  ASSUME NEW f, OnTasks(f), NEW t \in Tasks
  PROVE  Puts(f, f, t, f[t])
BY DEF OnTasks, Puts

\* A step of t, given what it does to lease and operation.
LEMMA TaskBecomes ==
  ASSUME BInv, NEW t \in Tasks, NEW l, NEW o, Becomes(t, l, o), Sound(l, o)
  PROVE  /\ OthersKeep(t) /\ lease'[t] = l /\ op'[t] = o
         /\ Tasked' /\ \A u \in Tasks : Sound(lease'[u], op'[u])
<1>1. /\ OnTasks(lease') /\ lease'[t] = l
      /\ \A x \in Tasks \ {t} : lease'[x] = lease[x]
  BY Put DEF BInv, Tasked, Becomes
<1>2. /\ OnTasks(op') /\ op'[t] = o
      /\ \A x \in Tasks \ {t} : op'[x] = op[x]
  BY Put DEF BInv, Tasked, Becomes
<1>3. OthersKeep(t)
  BY <1>1, <1>2 DEF OthersKeep
<1>4. \A u \in Tasks : Sound(lease'[u], op'[u])
  <2>. TAKE u \in Tasks
  <2>1. CASE u = t
    BY <1>1, <1>2, <2>1
  <2>2. CASE u # t
    BY <1>1, <1>2, <2>2 DEF BInv
  <2>. QED  BY <2>1, <2>2
<1>5. Tasked'
  BY <1>1, <1>2, Zenon DEF Tasked, OnTasks
<1>. QED  BY <1>1, <1>2, <1>3, <1>4, <1>5

\* A step that does not touch the queues.
LEMMA TaskPreserves ==
  ASSUME BInv, NEW t \in Tasks, NEW l, NEW o, Becomes(t, l, o), Sound(l, o),
         next' \in Ring, queues' = queues,
         \/ l.block = lease[t].block /\ o.hand \in {op[t].hand, None}
         \/ l.block \in {op[t].hand, None} /\ o.hand = None
         \/ l.block = None /\ o.hand = lease[t].block
  PROVE  BInv'
<1>1. /\ OthersKeep(t) /\ lease'[t] = l /\ op'[t] = o
      /\ Tasked' /\ \A u \in Tasks : Sound(lease'[u], op'[u])
  BY TaskBecomes
<1>2. AllApart'
  BY <1>1, TaskKeepsApart DEF BInv
<1>3. Queues'
  BY DEF BInv, Queues, Ring
<1>. QED  BY <1>1, <1>2, <1>3 DEF BInv, Sound, Ring

LEMMA PopPreserves ==
  ASSUME BInv, NEW t \in Tasks, NEW o, Becomes(t, lease[t], o), Sound(lease[t], o), next' = next,
         NEW i \in Ring, queues[i] # <<>>, o.hand = Head(queues[i]),
         queues' = [queues EXCEPT ![i] = Tail(queues[i])]
  PROVE  BInv'
<1>1. /\ OthersKeep(t) /\ lease'[t] = lease[t] /\ op'[t] = o
      /\ Tasked' /\ \A u \in Tasks : Sound(lease'[u], op'[u])
  BY TaskBecomes
<1>2. AllApart' /\ Queues'
  BY <1>1, PopKeepsApart, Zenon DEF BInv
<1>. QED  BY <1>1, <1>2 DEF BInv, Sound, Ring

LEMMA PushPreserves ==
  ASSUME BInv, NEW t \in Tasks, NEW o, Becomes(t, lease[t], o), Sound(lease[t], o), next' = next,
         NEW i \in Ring, o.hand = None, queues' = [queues EXCEPT ![i] = Pushed(queues[i], op[t].hand)]
  PROVE  BInv'
<1>1. /\ OthersKeep(t) /\ lease'[t] = lease[t] /\ op'[t] = o
      /\ Tasked' /\ \A u \in Tasks : Sound(lease'[u], op'[u])
  BY TaskBecomes
<1>2. CASE Len(queues[i]) < CachedBlocks
  <2>1. queues' = [queues EXCEPT ![i] = Append(queues[i], op[t].hand)]
    BY <1>2, Zenon DEF Pushed
  <2>2. AllApart' /\ Queues'
    BY <1>1, <2>1, PushKeepsApart, Zenon DEF BInv
  <2>. QED  BY <1>1, <2>2 DEF BInv, Sound, Ring
<1>3. CASE ~(Len(queues[i]) < CachedBlocks)
  <2>1. queues' = [queues EXCEPT ![i] = queues[i]]
    BY <1>3, Zenon DEF Pushed
  <2>2. queues' = queues
    BY <2>1 DEF BInv, Queues
  <2>. QED  BY <2>2, TaskPreserves DEF BInv
<1>. QED  BY <1>2, <1>3
-----------------------------------------------------------------------------
(* The actions.                                                            *)

LEMMA RestSound ==
  ASSUME BInv, NEW t \in Tasks, NEW l, {"held", "block", "shard"} \subseteq DOMAIN l,
         l.shard \in Ring \cup {None}, l.block # None => l.held /\ l.shard # None
  PROVE  Sound(l, Rest) /\ Rest.hand = None
BY DEF Sound, Rest, Growing

\* next wraps at the last shard.
LEMMA NextShard ==
  ASSUME next \in Ring
  PROVE  (next + 1) % Shards \in Ring /\ next # None
BY BoundsAssumption, NoneAssumption DEF Ring

LEMMA GetShardPreserves ==
  ASSUME BInv, NEW t \in Tasks, GetShard(t)
  PROVE  BInv'
<1>. DEFINE o == [op[t] EXCEPT !.at = "get", !.shard = next]
<1>1. lease' = lease /\ queues' = queues /\ next' = (next + 1) % Shards /\ Puts(op, op', t, o)
  BY Zenon DEF GetShard, Puts
<1>2. Becomes(t, lease[t], o)
  BY <1>1, PutSame DEF Becomes, BInv, Tasked
<1>3. Sound(lease[t], o) /\ o.hand = op[t].hand
  BY DEF BInv, Sound, Growing
<1>. HIDE DEF o
<1>4. next' \in Ring
  BY <1>1, NextShard DEF BInv
<1>. QED  BY <1>1, <1>2, <1>3, <1>4, TaskPreserves

LEMMA GetPopPreserves ==
  ASSUME BInv, NEW t \in Tasks, GetPop(t)
  PROVE  BInv'
<1>. DEFINE i == op[t].shard
            o == [op[t] EXCEPT !.at = "got", !.hand = IF queues[i] = <<>> THEN None ELSE Head(queues[i])]
<1>1. lease' = lease /\ next' = next /\ Puts(op, op', t, o) /\ op[t].at = "get"
  BY Zenon DEF GetPop, Puts
<1>2. Becomes(t, lease[t], o)
  BY <1>1, PutSame DEF Becomes, BInv, Tasked
<1>3. /\ Sound(lease[t], o) /\ i \in Ring
      /\ o.hand = IF queues[i] = <<>> THEN None ELSE Head(queues[i])
  BY <1>1 DEF BInv, Sound, Growing
<1>4. queues' = [queues EXCEPT ![i] = IF queues[i] = <<>> THEN <<>> ELSE Tail(queues[i])]
  BY Zenon DEF GetPop
<1>. HIDE DEF o, i
<1>5. CASE queues[i] = <<>>
  <2>1. queues' = queues
    BY <1>3, <1>4, <1>5 DEF BInv, Queues
  <2>. QED  BY <1>1, <1>2, <1>3, <1>5, <2>1, TaskPreserves DEF BInv
<1>6. CASE queues[i] # <<>>
  <2>1. queues' = [queues EXCEPT ![i] = Tail(queues[i])] /\ o.hand = Head(queues[i])
    BY <1>3, <1>4, <1>6, Zenon
  <2>. QED  BY <1>1, <1>2, <1>3, <1>6, <2>1, PopPreserves, Zenon
<1>. QED  BY <1>5, <1>6

LEMMA GetCountPreserves ==
  ASSUME BInv, NEW t \in Tasks, GetCount(t)
  PROVE  BInv'
<1>. DEFINE l == [held |-> TRUE, block |-> op[t].hand, shard |-> op[t].shard, live |-> FALSE]
<1>1. /\ next' = next /\ queues' = queues /\ op[t].at = "got"
      /\ Becomes(t, l, Rest)
  BY Zenon DEF GetCount, Puts, Becomes
<1>2. op[t].shard \in Ring /\ op[t].shard # None
  BY <1>1, NoneAssumption DEF BInv, Sound, Ring
<1>3. Sound(l, Rest) /\ Rest.hand = None /\ l.block = op[t].hand
  BY <1>2, RestSound
<1>. HIDE DEF l
<1>. QED  BY <1>1, <1>3, TaskPreserves DEF BInv

LEMMA GetEmptyPreserves ==
  ASSUME BInv, NEW t \in Tasks, GetEmpty(t)
  PROVE  BInv'
<1>. DEFINE l == [lease[t] EXCEPT !.held = TRUE]
<1>1. next' = next /\ queues' = queues /\ op' = op /\ Puts(lease, lease', t, l)
  BY Zenon DEF GetEmpty, Puts
<1>2. Becomes(t, l, op[t])
  BY <1>1, PutSame DEF Becomes, BInv, Tasked
<1>3. Sound(l, op[t]) /\ l.block = lease[t].block
  BY DEF BInv, Sound
<1>. HIDE DEF l
<1>. QED  BY <1>1, <1>2, <1>3, TaskPreserves DEF BInv

LEMMA UsePreserves ==
  ASSUME BInv, NEW t \in Tasks, Use(t)
  PROVE  BInv'
<1>. DEFINE l == [lease[t] EXCEPT !.live = ~lease[t].live]
<1>1. next' = next /\ queues' = queues /\ op' = op /\ Puts(lease, lease', t, l)
  BY Zenon DEF Use, Puts
<1>2. Becomes(t, l, op[t])
  BY <1>1, PutSame DEF Becomes, BInv, Tasked
<1>3. Sound(l, op[t]) /\ l.block = lease[t].block
  BY DEF BInv, Sound
<1>. HIDE DEF l
<1>. QED  BY <1>1, <1>2, <1>3, TaskPreserves DEF BInv

LEMMA EnsurePreserves ==
  ASSUME BInv, NEW t \in Tasks, NEW n, Ensure(t, n)
  PROVE  BInv'
<1>. DEFINE l == IF lease[t].shard = None THEN [lease[t] EXCEPT !.shard = next] ELSE lease[t]
            o == [Rest EXCEPT !.at = "shard", !.needed = n, !.shard = lease'[t].shard]
<1>1. lease[t].held /\ queues' = queues /\ Puts(op, op', t, o)
  BY Zenon DEF Ensure, Puts
<1>2. Puts(lease, lease', t, l)
  <2>1. CASE lease[t].shard = None
    BY <2>1, Zenon DEF Ensure, Puts
  <2>2. CASE lease[t].shard # None
    <3>1. lease' = lease /\ l = lease[t]
      BY <2>2, Zenon DEF Ensure
    <3>. QED  BY <3>1, PutSame DEF BInv, Tasked
  <2>. QED  BY <2>1, <2>2
<1>3. next' \in Ring
  BY NextShard DEF Ensure, BInv
<1>4. /\ {"held", "block", "shard"} \subseteq DOMAIN l /\ l.block = lease[t].block /\ l.held
      /\ l.shard \in Ring /\ l.shard # None
  BY <1>1, NextShard, NoneAssumption DEF BInv, Sound, Ring
<1>. HIDE DEF l
<1>5. lease'[t] = l
  BY <1>2, Put DEF BInv, Tasked
<1>6. Sound(l, o) /\ o.hand = None
  BY <1>4, <1>5 DEF Sound, Rest, Growing
<1>. HIDE DEF o
<1>. QED  BY <1>1, <1>2, <1>3, <1>4, <1>6, TaskPreserves DEF Becomes

LEMMA ScanShardPreserves ==
  ASSUME BInv, NEW t \in Tasks, ScanShard(t)
  PROVE  BInv'
<1>. DEFINE o == [op[t] EXCEPT !.at = "scan", !.left = Len(queues[Scanned(t)])]
<1>1. lease' = lease /\ next' = next /\ queues' = queues /\ Puts(op, op', t, o) /\ op[t].at = "shard"
  BY Zenon DEF ScanShard, Puts
<1>2. Becomes(t, lease[t], o)
  BY <1>1, PutSame DEF Becomes, BInv, Tasked
<1>3. Sound(lease[t], o) /\ o.hand = op[t].hand
  BY <1>1 DEF BInv, Sound, Growing
<1>. HIDE DEF o
<1>. QED  BY <1>1, <1>2, <1>3, TaskPreserves DEF BInv

LEMMA ScanNextPreserves ==
  ASSUME BInv, NEW t \in Tasks, ScanNext(t)
  PROVE  BInv'
<1>. DEFINE o == [op[t] EXCEPT !.at = "shard", !.offset = op[t].offset + 1, !.left = 0]
<1>1. lease' = lease /\ next' = next /\ queues' = queues /\ Puts(op, op', t, o) /\ op[t].at = "scan"
  BY Zenon DEF ScanNext, Puts
<1>2. Becomes(t, lease[t], o)
  BY <1>1, PutSame DEF Becomes, BInv, Tasked
<1>3. Sound(lease[t], o) /\ o.hand = op[t].hand
  BY <1>1 DEF BInv, Sound, Growing
<1>. HIDE DEF o
<1>. QED  BY <1>1, <1>2, <1>3, TaskPreserves DEF BInv

LEMMA GrowCountPreserves ==
  ASSUME BInv, NEW t \in Tasks, GrowCount(t)
  PROVE  BInv'
<1>. DEFINE o == [op[t] EXCEPT !.at = "grow"]
<1>1. lease' = lease /\ next' = next /\ queues' = queues /\ Puts(op, op', t, o) /\ op[t].at = "found"
  BY Zenon DEF GrowCount, Puts
<1>2. Becomes(t, lease[t], o)
  BY <1>1, PutSame DEF Becomes, BInv, Tasked
<1>3. Sound(lease[t], o) /\ o.hand = op[t].hand
  BY <1>1 DEF BInv, Sound, Growing
<1>. HIDE DEF o
<1>. QED  BY <1>1, <1>2, <1>3, TaskPreserves DEF BInv

LEMMA AllocateFailsPreserves ==
  ASSUME BInv, NEW t \in Tasks, AllocateFails(t)
  PROVE  BInv'
<1>1. lease' = lease /\ next' = next /\ queues' = queues /\ Puts(op, op', t, Rest)
  BY Zenon DEF AllocateFails, Puts
<1>2. Becomes(t, lease[t], Rest)
  BY <1>1, PutSame DEF Becomes, BInv, Tasked
<1>3. Sound(lease[t], Rest) /\ Rest.hand = None
  BY RestSound DEF BInv, Sound
<1>. QED  BY <1>1, <1>2, <1>3, TaskPreserves DEF BInv

LEMMA PutUncountPreserves ==
  ASSUME BInv, NEW t \in Tasks, PutUncount(t)
  PROVE  BInv'
<1>1. lease' = lease /\ next' = next /\ queues' = queues /\ Puts(op, op', t, Rest)
  BY Zenon DEF PutUncount, Puts
<1>2. Becomes(t, lease[t], Rest)
  BY <1>1, PutSame DEF Becomes, BInv, Tasked
<1>3. Sound(lease[t], Rest) /\ Rest.hand = None
  BY RestSound DEF BInv, Sound
<1>. QED  BY <1>1, <1>2, <1>3, TaskPreserves DEF BInv

\* The scan stays on the ring.
LEMMA ScannedRing ==
  ASSUME BInv, NEW t \in Tasks, op[t].at \in Growing
  PROVE  Scanned(t) \in Ring
<1>1. op[t].shard \in Ring /\ op[t].offset \in Nat
  BY DEF BInv, Sound
<1>. QED  BY <1>1, BoundsAssumption DEF Scanned, Ring

LEMMA ScanPopPreserves ==
  ASSUME BInv, NEW t \in Tasks, ScanPop(t)
  PROVE  BInv'
<1>. DEFINE i == Scanned(t)
            to == IF Head(queues[i]).capacity >= op[t].needed THEN "found" ELSE "small"
            o == [op[t] EXCEPT !.at = to, !.hand = Head(queues[i])]
<1>1. /\ lease' = lease /\ next' = next /\ Puts(op, op', t, o)
      /\ op[t].at = "scan" /\ queues[i] # <<>>
      /\ queues' = [queues EXCEPT ![i] = Tail(queues[i])]
  BY Zenon DEF ScanPop, Puts
<1>2. Becomes(t, lease[t], o)
  BY <1>1, PutSame DEF Becomes, BInv, Tasked
<1>3. i \in Ring
  BY <1>1, ScannedRing DEF Growing
<1>. HIDE DEF i
<1>4. to \in {"found", "small"}
  OBVIOUS
<1>. HIDE DEF to
<1>5. Sound(lease[t], o) /\ o.hand = Head(queues[i])
  BY <1>1, <1>4 DEF BInv, Sound, Growing
<1>. HIDE DEF o
<1>. QED  BY <1>1, <1>2, <1>3, <1>5, PopPreserves, Zenon

LEMMA ScanPutBackPreserves ==
  ASSUME BInv, NEW t \in Tasks, ScanPutBack(t)
  PROVE  BInv'
<1>. DEFINE i == Scanned(t)
            o == [op[t] EXCEPT !.at = "scan", !.hand = None, !.left = op[t].left - 1]
<1>1. /\ lease' = lease /\ next' = next /\ Puts(op, op', t, o) /\ op[t].at = "small"
      /\ queues' = [queues EXCEPT ![i] = Pushed(queues[i], op[t].hand)]
  BY Zenon DEF ScanPutBack, Puts
<1>2. Becomes(t, lease[t], o)
  BY <1>1, PutSame DEF Becomes, BInv, Tasked
<1>3. i \in Ring
  BY <1>1, ScannedRing DEF Growing
<1>4. Sound(lease[t], o) /\ o.hand = None
  BY <1>1 DEF BInv, Sound, Growing
<1>. HIDE DEF o, i
<1>. QED  BY <1>1, <1>2, <1>3, <1>4, PushPreserves, Zenon

LEMMA PutPushPreserves ==
  ASSUME BInv, NEW t \in Tasks, PutPush(t)
  PROVE  BInv'
<1>. DEFINE i == op[t].shard
            o == [op[t] EXCEPT !.at = "uncount", !.hand = None]
<1>1. /\ lease' = lease /\ next' = next /\ Puts(op, op', t, o) /\ op[t].at = "put"
      /\ queues' = [queues EXCEPT ![i] =
                      IF op[t].bytes <= MaxCached THEN Pushed(queues[i], op[t].hand) ELSE queues[i]]
  BY Zenon DEF PutPush, Puts
<1>2. Becomes(t, lease[t], o)
  BY <1>1, PutSame DEF Becomes, BInv, Tasked
<1>3. Sound(lease[t], o) /\ o.hand = None /\ i \in Ring
  BY <1>1 DEF BInv, Sound, Growing
<1>. HIDE DEF o, i
<1>4. CASE op[t].bytes <= MaxCached
  <2>1. queues' = [queues EXCEPT ![i] = Pushed(queues[i], op[t].hand)]
    BY <1>1, <1>4, Zenon
  <2>. QED  BY <1>1, <1>2, <1>3, <2>1, PushPreserves, Zenon
<1>5. CASE ~(op[t].bytes <= MaxCached)
  <2>1. queues' = [queues EXCEPT ![i] = queues[i]]
    BY <1>1, <1>5, Zenon
  <2>2. queues' = queues
    BY <2>1 DEF BInv, Queues
  <2>. QED  BY <1>1, <1>2, <1>3, <2>2, TaskPreserves DEF BInv
<1>. QED  BY <1>4, <1>5

LEMMA AllocatePreserves ==
  ASSUME BInv, NEW t \in Tasks, Allocate(t)
  PROVE  BInv'
<1>1. PICK b \in Blocks \ {used.id : used \in InUse \ {None}} :
        op' = [op EXCEPT ![t].at = "found",
                 ![t].hand = [id |-> b, capacity |-> Min({n \in Classes : n >= op[t].needed})]]
  BY Zenon DEF Allocate
<1>. DEFINE c == Min({n \in Classes : n >= op[t].needed})
            o == [op[t] EXCEPT !.at = "found", !.hand = [id |-> b, capacity |-> c]]
<1>2. /\ lease' = lease /\ next' = next /\ queues' = queues
      /\ Puts(op, op', t, o) /\ op[t].at = "shard"
  BY <1>1, Zenon DEF Allocate, Puts
<1>3. Becomes(t, lease[t], o)
  BY <1>2, PutSame DEF Becomes, BInv, Tasked
<1>. HIDE DEF c
<1>4. Sound(lease[t], o) /\ o.hand.id = b
  BY <1>2 DEF BInv, Sound, Growing
<1>. HIDE DEF o
<1>5. /\ OthersKeep(t) /\ lease'[t] = lease[t] /\ op'[t] = o
      /\ Tasked' /\ \A u \in Tasks : Sound(lease'[u], op'[u])
  BY <1>3, <1>4, TaskBecomes
<1>6. \A used \in InUse \ {None} : used.id # op'[t].hand.id
  BY <1>4, <1>5
<1>7. AllApart'
  BY <1>2, <1>5, <1>6, FreshKeepsApart DEF BInv
<1>8. Queues'
  BY <1>2 DEF BInv, Queues, Ring
<1>. QED  BY <1>2, <1>5, <1>7, <1>8 DEF BInv, Sound, Ring

LEMMA GrowPreserves ==
  ASSUME BInv, NEW t \in Tasks, Grow(t)
  PROVE  BInv'
<1>. DEFINE l == [lease[t] EXCEPT !.block = op[t].hand]
<1>1. /\ next' = next /\ queues' = queues /\ op[t].at = "grow"
      /\ Becomes(t, l, Rest)
  BY Zenon DEF Grow, Puts, Becomes
<1>2. /\ {"held", "block", "shard"} \subseteq DOMAIN l /\ l.block = op[t].hand /\ l.held
      /\ l.shard \in Ring \cup {None} /\ l.shard # None
  BY <1>1 DEF BInv, Sound, Growing
<1>. HIDE DEF l
<1>3. Sound(l, Rest) /\ Rest.hand = None
  BY <1>2, RestSound
<1>. QED  BY <1>1, <1>2, <1>3, TaskPreserves DEF BInv

\* The storage of a lease that ends, or is released, goes to the returning task.
LEMMA ReturnPreserves ==
  ASSUME BInv, NEW t \in Tasks, NEW l, Puts(lease, lease', t, l), Return(t),
         {"held", "block", "shard"} \subseteq DOMAIN l, l.block = None, l.shard = None,
         UNCHANGED <<next, queues>>
  PROVE  BInv'
<1>. DEFINE o == [Rest EXCEPT !.at = "put", !.hand = lease[t].block, !.shard = lease[t].shard,
                              !.bytes = lease[t].block.capacity]
<1>1. CASE lease[t].block = None \/ lease[t].shard = None
  <2>1. Puts(op, op', t, Rest)
    BY <1>1, Zenon DEF Return, Puts
  <2>2. Sound(l, Rest) /\ Rest.hand = None
    BY RestSound
  <2>3. lease[t].block = None
    BY <1>1 DEF BInv, Sound
  <2>. QED  BY <2>1, <2>2, <2>3, TaskPreserves DEF BInv, Becomes
<1>2. CASE ~(lease[t].block = None \/ lease[t].shard = None)
  <2>1. Puts(op, op', t, o)
    BY <1>2, Zenon DEF Return, Puts
  <2>2. lease[t].shard \in Ring
    BY <1>2 DEF BInv, Sound
  <2>3. Sound(l, o) /\ o.hand = lease[t].block
    BY <2>2 DEF Sound, Rest, Growing
  <2>. HIDE DEF o
  <2>. QED  BY <2>1, <2>3, TaskPreserves DEF BInv, Becomes
<1>. QED  BY <1>1, <1>2

LEMMA ReleasePreserves ==
  ASSUME BInv, NEW t \in Tasks, Release(t)
  PROVE  BInv'
<1>. DEFINE l == [lease[t] EXCEPT !.block = None, !.shard = None]
<1>1. Puts(lease, lease', t, l) /\ Return(t) /\ UNCHANGED <<next, queues>>
  BY Zenon DEF Release, Puts
<1>2. {"held", "block", "shard"} \subseteq DOMAIN l /\ l.block = None /\ l.shard = None
  BY DEF BInv, Sound
<1>. HIDE DEF l
<1>. QED  BY <1>1, <1>2, ReturnPreserves

LEMMA DropPreserves ==
  ASSUME BInv, NEW t \in Tasks, Drop(t)
  PROVE  BInv'
<1>1. Puts(lease, lease', t, NoLease) /\ Return(t) /\ UNCHANGED <<next, queues>>
  BY Zenon DEF Drop, Puts
<1>2. /\ {"held", "block", "shard"} \subseteq DOMAIN NoLease
      /\ NoLease.block = None /\ NoLease.shard = None
  BY DEF NoLease
<1>. QED  BY <1>1, <1>2, ReturnPreserves
-----------------------------------------------------------------------------
LEMMA PoolInit == Init => BInv
<1>. SUFFICES ASSUME Init PROVE BInv
  OBVIOUS
<1>1. /\ lease = [t \in Tasks |-> NoLease] /\ op = [t \in Tasks |-> Rest]
      /\ queues = [i \in Ring |-> <<>>] /\ next = 0
  BY Zenon DEF Init
<1>2. \A t \in Tasks : lease[t] = NoLease /\ op[t] = Rest
  BY <1>1
<1>3. NoLease.block = None /\ Rest.hand = None /\ Sound(NoLease, Rest)
  BY DEF NoLease, Rest, Sound, Growing
<1>4. Tasked
  BY <1>1 DEF Tasked, OnTasks
<1>5. \A i \in Ring : queues[i] = <<>>
  BY <1>1
<1>6. Queues
  <2>1. queues \in [Ring -> Seq({})]
    BY <1>1
  <2>. QED  BY <2>1 DEF Queues
<1>7. AllApart
  BY <1>2, <1>3, <1>5, ApartNone DEF AllApart
<1>8. next \in Ring
  BY <1>1, BoundsAssumption DEF Ring
<1>. QED  BY <1>2, <1>3, <1>4, <1>6, <1>7, <1>8 DEF BInv

LEMMA PoolStep == BInv /\ [Next]_vars => BInv'
<1>. SUFFICES ASSUME BInv, [Next]_vars PROVE BInv'
  OBVIOUS
<1>1. CASE UNCHANGED vars
  BY <1>1 DEF vars, BInv, Tasked, OnTasks, Sound, Queues, AllApart, Ring
<1>2. ASSUME NEW t \in Tasks, Step(t) PROVE BInv'
  BY <1>2, GetPopPreserves, GetCountPreserves, ScanShardPreserves, ScanPopPreserves,
     ScanPutBackPreserves, ScanNextPreserves, AllocatePreserves, AllocateFailsPreserves,
     GrowCountPreserves, GrowPreserves, PutPushPreserves, PutUncountPreserves, Zenon DEF Step
<1>3. ASSUME NEW t \in Tasks, Call(t) PROVE BInv'
  BY <1>3, GetShardPreserves, GetEmptyPreserves, UsePreserves, ReleasePreserves, DropPreserves,
     EnsurePreserves, Zenon DEF Call
<1>. QED  BY <1>1, <1>2, <1>3, Zenon DEF Next

\* Storage belongs to one lease, one queue slot or one operation at a time, and a
\* lease that has storage has a shard to give it back to, however the steps of
\* get, ensure, release_empty and put interleave (buffer.rs).
THEOREM StorageHasOneOwner == Safety => []Exclusive
<1>1. BInv => Exclusive
  BY DEF BInv, AllApart, Sound, Exclusive
<1>. QED  BY <1>1, PoolInit, PoolStep, PTL DEF Safety
-----------------------------------------------------------------------------
(* The count of leased bytes: its inductive invariant.                     *)

\* What an operation has counted in advance or not yet uncounted.
Flight(o) == IF o.at = "grow" THEN Capacity(o.hand) ELSE o.bytes

\* A lease l and an operation o of one task have capacities; bytes are kept
\* only by put, a lease that is not there yet has no storage, and what is needed
\* is a class.
Sized(l, o) ==
  /\ {"needed", "bytes"} \subseteq DOMAIN o
  /\ Capacity(l.block) \in Nat /\ Capacity(o.hand) \in Nat /\ o.bytes \in Nat
  /\ o.at \notin {"put", "uncount"} => o.bytes = 0
  /\ o.at \in {"get", "got"} => l.block = None
  /\ o.at \in {"shard", "scan", "small"} => o.needed \in Classes

Cached == \A i \in Ring : \A k \in DOMAIN queues[i] : Capacity(queues[i][k]) \in Nat

Exact == leased \in Int /\ Cached /\ LeasedExact /\ \A t \in Tasks : Sized(lease[t], op[t])

\* A step of t that moves the count by what t has more or less.
Moves(t) ==
  \E l, o :
    /\ Becomes(t, l, o) /\ Sized(l, o) /\ Cached'
    /\ leased' = leased - Capacity(lease[t].block) - Flight(op[t]) + Capacity(l.block) + Flight(o)

\* A step that leaves the count alone, and one that leaves the queues alone too.
LEMMA Recounted ==
  ASSUME BInv, Exact, NEW t \in Tasks, NEW l, NEW o, Becomes(t, l, o), Sized(l, o),
         Cached', leased' = leased,
         Capacity(l.block) + Flight(o) = Capacity(lease[t].block) + Flight(op[t])
  PROVE  Moves(t)
<1>2. /\ Capacity(lease[t].block) \in Int /\ Flight(op[t]) \in Int
      /\ Capacity(l.block) \in Int /\ Flight(o) \in Int
  BY DEF Exact, Sized, Flight
<1>3. leased \in Int
  BY DEF Exact
<1>4. leased' = leased - Capacity(lease[t].block) - Flight(op[t]) + Capacity(l.block) + Flight(o)
  BY <1>2, <1>3
<1>. QED  BY <1>4, Zenon DEF Moves

LEMMA Uncounted ==
  ASSUME BInv, Exact, NEW t \in Tasks, NEW l, NEW o, Becomes(t, l, o), Sized(l, o),
         queues' = queues, leased' = leased,
         Capacity(l.block) + Flight(o) = Capacity(lease[t].block) + Flight(op[t])
  PROVE  Moves(t)
<1>1. Cached'
  BY DEF Exact, Cached, Ring
<1>. QED  BY <1>1, Recounted

\* The queue at i without its head, and the head.
LEMMA CachedPop ==
  ASSUME BInv, Exact, NEW i \in Ring, queues[i] # <<>>,
         queues' = [queues EXCEPT ![i] = Tail(queues[i])]
  PROVE  Cached' /\ Capacity(Head(queues[i])) \in Nat
<1>1. PICK S : queues \in [Ring -> Seq(S)]
  BY DEF BInv, Queues
<1>2. /\ 1 \in DOMAIN queues[i] /\ Head(queues[i]) = queues[i][1]
      /\ \A k \in DOMAIN Tail(queues[i]) :
           k + 1 \in DOMAIN queues[i] /\ Tail(queues[i])[k] = queues[i][k + 1]
  BY <1>1
<1>3. queues'[i] = Tail(queues[i]) /\ \A j \in Ring \ {i} : queues'[j] = queues[j]
  BY <1>1
<1>4. \A j \in Ring : \A k \in DOMAIN queues'[j] : Capacity(queues'[j][k]) \in Nat
  <2>. TAKE j \in Ring
  <2>1. CASE j = i
    BY <1>2, <1>3, <2>1 DEF Exact, Cached
  <2>2. CASE j # i
    BY <1>3, <2>2 DEF Exact, Cached
  <2>. QED  BY <2>1, <2>2
<1>5. Cached'
  BY <1>4 DEF Cached, Ring
<1>. QED  BY <1>2, <1>5 DEF Exact, Cached

LEMMA CachedPush ==
  ASSUME BInv, Exact, NEW i \in Ring, NEW b, Capacity(b) \in Nat,
         queues' = [queues EXCEPT ![i] = Pushed(queues[i], b)]
  PROVE  Cached'
<1>1. PICK S : queues \in [Ring -> Seq(S)]
  BY DEF BInv, Queues
<1>2. queues'[i] = Pushed(queues[i], b) /\ \A j \in Ring \ {i} : queues'[j] = queues[j]
  BY <1>1
<1>3. \A k \in DOMAIN Pushed(queues[i], b) :
        Pushed(queues[i], b)[k] = b \/ (k \in DOMAIN queues[i] /\ Pushed(queues[i], b)[k] = queues[i][k])
  <2>. DEFINE T == S \cup {b}
  <2>1. queues[i] \in Seq(T) /\ b \in T
    BY <1>1
  <2>. HIDE DEF T
  <2>. QED  BY <2>1 DEF Pushed
<1>4. \A j \in Ring : \A k \in DOMAIN queues'[j] : Capacity(queues'[j][k]) \in Nat
  <2>. TAKE j \in Ring
  <2>1. CASE j = i
    BY <1>2, <1>3, <2>1 DEF Exact, Cached
  <2>2. CASE j # i
    BY <1>2, <2>2 DEF Exact, Cached
  <2>. QED  BY <2>1, <2>2
<1>. QED  BY <1>4 DEF Cached, Ring
-----------------------------------------------------------------------------
(* The actions.                                                            *)

LEMMA GetShardCounts ==
  ASSUME BInv, Exact, NEW t \in Tasks, GetShard(t)
  PROVE  Moves(t)
<1>. DEFINE o == [op[t] EXCEPT !.at = "get", !.shard = next]
<1>1. lease' = lease /\ leased' = leased /\ queues' = queues /\ Puts(op, op', t, o) /\ op[t].at = "rest"
  BY Zenon DEF GetShard, Puts
<1>2. Becomes(t, lease[t], o)
  BY <1>1, PutSame DEF Becomes, BInv, Tasked
<1>3. Sized(lease[t], o) /\ Flight(o) = Flight(op[t])
  BY <1>1 DEF BInv, Sound, Exact, Sized, Flight, GetShard
<1>. HIDE DEF o
<1>. QED  BY <1>1, <1>2, <1>3, Uncounted

LEMMA ScanShardCounts ==
  ASSUME BInv, Exact, NEW t \in Tasks, ScanShard(t)
  PROVE  Moves(t)
<1>. DEFINE o == [op[t] EXCEPT !.at = "scan", !.left = Len(queues[Scanned(t)])]
<1>1. lease' = lease /\ leased' = leased /\ queues' = queues /\ Puts(op, op', t, o) /\ op[t].at = "shard"
  BY Zenon DEF ScanShard, Puts
<1>2. Becomes(t, lease[t], o)
  BY <1>1, PutSame DEF Becomes, BInv, Tasked
<1>3. Sized(lease[t], o) /\ Flight(o) = Flight(op[t])
  BY <1>1 DEF BInv, Sound, Exact, Sized, Flight
<1>. HIDE DEF o
<1>. QED  BY <1>1, <1>2, <1>3, Uncounted

LEMMA ScanNextCounts ==
  ASSUME BInv, Exact, NEW t \in Tasks, ScanNext(t)
  PROVE  Moves(t)
<1>. DEFINE o == [op[t] EXCEPT !.at = "shard", !.offset = op[t].offset + 1, !.left = 0]
<1>1. lease' = lease /\ leased' = leased /\ queues' = queues /\ Puts(op, op', t, o) /\ op[t].at = "scan"
  BY Zenon DEF ScanNext, Puts
<1>2. Becomes(t, lease[t], o)
  BY <1>1, PutSame DEF Becomes, BInv, Tasked
<1>3. Sized(lease[t], o) /\ Flight(o) = Flight(op[t])
  BY <1>1 DEF BInv, Sound, Exact, Sized, Flight
<1>. HIDE DEF o
<1>. QED  BY <1>1, <1>2, <1>3, Uncounted

LEMMA AllocateFailsCounts ==
  ASSUME BInv, Exact, NEW t \in Tasks, AllocateFails(t)
  PROVE  Moves(t)
<1>. DEFINE o == Rest
<1>1. lease' = lease /\ leased' = leased /\ queues' = queues /\ Puts(op, op', t, o) /\ op[t].at = "shard"
  BY Zenon DEF AllocateFails, Puts
<1>2. Becomes(t, lease[t], o)
  BY <1>1, PutSame DEF Becomes, BInv, Tasked
<1>3. Sized(lease[t], o) /\ Flight(o) = Flight(op[t])
  BY <1>1, Zenon DEF BInv, Sound, Exact, Sized, Flight, Rest, Capacity
<1>. HIDE DEF o
<1>. QED  BY <1>1, <1>2, <1>3, Uncounted

LEMMA GetEmptyCounts ==
  ASSUME BInv, Exact, NEW t \in Tasks, GetEmpty(t)
  PROVE  Moves(t)
<1>. DEFINE l == [lease[t] EXCEPT !.held = TRUE]
<1>1. leased' = leased /\ queues' = queues /\ op' = op /\ Puts(lease, lease', t, l)
  BY Zenon DEF GetEmpty, Puts
<1>2. Becomes(t, l, op[t])
  BY <1>1, PutSame DEF Becomes, BInv, Tasked
<1>3. Sized(l, op[t]) /\ l.block = lease[t].block
  BY DEF BInv, Sound, Exact, Sized
<1>. HIDE DEF l
<1>. QED  BY <1>1, <1>2, <1>3, Uncounted

LEMMA UseCounts ==
  ASSUME BInv, Exact, NEW t \in Tasks, Use(t)
  PROVE  Moves(t)
<1>. DEFINE l == [lease[t] EXCEPT !.live = ~lease[t].live]
<1>1. leased' = leased /\ queues' = queues /\ op' = op /\ Puts(lease, lease', t, l)
  BY Zenon DEF Use, Puts
<1>2. Becomes(t, l, op[t])
  BY <1>1, PutSame DEF Becomes, BInv, Tasked
<1>3. Sized(l, op[t]) /\ l.block = lease[t].block
  BY DEF BInv, Sound, Exact, Sized
<1>. HIDE DEF l
<1>. QED  BY <1>1, <1>2, <1>3, Uncounted

LEMMA EnsureCounts ==
  ASSUME BInv, Exact, NEW t \in Tasks, NEW n \in Classes, Ensure(t, n)
  PROVE  Moves(t)
<1>. DEFINE l == IF lease[t].shard = None THEN [lease[t] EXCEPT !.shard = next] ELSE lease[t]
            o == [Rest EXCEPT !.at = "shard", !.needed = n, !.shard = lease'[t].shard]
<1>1. /\ op[t].at = "rest" /\ leased' = leased /\ queues' = queues
      /\ Puts(op, op', t, o)
  BY Zenon DEF Ensure, Puts
<1>2. Puts(lease, lease', t, l)
  <2>1. CASE lease[t].shard = None
    BY <2>1, Zenon DEF Ensure, Puts
  <2>2. CASE lease[t].shard # None
    <3>1. lease' = lease /\ l = lease[t]
      BY <2>2, Zenon DEF Ensure
    <3>. QED  BY <3>1, PutSame DEF BInv, Tasked
  <2>. QED  BY <2>1, <2>2
<1>3. l.block = lease[t].block
  BY DEF BInv, Sound
<1>. HIDE DEF l
<1>4. Sized(l, o) /\ Flight(o) = Flight(op[t])
  BY <1>1, <1>3 DEF Exact, Sized, Flight, Rest, Capacity
<1>. HIDE DEF o
<1>. QED  BY <1>1, <1>2, <1>3, <1>4, Uncounted DEF Becomes

LEMMA GetPopCounts ==
  ASSUME BInv, Exact, NEW t \in Tasks, GetPop(t)
  PROVE  Moves(t)
<1>. DEFINE i == op[t].shard
            hand == IF queues[i] = <<>> THEN None ELSE Head(queues[i])
            o == [op[t] EXCEPT !.at = "got", !.hand = hand]
<1>1. lease' = lease /\ leased' = leased /\ Puts(op, op', t, o) /\ op[t].at = "get"
  BY Zenon DEF GetPop, Puts
<1>2. Becomes(t, lease[t], o)
  BY <1>1, PutSame DEF Becomes, BInv, Tasked
<1>3. queues' = [queues EXCEPT ![i] = IF queues[i] = <<>> THEN <<>> ELSE Tail(queues[i])]
  BY Zenon DEF GetPop
<1>4. i \in Ring
  BY <1>1 DEF BInv, Sound
<1>. HIDE DEF i
<1>5. Cached' /\ Capacity(hand) \in Nat
  <2>1. CASE queues[i] = <<>>
    <3>1. queues' = queues
      BY <1>3, <1>4, <2>1 DEF BInv, Queues
    <3>. QED  BY <2>1, <3>1 DEF Exact, Cached, Capacity, Ring
  <2>2. CASE queues[i] # <<>>
    <3>1. queues' = [queues EXCEPT ![i] = Tail(queues[i])] /\ hand = Head(queues[i])
      BY <1>3, <2>2, Zenon
    <3>. QED  BY <1>4, <2>2, <3>1, CachedPop, Zenon
  <2>. QED  BY <2>1, <2>2
<1>. HIDE DEF hand
<1>6. Sized(lease[t], o) /\ Flight(o) = Flight(op[t])
  BY <1>1, <1>5 DEF BInv, Sound, Exact, Sized, Flight
<1>. HIDE DEF o
<1>. QED  BY <1>1, <1>2, <1>5, <1>6, Recounted

LEMMA ScanPopCounts ==
  ASSUME BInv, Exact, NEW t \in Tasks, ScanPop(t)
  PROVE  Moves(t)
<1>. DEFINE i == Scanned(t)
            to == IF Head(queues[i]).capacity >= op[t].needed THEN "found" ELSE "small"
            o == [op[t] EXCEPT !.at = to, !.hand = Head(queues[i])]
<1>1. /\ lease' = lease /\ leased' = leased /\ Puts(op, op', t, o)
      /\ op[t].at = "scan" /\ queues[i] # <<>>
      /\ queues' = [queues EXCEPT ![i] = Tail(queues[i])]
  BY Zenon DEF ScanPop, Puts
<1>2. Becomes(t, lease[t], o)
  BY <1>1, PutSame DEF Becomes, BInv, Tasked
<1>3. i \in Ring
  BY <1>1, ScannedRing DEF Growing
<1>. HIDE DEF i
<1>4. Cached' /\ Capacity(Head(queues[i])) \in Nat
  BY <1>1, <1>3, CachedPop, Zenon
<1>5. to \in {"found", "small"}
  OBVIOUS
<1>. HIDE DEF to
<1>6. Sized(lease[t], o) /\ Flight(o) = Flight(op[t])
  BY <1>1, <1>4, <1>5 DEF BInv, Sound, Exact, Sized, Flight
<1>. HIDE DEF o
<1>. QED  BY <1>1, <1>2, <1>4, <1>6, Recounted

LEMMA ScanPutBackCounts ==
  ASSUME BInv, Exact, NEW t \in Tasks, ScanPutBack(t)
  PROVE  Moves(t)
<1>. DEFINE i == Scanned(t)
            o == [op[t] EXCEPT !.at = "scan", !.hand = None, !.left = op[t].left - 1]
<1>1. /\ lease' = lease /\ leased' = leased /\ Puts(op, op', t, o) /\ op[t].at = "small"
      /\ queues' = [queues EXCEPT ![i] = Pushed(queues[i], op[t].hand)]
  BY Zenon DEF ScanPutBack, Puts
<1>2. Becomes(t, lease[t], o)
  BY <1>1, PutSame DEF Becomes, BInv, Tasked
<1>3. i \in Ring
  BY <1>1, ScannedRing DEF Growing
<1>. HIDE DEF i
<1>4. Cached'
  BY <1>1, <1>3, CachedPush, Zenon DEF Exact, Sized
<1>5. Sized(lease[t], o) /\ Flight(o) = Flight(op[t])
  BY <1>1 DEF BInv, Sound, Exact, Sized, Flight, Capacity
<1>. HIDE DEF o
<1>. QED  BY <1>1, <1>2, <1>4, <1>5, Recounted

\* The block is in the cache and its bytes are still counted.
LEMMA PutPushCounts ==
  ASSUME BInv, Exact, NEW t \in Tasks, PutPush(t)
  PROVE  Moves(t)
<1>. DEFINE i == op[t].shard
            o == [op[t] EXCEPT !.at = "uncount", !.hand = None]
<1>1. /\ lease' = lease /\ leased' = leased /\ Puts(op, op', t, o) /\ op[t].at = "put"
      /\ queues' = [queues EXCEPT ![i] =
                      IF op[t].bytes <= MaxCached THEN Pushed(queues[i], op[t].hand) ELSE queues[i]]
  BY Zenon DEF PutPush, Puts
<1>2. Becomes(t, lease[t], o)
  BY <1>1, PutSame DEF Becomes, BInv, Tasked
<1>3. i \in Ring
  BY <1>1 DEF BInv, Sound
<1>. HIDE DEF i
<1>4. Cached'
  <2>1. CASE op[t].bytes <= MaxCached
    <3>1. queues' = [queues EXCEPT ![i] = Pushed(queues[i], op[t].hand)]
      BY <1>1, <2>1, Zenon
    <3>. QED  BY <1>3, <3>1, CachedPush, Zenon DEF Exact, Sized
  <2>2. CASE ~(op[t].bytes <= MaxCached)
    <3>1. queues' = [queues EXCEPT ![i] = queues[i]]
      BY <1>1, <2>2, Zenon
    <3>2. queues' = queues
      BY <3>1 DEF BInv, Queues
    <3>. QED  BY <3>2 DEF Exact, Cached, Ring
  <2>. QED  BY <2>1, <2>2
<1>5. Sized(lease[t], o) /\ Flight(o) = Flight(op[t])
  BY <1>1 DEF BInv, Sound, Exact, Sized, Flight, Capacity
<1>. HIDE DEF o
<1>. QED  BY <1>1, <1>2, <1>4, <1>5, Recounted

\* The count moves with the capacity that the lease, or the operation, gets.
LEMMA GetCountCounts ==
  ASSUME BInv, Exact, NEW t \in Tasks, GetCount(t)
  PROVE  Moves(t)
<1>. DEFINE l == [held |-> TRUE, block |-> op[t].hand, shard |-> op[t].shard, live |-> FALSE]
<1>1. /\ leased' = leased + Capacity(op[t].hand) /\ queues' = queues /\ op[t].at = "got"
      /\ Becomes(t, l, Rest)
  BY Zenon DEF GetCount, Puts, Becomes
<1>2. l.block = op[t].hand
  OBVIOUS
<1>. HIDE DEF l
<1>3. Sized(l, Rest) /\ Flight(Rest) = 0 /\ Flight(op[t]) = 0 /\ Capacity(lease[t].block) = 0
  BY <1>1, <1>2, Zenon DEF Exact, Sized, Flight, Rest, Capacity
<1>4. Cached'
  BY <1>1 DEF Exact, Cached, Ring
<1>5. leased \in Int /\ Capacity(op[t].hand) \in Int
  BY DEF Exact, Sized
<1>6. leased' = leased - Capacity(lease[t].block) - Flight(op[t]) + Capacity(l.block) + Flight(Rest)
  BY <1>1, <1>2, <1>3, <1>5
<1>. QED  BY <1>1, <1>3, <1>4, <1>6, Zenon DEF Moves

LEMMA GrowCountCounts ==
  ASSUME BInv, Exact, NEW t \in Tasks, GrowCount(t)
  PROVE  Moves(t)
<1>. DEFINE o == [op[t] EXCEPT !.at = "grow"]
<1>1. /\ lease' = lease /\ queues' = queues /\ Puts(op, op', t, o) /\ op[t].at = "found"
      /\ leased' = leased + Capacity(op[t].hand)
  BY Zenon DEF GrowCount, Puts
<1>2. Becomes(t, lease[t], o)
  BY <1>1, PutSame DEF Becomes, BInv, Tasked
<1>3. Sized(lease[t], o) /\ Flight(op[t]) = 0 /\ Flight(o) = Capacity(op[t].hand)
  BY <1>1 DEF BInv, Sound, Exact, Sized, Flight
<1>. HIDE DEF o
<1>4. Cached'
  BY <1>1 DEF Exact, Cached, Ring
<1>5. leased \in Int /\ Capacity(op[t].hand) \in Int /\ Capacity(lease[t].block) \in Int
  BY DEF Exact, Sized
<1>6. leased' = leased - Capacity(lease[t].block) - Flight(op[t]) + Capacity(lease[t].block) + Flight(o)
  BY <1>1, <1>3, <1>5
<1>. QED  BY <1>2, <1>3, <1>4, <1>6, Zenon DEF Moves

LEMMA GrowCounts ==
  ASSUME BInv, Exact, NEW t \in Tasks, Grow(t)
  PROVE  Moves(t)
<1>. DEFINE l == [lease[t] EXCEPT !.block = op[t].hand]
<1>1. /\ queues' = queues /\ op[t].at = "grow" /\ Becomes(t, l, Rest)
      /\ leased' = leased - Capacity(lease[t].block)
  BY Zenon DEF Grow, Puts, Becomes
<1>2. l.block = op[t].hand
  BY DEF BInv, Sound
<1>. HIDE DEF l
<1>3. Sized(l, Rest) /\ Flight(Rest) = 0 /\ Flight(op[t]) = Capacity(op[t].hand)
  BY <1>1, <1>2, Zenon DEF Exact, Sized, Flight, Rest, Capacity
<1>4. Cached'
  BY <1>1 DEF Exact, Cached, Ring
<1>5. leased \in Int /\ Capacity(op[t].hand) \in Int /\ Capacity(lease[t].block) \in Int
  BY DEF Exact, Sized
<1>6. leased' = leased - Capacity(lease[t].block) - Flight(op[t]) + Capacity(l.block) + Flight(Rest)
  BY <1>1, <1>2, <1>3, <1>5
<1>. QED  BY <1>1, <1>3, <1>4, <1>6, Zenon DEF Moves

LEMMA PutUncountCounts ==
  ASSUME BInv, Exact, NEW t \in Tasks, PutUncount(t)
  PROVE  Moves(t)
<1>1. /\ lease' = lease /\ queues' = queues /\ Puts(op, op', t, Rest) /\ op[t].at = "uncount"
      /\ leased' = leased - op[t].bytes
  BY Zenon DEF PutUncount, Puts
<1>2. Becomes(t, lease[t], Rest)
  BY <1>1, PutSame DEF Becomes, BInv, Tasked
<1>3. Sized(lease[t], Rest) /\ Flight(op[t]) = op[t].bytes /\ Flight(Rest) = 0
  BY <1>1 DEF Exact, Sized, Flight, Rest, Capacity
<1>4. Cached'
  BY <1>1, Zenon DEF Exact, Cached, Ring
<1>5. leased \in Int /\ op[t].bytes \in Int /\ Capacity(lease[t].block) \in Int
  BY DEF Exact, Sized
<1>6. leased' = leased - Capacity(lease[t].block) - Flight(op[t]) + Capacity(lease[t].block) + Flight(Rest)
  BY <1>1, <1>3, <1>5
<1>. QED  BY <1>2, <1>3, <1>4, <1>6, Zenon DEF Moves

\* The bytes of a lease become those of the operation that returns its storage.
LEMMA ReturnCounts ==
  ASSUME BInv, Exact, NEW t \in Tasks, NEW l, Puts(lease, lease', t, l), Return(t), l.block = None,
         op[t].at = "rest", UNCHANGED <<leased, queues>>
  PROVE  Moves(t)
<1>. DEFINE o == [Rest EXCEPT !.at = "put", !.hand = lease[t].block, !.shard = lease[t].shard,
                              !.bytes = lease[t].block.capacity]
<1>1. Flight(op[t]) = 0 /\ Capacity(lease[t].block) \in Nat /\ Capacity(l.block) = 0
  BY DEF Exact, Sized, Flight, Capacity
<1>2. CASE lease[t].block = None \/ lease[t].shard = None
  <2>1. Puts(op, op', t, Rest)
    BY <1>2, Zenon DEF Return, Puts
  <2>2. Capacity(lease[t].block) = 0
    BY <1>2 DEF BInv, Sound, Capacity
  <2>3. Sized(l, Rest) /\ Flight(Rest) = 0
    BY <1>1, Zenon DEF Sized, Flight, Rest, Capacity
  <2>. QED  BY <1>1, <2>1, <2>2, <2>3, Uncounted DEF Becomes
<1>3. CASE ~(lease[t].block = None \/ lease[t].shard = None)
  <2>1. Puts(op, op', t, o)
    BY <1>3, Zenon DEF Return, Puts
  <2>2. o.bytes = Capacity(lease[t].block) /\ o.hand = lease[t].block
    BY <1>3 DEF Rest, Capacity
  <2>3. Sized(l, o) /\ Flight(o) = Capacity(lease[t].block)
    BY <1>1, <2>2 DEF Sized, Flight, Rest
  <2>. HIDE DEF o
  <2>. QED  BY <1>1, <2>1, <2>3, Uncounted DEF Becomes
<1>. QED  BY <1>2, <1>3

LEMMA ReleaseCounts ==
  ASSUME BInv, Exact, NEW t \in Tasks, Release(t)
  PROVE  Moves(t)
<1>. DEFINE l == [lease[t] EXCEPT !.block = None, !.shard = None]
<1>1. Puts(lease, lease', t, l) /\ Return(t) /\ UNCHANGED <<leased, queues>> /\ op[t].at = "rest"
  BY Zenon DEF Release, Puts
<1>2. l.block = None
  BY DEF BInv, Sound
<1>. HIDE DEF l
<1>. QED  BY <1>1, <1>2, ReturnCounts

LEMMA DropCounts ==
  ASSUME BInv, Exact, NEW t \in Tasks, Drop(t)
  PROVE  Moves(t)
<1>1. Puts(lease, lease', t, NoLease) /\ Return(t) /\ UNCHANGED <<leased, queues>> /\ op[t].at = "rest"
  BY Zenon DEF Drop, Puts
<1>2. NoLease.block = None
  BY DEF NoLease
<1>. QED  BY <1>1, <1>2, ReturnCounts
-----------------------------------------------------------------------------
(* The count is a sum over the tasks. The facts about sums are proved by   *)
(* taking a least counterexample among the parts of a finite set.          *)

INSTANCE FiniteSetTheorems

\* A set of parts of a finite set has a least member.
LEMMA LeastSubset ==
  ASSUME NEW S, IsFiniteSet(S), NEW T \in SUBSET SUBSET S, T # {}
  PROVE  \E x \in T : \A y \in T : y \subseteq x => y = x
<1>1. IsWellFoundedOn(StrictSubsetOrdering(S), SUBSET S)
  BY FS_StrictSubsetOrderingWellFounded, FS_FiniteSubsetsOfFinite
<1>2. PICK x \in T : \A y \in T : ~(<<y, x>> \in StrictSubsetOrdering(S))
  BY <1>1, WFMin
<1>. QED  BY <1>2, Zenon DEF StrictSubsetOrdering

\* A set of natural numbers has a least member.
LEMMA LeastNat ==
  ASSUME NEW T \in SUBSET Nat, T # {}
  PROVE  \E x \in T : \A y \in T : x <= y
<1>. DEFINE R == {ss \in Nat \X Nat : ss[1] < ss[2]}
<1>1. IsWellFoundedOn(R, Nat)
  BY NatLessThanWellFounded, Zenon DEF OpToRel
<1>2. PICK x \in T : \A y \in T : ~(<<y, x>> \in R)
  BY <1>1, WFMin, Zenon
<1>3. ASSUME NEW y \in T PROVE x <= y
  <2>1. y < x => <<y, x>> \in R
    OBVIOUS
  <2>. QED  BY <1>2, <2>1
<1>. QED  BY <1>3

\* The element a fold takes first.
Chosen(s) == CHOOSE x \in s : TRUE

\* g gives the sum of w over every part of S.
Adds(g, w, S) ==
  g = [s \in SUBSET S |-> IF s = {} THEN 0 ELSE w[Chosen(s)] + g[s \ {Chosen(s)}]]

Total(w, S) == (CHOOSE g : Adds(g, w, S))[S]

\* What SumFunction computes.
LEMMA SumIsTotal ==
  ASSUME NEW w PROVE SumFunction(w) = Total(w, DOMAIN w)
BY DEF SumFunction, SumFunctionOnSet, FoldFunctionOnSet, MapThenFoldSet, Adds, Total, Chosen

LEMMA ChosenIn == ASSUME NEW s, s # {} PROVE Chosen(s) \in s
BY Zenon DEF Chosen

LEMMA AddsPart ==
  ASSUME NEW g, NEW w, NEW S, Adds(g, w, S), NEW s \in SUBSET S
  PROVE  g[s] = IF s = {} THEN 0 ELSE w[Chosen(s)] + g[s \ {Chosen(s)}]
BY Zenon DEF Adds

\* Sums of the same terms are the same.
LEMMA AddsAgree ==
  ASSUME NEW S, IsFiniteSet(S), NEW R, S \subseteq R, NEW Q, S \subseteq Q,
         NEW w, NEW v, NEW g, NEW h, Adds(g, w, R), Adds(h, v, Q), \A x \in S : w[x] = v[x]
  PROVE  g[S] = h[S]
<1>. DEFINE T == {s \in SUBSET S : g[s] # h[s]}
<1>. SUFFICES ASSUME T # {} PROVE FALSE
  OBVIOUS
<1>1. PICK s \in T : \A y \in T : y \subseteq s => y = s
  <2>1. T \in SUBSET SUBSET S
    OBVIOUS
  <2>. HIDE DEF T
  <2>. QED  BY <2>1, LeastSubset
<1>. DEFINE r == s \ {Chosen(s)}
<1>2. s \in SUBSET S /\ g[s] # h[s]
  OBVIOUS
<1>3. s # {} => r \in SUBSET S /\ r \subseteq s /\ r # s /\ Chosen(s) \in S
  BY <1>2, ChosenIn
<1>4. s # {} => g[r] = h[r]
  BY <1>1, <1>3
<1>5. /\ g[s] = IF s = {} THEN 0 ELSE w[Chosen(s)] + g[r]
      /\ h[s] = IF s = {} THEN 0 ELSE v[Chosen(s)] + h[r]
  BY <1>2, AddsPart
<1>. QED  BY <1>2, <1>3, <1>4, <1>5

\* The recursion that defines a sum has a solution.
LEMMA AddsExists ==
  ASSUME NEW S, IsFiniteSet(S), NEW w
  PROVE  \E g : Adds(g, w, S)
<1>. DEFINE T == {R \in SUBSET S : ~\E g : Adds(g, w, R)}
<1>. SUFFICES ASSUME T # {} PROVE FALSE
  OBVIOUS
<1>1. PICK R \in T : \A y \in T : y \subseteq R => y = R
  <2>1. T \in SUBSET SUBSET S
    OBVIOUS
  <2>. HIDE DEF T
  <2>. QED  BY <2>1, LeastSubset
<1>. DEFINE G(r) == CHOOSE g : Adds(g, w, r)
            all == [s \in SUBSET R |->
                      IF s = {} THEN 0 ELSE w[Chosen(s)] + G(s \ {Chosen(s)})[s \ {Chosen(s)}]]
<1>2. R \in SUBSET S /\ ~\E g : Adds(g, w, R)
  OBVIOUS
<1>3. ASSUME NEW r, r \subseteq R, r # R PROVE Adds(G(r), w, r) /\ IsFiniteSet(r)
  <2>1. r \in SUBSET S /\ r \notin T
    BY <1>1, <1>2, <1>3
  <2>2. \E g : Adds(g, w, r)
    BY <2>1
  <2>. QED  BY <2>1, <2>2, FS_Subset, Zenon
<1>4. ASSUME NEW r, r \subseteq R, r # R PROVE all[r] = G(r)[r]
  <2>. DEFINE q == r \ {Chosen(r)}
  <2>1. G(r)[r] = IF r = {} THEN 0 ELSE w[Chosen(r)] + G(r)[q]
    BY <1>3, <1>4, AddsPart
  <2>2. q \subseteq r /\ q \subseteq R /\ q # R
    BY <1>4
  <2>3. G(q)[q] = G(r)[q]
    <3>. HIDE DEF q, G
    <3>. QED  BY <1>3, <1>4, <2>2, AddsAgree
  <2>4. all[r] = IF r = {} THEN 0 ELSE w[Chosen(r)] + G(q)[q]
    BY <1>4
  <2>. QED  BY <2>1, <2>3, <2>4
<1>5. ASSUME NEW s \in SUBSET R, s # {} PROVE G(s \ {Chosen(s)})[s \ {Chosen(s)}] = all[s \ {Chosen(s)}]
  <2>1. s \ {Chosen(s)} \subseteq R /\ s \ {Chosen(s)} # R
    BY <1>5, ChosenIn
  <2>. HIDE DEF G, all
  <2>. QED  BY <1>4, <2>1
<1>6. all = [s \in SUBSET R |-> IF s = {} THEN 0 ELSE w[Chosen(s)] + all[s \ {Chosen(s)}]]
  <2>. HIDE DEF G
  <2>. QED BY <1>5, Zenon
<1>7. Adds(all, w, R)
  BY <1>6, Zenon DEF Adds
<1>. QED  BY <1>2, <1>7

LEMMA TotalStep ==
  ASSUME NEW S, IsFiniteSet(S), NEW w
  PROVE  Total(w, S) = IF S = {} THEN 0 ELSE w[Chosen(S)] + Total(w, S \ {Chosen(S)})
<1>. DEFINE G(r) == CHOOSE g : Adds(g, w, r)
            r == S \ {Chosen(S)}
<1>1. Adds(G(S), w, S)
  BY AddsExists, Zenon
<1>2. IsFiniteSet(r) /\ r \subseteq S
  BY FS_Subset
<1>3. Adds(G(r), w, r)
  BY <1>2, AddsExists, Zenon
<1>4. G(S)[S] = IF S = {} THEN 0 ELSE w[Chosen(S)] + G(S)[r]
  BY <1>1, AddsPart
<1>5. G(S)[r] = G(r)[r]
  <2>. HIDE DEF G, r
  <2>. QED  BY <1>1, <1>2, <1>3, AddsAgree
<1>. QED  BY <1>4, <1>5 DEF Total

LEMMA TotalSame ==
  ASSUME NEW S, IsFiniteSet(S), NEW w, NEW v, \A x \in S : w[x] = v[x]
  PROVE  Total(w, S) = Total(v, S)
<1>. DEFINE G(u) == CHOOSE g : Adds(g, u, S)
<1>1. Adds(G(w), w, S) /\ Adds(G(v), v, S)
  BY AddsExists, Zenon
<1>2. G(w)[S] = G(v)[S]
  <2>. HIDE DEF G
  <2>. QED  BY <1>1, AddsAgree
<1>. QED  BY <1>2 DEF Total

\* Any term can be taken out first.
LEMMA TotalTakes ==
  ASSUME NEW S, IsFiniteSet(S), NEW w, \A x \in S : w[x] \in Int
  PROVE  /\ Total(w, S) \in Int
         /\ \A x \in S : Total(w, S) = w[x] + Total(w, S \ {x})
<1>. DEFINE Takes(s) == /\ Total(w, s) \in Int
                        /\ \A x \in s : Total(w, s) = w[x] + Total(w, s \ {x})
            T == {s \in SUBSET S : ~Takes(s)}
<1>. SUFFICES ASSUME T # {} PROVE FALSE
  OBVIOUS
<1>1. PICK s \in T : \A y \in T : y \subseteq s => y = s
  <2>1. T \in SUBSET SUBSET S
    OBVIOUS
  <2>. HIDE DEF T
  <2>. QED  BY <2>1, LeastSubset
<1>2. s \in SUBSET S /\ ~Takes(s)
  OBVIOUS
<1>3. ASSUME NEW x \in s PROVE Takes(s \ {x})
  <2>1. s \ {x} \in SUBSET S /\ s \ {x} \subseteq s /\ s \ {x} # s
    BY <1>2
  <2>. HIDE DEF Takes
  <2>. QED  BY <1>1, <2>1
<1>. DEFINE c == Chosen(s)
<1>4. Total(w, s) = IF s = {} THEN 0 ELSE w[c] + Total(w, s \ {c})
  BY <1>2, FS_Subset, TotalStep, Zenon
<1>5. s # {} => c \in s /\ w[c] \in Int
  BY <1>2, ChosenIn
<1>. HIDE DEF c
<1>6. Total(w, s) \in Int
  BY <1>3, <1>4, <1>5
<1>7. ASSUME NEW x \in s PROVE Total(w, s) = w[x] + Total(w, s \ {x})
  <2>1. CASE x = c
    BY <1>4, <1>5, <2>1
  <2>2. CASE x # c
    <3>1. Total(w, s \ {c}) = w[x] + Total(w, (s \ {c}) \ {x})
      BY <1>3, <1>5, <2>2
    <3>2. Total(w, s \ {x}) = w[c] + Total(w, (s \ {x}) \ {c})
      BY <1>3, <1>5, <2>2
    <3>3. (s \ {x}) \ {c} = (s \ {c}) \ {x}
      OBVIOUS
    <3>4. Total(w, (s \ {c}) \ {x}) \in Int
      <4>1. x \in s \ {c}
        BY <2>2
      <4>2. Total(w, s \ {c}) \in Int /\ Total(w, s \ {x}) \in Int
        BY <1>3, <1>5
      <4>3. (s \ {c}) \ {x} \in SUBSET S /\ (s \ {c}) \ {x} \subseteq s /\ (s \ {c}) \ {x} # s
        BY <1>2
      <4>4. Takes((s \ {c}) \ {x})
        <5>. HIDE DEF Takes
        <5>. QED  BY <1>1, <4>3
      <4>. QED  BY <4>4
    <3>. QED  BY <1>2, <1>4, <1>5, <3>1, <3>2, <3>3, <3>4, SMTT(60)
  <2>. QED  BY <2>1, <2>2
<1>. QED  BY <1>2, <1>6, <1>7

\* A sum in which one term changes.
LEMMA SumChanges ==
  ASSUME NEW S, IsFiniteSet(S), NEW w \in [S -> Int], NEW v \in [S -> Int], NEW t \in S,
         \A x \in S \ {t} : v[x] = w[x]
  PROVE  SumFunction(w) \in Int /\ SumFunction(v) = SumFunction(w) - w[t] + v[t]
<1>. DEFINE R == S \ {t}
<1>1. IsFiniteSet(R)
  BY FS_Subset
<1>2. Total(w, R) = Total(v, R)
  BY <1>1, TotalSame
<1>3. /\ Total(w, S) \in Int /\ Total(w, S) = w[t] + Total(w, R)
      /\ Total(v, S) \in Int /\ Total(v, S) = v[t] + Total(v, R)
  BY TotalTakes
<1>4. Total(w, R) \in Int /\ w[t] \in Int /\ v[t] \in Int
  BY <1>1, TotalTakes
<1>5. SumFunction(w) = Total(w, S) /\ SumFunction(v) = Total(v, S)
  BY SumIsTotal
<1>. HIDE DEF R
<1>. QED  BY <1>2, <1>3, <1>4, <1>5

LEMMA SumZero ==
  ASSUME NEW S, IsFiniteSet(S)
  PROVE  SumFunction([x \in S |-> 0]) = 0
<1>. DEFINE z == [x \in S |-> 0]
            T == {s \in SUBSET S : Total(z, s) # 0}
<1>1. T = {}
  <2>. SUFFICES ASSUME T # {} PROVE FALSE
    OBVIOUS
  <2>1. PICK s \in T : \A y \in T : y \subseteq s => y = s
    <3>1. T \in SUBSET SUBSET S
      OBVIOUS
    <3>. HIDE DEF T
    <3>. QED  BY <3>1, LeastSubset
  <2>. DEFINE c == Chosen(s)
  <2>2. s \in SUBSET S /\ Total(z, s) # 0
    OBVIOUS
  <2>. HIDE DEF z
  <2>3. Total(z, s) = IF s = {} THEN 0 ELSE z[c] + Total(z, s \ {c})
    BY <2>2, FS_Subset, TotalStep, Zenon
  <2>4. s # {}
    BY <2>2, <2>3
  <2>5. c \in s
    BY <2>4, ChosenIn
  <2>6. Total(z, s \ {c}) = 0
    <3>1. s \ {c} \in SUBSET S /\ s \ {c} \subseteq s /\ s \ {c} # s
      BY <2>2, <2>5
    <3>. QED  BY <2>1, <3>1
  <2>7. z[c] = 0
    BY <2>2, <2>5 DEF z
  <2>. QED  BY <2>2, <2>3, <2>4, <2>6, <2>7
<1>2. Total(z, S) = 0
  BY <1>1
<1>3. DOMAIN z = S
  OBVIOUS
<1>. HIDE DEF z
<1>4. SumFunction(z) = 0
  BY <1>2, <1>3, SumIsTotal
<1>. QED  BY <1>4 DEF z
-----------------------------------------------------------------------------
(* The steps of the count.                                                 *)

\* A class that is large enough exists, because what is needed is one.
LEMMA AllocateCounts ==
  ASSUME BInv, Exact, NEW t \in Tasks, Allocate(t)
  PROVE  Moves(t)
<1>1. PICK b \in Blocks \ {used.id : used \in InUse \ {None}} :
        op' = [op EXCEPT ![t].at = "found",
                 ![t].hand = [id |-> b, capacity |-> Min({n \in Classes : n >= op[t].needed})]]
  BY Zenon DEF Allocate
<1>. DEFINE enough == {n \in Classes : n >= op[t].needed}
            c == Min(enough)
            block == [id |-> b, capacity |-> c]
            o == [op[t] EXCEPT !.at = "found", !.hand = block]
<1>2. /\ lease' = lease /\ leased' = leased /\ queues' = queues
      /\ Puts(op, op', t, o) /\ op[t].at = "shard"
  BY <1>1, Zenon DEF Allocate, Puts
<1>3. Becomes(t, lease[t], o)
  BY <1>2, PutSame DEF Becomes, BInv, Tasked
<1>4. c \in Nat
  <2>1. enough \in SUBSET Nat /\ op[t].needed \in enough
    BY <1>2, BoundsAssumption DEF Exact, Sized
  <2>. HIDE DEF enough
  <2>2. \E x \in enough : \A y \in enough : x <= y
    BY <2>1, LeastNat
  <2>3. c \in enough
    BY <2>2 DEF Min
  <2>. QED  BY <2>1, <2>3, Zenon
<1>. HIDE DEF c
<1>5. Capacity(block) \in Nat
  BY <1>4 DEF Capacity
<1>. HIDE DEF block
<1>6. Sized(lease[t], o) /\ Flight(o) = Flight(op[t])
  BY <1>2, <1>5 DEF BInv, Sound, Exact, Sized, Flight
<1>. HIDE DEF o
<1>. QED  BY <1>2, <1>3, <1>6, Uncounted, Zenon

Balanced(x, y) == x = y

Shift(A, a, c, C) == A \in Int /\ a \in Int /\ c \in Int /\ C = A - a + c

\* Two sums that change by one term each.
LEMMA Balance ==
  ASSUME NEW A, NEW a, NEW c, NEW C, Shift(A, a, c, C),
         NEW B, NEW b, NEW d, NEW D, Shift(B, b, d, D),
         NEW x, Balanced(x, A + B)
  PROVE  Balanced(x - a - b + c + d, C + D)
BY DEF Balanced, Shift

\* A step of t that moves the count by what t has more or less.
LEMMA Recount ==
  ASSUME BInv, Exact, NEW t \in Tasks, Moves(t)
  PROVE  Exact'
<1>0. PICK l, o :
        /\ Becomes(t, l, o) /\ Sized(l, o) /\ Cached'
        /\ leased' = leased - Capacity(lease[t].block) - Flight(op[t]) + Capacity(l.block) + Flight(o)
  BY Zenon DEF Moves
<1>. DEFINE w == [u \in Tasks |-> Capacity(lease[u].block)]
            v == [u \in Tasks |-> Capacity(lease'[u].block)]
            f == [u \in Tasks |-> Flight(op[u])]
            g == [u \in Tasks |-> Flight(op'[u])]
<1>1. /\ lease'[t] = l /\ \A x \in Tasks \ {t} : lease'[x] = lease[x]
      /\ op'[t] = o /\ \A x \in Tasks \ {t} : op'[x] = op[x]
  BY <1>0, Put DEF BInv, Tasked, Becomes
<1>2. \A u \in Tasks : Sized(lease'[u], op'[u])
  <2>. TAKE u \in Tasks
  <2>1. CASE u = t
    BY <1>0, <1>1, <2>1
  <2>2. CASE u # t
    BY <1>1, <2>2 DEF Exact
  <2>. QED  BY <2>1, <2>2
<1>3. ASSUME NEW k, NEW p, Sized(k, p) PROVE Capacity(k.block) \in Int /\ Flight(p) \in Int
  BY <1>3 DEF Sized, Flight
<1>4. w \in [Tasks -> Int] /\ v \in [Tasks -> Int] /\ f \in [Tasks -> Int] /\ g \in [Tasks -> Int]
  BY <1>2, <1>3 DEF Exact
<1>5. /\ \A x \in Tasks \ {t} : v[x] = w[x] /\ g[x] = f[x]
      /\ w[t] = Capacity(lease[t].block) /\ v[t] = Capacity(l.block)
      /\ f[t] = Flight(op[t]) /\ g[t] = Flight(o)
  BY <1>1
<1>6. LiveBytes = SumFunction(w) /\ LiveBytes' = SumFunction(v)
  BY Zenon DEF LiveBytes
<1>7. InFlight = SumFunction(f) /\ InFlight' = SumFunction(g)
  BY Zenon DEF InFlight, Flight
<1>. HIDE DEF w, v, f, g
<1>8. SumFunction(w) \in Int /\ SumFunction(v) = SumFunction(w) - w[t] + v[t]
  BY <1>4, <1>5, SumChanges, TasksAssumption
<1>9. SumFunction(f) \in Int /\ SumFunction(g) = SumFunction(f) - f[t] + g[t]
  BY <1>4, <1>5, SumChanges, TasksAssumption
<1>10. w[t] \in Int /\ v[t] \in Int /\ f[t] \in Int /\ g[t] \in Int
  BY <1>4
<1>11. leased = SumFunction(w) + SumFunction(f)
  BY <1>6, <1>7 DEF Exact, LeasedExact
<1>12. leased' = SumFunction(v) + SumFunction(g)
  <2>1. /\ leased' = leased - w[t] - f[t] + v[t] + g[t]
    BY <1>0, <1>5, Zenon
  <2>2. Shift(SumFunction(w), w[t], v[t], SumFunction(v))
    BY <1>8, <1>10, Zenon DEF Shift
  <2>3. Shift(SumFunction(f), f[t], g[t], SumFunction(g))
    BY <1>9, <1>10, Zenon DEF Shift
  <2>4. Balanced(leased, SumFunction(w) + SumFunction(f))
    BY <1>11, Zenon DEF Balanced
  <2>5. Balanced(leased - w[t] - f[t] + v[t] + g[t], SumFunction(v) + SumFunction(g))
    BY <2>2, <2>3, <2>4, Balance, Zenon
  <2>. QED  BY <2>1, <2>5, Zenon DEF Balanced
<1>13. leased' \in Int
  BY <1>8, <1>9, <1>10, <1>12
<1>. QED  BY <1>0, <1>2, <1>6, <1>7, <1>12, <1>13, Zenon DEF Exact, LeasedExact

LEMMA CountInit == Init => Exact
<1>. SUFFICES ASSUME Init PROVE Exact
  OBVIOUS
<1>1. /\ lease = [t \in Tasks |-> NoLease] /\ op = [t \in Tasks |-> Rest]
      /\ queues = [i \in Ring |-> <<>>] /\ leased = 0
  BY Zenon DEF Init
<1>2. \A t \in Tasks : lease[t] = NoLease /\ op[t] = Rest
  BY <1>1
<1>3. Sized(NoLease, Rest) /\ Capacity(NoLease.block) = 0 /\ Flight(Rest) = 0
  BY Zenon DEF Sized, NoLease, Rest, Flight, Capacity
<1>4. Cached
  BY <1>1 DEF Cached
<1>. DEFINE z == [t \in Tasks |-> 0]
<1>5. LiveBytes = SumFunction(z) /\ InFlight = SumFunction(z)
  <2>1. z = [t \in Tasks |-> Capacity(lease[t].block)] /\ z = [t \in Tasks |-> Flight(op[t])]
    BY <1>2, <1>3
  <2>. QED  BY <2>1, Zenon DEF LiveBytes, InFlight, Flight
<1>6. SumFunction(z) = 0
  BY SumZero, TasksAssumption
<1>. QED  BY <1>1, <1>2, <1>3, <1>4, <1>5, <1>6 DEF Exact, LeasedExact

LEMMA CountStep == BInv /\ Exact /\ [Next]_vars => Exact'
<1>. SUFFICES ASSUME BInv, Exact, [Next]_vars PROVE Exact'
  OBVIOUS
<1>1. CASE UNCHANGED vars
  <2>1. LiveBytes' = LiveBytes /\ InFlight' = InFlight
    BY <1>1, Zenon DEF vars, LiveBytes, InFlight
  <2>. QED  BY <1>1, <2>1 DEF vars, Exact, Cached, Ring, LeasedExact
<1>2. ASSUME NEW t \in Tasks, Step(t) PROVE Moves(t)
  BY <1>2, GetPopCounts, GetCountCounts, ScanShardCounts, ScanPopCounts,
     ScanPutBackCounts, ScanNextCounts, AllocateCounts, AllocateFailsCounts,
     GrowCountCounts, GrowCounts, PutPushCounts, PutUncountCounts, Zenon DEF Step
<1>3. ASSUME NEW t \in Tasks, Call(t) PROVE Moves(t)
  BY <1>3, GetShardCounts, GetEmptyCounts, UseCounts, ReleaseCounts, DropCounts,
     EnsureCounts, Zenon DEF Call
<1>. QED  BY <1>1, <1>2, <1>3, Recount, Zenon DEF Next

\* leased_bytes is the sum of the capacities that tasks hold, up to what the
\* operations under way have counted before they took it or gave back before
\* they uncount it (get, ensure, release_empty and put, buffer.rs), however their
\* steps interleave: no capacity is counted twice or stays counted after its
\* block is gone.
THEOREM LeasedBytesExact == Safety => []LeasedExact
<1>1. Exact => LeasedExact
  BY DEF Exact
<1>2. Init => BInv /\ Exact
  BY PoolInit, CountInit
<1>3. BInv /\ Exact /\ [Next]_vars => BInv' /\ Exact'
  BY PoolStep, CountStep
<1>. QED  BY <1>1, <1>2, <1>3, PTL DEF Safety
=============================================================================
