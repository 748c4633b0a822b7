----------------------------- MODULE BufferPool -----------------------------
(***************************************************************************)
(* The cache of session buffers (crates/snell-runtime/src/buffer.rs). A    *)
(* task leases a buffer, grows it, returns its storage when it is empty,   *)
(* and drops it. The cache is a ring of lock-free queues, the count of     *)
(* leased bytes an atomic integer: an operation is a sequence of atomic    *)
(* steps, and the steps of several tasks interleave.                       *)
(***************************************************************************)
EXTENDS Integers, Sequences, FiniteSetsExt

CONSTANTS Tasks,
          Blocks,        \* allocations the heap can hold
          Classes,       \* CLASSES: capacities of allocations
          Shards,        \* SHARDS
          CachedBlocks,  \* capacity of a shard's queue
          MaxCached,     \* MAX_CACHED_CAPACITY
          None           \* no block, no shard

ASSUME BoundsAssumption ==
  /\ Classes \subseteq Nat \ {0}
  /\ Shards \in Nat \ {0} /\ CachedBlocks \in Nat \ {0}
ASSUME TasksAssumption == IsFiniteSet(Tasks)
ASSUME NoneAssumption == None \notin 0..(Shards - 1)

VARIABLES next,    \* next, modulo Shards (which divides 2^64)
          leased,  \* leased_bytes
          queues,  \* the shards
          lease,   \* the PooledBuffer of each task
          op       \* the operation a task is in

vars == <<next, leased, queues, lease, op>>

Ring == 0..(Shards - 1)

NoLease == [held |-> FALSE, block |-> None, shard |-> None, live |-> FALSE]
Rest == [at |-> "rest", hand |-> None, shard |-> None, needed |-> 0, offset |-> 0, left |-> 0,
         bytes |-> 0]

Capacity(b) == IF b = None THEN 0 ELSE b.capacity

Init ==
  /\ next = 0 /\ leased = 0
  /\ queues = [i \in Ring |-> <<>>]
  /\ lease = [t \in Tasks |-> NoLease]
  /\ op = [t \in Tasks |-> Rest]

\* ArrayQueue::push: a full queue refuses the block, which is freed.
Pushed(queue, b) == IF Len(queue) < CachedBlocks THEN Append(queue, b) ELSE queue
-----------------------------------------------------------------------------
(* get and get_empty.                                                      *)

GetShard(t) ==
  /\ op[t].at = "rest" /\ ~lease[t].held
  /\ op' = [op EXCEPT ![t].at = "get", ![t].shard = next]
  /\ next' = (next + 1) % Shards
  /\ UNCHANGED <<leased, queues, lease>>

GetPop(t) ==
  LET queue == queues[op[t].shard]
  IN  /\ op[t].at = "get"
      /\ op' = [op EXCEPT ![t].at = "got", ![t].hand = IF queue = <<>> THEN None ELSE Head(queue)]
      /\ queues' = [queues EXCEPT ![op[t].shard] = IF queue = <<>> THEN <<>> ELSE Tail(queue)]
      /\ UNCHANGED <<next, leased, lease>>

GetCount(t) ==
  /\ op[t].at = "got"
  /\ leased' = leased + Capacity(op[t].hand)
  /\ lease' = [lease EXCEPT ![t] = [held |-> TRUE, block |-> op[t].hand,
                                    shard |-> op[t].shard, live |-> FALSE]]
  /\ op' = [op EXCEPT ![t] = Rest]
  /\ UNCHANGED <<next, queues>>

GetEmpty(t) ==
  /\ op[t].at = "rest" /\ ~lease[t].held
  /\ lease' = [lease EXCEPT ![t].held = TRUE]
  /\ UNCHANGED <<next, leased, queues, op>>

\* The session commits bytes to the buffer, or consumes all of them.
Use(t) ==
  /\ op[t].at = "rest" /\ lease[t].block # None
  /\ lease' = [lease EXCEPT ![t].live = ~@]
  /\ UNCHANGED <<next, leased, queues, op>>
-----------------------------------------------------------------------------
(* ensure and take_suitable.                                               *)

\* More is needed than the buffer has; a lease without a shard gets one.
Ensure(t, n) ==
  /\ op[t].at = "rest" /\ lease[t].held
  /\ Capacity(lease[t].block) < n
  /\ IF lease[t].shard = None
     THEN lease' = [lease EXCEPT ![t].shard = next] /\ next' = (next + 1) % Shards
     ELSE UNCHANGED <<lease, next>>
  /\ op' = [op EXCEPT ![t] = [Rest EXCEPT !.at = "shard", !.needed = n, !.shard = lease'[t].shard]]
  /\ UNCHANGED <<leased, queues>>

Scanned(t) == (op[t].shard + op[t].offset) % Shards

\* The scan of the next shard is bounded by the length it has now.
ScanShard(t) ==
  /\ op[t].at = "shard" /\ op[t].offset < Shards
  /\ op' = [op EXCEPT ![t].at = "scan", ![t].left = Len(queues[Scanned(t)])]
  /\ UNCHANGED <<next, leased, queues, lease>>

ScanPop(t) ==
  LET queue == queues[Scanned(t)]
  IN  /\ op[t].at = "scan" /\ op[t].left > 0 /\ queue # <<>>
      /\ op' = [op EXCEPT ![t].at = IF Head(queue).capacity >= op[t].needed THEN "found" ELSE "small",
                          ![t].hand = Head(queue)]
      /\ queues' = [queues EXCEPT ![Scanned(t)] = Tail(@)]
      /\ UNCHANGED <<next, leased, lease>>

\* Mutant: the count of blocks to look at is not lowered.
ScanPutBackForever(t) ==
  /\ op[t].at = "small"
  /\ queues' = [queues EXCEPT ![Scanned(t)] = Pushed(@, op[t].hand)]
  /\ op' = [op EXCEPT ![t].at = "scan", ![t].hand = None]
  /\ UNCHANGED <<next, leased, lease>>

ScanPutBack(t) ==
  /\ op[t].at = "small"
  /\ queues' = [queues EXCEPT ![Scanned(t)] = Pushed(@, op[t].hand)]
  /\ op' = [op EXCEPT ![t].at = "scan", ![t].hand = None, ![t].left = @ - 1]
  /\ UNCHANGED <<next, leased, lease>>

ScanNext(t) ==
  /\ op[t].at = "scan"
  /\ op[t].left = 0 \/ queues[Scanned(t)] = <<>>
  /\ op' = [op EXCEPT ![t].at = "shard", ![t].offset = @ + 1, ![t].left = 0]
  /\ UNCHANGED <<next, leased, queues, lease>>

InUse ==
  {lease[t].block : t \in Tasks} \cup {op[t].hand : t \in Tasks}
    \cup UNION {{queues[i][k] : k \in DOMAIN queues[i]} : i \in Ring}

\* No shard has a suitable block: allocate the smallest class that will do.
Allocate(t) ==
  /\ op[t].at = "shard" /\ op[t].offset = Shards
  /\ \E b \in Blocks \ {used.id : used \in InUse \ {None}} :
       op' = [op EXCEPT ![t].at = "found",
                ![t].hand = [id |-> b, capacity |-> Min({n \in Classes : n >= op[t].needed})]]
  /\ UNCHANGED <<next, leased, queues, lease>>

\* try_reserve_exact fails: ensure returns the error.
AllocateFails(t) ==
  /\ op[t].at = "shard" /\ op[t].offset = Shards
  /\ op' = [op EXCEPT ![t] = Rest]
  /\ UNCHANGED <<next, leased, queues, lease>>

GrowCount(t) ==
  /\ op[t].at = "found"
  /\ leased' = leased + Capacity(op[t].hand)
  /\ op' = [op EXCEPT ![t].at = "grow"]
  /\ UNCHANGED <<next, queues, lease>>

\* Mutant: the old capacity stays counted.
GrowOnly(t) ==
  /\ op[t].at = "grow"
  /\ lease' = [lease EXCEPT ![t].block = op[t].hand]
  /\ op' = [op EXCEPT ![t] = Rest]
  /\ UNCHANGED <<next, leased, queues>>

\* replace_storage keeps the live bytes; the old storage is uncounted and freed.
Grow(t) ==
  /\ op[t].at = "grow"
  /\ lease' = [lease EXCEPT ![t].block = op[t].hand]
  /\ leased' = leased - Capacity(lease[t].block)
  /\ op' = [op EXCEPT ![t] = Rest]
  /\ UNCHANGED <<next, queues>>
-----------------------------------------------------------------------------
(* release_empty, drop and put.                                            *)

\* put returns at once for a buffer without storage.
Return(t) ==
  op' = [op EXCEPT ![t] =
           IF lease[t].block = None \/ lease[t].shard = None THEN Rest
           ELSE [Rest EXCEPT !.at = "put", !.hand = lease[t].block, !.shard = lease[t].shard,
                             !.bytes = lease[t].block.capacity]]

\* Mutant: the shard is taken before the buffer is known to be empty.
ReleaseShard(t) ==
  /\ op[t].at = "rest" /\ lease[t].held
  /\ IF lease[t].live
     THEN lease' = [lease EXCEPT ![t].shard = None] /\ UNCHANGED op
     ELSE Return(t) /\ lease' = [lease EXCEPT ![t].block = None, ![t].shard = None]
  /\ UNCHANGED <<next, leased, queues>>

\* release_empty: the lease stays, without storage and without a shard.
Release(t) ==
  /\ op[t].at = "rest" /\ lease[t].held /\ ~lease[t].live
  /\ Return(t)
  /\ lease' = [lease EXCEPT ![t].block = None, ![t].shard = None]
  /\ UNCHANGED <<next, leased, queues>>

Drop(t) ==
  /\ op[t].at = "rest" /\ lease[t].held
  /\ Return(t)
  /\ lease' = [lease EXCEPT ![t] = NoLease]
  /\ UNCHANGED <<next, leased, queues>>

\* Mutant: the returning task keeps the block in hand.
PutPushKeeps(t) ==
  /\ op[t].at = "put"
  /\ queues' = [queues EXCEPT ![op[t].shard] = Pushed(@, op[t].hand)]
  /\ op' = [op EXCEPT ![t].at = "uncount"]
  /\ UNCHANGED <<next, leased, lease>>

\* The block is in the cache, and may be leased again, before it is uncounted.
PutPush(t) ==
  /\ op[t].at = "put"
  /\ queues' = [queues EXCEPT ![op[t].shard] =
                  IF op[t].bytes <= MaxCached THEN Pushed(@, op[t].hand) ELSE @]
  /\ op' = [op EXCEPT ![t].at = "uncount", ![t].hand = None]
  /\ UNCHANGED <<next, leased, lease>>

PutUncount(t) ==
  /\ op[t].at = "uncount"
  /\ leased' = leased - op[t].bytes
  /\ op' = [op EXCEPT ![t] = Rest]
  /\ UNCHANGED <<next, queues, lease>>
-----------------------------------------------------------------------------
Step(t) ==
  \/ GetPop(t) \/ GetCount(t)
  \/ ScanShard(t) \/ ScanPop(t) \/ ScanPutBack(t) \/ ScanNext(t)
  \/ Allocate(t) \/ AllocateFails(t) \/ GrowCount(t) \/ Grow(t)
  \/ PutPush(t) \/ PutUncount(t)

Call(t) ==
  \/ GetShard(t) \/ GetEmpty(t) \/ Use(t) \/ Release(t) \/ Drop(t)
  \/ \E n \in Classes : Ensure(t, n)

Next == \E t \in Tasks : Step(t) \/ Call(t)

Safety == Init /\ [][Next]_vars

\* A running thread gets on with its operation.
Spec == Safety /\ \A t \in Tasks : WF_vars(Step(t))
-----------------------------------------------------------------------------
\* The bytes of live leases, and those an operation has counted in advance or
\* not yet uncounted.
LiveBytes == SumFunction([t \in Tasks |-> Capacity(lease[t].block)])
InFlight ==
  SumFunction([t \in Tasks |-> IF op[t].at = "grow" THEN Capacity(op[t].hand) ELSE op[t].bytes])

\* leased_bytes never wraps below zero and never reports less than the live
\* capacities; it is exact whenever no operation is under way. It rests on
\* counting before growing and uncounting after caching, on every path
\* (leased_bytes: "Sum of live backing capacities").
LeasedExact == leased = LiveBytes + InFlight

\* b and c are not the same allocation.
Apart(b, c) == b = None \/ c = None \/ b.id # c.id

\* Storage belongs to one lease, one queue slot or one operation at a time:
\* nobody is handed a buffer that another task still uses (get, ensure, put).
\* And a lease has its storage only together with the shard to give it back to:
\* release takes both or neither, so no block leaks.
Exclusive ==
  /\ \A t, u \in Tasks :
       /\ Apart(lease[t].block, op[u].hand)
       /\ t # u => Apart(lease[t].block, lease[u].block) /\ Apart(op[t].hand, op[u].hand)
  /\ \A i \in Ring : \A k \in DOMAIN queues[i] :
       /\ \A t \in Tasks : Apart(queues[i][k], lease[t].block) /\ Apart(queues[i][k], op[t].hand)
       /\ \A j \in Ring : \A l \in DOMAIN queues[j] :
            (i # j \/ k # l) => Apart(queues[i][k], queues[j][l])
  /\ \A t \in Tasks : lease[t].block # None => lease[t].held /\ lease[t].shard # None

\* "Bound the scan by the initial shard length, even if other threads return
\* buffers concurrently": every call of ensure returns (take_suitable).
EnsureEnds == \A t \in Tasks : (op[t].at = "shard") ~> (op[t].at = "rest")
=============================================================================
