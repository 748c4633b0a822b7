----------------------------- MODULE KdfLimiter -----------------------------
(***************************************************************************)
(* The gate in front of the Argon2id key derivations of one process        *)
(* (crates/snell-runtime/src/kdf.rs).  `running` is a semaphore with one   *)
(* permit per derivation that may run at a time, `queue` a semaphore with  *)
(* one permit per task that may wait for one of those.  The derivation is  *)
(* a closure on the blocking pool that owns its running permit: dropping   *)
(* the future of the task that asked for it (a handshake timeout) does not *)
(* stop the closure.                                                       *)
(***************************************************************************)
EXTENDS Naturals, Sequences, FiniteSets

CONSTANTS Tasks,     \* connection tasks that ask for derivations, again and again
          Inflight,  \* permits of `running`
          Queued     \* permits of `queue`

ASSUME TasksAssumption  == IsFiniteSet(Tasks)
ASSUME LimitsAssumption == Inflight \in Nat \ {0} /\ Queued \in Nat

VARIABLES pc,         \* where each task is in derive()
          free,       \* available permits of `running`
          waiters,    \* tasks parked in running.acquire_owned(), longest first
          queueFree,  \* available permits of `queue`
          orphans     \* closures still running for tasks that were dropped

vars == <<pc, free, waiters, queueFree, orphans>>

Phases == {"idle", "missed", "queued", "waiting", "granted", "working", "joined"}

Holders == {t \in Tasks : pc[t] \in {"granted", "working"}}
Waiting == {t \in Tasks : pc[t] \in {"queued", "waiting", "granted"}}

Init ==
  /\ pc = [t \in Tasks |-> "idle"]
  /\ free = Inflight
  /\ waiters = <<>>
  /\ queueFree = Queued
  /\ orphans = 0

Goto(t, phase) == [pc EXCEPT ![t] = phase]

\* A returned permit goes straight to the longest waiter, otherwise it is
\* available again; `next` is where the tasks are once it has been returned.
Return(next) ==
  \/ /\ waiters = <<>>
     /\ free' = free + 1
     /\ pc' = next
     /\ UNCHANGED waiters
  \/ /\ waiters # <<>>
     /\ pc' = [next EXCEPT ![Head(waiters)] = "granted"]
     /\ waiters' = Tail(waiters)
     /\ UNCHANGED free

\* try_acquire_owned on `running`: with a permit, the closure is spawned.
TryRun(t) ==
  /\ pc[t] = "idle"
  /\ \/ free > 0 /\ free' = free - 1 /\ pc' = Goto(t, "working")
     \/ free = 0 /\ pc' = Goto(t, "missed") /\ UNCHANGED free
  /\ UNCHANGED <<waiters, queueFree, orphans>>

\* try_acquire on `queue`: without a permit derive fails with KdfQueueFull.
TryQueue(t) ==
  /\ pc[t] = "missed"
  /\ \/ queueFree > 0 /\ queueFree' = queueFree - 1 /\ pc' = Goto(t, "queued")
     \/ queueFree = 0 /\ pc' = Goto(t, "idle") /\ UNCHANGED queueFree
  /\ UNCHANGED <<free, waiters, orphans>>

\* Mutant: the task waits without looking whether a permit came back.
ParkBlindly(t) ==
  /\ pc[t] = "queued"
  /\ pc' = Goto(t, "waiting")
  /\ waiters' = Append(waiters, t)
  /\ UNCHANGED <<free, queueFree, orphans>>

\* Mutant: the task tries again and again and never joins the line.
ParkRetries(t) ==
  /\ pc[t] = "queued" /\ free > 0
  /\ free' = free - 1
  /\ pc' = Goto(t, "working")
  /\ queueFree' = queueFree + 1
  /\ UNCHANGED <<waiters, orphans>>

\* The first poll of acquire_owned: a permit that came back in the meantime
\* is taken at once, and the waiting permit is returned.
Park(t) ==
  /\ pc[t] = "queued"
  /\ \/ /\ free > 0
        /\ free' = free - 1
        /\ pc' = Goto(t, "working")
        /\ queueFree' = queueFree + 1
        /\ UNCHANGED waiters
     \/ /\ free = 0
        /\ pc' = Goto(t, "waiting")
        /\ waiters' = Append(waiters, t)
        /\ UNCHANGED <<free, queueFree>>
  /\ UNCHANGED orphans

\* A waiter that was handed a permit is polled and spawns its closure.
Run(t) ==
  /\ pc[t] = "granted"
  /\ pc' = Goto(t, "working")
  /\ queueFree' = queueFree + 1
  /\ UNCHANGED <<free, waiters, orphans>>

\* The closure ends (with a key, an error or a panic) and drops its permit.
Finish(t) ==
  /\ pc[t] = "working"
  /\ Return(Goto(t, "joined"))
  /\ UNCHANGED <<queueFree, orphans>>

FinishOrphan ==
  /\ orphans > 0
  /\ orphans' = orphans - 1
  /\ Return(pc)
  /\ UNCHANGED queueFree

Join(t) ==
  /\ pc[t] = "joined"
  /\ pc' = Goto(t, "idle")
  /\ UNCHANGED <<free, waiters, queueFree, orphans>>

Without(s, i) == SubSeq(s, 1, i - 1) \o SubSeq(s, i + 1, Len(s))

\* Mutant: a cancelled waiter keeps its place in the queue.
LeaveLineOnly(t) ==
  /\ pc[t] = "waiting"
  /\ pc' = Goto(t, "idle")
  /\ \E i \in DOMAIN waiters : waiters[i] = t /\ waiters' = Without(waiters, i)
  /\ UNCHANGED <<free, queueFree, orphans>>

\* The future is dropped at one of its awaits.  A parked waiter leaves the
\* line, a permit it was handed is returned, a spawned closure goes on alone.
LeaveLine(t) ==
  /\ pc[t] = "waiting"
  /\ pc' = Goto(t, "idle")
  /\ \E i \in DOMAIN waiters : waiters[i] = t /\ waiters' = Without(waiters, i)
  /\ queueFree' = queueFree + 1
  /\ UNCHANGED <<free, orphans>>

RefuseGrant(t) ==
  /\ pc[t] = "granted"
  /\ Return(Goto(t, "idle"))
  /\ queueFree' = queueFree + 1
  /\ UNCHANGED orphans

\* Mutant: the permit belongs to the future and not to the closure.
OrphanWithoutPermit(t) ==
  /\ pc[t] = "working"
  /\ Return(Goto(t, "idle"))
  /\ orphans' = orphans + 1
  /\ UNCHANGED queueFree

Orphan(t) ==
  /\ pc[t] = "working"
  /\ pc' = Goto(t, "idle")
  /\ orphans' = orphans + 1
  /\ UNCHANGED <<free, waiters, queueFree>>

Next ==
  \/ FinishOrphan
  \/ \E t \in Tasks : \/ TryRun(t) \/ TryQueue(t) \/ Park(t) \/ Run(t)
                      \/ Finish(t) \/ Join(t)
                      \/ LeaveLine(t) \/ RefuseGrant(t) \/ Orphan(t)

\* Tasks are polled once they can go on, and closures end; nobody has to ask
\* for a derivation or to give one up.
Fairness ==
  /\ WF_vars(FinishOrphan)
  /\ \A t \in Tasks : WF_vars(TryQueue(t) \/ Park(t) \/ Run(t) \/ Finish(t) \/ Join(t))

Spec == Init /\ [][Next]_vars /\ Fairness
-----------------------------------------------------------------------------
\* Every variable has its type; no permit is taken that is not there.
TypeOK ==
  /\ pc \in [Tasks -> Phases]
  /\ free \in Nat
  /\ waiters \in Seq(Tasks)
  /\ queueFree \in Nat
  /\ orphans \in Nat

\* Every running permit is available, handed to a waiter or owned by a
\* closure: grants, cancelled grants and orphaned closures neither leak a
\* permit nor return one twice, so at most Inflight derivations ever run
\* (kdf.rs, derive: the closure owns `permit`).
RunningConserved == free + Cardinality(Holders) + orphans = Inflight

\* Every waiting permit is available or held by a task between try_acquire and
\* the end of its wait, on the cancelled paths too: the line never exceeds
\* Queued and never loses a place (kdf.rs, derive: `_waiting`).
QueueSlotsConserved == queueFree + Cardinality(Waiting) = Queued

\* Neither semaphore of the gate loses a permit or gains one, on any path of
\* derive, the cancelled ones included.
PermitsConserved == RunningConserved /\ QueueSlotsConserved

\* The line holds each parked task once and nobody else, and no permit is idle
\* while somebody is parked: a returned permit is never lost to a waiter that
\* left (kdf.rs, derive: acquire_owned().await dropped by a timeout).
NoIdlePermit ==
  /\ waiters # <<>> => free = 0
  /\ {waiters[i] : i \in DOMAIN waiters} = {t \in Tasks : pc[t] = "waiting"}
  /\ \A i, j \in DOMAIN waiters : waiters[i] = waiters[j] => i = j

\* A task that got a place in the line gets its derivation, unless its own
\* future is dropped, whatever the others do (kdf.rs, derive).
QueuedRuns ==
  \A t \in Tasks : pc[t] \in {"queued", "waiting", "granted"} ~> pc[t] \in {"working", "idle"}
=============================================================================
