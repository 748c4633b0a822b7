-------------------------- MODULE KdfLimiterProofs --------------------------
(***************************************************************************)
(* The permits and the waiting line of KdfLimiter, for every number of     *)
(* tasks and every pair of limits.                                         *)
(***************************************************************************)
EXTENDS KdfLimiter, FiniteSetTheorems, SequenceTheorems, TLAPS

\* A task enters or leaves a set of tasks: its cardinality moves by one.
LEMMA Enter ==
  ASSUME NEW S \in SUBSET Tasks, NEW t \in Tasks \ S
  PROVE  /\ Cardinality(S) \in Nat
         /\ Cardinality(S \cup {t}) = Cardinality(S) + 1
BY TasksAssumption, FS_Subset, FS_CardinalityType, FS_AddElement

\* The same for a task that leaves.
LEMMA Leave ==
  ASSUME NEW S \in SUBSET Tasks, NEW t \in S
  PROVE  /\ Cardinality(S) \in Nat \ {0}
         /\ Cardinality(S \ {t}) = Cardinality(S) - 1
<1>1. IsFiniteSet(S)
  BY TasksAssumption, FS_Subset
<1>2. Cardinality(S) \in Nat /\ Cardinality(S) # 0
  BY <1>1, FS_CardinalityType, FS_EmptySet
<1>. QED  BY <1>1, <1>2, FS_RemoveElement, Zenon

\* Taking the entry at i out of the line leaves the others, once each.
LEMMA WithoutProperties ==
  ASSUME NEW s \in Seq(Tasks), NEW i \in DOMAIN s,
         \A j, k \in DOMAIN s : s[j] = s[k] => j = k
  PROVE  LET w == Without(s, i) IN
         /\ w \in Seq(Tasks)
         /\ {w[j] : j \in DOMAIN w} = {s[j] : j \in DOMAIN s} \ {s[i]}
         /\ \A j, k \in DOMAIN w : w[j] = w[k] => j = k
<1>. DEFINE a == SubSeq(s, 1, i - 1)
            b == SubSeq(s, i + 1, Len(s))
            w == a \o b
<1>. HIDE DEF a, b, w
<1>1. /\ Len(s) \in Nat
      /\ DOMAIN s = 1..Len(s)
      /\ i \in 1..Len(s)
      /\ \A j \in 1..Len(s) : s[j] \in Tasks
  OBVIOUS
<1>2. /\ a \in Seq(Tasks)
      /\ Len(a) = i - 1
      /\ \A j \in 1..(i - 1) : a[j] = s[j]
  <2>1. \A j \in 1..(i - 1) : s[j] \in Tasks
    BY <1>1
  <2>2. /\ a \in Seq(Tasks)
        /\ Len(a) = IF 1 <= i - 1 THEN (i - 1) - 1 + 1 ELSE 0
        /\ \A j \in 1..((i - 1) - 1 + 1) : a[j] = s[1 + j - 1]
    BY <1>1, <2>1, SubSeqProperties, SMTT(30) DEF a
  <2>. QED  BY <1>1, <2>2, SMTT(30)
<1>3. /\ b \in Seq(Tasks)
      /\ Len(b) = Len(s) - i
      /\ \A j \in 1..(Len(s) - i) : b[j] = s[i + j]
  <2>1. \A j \in (i + 1)..Len(s) : s[j] \in Tasks
    BY <1>1
  <2>2. /\ b \in Seq(Tasks)
        /\ Len(b) = IF i + 1 <= Len(s) THEN Len(s) - (i + 1) + 1 ELSE 0
        /\ \A j \in 1..(Len(s) - (i + 1) + 1) : b[j] = s[(i + 1) + j - 1]
    BY <1>1, <2>1, SubSeqProperties, SMTT(30) DEF b
  <2>. QED  BY <1>1, <2>2, SMTT(30)
<1>4. /\ w \in Seq(Tasks)
      /\ Len(w) = Len(s) - 1
      /\ \A j \in 1..(Len(s) - 1) : w[j] = IF j < i THEN s[j] ELSE s[j + 1]
  <2>1. /\ w \in Seq(Tasks)
        /\ Len(w) = Len(a) + Len(b)
        /\ \A j \in 1..(Len(a) + Len(b)) :
             w[j] = IF j <= Len(a) THEN a[j] ELSE b[j - Len(a)]
    <3>1. a \in Seq(Tasks) /\ b \in Seq(Tasks)
      BY <1>2, <1>3
    <3>. QED  BY <3>1, ConcatProperties, Zenon DEF w
  <2>2. ASSUME NEW j \in 1..(Len(s) - 1)
        PROVE  w[j] = IF j < i THEN s[j] ELSE s[j + 1]
    <3>0. Len(a) = i - 1 /\ Len(b) = Len(s) - i
      BY <1>2, <1>3, Zenon
    <3>3. j \in 1..(Len(a) + Len(b))
      BY <1>1, <3>0
    <3>1. CASE j < i
      <4>1. j <= Len(a) /\ j \in 1..(i - 1)
        BY <1>1, <3>0, <3>1
      <4>. QED  BY <1>2, <2>1, <3>1, <3>3, <4>1, Zenon
    <3>2. CASE ~(j < i)
      <4>1. /\ j - (i - 1) \in 1..(Len(s) - i) /\ i + (j - (i - 1)) = j + 1
            /\ ~(j <= Len(a)) /\ j - Len(a) = j - (i - 1)
        BY <1>1, <3>0, <3>2
      <4>2. w[j] = b[j - (i - 1)]
        BY <2>1, <3>3, <4>1, Zenon
      <4>. QED  BY <1>3, <3>2, <4>1, <4>2, Zenon
    <3>. QED  BY <3>1, <3>2, Zenon
  <2>3. Len(w) = Len(s) - 1
    BY <1>1, <1>2, <1>3, <2>1
  <2>. QED  BY <2>1, <2>2, <2>3, Zenon
<1>5. DOMAIN w = 1..(Len(s) - 1)
  BY <1>4
<1>6. {w[j] : j \in DOMAIN w} = {s[j] : j \in DOMAIN s} \ {s[i]}
  <2>1. ASSUME NEW j \in DOMAIN w
        PROVE  w[j] \in {s[k] : k \in DOMAIN s} \ {s[i]}
    <3>0. j \in 1..(Len(s) - 1)
      BY <1>5, Zenon
    <3>1. CASE j < i
      <4>1. j \in DOMAIN s /\ j # i
        BY <1>1, <3>0, <3>1
      <4>. QED  BY <1>4, <3>0, <3>1, <4>1, Zenon
    <3>2. CASE ~(j < i)
      <4>1. j + 1 \in DOMAIN s /\ j + 1 # i
        BY <1>1, <3>0, <3>2
      <4>. QED  BY <1>4, <3>0, <3>2, <4>1, Zenon
    <3>. QED  BY <3>1, <3>2, Zenon
  <2>2. ASSUME NEW k \in DOMAIN s, k # i
        PROVE  \E j \in DOMAIN w : w[j] = s[k]
    <3>1. CASE k < i
      <4>1. k \in 1..(Len(s) - 1)
        BY <1>1, <3>1
      <4>. QED  BY <1>4, <1>5, <3>1, <4>1, Zenon
    <3>2. CASE ~(k < i)
      <4>1. k - 1 \in 1..(Len(s) - 1) /\ ~(k - 1 < i) /\ (k - 1) + 1 = k
        BY <1>1, <2>2, <3>2
      <4>2. w[k - 1] = s[k]
        BY <1>4, <4>1, Zenon
      <4>. QED  BY <1>5, <4>1, <4>2, Zenon
    <3>. QED  BY <3>1, <3>2, Zenon
  <2>3. ASSUME NEW x \in {w[j] : j \in DOMAIN w}
        PROVE  x \in {s[k] : k \in DOMAIN s} \ {s[i]}
    <3>1. PICK j \in DOMAIN w : x = w[j]
      BY Zenon
    <3>. QED  BY <2>1, <3>1, Zenon
  <2>4. ASSUME NEW x \in {s[k] : k \in DOMAIN s} \ {s[i]}
        PROVE  x \in {w[j] : j \in DOMAIN w}
    <3>1. PICK k \in DOMAIN s : x = s[k]
      BY Zenon
    <3>2. k # i
      BY <3>1, Zenon
    <3>3. PICK j \in DOMAIN w : w[j] = s[k]
      BY <2>2, <3>1, <3>2, Zenon
    <3>. QED  BY <3>1, <3>3, Zenon
  <2>. QED  BY <2>3, <2>4, Zenon
<1>7. \A j, k \in DOMAIN w : w[j] = w[k] => j = k
  <2>. SUFFICES ASSUME NEW j \in DOMAIN w, NEW k \in DOMAIN w, w[j] = w[k]
                PROVE  j = k
    OBVIOUS
  <2>. DEFINE at(n) == IF n < i THEN n ELSE n + 1
  <2>1. at(j) \in DOMAIN s /\ at(k) \in DOMAIN s
    BY <1>1, <1>5
  <2>2. w[j] = s[at(j)] /\ w[k] = s[at(k)]
    BY <1>4, <1>5
  <2>3. at(j) = at(k)
    BY <2>1, <2>2, Zenon
  <2>. QED  BY <1>1, <1>5, <2>3
<1>. QED  BY <1>4, <1>6, <1>7, Zenon DEF Without, w, a, b
-----------------------------------------------------------------------------
\* The inductive invariant: the two counts need to know that the head of the
\* line is parked, hence holds no running permit and does hold a waiting one.
IInv == TypeOK /\ NoIdlePermit /\ RunningConserved /\ QueueSlotsConserved

\* The head of the line is parked, and the rest of the line has it no more.
LEMMA HeadOfLine ==
  ASSUME TypeOK, NoIdlePermit, waiters # <<>>
  PROVE  /\ Head(waiters) \in Tasks
         /\ pc[Head(waiters)] = "waiting"
         /\ free = 0
         /\ Tail(waiters) \in Seq(Tasks)
         /\ {Tail(waiters)[i] : i \in DOMAIN Tail(waiters)}
              = {waiters[i] : i \in DOMAIN waiters} \ {Head(waiters)}
         /\ \A i, j \in DOMAIN Tail(waiters) : Tail(waiters)[i] = Tail(waiters)[j] => i = j
<1>1. /\ waiters \in Seq(Tasks)
      /\ Len(waiters) \in Nat \ {0}
      /\ DOMAIN waiters = 1..Len(waiters)
      /\ 1 \in DOMAIN waiters
      /\ Head(waiters) = waiters[1]
  BY DEF TypeOK
<1>2. /\ Tail(waiters) \in Seq(Tasks)
      /\ DOMAIN Tail(waiters) = 1..(Len(waiters) - 1)
      /\ \A i \in 1..(Len(waiters) - 1) : Tail(waiters)[i] = waiters[i + 1]
  BY <1>1
<1>3. waiters[1] \in {t \in Tasks : pc[t] = "waiting"}
  BY <1>1 DEF NoIdlePermit
<1>4. {Tail(waiters)[i] : i \in DOMAIN Tail(waiters)}
        = {waiters[i] : i \in DOMAIN waiters} \ {waiters[1]}
  <2>1. ASSUME NEW i \in 1..(Len(waiters) - 1)
        PROVE  /\ i + 1 \in DOMAIN waiters /\ i + 1 # 1
               /\ Tail(waiters)[i] = waiters[i + 1]
    BY <1>1, <1>2
  <2>2. ASSUME NEW k \in DOMAIN waiters, k # 1
        PROVE  /\ k - 1 \in DOMAIN Tail(waiters)
               /\ Tail(waiters)[k - 1] = waiters[k]
    BY <1>1, <1>2, <2>2
  <2>3. ASSUME NEW x \in {Tail(waiters)[i] : i \in DOMAIN Tail(waiters)}
        PROVE  x \in {waiters[i] : i \in DOMAIN waiters} \ {waiters[1]}
    <3>1. PICK i \in 1..(Len(waiters) - 1) : x = Tail(waiters)[i]
      BY <1>2
    <3>2. i + 1 \in DOMAIN waiters /\ i + 1 # 1 /\ x = waiters[i + 1]
      BY <2>1, <3>1
    <3>3. waiters[i + 1] # waiters[1]
      BY <1>1, <3>2 DEF NoIdlePermit
    <3>. QED  BY <3>2, <3>3
  <2>4. ASSUME NEW x \in {waiters[i] : i \in DOMAIN waiters} \ {waiters[1]}
        PROVE  x \in {Tail(waiters)[i] : i \in DOMAIN Tail(waiters)}
    <3>1. PICK k \in DOMAIN waiters : k # 1 /\ x = waiters[k]
      OBVIOUS
    <3>. QED  BY <2>2, <3>1, Zenon
  <2>. QED  BY <2>3, <2>4, Zenon
<1>5. \A i, j \in DOMAIN Tail(waiters) : Tail(waiters)[i] = Tail(waiters)[j] => i = j
  <2>. SUFFICES ASSUME NEW i \in 1..(Len(waiters) - 1), NEW j \in 1..(Len(waiters) - 1),
                       waiters[i + 1] = waiters[j + 1]
                PROVE  i = j
    BY <1>2
  <2>1. i + 1 \in DOMAIN waiters /\ j + 1 \in DOMAIN waiters
    BY <1>1
  <2>. QED  BY <2>1 DEF NoIdlePermit
<1>. QED  BY <1>1, <1>2, <1>3, <1>4, <1>5, Zenon DEF NoIdlePermit

\* Every step keeps the types.
LEMMA TypesPreserved == TypeOK /\ NoIdlePermit /\ [Next]_vars => TypeOK'
<1>. SUFFICES ASSUME TypeOK, NoIdlePermit, [Next]_vars
              PROVE  TypeOK'
  OBVIOUS
<1>. USE DEF TypeOK, Phases, Goto
<1>1. ASSUME NEW next \in [Tasks -> Phases], Return(next)
      PROVE  pc' \in [Tasks -> Phases] /\ free' \in Nat /\ waiters' \in Seq(Tasks)
  <2>1. CASE waiters = <<>>
    BY <1>1, <2>1 DEF Return
  <2>2. CASE waiters # <<>>
    <3>1. pc' = [next EXCEPT ![Head(waiters)] = "granted"] /\ waiters' = Tail(waiters) /\ free' = free
      BY <1>1, <2>2 DEF Return
    <3>. QED  BY <2>2, <3>1, HeadOfLine
  <2>. QED  BY <2>1, <2>2
<1>2. CASE FinishOrphan
  BY <1>1, <1>2 DEF FinishOrphan
<1>3. ASSUME NEW t \in Tasks, TryRun(t) PROVE TypeOK'
  BY <1>3 DEF TryRun
<1>4. ASSUME NEW t \in Tasks, TryQueue(t) PROVE TypeOK'
  BY <1>4 DEF TryQueue
<1>5. ASSUME NEW t \in Tasks, Park(t) PROVE TypeOK'
  <2>1. CASE free > 0
    BY <1>5, <2>1 DEF Park
  <2>2. CASE free = 0
    <3>1. Append(waiters, t) \in Seq(Tasks)
      OBVIOUS
    <3>. QED  BY <1>5, <2>2, <3>1 DEF Park
  <2>. QED  BY <2>1, <2>2
<1>6. ASSUME NEW t \in Tasks, Run(t) PROVE TypeOK'
  BY <1>6 DEF Run
<1>7. ASSUME NEW t \in Tasks, Finish(t) PROVE TypeOK'
  <2>1. Goto(t, "joined") \in [Tasks -> Phases]
    OBVIOUS
  <2>. QED  BY <1>1, <1>7, <2>1, Zenon DEF Finish
<1>8. ASSUME NEW t \in Tasks, Join(t) PROVE TypeOK'
  BY <1>8 DEF Join
<1>9. ASSUME NEW t \in Tasks, LeaveLine(t) PROVE TypeOK'
  <2>1. PICK i \in DOMAIN waiters : waiters' = Without(waiters, i)
    BY <1>9 DEF LeaveLine
  <2>2. waiters' \in Seq(Tasks)
    BY <2>1, WithoutProperties DEF NoIdlePermit
  <2>. QED  BY <1>9, <2>2 DEF LeaveLine
<1>10. ASSUME NEW t \in Tasks, RefuseGrant(t) PROVE TypeOK'
  <2>1. Goto(t, "idle") \in [Tasks -> Phases]
    OBVIOUS
  <2>2. Return(Goto(t, "idle")) /\ queueFree' = queueFree + 1 /\ orphans' = orphans
    BY <1>10 DEF RefuseGrant
  <2>3. pc' \in [Tasks -> Phases] /\ free' \in Nat /\ waiters' \in Seq(Tasks)
    BY <1>1, <2>1, <2>2, Zenon
  <2>. QED  BY <2>2, <2>3
<1>11. ASSUME NEW t \in Tasks, Orphan(t) PROVE TypeOK'
  BY <1>11 DEF Orphan
<1>12. CASE UNCHANGED vars
  BY <1>12 DEF vars
<1>. QED
  BY <1>2, <1>3, <1>4, <1>5, <1>6, <1>7, <1>8, <1>9, <1>10, <1>11, <1>12 DEF Next

\* Every step keeps the line exact and no permit idle beside it.
LEMMA LinePreserved == TypeOK /\ TypeOK' /\ NoIdlePermit /\ [Next]_vars => NoIdlePermit'
<1>. SUFFICES ASSUME TypeOK, TypeOK', NoIdlePermit, [Next]_vars
              PROVE  NoIdlePermit'
  OBVIOUS
<1>. DEFINE Parked == {u \in Tasks : pc[u] = "waiting"}
            Line(s) == {s[i] : i \in DOMAIN s}
            Once(s) == \A i, j \in DOMAIN s : s[i] = s[j] => i = j
\* A step that leaves the line alone.
<1>1. ASSUME UNCHANGED waiters, waiters # <<>> => free' = 0,
             \A u \in Tasks : pc'[u] = "waiting" <=> pc[u] = "waiting"
      PROVE  NoIdlePermit'
  BY <1>1 DEF NoIdlePermit
<1>2. ASSUME NEW next \in [Tasks -> Phases], Return(next),
             \A u \in Tasks : next[u] = "waiting" <=> pc[u] = "waiting"
      PROVE  NoIdlePermit'
  <2>1. CASE waiters = <<>>
    BY <1>1, <1>2, <2>1 DEF Return
  <2>2. CASE waiters # <<>>
    <3>. DEFINE h == Head(waiters)
    <3>1. /\ pc' = [next EXCEPT ![h] = "granted"]
          /\ waiters' = Tail(waiters)
          /\ free' = free
      BY <1>2, <2>2 DEF Return
    <3>2. {u \in Tasks : pc'[u] = "waiting"} = Parked \ {h}
      BY <1>2, <2>2, <3>1, HeadOfLine
    <3>3. Line(Tail(waiters)) = Line(waiters) \ {h} /\ Once(Tail(waiters)) /\ free = 0
      BY <2>2, HeadOfLine
    <3>4. Line(waiters) = Parked
      BY DEF NoIdlePermit
    <3>5. Line(waiters') = Parked \ {h} /\ Once(waiters') /\ free' = 0
      <4>. HIDE DEF Line, Once, h, Parked
      <4>. QED  BY <3>1, <3>3, <3>4
    <3>. QED  BY <3>2, <3>5 DEF NoIdlePermit
  <2>. QED  BY <2>1, <2>2
<1>3. CASE FinishOrphan
  BY <1>2, <1>3 DEF FinishOrphan, TypeOK
<1>4. ASSUME NEW t \in Tasks, TryRun(t) \/ TryQueue(t) \/ Run(t) \/ Join(t) \/ Orphan(t)
      PROVE  NoIdlePermit'
  BY <1>1, <1>4 DEF TryRun, TryQueue, Run, Join, Orphan, Goto, TypeOK, NoIdlePermit
<1>5. ASSUME NEW t \in Tasks, Park(t) PROVE NoIdlePermit'
  <2>1. CASE free > 0
    BY <1>1, <1>5, <2>1 DEF Park, Goto, TypeOK, NoIdlePermit
  <2>2. CASE free = 0
    <3>1. /\ pc[t] = "queued"
          /\ pc' = [pc EXCEPT ![t] = "waiting"]
          /\ waiters' = Append(waiters, t)
          /\ free' = 0
      BY <1>5, <2>2 DEF Park, Goto, TypeOK
    <3>2. /\ DOMAIN waiters = 1..Len(waiters)
          /\ DOMAIN waiters' = 1..(Len(waiters) + 1)
          /\ \A i \in 1..Len(waiters) : waiters'[i] = waiters[i]
          /\ waiters'[Len(waiters) + 1] = t
          /\ Len(waiters) \in Nat
      BY <3>1 DEF TypeOK
    <3>3. t \notin Line(waiters)
      BY <3>1 DEF NoIdlePermit
    <3>4. Line(waiters)' = Line(waiters) \cup {t}
      BY <3>2
    <3>5. Once(waiters)'
      BY <3>2, <3>3 DEF NoIdlePermit
    <3>6. {u \in Tasks : pc'[u] = "waiting"} = Parked \cup {t}
      BY <3>1 DEF TypeOK
    <3>. QED  BY <3>1, <3>4, <3>5, <3>6 DEF NoIdlePermit
  <2>. QED  BY <2>1, <2>2 DEF TypeOK
<1>6. ASSUME NEW t \in Tasks, Finish(t) PROVE NoIdlePermit'
  <2>1. /\ Goto(t, "joined") \in [Tasks -> Phases]
        /\ \A u \in Tasks : Goto(t, "joined")[u] = "waiting" <=> pc[u] = "waiting"
    BY <1>6 DEF Finish, Goto, TypeOK, Phases
  <2>. QED  BY <1>2, <1>6, <2>1 DEF Finish
<1>7. ASSUME NEW t \in Tasks, RefuseGrant(t) PROVE NoIdlePermit'
  <2>1. /\ Goto(t, "idle") \in [Tasks -> Phases]
        /\ \A u \in Tasks : Goto(t, "idle")[u] = "waiting" <=> pc[u] = "waiting"
    BY <1>7 DEF RefuseGrant, Goto, TypeOK, Phases
  <2>. QED  BY <1>2, <1>7, <2>1 DEF RefuseGrant
<1>8. ASSUME NEW t \in Tasks, LeaveLine(t) PROVE NoIdlePermit'
  <2>1. PICK i \in DOMAIN waiters : waiters[i] = t /\ waiters' = Without(waiters, i)
    BY <1>8 DEF LeaveLine
  <2>2. Line(waiters)' = Line(waiters) \ {t} /\ Once(waiters)'
    <3>1. /\ waiters \in Seq(Tasks)
          /\ \A j, k \in DOMAIN waiters : waiters[j] = waiters[k] => j = k
      BY DEF NoIdlePermit, TypeOK
    <3>2. Line(Without(waiters, i)) = Line(waiters) \ {t} /\ Once(Without(waiters, i))
      BY <2>1, <3>1, WithoutProperties, Zenon
    <3>. QED  BY <2>1, <3>2, Zenon
  <2>3. {u \in Tasks : pc'[u] = "waiting"} = Parked \ {t}
    BY <1>8 DEF LeaveLine, Goto, TypeOK
  <2>4. waiters # <<>> /\ free' = free
    BY <1>8, <2>1 DEF LeaveLine
  <2>. QED  BY <2>2, <2>3, <2>4, Zenon DEF NoIdlePermit
<1>9. CASE UNCHANGED vars
  BY <1>9 DEF vars, NoIdlePermit
<1>. QED  BY <1>3, <1>4, <1>5, <1>6, <1>7, <1>8, <1>9 DEF Next

\* Every step keeps the permits and the queue slots accounted for.
LEMMA CountsPreserved ==
  IInv /\ [Next]_vars => RunningConserved' /\ QueueSlotsConserved'
<1>. SUFFICES ASSUME IInv, [Next]_vars
              PROVE  RunningConserved' /\ QueueSlotsConserved'
  OBVIOUS
<1>. DEFINE HoldersAt(p) == {u \in Tasks : p[u] \in {"granted", "working"}}
            WaitingAt(p) == {u \in Tasks : p[u] \in {"queued", "waiting", "granted"}}
<1>0. /\ TypeOK /\ NoIdlePermit
      /\ free + Cardinality(Holders) + orphans = Inflight
      /\ queueFree + Cardinality(Waiting) = Queued
      /\ Holders = HoldersAt(pc) /\ Waiting = WaitingAt(pc)
      /\ Holders \in SUBSET Tasks /\ Waiting \in SUBSET Tasks
      /\ Holders' = HoldersAt(pc') /\ Waiting' = WaitingAt(pc')
      /\ free \in Nat /\ orphans \in Nat /\ queueFree \in Nat
      /\ pc \in [Tasks -> Phases]
      /\ Cardinality(Holders) \in Nat /\ Cardinality(Waiting) \in Nat
  <2>1. Holders \in SUBSET Tasks /\ Waiting \in SUBSET Tasks
    BY DEF Holders, Waiting
  <2>2. Cardinality(Holders) \in Nat /\ Cardinality(Waiting) \in Nat
    BY <2>1, TasksAssumption, FS_Subset, FS_CardinalityType
  <2>. QED
    BY <2>1, <2>2 DEF IInv, TypeOK, RunningConserved, QueueSlotsConserved, Holders, Waiting
\* Steps that change no permit and no holder, or no waiting permit and no place.
<1>1. ASSUME Holders' = Holders, free' = free, orphans' = orphans
      PROVE  RunningConserved'
  BY <1>0, <1>1 DEF RunningConserved
<1>2. ASSUME Waiting' = Waiting, queueFree' = queueFree
      PROVE  QueueSlotsConserved'
  BY <1>0, <1>2 DEF QueueSlotsConserved
\* A holder gone, by itself, gives its permit to the head of the line or back.
<1>3. ASSUME NEW next \in [Tasks -> Phases], NEW held \in Nat, Return(next),
             HoldersAt(next) \in SUBSET Tasks,
             held = Cardinality(HoldersAt(next)),
             \A u \in Tasks : pc[u] = "waiting" => next[u] = "waiting"
      PROVE  /\ free' + Cardinality(Holders') = free + held + 1
             /\ Waiting' = WaitingAt(next)
  <2>1. CASE waiters = <<>>
    BY <1>0, <1>3, <2>1 DEF Return
  <2>2. CASE waiters # <<>>
    <3>. DEFINE h == Head(waiters)
    <3>1. /\ h \in Tasks /\ pc[h] = "waiting" /\ next[h] = "waiting"
          /\ pc' = [next EXCEPT ![h] = "granted"]
          /\ free' = free
      BY <1>0, <1>3, <2>2, HeadOfLine DEF Return
    <3>. HIDE DEF h
    <3>2. HoldersAt(pc') = HoldersAt(next) \cup {h} /\ h \notin HoldersAt(next)
      BY <1>3, <3>1
    <3>3. Cardinality(HoldersAt(pc')) = held + 1
      BY <1>3, <3>1, <3>2, Enter, Zenon
    <3>4. WaitingAt(pc') = WaitingAt(next)
      BY <1>3, <3>1
    <3>. QED  BY <1>0, <1>3, <3>1, <3>3, <3>4
  <2>. QED  BY <2>1, <2>2
<1>4. CASE FinishOrphan
  <2>1. /\ orphans > 0 /\ orphans' = orphans - 1 /\ queueFree' = queueFree
        /\ Return(pc)
    BY <1>4 DEF FinishOrphan
  <2>2. free' + Cardinality(Holders') = free + Cardinality(Holders) + 1 /\ Waiting' = Waiting
    BY <1>0, <1>3, <2>1
  <2>3. free' \in Nat /\ Cardinality(Holders') \in Nat
    <3>1. free' \in Nat
      BY <1>0, <2>1 DEF Return
    <3>2. Holders' \in SUBSET Tasks
      BY <1>0
    <3>. QED  BY <3>1, <3>2, TasksAssumption, FS_Subset, FS_CardinalityType
  <2>. QED  BY <1>0, <1>2, <2>1, <2>2, <2>3 DEF RunningConserved
<1>5. ASSUME NEW t \in Tasks, TryRun(t)
      PROVE  RunningConserved' /\ QueueSlotsConserved'
  <2>1. Waiting' = Waiting /\ queueFree' = queueFree /\ orphans' = orphans
    BY <1>0, <1>5 DEF TryRun, Goto
  <2>2. CASE free > 0
    <3>1. Holders' = Holders \cup {t} /\ t \notin Holders /\ free' = free - 1
      BY <1>0, <1>5, <2>2 DEF TryRun, Goto
    <3>2. Cardinality(Holders') = Cardinality(Holders) + 1
      BY <1>0, <3>1, Enter, Zenon
    <3>. QED  BY <1>0, <1>2, <2>1, <2>2, <3>1, <3>2 DEF RunningConserved
  <2>3. CASE free = 0
    <3>1. Holders' = Holders /\ free' = free
      BY <1>0, <1>5, <2>3 DEF TryRun, Goto
    <3>. QED  BY <1>1, <1>2, <2>1, <3>1
  <2>. QED  BY <1>0, <2>2, <2>3
<1>6. ASSUME NEW t \in Tasks, TryQueue(t)
      PROVE  RunningConserved' /\ QueueSlotsConserved'
  <2>1. Holders' = Holders /\ free' = free /\ orphans' = orphans
    BY <1>0, <1>6 DEF TryQueue, Goto
  <2>2. CASE queueFree > 0
    <3>1. Waiting' = Waiting \cup {t} /\ t \notin Waiting /\ queueFree' = queueFree - 1
      BY <1>0, <1>6, <2>2 DEF TryQueue, Goto
    <3>2. Cardinality(Waiting') = Cardinality(Waiting) + 1
      BY <1>0, <3>1, Enter, Zenon
    <3>3. QueueSlotsConserved'
      BY <1>0, <2>2, <3>1, <3>2 DEF QueueSlotsConserved
    <3>. QED  BY <1>1, <2>1, <3>3
  <2>3. CASE queueFree = 0
    <3>1. Waiting' = Waiting /\ queueFree' = queueFree
      BY <1>0, <1>6, <2>3 DEF TryQueue, Goto
    <3>. QED  BY <1>1, <1>2, <2>1, <3>1
  <2>. QED  BY <1>0, <2>2, <2>3
\* A task that gives its place in the line back.
<1>7. ASSUME NEW t \in Waiting, Waiting' = Waiting \ {t}, queueFree' = queueFree + 1
      PROVE  QueueSlotsConserved'
  <2>1. Cardinality(Waiting') = Cardinality(Waiting) - 1
    BY <1>0, <1>7, Leave, Zenon
  <2>. QED  BY <1>0, <1>7, <2>1 DEF QueueSlotsConserved
<1>8. ASSUME NEW t \in Tasks, Park(t)
      PROVE  RunningConserved' /\ QueueSlotsConserved'
  <2>1. CASE free > 0
    <3>1. /\ Holders' = Holders \cup {t} /\ t \notin Holders /\ free' = free - 1
          /\ Waiting' = Waiting \ {t} /\ t \in Waiting /\ queueFree' = queueFree + 1
          /\ orphans' = orphans
      BY <1>0, <1>8, <2>1 DEF Park, Goto
    <3>2. Cardinality(Holders') = Cardinality(Holders) + 1
      BY <1>0, <3>1, Enter
    <3>. QED  BY <1>0, <1>7, <2>1, <3>1, <3>2 DEF RunningConserved
  <2>2. CASE free = 0
    <3>1. /\ Holders' = Holders /\ Waiting' = Waiting
          /\ free' = free /\ queueFree' = queueFree /\ orphans' = orphans
      BY <1>0, <1>8, <2>2 DEF Park, Goto
    <3>. QED  BY <1>1, <1>2, <3>1
  <2>. QED  BY <1>0, <2>1, <2>2
<1>9. ASSUME NEW t \in Tasks, Run(t) \/ LeaveLine(t)
      PROVE  RunningConserved' /\ QueueSlotsConserved'
  <2>1. /\ Holders' = Holders /\ free' = free /\ orphans' = orphans
        /\ Waiting' = Waiting \ {t} /\ t \in Waiting /\ queueFree' = queueFree + 1
    BY <1>0, <1>9 DEF Run, LeaveLine, Goto
  <2>. QED  BY <1>1, <1>7, <2>1
\* The permit of a task that holds one is returned.
<1>10. ASSUME NEW t \in Holders, NEW phase \in {"joined", "idle"}, orphans' = orphans,
              Return(Goto(t, phase))
       PROVE  RunningConserved' /\ Waiting' = Waiting \ {t}
  <2>. DEFINE next == Goto(t, phase)
  <2>1. /\ next \in [Tasks -> Phases]
        /\ HoldersAt(next) = Holders \ {t} /\ HoldersAt(next) \in SUBSET Tasks
        /\ WaitingAt(next) = Waiting \ {t}
        /\ \A u \in Tasks : pc[u] = "waiting" => next[u] = "waiting"
    BY <1>0, <1>10 DEF Goto, Phases, Holders
  <2>2. /\ Cardinality(HoldersAt(next)) = Cardinality(Holders) - 1
        /\ Cardinality(HoldersAt(next)) \in Nat
    <3>1. /\ Cardinality(Holders \ {t}) = Cardinality(Holders) - 1
          /\ Cardinality(Holders) \in Nat \ {0}
      BY <1>0, Leave
    <3>2. Cardinality(HoldersAt(next)) = Cardinality(Holders \ {t})
      BY <2>1
    <3>. QED  BY <3>1, <3>2
  <2>. HIDE DEF next
  <2>3. /\ free' + Cardinality(Holders') = free + (Cardinality(Holders) - 1) + 1
        /\ Waiting' = Waiting \ {t}
    BY <1>3, <1>10, <2>1, <2>2 DEF next
  <2>4. free' \in Nat /\ Cardinality(Holders') \in Nat
    <3>1. free' \in Nat
      BY <1>0, <1>10 DEF Return
    <3>2. Holders' \in SUBSET Tasks
      BY <1>0
    <3>. QED  BY <3>1, <3>2, TasksAssumption, FS_Subset, FS_CardinalityType
  <2>. QED  BY <1>0, <1>10, <2>3, <2>4 DEF RunningConserved
<1>11. ASSUME NEW t \in Tasks, Finish(t)
       PROVE  RunningConserved' /\ QueueSlotsConserved'
  <2>1. /\ t \in Holders /\ t \notin Waiting
        /\ Return(Goto(t, "joined")) /\ orphans' = orphans /\ queueFree' = queueFree
    BY <1>11 DEF Finish, Holders, Waiting
  <2>. QED  BY <1>2, <1>10, <2>1
<1>12. ASSUME NEW t \in Tasks, RefuseGrant(t)
       PROVE  RunningConserved' /\ QueueSlotsConserved'
  <2>1. /\ t \in Holders /\ t \in Waiting
        /\ Return(Goto(t, "idle")) /\ orphans' = orphans /\ queueFree' = queueFree + 1
    BY <1>12 DEF RefuseGrant, Holders, Waiting
  <2>. QED  BY <1>7, <1>10, <2>1
<1>13. ASSUME NEW t \in Tasks, Join(t)
       PROVE  RunningConserved' /\ QueueSlotsConserved'
  <2>1. /\ Holders' = Holders /\ Waiting' = Waiting
        /\ free' = free /\ queueFree' = queueFree /\ orphans' = orphans
    BY <1>0, <1>13 DEF Join, Goto
  <2>. QED  BY <1>1, <1>2, <2>1
<1>14. ASSUME NEW t \in Tasks, Orphan(t)
       PROVE  RunningConserved' /\ QueueSlotsConserved'
  <2>1. /\ Holders' = Holders \ {t} /\ t \in Holders /\ Waiting' = Waiting
        /\ free' = free /\ queueFree' = queueFree /\ orphans' = orphans + 1
    BY <1>0, <1>14 DEF Orphan, Goto
  <2>2. Cardinality(Holders') = Cardinality(Holders) - 1
    BY <1>0, <2>1, Leave
  <2>. QED  BY <1>0, <1>2, <2>1, <2>2 DEF RunningConserved
<1>15. CASE UNCHANGED vars
  <2>1. /\ Holders' = Holders /\ Waiting' = Waiting
        /\ free' = free /\ queueFree' = queueFree /\ orphans' = orphans
    BY <1>0, <1>15 DEF vars
  <2>. QED  BY <1>1, <1>2, <2>1
<1>. QED
  BY <1>4, <1>5, <1>6, <1>8, <1>9, <1>11, <1>12, <1>13, <1>14, <1>15 DEF Next

\* The gate keeps its two counts and its line, for every number of tasks and
\* all limits (kdf.rs, derive), from the inductive invariant IInv.
THEOREM GateInvariant == Spec => []IInv
<1>1. Init => IInv
  <2>. SUFFICES ASSUME Init PROVE IInv
    OBVIOUS
  <2>1. Holders = {} /\ Waiting = {}
    BY DEF Init, Holders, Waiting
  <2>2. TypeOK /\ NoIdlePermit
    BY LimitsAssumption DEF Init, TypeOK, Phases, NoIdlePermit
  <2>. QED
    BY <2>1, <2>2, LimitsAssumption, FS_EmptySet
    DEF Init, IInv, RunningConserved, QueueSlotsConserved
<1>2. IInv /\ [Next]_vars => IInv'
  BY TypesPreserved, LinePreserved, CountsPreserved DEF IInv
<1>. QED  BY <1>1, <1>2, PTL DEF Spec

\* At most Inflight derivations ever run or are about to, and the line has
\* Queued places, each free or taken by one task: no permit leaks and none is
\* returned twice, whichever futures are dropped (kdf.rs, derive).
THEOREM PermitsAreConserved == Spec => []PermitsConserved
<1>1. IInv => PermitsConserved
  BY DEF IInv, PermitsConserved
<1>. QED  BY <1>1, GateInvariant, PTL

\* A permit never lies idle while a task is parked in the line (kdf.rs, derive).
THEOREM NoPermitIdles == Spec => []NoIdlePermit
<1>1. IInv => NoIdlePermit
  BY DEF IInv
<1>. QED  BY <1>1, GateInvariant, PTL
=============================================================================
