---------------------------- MODULE ProcInvariant ---------------------------
(* What enqueue() and dequeue() do to the sequences the lists stand for, the *)
(* inductive invariant of Proc with the facts its proof rests on, and that   *)
(* the steps of the scheduler keep it.                                        *)
EXTENDS Proc, WellFoundedInduction, TLAPS

\* The sequence s without its k-th element.
Without(s, k) == [i \in 1..(Len(s) - 1) |-> IF i < k THEN s[i] ELSE s[i + 1]]

\* The ready sequences of all priorities.
Ready == [Prio -> Seq(Slots)]

\* Appending to a sequence keeps its elements and adds one at the end.
LEMMA AppendFacts ==
  ASSUME NEW s \in Seq(Slots), NEW p \in Slots
  PROVE  /\ Append(s, p) \in Seq(Slots)
         /\ Len(Append(s, p)) = Len(s) + 1
         /\ \A i \in 1..Len(s) : Append(s, p)[i] = s[i]
         /\ Append(s, p)[Len(s) + 1] = p
         /\ Elems(Append(s, p)) = Elems(s) \cup {p}
<1>1. /\ Append(s, p) \in Seq(Slots)
      /\ Len(Append(s, p)) = Len(s) + 1
      /\ \A i \in 1..Len(s) : Append(s, p)[i] = s[i]
      /\ Append(s, p)[Len(s) + 1] = p
  OBVIOUS
<1>2. Len(s) \in Nat /\ 1..(Len(s) + 1) = 1..Len(s) \cup {Len(s) + 1}
  OBVIOUS
<1>3. Elems(Append(s, p)) = Elems(s) \cup {p}
  BY <1>1, <1>2 DEF Elems
<1>4. QED
  BY <1>1, <1>3

\* enqueue() of a process that is in no queue does not panic and puts it at the
\* end of the queue of its priority.
LEMMA EnqueueAppends ==
  ASSUME NEW l \in RunQueues, NEW r \in Ready, Represents(l, r),
         NEW p \in Slots, NEW q \in Prio, \A k \in Prio : p \notin Elems(r[k])
  PROVE  /\ ~EnqueuePanics(l, p)
         /\ Enqueue(l, p, q) \in RunQueues
         /\ [r EXCEPT ![q] = Append(@, p)] \in Ready
         /\ Represents(Enqueue(l, p, q), [r EXCEPT ![q] = Append(@, p)])
<1> DEFINE s == r[q]
           m == Enqueue(l, p, q)
           t == Append(s, p)
           u == [r EXCEPT ![q] = Append(@, p)]
           n == Len(s)
<1>0. /\ l.queue \in [Prio -> Ptr] /\ l.next \in [Slots -> Ptr] /\ l.previous \in [Slots -> Ptr]
      /\ l = [queue |-> l.queue, next |-> l.next, previous |-> l.previous]
  BY DEF RunQueues
<1>1. s \in Seq(Slots) /\ n \in Nat /\ \A i \in 1..n : s[i] \in Slots
  BY DEF Ready
<1>2. /\ t \in Seq(Slots) /\ Len(t) = n + 1 /\ t[n + 1] = p
      /\ \A i \in 1..n : t[i] = s[i]
      /\ Elems(t) = Elems(s) \cup {p}
  BY <1>1, AppendFacts
<1>3. /\ u \in Ready /\ u[q] = t /\ \A k \in Prio \ {q} : u[k] = r[k]
  BY <1>2 DEF Ready
<1>4. l.next[p] = NULL /\ l.previous[p] = NULL
  BY DEF Represents
<1>5. IsQueue(l, q, s) /\ \A i \in 1..n : s[i] # p
  BY DEF Represents, Elems
<1>6. NULL \notin Slots
  BY NPROCAssumption DEF NULL, Slots
<1>7. m \in RunQueues /\ IsQueue(m, q, t)
  <2>1. CASE n = 0
    <3>1. l.queue[q] = NULL
      BY <1>5, <2>1 DEF IsQueue
    <3>2. /\ m.queue = [l.queue EXCEPT ![q] = p]
          /\ m.next = [l.next EXCEPT ![p] = p]
          /\ m.previous = [l.previous EXCEPT ![p] = p]
          /\ m = [queue |-> m.queue, next |-> m.next, previous |-> m.previous]
      BY <3>1 DEF Enqueue
    <3>3. m \in RunQueues
      BY <3>2, <1>0 DEF RunQueues, Ptr
    <3>4. QED
      BY <3>2, <3>3, <2>1, <1>0, <1>2 DEF IsQueue, Succ, Pred
  <2>2. CASE n # 0
    <3>1. l.queue[q] = s[1] /\ l.queue[q] # NULL /\ l.previous[s[1]] = s[n]
      BY <1>5, <1>1, <1>6, <2>2 DEF IsQueue, Pred
    <3>2. /\ m.queue = l.queue
          /\ m.next = [l.next EXCEPT ![s[n]] = p, ![p] = s[1]]
          /\ m.previous = [l.previous EXCEPT ![p] = s[n], ![s[1]] = p]
          /\ m = [queue |-> m.queue, next |-> m.next, previous |-> m.previous]
      BY <3>1 DEF Enqueue
    <3>3. m \in RunQueues
      BY <3>2, <1>0, <1>1, <2>2 DEF RunQueues, Ptr
    <3>4. \A i, j \in 1..(n + 1) : t[i] = t[j] => i = j
      BY <1>1, <1>2, <1>5 DEF IsQueue
    <3> HIDE DEF s, m, t, u, n
    <3>n. n \in 1..n /\ 1 \in 1..n /\ s[n] \in Slots /\ s[1] \in Slots /\ s[n] # p /\ s[1] # p
          /\ n \in Nat \ {0}
      BY <1>1, <1>5, <2>2
    <3>5. ASSUME NEW i \in 1..(n + 1)
          PROVE  m.next[t[i]] = t[Succ(t, i)]
      <4>1. CASE i = n + 1
        <5>1. m.next[p] = s[1] /\ t[i] = p /\ t[1] = s[1] /\ Succ(t, i) = 1
          BY <4>1, <3>n, <3>2, <1>0, <1>2 DEF Succ
        <5>2. QED
          BY <5>1
      <4>2. CASE i = n
        <5>1. m.next[s[n]] = p /\ t[i] = s[n] /\ Succ(t, i) = n + 1
          BY <4>2, <3>n, <3>2, <1>0, <1>2 DEF Succ
        <5>2. QED
          BY <5>1, <1>2
      <4>3. CASE i \in 1..(n - 1)
        <5>1. i \in 1..n /\ i + 1 \in 1..n /\ i # n /\ i # n + 1
          BY <4>3, <1>1
        <5>2. t[i] = s[i] /\ s[i] \in Slots /\ s[i] # s[n] /\ s[i] # p
          BY <5>1, <1>1, <1>2, <1>5, <3>n DEF IsQueue, n
        <5>3. m.next[s[i]] = l.next[s[i]]
          BY <5>2, <3>2, <1>0
        <5>4. l.next[s[i]] = s[i + 1] /\ t[i + 1] = s[i + 1] /\ Succ(t, i) = i + 1
          BY <5>1, <1>2, <1>5 DEF IsQueue, Succ, n
        <5>5. QED
          BY <5>2, <5>3, <5>4
      <4>4. QED
        BY <4>1, <4>2, <4>3, <1>1
    <3>6. ASSUME NEW i \in 1..(n + 1)
          PROVE  m.previous[t[i]] = t[Pred(t, i)]
      <4>1. CASE i = n + 1
        <5>1. m.previous[p] = s[n] /\ t[i] = p /\ t[n] = s[n] /\ Pred(t, i) = n
          BY <4>1, <3>n, <3>2, <1>0, <1>2 DEF Pred
        <5>2. QED
          BY <5>1
      <4>2. CASE i = 1
        <5>1. m.previous[s[1]] = p /\ t[i] = s[1] /\ Pred(t, i) = n + 1
          BY <4>2, <3>n, <3>2, <1>0, <1>2 DEF Pred
        <5>2. QED
          BY <5>1, <1>2
      <4>3. CASE i \in 2..n
        <5>1. i \in 1..n /\ i - 1 \in 1..n /\ i # 1 /\ i # n + 1
          BY <4>3, <1>1
        <5>2. t[i] = s[i] /\ s[i] \in Slots /\ s[i] # s[1] /\ s[i] # p
          BY <5>1, <1>1, <1>2, <1>5, <3>n DEF IsQueue, n
        <5>3. m.previous[s[i]] = l.previous[s[i]]
          BY <5>2, <3>2, <1>0
        <5>4. l.previous[s[i]] = s[i - 1] /\ t[i - 1] = s[i - 1] /\ Pred(t, i) = i - 1
          BY <5>1, <1>2, <1>5 DEF IsQueue, Pred, n
        <5>5. QED
          BY <5>2, <5>3, <5>4
      <4>4. QED
        BY <4>1, <4>2, <4>3, <1>1
    <3>7. m.queue[q] = t[1] /\ Len(t) # 0
      BY <1>1, <1>2, <2>2, <3>1, <3>2
    <3>8. QED
      BY <3>3, <3>4, <3>5, <3>6, <3>7, <1>2 DEF IsQueue
  <2>3. QED
    BY <2>1, <2>2
<1>8. \A k \in Slots : k # p /\ k \notin Elems(s) =>
        m.next[k] = l.next[k] /\ m.previous[k] = l.previous[k]
  BY <1>0, <1>1, <1>5 DEF Enqueue, IsQueue, Elems, Pred
<1>9. \A k \in Prio \ {q} : m.queue[k] = l.queue[k]
  BY <1>0 DEF Enqueue
<1>10. ASSUME NEW k \in Prio \ {q}
       PROVE  IsQueue(m, k, u[k])
  <2>1. u[k] = r[k] /\ IsQueue(l, k, r[k]) /\ r[k] \in Seq(Slots) /\ k \in Prio
    BY <1>3 DEF Represents, Ready
  <2>2. \A i \in 1..Len(r[k]) : r[k][i] \in Slots /\ r[k][i] # p /\ r[k][i] \notin Elems(s)
    <3>1. \A i \in 1..Len(r[k]) : r[k][i] \in Slots /\ r[k][i] \in Elems(r[k])
      BY <2>1 DEF Elems
    <3>2. Elems(r[k]) \cap Elems(s) = {} /\ p \notin Elems(r[k])
      BY DEF Represents, Prio
    <3>3. QED
      BY <3>1, <3>2
  <2>3. QED
    BY <1>8, <1>9, <2>1, <2>2 DEF IsQueue
<1>11. Elems(u[HI_PRIO]) \cap Elems(u[NORM_PRIO]) = {}
  <2>1. /\ Elems(r[HI_PRIO]) \cap Elems(r[NORM_PRIO]) = {}
        /\ p \notin Elems(r[HI_PRIO]) /\ p \notin Elems(r[NORM_PRIO])
        /\ HI_PRIO # NORM_PRIO /\ HI_PRIO \in Prio /\ NORM_PRIO \in Prio
    BY DEF Represents, Prio, HI_PRIO, NORM_PRIO
  <2>2. CASE q = HI_PRIO
    <3>1. Elems(u[HI_PRIO]) = Elems(r[HI_PRIO]) \cup {p} /\ u[NORM_PRIO] = r[NORM_PRIO]
      BY <1>2, <1>3, <2>1, <2>2
    <3>2. QED
      BY <2>1, <3>1
  <2>3. CASE q = NORM_PRIO
    <3>1. Elems(u[NORM_PRIO]) = Elems(r[NORM_PRIO]) \cup {p} /\ u[HI_PRIO] = r[HI_PRIO]
      BY <1>2, <1>3, <2>1, <2>3
    <3>2. QED
      BY <2>1, <3>1
  <2>4. QED
    BY <2>2, <2>3 DEF Prio
<1>12. \A k \in Slots : (\A j \in Prio : k \notin Elems(u[j])) => m.next[k] = NULL /\ m.previous[k] = NULL
  BY <1>2, <1>3, <1>8 DEF Represents
<1>13. QED
  BY <1>3, <1>4, <1>7, <1>10, <1>11, <1>12 DEF Represents, EnqueuePanics

\* Taking out the k-th element of a sequence without repetitions removes exactly it.
LEMMA WithoutFacts ==
  ASSUME NEW s \in Seq(Slots), NEW k \in 1..Len(s),
         \A i, j \in 1..Len(s) : s[i] = s[j] => i = j
  PROVE  /\ Without(s, k) \in Seq(Slots)
         /\ Len(Without(s, k)) = Len(s) - 1
         /\ \A i \in 1..(Len(s) - 1) : Without(s, k)[i] = s[IF i < k THEN i ELSE i + 1]
         /\ Elems(Without(s, k)) = Elems(s) \ {s[k]}
<1> DEFINE n == Len(s)
           t == Without(s, k)
<1>1. n \in Nat /\ k \in 1..n /\ n - 1 \in Nat /\ \A i \in 1..n : s[i] \in Slots
  OBVIOUS
<1>2. \A i \in 1..(n - 1) : t[i] = s[IF i < k THEN i ELSE i + 1]
  BY DEF Without
<1>3. \A i \in 1..(n - 1) : i \in 1..n /\ i + 1 \in 1..n
  BY <1>1
<1>4. t \in [1..(n - 1) -> Slots]
  BY <1>1, <1>3 DEF Without
<1>5. t \in Seq(Slots) /\ Len(t) = n - 1
  BY <1>1, <1>4
<1>6. ASSUME NEW x \in Elems(t) PROVE x \in Elems(s) \ {s[k]}
  <2>1. PICK i \in 1..(n - 1) : x = t[i]
    BY <1>5 DEF Elems
  <2> DEFINE j == IF i < k THEN i ELSE i + 1
  <2>2. j \in 1..n /\ j # k /\ x = s[j]
    BY <1>1, <1>2, <2>1
  <2> HIDE DEF j
  <2>3. s[j] # s[k]
    BY <1>1, <2>2
  <2>4. QED
    BY <2>2, <2>3 DEF Elems
<1>7. ASSUME NEW x \in Elems(s) \ {s[k]} PROVE x \in Elems(t)
  <2>1. PICK j \in 1..n : x = s[j] /\ j # k
    BY DEF Elems
  <2>2. CASE j < k
    <3>1. j \in 1..(n - 1) /\ t[j] = x
      BY <1>1, <1>2, <2>1, <2>2
    <3>2. QED
      BY <3>1, <1>5 DEF Elems
  <2>3. CASE j > k
    <3>1. j - 1 \in 1..(n - 1) /\ t[j - 1] = x
      BY <1>1, <1>2, <2>1, <2>3
    <3>2. QED
      BY <3>1, <1>5 DEF Elems
  <2>4. QED
    BY <2>1, <2>2, <2>3, <1>1
<1>8. QED
  BY <1>2, <1>5, <1>6, <1>7

\* dequeue() of a process that is in the queue of its priority does not panic and
\* takes it out, wherever in the queue it is, leaving the order of the others.
LEMMA DequeueRemoves ==
  ASSUME NEW l \in RunQueues, NEW r \in Ready, Represents(l, r),
         NEW q \in Prio, NEW k \in 1..Len(r[q])
  PROVE  /\ ~DequeuePanics(l, r[q][k], q)
         /\ Dequeue(l, r[q][k], q) \in RunQueues
         /\ [r EXCEPT ![q] = Without(@, k)] \in Ready
         /\ Represents(Dequeue(l, r[q][k], q), [r EXCEPT ![q] = Without(@, k)])
<1> DEFINE s == r[q]
           n == Len(s)
           p == s[k]
           m == Dequeue(l, p, q)
           t == Without(s, k)
           u == [r EXCEPT ![q] = Without(@, k)]
           before == s[Pred(s, k)]
           after == s[Succ(s, k)]
           J(i) == IF i < k THEN i ELSE i + 1
<1>0. /\ l.queue \in [Prio -> Ptr] /\ l.next \in [Slots -> Ptr] /\ l.previous \in [Slots -> Ptr]
      /\ NULL \notin Slots
  BY NPROCAssumption DEF RunQueues, NULL, Slots
<1>1. /\ s \in Seq(Slots) /\ n \in Nat /\ k \in 1..n /\ p \in Slots
      /\ \A i \in 1..n : s[i] \in Slots /\ Pred(s, i) \in 1..n /\ Succ(s, i) \in 1..n
  BY DEF Ready, Pred, Succ
<1>2. IsQueue(l, q, s)
  BY DEF Represents
<1>3. \A i, j \in 1..n : s[i] = s[j] => i = j
  BY <1>2 DEF IsQueue
<1>4. /\ t \in Seq(Slots) /\ Len(t) = n - 1
      /\ \A i \in 1..(n - 1) : t[i] = s[J(i)]
      /\ Elems(t) = Elems(s) \ {p}
  BY <1>1, <1>3, WithoutFacts, Zenon
<1>5. u \in Ready /\ u[q] = t /\ \A j \in Prio \ {q} : u[j] = r[j]
  BY <1>4 DEF Ready
<1>6. l.next[p] = after /\ l.previous[p] = before /\ l.queue[q] = s[1]
  BY <1>1, <1>2 DEF IsQueue
<1>i. /\ Pred(s, k) \in 1..n /\ Succ(s, k) \in 1..n /\ 1 \in 1..n
      /\ Pred(s, k) = k <=> n = 1
      /\ Succ(s, k) = k <=> n = 1
      /\ \A i \in 1..(n - 1) : J(i) \in 1..n /\ J(i) # k
      /\ \A i, j \in 1..(n - 1) : J(i) = J(j) => i = j
  <2>1. n \in Nat /\ k \in 1..n
    BY <1>1
  <2>2. /\ Pred(s, k) = IF k = 1 THEN n ELSE k - 1
        /\ Succ(s, k) = IF k = n THEN 1 ELSE k + 1
    BY DEF Pred, Succ
  <2> HIDE DEF s, n
  <2>3. /\ Pred(s, k) \in 1..n /\ Succ(s, k) \in 1..n /\ 1 \in 1..n
        /\ Pred(s, k) = k <=> n = 1
        /\ Succ(s, k) = k <=> n = 1
    BY <2>1, <2>2
  <2>4. /\ \A i \in 1..(n - 1) : J(i) \in 1..n /\ J(i) # k
        /\ \A i, j \in 1..(n - 1) : J(i) = J(j) => i = j
    BY <2>1
  <2>5. QED
    BY <2>3, <2>4
<1> HIDE DEF s, n, J
<1>7. before \in Slots /\ after \in Slots /\ s[1] \in Slots
  BY <1>1, <1>i, Zenon
<1>8. (before = p) <=> n = 1
  BY <1>1, <1>3, <1>i, Zenon
<1>9. (after = p) <=> n = 1
  BY <1>1, <1>3, <1>i, Zenon
<1>10. ~DequeuePanics(l, p, q)
  BY <1>0, <1>6, <1>7, <1>8, <1>9 DEF DequeuePanics
<1>11. m \in RunQueues /\ IsQueue(m, q, t) /\ m.next[p] = NULL /\ m.previous[p] = NULL
  <2>1. CASE n = 1
    <3>1. /\ m.queue = [l.queue EXCEPT ![q] = NULL]
          /\ m.next = [l.next EXCEPT ![p] = NULL]
          /\ m.previous = [l.previous EXCEPT ![p] = NULL]
          /\ m = [queue |-> m.queue, next |-> m.next, previous |-> m.previous]
      BY <2>1, <1>6, <1>8, <1>9 DEF Dequeue
    <3> HIDE DEF m, p
    <3>2. m \in RunQueues /\ m.next[p] = NULL /\ m.previous[p] = NULL /\ m.queue[q] = NULL
      <4>1. p \in Slots /\ NULL \in Ptr
        BY <1>1 DEF p, Ptr
      <4>2. /\ m.queue \in [Prio -> Ptr] /\ m.next \in [Slots -> Ptr]
            /\ m.previous \in [Slots -> Ptr]
        BY <3>1, <4>1, <1>0
      <4>3. m.next[p] = NULL /\ m.previous[p] = NULL /\ m.queue[q] = NULL
        BY <3>1, <4>1, <1>0
      <4>4. QED
        BY <3>1, <4>2, <4>3 DEF RunQueues
    <3>3. QED
      BY <3>2, <2>1, <1>4 DEF IsQueue
  <2>2. CASE n # 1
    <3> HIDE DEF s, n, p, m, t, u, before, after
    <3>1. /\ m.queue = [l.queue EXCEPT ![q] = IF @ = p THEN after ELSE @]
          /\ m.next = [l.next EXCEPT ![before] = after, ![p] = NULL]
          /\ m.previous = [l.previous EXCEPT ![after] = before, ![p] = NULL]
          /\ m = [queue |-> m.queue, next |-> m.next, previous |-> m.previous]
      BY <2>2, <1>6, <1>8, <1>9 DEF Dequeue, m
    <3>2. m \in RunQueues /\ m.next[p] = NULL /\ m.previous[p] = NULL
      <4>1. p \in Slots /\ \A x \in Slots : x \in Ptr
        BY <1>1 DEF p, Ptr
      <4>2. /\ m.queue \in [Prio -> Ptr] /\ m.next \in [Slots -> Ptr]
            /\ m.previous \in [Slots -> Ptr]
        BY <3>1, <4>1, <1>0, <1>7 DEF Ptr
      <4>3. m.next[p] = NULL /\ m.previous[p] = NULL
        BY <3>1, <4>1, <1>0
      <4>4. QED
        BY <3>1, <4>2, <4>3 DEF RunQueues
    <3>3. ASSUME NEW j \in 1..n, j # k
          PROVE  /\ m.next[s[j]] = IF j = Pred(s, k) THEN after ELSE s[Succ(s, j)]
                 /\ m.previous[s[j]] = IF j = Succ(s, k) THEN before ELSE s[Pred(s, j)]
      <4>1. s[j] \in Slots /\ s[j] # p
        BY <1>1, <1>3, <3>3, Zenon DEF p
      <4>2. s[j] = before <=> j = Pred(s, k)
        BY <1>1, <1>3, Zenon DEF before
      <4>3. s[j] = after <=> j = Succ(s, k)
        BY <1>1, <1>3, Zenon DEF after
      <4>4. l.next[s[j]] = s[Succ(s, j)] /\ l.previous[s[j]] = s[Pred(s, j)]
        BY <1>2 DEF IsQueue, n
      <4>5. QED
        BY <4>1, <4>2, <4>3, <4>4, <3>1, <1>0, <1>7
    <3>4. ASSUME NEW i \in 1..(n - 1)
          PROVE  m.next[t[i]] = t[Succ(t, i)] /\ m.previous[t[i]] = t[Pred(t, i)]
      <4>1. J(i) \in 1..n /\ J(i) # k /\ t[i] = s[J(i)]
        BY <1>4, <1>i
      <4>2. Succ(t, i) \in 1..(n - 1) /\ Pred(t, i) \in 1..(n - 1)
        BY <1>1, <1>4 DEF Succ, Pred
      <4>3. t[Succ(t, i)] = s[J(Succ(t, i))] /\ t[Pred(t, i)] = s[J(Pred(t, i))]
        BY <4>2, <1>4
      <4>4. J(Succ(t, i)) = IF J(i) = Pred(s, k) THEN Succ(s, k) ELSE Succ(s, J(i))
        BY <1>1, <1>4 DEF Succ, Pred, n, J
      <4>5. J(Pred(t, i)) = IF J(i) = Succ(s, k) THEN Pred(s, k) ELSE Pred(s, J(i))
        BY <1>1, <1>4 DEF Succ, Pred, n, J
      <4>6. QED
        <5> DEFINE a == J(i)
        <5>1. a \in 1..n /\ a # k /\ t[i] = s[a]
          BY <4>1
        <5>2. /\ m.next[s[a]] = IF a = Pred(s, k) THEN after ELSE s[Succ(s, a)]
              /\ m.previous[s[a]] = IF a = Succ(s, k) THEN before ELSE s[Pred(s, a)]
          <6> HIDE DEF a
          <6> QED BY <5>1, <3>3
        <5>3. QED
          BY <5>1, <5>2, <4>3, <4>4, <4>5 DEF before, after
    <3>5. \A i, j \in 1..(n - 1) : t[i] = t[j] => i = j
      <4> SUFFICES ASSUME NEW i \in 1..(n - 1), NEW j \in 1..(n - 1), t[i] = t[j]
                   PROVE  i = j
        OBVIOUS
      <4>1. J(i) \in 1..n /\ J(j) \in 1..n /\ s[J(i)] = s[J(j)]
        BY <1>4, <1>i
      <4>2. J(i) = J(j)
        BY <4>1, <1>3
      <4>3. QED
        BY <4>2, <1>i
    <3>6. m.queue[q] = t[1] /\ n - 1 # 0
      <4>1. 1 \in 1..(n - 1) /\ t[1] = s[J(1)] /\ 1 \in 1..n
        BY <1>1, <1>4, <2>2
      <4>2. (s[1] = p) <=> k = 1
        BY <1>1, <1>3, <4>1, Zenon DEF p
      <4>3. m.queue[q] = IF s[1] = p THEN after ELSE s[1]
        BY <3>1, <1>0, <1>6
      <4>4. k = 1 => Succ(s, k) = 2
        BY <1>1, <2>2 DEF Succ, n
      <4>5. J(1) = IF k = 1 THEN 2 ELSE 1
        BY <1>1 DEF J
      <4>6. m.queue[q] = t[1]
        BY <4>1, <4>2, <4>3, <4>4, <4>5 DEF after
      <4>7. QED
        BY <4>6, <1>1, <2>2
    <3>7. QED
      BY <3>2, <3>4, <3>5, <3>6, <1>4 DEF IsQueue
  <2>3. QED
    BY <2>1, <2>2
<1>12. \A j \in Slots : j \notin Elems(s) =>
         m.next[j] = l.next[j] /\ m.previous[j] = l.previous[j]
  <2>1. before \in Elems(s) /\ after \in Elems(s) /\ p \in Elems(s)
    BY <1>1, <1>i, Zenon DEF Elems, n
  <2>2. QED
    BY <2>1, <1>0, <1>6, <1>7 DEF Dequeue
<1>13. \A j \in Prio \ {q} : m.queue[j] = l.queue[j]
  BY <1>0 DEF Dequeue
<1>14. ASSUME NEW j \in Prio \ {q}
       PROVE  IsQueue(m, j, u[j])
  <2>1. u[j] = r[j] /\ IsQueue(l, j, r[j]) /\ r[j] \in Seq(Slots) /\ j \in Prio
    BY <1>5 DEF Represents, Ready
  <2>2. \A i \in 1..Len(r[j]) : r[j][i] \in Slots /\ r[j][i] \notin Elems(s)
    <3>1. \A i \in 1..Len(r[j]) : r[j][i] \in Slots /\ r[j][i] \in Elems(r[j])
      BY <2>1 DEF Elems
    <3>2. Elems(r[j]) \cap Elems(s) = {}
      BY DEF Represents, Prio, s
    <3>3. QED
      BY <3>1, <3>2
  <2>3. \A i \in 1..Len(r[j]) : /\ m.next[r[j][i]] = l.next[r[j][i]]
                                /\ m.previous[r[j][i]] = l.previous[r[j][i]]
    BY <1>12, <2>2
  <2>4. QED
    BY <1>13, <2>1, <2>3 DEF IsQueue
<1>15. Elems(u[HI_PRIO]) \cap Elems(u[NORM_PRIO]) = {}
  <2>1. \A j \in Prio : Elems(u[j]) \subseteq Elems(r[j])
    BY <1>4, <1>5 DEF s
  <2>2. QED
    BY <2>1 DEF Represents, Prio
<1>16. \A i \in Slots : (\A j \in Prio : i \notin Elems(u[j])) => m.next[i] = NULL /\ m.previous[i] = NULL
  <2>1. SUFFICES ASSUME NEW i \in Slots, \A j \in Prio : i \notin Elems(u[j]), i # p
                 PROVE  m.next[i] = NULL /\ m.previous[i] = NULL
    BY <1>11
  <2>2. \A j \in Prio : i \notin Elems(r[j])
    BY <1>4, <1>5, <2>1 DEF s
  <2>3. QED
    BY <2>2, <1>12 DEF Represents, s
<1>17. QED
  BY <1>5, <1>10, <1>11, <1>14, <1>15, <1>16 DEF Represents, s

(* ---------------- the same, for the sets of queued processes ------------- *)

Members == [Prio -> SUBSET Slots]

\* The lists are well formed and queue q holds exactly the processes of S[q].
Tracks(l, S) == \E r \in Ready : Represents(l, r) /\ \A q \in Prio : Elems(r[q]) = S[q]

\* enqueue() adds a process to the set of its priority and does not panic.
LEMMA EnqueueTracks ==
  ASSUME NEW l \in RunQueues, NEW S \in Members, Tracks(l, S),
         NEW p \in Slots, NEW q \in Prio, \A k \in Prio : p \notin S[k]
  PROVE  /\ ~EnqueuePanics(l, p)
         /\ Enqueue(l, p, q) \in RunQueues
         /\ Tracks(Enqueue(l, p, q), [S EXCEPT ![q] = @ \cup {p}])
<1>1. PICK r \in Ready : Represents(l, r) /\ \A k \in Prio : Elems(r[k]) = S[k]
  BY DEF Tracks
<1> DEFINE u == [r EXCEPT ![q] = Append(@, p)]
<1>2. /\ ~EnqueuePanics(l, p)
      /\ Enqueue(l, p, q) \in RunQueues
      /\ u \in Ready
      /\ Represents(Enqueue(l, p, q), u)
  BY <1>1, EnqueueAppends
<1>3. Elems(u[q]) = S[q] \cup {p}
  BY <1>1, AppendFacts DEF Ready
<1>4. \A k \in Prio \ {q} : Elems(u[k]) = S[k]
  BY <1>1 DEF Ready
<1>5. \A k \in Prio : Elems(u[k]) = [S EXCEPT ![q] = @ \cup {p}][k]
  BY <1>3, <1>4 DEF Members
<1>6. QED
  BY <1>2, <1>5, Zenon DEF Tracks

\* dequeue() takes a process out of the set of its priority and does not panic.
LEMMA DequeueTracks ==
  ASSUME NEW l \in RunQueues, NEW S \in Members, Tracks(l, S),
         NEW q \in Prio, NEW p \in S[q]
  PROVE  /\ ~DequeuePanics(l, p, q)
         /\ Dequeue(l, p, q) \in RunQueues
         /\ Tracks(Dequeue(l, p, q), [S EXCEPT ![q] = @ \ {p}])
<1>1. PICK r \in Ready : Represents(l, r) /\ \A k \in Prio : Elems(r[k]) = S[k]
  BY DEF Tracks
<1>2. PICK k \in 1..Len(r[q]) : p = r[q][k]
  BY <1>1 DEF Elems
<1> DEFINE u == [r EXCEPT ![q] = Without(@, k)]
<1>3. /\ ~DequeuePanics(l, p, q)
      /\ Dequeue(l, p, q) \in RunQueues
      /\ u \in Ready
      /\ Represents(Dequeue(l, p, q), u)
  BY <1>1, <1>2, DequeueRemoves
<1>4. r[q] \in Seq(Slots) /\ \A i, j \in 1..Len(r[q]) : r[q][i] = r[q][j] => i = j
  BY <1>1 DEF Ready, Represents, IsQueue
<1>5. Elems(u[q]) = S[q] \ {p}
  <2>1. Elems(Without(r[q], k)) = Elems(r[q]) \ {r[q][k]}
    BY <1>4, WithoutFacts
  <2>2. u[q] = Without(r[q], k)
    BY DEF Ready
  <2>3. QED
    BY <1>1, <1>2, <2>1, <2>2
<1>6. \A j \in Prio \ {q} : Elems(u[j]) = S[j]
  BY <1>1 DEF Ready
<1>7. \A j \in Prio : Elems(u[j]) = [S EXCEPT ![q] = @ \ {p}][j]
  BY <1>5, <1>6, Zenon DEF Members
<1>8. QED
  BY <1>3, <1>7, Zenon DEF Tracks

\* ptable.queue[q] is null exactly when no process is queued with priority q, and
\* otherwise points to one that is; a process in no queue has null links.
LEMMA HeadTracks ==
  ASSUME NEW l \in RunQueues, NEW S \in Members, Tracks(l, S)
  PROVE  /\ \A q \in Prio : IF S[q] = {} THEN l.queue[q] = NULL
                            ELSE l.queue[q] \in S[q] /\ l.queue[q] # NULL
         /\ \A p \in Slots : (\A q \in Prio : p \notin S[q]) =>
                                l.next[p] = NULL /\ l.previous[p] = NULL
<1>1. PICK r \in Ready : Represents(l, r) /\ \A k \in Prio : Elems(r[k]) = S[k]
  BY DEF Tracks
<1>2. ASSUME NEW q \in Prio
      PROVE  IF S[q] = {} THEN l.queue[q] = NULL ELSE l.queue[q] \in S[q] /\ l.queue[q] # NULL
  <2>1. r[q] \in Seq(Slots) /\ Len(r[q]) \in Nat /\ IsQueue(l, q, r[q])
    BY <1>1 DEF Ready, Represents
  <2>2. CASE Len(r[q]) = 0
    BY <1>1, <2>1, <2>2 DEF IsQueue, Elems
  <2>3. CASE Len(r[q]) # 0
    <3>1. 1 \in 1..Len(r[q]) /\ r[q][1] \in Slots /\ l.queue[q] = r[q][1]
      BY <2>1, <2>3 DEF IsQueue
    <3>2. r[q][1] \in S[q] /\ r[q][1] # NULL
      BY <1>1, <3>1 DEF Elems, Slots, NULL
    <3>3. QED
      BY <3>1, <3>2
  <2>4. QED
    BY <2>2, <2>3
<1>3. QED
  BY <1>1, <1>2 DEF Represents

Sets == [q \in Prio |-> Runnable(q)]

\* The queues hold the RUNNABLE processes.
QueuesTrack == Tracks(rq, Sets)

\* While a wakeup1() loop runs the lock is held and whoever is on a CPU is RUNNING.
WakeupLocked ==
  wchan # NULL => /\ ptlock # NULL
                  /\ \A c \in Cpus : Cur(c) # NULL => state[Cur(c)] = "RUNNING"

IInv ==
  /\ TypeOK
  /\ NoQueuePanic
  /\ QueuesTrack
  /\ StackInUse
  /\ ForkOwnsEmbryo
  /\ ThreadMatchesState
  /\ WakeupLocked

\* A set of slots that is not empty has a first one.
LEMMA LeastIn ==
  ASSUME NEW S \in SUBSET Slots, S # {}
  PROVE  \E p \in S : \A r \in S : p <= r
<1> DEFINE R == OpToRel(<, Nat)
<1>1. IsWellFoundedOn(R, Nat)
  BY NatLessThanWellFounded, Zenon
<1>2. \A x, y \in Nat : y < x => <<y, x>> \in R
  BY DEF OpToRel
<1>3. S \subseteq Nat
  BY NPROCAssumption DEF Slots
<1> HIDE DEF R
<1>4. PICK x \in S : \A y \in S : <<y, x>> \notin R
  BY <1>1, <1>3, WFMin, Zenon
<1>5. x \in Nat /\ \A y \in S : y \in Nat /\ ~(y < x)
  BY <1>2, <1>3, <1>4, Zenon
<1>6. QED
  BY <1>5

\* First() finds it.
LEMMA FirstIn ==
  ASSUME NEW S \in SUBSET Slots, S # {}
  PROVE  First(S) \in S
BY LeastIn DEF First

\* Facts about the constants.
LEMMA Constants ==
  /\ NULL \notin Slots
  /\ NULL \notin Cpus
  /\ initproc \in Slots
  /\ HI_PRIO \in Prio /\ NORM_PRIO \in Prio
  /\ Slots \subseteq Ptr /\ NULL \in Ptr
BY NPROCAssumption, CpusAssumption DEF NULL, Slots, initproc, Prio, Ptr

\* The sets of ready processes are sets of slots, one for each priority, and a
\* process is in the one of its priority.
LEMMA SetsFacts ==
  ASSUME TypeOK
  PROVE  /\ Sets \in Members
         /\ \A q \in Prio : \A p \in Slots :
              p \in Sets[q] <=> state[p] = "RUNNABLE" /\ priority[p] = q
BY DEF Sets, Members, Runnable, TypeOK

\* p->state = RUNNABLE; enqueue(p) keeps the queues exact for a process that was
\* not RUNNABLE, and does not panic.
LEMMA MakeRunnableTracks ==
  ASSUME TypeOK, QueuesTrack, NEW p \in Slots, NEW q \in Prio, state[p] # "RUNNABLE",
         MakeRunnable(p, q),
         priority' \in [Slots -> Prio], priority'[p] = q,
         \A r \in Slots \ {p} : priority'[r] = priority[r]
  PROVE  rq' \in RunQueues /\ QueuesTrack' /\ panic' = panic
<1>1. Sets \in Members /\ \A k \in Prio : p \notin Sets[k]
  BY SetsFacts
<1>2. /\ ~EnqueuePanics(rq, p)
      /\ Enqueue(rq, p, q) \in RunQueues
      /\ Tracks(Enqueue(rq, p, q), [Sets EXCEPT ![q] = @ \cup {p}])
  BY <1>1, EnqueueTracks DEF QueuesTrack, TypeOK
<1>3. Sets' = [Sets EXCEPT ![q] = @ \cup {p}]
  <2>1. \A k \in Prio : Runnable(k)' = IF k = q THEN Runnable(k) \cup {p} ELSE Runnable(k)
    BY DEF MakeRunnable, TypeOK, Runnable
  <2>2. QED
    BY <2>1, Zenon DEF Sets
<1>4. QED
  BY <1>2, <1>3 DEF MakeRunnable, QueuesTrack

\* The invariant holds when userinit() has made initproc ready.
LEMMA InitIInv == Init => IInv
<1> SUFFICES ASSUME Init PROVE IInv
  OBVIOUS
<1> DEFINE none == [q \in Prio |-> {}]
           quiet == [q \in Prio |-> << >>]
<1>1. EmptyQueues \in RunQueues /\ none \in Members
  BY Constants DEF EmptyQueues, RunQueues, Members
<1>2. Tracks(EmptyQueues, none)
  <2>1. quiet \in Ready /\ \A q \in Prio : quiet[q] = << >> /\ Len(quiet[q]) = 0 /\ Elems(quiet[q]) = {}
    BY DEF Ready, Elems
  <2>2. \A q \in Prio : IsQueue(EmptyQueues, q, quiet[q])
    BY <2>1 DEF IsQueue, EmptyQueues
  <2>3. Represents(EmptyQueues, quiet)
    BY <2>1, <2>2, Constants DEF Represents, EmptyQueues
  <2>4. QED
    BY <2>1, <2>3 DEF Tracks
<1>3. /\ rq \in RunQueues
      /\ Tracks(rq, [none EXCEPT ![NORM_PRIO] = @ \cup {initproc}])
  BY <1>1, <1>2, Constants, EnqueueTracks, Zenon DEF Init
<1>4. Sets = [none EXCEPT ![NORM_PRIO] = @ \cup {initproc}]
  <2>1. \A q \in Prio : Runnable(q) = IF q = NORM_PRIO THEN {initproc} ELSE {}
    BY Constants DEF Init, Runnable
  <2>2. QED
    BY <2>1, Constants DEF Sets
<1>5. TypeOK
  BY <1>3, Constants, MaxPidAssumption DEF Init, TypeOK, PState, PC
<1>6. QED
  BY <1>3, <1>4, <1>5, Constants
     DEF IInv, NoQueuePanic, QueuesTrack, StackInUse, ForkOwnsEmbryo, ThreadMatchesState,
         WakeupLocked, Init, Cur

\* Steps that change no state, priority or queue keep the queues exact.
LEMMA SameQueues ==
  ASSUME QueuesTrack, UNCHANGED <<state, priority, rq>>
  PROVE  QueuesTrack'
BY DEF QueuesTrack, Sets, Runnable

\* A change of state that neither makes nor unmakes a RUNNABLE process does too.
LEMMA SameRunnable ==
  ASSUME TypeOK, QueuesTrack, UNCHANGED <<priority, rq>>,
         \A p \in Slots : state'[p] = "RUNNABLE" <=> state[p] = "RUNNABLE"
  PROVE  QueuesTrack'
<1>1. \A q \in Prio : Runnable(q)' = Runnable(q)
  BY DEF Runnable
<1>2. QED
  BY <1>1 DEF QueuesTrack, Sets

\* The head scheduler() picks is RUNNABLE and in the queue of its priority.
LEMMA Next2RunRunnable ==
  ASSUME TypeOK, QueuesTrack, Next2Run # NULL
  PROVE  /\ Next2Run \in Slots /\ state[Next2Run] = "RUNNABLE"
         /\ Next2Run \in Sets[priority[Next2Run]]
         /\ priority[Next2Run] = NORM_PRIO => Runnable(HI_PRIO) = {}
<1>1. /\ Sets \in Members /\ rq \in RunQueues /\ Tracks(rq, Sets)
      /\ \A q \in Prio : \A p \in Slots : p \in Sets[q] <=> state[p] = "RUNNABLE" /\ priority[p] = q
  BY SetsFacts DEF TypeOK, QueuesTrack
<1>2. \A q \in Prio : IF Sets[q] = {} THEN rq.queue[q] = NULL
                      ELSE rq.queue[q] \in Sets[q] /\ rq.queue[q] # NULL
  BY <1>1, HeadTracks
<1>3. PICK q \in Prio : Next2Run = rq.queue[q] /\ (q = NORM_PRIO => Sets[HI_PRIO] = {})
  BY <1>2, Constants DEF Next2Run, HI_PRIO, NORM_PRIO
<1>4. Next2Run \in Sets[q]
  BY <1>2, <1>3
<1>5. Next2Run \in Slots /\ priority[Next2Run] = q /\ state[Next2Run] = "RUNNABLE"
  BY <1>1, <1>4 DEF Members
<1>6. Sets[HI_PRIO] = Runnable(HI_PRIO)
  BY Constants DEF Sets
<1>7. QED
  BY <1>3, <1>4, <1>5, <1>6

\* While the lock is free, every CPU that has a process runs it alone, no wakeup1()
\* loop is going on and nobody is in the last part of exit().
LEMMA LockFree ==
  ASSUME IInv, ptlock = NULL
  PROVE  /\ \A d \in Cpus : cpuproc[d] # NULL =>
              /\ cpuproc[d] \in Slots /\ state[cpuproc[d]] = "RUNNING"
              /\ \A e \in Cpus : cpuproc[e] = cpuproc[d] => e = d
         /\ \A r \in Slots : pc[r] \notin {"reparent", "zombie"}
         /\ wchan = NULL
<1>1. \A d \in Cpus : cpuproc[d] # NULL => cpuproc[d] \in Slots
  BY DEF IInv, TypeOK, Ptr
<1>2. \A d \in Cpus : cpuproc[d] # NULL =>
        state[cpuproc[d]] = "RUNNING" /\ \A e \in Cpus : cpuproc[e] = cpuproc[d] => e = d
  BY Constants DEF IInv, StackInUse, Cur
<1>3. \A r \in Slots : pc[r] \notin {"reparent", "zombie"}
  BY Constants DEF IInv, ThreadMatchesState
<1>4. QED
  BY <1>1, <1>2, <1>3 DEF IInv, WakeupLocked

\* scheduler() switching to a process keeps the invariant.
LEMMA DispatchIInv ==
  ASSUME IInv, NEW c \in Cpus, Dispatch(c)
  PROVE  IInv'
<1> DEFINE p == Next2Run
<1> USE DEF IInv
<1>1. p \in Slots /\ state[p] = "RUNNABLE" /\ p \in Sets[priority[p]]
  BY Next2RunRunnable DEF Dispatch
<1>2. Sets \in Members /\ priority[p] \in Prio
  BY <1>1, SetsFacts DEF TypeOK
<1>3. /\ ~DequeuePanics(rq, p, priority[p])
      /\ Dequeue(rq, p, priority[p]) \in RunQueues
      /\ Tracks(Dequeue(rq, p, priority[p]), [Sets EXCEPT ![priority[p]] = @ \ {p}])
  BY <1>1, <1>2, DequeueTracks, Zenon DEF QueuesTrack, TypeOK
<1> HIDE DEF p
<1>4. /\ cpuproc' = [cpuproc EXCEPT ![c] = p]
      /\ state' = [state EXCEPT ![p] = "RUNNING"]
      /\ rq' = Dequeue(rq, p, priority[p])
      /\ panic' = panic
      /\ chan' = [chan EXCEPT ![p] = NULL]
      /\ ptlock' = IF pc[p] = "wait" THEN c ELSE NULL
      /\ pc' = [pc EXCEPT ![p] = IF @ = "sleep" THEN "kern" ELSE @]
      /\ UNCHANGED <<pid, parent, killed, priority, nextpid, wchan, local, arg>>
      /\ ptlock = NULL /\ cpuproc[c] = NULL
  BY <1>3 DEF Dispatch, Acquires, Cur, p
<1>5. TypeOK'
  BY <1>1, <1>3, <1>4, Constants DEF TypeOK, PState, PC
<1>6. QueuesTrack'
  <2>1. \A q \in Prio : Runnable(q)' = IF q = priority[p] THEN Runnable(q) \ {p} ELSE Runnable(q)
    BY <1>1, <1>4 DEF TypeOK, Runnable
  <2>2. Sets' = [Sets EXCEPT ![priority[p]] = @ \ {p}]
    BY <2>1, Zenon DEF Sets
  <2>3. QED
    BY <2>2, <1>3, <1>4 DEF QueuesTrack
<1>7. StackInUse'
  <2>1. \A d \in Cpus : cpuproc[d] # NULL => state[cpuproc[d]] = "RUNNING" /\ cpuproc[d] # p
    BY <1>1, <1>4, LockFree
  <2>2. \A d \in Cpus : cpuproc'[d] = IF d = c THEN p ELSE cpuproc[d]
    BY <1>4 DEF TypeOK
  <2>3. \A r \in Slots : state'[r] = IF r = p THEN "RUNNING" ELSE state[r]
    BY <1>1, <1>4 DEF TypeOK
  <2>4. \A d \in Cpus : cpuproc[d] \in Ptr
    BY DEF TypeOK
  <2>5. \A d \in Cpus : cpuproc'[d] # NULL =>
          /\ \A e \in Cpus : cpuproc'[e] = cpuproc'[d] => e = d
          /\ state'[cpuproc'[d]] = "RUNNING"
    <3>1. \A d, e \in Cpus : cpuproc[d] # NULL /\ cpuproc[e] = cpuproc[d] => e = d
      BY <1>4, LockFree
    <3>2. \A d \in Cpus : cpuproc[d] # NULL => cpuproc[d] \in Slots
      BY <2>4 DEF Ptr
    <3>3. QED
      BY <2>1, <2>2, <2>3, <3>1, <3>2, <1>1, <1>4
  <2>6. ASSUME NEW r \in Slots, state'[r] = "RUNNING"
        PROVE  \E d \in Cpus : cpuproc'[d] = r
    <3>1. CASE r = p
      BY <2>2, <3>1
    <3>2. CASE r # p
      <4>1. PICK d \in Cpus : cpuproc[d] = r
        BY <2>3, <2>6, <3>2 DEF StackInUse, Cur
      <4>2. d # c
        BY <1>4, <4>1, Constants
      <4>3. QED
        BY <2>2, <4>1, <4>2
    <3>3. QED
      BY <3>1, <3>2
  <2>7. QED
    BY <2>5, <2>6 DEF StackInUse, Cur
<1>8. ForkOwnsEmbryo'
  BY <1>1, <1>4, Constants DEF ForkOwnsEmbryo, TypeOK, Ptr
<1>9. ThreadMatchesState'
  <2>1. \A r \in Slots : pc'[r] \notin {"reparent", "zombie"}
    BY <1>1, <1>4, LockFree DEF TypeOK
  <2>2. QED
    BY <2>1, <1>1, <1>4 DEF ThreadMatchesState, TypeOK
<1>10. WakeupLocked'
  BY <1>4, Zenon DEF WakeupLocked
<1>11. QED
  BY <1>4, <1>5, <1>6, <1>7, <1>8, <1>9, <1>10 DEF NoQueuePanic

\* The scheduler taking back the CPU and the lock keeps the invariant.
LEMMA SwitchOutIInv ==
  ASSUME IInv, NEW c \in Cpus, SwitchOut(c)
  PROVE  IInv'
<1> USE DEF IInv
<1>1. /\ cpuproc' = [cpuproc EXCEPT ![c] = NULL] /\ ptlock' = NULL /\ ptlock = c /\ wchan = NULL
      /\ state[cpuproc[c]] # "RUNNING"
      /\ UNCHANGED <<table, threads, wchan, panic>>
  BY DEF SwitchOut, Cur
<1>2. TypeOK'
  BY <1>1, Constants DEF TypeOK, table, threads
<1>3. StackInUse'
  BY <1>1, Constants DEF StackInUse, Cur, TypeOK, table
<1>4. ThreadMatchesState'
  <2>1. pc' = pc /\ state' = state
    BY <1>1 DEF table, threads
  <2>2. \A r \in Slots : pc[r] \notin {"reparent", "zombie"}
    BY <1>1 DEF ThreadMatchesState, Cur
  <2>3. QED
    BY <2>1, <2>2 DEF ThreadMatchesState
<1>5. QED
  BY <1>1, <1>2, <1>3, <1>4, SameQueues
     DEF NoQueuePanic, ForkOwnsEmbryo, WakeupLocked, table, threads

\* The timer interrupt's yield() keeps the invariant.
LEMMA YieldIInv ==
  ASSUME IInv, NEW c \in Cpus, Yield(c)
  PROVE  IInv'
<1> DEFINE p == cpuproc[c]
<1> USE DEF IInv
<1>1. p \in Slots /\ state[p] = "RUNNING" /\ priority[p] \in Prio /\ ptlock = NULL
  BY Constants DEF Yield, Acquires, Cur, TypeOK, Ptr, StackInUse
<1>2. /\ MakeRunnable(p, priority[p]) /\ ptlock' = c
      /\ UNCHANGED <<pid, parent, chan, killed, priority, nextpid, threads, wchan, cpuproc>>
      /\ state' = [state EXCEPT ![p] = "RUNNABLE"]
  BY DEF Yield, Cur, MakeRunnable
<1>3. rq' \in RunQueues /\ QueuesTrack' /\ panic' = panic
  <2>1. priority' = priority /\ priority \in [Slots -> Prio]
    BY <1>2 DEF TypeOK
  <2>2. QED
    BY <1>1, <1>2, <2>1, MakeRunnableTracks
<1> HIDE DEF p
<1>4. TypeOK'
  BY <1>1, <1>2, <1>3 DEF TypeOK, PState, threads
<1>5. StackInUse'
  <2>1. \A d \in Cpus : cpuproc[d] = p => d = c
    BY <1>1, Constants DEF StackInUse, Cur, p
  <2>2. \A r \in Slots : state'[r] = IF r = p THEN "RUNNABLE" ELSE state[r]
    BY <1>1, <1>2 DEF TypeOK
  <2>3. \A d \in Cpus : cpuproc'[d] # NULL =>
          /\ \A e \in Cpus : cpuproc'[e] = cpuproc'[d] => e = d
          /\ state'[cpuproc'[d]] = "RUNNING" \/ ptlock' = d
    BY <1>1, <1>2, <2>1, <2>2, LockFree
  <2>4. ASSUME NEW r \in Slots, state'[r] = "RUNNING"
        PROVE  \E d \in Cpus : cpuproc'[d] = r
    <3>1. state[r] = "RUNNING"
      BY <2>2, <2>4
    <3>2. PICK d \in Cpus : cpuproc[d] = r
      BY <3>1 DEF StackInUse, Cur
    <3>3. QED
      BY <1>2, <3>2
  <2>5. QED
    BY <2>3, <2>4 DEF StackInUse, Cur
<1>6. ForkOwnsEmbryo' /\ ThreadMatchesState'
  <2>1. pc' = pc /\ local' = local /\ parent' = parent /\ \A r \in Slots : local[r] \in Ptr
    BY <1>2 DEF threads, TypeOK
  <2>2. \A r \in Slots : pc[r] \notin {"reparent", "zombie"}
    BY <1>1, LockFree
  <2>3. \A r \in Slots : state'[r] = IF r = p THEN "RUNNABLE" ELSE state[r]
    BY <1>1, <1>2 DEF TypeOK
  <2>4. ForkOwnsEmbryo'
    BY <1>1, <2>1, <2>3 DEF ForkOwnsEmbryo, Ptr
  <2>5. ThreadMatchesState'
    BY <2>1, <2>2, <2>3 DEF ThreadMatchesState
  <2>6. QED
    BY <2>4, <2>5
<1>7. QED
  BY <1>1, <1>2, <1>3, <1>4, <1>5, <1>6 DEF NoQueuePanic, WakeupLocked
=============================================================================
