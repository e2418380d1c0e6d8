--------------------------- MODULE ProcRefinement ---------------------------
(* The process table implements ReadyQueues: whatever the number of slots and *)
(* CPUs, every step of Proc moves the sequences the linked lists stand for as *)
(* ReadyQueues allows.                                                        *)
EXTENDS ProcProofs, ProcQueues, SequenceTheorems, FiniteSetTheorems

(* ---------------------- the lists hold the processes --------------------- *)

\* A sequence of slots without repetitions is no longer than NPROC.
LEMMA ShortEnough ==
  ASSUME NEW s \in Seq(Slots), \A i, j \in 1..Len(s) : s[i] = s[j] => i = j
  PROVE  Len(s) <= NPROC
<1> DEFINE n == Len(s)
           D == 1..n
           f == [i \in D |-> s[i]]
<1>1. n \in Int /\ n >= 0 /\ NPROC \in Int /\ NPROC >= 1 /\ 1 \in Int
  BY NPROCAssumption
<1>2. f \in Injection(D, Slots)
  BY DEF Injection, IsInjective
<1>3. IsFiniteSet(Slots) /\ Cardinality(Slots) = NPROC
  BY <1>1, FS_Interval DEF Slots
<1>4. Cardinality(D) = n
  <2> HIDE DEF n
  <2>1. Cardinality(1..n) = IF 1 > n THEN 0 ELSE n - 1 + 1
    BY <1>1, FS_Interval
  <2>2. QED
    BY <1>1, <2>1
<1> HIDE DEF D, f
<1>5. Cardinality(D) <= Cardinality(Slots)
  BY <1>2, <1>3, FS_Injection
<1>6. QED
  BY <1>3, <1>4, <1>5

\* What the invariant says of the queues, in the terms of QueuesHoldRunnable.
LEMMA TrackHolds == TypeOK /\ QueuesTrack => QueuesHoldRunnable
<1> SUFFICES ASSUME TypeOK, QueuesTrack PROVE QueuesHoldRunnable
  OBVIOUS
<1>1. PICK r \in Ready : Represents(rq, r) /\ \A q \in Prio : Elems(r[q]) = Sets[q]
  BY DEF QueuesTrack, Tracks
<1>2. ASSUME NEW q \in Prio
      PROVE  \E s \in Queues : IsQueue(rq, q, s) /\ Elems(s) = Runnable(q)
  <2>1. r[q] \in Seq(Slots) /\ IsQueue(rq, q, r[q]) /\ Elems(r[q]) = Runnable(q)
    BY <1>1 DEF Ready, Represents, Sets
  <2>2. \A i, j \in 1..Len(r[q]) : r[q][i] = r[q][j] => i = j
    BY <2>1 DEF IsQueue
  <2>3. Len(r[q]) \in 0..NPROC
    BY <2>1, <2>2, ShortEnough, NPROCAssumption
  <2>4. r[q] \in Queues
    BY <2>1, <2>3 DEF Queues
  <2>5. QED
    BY <2>1, <2>4
<1>3. \A p \in Slots : state[p] # "RUNNABLE" => rq.next[p] = NULL /\ rq.previous[p] = NULL
  <2>1. /\ Sets \in Members /\ rq \in RunQueues /\ Tracks(rq, Sets)
        /\ \A p \in Slots : state[p] # "RUNNABLE" => \A q \in Prio : p \notin Sets[q]
    BY SetsFacts DEF QueuesTrack, TypeOK
  <2>2. QED
    BY <2>1, HeadTracks
<1>4. QED
  BY <1>2, <1>3 DEF QueuesHoldRunnable

\* The queues hold exactly the RUNNABLE processes, each once, in intact circular
\* lists, for any number of processes and CPUs and any interleaving.
THEOREM QueuesCorrect == Spec => []QueuesHoldRunnable
<1>1. IInv => QueuesHoldRunnable
  BY TrackHolds DEF IInv
<1>2. QED
  BY <1>1, Inductive, PTL

(* --------------------- a list stands for one sequence -------------------- *)

\* Two sequences that one circular list stands for agree as far as both go.
LEMMA QueuesAgree ==
  ASSUME NEW l, NEW q, NEW s \in Seq(Slots), NEW t \in Seq(Slots),
         IsQueue(l, q, s), IsQueue(l, q, t), NEW i \in Slots, i <= Len(s), i <= Len(t)
  PROVE  s[i] = t[i]
<1> DEFINE D == {j \in Slots : j <= Len(s) /\ j <= Len(t) /\ s[j] # t[j]}
           m == First(D)
<1> SUFFICES ASSUME D # {} PROVE FALSE
  OBVIOUS
<1>1. m \in D /\ m \in Int /\ m >= 1 /\ Len(s) \in Int /\ Len(t) \in Int
  <2>1. m \in D
    BY FirstIn, Zenon
  <2>2. QED
    BY <2>1, NPROCAssumption DEF Slots
<1>2. \A j \in D : m <= j
  <2>1. \E x \in D : \A y \in D : x <= y
    BY LeastIn, Zenon
  <2>2. QED
    BY <2>1 DEF First
<1> HIDE DEF m
<1>3. CASE m = 1
  BY <1>1, <1>3 DEF IsQueue
<1>4. CASE m # 1
  <2>1. m <= Len(s) /\ m <= Len(t) /\ m <= NPROC /\ NPROC \in Int
    BY <1>1, NPROCAssumption DEF Slots
  <2> HIDE DEF D
  <2>2. m - 1 \in Slots /\ m - 1 \in 1..Len(s) /\ m - 1 \in 1..Len(t) /\ m - 1 # Len(s) /\ m - 1 # Len(t)
    BY <1>1, <1>4, <2>1 DEF Slots
  <2>3. m - 1 \notin D
    BY <1>1, <1>2
  <2>4. s[m - 1] = t[m - 1]
    BY <2>2, <2>3 DEF D
  <2>5. Succ(s, m - 1) = m /\ Succ(t, m - 1) = m
    BY <1>1, <2>2 DEF Succ
  <2>6. l.next[s[m - 1]] = s[m] /\ l.next[t[m - 1]] = t[m]
    BY <2>2, <2>5 DEF IsQueue
  <2>7. QED
    BY <1>1, <2>4, <2>6 DEF D
<1>5. QED
  BY <1>3, <1>4

\* Neither goes further than the other: its last process points to the head.
LEMMA QueueNotShorter ==
  ASSUME NEW l, NEW q, NEW s \in Seq(Slots), NEW t \in Seq(Slots),
         IsQueue(l, q, s), IsQueue(l, q, t)
  PROVE  Len(t) <= Len(s)
<1> SUFFICES ASSUME Len(s) < Len(t) PROVE FALSE
  OBVIOUS
<1> DEFINE n == Len(s)
<1>1. n \in Nat /\ Len(t) \in Nat /\ Len(t) <= NPROC
  BY ShortEnough DEF IsQueue
<1>2. t[1] \in Slots /\ l.queue[q] = t[1]
  BY <1>1, ElementOfSeq DEF IsQueue
<1>3. n # 0
  BY <1>2, Constants DEF IsQueue
<1>4. n \in Slots /\ 1 \in Slots
  BY <1>1, <1>3, NPROCAssumption DEF Slots
<1>5. s[n] = t[n] /\ s[1] = t[1]
  BY <1>1, <1>3, <1>4, QueuesAgree
<1>6. l.next[s[n]] = s[1]
  BY <1>1, <1>3 DEF IsQueue, Succ
<1>7. l.next[t[n]] = t[n + 1]
  BY <1>1, <1>3 DEF IsQueue, Succ
<1>8. t[n + 1] = t[1]
  BY <1>5, <1>6, <1>7
<1>9. QED
  BY <1>1, <1>3, <1>8 DEF IsQueue

\* The sequence of a queue of well formed lists is the one they represent.
LEMMA LineIs ==
  ASSUME NEW l \in RunQueues, NEW r \in Ready, Represents(l, r), NEW q \in Prio
  PROVE  Line(l, q) = r[q]
<1>1. r[q] \in Seq(Slots) /\ IsQueue(l, q, r[q])
  BY DEF Ready, Represents
<1>2. Len(r[q]) \in 0..NPROC
  BY <1>1, ShortEnough, NPROCAssumption DEF IsQueue
<1>3. r[q] \in Queues
  BY <1>1, <1>2 DEF Queues
<1>4. ASSUME NEW s \in Queues, IsQueue(l, q, s)
      PROVE  s = r[q]
  <2>1. s \in Seq(Slots)
    BY NPROCAssumption DEF Queues
  <2>2. Len(s) = Len(r[q])
    BY <1>1, <1>4, <2>1, QueueNotShorter, LenProperties
  <2>3. ASSUME NEW i \in 1..Len(s)
        PROVE  s[i] = r[q][i]
    <3>1. i \in Slots /\ i <= Len(s) /\ i <= Len(r[q])
      BY <1>2, <2>2, NPROCAssumption DEF Slots
    <3>2. QED
      BY <1>1, <1>4, <2>1, <3>1, QueuesAgree
  <2>4. QED
    BY <1>1, <2>1, <2>2, <2>3, SeqEqual
<1>5. Line(l, q) \in Queues /\ IsQueue(l, q, Line(l, q))
  BY <1>1, <1>3 DEF Line
<1>6. QED
  BY <1>4, <1>5

\* What is before and what is after the k-th element is Without(s, k).
LEMMA WithoutIs ==
  ASSUME NEW s \in Seq(Slots), NEW k \in 1..Len(s)
  PROVE  SubSeq(s, 1, k - 1) \o SubSeq(s, k + 1, Len(s)) = Without(s, k)
<1> DEFINE n == Len(s)
           a == SubSeq(s, 1, k - 1)
           b == SubSeq(s, k + 1, n)
<1>1. n \in Nat /\ k \in Int /\ 1 <= k /\ k <= n
  OBVIOUS
<1>2. /\ a \in Seq(Slots) /\ Len(a) = k - 1
      /\ \A i \in 1..(k - 1) : a[i] = s[i]
  <2>1. \A i \in 1..(k - 1) : s[i] \in Slots
    BY <1>1, ElementOfSeq
  <2>2. QED
    BY <1>1, <2>1, SubSeqProperties
<1>3. /\ b \in Seq(Slots) /\ Len(b) = n - k
      /\ \A i \in 1..(n - k) : b[i] = s[k + i]
  <2>1. \A i \in (k + 1)..n : s[i] \in Slots
    BY <1>1, ElementOfSeq
  <2>2. QED
    BY <1>1, <2>1, SubSeqProperties
<1>4. /\ Without(s, k) \in Seq(Slots) /\ Len(Without(s, k)) = n - 1
      /\ \A i \in 1..(n - 1) : Without(s, k)[i] = IF i < k THEN s[i] ELSE s[i + 1]
  <2>1. \A i \in 1..(n - 1) : (IF i < k THEN s[i] ELSE s[i + 1]) \in Slots
    BY <1>1, ElementOfSeq
  <2>2. QED
    BY <1>1, <2>1 DEF Without
<1> HIDE DEF a, b, n
<1>5. /\ a \o b \in Seq(Slots) /\ Len(a \o b) = n - 1
      /\ \A i \in 1..(n - 1) : (a \o b)[i] = IF i <= k - 1 THEN a[i] ELSE b[i - (k - 1)]
  <2>1. /\ a \o b \in Seq(Slots) /\ Len(a \o b) = Len(a) + Len(b)
        /\ \A i \in 1..(Len(a) + Len(b)) :
             (a \o b)[i] = IF i <= Len(a) THEN a[i] ELSE b[i - Len(a)]
    BY <1>2, <1>3, ConcatProperties, Zenon
  <2>2. Len(a) + Len(b) = n - 1
    BY <1>1, <1>2, <1>3
  <2>3. QED
    BY <1>2, <2>1, <2>2
<1>6. ASSUME NEW i \in 1..(n - 1)
      PROVE  (a \o b)[i] = Without(s, k)[i]
  <2>1. CASE i < k
    <3>1. i \in 1..(k - 1) /\ i <= k - 1
      BY <1>1, <2>1
    <3>2. (a \o b)[i] = a[i] /\ a[i] = s[i] /\ Without(s, k)[i] = s[i]
      BY <1>2, <1>4, <1>5, <2>1, <3>1
    <3>3. QED
      BY <3>2
  <2>2. CASE ~(i < k)
    <3>1. i - (k - 1) \in 1..(n - k) /\ k + (i - (k - 1)) = i + 1 /\ ~(i <= k - 1)
      BY <1>1, <2>2
    <3>2. b[i - (k - 1)] = s[i + 1]
      BY <1>3, <3>1
    <3>3. (a \o b)[i] = b[i - (k - 1)] /\ Without(s, k)[i] = s[i + 1]
      BY <1>4, <1>5, <2>2, <3>1
    <3>4. QED
      BY <3>2, <3>3
  <2>3. QED
    BY <2>1, <2>2, Zenon
<1>7. a \o b = Without(s, k)
  BY <1>4, <1>5, <1>6, SeqEqual
<1>8. QED
  BY <1>7, Zenon DEF a, b, n

\* Removing the first element leaves the tail.
LEMMA TailIs ==
  ASSUME NEW s \in Seq(Slots), s # << >>
  PROVE  Without(s, 1) = Tail(s) /\ Head(s) = s[1] /\ 1 \in 1..Len(s)
<1>1. Len(s) \in Nat \ {0}
  BY EmptySeq
<1>2. /\ Tail(s) \in Seq(Slots) /\ Len(Tail(s)) = Len(s) - 1
      /\ \A i \in 1..(Len(s) - 1) : Tail(s)[i] = s[i + 1]
  BY HeadTailProperties
<1>3. /\ Without(s, 1) \in Seq(Slots) /\ Len(Without(s, 1)) = Len(s) - 1
      /\ \A i \in 1..(Len(s) - 1) : Without(s, 1)[i] = s[i + 1]
  <2>1. \A i \in 1..(Len(s) - 1) : (IF i < 1 THEN s[i] ELSE s[i + 1]) = s[i + 1] /\ s[i + 1] \in Slots
    BY <1>1, ElementOfSeq
  <2>2. QED
    BY <1>1, <2>1 DEF Without
<1>4. Without(s, 1) = Tail(s)
  BY <1>2, <1>3, SeqEqual
<1>5. QED
  BY <1>1, <1>4

(* ------------------------- the state of ReadyQueues ---------------------- *)

Lined == [q \in Prio |-> Line(rq, q)]
Runs == {p \in Slots : state[p] = "RUNNING"}

\* The steps of ReadyQueues in terms of Lined and Runs.
Stutters == Lined' = Lined /\ Runs' = Runs
Simulates == Abstract!Next \/ Stutters

\* The sequences of the lists hold the RUNNABLE processes of their priority.
LEMMA LinedIs ==
  ASSUME IInv
  PROVE  /\ rq \in RunQueues /\ Lined \in Ready /\ Represents(rq, Lined)
         /\ \A q \in Prio : /\ Lined[q] \in Seq(Slots)
                            /\ Elems(Lined[q]) = Runnable(q)
<1>1. rq \in RunQueues
  BY DEF IInv, TypeOK
<1>2. PICK r \in Ready : Represents(rq, r) /\ \A q \in Prio : Elems(r[q]) = Sets[q]
  BY DEF IInv, QueuesTrack, Tracks
<1>3. Lined = r
  <2>1. \A q \in Prio : Line(rq, q) = r[q]
    BY <1>1, <1>2, LineIs
  <2>2. r = [q \in Prio |-> r[q]]
    BY DEF Ready
  <2>3. QED
    BY <2>1, <2>2 DEF Lined
<1>4. \A q \in Prio : r[q] \in Seq(Slots) /\ Sets[q] = Runnable(q)
  BY DEF Ready, Sets
<1>5. QED
  BY <1>1, <1>2, <1>3, <1>4

\* After a step they are what the new lists represent.
LEMMA LinedNext ==
  ASSUME rq' \in RunQueues, NEW r \in Ready, Represents(rq', r)
  PROVE  Lined' = r
<1>1. \A q \in Prio : Line(rq', q) = r[q]
  BY LineIs
<1>2. r = [q \in Prio |-> r[q]]
  BY DEF Ready
<1>3. QED
  BY <1>1, <1>2 DEF Lined

\* A process that is not RUNNABLE is in no queue.
LEMMA NotQueued ==
  ASSUME IInv, NEW p \in Slots, state[p] # "RUNNABLE"
  PROVE  p \notin Abstract!Queued /\ \A k \in Prio : p \notin Elems(Lined[k])
<1>1. \A k \in Prio : p \notin Elems(Lined[k]) /\ Lined[k] \in Seq(Slots)
  BY LinedIs DEF Runnable
<1>2. \A k \in Prio : Abstract!In(k) = Elems(Lined[k])
  BY DEF Abstract!In, Elems, Lined
<1>3. Abstract!Queued = UNION {Abstract!In(k) : k \in Prio}
  BY DEF Abstract!Queued
<1>4. QED
  BY <1>1, <1>2, <1>3

(* ------------------------------ the steps -------------------------------- *)

\* A process that becomes RUNNABLE joins the end of the queue of its priority.
LEMMA MakeRunnableSim ==
  ASSUME IInv, NEW p \in Slots, NEW q \in Prio, state[p] # "RUNNABLE", MakeRunnable(p, q)
  PROVE  Simulates
<1>1. rq' = Enqueue(rq, p, q) /\ \A r \in Slots : state'[r] = IF r = p THEN "RUNNABLE" ELSE state[r]
  BY DEF MakeRunnable, IInv, TypeOK
<1>2. p \notin Abstract!Queued /\ \A k \in Prio : p \notin Elems(Lined[k])
  BY NotQueued
<1>3. Lined' = [Lined EXCEPT ![q] = Append(@, p)]
  BY <1>1, <1>2, LinedIs, EnqueueAppends, LinedNext, Zenon
<1>4. Runs' = Runs \ {p}
  BY <1>1 DEF Runs
<1>5. Abstract!Admit(p, q)
  BY <1>2, <1>3, <1>4 DEF Abstract!Admit, Lined, Runs
<1>6. QED
  BY <1>5 DEF Simulates, Abstract!Next

\* A process that stops running without becoming RUNNABLE leaves.
LEMMA LeaveSim ==
  ASSUME IInv, NEW p \in Slots, state[p] = "RUNNING", NEW to \in {"SLEEPING", "ZOMBIE"},
         state' = [state EXCEPT ![p] = to], rq' = rq
  PROVE  Simulates
<1>1. \A r \in Slots : state'[r] = IF r = p THEN to ELSE state[r]
  BY DEF IInv, TypeOK
<1>2. p \in Runs /\ Runs' = Runs \ {p}
  BY <1>1 DEF Runs
<1>3. Lined' = Lined
  BY DEF Lined
<1>4. Abstract!Leave(p)
  BY <1>2, <1>3 DEF Abstract!Leave, Lined, Runs
<1>5. QED
  BY <1>4 DEF Simulates, Abstract!Next

\* A step that starts, stops and queues nobody is not seen.
LEMMA StutterSim ==
  ASSUME rq' = rq, \A p \in Slots : state'[p] = "RUNNING" <=> state[p] = "RUNNING"
  PROVE  Simulates
BY DEF Simulates, Stutters, Lined, Runs

\* scheduler() starts the first process of the first queue that has one.
LEMMA DispatchSim ==
  ASSUME IInv, NEW c \in Cpus, Dispatch(c)
  PROVE  Simulates
<1> DEFINE p == Next2Run
<1>1. PICK q \in Prio : q = priority[p] /\ p \in Slots /\ state[p] = "RUNNABLE"
  BY Next2RunRunnable DEF Dispatch, IInv, TypeOK
<1>2. /\ rq' = Dequeue(rq, p, q)
      /\ \A r \in Slots : state'[r] = IF r = p THEN "RUNNING" ELSE state[r]
  BY <1>1 DEF Dispatch, IInv, TypeOK
<1>3. \A k \in Prio : /\ rq.queue[k] = IF Len(Lined[k]) = 0 THEN NULL ELSE Lined[k][1]
                      /\ Lined[k] \in Seq(Slots) /\ Elems(Lined[k]) = Runnable(k)
  BY LinedIs DEF Represents, IsQueue
<1>4. PICK k \in Prio : /\ p = rq.queue[k]
                        /\ k = NORM_PRIO => rq.queue[HI_PRIO] = NULL
  BY Constants DEF Next2Run, HI_PRIO, NORM_PRIO
<1>5. p # NULL
  BY <1>1, Constants
<1>6. Len(Lined[k]) \in Nat \ {0} /\ Lined[k] # << >> /\ p = Lined[k][1]
  BY <1>3, <1>4, <1>5, LenProperties
<1>7. k = q
  <2>1. p \in Elems(Lined[k])
    BY <1>6 DEF Elems
  <2>2. QED
    BY <1>1, <1>3, <2>1 DEF Runnable
<1>8. \A r \in Prio : r < q => Lined[r] = << >>
  <2>1. q = NORM_PRIO => Lined[HI_PRIO] = << >>
    <3>1. ASSUME q = NORM_PRIO PROVE Len(Lined[HI_PRIO]) = 0
      <4>1. Lined[HI_PRIO] \in Seq(Slots) /\ rq.queue[HI_PRIO] = NULL
        BY <1>3, <1>4, <1>7, <3>1, Constants
      <4>2. Len(Lined[HI_PRIO]) # 0 => Lined[HI_PRIO][1] \in Slots
        BY <4>1, ElementOfSeq, LenProperties
      <4>3. QED
        BY <1>3, <4>1, <4>2, Constants
    <3>2. QED
      BY <1>3, <3>1, EmptySeq, Constants
  <2>2. QED
    BY <1>1, <2>1 DEF Prio, HI_PRIO, NORM_PRIO
<1>9. Without(Lined[q], 1) = Tail(Lined[q]) /\ Head(Lined[q]) = p /\ 1 \in 1..Len(Lined[q])
  BY <1>3, <1>6, <1>7, TailIs, Zenon
<1> HIDE DEF p
<1>10. Lined' = [Lined EXCEPT ![q] = Tail(@)]
  <2>1. /\ Dequeue(rq, p, q) \in RunQueues
        /\ [Lined EXCEPT ![q] = Without(@, 1)] \in Ready
        /\ Represents(Dequeue(rq, p, q), [Lined EXCEPT ![q] = Without(@, 1)])
    BY <1>1, <1>6, <1>7, <1>9, LinedIs, DequeueRemoves, Zenon
  <2>2. Lined' = [Lined EXCEPT ![q] = Without(@, 1)]
    BY <1>2, <2>1, LinedNext
  <2>3. QED
    BY <1>9, <2>2, Zenon
<1>11. Runs' = Runs \cup {Head(Lined[q])}
  BY <1>1, <1>2, <1>9 DEF Runs
<1>12. Abstract!Start(q)
  BY <1>6, <1>7, <1>8, <1>10, <1>11 DEF Abstract!Start, Lined, Runs
<1>13. QED
  BY <1>12 DEF Simulates, Abstract!Next

\* setprio() moves a RUNNABLE process to the end of its new queue.
LEMMA SetprioSim ==
  ASSUME IInv, NEW c \in Cpus, NEW t \in Targets, NEW q \in Prio, Setprio(c, t, q)
  PROVE  Simulates
<1> DEFINE p == First(Named(t))
           old == priority[p]
<1>1. CASE rq' = rq
  BY <1>1, StutterSim DEF Setprio
<1>2. CASE Named(t) # {} /\ old # q /\ state[p] = "RUNNABLE"
  <2>1. p \in Slots
    BY <1>2, FirstIn DEF Named
  <2>2. old \in Prio /\ p \in Runnable(old)
    BY <1>2, <2>1 DEF Runnable, IInv, TypeOK
  <2>3. rq' = Enqueue(Dequeue(rq, p, old), p, q) /\ state' = state
    BY <1>2 DEF Setprio
  <2> HIDE DEF p, old
  <2>4. PICK k \in 1..Len(Lined[old]) : Lined[old][k] = p
    BY <2>2, LinedIs DEF Elems
  <2> DEFINE out == Dequeue(rq, p, old)
             r == [Lined EXCEPT ![old] = Without(@, k)]
  <2>5. out \in RunQueues /\ r \in Ready /\ Represents(out, r)
    BY <2>2, <2>4, LinedIs, DequeueRemoves
  <2>6. \A j \in Prio : p \notin Elems(r[j])
    <3>1. \A i, j \in 1..Len(Lined[old]) : Lined[old][i] = Lined[old][j] => i = j
      BY <2>2, LinedIs DEF Represents, IsQueue
    <3>2. Elems(Without(Lined[old], k)) = Elems(Lined[old]) \ {p}
      BY <2>2, <2>4, <3>1, LinedIs, WithoutFacts, Zenon
    <3>3. \A j \in Prio \ {old} : p \notin Elems(Lined[j])
      BY <2>2, LinedIs DEF Runnable
    <3>4. \A j \in Prio : r[j] = IF j = old THEN Without(Lined[old], k) ELSE Lined[j]
      BY LinedIs DEF Ready
    <3>5. QED
      BY <3>2, <3>3, <3>4
  <2> HIDE DEF out, r
  <2>7. /\ Enqueue(out, p, q) \in RunQueues
        /\ [r EXCEPT ![q] = Append(@, p)] \in Ready
        /\ Represents(Enqueue(out, p, q), [r EXCEPT ![q] = Append(@, p)])
    BY <2>1, <2>5, <2>6, EnqueueAppends
  <2>8. Lined' = [r EXCEPT ![q] = Append(@, p)]
    BY <2>3, <2>7, LinedNext DEF out
  <2>9. Without(Lined[old], k) = SubSeq(Lined[old], 1, k - 1) \o SubSeq(Lined[old], k + 1, Len(Lined[old]))
    BY <2>2, LinedIs, WithoutIs, Zenon
  <2>10. [r EXCEPT ![q] = Append(@, p)] =
           [Lined EXCEPT ![old] = SubSeq(@, 1, k - 1) \o SubSeq(@, k + 1, Len(@)),
                         ![q] = Append(@, Lined[old][k])]
    BY <1>2, <2>2, <2>4, <2>9, LinedIs, Zenon DEF r, Ready
  <2>11. Runs' = Runs
    BY <2>3 DEF Runs
  <2>12. Abstract!Move(k, old, q)
    BY <1>2, <2>8, <2>10, <2>11 DEF Abstract!Move, Lined, Runs, old, p
  <2>13. QED
    BY <2>2, <2>12 DEF Simulates, Abstract!Next, Lined
<1>3. QED
  BY <1>1, <1>2 DEF Setprio

\* wait() clears the links of the child it reaps, which were clear.
LEMMA WaitReapsSim ==
  ASSUME IInv, NEW c \in Cpus, WaitReaps(c)
  PROVE  Simulates
<1> DEFINE p == First(Zombies(Cur(c)))
<1>1. p \in Slots /\ state[p] = "ZOMBIE"
  BY FirstIn DEF WaitReaps, Zombies, Children
<1>2. /\ state' = [state EXCEPT ![p] = "UNUSED"]
      /\ rq' = [queue    |-> rq.queue,
                next     |-> [rq.next EXCEPT ![p] = NULL],
                previous |-> [rq.previous EXCEPT ![p] = NULL]]
  BY DEF WaitReaps
<1> HIDE DEF p
<1>3. rq.next[p] = NULL /\ rq.previous[p] = NULL
  BY <1>1, TrackHolds DEF IInv, QueuesHoldRunnable
<1>4. rq \in RunQueues /\ state \in [Slots -> PState]
  BY DEF IInv, TypeOK
<1>5. [rq.next EXCEPT ![p] = NULL] = rq.next /\ [rq.previous EXCEPT ![p] = NULL] = rq.previous
  BY <1>1, <1>3, <1>4 DEF RunQueues
<1>6. rq' = rq
  BY <1>2, <1>4, <1>5 DEF RunQueues
<1>7. QED
  BY <1>1, <1>2, <1>4, <1>6, StutterSim

\* fork() takes or gives back a slot nobody runs in, or makes its child ready.
LEMMA ForkSim ==
  ASSUME IInv, NEW c \in Cpus,
         AllocProc(c) \/ ForkFails(c) \/ ForkCopies(c) \/ ForkPublishes(c)
  PROVE  Simulates
<1>1. CASE AllocProc(c)
  <2>1. First(Unused) \in Slots /\ state[First(Unused)] = "UNUSED"
    BY <1>1, FirstIn DEF AllocProc, Unused
  <2>2. rq' = rq /\ \A r \in Slots : state'[r] = IF r = First(Unused) THEN "EMBRYO" ELSE state[r]
    BY <1>1, <2>1 DEF AllocProc, IInv, TypeOK
  <2>3. QED
    BY <2>1, <2>2, StutterSim
<1>2. CASE ForkCopies(c)
  BY <1>2, StutterSim DEF ForkCopies
<1>3. CASE ForkFails(c) \/ ForkPublishes(c)
  <2> DEFINE np == local[cpuproc[c]]
  <2>1. cpuproc[c] \in Slots /\ pc[cpuproc[c]] \in {"alloced", "copied"}
    BY <1>3, CurRunning, Constants
       DEF ForkFails, ForkPublishes, Running, Acquires, In, Cur
  <2>2. np \in Slots /\ state[np] = "EMBRYO"
    BY <2>1 DEF IInv, TypeOK, Ptr, ForkOwnsEmbryo
  <2>3. CASE ForkFails(c)
    <3>1. rq' = rq /\ \A r \in Slots : state'[r] = IF r = np THEN "UNUSED" ELSE state[r]
      BY <2>2, <2>3 DEF ForkFails, Cur, IInv, TypeOK
    <3>2. QED
      BY <2>2, <3>1, StutterSim
  <2>4. CASE ForkPublishes(c)
    <3>1. pc[cpuproc[c]] = "copied"
      BY <2>4 DEF ForkPublishes, In, Cur
    <3>2. parent[np] = cpuproc[c]
      BY <2>1, <3>1 DEF IInv, ForkOwnsEmbryo
    <3>3. priority[parent[np]] \in Prio /\ MakeRunnable(np, priority[parent[np]])
      BY <2>1, <2>4, <3>2 DEF ForkPublishes, Cur, IInv, TypeOK
    <3>4. QED
      BY <2>2, <3>3, MakeRunnableSim
  <2>5. QED
    BY <1>3, <2>3, <2>4
<1>4. QED
  BY <1>1, <1>2, <1>3

\* yield(), wakeup() and kill() make a process ready that was not.
LEMMA ReadySim ==
  ASSUME IInv, NEW c \in Cpus,
         Yield(c) \/ Wakeup1(c) \/ \E k \in Targets : Kill(c, k)
  PROVE  Simulates
<1>1. CASE Yield(c)
  <2>1. cpuproc[c] \in Slots /\ state[cpuproc[c]] = "RUNNING"
    BY <1>1, LockFree, Zenon DEF Yield, Acquires, Cur
  <2>2. priority[cpuproc[c]] \in Prio /\ MakeRunnable(cpuproc[c], priority[cpuproc[c]])
    BY <1>1, <2>1 DEF Yield, Cur, IInv, TypeOK
  <2>3. QED
    BY <2>1, <2>2, MakeRunnableSim, Zenon
<1>2. CASE Wakeup1(c)
  <2>1. First(Sleepers(wchan)) \in Slots /\ state[First(Sleepers(wchan))] = "SLEEPING"
    BY <1>2, FirstIn DEF Wakeup1, Sleepers
  <2>2. /\ priority[First(Sleepers(wchan))] \in Prio
        /\ MakeRunnable(First(Sleepers(wchan)), priority[First(Sleepers(wchan))])
    BY <1>2, <2>1 DEF Wakeup1, IInv, TypeOK
  <2>3. QED
    BY <2>1, <2>2, MakeRunnableSim, Zenon
<1>3. CASE \E k \in Targets : Kill(c, k)
  <2>1. PICK k \in Targets : Kill(c, k)
    BY <1>3
  <2> DEFINE S == {r \in Slots : pid[r] = k}
  <2>2. CASE state' = state /\ rq' = rq
    BY <2>2, StutterSim
  <2>3. CASE S # {} /\ state[First(S)] = "SLEEPING" /\ MakeRunnable(First(S), priority[First(S)])
    <3>1. First(S) \in Slots
      BY <2>3, FirstIn
    <3>2. priority[First(S)] \in Prio
      BY <3>1 DEF IInv, TypeOK
    <3>3. QED
      BY <2>3, <3>1, <3>2, MakeRunnableSim
  <2>4. QED
    BY <2>1, <2>2, <2>3 DEF Kill, KillWakes
<1>4. QED
  BY <1>1, <1>2, <1>3

\* sleep(), in wait() or elsewhere, and the end of exit() give up the CPU.
LEMMA StopSim ==
  ASSUME IInv, NEW c \in Cpus,
         WaitSleeps(c) \/ ExitEnds(c) \/ \E ch \in Chans : Sleep(c, ch)
  PROVE  Simulates
<1>1. cpuproc[c] \in Slots /\ state[cpuproc[c]] = "RUNNING"
  <2>1. CASE ExitEnds(c)
    BY <2>1 DEF IInv, ExitEnds, In, Cur, TypeOK, Ptr, ThreadMatchesState
  <2>2. CASE WaitSleeps(c) \/ \E ch \in Chans : Sleep(c, ch)
    BY <2>2, ScanningRuns DEF WaitSleeps, Sleep, Acquires, Scanning
  <2>3. QED
    BY <2>1, <2>2
<1>2. rq' = rq /\ \E to \in {"SLEEPING", "ZOMBIE"} : state' = [state EXCEPT ![cpuproc[c]] = to]
  BY Zenon DEF WaitSleeps, ExitEnds, Sleep, Cur
<1>3. QED
  BY <1>1, <1>2, LeaveSim, Zenon

\* Every step of a CPU is one of ReadyQueues, or is not seen there.
LEMMA StepSim ==
  ASSUME IInv, NEW c \in Cpus, Step(c)
  PROVE  Simulates
<1>1. CASE state' = state /\ rq' = rq
  BY <1>1, StutterSim
<1>2. CASE SwitchOut(c) \/ Syscall(c) \/ Sysret(c) \/ WaitFails(c)
  BY <1>1, <1>2 DEF SwitchOut, Syscall, Sysret, WaitFails, table
<1>3. CASE WakeupEnds(c) \/ \E ch \in Chans : Wakeup(c, ch)
  BY <1>1, <1>3 DEF WakeupEnds, Wakeup, table
<1>4. CASE GetprioReads(c) \/ \E k \in Queried : GetprioFinds(c, k)
  BY <1>1, <1>4 DEF GetprioReads, GetprioFinds, table
<1>5. CASE Exit(c) \/ ExitReparents(c)
  BY <1>1, <1>5 DEF Exit, ExitReparents
<1>6. QED
  BY <1>2, <1>3, <1>4, <1>5, DispatchSim, SetprioSim, WaitReapsSim, ForkSim, ReadySim, StopSim
     DEF Step

\* At boot initproc is alone in the queue of normal priority.
LEMMA InitSim == Init => Abstract!Init
<1> SUFFICES ASSUME Init PROVE Abstract!Init
  OBVIOUS
<1> DEFINE quiet == [q \in Prio |-> << >>]
           one == [quiet EXCEPT ![NORM_PRIO] = Append(@, initproc)]
<1>1. EmptyQueues \in RunQueues
  BY Constants DEF EmptyQueues, RunQueues
<1>2. quiet \in Ready /\ \A q \in Prio : quiet[q] = << >> /\ Len(quiet[q]) = 0 /\ Elems(quiet[q]) = {}
  BY DEF Ready, Elems
<1>3. \A q \in Prio : IsQueue(EmptyQueues, q, quiet[q])
  BY <1>2 DEF IsQueue, EmptyQueues
<1>4. Represents(EmptyQueues, quiet)
  BY <1>2, <1>3, Constants DEF Represents, EmptyQueues
<1>5. rq \in RunQueues /\ one \in Ready /\ Represents(rq, one)
  BY <1>1, <1>2, <1>4, Constants, EnqueueAppends, Zenon DEF Init
<1>6. one = [r \in Prio |-> IF r = NORM_PRIO THEN <<initproc>> ELSE << >>]
  <2>1. Append(<< >>, initproc) = <<initproc>>
    OBVIOUS
  <2>2. QED
    BY <2>1, Constants
<1> HIDE DEF one
<1>7. Lined = one
  <2>1. \A q \in Prio : Line(rq, q) = one[q]
    BY <1>5, LineIs
  <2>2. one = [q \in Prio |-> one[q]]
    BY <1>5 DEF Ready
  <2>3. QED
    BY <2>1, <2>2 DEF Lined
<1>8. Runs = {}
  BY DEF Runs, Init
<1>9. QED
  BY <1>6, <1>7, <1>8, Constants DEF Abstract!Init, Lined, Runs

\* The linked lists of proc.c are first-in first-out queues served by priority,
\* for any number of processes and CPUs: every step of fork, yield, wakeup, kill,
\* setprio and the scheduler is a step of ReadyQueues.
THEOREM QueuesAreFifo == Spec => ImplementsReadyQueues
<1>1. IInv /\ [Next]_vars => [Abstract!Next]_(Abstract!vars)
  <2>1. CASE UNCHANGED vars
    BY <2>1 DEF vars, table, Abstract!vars
  <2>2. ASSUME IInv, NEW c \in Cpus, Step(c)
        PROVE  [Abstract!Next]_(Abstract!vars)
    BY <2>2, StepSim DEF Simulates, Stutters, Lined, Runs, Abstract!vars
  <2>3. QED
    BY <2>1, <2>2 DEF Next, Halted
<1>2. QED
  BY <1>1, InitSim, Inductive, PTL DEF Spec, ImplementsReadyQueues, Abstract!Spec
=============================================================================
