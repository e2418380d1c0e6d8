---------------------------- MODULE FilesProofs -----------------------------
(* Proofs about the pipe and the calls that use it, for any number of         *)
(* processes, files and descriptors and any size of the ring and of its       *)
(* counters.                                                                  *)
EXTENDS Files, SequenceTheorems, FiniteSetTheorems, WellFoundedInduction, TLAPS

(* ------------------------ arithmetic of the ring ------------------------- *)

\* The numbers of the pipe.
LEMMA PipeNumbers ==
  PIPESIZE \in Int /\ PIPESIZE >= 1 /\ W \in Int /\ W > PIPESIZE /\ W % PIPESIZE = 0
BY PipeAssumption

\* A counter that goes up by less than W wraps at most once.
LEMMA Wraps ==
  ASSUME NEW x \in Int, 0 <= x, x < 2 * W
  PROVE  Mod(x) = IF x < W THEN x ELSE x - W
<1>1. W \in Nat \ {0} /\ x \in Nat
  BY PipeNumbers
<1>2. QED
  BY <1>1 DEF Mod

\* Two numbers in the same cell of the ring differ by a multiple of its size.
LEMMA SameCell ==
  ASSUME NEW x \in Nat, NEW y \in Nat, x % PIPESIZE = y % PIPESIZE
  PROVE  \E q \in Int : x - y = PIPESIZE * q
<1>1. PIPESIZE \in Int /\ PIPESIZE > 0
  BY PipeNumbers
<1>2. x = PIPESIZE * (x \div PIPESIZE) + (x % PIPESIZE) /\ x \div PIPESIZE \in Int
  <2>1. x = (x \div PIPESIZE) * PIPESIZE + (x % PIPESIZE) /\ x \div PIPESIZE \in Int
    BY <1>1
  <2>2. QED
    BY <1>1, <2>1
<1>3. y = PIPESIZE * (y \div PIPESIZE) + (y % PIPESIZE) /\ y \div PIPESIZE \in Int
  <2>1. y = (y \div PIPESIZE) * PIPESIZE + (y % PIPESIZE) /\ y \div PIPESIZE \in Int
    BY <1>1
  <2>2. QED
    BY <1>1, <2>1
<1> DEFINE a == x \div PIPESIZE
           b == y \div PIPESIZE
<1>4. x % PIPESIZE \in Int
  BY <1>1
<1>5. a \in Int /\ b \in Int /\ x = PIPESIZE * a + (x % PIPESIZE) /\ y = PIPESIZE * b + (x % PIPESIZE)
  BY <1>2, <1>3
<1> HIDE DEF a, b
<1>6. PIPESIZE * a - PIPESIZE * b = PIPESIZE * (a - b)
  BY <1>1, <1>5
<1>7. x - y = PIPESIZE * a - PIPESIZE * b
  BY <1>1, <1>4, <1>5
<1>8. x - y = PIPESIZE * (a - b) /\ a - b \in Int
  BY <1>5, <1>6, <1>7
<1>9. QED
  BY <1>8

\* A multiple of the size of the ring that is smaller than it is zero.
LEMMA SmallMultiple ==
  ASSUME NEW q \in Int, PIPESIZE * q < PIPESIZE, 0 - PIPESIZE < PIPESIZE * q
  PROVE  q = 0
<1>1. PIPESIZE \in Nat \ {0}
  BY PipeNumbers
<1>2. q >= 1 => PIPESIZE * q >= PIPESIZE
  BY <1>1
<1>3. q <= -1 => PIPESIZE * q <= 0 - PIPESIZE
  BY <1>1
<1>4. QED
  BY <1>1, <1>2, <1>3

\* Places of the stream less than a ring apart are in different cells, also when
\* the counter wraps between them, because W is a multiple of PIPESIZE.
LEMMA CellsDiffer ==
  ASSUME NEW x \in 0..(W-1), NEW j \in 0..(PIPESIZE-1), NEW k \in 0..(PIPESIZE-1),
         Mod(x + j) % PIPESIZE = Mod(x + k) % PIPESIZE
  PROVE  j = k
<1>1. /\ x \in Int /\ 0 <= x /\ x < W
      /\ j \in Int /\ 0 <= j /\ j < PIPESIZE
      /\ k \in Int /\ 0 <= k /\ k < PIPESIZE
  BY PipeNumbers
<1> DEFINE a == Mod(x + j)
           b == Mod(x + k)
<1>2. a = (IF x + j < W THEN x + j ELSE x + j - W) /\ b = (IF x + k < W THEN x + k ELSE x + k - W)
  BY <1>1, PipeNumbers, Wraps
<1>3. a \in Nat /\ b \in Nat
  BY <1>1, <1>2, PipeNumbers
<1>4. PICK q \in Int : a - b = PIPESIZE * q
  BY <1>3, SameCell
<1>5. PICK c \in Int : W = PIPESIZE * c
  <2>1. W \in Nat /\ 0 \in Nat /\ W % PIPESIZE = 0 % PIPESIZE
    BY PipeNumbers
  <2>2. \E c \in Int : W - 0 = PIPESIZE * c
    BY <2>1, SameCell
  <2>3. QED
    BY <2>2, PipeNumbers
<1>6. \E d \in Int : j - k = PIPESIZE * d
  <2> HIDE DEF a, b
  <2>1. PIPESIZE * (q + c) = PIPESIZE * q + PIPESIZE * c /\ q + c \in Int
    BY PipeNumbers
  <2>2. PIPESIZE * (q - c) = PIPESIZE * q - PIPESIZE * c /\ q - c \in Int
    BY PipeNumbers
  <2>3. \/ j - k = a - b
        \/ j - k = a - b + W
        \/ j - k = a - b - W
    BY <1>1, <1>2, PipeNumbers
  <2>4. CASE j - k = a - b
    BY <1>4, <2>4
  <2>5. CASE j - k = a - b + W
    BY <1>4, <1>5, <2>1, <2>5
  <2>6. CASE j - k = a - b - W
    BY <1>4, <1>5, <2>2, <2>6
  <2>7. QED
    BY <2>3, <2>4, <2>5, <2>6
<1>7. PICK d \in Int : j - k = PIPESIZE * d
  BY <1>6
<1>8. PIPESIZE * d < PIPESIZE /\ 0 - PIPESIZE < PIPESIZE * d
  BY <1>1, <1>7, PipeNumbers
<1>9. d = 0
  BY <1>8, SmallMultiple
<1>10. QED
  BY <1>1, <1>7, <1>9, PipeNumbers

(* ----------------------- the ring, call by call -------------------------- *)

Counter == 0..(W-1)
Ring == [0..(PIPESIZE-1) -> Counter]

\* The counters and the ring are in range, and the ring is the stream.
RingOK == nread \in Counter /\ nwrite \in Counter /\ data \in Ring /\ RingIsStream

\* Used is the distance of the counters, the long way round if they wrapped.
LEMMA UsedIs ==
  ASSUME nread \in Counter, nwrite \in Counter
  PROVE  Used = IF nread <= nwrite THEN nwrite - nread ELSE nwrite + W - nread
<1>1. nread \in Int /\ 0 <= nread /\ nread < W /\ nwrite \in Int /\ 0 <= nwrite /\ nwrite < W
  BY PipeNumbers DEF Counter
<1>2. Mod(nwrite + W - nread) = IF nwrite + W - nread < W THEN nwrite + W - nread
                                ELSE nwrite + W - nread - W
  BY <1>1, PipeNumbers, Wraps
<1>3. QED
  BY <1>1, <1>2, PipeNumbers DEF Used

\* The cells are numbered from 0 to PIPESIZE-1, and places from 0 to W-1.
LEMMA CellIn ==
  ASSUME NEW x \in Nat
  PROVE  Mod(x) \in Counter /\ Mod(x) % PIPESIZE \in 0..(PIPESIZE-1)
<1>1. W \in Nat \ {0} /\ PIPESIZE \in Nat \ {0}
  BY PipeNumbers
<1>2. Mod(x) \in 0..(W-1)
  BY <1>1 DEF Mod
<1>3. QED
  BY <1>1, <1>2 DEF Counter

\* A counter moved by m and then by i is moved by their sum.
LEMMA ModSum ==
  ASSUME NEW x \in Counter, NEW m \in 0..PIPESIZE, NEW i \in 0..PIPESIZE, m + i <= PIPESIZE
  PROVE  Mod(Mod(x + m) + i) = Mod(x + (m + i))
<1>1. /\ x \in Int /\ 0 <= x /\ x < W /\ m \in Int /\ 0 <= m
      /\ i \in Int /\ 0 <= i /\ m + i <= PIPESIZE
  BY PipeNumbers DEF Counter
<1>2. Mod(x + m) = IF x + m < W THEN x + m ELSE x + m - W
  BY <1>1, PipeNumbers, Wraps
<1>3. Mod(x + (m + i)) = IF x + (m + i) < W THEN x + (m + i) ELSE x + (m + i) - W
  BY <1>1, PipeNumbers, Wraps
<1>4. PICK y \in Int : y = Mod(x + m) /\ 0 <= y + i /\ y + i < 2 * W
  BY <1>1, <1>2, PipeNumbers
<1>5. Mod(y + i) = IF y + i < W THEN y + i ELSE y + i - W
  BY <1>1, <1>4, PipeNumbers, Wraps
<1>6. Mod(y + i) = Mod(x + (m + i))
  BY <1>1, <1>2, <1>3, <1>4, <1>5, PipeNumbers
<1>7. QED
  BY <1>4, <1>6

\* nwrite is Used places after nread.
LEMMA WriteAt ==
  ASSUME RingOK
  PROVE  Used \in 0..PIPESIZE /\ nwrite = Mod(nread + Used)
<1>1. nread \in Int /\ 0 <= nread /\ nread < W /\ nwrite \in Int /\ 0 <= nwrite /\ nwrite < W
  BY PipeNumbers DEF Counter, RingOK
<1>2. Used = IF nread <= nwrite THEN nwrite - nread ELSE nwrite + W - nread
  BY UsedIs DEF RingOK
<1>3. Used \in Int /\ 0 <= Used /\ Used <= PIPESIZE
  BY <1>1, <1>2, PipeNumbers DEF RingOK, RingIsStream
<1> HIDE DEF Used
<1>4. Mod(nread + Used) = IF nread + Used < W THEN nread + Used ELSE nread + Used - W
  BY <1>1, <1>3, PipeNumbers, Wraps
<1>5. QED
  BY <1>1, <1>2, <1>3, <1>4, PipeNumbers

\* The distance of counters that differ by m, at most a ring, is m.
LEMMA Distance ==
  ASSUME NEW x \in Counter, NEW m \in 0..PIPESIZE, nread' = x, nwrite' = Mod(x + m)
  PROVE  nwrite' \in Counter /\ Used' = m
<1>1. x \in Int /\ 0 <= x /\ x < W /\ m \in Int /\ 0 <= m /\ m <= PIPESIZE
  BY PipeNumbers DEF Counter
<1>2. Mod(x + m) = IF x + m < W THEN x + m ELSE x + m - W
  BY <1>1, PipeNumbers, Wraps
<1>3. nwrite' \in Int /\ 0 <= nwrite' /\ nwrite' < W
  BY <1>1, <1>2, PipeNumbers
<1>4. Mod(nwrite' + W - x) = IF nwrite' + W - x < W THEN nwrite' + W - x ELSE nwrite' + W - x - W
  BY <1>1, <1>3, PipeNumbers, Wraps
<1>5. Used' = Mod(nwrite' + W - x)
  BY DEF Used, Mod
<1>6. QED
  BY <1>1, <1>2, <1>3, <1>4, <1>5, PipeNumbers DEF Counter

\* pipewrite() storing k bytes, no more than there is room for, overwrites none that
\* is not read yet and puts each where piperead() looks for it.
LEMMA StoreKeepsRing ==
  ASSUME RingOK, NEW k \in 0..Room, nread' = nread, nwrite' = Mod(nwrite + k), data' = Stored(k)
  PROVE  RingOK' /\ Used' = Used + k
<1> DEFINE N == PIPESIZE
<1>1. Used \in Int /\ 0 <= Used /\ Used <= PIPESIZE /\ nwrite = Mod(nread + Used)
  BY WriteAt, PipeNumbers
<1>2. nread \in Counter /\ nwrite \in Counter /\ data \in Ring /\ nread \in Nat /\ nwrite \in Nat
  BY PipeNumbers DEF RingOK, Counter
<1>3. k \in Int /\ 0 <= k /\ Used + k <= PIPESIZE /\ Used + k \in 0..PIPESIZE
  BY <1>1, PipeNumbers DEF Room
<1>4. PICK u \in 0..PIPESIZE : u = Used
  BY <1>1, PipeNumbers
<1>5. \A j \in 0..k : Mod(nwrite + j) = Mod(nread + (u + j))
  <2> TAKE j \in 0..k
  <2>1. j \in 0..PIPESIZE /\ u + j <= PIPESIZE
    BY <1>3, <1>4, PipeNumbers
  <2>2. QED
    BY <1>1, <1>2, <1>4, <2>1, ModSum
<1>6. nwrite' \in Counter /\ Used' = u + k
  <2>1. nwrite' = Mod(nread + (u + k)) /\ u + k \in 0..PIPESIZE
    BY <1>3, <1>4, <1>5
  <2>2. QED
    BY <1>2, <2>1, Distance
<1>7. data' \in Ring
  <2>1. \A j \in Nat : Mod(nwrite + j) \in Counter
    BY <1>2, CellIn
  <2>2. ASSUME NEW i \in 0..(PIPESIZE-1)
        PROVE  Stored(k)[i] \in Counter
    <3> DEFINE Hits(j) == Mod(nwrite + j) % PIPESIZE = i
    <3>1. Stored(k)[i] = IF \E j \in 0..(k-1) : Hits(j)
                         THEN Mod(nwrite + (CHOOSE j \in 0..(k-1) : Hits(j))) ELSE data[i]
      BY DEF Stored
    <3>2. (\E j \in 0..(k-1) : Hits(j)) => (CHOOSE j \in 0..(k-1) : Hits(j)) \in Nat
      <4> HIDE DEF Hits
      <4>1. (\E j \in 0..(k-1) : Hits(j)) => (CHOOSE j \in 0..(k-1) : Hits(j)) \in 0..(k-1)
        OBVIOUS
      <4>2. QED
        BY <1>3, <4>1
    <3>3. data[i] \in Counter
      BY <1>2 DEF Ring
    <3> HIDE DEF Hits
    <3>4. QED
      BY <2>1, <3>1, <3>2, <3>3
  <2>3. QED
    BY <2>2 DEF Stored, Ring
<1>8. ASSUME NEW i \in 0..(u + k - 1)
      PROVE  data'[Mod(nread + i) % PIPESIZE] = Mod(nread + i)
  <2> DEFINE cell == Mod(nread + i) % PIPESIZE
             Hits(j) == Mod(nwrite + j) % PIPESIZE = cell
  <2>1. i \in Int /\ 0 <= i /\ i < u + k /\ i \in 0..(PIPESIZE-1)
    BY <1>1, <1>3, <1>4, PipeNumbers
  <2>2. cell \in 0..(PIPESIZE-1)
    BY <1>2, <2>1, CellIn
  <2>3. \A j \in 0..(k-1) : Hits(j) => u + j = i
    <3> SUFFICES ASSUME NEW j \in 0..(k-1), Hits(j) PROVE u + j = i
      OBVIOUS
    <3>1. j \in 0..k /\ u + j \in 0..(PIPESIZE-1)
      BY <1>1, <1>3, <1>4, PipeNumbers
    <3>2. Mod(nread + (u + j)) % PIPESIZE = Mod(nread + i) % PIPESIZE
      BY <1>5, <3>1
    <3>3. QED
      BY <1>2, <2>1, <3>1, <3>2, CellsDiffer DEF Counter
  <2>4. CASE i < u
    <3>1. \A j \in 0..(k-1) : ~Hits(j)
      BY <1>3, <1>4, <2>1, <2>3, <2>4, PipeNumbers
    <3>2. data'[cell] = data[cell]
      BY <2>2, <3>1 DEF Stored
    <3>3. data[cell] = Mod(nread + i)
      BY <1>1, <1>4, <2>1, <2>4 DEF RingOK, RingIsStream
    <3>4. QED
      BY <3>2, <3>3
  <2>5. CASE u <= i
    <3> DEFINE j == i - u
    <3>1. j \in 0..(k-1) /\ j \in 0..k /\ u + j = i
      BY <1>1, <1>3, <1>4, <2>1, <2>5, PipeNumbers
    <3>2. Mod(nwrite + j) = Mod(nread + i)
      BY <1>5, <3>1
    <3>3. Hits(j)
      BY <3>2
    <3>4. \A m \in 0..(k-1) : Hits(m) => m = j
      BY <1>3, <1>4, <2>1, <2>3, <3>1
    <3>5. (CHOOSE m \in 0..(k-1) : Hits(m)) = j
      BY <3>1, <3>3, <3>4
    <3>6. data'[cell] = Mod(nwrite + (CHOOSE m \in 0..(k-1) : Hits(m)))
      BY <2>2, <3>1, <3>3 DEF Stored
    <3>7. QED
      BY <3>2, <3>5, <3>6, Zenon
  <2>6. QED
    BY <1>4, <2>1, <2>4, <2>5, PipeNumbers
<1>9. RingIsStream'
  <2>1. \A i \in 0..(Used' - 1) : data'[Mod(nread' + i) % PIPESIZE] = Mod(nread' + i)
    BY <1>6, <1>8
  <2>2. QED
    BY <1>3, <1>4, <1>6, <2>1 DEF RingIsStream, Mod
<1>10. QED
  BY <1>2, <1>4, <1>6, <1>7, <1>9 DEF RingOK, Counter, Ring

\* piperead() taking m bytes, no more than there are, leaves the others.
LEMMA TakeKeepsRing ==
  ASSUME RingOK, NEW m \in 0..Used, nread' = Mod(nread + m), nwrite' = nwrite, data' = data
  PROVE  RingOK' /\ Used' = Used - m
<1>1. Used \in Int /\ 0 <= Used /\ Used <= PIPESIZE /\ nwrite = Mod(nread + Used)
  BY WriteAt, PipeNumbers
<1>2. nread \in Counter /\ nwrite \in Counter /\ data \in Ring /\ nread \in Nat
  BY PipeNumbers DEF RingOK, Counter
<1>3. PICK u \in 0..PIPESIZE : u = Used
  BY <1>1, PipeNumbers
<1>4. m \in 0..PIPESIZE /\ m <= u /\ u - m \in 0..PIPESIZE /\ m + (u - m) = u
  BY <1>1, <1>3, PipeNumbers
<1>5. nread' \in Counter
  BY <1>2, <1>4, CellIn
<1>6. \A i \in 0..(u - m) : Mod(nread' + i) = Mod(nread + (m + i))
  <2> TAKE i \in 0..(u - m)
  <2>1. i \in 0..PIPESIZE /\ m + i <= PIPESIZE
    BY <1>3, <1>4, PipeNumbers
  <2>2. QED
    BY <1>2, <1>4, <2>1, ModSum
<1>7. Used' = u - m
  <2>1. nwrite' = Mod(nread' + (u - m))
    BY <1>1, <1>3, <1>4, <1>6
  <2>2. QED
    BY <1>4, <1>5, <2>1, Distance
<1>8. ASSUME NEW i \in 0..(u - m - 1)
      PROVE  data[Mod(nread' + i) % PIPESIZE] = Mod(nread' + i)
  <2>1. i \in 0..(u - m) /\ m + i \in 0..(u - 1)
    BY <1>3, <1>4, PipeNumbers
  <2>2. data[Mod(nread + (m + i)) % PIPESIZE] = Mod(nread + (m + i))
    BY <1>3, <2>1 DEF RingOK, RingIsStream
  <2>3. QED
    BY <1>6, <2>1, <2>2
<1>9. RingIsStream'
  <2>1. \A i \in 0..(Used' - 1) : data'[Mod(nread' + i) % PIPESIZE] = Mod(nread' + i)
    BY <1>7, <1>8
  <2>2. QED
    BY <1>4, <1>7, <2>1 DEF RingIsStream, Mod
<1>10. QED
  BY <1>2, <1>3, <1>5, <1>7, <1>9 DEF RingOK, Counter, Ring

(* ---------------- what calls in progress and tables look like ------------ *)

\* What a process can have left to do in the kernel.
Pieces ==
  ({"pipewrite", "piperead"} \X Nat)
  \cup ({"sleep"} \X {"nread", "nwrite"})
  \cup ({"pipeclose"} \X {0, 1})
  \cup ({"fileclose", "open", "pipealloc"} \X FileIds)
  \cup {<<"filedup", f, fd>> : f \in FileIds, fd \in Fds}
  \cup {<<"iput">>}
  \cup ({"exit"} \X Fds)

Types == {"NONE", "PIPE-R", "PIPE-W", "INODE"}

Todos == [Procs -> Seq(Pieces)]
Tables == [FileIds -> [ref : Nat, type : Types]]
Descs == [Procs -> [Fds -> FileIds \cup {NULL}]]

Shapes ==
  /\ todo \in Todos
  /\ asleep \in [Procs -> {"no", "nread", "nwrite"}]
  /\ ofile \in Descs
  /\ ftable \in Tables

LEMMA PieceFacts ==
  ASSUME NEW s \in Pieces
  PROVE  /\ s[1] \in {"pipewrite", "piperead"} => s[2] \in Nat
         /\ s[1] = "sleep" => s[2] \in {"nread", "nwrite"}
         /\ s[1] = "pipeclose" => s[2] \in {0, 1}
         /\ s[1] \in {"fileclose", "open", "pipealloc", "filedup"} => s[2] \in FileIds
         /\ s[1] = "filedup" => s[3] \in Fds
         /\ s[1] = "exit" => s[2] \in Fds
<1>1. CASE s \in {"pipewrite", "piperead"} \X Nat
  BY <1>1
<1>2. CASE s \in {"sleep"} \X {"nread", "nwrite"}
  BY <1>2
<1>3. CASE s \in {"pipeclose"} \X {0, 1} \/ s = <<"iput">>
  BY <1>3
<1>4. CASE s \in {"fileclose", "open", "pipealloc"} \X FileIds
  BY <1>4
<1>5. CASE s \in {<<"filedup", f, fd>> : f \in FileIds, fd \in Fds}
  BY <1>5
<1>6. CASE s \in {"exit"} \X Fds
  BY <1>6
<1>7. QED
  BY <1>1, <1>2, <1>3, <1>4, <1>5, <1>6 DEF Pieces

LEMMA PiecesMade ==
  /\ \A n \in Nat : <<"pipewrite", n>> \in Pieces /\ <<"piperead", n>> \in Pieces
  /\ <<"sleep", "nread">> \in Pieces /\ <<"sleep", "nwrite">> \in Pieces
  /\ <<"pipeclose", 0>> \in Pieces /\ <<"pipeclose", 1>> \in Pieces
  /\ \A f \in FileIds : /\ <<"fileclose", f>> \in Pieces /\ <<"open", f>> \in Pieces
                        /\ <<"pipealloc", f>> \in Pieces
                        /\ \A fd \in Fds : <<"filedup", f, fd>> \in Pieces
  /\ <<"iput">> \in Pieces
  /\ \A fd \in Fds : <<"exit", fd>> \in Pieces
<1>1. \A n \in Nat : <<"pipewrite", n>> \in Pieces /\ <<"piperead", n>> \in Pieces
  BY DEF Pieces
<1>2. <<"sleep", "nread">> \in Pieces /\ <<"sleep", "nwrite">> \in Pieces
  BY DEF Pieces
<1>3. <<"pipeclose", 0>> \in Pieces /\ <<"pipeclose", 1>> \in Pieces
  BY DEF Pieces
<1>4. \A f \in FileIds : /\ <<"fileclose", f>> \in Pieces /\ <<"open", f>> \in Pieces
                         /\ <<"pipealloc", f>> \in Pieces
  BY DEF Pieces
<1>5. \A f \in FileIds : \A fd \in Fds : <<"filedup", f, fd>> \in Pieces
  BY DEF Pieces
<1>6. <<"iput">> \in Pieces /\ \A fd \in Fds : <<"exit", fd>> \in Pieces
  BY DEF Pieces
<1>7. QED
  BY <1>1, <1>2, <1>3, <1>4, <1>5, <1>6

\* The least of some files or descriptors is one of them.
LEMMA MinIn ==
  ASSUME NEW S \in SUBSET Nat, S # {}
  PROVE  Min(S) \in S
<1> DEFINE R == OpToRel(<, Nat)
<1>1. IsWellFoundedOn(R, Nat)
  BY NatLessThanWellFounded, Zenon
<1>2. \A x, y \in Nat : y < x => <<y, x>> \in R
  BY DEF OpToRel
<1> HIDE DEF R
<1>3. PICK x \in S : \A y \in S : <<y, x>> \notin R
  BY <1>1, WFMin, Zenon
<1>4. x \in Nat /\ \A y \in S : y \in Nat /\ ~(y < x)
  BY <1>2, <1>3, Zenon
<1>5. \A y \in S : x <= y
  BY <1>4
<1>6. QED
  BY <1>5, Zenon DEF Min

LEMMA Indices ==
  /\ FileIds \subseteq Nat /\ Fds \subseteq Nat /\ NULL \notin FileIds
  /\ IsFiniteSet(FileIds) /\ IsFiniteSet(Fds)
<1>1. NFILE \in Int /\ NOFILE - 1 \in Int /\ 0 \in Int /\ 1 \in Int
  BY FilesAssumption
<1>2. IsFiniteSet(1..NFILE) /\ IsFiniteSet(0..(NOFILE-1))
  BY <1>1, FS_Interval
<1>3. QED
  BY <1>1, <1>2 DEF FileIds, Fds, NULL

\* What p does next, and what it then has left.
LEMMA AtHead ==
  ASSUME Shapes, NEW p \in Procs, NEW kind, At(p, kind)
  PROVE  /\ todo[p] \in Seq(Pieces) /\ todo[p] # << >>
         /\ Head(todo[p]) \in Pieces /\ Head(todo[p])[1] = kind
         /\ Tail(todo[p]) \in Seq(Pieces)
BY DEF Shapes, Todos, At

LEMMA ThenTodos ==
  ASSUME Shapes, NEW p \in Procs, todo[p] # << >>, NEW s \in Seq(Pieces), Then(p, s)
  PROVE  todo' \in Todos
<1>1. todo[p] \in Seq(Pieces)
  BY DEF Shapes, Todos
<1>2. s \o Tail(todo[p]) \in Seq(Pieces)
  BY <1>1
<1>3. QED
  BY <1>2 DEF Then, Shapes, Todos

LEMMA DoTodos ==
  ASSUME Shapes, NEW p \in Procs, NEW s \in Seq(Pieces), Do(p, s)
  PROVE  todo' \in Todos
BY DEF Do, Shapes, Todos

LEMMA ShortSeqs ==
  /\ << >> \in Seq(Pieces)
  /\ \A s \in Pieces : <<s>> \in Seq(Pieces)
  /\ \A s, t \in Pieces : <<s, t>> \in Seq(Pieces)
OBVIOUS

LEMMA FileCloseShapes ==
  ASSUME Shapes, NEW p \in Procs, NEW f \in FileIds, NEW rest \in Seq(Pieces), FileClose(p, f, rest)
  PROVE  todo' \in Todos /\ ftable' \in Tables
<1>1. ftable[f] \in [ref : Nat, type : Types] /\ ftable \in Tables
  BY DEF Shapes, Tables
<1>2. CASE ftable[f].ref > 1
  <2>1. ftable' = [ftable EXCEPT ![f].ref = @ - 1] /\ Do(p, rest)
    BY <1>2 DEF FileClose
  <2>2. ftable[f].ref - 1 \in Nat
    BY <1>1, <1>2
  <2>3. QED
    BY <1>1, <2>1, <2>2, DoTodos, Zenon DEF Tables
<1>3. CASE ~(ftable[f].ref > 1)
  <2> DEFINE s == CASE ftable[f].type = "PIPE-R" -> <<<<"pipeclose", 0>>>>
                    [] ftable[f].type = "PIPE-W" -> <<<<"pipeclose", 1>>>>
                    [] ftable[f].type = "INODE"  -> <<<<"iput">>>>
                    [] ftable[f].type = "NONE"   -> << >>
  <2>1. ftable' = [ftable EXCEPT ![f] = [ref |-> 0, type |-> "NONE"]] /\ Do(p, s \o rest)
    BY <1>3, Zenon DEF FileClose
  <2>2. s \in Seq(Pieces)
    BY <1>1, PiecesMade, ShortSeqs DEF Types
  <2> HIDE DEF s
  <2>3. s \o rest \in Seq(Pieces)
    BY <2>2
  <2>4. QED
    BY <1>1, <2>1, <2>3, DoTodos, Zenon DEF Tables, Types
<1>4. QED
  BY <1>2, <1>3

(* ------------------------------ the steps -------------------------------- *)

\* The calls that duplicate and close descriptors.
LEMMA DupShapes ==
  ASSUME Shapes, NEW p \in Procs, NEW fd \in Fds, Dup(p, fd)
  PROVE  Shapes'
<1>1. ofile[p] \in [Fds -> FileIds \cup {NULL}] /\ ofile[p][fd] \in FileIds
  BY DEF Dup, Valid, Shapes, Descs
<1>2. Min(FreeFds(p)) \in Fds
  <2>1. FreeFds(p) \in SUBSET Nat /\ FreeFds(p) # {} /\ FreeFds(p) \subseteq Fds
    BY Indices DEF Dup, FreeFds
  <2>2. QED
    BY <2>1, MinIn
<1>3. ofile' \in Descs
  BY <1>1, <1>2 DEF Dup, Shapes, Descs
<1>4. ftable' \in Tables
  BY <1>1 DEF Dup, FileDup, Shapes, Tables
<1>5. QED
  BY <1>3, <1>4 DEF Dup, Shapes

LEMMA Dup2Shapes ==
  ASSUME Shapes, NEW p \in Procs, NEW fd \in Fds, NEW newfd \in Fds, Dup2(p, fd, newfd)
  PROVE  Shapes'
<1> DEFINE rest == <<<<"filedup", ofile[p][fd], newfd>>>>
<1>1. ofile[p][fd] \in FileIds /\ ofile[p][newfd] \in FileIds \cup {NULL}
  BY DEF Dup2, Valid, Shapes, Descs
<1>2. rest \in Seq(Pieces)
  BY <1>1, PiecesMade, ShortSeqs, Zenon
<1>3. UNCHANGED <<asleep, ofile>>
  BY DEF Dup2, others
<1>4. CASE Valid(p, newfd)
  <2>1. FileClose(p, ofile[p][newfd], rest) /\ ofile[p][newfd] \in FileIds
    BY <1>1, <1>4 DEF Dup2, Valid
  <2>2. QED
    BY <1>2, <1>3, <2>1, FileCloseShapes DEF Shapes
<1>5. CASE ~Valid(p, newfd)
  <2>1. Do(p, rest) /\ UNCHANGED ftable
    BY <1>5 DEF Dup2
  <2>2. QED
    BY <1>2, <1>3, <2>1, DoTodos, Zenon DEF Shapes
<1>6. QED
  BY <1>4, <1>5

LEMMA Dup2EndShapes ==
  ASSUME Shapes, NEW p \in Procs, Dup2End(p)
  PROVE  Shapes'
<1>1. PICK h \in Pieces : h = Head(todo[p]) /\ h[1] = "filedup" /\ todo[p] # << >>
  BY AtHead DEF Dup2End
<1>2. h[2] \in FileIds /\ h[3] \in Fds
  BY <1>1, PieceFacts
<1>3. todo' \in Todos
  BY <1>1, ShortSeqs, ThenTodos, Zenon DEF Dup2End
<1>4. ofile' \in Descs
  BY <1>1, <1>2 DEF Dup2End, Shapes, Descs
<1>5. ftable' \in Tables
  <2>1. PICK f \in FileIds : f = h[2]
    BY <1>2
  <2>2. ftable' = [ftable EXCEPT ![f].ref = @ + 1]
    BY <1>1, <2>1 DEF Dup2End, FileDup
  <2>3. QED
    BY <2>2 DEF Shapes, Tables
<1>6. QED
  BY <1>3, <1>4, <1>5 DEF Dup2End, others, Shapes

LEMMA CloseShapes ==
  ASSUME Shapes, NEW p \in Procs, NEW fd \in Fds, Close(p, fd)
  PROVE  Shapes'
<1>1. ofile[p][fd] \in FileIds
  BY DEF Close, Valid, Shapes, Descs
<1>2. todo' \in Todos /\ ftable' \in Tables
  BY <1>1, ShortSeqs, FileCloseShapes, Zenon DEF Close
<1>3. ofile' \in Descs
  BY DEF Close, Shapes, Descs
<1>4. QED
  BY <1>2, <1>3 DEF Close, others, Shapes

LEMMA CloseNextShapes ==
  ASSUME Shapes, NEW p \in Procs, CloseNext(p)
  PROVE  Shapes'
<1>1. Head(todo[p]) \in Pieces /\ Head(todo[p])[1] = "fileclose" /\ Tail(todo[p]) \in Seq(Pieces)
  BY AtHead DEF CloseNext
<1>2. Head(todo[p])[2] \in FileIds
  BY <1>1, PieceFacts
<1>3. todo' \in Todos /\ ftable' \in Tables
  BY <1>1, <1>2, FileCloseShapes, Zenon DEF CloseNext
<1>4. QED
  BY <1>3 DEF CloseNext, others, Shapes

\* open(), pipe() and the end of a file's life.
LEMMA FreeFile ==
  ASSUME FreeFiles # {}
  PROVE  Min(FreeFiles) \in FileIds /\ ftable[Min(FreeFiles)].ref = 0
<1>1. FreeFiles \in SUBSET Nat
  BY Indices, Zenon DEF FreeFiles
<1>2. Min(FreeFiles) \in FreeFiles
  BY <1>1, MinIn
<1>3. QED
  BY <1>2 DEF FreeFiles

LEMMA OpenShapes ==
  ASSUME Shapes, NEW p \in Procs, Open(p) \/ PipeCall(p)
  PROVE  Shapes'
<1>1. PICK f \in FileIds : f = Min(FreeFiles)
  BY FreeFile DEF Open, PipeCall
<1>2. ftable' = [ftable EXCEPT ![f].ref = 1] /\ UNCHANGED <<asleep, ofile>>
  BY <1>1 DEF Open, PipeCall, FileAlloc, others
<1>3. ftable' \in Tables
  BY <1>2 DEF Shapes, Tables
<1>4. Do(p, <<<<"open", f>>>>) \/ Do(p, <<<<"pipealloc", f>>>>)
  BY <1>1 DEF Open, PipeCall
<1>5. <<<<"open", f>>>> \in Seq(Pieces) /\ <<<<"pipealloc", f>>>> \in Seq(Pieces)
  BY PiecesMade, ShortSeqs, Zenon
<1>6. todo' \in Todos
  BY <1>4, <1>5, DoTodos
<1>7. QED
  BY <1>2, <1>3, <1>6 DEF Shapes

LEMMA OpenEndShapes ==
  ASSUME Shapes, NEW p \in Procs, OpenEnd(p)
  PROVE  Shapes'
<1>1. PICK f \in FileIds : f = Head(todo[p])[2] /\ todo[p] # << >>
  BY AtHead, PieceFacts DEF OpenEnd
<1>2. UNCHANGED asleep
  BY DEF OpenEnd, others
<1>3. CASE FreeFds(p) = {}
  <2>1. Then(p, <<<<"fileclose", f>>, <<"iput">>>>) /\ UNCHANGED <<ofile, ftable>>
    BY <1>1, <1>3 DEF OpenEnd
  <2>2. <<<<"fileclose", f>>, <<"iput">>>> \in Seq(Pieces)
    BY PiecesMade, ShortSeqs, Zenon
  <2>3. todo' \in Todos
    BY <1>1, <2>1, <2>2, ThenTodos
  <2>4. QED
    BY <1>2, <2>1, <2>3 DEF Shapes
<1>4. CASE FreeFds(p) # {}
  <2>1. /\ ofile' = [ofile EXCEPT ![p][Min(FreeFds(p))] = f]
        /\ ftable' = [ftable EXCEPT ![f].type = "INODE"]
        /\ Then(p, << >>)
    BY <1>1, <1>4 DEF OpenEnd
  <2>2. Min(FreeFds(p)) \in Fds
    <3>1. FreeFds(p) \in SUBSET Nat /\ FreeFds(p) \subseteq Fds
      BY Indices, Zenon DEF FreeFds
    <3>2. QED
      BY <1>4, <3>1, MinIn
  <2>3. ofile' \in Descs
    BY <2>1, <2>2 DEF Shapes, Descs
  <2>4. ftable' \in Tables
    BY <2>1 DEF Shapes, Tables, Types
  <2>5. todo' \in Todos
    BY <1>1, <2>1, ShortSeqs, ThenTodos, Zenon
  <2>6. QED
    BY <1>2, <2>3, <2>4, <2>5 DEF Shapes
<1>5. QED
  BY <1>3, <1>4

LEMMA PipeAllocShapes ==
  ASSUME Shapes, NEW p \in Procs, PipeAlloc(p) \/ PipeAllocFails(p) \/ Iput(p)
  PROVE  Shapes'
<1>1. CASE Iput(p)
  <2>1. todo' \in Todos
    BY <1>1, AtHead, ShortSeqs, ThenTodos, Zenon DEF Iput
  <2>2. QED
    BY <1>1, <2>1 DEF Iput, others, Shapes
<1>2. CASE PipeAllocFails(p)
  <2>1. PICK f \in FileIds : f = Head(todo[p])[2] /\ todo[p] # << >>
    BY <1>2, AtHead, PieceFacts DEF PipeAllocFails
  <2>2. Then(p, <<<<"fileclose", f>>>>) /\ UNCHANGED <<asleep, ofile, ftable>>
    BY <1>2, <2>1 DEF PipeAllocFails, others
  <2>3. <<<<"fileclose", f>>>> \in Seq(Pieces)
    BY PiecesMade, ShortSeqs, Zenon
  <2>4. todo' \in Todos
    BY <2>1, <2>2, <2>3, ThenTodos
  <2>5. QED
    BY <2>2, <2>4 DEF Shapes
<1>3. CASE PipeAlloc(p)
  <2>1. PICK f0 \in FileIds : f0 = Head(todo[p])[2] /\ todo[p] # << >>
    BY <1>3, AtHead, PieceFacts DEF PipeAlloc
  <2>2. PICK f1 \in FileIds : f1 = Min(FreeFiles)
    BY <1>3, FreeFile DEF PipeAlloc
  <2> DEFINE fd0 == Min(FreeFds(p))
             fd1 == Min(FreeFds(p) \ {fd0})
  <2>3. /\ ftable' = [ftable EXCEPT ![f0] = [ref |-> 1, type |-> "PIPE-R"],
                                    ![f1] = [ref |-> 1, type |-> "PIPE-W"]]
        /\ IF Cardinality(FreeFds(p)) < 2
           THEN Then(p, CloseEnds(f0, f1)) /\ UNCHANGED ofile
           ELSE ofile' = [ofile EXCEPT ![p][fd0] = f0, ![p][fd1] = f1] /\ Then(p, << >>)
        /\ UNCHANGED asleep
    BY <1>3, <2>1, <2>2 DEF PipeAlloc
  <2>4. ftable' \in Tables
    BY <2>3, Zenon DEF Shapes, Tables, Types
  <2>5. CASE Cardinality(FreeFds(p)) < 2
    <3>1. CloseEnds(f0, f1) \in Seq(Pieces)
      BY PiecesMade, ShortSeqs, Zenon DEF CloseEnds
    <3>2. todo' \in Todos
      BY <2>1, <2>3, <2>5, <3>1, ThenTodos
    <3>3. QED
      BY <2>3, <2>4, <2>5, <3>2 DEF Shapes
  <2>6. CASE ~(Cardinality(FreeFds(p)) < 2)
    <3>1. FreeFds(p) \subseteq Fds /\ FreeFds(p) \in SUBSET Nat
      BY Indices, Zenon DEF FreeFds
    <3>2. FreeFds(p) # {} /\ \A x : FreeFds(p) # {x}
      <4>1. \A S : (S = {} => Cardinality(S) = 0) /\ \A x : S = {x} => Cardinality(S) = 1
        BY FS_EmptySet, FS_Singleton, Zenon
      <4>2. FreeFds(p) = {} => Cardinality(FreeFds(p)) < 2
        BY <4>1
      <4>3. \A x : FreeFds(p) = {x} => Cardinality(FreeFds(p)) < 2
        BY <4>1
      <4>4. QED
        BY <2>6, <4>2, <4>3
    <3>3. fd0 \in Fds
      BY <3>1, <3>2, MinIn
    <3>4. FreeFds(p) \ {fd0} # {} /\ FreeFds(p) \ {fd0} \in SUBSET Nat
      BY <3>1, <3>2
    <3>5. fd1 \in Fds
      BY <3>1, <3>4, MinIn
    <3> HIDE DEF fd0, fd1
    <3>6. ofile' = [ofile EXCEPT ![p][fd0] = f0, ![p][fd1] = f1] /\ Then(p, << >>)
      BY <2>3, <2>6
    <3>7. ofile' \in Descs
      BY <3>3, <3>5, <3>6 DEF Shapes, Descs
    <3>8. todo' \in Todos
      BY <2>1, <3>6, ShortSeqs, ThenTodos, Zenon
    <3>9. QED
      BY <2>3, <2>4, <3>7, <3>8 DEF Shapes
  <2>7. QED
    BY <2>5, <2>6
<1>4. QED
  BY <1>1, <1>2, <1>3

\* read() and write() of an end of the pipe.
LEMMA ReadWriteShapes ==
  ASSUME Shapes, NEW p \in Procs, NEW fd \in Fds, NEW n \in Sizes, Read(p, fd, n) \/ Write(p, fd, n)
  PROVE  Shapes'
<1>1. n \in Nat
  BY FilesAssumption
<1>2. <<<<"piperead", n>>>> \in Seq(Pieces) /\ <<<<"pipewrite", n>>>> \in Seq(Pieces)
  BY <1>1, PiecesMade, ShortSeqs
<1>3. todo' \in Todos
  BY <1>2, DoTodos, Zenon DEF Read, Write
<1>4. QED
  BY <1>3 DEF Read, Write, others, Shapes

LEMMA ForkShapes ==
  ASSUME Shapes, NEW p \in Procs, NEW c \in Procs, Fork(p, c)
  PROVE  Shapes'
<1>1. ofile' \in Descs
  BY DEF Fork, Shapes, Descs
<1>2. \A f \in FileIds : Cardinality({fd \in Fds : ofile[p][fd] = f}) \in Nat
  <2> TAKE f \in FileIds
  <2>1. {fd \in Fds : ofile[p][fd] = f} \subseteq Fds
    OBVIOUS
  <2>2. IsFiniteSet({fd \in Fds : ofile[p][fd] = f})
    BY <2>1, Indices, FS_Subset
  <2>3. QED
    BY <2>2, FS_CardinalityType
<1> DEFINE more(f) == Cardinality({fd \in Fds : ofile[p][fd] = f})
<1>3. ftable' = [f \in FileIds |-> [ftable[f] EXCEPT !.ref = @ + more(f)]]
  BY DEF Fork
<1>4. \A f \in FileIds : more(f) \in Nat
  BY <1>2
<1> HIDE DEF more
<1>5. ftable' \in Tables
  BY <1>3, <1>4 DEF Shapes, Tables
<1>6. QED
  BY <1>1, <1>5 DEF Fork, Shapes

LEMMA ExitShapes ==
  ASSUME Shapes, NEW p \in Procs, NEW files \in [Fds -> FileIds \cup {NULL}], ExitLoop(p, files)
  PROVE  Shapes'
<1> DEFINE open == {fd \in Fds : files[fd] # NULL}
<1>1. ofile' = [ofile EXCEPT ![p] = files] /\ UNCHANGED asleep
  BY DEF ExitLoop
<1>2. ofile' \in Descs
  BY <1>1 DEF Shapes, Descs
<1>3. CASE open # {}
  <2>1. open \in SUBSET Nat
    BY Indices, Zenon
  <2>2. PICK fd \in open : fd = Min(open)
    BY <1>3, <2>1, MinIn, Zenon
  <2>3. files[fd] \in FileIds /\ fd \in Fds
    OBVIOUS
  <2>4. FileClose(p, files[fd], <<<<"exit", fd>>>>)
    BY <1>3, <2>2 DEF ExitLoop
  <2>5. <<<<"exit", fd>>>> \in Seq(Pieces)
    BY <2>3, PiecesMade, ShortSeqs
  <2>6. QED
    BY <1>1, <1>2, <2>3, <2>4, <2>5, FileCloseShapes DEF Shapes
<1>4. CASE open = {}
  <2>1. Do(p, << >>) /\ UNCHANGED ftable
    BY <1>4 DEF ExitLoop
  <2>2. QED
    BY <1>1, <1>2, <2>1, ShortSeqs, DoTodos, Zenon DEF Shapes
<1>5. QED
  BY <1>3, <1>4

LEMMA ExitsShapes ==
  ASSUME Shapes, NEW p \in Procs, Exit(p) \/ ExitNext(p)
  PROVE  Shapes'
<1>1. ofile[p] \in [Fds -> FileIds \cup {NULL}]
  BY DEF Shapes, Descs
<1>2. CASE Exit(p)
  BY <1>1, <1>2, ExitShapes DEF Exit
<1>3. CASE ExitNext(p)
  <2>1. [ofile[p] EXCEPT ![Head(todo[p])[2]] = NULL] \in [Fds -> FileIds \cup {NULL}]
    BY <1>1, Zenon
  <2>2. QED
    BY <1>3, <2>1, ExitShapes DEF ExitNext
<1>4. QED
  BY <1>2, <1>3

\* The steps of pipe.c.
LEMMA WakeupAsleep ==
  ASSUME Shapes, NEW ch, Wakeup(ch)
  PROVE  asleep' \in [Procs -> {"no", "nread", "nwrite"}]
BY DEF Shapes, Wakeup

\* pipewrite() stores no more than there is room for.
LEMMA PipeWriteKeeps ==
  ASSUME Shapes, RingOK, NEW p \in Procs, PipeWrite(p), UNCHANGED <<ofile, ftable>>
  PROVE  Shapes' /\ RingOK'
<1>1. PICK n \in Nat : n = Head(todo[p])[2] /\ todo[p] # << >>
  BY AtHead, PieceFacts DEF PipeWrite
<1>2. Used \in Int /\ 0 <= Used /\ Used <= PIPESIZE
  BY WriteAt, PipeNumbers
<1>3. PICK k \in 0..Room : k = Least(n, Room)
  BY <1>1, <1>2, PipeNumbers DEF Least, Room
<1>4. n - k \in Nat
  BY <1>1, <1>2, <1>3, PipeNumbers DEF Least, Room
<1> DEFINE fails == k < n /\ (~readopen \/ killed[p])
<1>5. /\ nwrite' = Mod(nwrite + k) /\ data' = Stored(k) /\ nread' = nread
      /\ IF fails THEN UNCHANGED asleep ELSE Wakeup("nread")
      /\ Then(p, IF k = n \/ fails THEN << >>
                 ELSE <<<<"sleep", "nwrite">>, <<"pipewrite", n - k>>>>)
  BY <1>1, <1>3 DEF PipeWrite
<1> HIDE DEF fails
<1>6. RingOK'
  BY <1>5, StoreKeepsRing
<1>7. asleep' \in [Procs -> {"no", "nread", "nwrite"}]
  BY <1>5, WakeupAsleep DEF Shapes
<1>8. todo' \in Todos
  <2>1. << >> \in Seq(Pieces) /\ <<<<"sleep", "nwrite">>, <<"pipewrite", n - k>>>> \in Seq(Pieces)
    BY <1>4, PiecesMade, ShortSeqs, Zenon
  <2>2. QED
    BY <1>1, <1>5, <2>1, ThenTodos, Zenon
<1>9. QED
  BY <1>6, <1>7, <1>8 DEF Shapes

\* piperead() takes no more than there is.
LEMMA PipeReadKeeps ==
  ASSUME Shapes, RingOK, NEW p \in Procs, PipeRead(p), UNCHANGED <<ofile, ftable>>
  PROVE  Shapes' /\ RingOK'
<1>1. PICK n \in Nat : n = Head(todo[p])[2] /\ todo[p] # << >> /\ Head(todo[p]) \in Pieces
  BY AtHead, PieceFacts DEF PipeRead
<1>2. Used \in Int /\ 0 <= Used /\ Used <= PIPESIZE
  BY WriteAt, PipeNumbers
<1>3. << >> \in Seq(Pieces) /\ <<<<"sleep", "nread">>, Head(todo[p])>> \in Seq(Pieces)
  BY <1>1, PiecesMade, ShortSeqs
<1>4. nwrite' = nwrite /\ data' = data
  BY DEF PipeRead
<1>5. CASE Used = 0 /\ writeopen
  <2>1. /\ Then(p, IF killed[p] THEN << >> ELSE <<<<"sleep", "nread">>, Head(todo[p])>>)
        /\ UNCHANGED <<nread, asleep>>
    BY <1>5 DEF PipeRead
  <2>2. todo' \in Todos
    BY <1>1, <1>3, <2>1, ThenTodos, Zenon
  <2>3. RingOK'
    BY <1>4, <2>1 DEF RingOK, RingIsStream, Used, Counter, Ring, Mod
  <2>4. QED
    BY <2>1, <2>2, <2>3 DEF Shapes
<1>6. CASE ~(Used = 0 /\ writeopen)
  <2>1. nread' = Mod(nread + Least(n, Used)) /\ Wakeup("nwrite") /\ Then(p, << >>)
    BY <1>1, <1>6 DEF PipeRead
  <2>2. PICK m \in 0..Used : m = Least(n, Used)
    BY <1>1, <1>2, PipeNumbers DEF Least
  <2>3. RingOK'
    BY <1>4, <2>1, <2>2, TakeKeepsRing
  <2>4. todo' \in Todos
    BY <1>1, <1>3, <2>1, ThenTodos, Zenon
  <2>5. QED
    BY <2>1, <2>3, <2>4, WakeupAsleep DEF Shapes
<1>7. QED
  BY <1>5, <1>6

\* A fresh page is an empty ring.
LEMMA EmptyRing ==
  ASSUME nread' = 0, nwrite' = 0, data' \in Ring
  PROVE  RingOK'
<1>1. 0 \in Counter /\ 0 \in 0..PIPESIZE
  BY PipeNumbers DEF Counter
<1>2. Mod(0 + 0) = 0
  BY PipeNumbers, Wraps
<1>3. Used' = 0
  BY <1>1, <1>2, Distance
<1>4. RingIsStream'
  BY <1>3, PipeNumbers DEF RingIsStream
<1>5. QED
  BY <1>1, <1>4 DEF RingOK, Counter, Ring

LEMMA SameRing ==
  ASSUME RingOK, UNCHANGED <<nread, nwrite, data>>
  PROVE  RingOK'
BY DEF RingOK, RingIsStream, Used, Counter, Ring, Mod

\* sleep() and pipeclose().
LEMMA PipeEndsKeep ==
  ASSUME Shapes, RingOK, NEW p \in Procs, PipeSleep(p) \/ PipeClose(p), UNCHANGED <<ofile, ftable>>
  PROVE  Shapes' /\ RingOK'
<1>1. todo' \in Todos
  BY AtHead, ShortSeqs, ThenTodos, Zenon DEF PipeSleep, PipeClose
<1>2. CASE PipeSleep(p)
  <2>1. Head(todo[p])[2] \in {"nread", "nwrite"}
    BY <1>2, AtHead, PieceFacts DEF PipeSleep
  <2>2. asleep' \in [Procs -> {"no", "nread", "nwrite"}]
    BY <1>2, <2>1 DEF PipeSleep, Shapes
  <2>3. QED
    BY <1>1, <1>2, <2>2, SameRing DEF PipeSleep, pipe, Shapes
<1>3. CASE PipeClose(p)
  <2>1. asleep' \in [Procs -> {"no", "nread", "nwrite"}]
    BY <1>3, WakeupAsleep DEF PipeClose
  <2>2. UNCHANGED <<nread, nwrite, data>> \/ Junk
    BY <1>3 DEF PipeClose
  <2>3. CASE Junk
    <3>1. nread' = 0 /\ nwrite' = 0 /\ data' = [i \in 0..(PIPESIZE-1) |-> 0]
      BY <2>3 DEF Junk
    <3>2. data' \in Ring
      BY <3>1, PipeNumbers DEF Ring, Counter
    <3>3. QED
      BY <1>1, <2>1, <3>1, <3>2, EmptyRing DEF Shapes
  <2>4. CASE UNCHANGED <<nread, nwrite, data>>
    BY <1>1, <2>1, <2>4, SameRing DEF Shapes
  <2>5. QED
    BY <2>2, <2>3, <2>4
<1>4. QED
  BY <1>2, <1>3

(* ------------------------------ theorems --------------------------------- *)

RInv == Shapes /\ RingOK

LEMMA InitRInv == Init => RInv
<1> SUFFICES ASSUME Init PROVE RInv
  OBVIOUS
<1>1. Shapes
  BY ShortSeqs DEF Init, Shapes, Todos, Descs, Tables, Types, NoFiles
<1>2. nread \in Counter /\ nwrite \in Counter /\ data \in Ring
  BY PipeNumbers DEF Init, Counter, Ring
<1>3. Used = 0
  BY <1>2, UsedIs DEF Init
<1>4. QED
  BY <1>1, <1>2, <1>3, PipeNumbers DEF RInv, RingOK, RingIsStream

LEMMA NextRInv == RInv /\ [Next]_vars => RInv'
<1> SUFFICES ASSUME RInv, [Next]_vars PROVE RInv'
  OBVIOUS
<1> USE DEF RInv
<1>1. CASE UNCHANGED vars
  BY <1>1, SameRing DEF vars, pipe, Shapes, Todos, Descs, Tables
<1>2. ASSUME NEW p \in Procs, Call(p)
      PROVE  RInv'
  <2>1. UNCHANGED <<nread, nwrite, data>>
    BY <1>2, Zenon
       DEF Call, Dup, Close, Dup2, Read, Write, Open, PipeCall, Exit, ExitLoop, Fork, others, pipe
  <2>2. Shapes'
    BY <1>2, DupShapes, CloseShapes, Dup2Shapes, ReadWriteShapes, OpenShapes, ExitsShapes, ForkShapes
       DEF Call
  <2>3. QED
    BY <2>1, <2>2, SameRing
<1>3. ASSUME NEW p \in Procs, Continue(p)
      PROVE  RInv'
  <2>1. CASE OnPipe(p)
    BY <2>1, PipeWriteKeeps, PipeReadKeeps, PipeEndsKeep DEF OnPipe
  <2>2. CASE PipeAlloc(p)
    <3>1. RingOK'
      BY <2>2, EmptyRing DEF PipeAlloc, PipeInit, RingOK
    <3>2. QED
      BY <2>2, <3>1, PipeAllocShapes
  <2>3. CASE CloseNext(p) \/ Iput(p) \/ Dup2End(p) \/ OpenEnd(p) \/ PipeAllocFails(p) \/ ExitNext(p)
    <3>1. UNCHANGED <<nread, nwrite, data>>
      BY <2>3 DEF CloseNext, Iput, Dup2End, OpenEnd, PipeAllocFails, ExitNext, ExitLoop, others, pipe
    <3>2. Shapes'
      BY <2>3, CloseNextShapes, PipeAllocShapes, Dup2EndShapes, OpenEndShapes, ExitsShapes
    <3>3. QED
      BY <3>1, <3>2, SameRing
  <2>4. QED
    BY <1>3, <2>1, <2>2, <2>3 DEF Continue
<1>4. ASSUME NEW p \in Procs, KillProc(p)
      PROVE  RInv'
  <2>1. UNCHANGED <<nread, nwrite, data, todo, ofile, ftable>> /\ asleep' = [asleep EXCEPT ![p] = "no"]
    BY <1>4 DEF KillProc, Kill, pipe
  <2>2. Shapes'
    BY <2>1 DEF Shapes, Todos, Descs, Tables
  <2>3. QED
    BY <2>1, <2>2, SameRing
<1>5. QED
  BY <1>1, <1>2, <1>3, <1>4 DEF Next

\* The calls in progress, the descriptors and the file table have the shapes the
\* kernel relies on, and the counters and the ring of the pipe are in range.
THEOREM FilesInvariant == Spec => []RInv
BY InitRInv, NextRInv, PTL DEF Spec

\* For any size of the ring and of the counters, however often they wrap and
\* whoever is killed or closes an end: the ring holds exactly the bytes written and
\* not yet read, in order.
THEOREM RingCorrect == Spec => []RingIsStream
<1>1. RInv => RingIsStream
  BY DEF RInv, RingOK
<1>2. QED
  BY <1>1, FilesInvariant, PTL
=============================================================================
