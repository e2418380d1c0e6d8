-------------------------------- MODULE Pipe --------------------------------
(* A pipe: pipe.c.  The counters are unsigned and wrap at W, as nread and     *)
(* nwrite do at 2^32.  A byte is represented by its place in the stream,      *)
(* modulo W, so that the contents of the ring tell a lost, repeated or        *)
(* overwritten byte.                                                          *)
(*                                                                            *)
(* p->lock is held from the start of a call to its return or to sleep(); a    *)
(* step is such a stretch, except that the decision to sleep and sleep()      *)
(* itself are two steps, since kill() does not take p->lock.                  *)
EXTENDS Naturals, Sequences

CONSTANTS
  Procs,       \* processes
  PIPESIZE,    \* bytes in the ring
  W            \* the counters are taken modulo W

ASSUME PipeAssumption ==
  /\ PIPESIZE \in Nat \ {0} /\ W \in Nat /\ PIPESIZE < W /\ W % PIPESIZE = 0

VARIABLES
  nread, nwrite, data,      \* struct pipe
  readopen, writeopen,
  todo,                     \* what each process has still to do in the kernel
  asleep,                   \* the channel it sleeps on, or "no"
  killed,                   \* p->killed
  cut                       \* history: a killed writer left this pipe full

pipe == <<nread, nwrite, data, readopen, writeopen, cut>>

\* The next thing p does in the kernel is of this kind.
At(p, kind) == asleep[p] = "no" /\ todo[p] # << >> /\ Head(todo[p])[1] = kind

\* p goes on with s, and then with what it had to do before.
Then(p, s) == todo' = [todo EXCEPT ![p] = s \o Tail(@)]

\* p->lock is held by whoever is about to sleep.
Locked == \E p \in Procs : At(p, "sleep")

Mod(n) == n % W

\* The bytes written and not yet read.
Used == Mod(nwrite + W - nread)

Least(m, n) == IF m <= n THEN m ELSE n

\* wakeup(): all that sleep on the channel.
Wakeup(ch) == asleep' = [p \in Procs |-> IF asleep[p] = ch THEN "no" ELSE asleep[p]]

\* Mutant of Room: the test for a full ring is one byte late.
RoomLate == PIPESIZE + 1 - Used

\* How many bytes pipewrite() stores before it finds the ring full.
Room == PIPESIZE - Used

\* The ring after k more bytes.
Stored(k) == [i \in 0..(PIPESIZE-1) |->
  IF \E j \in 0..(k-1) : Mod(nwrite + j) % PIPESIZE = i
  THEN Mod(nwrite + (CHOOSE j \in 0..(k-1) : Mod(nwrite + j) % PIPESIZE = i))
  ELSE data[i]]

\* The contents of a page nobody uses.
Junk == nread' = 0 /\ nwrite' = 0 /\ data' = [i \in 0..(PIPESIZE-1) |-> 0] /\ cut' = FALSE

\* pipealloc(): the pipe itself.
PipeInit ==
  /\ nread' = 0 /\ nwrite' = 0 /\ readopen' = TRUE /\ writeopen' = TRUE
  /\ UNCHANGED <<data, cut>>

(* pipewrite() with n bytes left to write: as many as fit are stored.  If that *)
(* is all of them, the readers are woken; if not, the call fails when nobody   *)
(* can read or the process was killed, and otherwise wakes the readers and     *)
(* waits for room.                                                             *)
PipeWrite(p) ==
  /\ At(p, "pipewrite") /\ ~Locked
  /\ LET n == Head(todo[p])[2]
         k == Least(n, Room)
         fails == k < n /\ (~readopen \/ killed[p])
     IN  /\ nwrite' = Mod(nwrite + k)
         /\ data' = Stored(k)
         /\ cut' = (cut \/ (fails /\ readopen))
         /\ IF fails THEN UNCHANGED asleep ELSE Wakeup("nread")
         /\ Then(p, IF k = n \/ fails THEN << >>
                    ELSE <<<<"sleep", "nwrite">>, <<"pipewrite", n - k>>>>)
  /\ UNCHANGED <<nread, readopen, writeopen, killed>>

\* Mutant of PipeRead: the writers are not woken.
PipeReadNoWakeup(p) ==
  /\ At(p, "piperead") /\ ~Locked /\ ~(Used = 0 /\ writeopen)
  /\ nread' = Mod(nread + Least(Head(todo[p])[2], Used))
  /\ Then(p, << >>)
  /\ UNCHANGED <<nwrite, data, readopen, writeopen, cut, asleep, killed>>

(* piperead() of at most n bytes: with nothing to read and a writer left it    *)
(* fails if killed and waits otherwise; else it takes what there is, wakes the *)
(* writers and returns.                                                        *)
PipeRead(p) ==
  /\ At(p, "piperead") /\ ~Locked
  /\ LET n == Head(todo[p])[2]
     IN  IF Used = 0 /\ writeopen
         THEN /\ Then(p, IF killed[p] THEN << >> ELSE <<<<"sleep", "nread">>, Head(todo[p])>>)
              /\ UNCHANGED <<nread, asleep>>
         ELSE /\ nread' = Mod(nread + Least(n, Used))
              /\ Wakeup("nwrite")
              /\ Then(p, << >>)
  /\ UNCHANGED <<nwrite, data, readopen, writeopen, cut, killed>>

\* sleep(chan, &p->lock): the lock is dropped once the process is asleep.
PipeSleep(p) ==
  /\ At(p, "sleep")
  /\ asleep' = [asleep EXCEPT ![p] = Head(todo[p])[2]]
  /\ Then(p, << >>)
  /\ UNCHANGED <<pipe, killed>>

\* Who waits for something only this end could bring.
Waiting(writable) == IF writable = 1 THEN "nread" ELSE "nwrite"

\* pipeclose(): the page is freed, and its contents lost, with the second end.
PipeClose(p) ==
  /\ At(p, "pipeclose") /\ ~Locked
  /\ LET writable == Head(todo[p])[2]
     IN  /\ writeopen' = (writeopen /\ writable = 0)
         /\ readopen' = (readopen /\ writable = 1)
         /\ Wakeup(Waiting(writable))
  /\ IF writeopen' \/ readopen' THEN UNCHANGED <<nread, nwrite, data, cut>> ELSE Junk
  /\ Then(p, << >>)
  /\ UNCHANGED killed

\* kill(): a sleeping process is made runnable.
Kill(p) ==
  /\ ~killed[p]
  /\ killed' = [killed EXCEPT ![p] = TRUE]
  /\ asleep' = [asleep EXCEPT ![p] = "no"]
  /\ UNCHANGED <<pipe, todo>>

(* The bytes in the ring are the ones written and not yet read, in order, and *)
(* there are at most PIPESIZE: no byte is lost, overwritten or read twice,    *)
(* also when the counters wrap (pipe.c:85, 93 and 116).                       *)
RingIsStream ==
  /\ Used <= PIPESIZE
  /\ \A k \in 0..(Used-1) : data[Mod(nread + k) % PIPESIZE] = Mod(nread + k)

(* Nobody sleeps without a reason: a reader only while the ring is empty and  *)
(* has a writer, a writer only while it is full and has a reader.  The one    *)
(* exception is a pipe that a killed writer has left full: pipewrite() then   *)
(* returns without a wakeup (pipe.c:86).                                      *)
SleepersMustWait ==
  \A p \in Procs : /\ asleep[p] = "nread"  => writeopen /\ (Used = 0 \/ cut)
                   /\ asleep[p] = "nwrite" => Used = PIPESIZE /\ readopen
=============================================================================
