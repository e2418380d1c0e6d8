--------------------------------- MODULE Vm ---------------------------------
(* Physical pages (kalloc.c), the address spaces made of them (vm.c), and the *)
(* operations of processes on them: sbrk(), page faults, fork(), exec(),      *)
(* exit(), wait(), and the kernel's own accesses to user memory.              *)
(*                                                                            *)
(* Pages are alike: the free list is their number, and a page in use is where *)
(* it is used.  What a page holds is told apart as far as who wrote it.       *)
(* fork() and exec() run in steps, between which other processes allocate and *)
(* free; each step is all that is done for one page or one segment.           *)
EXTENDS Naturals, FiniteSets, FiniteSetsExt, Sequences

CONSTANTS
  NPROC,       \* slots of the process table; 1 is init
  NFRAMES,     \* physical pages
  PGSIZE,      \* bytes in a page
  KERNBASE,    \* the end of the addresses of a process
  W,           \* integers are modulo W
  NPT,         \* pages a page table maps
  KTABS,       \* page tables of the kernel's part of an address space
  Deltas,      \* arguments of sbrk(), modulo W
  Sizes,       \* sizes of the objects handed to system calls
  Images       \* files exec() loads: sequences of segments

ASSUME VmAssumption ==
  /\ NPROC \in Nat \ {0} /\ PGSIZE \in Nat \ {0} /\ NPT \in Nat \ {0} /\ KTABS \in Nat
  /\ KERNBASE \in Nat /\ W \in Nat /\ 2 * KERNBASE <= W
  /\ KERNBASE % PGSIZE = 0 /\ PGSIZE < KERNBASE

VARIABLES
  nfree,       \* the number of pages on the free list
  proc,        \* the process table
  op,          \* what each process is doing in the kernel
  lock,        \* who has ptable.lock across steps: wait() only, else 0
  leaked,      \* history: pages lost by a page fault
  panicked     \* init has exited

vars == <<nfree, proc, op, lock, leaked, panicked>>

Procs == 1..NPROC
Vpns == 0..(KERNBASE \div PGSIZE - 1)
Tables == {v \div NPT : v \in Vpns}

RoundUp(a) == ((a + PGSIZE - 1) \div PGSIZE) * PGSIZE
NoPages == [v \in Vpns |-> "none"]
NewVm == [tabs |-> {}, page |-> NoPages, guard |-> {}]
Unused == [state |-> "UNUSED", parent |-> 0, sz |-> 0, vm |-> NewVm, killed |-> FALSE]
User == <<"user">>

Mapped(vm) == {v \in Vpns : vm.page[v] # "none"}

\* The pages freevm(d, 1) returns.
Frames(vm) == 1 + KTABS + Cardinality(vm.tabs) + Cardinality(Mapped(vm))

\* userinit(): init has a kernel stack and a page with its code.
InitVm == [NewVm EXCEPT !.tabs = {0}, !.page[0] = "text"]

Init ==
  /\ proc = [p \in Procs |-> IF p = 1 THEN [Unused EXCEPT !.state = "LIVE", !.sz = PGSIZE, !.vm = InitVm]
                             ELSE Unused]
  /\ nfree = NFRAMES - Frames(InitVm) - 1
  /\ op = [p \in Procs |-> User]
  /\ lock = 0 /\ leaked = 0 /\ panicked = FALSE

-----------------------------------------------------------------------------
At(p, kind) == ~panicked /\ proc[p].state = "LIVE" /\ op[p][1] = kind
Goes(p, next) == op' = [op EXCEPT ![p] = next]

\* kalloc() and kfree() of n pages.
Kalloc(n) == n <= nfree /\ nfree' = nfree - n
Kfree(n) == nfree' = nfree + n

\* walkpgdir() and mappages(): the pages taken to map the pages vs, tables included.
Need(vm, vs) == Cardinality(vs) + Cardinality({v \div NPT : v \in vs} \ vm.tabs)

Mappages(vm, vs, content) ==
  [vm EXCEPT !.tabs = @ \union {v \div NPT : v \in vs},
             !.page = [v \in Vpns |-> IF v \in vs THEN content ELSE @[v]]]

\* Where deallocuvm() and allocuvm() begin.
From(a) == RoundUp(a)

\* The pages they go through.
Between(low, high) == {v \in Vpns : From(low) <= v * PGSIZE /\ v * PGSIZE < high}

\* deallocuvm(), which leaves the tables.
Unmap(vm, vs) == [vm EXCEPT !.page = [v \in Vpns |-> IF v \in vs THEN "none" ELSE @[v]],
                            !.guard = @ \ vs]

\* The sizes a process may have.
BelowKernel(sz) == sz < KERNBASE

(* growproc(), to a smaller size: deallocuvm() refuses a size above the old   *)
(* one, which is where too large a decrease wraps to, and a result of 0 is    *)
(* taken for a failure.                                                       *)
Growproc(p, newsz) ==
  LET sz == proc[p].sz
      vs == Between(newsz, sz)
  IN  /\ newsz < sz
      /\ proc' = [proc EXCEPT ![p].vm = Unmap(@, vs), ![p].sz = IF newsz = 0 THEN sz ELSE newsz]
      /\ Kfree(Cardinality(vs \intersect Mapped(proc[p].vm)))

\* sys_sbrk(n): a process that grows does so in size only.
SysSbrk(p, n) ==
  /\ At(p, "user")
  /\ LET newsz == (proc[p].sz + n) % W
     IN  IF n < W \div 2
         THEN /\ BelowKernel(newsz)
              /\ proc' = [proc EXCEPT ![p].sz = newsz]
              /\ UNCHANGED nfree
         ELSE Growproc(p, newsz)
  /\ UNCHANGED <<op, lock, leaked, panicked>>

\* trap() for a fault on a page of the process that is not there.
PageFault(p, v) ==
  LET need == Need(proc[p].vm, {v})
  IN  IF nfree >= need
      THEN /\ proc' = [proc EXCEPT ![p].vm = Mappages(@, {v}, "zero")]
           /\ nfree' = nfree - need
           /\ UNCHANGED leaked
      ELSE /\ proc' = [proc EXCEPT ![p].killed = TRUE]
           /\ nfree' = 0
           /\ leaked' = leaked + nfree

\* A store by the process: it succeeds, faults, or ends the process.
Store(p, a) ==
  /\ At(p, "user")
  /\ LET v == a \div PGSIZE
     IN  CASE v \in Mapped(proc[p].vm) \ proc[p].vm.guard ->
                /\ proc' = [proc EXCEPT ![p].vm.page[v] = "data"]
                /\ UNCHANGED <<nfree, leaked, op>>
           [] a < proc[p].sz /\ v \notin Mapped(proc[p].vm) ->
                /\ PageFault(p, v)
                /\ Goes(p, IF proc'[p].killed THEN <<"exit">> ELSE User)
           [] OTHER ->
                /\ proc' = [proc EXCEPT ![p].killed = TRUE]
                /\ Goes(p, <<"exit">>)
                /\ UNCHANGED <<nfree, leaked>>
  /\ UNCHANGED <<lock, panicked>>

\* Mutant of InRange: the end of the object is not looked at.
InRangeStart(p, a, size) == a < proc[p].sz

\* argptr()
InRange(p, a, size) == a < proc[p].sz /\ (a + size) % W <= proc[p].sz

\* A system call that is given an object in user memory, and will write to it.
SysCall(p, a, size) ==
  /\ At(p, "user") /\ InRange(p, a, size)
  /\ Goes(p, <<"touch", a \div PGSIZE, (a + size - 1) \div PGSIZE>>)
  /\ UNCHANGED <<nfree, proc, lock, leaked, panicked>>

(* The kernel writes to a user page.  If the page is not there it faults,     *)
(* returns from trap() to the same instruction, and faults again as long as   *)
(* there is no memory.                                                        *)
KernelTouch(p) ==
  /\ At(p, "touch")
  /\ LET v == op[p][2]
     IN  IF v \notin Mapped(proc[p].vm) THEN PageFault(p, v) /\ UNCHANGED <<op, lock>>
         ELSE /\ proc' = [proc EXCEPT ![p].vm.page[v] = "data"]
              /\ IF v < op[p][3] THEN Goes(p, <<"touch", v + 1, op[p][3]>>) /\ UNCHANGED lock
                 ELSE /\ Goes(p, IF proc[p].killed THEN <<"exit">> ELSE User)
                      /\ lock' = IF lock = p THEN 0 ELSE lock
              /\ UNCHANGED <<nfree, leaked>>
  /\ UNCHANGED panicked
-----------------------------------------------------------------------------
\* fork(): allocproc(), if there is a slot and a page for the kernel stack.
Fork(p) ==
  /\ At(p, "user") /\ lock = 0 /\ Kalloc(1)
  /\ \E np \in Procs :
       /\ proc[np].state = "UNUSED" /\ \A q \in 1..(np - 1) : proc[q].state # "UNUSED"
       /\ proc' = [proc EXCEPT ![np].state = "EMBRYO"]
       /\ Goes(p, <<"setup", np>>)
  /\ UNCHANGED <<lock, leaked, panicked>>


\* fork() when copyuvm() fails, with the pages that copyuvm() frees.
ForkFails(p, np, pages) ==
  /\ proc' = [proc EXCEPT ![np] = Unused]
  /\ Kfree(pages + 1)
  /\ Goes(p, User)


\* copyuvm() passes over the pages that are not there.
Present(vm) == Mapped(vm)

\* copyuvm(): setupkvm()
ForkSetsUp(p) ==
  /\ At(p, "setup")
  /\ LET np == op[p][2]
     IN  IF nfree < 1 + KTABS THEN ForkFails(p, np, 0)
         ELSE /\ Kalloc(1 + KTABS)
              /\ Goes(p, <<"copy", np, {v \in Present(proc[p].vm) : v * PGSIZE < proc[p].sz}, NewVm>>)
              /\ UNCHANGED proc
  /\ UNCHANGED <<lock, leaked, panicked>>

\* copyuvm(): the next page.
ForkCopies(p) ==
  /\ At(p, "copy") /\ op[p][3] # {}
  /\ LET np   == op[p][2]
         v    == Min(op[p][3])
         d    == op[p][4]
         copy == [Mappages(d, {v}, proc[p].vm.page[v]) EXCEPT
                    !.guard = @ \union (proc[p].vm.guard \intersect {v})]
     IN  IF nfree < Need(d, {v}) THEN ForkFails(p, np, Frames(d))
         ELSE /\ Kalloc(Need(d, {v}))
              /\ Goes(p, <<"copy", np, op[p][3] \ {v}, copy>>)
              /\ UNCHANGED proc
  /\ UNCHANGED <<lock, leaked, panicked>>

ForkEnds(p) ==
  /\ At(p, "copy") /\ op[p][3] = {} /\ lock = 0
  /\ proc' = [proc EXCEPT ![op[p][2]] = [Unused EXCEPT !.state = "LIVE", !.parent = p,
                                                       !.sz = proc[p].sz, !.vm = op[p][4]]]
  /\ Goes(p, User)
  /\ UNCHANGED <<nfree, lock, leaked, panicked>>
-----------------------------------------------------------------------------
\* exec(): setupkvm() for the segments of a file.
Exec(p, image) ==
  /\ At(p, "user") /\ Kalloc(1 + KTABS)
  /\ Goes(p, <<"exec", image, 0, NewVm>>)
  /\ UNCHANGED <<proc, lock, leaked, panicked>>

\* allocuvm() from sz to newsz can be done.
CanAlloc(d, sz, newsz) == BelowKernel(newsz) /\ Need(d, Between(sz, newsz)) <= nfree

\* The next segment: allocuvm() and loaduvm().
ExecLoads(p) ==
  /\ At(p, "exec") /\ op[p][2] # << >>
  /\ LET seg   == Head(op[p][2])
         sz    == op[p][3]
         d     == op[p][4]
         newsz == (seg.vaddr + seg.memsz) % W
         vs    == Between(sz, newsz)
         text  == {v \in Vpns : seg.vaddr <= v * PGSIZE /\ v * PGSIZE < seg.vaddr + seg.filesz}
     IN  /\ seg.filesz <= seg.memsz /\ seg.vaddr <= newsz /\ seg.vaddr % PGSIZE = 0
         /\ CanAlloc(d, sz, newsz)
         /\ Kalloc(Need(d, vs))
         /\ Goes(p, <<"exec", Tail(op[p][2]), Max({sz, newsz}),
                      Mappages(Mappages(d, vs, "zero"), text, "text")>>)
  /\ UNCHANGED <<proc, lock, leaked, panicked>>

\* The stack, below it a page that is out of reach, and the new image is in use.
ExecEnds(p) ==
  /\ At(p, "exec") /\ op[p][2] = << >>
  /\ LET sz    == RoundUp(op[p][3])
         newsz == sz + 2 * PGSIZE
         d     == op[p][4]
         vs    == Between(sz, newsz)
         first == sz \div PGSIZE
         vm    == [Mappages(Mappages(d, vs, "zero"), {first + 1}, "data") EXCEPT !.guard = {first}]
     IN  /\ CanAlloc(d, sz, newsz)
         /\ proc' = [proc EXCEPT ![p].sz = newsz, ![p].vm = vm]
         /\ nfree' = nfree - Need(d, vs) + Frames(proc[p].vm)
  /\ Goes(p, User)
  /\ UNCHANGED <<lock, leaked, panicked>>

(* exec(): "bad".  There is no memory, the file is not as its header says or  *)
(* the arguments do not fit on the stack.                                     *)
ExecFails(p) ==
  /\ At(p, "exec")
  /\ Kfree(Frames(op[p][4]))
  /\ Goes(p, User)
  /\ UNCHANGED <<proc, lock, leaked, panicked>>
-----------------------------------------------------------------------------
\* exit(): the user part goes at once, the rest in wait().
Exit(p) ==
  /\ At(p, "user") \/ At(p, "exit")
  /\ lock = 0
  /\ IF p = 1 THEN panicked' = TRUE /\ UNCHANGED <<proc, nfree, op>>
     ELSE /\ proc' = [q \in Procs |->
               IF q = p THEN [proc[p] EXCEPT !.state = "ZOMBIE", !.vm = Unmap(@, Vpns)]
               ELSE IF proc[q].parent = p THEN [proc[q] EXCEPT !.parent = 1] ELSE proc[q]]
          /\ Kfree(Cardinality(Mapped(proc[p].vm)))
          /\ Goes(p, User)
          /\ UNCHANGED panicked
  /\ UNCHANGED <<lock, leaked>>

Zombies(p) == {q \in Procs : proc[q].parent = p /\ proc[q].state = "ZOMBIE"}

\* wait(), which goes on to write the status, if any, with ptable.lock held.
Wait(p, status) ==
  /\ At(p, "user") /\ lock = 0 /\ Zombies(p) # {}
  /\ LET q == Min(Zombies(p))
     IN  /\ Kfree(1 + Frames(proc[q].vm))
         /\ proc' = [proc EXCEPT ![q] = Unused]
  /\ \/ status = 0 /\ UNCHANGED <<op, lock>>
     \/ /\ status # 0 /\ InRange(p, status, 1)
        /\ Goes(p, <<"touch", status \div PGSIZE, status \div PGSIZE>>)
        /\ lock' = p
  /\ UNCHANGED <<leaked, panicked>>

Halted == panicked /\ UNCHANGED vars

Next ==
  \/ Halted
  \/ \E p \in Procs :
       \/ \E n \in Deltas : SysSbrk(p, n)
       \/ \E a \in 0..(KERNBASE - 1) : Store(p, a) \/ Wait(p, a)
       \/ \E a \in 0..(KERNBASE - 1), size \in Sizes : SysCall(p, a, size)
       \/ KernelTouch(p)
       \/ Fork(p) \/ ForkSetsUp(p) \/ ForkCopies(p) \/ ForkEnds(p)
       \/ \E image \in Images : Exec(p, image)
       \/ ExecLoads(p) \/ ExecEnds(p) \/ ExecFails(p)
       \/ Exit(p)

Spec == Init /\ [][Next]_vars
-----------------------------------------------------------------------------
\* The pages a process holds: kernel stack, address space, and the one it is making.
Held(p) ==
  (IF proc[p].state = "UNUSED" THEN 0 ELSE 1)
  + (IF proc[p].state \in {"LIVE", "ZOMBIE"} THEN Frames(proc[p].vm) ELSE 0)
  + (IF op[p][1] \in {"copy", "exec"} THEN Frames(op[p][4]) ELSE 0)


(* No process reaches into the kernel, however it grows (sysproc.c:78,        *)
(* vm.c:240), and a fault of the kernel is on memory of the process: argptr() *)
(* lets nothing else through, at the end of the address space or of the       *)
(* integers (syscall.c:66).  Otherwise the handler would return to the same   *)
(* fault for ever (trap.c:107).                                               *)
KernelInRange ==
  \A p \in Procs :
    /\ proc[p].sz < KERNBASE
    /\ op[p][1] = "touch" => op[p][2] <= op[p][3] /\ op[p][3] * PGSIZE < proc[p].sz
-----------------------------------------------------------------------------
\* What a program file holds once it is loaded.
Program(image) ==
  LET ends  == {image[k].vaddr + image[k].memsz : k \in DOMAIN image}
      size  == RoundUp(Max(ends \union {0}))
      Text(v) == \E k \in DOMAIN image : /\ image[k].vaddr <= v * PGSIZE
                                         /\ v * PGSIZE < image[k].vaddr + image[k].filesz
  IN  [size |-> size + 2 * PGSIZE,
       page |-> [v \in Vpns |-> IF Text(v) THEN "text"
                                ELSE IF v * PGSIZE = size + PGSIZE THEN "data" ELSE "zero"]]

InitProgram == [size |-> PGSIZE, page |-> [v \in Vpns |-> IF v = 0 THEN "text" ELSE "zero"]]

\* The memory of a process as it sees it: a page that is not there is zero.
View(p) ==
  IF proc[p].state # "LIVE" THEN [size |-> 0, page |-> [v \in Vpns |-> "zero"]]
  ELSE [size |-> proc[p].sz,
        page |-> [v \in Vpns |-> IF proc[p].vm.page[v] = "none" THEN "zero" ELSE proc[p].vm.page[v]]]

M == INSTANCE Memory WITH
       Programs <- {InitProgram} \union {Program(image) : image \in Images},
       memory   <- [p \in Procs |-> View(p)]

=============================================================================
