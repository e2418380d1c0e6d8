-------------------------------- MODULE Files --------------------------------
(* The file table (file.c), the descriptors of the processes (sysfile.c) and  *)
(* the pipe they share, with fork() and exit().                               *)
(*                                                                            *)
(* A system call runs in steps, the stretches between two locks: todo[p] is   *)
(* what is left of the call of process p, and p is in user space when it is   *)
(* empty.  fileclose() takes up to two steps, because it gives up ftable.lock *)
(* before it closes the pipe or puts the inode (which may sleep in begin_op). *)
(* Memory holds one pipe: kalloc() fails while it is in use, and may fail at  *)
(* other times.                                                               *)
EXTENDS Pipe, FiniteSets, FiniteSetsExt

CONSTANTS
  NFILE,       \* files open in the system
  NOFILE,      \* descriptors of a process
  Sizes,       \* the numbers of bytes a process asks to read or write
  Openers,     \* the processes that open other files than the pipe
  Victims      \* the processes that may be killed

ASSUME FilesAssumption ==
  /\ NFILE \in Nat /\ NOFILE \in Nat /\ Sizes \subseteq Nat
  /\ Openers \subseteq Procs /\ Victims \subseteq Procs

VARIABLES
  live,        \* the processes there are
  ofile,       \* ofile[p][fd]: a file, or NULL
  ftable,      \* the files: their references and what they are
  iref,        \* references the files hold on inodes
  panicked     \* fileclose() or filedup() met a file without references

vars == <<pipe, todo, asleep, killed, live, ofile, ftable, iref, panicked>>
others == <<pipe, asleep, killed, live>>

NULL == 0
FileIds == 1..NFILE
Fds == 0..(NOFILE-1)

NoFiles == [fd \in Fds |-> NULL]

Init ==
  /\ nread = 0 /\ nwrite = 0 /\ data = [i \in 0..(PIPESIZE-1) |-> 0]
  /\ readopen = FALSE /\ writeopen = FALSE /\ cut = FALSE
  /\ todo = [p \in Procs |-> << >>] /\ asleep = [p \in Procs |-> "no"]
  /\ killed = [p \in Procs |-> FALSE]
  /\ live = {CHOOSE p \in Procs : TRUE}
  /\ ofile = [p \in Procs |-> NoFiles]
  /\ ftable = [f \in FileIds |-> [ref |-> 0, type |-> "NONE"]]
  /\ iref = 0 /\ panicked = FALSE

-----------------------------------------------------------------------------
\* p is in user space and calls the kernel: trap() lets no killed process in.
Calls(p) == p \in live /\ todo[p] = << >> /\ ~killed[p]

\* The call of p is s.
Do(p, s) == todo' = [todo EXCEPT ![p] = s]

\* argfd() accepts fd.
Valid(p, fd) == ofile[p][fd] # NULL

\* fdalloc(): the lowest free descriptor, if any.
FreeFds(p) == {fd \in Fds : ofile[p][fd] = NULL}

\* filealloc() takes the first free file, if any.
FreeFiles == {f \in FileIds : ftable[f].ref = 0}
FileAlloc(f) == ftable' = [ftable EXCEPT ![f].ref = 1]

\* filedup().
FileDup(f) ==
  /\ ftable' = [ftable EXCEPT ![f].ref = @ + 1]
  /\ panicked' = (panicked \/ ftable[f].ref < 1)

\* Mutant of FileClose: what the file was is looked up after it has been freed.
FileCloseForgets(p, f, rest) ==
  /\ panicked' = (panicked \/ ftable[f].ref < 1)
  /\ ftable' = [ftable EXCEPT ![f] = IF @.ref > 1 THEN [@ EXCEPT !.ref = @ - 1]
                                     ELSE [ref |-> 0, type |-> "NONE"]]
  /\ Do(p, rest)

\* fileclose(f), to the release of ftable.lock; p then goes on with rest.
FileClose(p, f, rest) ==
  /\ panicked' = (panicked \/ ftable[f].ref < 1)
  /\ IF ftable[f].ref > 1
     THEN ftable' = [ftable EXCEPT ![f].ref = @ - 1] /\ Do(p, rest)
     ELSE /\ ftable' = [ftable EXCEPT ![f] = [ref |-> 0, type |-> "NONE"]]
          /\ Do(p, (CASE ftable[f].type = "PIPE-R" -> <<<<"pipeclose", 0>>>>
                      [] ftable[f].type = "PIPE-W" -> <<<<"pipeclose", 1>>>>
                      [] ftable[f].type = "INODE"  -> <<<<"iput">>>>
                      [] ftable[f].type = "NONE"   -> << >>) \o rest)

\* sys_dup().
Dup(p, fd) ==
  /\ Calls(p) /\ Valid(p, fd) /\ FreeFds(p) # {}
  /\ ofile' = [ofile EXCEPT ![p][Min(FreeFds(p))] = ofile[p][fd]]
  /\ FileDup(ofile[p][fd])
  /\ UNCHANGED <<pipe, todo, asleep, killed, live, iref>>


(* sys_dup2(): the file of newfd is closed, if there is one, and only then is  *)
(* the other duplicated.  Until then ofile[newfd] names the closed file.       *)
Dup2(p, oldfd, newfd) ==
  /\ Calls(p) /\ Valid(p, oldfd) /\ newfd # oldfd
  /\ LET rest == <<<<"filedup", ofile[p][oldfd], newfd>>>>
     IN  IF Valid(p, newfd) THEN FileClose(p, ofile[p][newfd], rest)
                            ELSE Do(p, rest) /\ UNCHANGED <<ftable, panicked>>
  /\ UNCHANGED <<others, ofile, iref>>

Dup2End(p) ==
  /\ At(p, "filedup")
  /\ FileDup(Head(todo[p])[2])
  /\ ofile' = [ofile EXCEPT ![p][Head(todo[p])[3]] = Head(todo[p])[2]]
  /\ Then(p, << >>)
  /\ UNCHANGED <<others, iref>>

\* sys_close().
Close(p, fd) ==
  /\ Calls(p) /\ Valid(p, fd)
  /\ ofile' = [ofile EXCEPT ![p][fd] = NULL]
  /\ FileClose(p, ofile[p][fd], << >>)
  /\ UNCHANGED <<others, iref>>

\* A fileclose() in the middle of a call.
CloseNext(p) ==
  /\ At(p, "fileclose")
  /\ FileClose(p, Head(todo[p])[2], Tail(todo[p]))
  /\ UNCHANGED <<others, ofile, iref>>

\* fileclose(): begin_op(), iput(), end_op().
Iput(p) ==
  /\ At(p, "iput")
  /\ iref' = iref - 1
  /\ Then(p, << >>)
  /\ UNCHANGED <<others, panicked, ofile, ftable>>

\* sys_open() once it has the inode; with no file left it puts the inode again.
Open(p) ==
  /\ Calls(p) /\ p \in Openers /\ FreeFiles # {}
  /\ FileAlloc(Min(FreeFiles))
  /\ iref' = iref + 1
  /\ Do(p, <<<<"open", Min(FreeFiles)>>>>)
  /\ UNCHANGED <<others, panicked, ofile>>

\* The rest of sys_open(): the file has no type yet if there is no descriptor.
OpenEnd(p) ==
  /\ At(p, "open")
  /\ LET f == Head(todo[p])[2]
     IN  IF FreeFds(p) = {}
         THEN Then(p, <<<<"fileclose", f>>, <<"iput">>>>) /\ UNCHANGED <<ofile, ftable>>
         ELSE /\ ofile' = [ofile EXCEPT ![p][Min(FreeFds(p))] = f]
              /\ ftable' = [ftable EXCEPT ![f].type = "INODE"]
              /\ Then(p, << >>)
  /\ UNCHANGED <<others, panicked, iref>>

\* sys_pipe(): the first filealloc() of pipealloc().
PipeCall(p) ==
  /\ Calls(p) /\ FreeFiles # {}
  /\ FileAlloc(Min(FreeFiles))
  /\ Do(p, <<<<"pipealloc", Min(FreeFiles)>>>>)
  /\ UNCHANGED <<others, panicked, ofile, iref>>

\* Its second filealloc() fails, or its kalloc() does.
PipeAllocFails(p) ==
  /\ At(p, "pipealloc")
  /\ Then(p, <<<<"fileclose", Head(todo[p])[2]>>>>)
  /\ UNCHANGED <<others, panicked, ofile, ftable, iref>>

\* sys_pipe() without two descriptors: both ends are closed again.
CloseEnds(f0, f1) == <<<<"fileclose", f0>>, <<"fileclose", f1>>>>

\* The rest of pipealloc() and sys_pipe().
PipeAlloc(p) ==
  /\ At(p, "pipealloc") /\ FreeFiles # {} /\ ~readopen /\ ~writeopen
  /\ LET f0  == Head(todo[p])[2]
         f1  == Min(FreeFiles)
         fd0 == Min(FreeFds(p))
         fd1 == Min(FreeFds(p) \ {fd0})
     IN  /\ ftable' = [ftable EXCEPT ![f0] = [ref |-> 1, type |-> "PIPE-R"],
                                     ![f1] = [ref |-> 1, type |-> "PIPE-W"]]
         /\ IF Cardinality(FreeFds(p)) < 2
            THEN Then(p, CloseEnds(f0, f1)) /\ UNCHANGED ofile
            ELSE ofile' = [ofile EXCEPT ![p][fd0] = f0, ![p][fd1] = f1] /\ Then(p, << >>)
  /\ PipeInit
  /\ UNCHANGED <<asleep, killed, live, iref, panicked>>

\* fileread() and filewrite() of an end of the pipe.
Read(p, fd, n) ==
  /\ Calls(p) /\ Valid(p, fd) /\ ftable[ofile[p][fd]].type = "PIPE-R"
  /\ Do(p, <<<<"piperead", n>>>>)
  /\ UNCHANGED <<others, panicked, ofile, ftable, iref>>

Write(p, fd, n) ==
  /\ Calls(p) /\ Valid(p, fd) /\ ftable[ofile[p][fd]].type = "PIPE-W"
  /\ Do(p, <<<<"pipewrite", n>>>>)
  /\ UNCHANGED <<others, panicked, ofile, ftable, iref>>

\* fork(): the child has the descriptors of its parent.
Fork(p, c) ==
  /\ Calls(p) /\ c \notin live
  /\ live' = live \union {c}
  /\ ofile' = [ofile EXCEPT ![c] = ofile[p]]
  /\ ftable' = [f \in FileIds |-> [ftable[f] EXCEPT
                  !.ref = @ + Cardinality({fd \in Fds : ofile[p][fd] = f})]]
  /\ UNCHANGED <<pipe, todo, asleep, killed, iref, panicked>>

(* exit(), on its own or because the process was killed: every descriptor is   *)
(* closed and then cleared.                                                    *)
ExitLoop(p, files) ==
  LET open == {fd \in Fds : files[fd] # NULL}
      fd   == Min(open)
  IN  /\ ofile' = [ofile EXCEPT ![p] = files]
      /\ IF open # {}
         THEN FileClose(p, files[fd], <<<<"exit", fd>>>>) /\ UNCHANGED <<live, killed>>
         ELSE /\ Do(p, << >>) /\ live' = live \ {p} /\ killed' = [killed EXCEPT ![p] = FALSE]
              /\ UNCHANGED <<ftable, panicked>>
      /\ UNCHANGED <<pipe, asleep, iref>>

Exit(p) == p \in live /\ todo[p] = << >> /\ ExitLoop(p, ofile[p])

ExitNext(p) == At(p, "exit") /\ ExitLoop(p, [ofile[p] EXCEPT ![Head(todo[p])[2]] = NULL])

-----------------------------------------------------------------------------
Call(p) ==
  \/ \E fd \in Fds : Dup(p, fd) \/ Close(p, fd)
  \/ \E fd \in Fds, newfd \in Fds : Dup2(p, fd, newfd)
  \/ \E fd \in Fds, n \in Sizes : Read(p, fd, n) \/ Write(p, fd, n)
  \/ Open(p) \/ PipeCall(p) \/ Exit(p)
  \/ \E c \in Procs : Fork(p, c)

\* The steps of pipe.c leave the files alone.
OnPipe(p) ==
  /\ PipeWrite(p) \/ PipeRead(p) \/ PipeSleep(p) \/ PipeClose(p)
  /\ UNCHANGED <<live, ofile, ftable, iref, panicked>>

Continue(p) ==
  \/ CloseNext(p) \/ Iput(p) \/ Dup2End(p) \/ OpenEnd(p)
  \/ PipeAlloc(p) \/ PipeAllocFails(p) \/ ExitNext(p)
  \/ OnPipe(p)

KillProc(p) == p \in live \intersect Victims /\ Kill(p) /\ UNCHANGED <<live, ofile, ftable, iref, panicked>>

Next == \E p \in Procs : Call(p) \/ Continue(p) \/ KillProc(p)

Spec == Init /\ [][Next]_vars

-----------------------------------------------------------------------------
\* The steps p has still to take.
Pending(p) == {todo[p][i] : i \in DOMAIN todo[p]}

\* ofile[p][fd] is about to be overwritten: the reference is no longer its own.
GivenUp(p, fd) == \E s \in Pending(p) : \/ s[1] = "exit" /\ s[2] = fd
                                        \/ s[1] = "filedup" /\ s[3] = fd

\* The descriptors that refer to f, and the calls that do.
Descriptors(f) == {d \in Procs \X Fds : ofile[d[1]][d[2]] = f /\ ~GivenUp(d[1], d[2])}
Callers(f) == {p \in Procs : \E s \in Pending(p) :
                 s[1] \in {"fileclose", "open", "pipealloc"} /\ s[2] = f}


\* Somebody holds this end, or is closing it.
EndHeld(writable) ==
  \/ \E f \in FileIds : /\ ftable[f].type = (IF writable = 1 THEN "PIPE-W" ELSE "PIPE-R")
                        /\ Descriptors(f) # {} \/ Callers(f) # {}
  \/ \E p \in Procs : <<"pipeclose", writable>> \in Pending(p)

(* An end of the pipe is open exactly while somebody holds it: a reader sees  *)
(* the end of file when the last writer has closed, not before and not never, *)
(* and the page is freed once (pipe.c:60).  Nobody is inside piperead() or    *)
(* pipewrite() of a pipe that has been freed.                                 *)
EndsMatchHolders ==
  /\ writeopen = EndHeld(1) /\ readopen = EndHeld(0)
  /\ \A p \in Procs : \A s \in Pending(p) : /\ s[1] = "piperead"  => readopen
                                            /\ s[1] = "pipewrite" => writeopen
=============================================================================
