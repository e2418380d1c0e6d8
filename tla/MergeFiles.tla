----------------------------- MODULE MergeFiles -----------------------------
(* merge_files.c: the lines of several files in turn, through buffers of      *)
(* BUFSIZE bytes, to standard output, which is pipe 1.                        *)
EXTENDS PosixPipes, SequencesExt

VARIABLES
  bufsize,     \* the size of the buffers
  input,       \* [left, buf, status] of each input file
  turn,        \* file_index
  out,         \* the output buffer
  pending      \* the character that waits for the output buffer to be flushed

merge == <<bufsize, input, turn, out, pending>>

Remaining == {i \in DOMAIN input : input[i].status # "READ_ENDED"}

\* _validate_configuration_files(): the files that can be read, in their order.
Readable(files, accessible) ==
  LET order == SetToSortSeq(accessible, <) IN [k \in DOMAIN order |-> files[order[k]]]

\* _init_file(), init_input_files() and init_output_file().
InitFile(text) == [left |-> text, buf |-> << >>, status |-> "OK"]
InitInputFiles(files) == input = [i \in DOMAIN files |-> InitFile(files[i])]
InitOutputFile == out = << >> /\ pending = << >>

MergeInit(size, files) ==
  /\ bufsize = size /\ turn = 1
  /\ InitInputFiles(files) /\ InitOutputFile

\* read_all(): what is left of a file fills the buffer as far as it goes.
ReadAll(f) == [f EXCEPT !.left = Skip(@, bufsize), !.buf = Take(f.left, bufsize)]

\* read_char(): the buffer is filled when it is empty.
Filled(f) ==
  IF f.status = "OK" /\ f.buf = << >>
  THEN [ReadAll(f) EXCEPT !.status = IF Len(f.left) < bufsize THEN "READ_ENDING" ELSE "OK"]
  ELSE f

NextTurn == turn' = (turn % Len(input)) + 1

(* shuffle_lines() and copy_line(): the next character of the file whose turn *)
(* it is.  write_char() flushes a full buffer before it stores the character. *)
MergeCopies ==
  /\ Runs("merge") /\ pending = << >> /\ Remaining # {}
  /\ LET f == Filled(input[turn])
     IN  IF f.status = "READ_ENDED" \/ (f.status = "READ_ENDING" /\ f.buf = << >>)
         THEN /\ input' = [input EXCEPT ![turn] = [f EXCEPT !.status = "READ_ENDED"]]
              /\ NextTurn
              /\ UNCHANGED <<out, pending>>
         ELSE /\ input' = [input EXCEPT ![turn] = [f EXCEPT !.buf = Tail(@)]]
              /\ IF Len(out) < bufsize
                 THEN out' = Append(out, Head(f.buf)) /\ UNCHANGED pending
                 ELSE pending' = <<Head(f.buf)>> /\ UNCHANGED out
              /\ IF Head(f.buf) = "\n" THEN NextTurn ELSE UNCHANGED turn
  /\ UNCHANGED <<posix, bufsize>>

\* Mutant of Stored: the character that found the buffer full is lost.
StoredNot == << >>

\* write_char() stores its character once the buffer is flushed.
Stored == pending

\* flush_file(): write_all() goes on until the buffer is empty.
MergeFlushes ==
  /\ Runs("merge") /\ out # << >> /\ (pending # << >> \/ Remaining = {})
  /\ IF Broken(1) THEN Exits("merge") /\ UNCHANGED <<out, pending>>
     ELSE /\ CanWrite(1) /\ Write(1, out)
          /\ IF Rest(1, out) = << >> THEN out' = Stored /\ pending' = << >>
             ELSE out' = Rest(1, out) /\ UNCHANGED pending
  /\ UNCHANGED <<bufsize, input, turn>>

MergeEnds ==
  /\ Runs("merge") /\ Remaining = {} /\ pending = << >> /\ out = << >>
  /\ Exits("merge") /\ UNCHANGED merge

MergeNext == MergeCopies \/ MergeFlushes \/ MergeEnds
-----------------------------------------------------------------------------
\* The lines of a text; the last one may have no newline.
Lines(s) ==
  LET ends == {k \in 1..Len(s) : s[k] = "\n" \/ k = Len(s)}
      Start(k) == Max({e \in ends : e < k} \union {0}) + 1
  IN  [n \in 1..Cardinality(ends) |->
         LET k == SetToSortSeq(ends, <)[n] IN SubSeq(s, Start(k), k)]

\* The first lines of all the files, then the second ones, and so on.
Merged(files) ==
  LET Line(i, n) == IF n <= Len(Lines(files[i])) THEN Lines(files[i])[n] ELSE << >>
      most == Max({Len(Lines(files[i])) : i \in DOMAIN files} \union {0})
  IN  FlattenSeq([n \in 1..most |-> FlattenSeq([i \in DOMAIN files |-> Line(i, n)])])
=============================================================================
