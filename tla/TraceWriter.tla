----------------------------- MODULE TraceWriter -----------------------------
(***************************************************************************)
(* The daemon's trace (persistence.py, state.py, fs.py): every request     *)
(* leaves a record in a bounded list in memory and, through a bounded      *)
(* drop-oldest queue and a writer thread, in a JSONL file that is          *)
(* rewritten from memory when it grows too large and read back at the next *)
(* start.                                                                  *)
(*                                                                         *)
(* Records are numbered in the order in which they enter memory.  A line   *)
(* of the file is a record, or 0 if it cannot be decoded; `open' says that *)
(* the last line has no newline yet, which is what a write that failed     *)
(* half-way or a crash leaves.  stop() gives up on a writer thread after    *)
(* two seconds, the next record starts another, and two producers that     *)
(* find no thread start one each.  Two writers share the trace file and    *)
(* the temporary file of a rewrite, and each keeps writing to what it has  *)
(* opened after another has renamed it, or renamed over it.                *)
(***************************************************************************)
EXTENDS Integers, SequencesExt

CONSTANTS
  Producers,    \* bridge workers and other threads that record requests
  Writers,      \* writer threads that can exist at once, 1 the first
  Size,         \* encoded size of each record
  TraceLimit,   \* trace_limit: records kept in memory
  QueueLimit,   \* queue_limit_records
  QueueBytes,   \* queue_limit_bytes
  FileBytes,    \* file_limit_bytes
  MaxRecords,   \* bound: records of all sessions
  MaxErrors,    \* bound: writes that fail with OSError
  MaxCrashes    \* bound: crashes of the daemon

ASSUME SizesAssumption ==
  /\ TraceLimit \in Nat \ {0} /\ QueueLimit \in Nat \ {0}
  /\ 1 \in Writers
  /\ MaxRecords \in Nat /\ QueueBytes \in Nat /\ FileBytes \in Nat
  /\ Size \in [1..MaxRecords -> Nat \ {0}]

VARIABLES
  trace,      \* RuntimeManager.trace
  recorded,   \* records so far
  hand,       \* per producer: the record it has yet to enqueue, or 0
  queue,      \* the writer's queue
  drop_count,
  thread,     \* self.thread is set
  stop,       \* "no", "join" or "done": how far stop() is; self._stop is set from "join" on
  alone,      \* producers that found no thread in start() and have yet to launch one
  writer,     \* per writer thread: what it is doing
  file, open,
  tmp, staged, \* the rewrite's .tmp file, and whether it exists
  errors,     \* trace_write_errors
  flushing,   \* a caller waits in flush()
  crashes,
  \* History:
  forgotten,  \* drops counted and reset
  aged,       \* records a rewrite left out that memory did not hold any more
  glued,      \* records glued to an undecodable line
  lost,       \* records unwritten at a crash
  overlapped  \* a rewrite met another writer's append or rewrite

fileVars == <<file, open, tmp, staged>>
history  == <<forgotten, aged, glued, lost, overlapped>>
vars == <<trace, recorded, hand, queue, drop_count, thread, stop, alone, writer, fileVars,
          errors, flushing, crashes, history>>

\* A writer thread: its record, its snapshot, and what the file it has open is by now: the
\* trace file, the .tmp file or no file any more.
Ended == [pc |-> "ended", rec |-> 0, snap |-> <<>>, on |-> "gone"]
At(label) == [Ended EXCEPT !.pc = label]
Waiting == At("wait")

\* RuntimeManager.start() starts the writer before the bridge and its workers.
StartOf == [w \in Writers |-> IF w = 1 THEN Waiting ELSE Ended]

\* The size of a line, and of the records of a queue or the lines of a file.
Width(r) == IF r = 0 THEN 1 ELSE Size[r]
Bytes(s) ==
  LET upTo[i \in 0..Len(s)] == IF i = 0 THEN 0 ELSE upTo[i - 1] + Width(s[i])
  IN  upTo[Len(s)]
Pending == {w \in Writers : writer[w].pc \notin {"ended", "wait"}}

\* From its snapshot to its rename a writer is rewriting the file.
Rewriting(w) == writer[w].pc \in {"rewrite", "fill", "rename"}
Meets(w) == \E v \in Writers \ {w} : Rewriting(v)

-----------------------------------------------------------------------------
(* Producers *)

Tail_(s, n) == SubSeq(s, IF Len(s) > n THEN Len(s) - n + 1 ELSE 1, Len(s))

\* _record_trace under the manager's lock: memory first, in the order of the lock.
Record(p) ==
  /\ hand[p] = 0 /\ recorded < MaxRecords
  /\ recorded' = recorded + 1
  /\ trace' = Tail_(Append(trace, recorded'), TraceLimit)
  /\ hand' = [hand EXCEPT ![p] = recorded']
  /\ UNCHANGED <<queue, drop_count, thread, stop, alone, writer, fileVars, errors,
                 flushing, crashes, history>>

Room(q, r) == q = <<>> \/ (Len(q) < QueueLimit /\ Bytes(q) + Size[r] <= QueueBytes)

\* How many of the oldest records have to go before r fits.
Dropped(r) ==
  CHOOSE k \in 0..Len(queue) :
    /\ Room(SubSeq(queue, k + 1, Len(queue)), r)
    /\ \A j \in 0..(k - 1) : ~Room(SubSeq(queue, j + 1, Len(queue)), r)

\* start(): a new thread unless self.thread is set.
Idle == {w \in Writers : writer[w].pc = "ended"}
Launched == [writer EXCEPT ![CHOOSE w \in Idle : TRUE] = Waiting]

\* The check of self.thread and its assignment are not one step.
FindNone(p) ==
  /\ hand[p] # 0 /\ ~thread /\ p \notin alone
  /\ alone' = alone \cup {p}
  /\ UNCHANGED <<trace, recorded, hand, queue, drop_count, thread, stop, writer,
                 fileVars, errors, flushing, crashes, history>>

\* enqueue: outside the manager's lock, so records may pass each other.
Enqueue(p) ==
  /\ hand[p] # 0
  /\ IF p \in alone THEN Idle # {} /\ writer' = Launched /\ thread' = TRUE
                    ELSE thread /\ UNCHANGED <<writer, thread>>
  /\ LET k == Dropped(hand[p])
     IN  /\ queue' = Append(SubSeq(queue, k + 1, Len(queue)), hand[p])
         /\ drop_count' = drop_count + k
  /\ hand' = [hand EXCEPT ![p] = 0] /\ alone' = alone \ {p}
  /\ UNCHANGED <<trace, recorded, stop, fileVars, errors, flushing, crashes,
                 history>>

-----------------------------------------------------------------------------
(* The writer thread *)

Popped(q) == Tail(q)

Pop(w) ==
  /\ writer[w].pc = "wait" /\ queue # <<>>
  /\ writer' = [writer EXCEPT ![w] = [At("write") EXCEPT !.rec = Head(queue)]]
  /\ queue' = Popped(queue)
  /\ UNCHANGED <<trace, recorded, hand, drop_count, thread, stop, alone, fileVars, errors,
                 flushing, crashes, history>>

Quits == stop # "no" /\ queue = <<>>

End(w) ==
  /\ writer[w].pc = "wait" /\ Quits
  /\ writer' = [writer EXCEPT ![w] = Ended]
  /\ UNCHANGED <<trace, recorded, hand, queue, drop_count, thread, stop, alone, fileVars,
                 errors, flushing, crashes, history>>

\* append_jsonl opens the file ...
OpenFile(w) ==
  /\ writer[w].pc = "write"
  /\ writer' = [writer EXCEPT ![w] = [@ EXCEPT !.pc = "append", !.on = "file"]]
  /\ UNCHANGED <<trace, recorded, hand, queue, drop_count, thread, stop, alone, fileVars,
                 errors, flushing, crashes, history>>

\* ... and writes its line to it, if it is still there.  After a line that never got its
\* newline, the record is glued to that.
AppendRecord(w) ==
  /\ writer[w].pc = "append"
  /\ LET r == writer[w].rec IN
     \/ writer[w].on = "gone" /\ UNCHANGED <<file, open, glued>>
     \/ writer[w].on = "file" /\ open  /\ glued' = glued \cup {r} /\ open' = FALSE /\ UNCHANGED file
     \/ writer[w].on = "file" /\ ~open /\ file' = Append(file, r) /\ UNCHANGED <<open, glued>>
  /\ overlapped' = (overlapped \/ Meets(w))
  /\ writer' = [writer EXCEPT ![w] = At("check")]
  /\ UNCHANGED <<trace, recorded, hand, queue, drop_count, thread, stop, alone, tmp, staged,
                 errors, flushing, crashes, forgotten, aged, lost>>

\* Mutant: the exception ends the thread.
ThreadDies == Ended

\* OSError is caught in the loop.
AfterError == Waiting

\* A part of a line at the end of the file.
Torn == IF open THEN file ELSE Append(file, 0)
Tear(w) == writer[w].pc = "append" /\ writer[w].on = "file" /\ file' = Torn /\ open' = TRUE

\* OSError: nothing written, or a part of the line.
AppendFails(w) ==
  /\ writer[w].pc \in {"write", "append"} /\ errors < MaxErrors
  /\ UNCHANGED <<file, open>> \/ Tear(w)
  /\ errors' = errors + 1
  /\ writer' = [writer EXCEPT ![w] = AfterError]
  /\ UNCHANGED <<trace, recorded, hand, queue, drop_count, thread, stop, alone, tmp, staged,
                 flushing, crashes, history>>

\* Mutant: the file is left to grow.
NeverTooLarge(f) == FALSE

TooLarge(f) == Bytes(f) > FileBytes

\* The size of the file ...
CheckSize(w) ==
  /\ writer[w].pc = "check"
  /\ writer' = [writer EXCEPT ![w] = IF TooLarge(file) THEN At("snapshot") ELSE Waiting]
  /\ UNCHANGED <<trace, recorded, hand, queue, drop_count, thread, stop, alone, fileVars,
                 errors, flushing, crashes, history>>

\* Mutant: the snapshot lacks the oldest record of a full memory.
ShortSnapshot(w) ==
  /\ writer[w].pc = "snapshot"
  /\ writer' = [writer EXCEPT ![w] = [At("rewrite") EXCEPT !.snap = Tail_(trace, TraceLimit - 1)]]
  /\ overlapped' = (overlapped \/ Meets(w))
  /\ UNCHANGED <<trace, recorded, hand, queue, drop_count, thread, stop, alone, fileVars,
                 errors, flushing, crashes, forgotten, aged, glued, lost>>

\* ... and _trace_snapshot, under the manager's lock.
TraceSnapshot(w) ==
  /\ writer[w].pc = "snapshot"
  /\ writer' = [writer EXCEPT ![w] = [At("rewrite") EXCEPT !.snap = trace]]
  /\ overlapped' = (overlapped \/ Meets(w))
  /\ UNCHANGED <<trace, recorded, hand, queue, drop_count, thread, stop, alone, fileVars,
                 errors, flushing, crashes, forgotten, aged, glued, lost>>

\* rewrite_jsonl: the .tmp file is created, or emptied ...
OpenTmp(w) ==
  /\ writer[w].pc = "rewrite"
  /\ writer' = [writer EXCEPT ![w] = [@ EXCEPT !.pc = "fill", !.on = "tmp"]]
  /\ tmp' = <<>> /\ staged' = TRUE
  /\ UNCHANGED <<trace, recorded, hand, queue, drop_count, thread, stop, alone, file, open,
                 errors, flushing, crashes, history>>

\* The lines of f after s has been written over them from the start; a line that is cut
\* cannot be decoded.
Overlay(s, f) ==
  LET left == {i \in DOMAIN f : Bytes(SubSeq(f, 1, i)) > Bytes(s)}
      k == CHOOSE i \in left : \A j \in left : i <= j
      cut == IF Bytes(SubSeq(f, 1, k - 1)) = Bytes(s) THEN f[k] ELSE 0
  IN  IF left = {} THEN s ELSE Append(s, cut) \o SubSeq(f, k + 1, Len(f))

\* What the writer has open gets these lines.
Put(w, s) ==
  \/ writer[w].on = "tmp" /\ tmp' = Overlay(s, tmp) /\ UNCHANGED <<file, open>>
  \/ /\ writer[w].on = "file" /\ file' = Overlay(s, file) /\ UNCHANGED tmp
     /\ open' = (open /\ Bytes(s) < Bytes(file))
  \/ writer[w].on = "gone" /\ UNCHANGED <<file, open, tmp>>

\* ... filled from the snapshot ...
Fill(w) ==
  /\ writer[w].pc = "fill"
  /\ Put(w, writer[w].snap)
  /\ writer' = [writer EXCEPT ![w] = [@ EXCEPT !.pc = "rename", !.on = "gone"]]
  /\ UNCHANGED <<trace, recorded, hand, queue, drop_count, thread, stop, alone, staged,
                 errors, flushing, crashes, history>>

\* What others have open, once the .tmp file is the trace file.
Renamed(slot) ==
  [slot EXCEPT !.on = IF slot.on = "tmp" THEN "file" ELSE "gone"]

\* ... and renamed over the trace file.
Rename(w) ==
  /\ writer[w].pc = "rename" /\ staged
  /\ file' = tmp /\ open' = FALSE
  /\ tmp' = <<>> /\ staged' = FALSE
  /\ aged' = aged \cup (ToSet(file) \ (ToSet(tmp) \cup ToSet(trace)))
  /\ overlapped' = (overlapped \/ \E v \in Writers : writer[v].pc = "append")
  /\ writer' = [v \in Writers |-> IF v = w THEN Waiting ELSE Renamed(writer[v])]
  /\ UNCHANGED <<trace, recorded, hand, queue, drop_count, thread, stop, alone, errors,
                 flushing, crashes, forgotten, glued, lost>>

\* OSError: of stat, mkdir, open, write (after some lines) or rename; another writer may
\* have renamed the file this one would rename.
RewriteFails(w) ==
  /\ \/ errors < MaxErrors /\ writer[w].pc \in {"check", "rewrite", "fill", "rename"}
     \/ writer[w].pc = "rename" /\ ~staged
  /\ \/ UNCHANGED <<file, open, tmp>>
     \/ /\ writer[w].pc = "fill"
        /\ \E n \in 1..Len(writer[w].snap) : Put(w, SubSeq(writer[w].snap, 1, n))
  /\ errors' = errors + 1
  /\ writer' = [writer EXCEPT ![w] = AfterError]
  /\ UNCHANGED <<trace, recorded, hand, queue, drop_count, thread, stop, alone, staged,
                 flushing, crashes, history>>

-----------------------------------------------------------------------------
(* flush, stop, reset_counters, restart *)

Flush ==
  /\ ~flushing
  /\ IF thread THEN UNCHANGED <<writer, thread>>
               ELSE Idle # {} /\ writer' = Launched /\ thread' = TRUE
  /\ flushing' = TRUE
  /\ UNCHANGED <<trace, recorded, hand, queue, drop_count, stop, alone, fileVars, errors,
                 crashes, history>>

FlushReturn ==
  /\ flushing /\ queue = <<>> /\ Pending = {}
  /\ flushing' = FALSE
  /\ UNCHANGED <<trace, recorded, hand, queue, drop_count, thread, stop, alone, writer,
                 fileVars, errors, crashes, history>>

\* stop(), at the end of shutdown: the flag, which nothing clears ...
Stop ==
  /\ thread /\ stop = "no"
  /\ stop' = "join"
  /\ UNCHANGED <<trace, recorded, hand, queue, drop_count, thread, alone, writer, fileVars,
                 errors, flushing, crashes, history>>

\* ... and the end of the join, after the thread's end or two seconds.
Joined ==
  /\ stop = "join"
  /\ stop' = "done" /\ thread' = FALSE
  /\ UNCHANGED <<trace, recorded, hand, queue, drop_count, alone, writer, fileVars, errors,
                 flushing, crashes, history>>

\* reset_counters, at every installation and reset.
ResetCounters ==
  /\ drop_count > 0
  /\ drop_count' = 0 /\ forgotten' = forgotten + drop_count
  /\ UNCHANGED <<trace, recorded, hand, queue, thread, stop, alone, writer, fileVars,
                 errors, flushing, crashes, aged, glued, lost, overlapped>>

\* Unwritten: in a producer's hand, in the queue or being written.
Unwritten ==
  (ToSet(queue) \cup {hand[p] : p \in Producers}
     \cup {writer[w].rec : w \in {v \in Writers : writer[v].pc \in {"write", "append"}}}) \ {0}

\* The records of the lines that can be decoded.
Decoded(s) ==
  LET upTo[i \in 0..Len(s)] ==
        IF i = 0 THEN <<>> ELSE IF s[i] = 0 THEN upTo[i - 1] ELSE Append(upTo[i - 1], s[i])
  IN  upTo[Len(s)]

\* The daemon dies, perhaps in the middle of a line, and starts again: read_jsonl_tail.
Crash ==
  /\ crashes < MaxCrashes
  /\ crashes' = crashes + 1
  /\ UNCHANGED <<file, open>> \/ \E w \in Writers : Tear(w)
  /\ trace' = Decoded(Tail_(file', TraceLimit))
  /\ lost' = lost \cup Unwritten
  /\ hand' = [p \in Producers |-> 0] /\ queue' = <<>>
  /\ forgotten' = forgotten + drop_count /\ drop_count' = 0
  /\ writer' = StartOf /\ thread' = TRUE /\ stop' = "no" /\ alone' = {}
  /\ flushing' = FALSE
  /\ UNCHANGED <<recorded, tmp, staged, errors, aged, glued, overlapped>>

-----------------------------------------------------------------------------
Init ==
  /\ trace = <<>> /\ recorded = 0 /\ hand = [p \in Producers |-> 0] /\ queue = <<>>
  /\ drop_count = 0 /\ thread = TRUE /\ stop = "no" /\ alone = {} /\ writer = StartOf
  /\ file = <<>> /\ open = FALSE /\ errors = 0 /\ flushing = FALSE /\ crashes = 0
  /\ tmp = <<>> /\ staged = FALSE
  /\ forgotten = 0 /\ aged = {} /\ glued = {} /\ lost = {} /\ overlapped = FALSE

WriterStep(w) ==
  \/ Pop(w) \/ End(w) \/ OpenFile(w) \/ AppendRecord(w) \/ AppendFails(w)
  \/ CheckSize(w) \/ TraceSnapshot(w) \/ OpenTmp(w) \/ Fill(w) \/ Rename(w)
  \/ RewriteFails(w)

Next ==
  \/ \E p \in Producers : Record(p) \/ FindNone(p) \/ Enqueue(p)
  \/ \E w \in Writers : WriterStep(w)
  \/ Flush \/ FlushReturn \/ Stop \/ Joined \/ ResetCounters \/ Crash

Spec == Init /\ [][Next]_vars

\* The writer threads run, and so does the caller of flush, which wakes every 100 ms.
FairSpec ==
  /\ Spec
  /\ \A w \in Writers : WF_vars(WriterStep(w))
  /\ WF_vars(FlushReturn)

-----------------------------------------------------------------------------
(* Properties *)

Labels == {"ended", "wait", "write", "append", "check", "snapshot", "rewrite", "fill", "rename"}
Slots(n) == [pc : Labels, rec : 0..n, snap : Seq(1..n), on : {"file", "tmp", "gone"}]

\* Memory and the queue keep their limits, counting a single record of any size as allowed;
\* only the last line of the file can lack its newline.
TypeOK ==
  /\ recorded \in 0..MaxRecords
  /\ trace \in Seq(1..recorded) /\ Len(trace) <= TraceLimit
  /\ queue \in Seq(1..recorded) /\ Len(queue) <= QueueLimit
  /\ Len(queue) > 1 => Bytes(queue) <= QueueBytes
  /\ file \in Seq(0..recorded) /\ open \in BOOLEAN
  /\ open => file # <<>> /\ Last(file) = 0
  /\ hand \in [Producers -> 0..recorded] /\ alone \subseteq Producers
  /\ writer \in [Writers -> Slots(recorded)]
  /\ tmp \in Seq(0..recorded) /\ staged \in BOOLEAN
  /\ thread \in BOOLEAN /\ stop \in {"no", "join", "done"} /\ flushing \in BOOLEAN
  /\ drop_count \in Nat /\ forgotten \in Nat /\ errors \in Nat /\ crashes \in Nat
  /\ aged \subseteq 0..recorded /\ glued \subseteq 1..recorded /\ lost \subseteq 1..recorded
  /\ overlapped \in BOOLEAN

\* No record disappears unnoticed: one that is neither in the file nor on its way there was
\* left out by a rewrite when memory did not hold it any more, was unwritten at a crash, or is
\* counted among the drops and write errors that health and trace metrics report.  A record is glued to an
\* undecodable line only after a write error or a crash, each of which costs one.  The
\* exception is a rewrite that overlaps with another writer thread: its snapshot, or the .tmp
\* file they share, may lack what the other has written meanwhile.
Missing == (1..recorded) \ (ToSet(file) \cup Unwritten \cup aged \cup glued \cup lost)
LossesCounted ==
  /\ overlapped \/ Cardinality(Missing) <= drop_count + forgotten + errors
  /\ Cardinality(glued) <= errors + crashes

\* Memory and queue keep their limits (TypeOK), and the file does not outgrow its: where no
\* write failed and no crash came between, a file over the limit holds no more than memory
\* does, or a writer is about to rewrite it, also when stop() left a writer behind and
\* another was started.
FileBounded ==
  /\ TypeOK
  /\ \/ Bytes(file) <= FileBytes
     \/ Len(file) <= TraceLimit
     \/ \E w \in Writers : writer[w].pc \in {"check", "snapshot"} \/ Rewriting(w)
     \/ errors + crashes > 0

-----------------------------------------------------------------------------
(* Strengthenings that make the safety properties inductive.               *)

\* While no rewrite has met another writer, there is one rewrite at a time, its snapshot holds
\* what file and memory have in common, and everybody writes to what he opened.
MeetInv ==
  overlapped \/
  /\ \A v, w \in Writers : Rewriting(v) /\ Rewriting(w) => v = w
  /\ \A w \in Writers :
       /\ Rewriting(w) => ToSet(file) \cap ToSet(trace) \subseteq ToSet(writer[w].snap)
       /\ writer[w].pc = "append" => writer[w].on = "file"
       /\ writer[w].pc = "fill" => writer[w].on = "tmp" /\ tmp = <<>>
       /\ writer[w].pc = "rename" => tmp = writer[w].snap

\* While nothing has failed: a writer alone with the .tmp file renames its snapshot; where two
\* met in it, there are more of them than files to rename, and one will fail.
Staging(w) == writer[w].pc \in {"fill", "rename"}
StageInv ==
  \/ errors + crashes > 0
  \/ \A w \in Writers : ~Staging(w)
  \/ ~staged
  \/ \E v, w \in Writers : v # w /\ Staging(v) /\ Staging(w)
  \/ \A w \in Writers :
       /\ writer[w].pc = "fill" => writer[w].on = "tmp" /\ tmp = <<>>
       /\ writer[w].pc = "rename" => Len(tmp) <= TraceLimit

\* A line that lacks its newline can glue one record, once.
GluedInv == Cardinality(glued) + (IF open THEN 1 ELSE 0) <= errors + crashes

-----------------------------------------------------------------------------
\* flush() returns, unless every writer has ended after stop(): the flag is still set, and
\* what is queued afterwards waits for a producer that finds no thread, if there is one.
WritersGone == stop # "no" /\ \A w \in Writers : writer[w].pc = "ended"
FlushReturns == flushing ~> (~flushing \/ WritersGone)

=============================================================================
