------------------------------- MODULE JobLog -------------------------------
(***************************************************************************)
(* The log of one background job of the runner (JobLogRing and             *)
(* BackgroundJob of src/python/colab_runner.py): two streams write into a  *)
(* ring bounded in bytes, the watcher ends the job when the process and    *)
(* both streams have ended, and a controller follows the log by cursor     *)
(* with tail_job. The runner is one asyncio loop and none of these         *)
(* functions awaits inside, so each is one step. The ring of the fake      *)
(* runner (JobLogRing of src/fake-runner.ts) is the same, statement by     *)
(* statement.                                                              *)
(*                                                                         *)
(* A log event keeps its cursor, stream and size; what it says is left     *)
(* out, except the byte count of a log_dropped marker.                     *)
(***************************************************************************)
EXTENDS Integers, SequencesExt

CONSTANTS
  MaxBytes,        \* max_log_bytes of start_job
  MaxEventBytes,   \* max_event_bytes()
  MarkerBytes,     \* size of a log_dropped text
  CharBytes,       \* most bytes of one character
  ReadBytes,       \* most bytes of text in one read of a stream
  TailBytes,       \* max_bytes of tail_job
  MaxOutput        \* bound on the bytes the job writes

ASSUME SizesAssumption ==
  /\ {MaxBytes, MaxEventBytes, MarkerBytes, CharBytes, ReadBytes, TailBytes}
       \subseteq Nat \ {0}
  /\ CharBytes <= MaxEventBytes
ASSUME MaxOutputAssumption == MaxOutput \in Nat

VARIABLES
  ring,         \* events: the events kept, oldest first; next: next_cursor;
                \* counted: bytes all markers so far said were dropped (history)
  streams,      \* the streams that have not reached their end
  process,      \* the direct child: "alive" or "dead"
  status,       \* of the job
  interrupted,  \* interrupted_at is set
  reader,       \* the controller: cursor, what it received and knows it missed
  written       \* bytes written by the job so far (history)

vars == <<ring, streams, process, status, interrupted, reader, written>>

OutputStreams == {"stdout", "stderr"}
Events == [cursor : Nat \ {0}, stream : OutputStreams \cup {"log_dropped"}, bytes : Nat]

Init ==
  /\ ring = [events |-> <<>>, next |-> 1, counted |-> 0]
  /\ streams = OutputStreams
  /\ process = "alive"
  /\ status = "running"
  /\ interrupted = FALSE
  /\ reader = [cursor |-> 0, seen |-> {}, missed |-> {}, done |-> FALSE]
  /\ written = 0

-----------------------------------------------------------------------------
(* The ring.                                                                *)

\* The sum of the first i sizes, for every i.
Sums(sizes) ==
  LET sum[i \in 0..Len(sizes)] == IF i = 0 THEN 0 ELSE sum[i - 1] + sizes[i]
  IN sum
Total(sizes) == Sums(sizes)[Len(sizes)]

BytesOf(events) == Total([i \in 1..Len(events) |-> events[i].bytes])

\* Without the markers: the bytes the job wrote.
OutputOf(events) ==
  Total([i \in 1..Len(events) |->
           IF events[i].stream = "log_dropped" THEN 0 ELSE events[i].bytes])

\* How many of the oldest events must go: all but one at most.
Excess(events) ==
  Min({n \in 0..Len(events) - 1 :
         \/ BytesOf(SubSeq(events, n + 1, Len(events))) <= MaxBytes
         \/ n = Len(events) - 1})

WithoutExcess(events) == SubSeq(events, Excess(events) + 1, Len(events))

Event(cursor, stream, bytes) == [cursor |-> cursor, stream |-> stream, bytes |-> bytes]

\* Mutant of AddLogDroppedEvent: the marker takes the cursor of the event
\* before it.
AddMarkerSharingCursor(r, dropped) ==
  [events  |-> WithoutExcess(Append(r.events, Event(r.next - 1, "log_dropped", MarkerBytes))),
   next    |-> r.next,
   counted |-> r.counted + dropped]

\* addLogDroppedEvent: the marker goes to the end, and what it pushes out
\* is not counted.
AddLogDroppedEvent(r, dropped) ==
  [events  |-> WithoutExcess(Append(r.events, Event(r.next, "log_dropped", MarkerBytes))),
   next    |-> r.next + 1,
   counted |-> r.counted + dropped]

\* addEvent and compact.
AddEvent(r, stream, bytes) ==
  LET grown   == Append(r.events, Event(r.next, stream, bytes))
      dropped == OutputOf(SubSeq(grown, 1, Excess(grown)))
      kept    == [events  |-> WithoutExcess(grown),
                  next    |-> r.next + 1,
                  counted |-> r.counted]
  IN IF dropped = 0 THEN kept ELSE AddLogDroppedEvent(kept, dropped)

\* add: the pieces of a text, one after the other.
Add(r, stream, pieces) ==
  LET rings[i \in 0..Len(pieces)] ==
        IF i = 0 THEN r ELSE AddEvent(rings[i - 1], stream, pieces[i])
  IN rings[Len(pieces)]

-----------------------------------------------------------------------------
(* tail.                                                                    *)

\* The events after the cursor: they are in the order of their cursors.
Available(r, cursor) ==
  LET old == {i \in DOMAIN r.events : r.events[i].cursor <= cursor}
  IN SubSeq(r.events, Cardinality(old) + 1, Len(r.events))

\* Mutants of Expired: an off-by-one in the oldest cursor that may be asked for,
\* either way.
ExpiredLate(r, cursor)  == r.events # <<>> /\ cursor + 2 < r.events[1].cursor
ExpiredEarly(r, cursor) == r.events # <<>> /\ cursor < r.events[1].cursor

Expired(r, cursor) == r.events # <<>> /\ cursor + 1 < r.events[1].cursor

\* The events of one answer: as many as fit, and always the first.
Returned(r, cursor) ==
  LET a == Available(r, cursor)
  IN SubSeq(a, 1, Max({n \in 0..Len(a) : n <= 1 \/ BytesOf(SubSeq(a, 1, n)) <= TailBytes}))

Truncated(r, cursor) == BytesOf(Available(r, cursor)) > TailBytes

\* Mutant of NextCursor: the cursor of the next event instead of the last one.
NextCursorAhead(r, cursor) ==
  LET events == Returned(r, cursor)
  IN IF events # <<>> THEN events[Len(events)].cursor ELSE Max({cursor, r.next})

NextCursor(r, cursor) ==
  LET events == Returned(r, cursor)
  IN IF events # <<>> THEN events[Len(events)].cursor ELSE Max({cursor, r.next - 1})

-----------------------------------------------------------------------------
(* Steps.                                                                   *)

\* split_utf8_text_by_bytes: the sizes of the pieces of a text. A piece ends
\* before a character that it has no room for.
Pieces ==
  {p \in UNION {[1..n -> 1..MaxEventBytes] : n \in 1..ReadBytes} :
     /\ Total(p) <= ReadBytes
     /\ \A i \in 1..Len(p) - 1 : p[i] + Min({CharBytes, p[i + 1]}) > MaxEventBytes}

Writes(stream, pieces) ==
  /\ written + Total(pieces) <= MaxOutput
  /\ written' = written + Total(pieces)
  /\ ring' = Add(ring, stream, pieces)

\* _read_stream, one read.
ReadStream(stream) ==
  /\ stream \in streams
  /\ \E pieces \in Pieces : Writes(stream, pieces)
  /\ UNCHANGED <<streams, process, status, interrupted, reader>>

\* The end of a stream: nobody holds the other end of the pipe open. A
\* character cut short by it is added as a replacement.
StreamEnds(stream) ==
  /\ stream \in streams
  /\ streams' = streams \ {stream}
  /\ \/ UNCHANGED <<ring, written>>
     \/ \E bytes \in 1..CharBytes : Writes(stream, <<bytes>>)
  /\ UNCHANGED <<process, status, interrupted, reader>>

\* The direct child ends, by itself or by a signal; others may still write.
ProcessEnds ==
  /\ process = "alive"
  /\ process' = "dead"
  /\ UNCHANGED <<ring, streams, status, interrupted, reader, written>>

\* interrupt of a running job, up to its first await.
Interrupt ==
  /\ status = "running"
  /\ ~interrupted
  /\ interrupted' = TRUE
  /\ UNCHANGED <<ring, streams, process, status, reader, written>>

\* Mutant of WatchProcess: the streams are not waited for.
WatchProcessOnly ==
  /\ status = "running"
  /\ process = "dead"
  /\ status' = IF interrupted THEN "interrupted" ELSE "exited"
  /\ UNCHANGED <<ring, streams, process, interrupted, reader, written>>

\* _watch_process.
WatchProcess ==
  /\ status = "running"
  /\ process = "dead"
  /\ streams = {}
  /\ status' = IF interrupted THEN "interrupted" ELSE "exited"
  /\ UNCHANGED <<ring, streams, process, interrupted, reader, written>>

\* tail_job as a controller uses it: from the last next_cursor, until the job
\* has ended and the answer is not truncated. The controller is not part of the
\* repository; after CURSOR_EXPIRED this one goes on at oldest_cursor - 1, since
\* tail returns the events with a greater cursor and the oldest is still there.
TailJob ==
  /\ ~reader.done
  /\ reader' =
       IF Expired(ring, reader.cursor)
       THEN LET oldest == ring.events[1].cursor IN
            [reader EXCEPT !.cursor = oldest - 1,
                           !.missed = @ \cup (reader.cursor + 1)..(oldest - 1)]
       ELSE [cursor |-> NextCursor(ring, reader.cursor),
             seen   |-> reader.seen \cup
                          {e.cursor : e \in Range(Returned(ring, reader.cursor))},
             missed |-> reader.missed,
             done   |-> status # "running" /\ ~Truncated(ring, reader.cursor)]
  /\ UNCHANGED <<ring, streams, process, status, interrupted, written>>

Next ==
  \/ \E stream \in OutputStreams : ReadStream(stream) \/ StreamEnds(stream)
  \/ ProcessEnds \/ Interrupt \/ WatchProcess
  \/ TailJob

Spec == Init /\ [][Next]_vars

\* The event loop runs the watcher once what it awaits is done, and the
\* controller goes on asking. Whether the job ever ends is not promised.
FairSpec == Spec /\ WF_vars(WatchProcess) /\ WF_vars(TailJob)

-----------------------------------------------------------------------------
(* Correctness.                                                             *)

\* Every variable has its type, and the controller's cursor is one it may have.
TypeOK ==
  /\ ring \in [events : Seq(Events), next : Nat \ {0}, counted : Nat]
  /\ streams \subseteq OutputStreams
  /\ process \in {"alive", "dead"}
  /\ status \in {"running", "exited", "interrupted"}
  /\ interrupted \in BOOLEAN
  /\ reader.cursor \in 0..(ring.next - 1)
  /\ reader.seen \subseteq Nat /\ reader.missed \subseteq Nat /\ reader.done \in BOOLEAN
  /\ written \in 0..MaxOutput

\* The ring never holds more than its limit, but for a single event that is
\* larger by itself (_compact and _add_log_dropped_event together).
RingBounded == BytesOf(ring.events) <= MaxBytes \/ Len(ring.events) = 1

\* The cursors kept are consecutive and end at the last one given out, however
\* often events and markers pushed each other out.
CursorsContiguous ==
  \A i \in DOMAIN ring.events : ring.events[i].cursor + Len(ring.events) = ring.next + i - 1

\* A controller that follows the log has received every event up to its
\* cursor, or was told by CURSOR_EXPIRED that it is too late for it.
NoSilentGap == reader.seen \cup reader.missed = 1..reader.cursor

\* Once a controller has read that the job ended and that nothing was cut off,
\* no event it has not read is in the log, nor ever will be.
EndedIsComplete == reader.done => reader.cursor + 1 = ring.next

\* A controller that keeps asking reaches the end of the log of a job that
\* ended, whatever the sizes of the events and of the answers.
FollowerFinishes == status # "running" ~> reader.done

\* What all markers together say was dropped was dropped, and was output: no
\* byte is counted twice, whatever marker pushed out what. (They may say less:
\* what a marker itself pushes out is in no count.)
DropsNotOvercounted == OutputOf(ring.events) + ring.counted <= written
=============================================================================
