------------------------------- MODULE Capture -------------------------------
(***************************************************************************)
(* The capture sink (bsc-telemetry/capture.rs) and what replay.rs makes of *)
(* its files.  The writer appends each transaction of its bus subscription *)
(* to the active segment as two chunks, a length and a payload, through a  *)
(* compressing encoder, and rotates to a new segment when the old one is   *)
(* due.  The janitor sweeps the directory, file by file, in a task of its  *)
(* own.  Any call on the file system may fail, and the process may die.    *)
(*                                                                         *)
(* Segments are numbered in the order of their creation.  A record is its  *)
(* number on the bus and a chunk has size one.  Time is counted in ticks,  *)
(* of which a second has several: a file is named and a rotation is due    *)
(* after whole seconds, a file's age is finer.                             *)
(***************************************************************************)
EXTENDS Integers, Sequences, SequencesExt, FiniteSetsExt, Sums

CONSTANTS
    RotateSecs,   \* rotate_secs
    Retention,    \* retention_bytes
    MaxAge,       \* max_age
    TicksPerSecond,   \* the resolution of the clock
    LastTick,     \* bound: the last tick on the clock
    MaxRecords,   \* bound: transactions on the bus
    MaxFaults,    \* bound: failing calls on the file system
    MaxRestarts,  \* bound: starts of the process after the first
    MaxSweeps,    \* bound: sweeps of the janitor
    MaxMisread    \* bound: records a reader makes up of bytes out of place

ASSUME CaptureAssumption ==
    /\ RotateSecs \in Nat \ {0} /\ Retention \in Nat /\ MaxAge \in Nat
    /\ RotateSecs <= MaxAge
    /\ TicksPerSecond \in Nat \ {0} /\ LastTick \in Nat
    /\ MaxRecords \in Nat /\ MaxFaults \in Nat
    /\ MaxRestarts \in Nat /\ MaxSweeps \in Nat /\ MaxMisread \in Nat

VARIABLES
    now,      \* SystemTime::now()
    segs,     \* every segment created so far
    dir,      \* the segments that have a name in the directory
    writer,   \* CaptureWriter and the task that runs it
    janitor,  \* run_capture_janitor
    next,     \* the next transaction on the subscription
    faults, restarts, sweeps   \* counters for the bounds

cvars == <<now, segs, dir, writer, janitor, next, faults, restarts, sweeps>>
counters == <<faults, restarts, sweeps>>

\* unix_now(): whole seconds.
UnixNow == now \div TicksPerSecond

Chunks(r) == <<[rec |-> r, part |-> "len"], [rec |-> r, part |-> "payload"]>>

\* A segment: its name (sec, n), what the encoder was given, how much of that is in
\* the file, whether the frame is finished, and the file's mtime.  History: the
\* records acknowledged, how many of them before a chunk went missing, the tick
\* of the last one, and which process opened it.
NewSegment(n, proc) ==
    [sec |-> UnixNow, n |-> n, stream |-> <<>>, disk |-> 0, done |-> FALSE, mtime |-> now,
     acked |-> <<>>, sound |-> 0, torn |-> FALSE, last |-> now, proc |-> proc]

Resting == [pc |-> "idle", todo |-> {}, entries |-> {}, total |-> 0, at |-> 0, failed |-> FALSE]

Down == [pc |-> "down", seg |-> 0, old |-> 0, counter |-> 0, rotate_at |-> 0,
         rec |-> 0, t |-> 0, started |-> 0]

CaptureInit ==
    /\ now = 0
    /\ segs = <<>>
    /\ dir = {}
    /\ writer = Down
    /\ janitor = Resting
    /\ next = 1
    /\ faults = 0 /\ restarts = 0 /\ sweeps = 0

\* One more call fails.
Fails == faults < MaxFaults /\ faults' = faults + 1

-----------------------------------------------------------------------------
(* open_segment.                                                           *)

\* Mutant: the name is the second alone.
NumberNone == 0

\* segment_path's counter starts again at 0 with the process.
Number == writer.counter

\* The segment that already has the name, if any.
Namesake(n) == {i \in dir : segs[i].sec = UnixNow /\ segs[i].n = n}

\* create + truncate: a file of that name is emptied, otherwise one is created.
\* The segment becomes the writer's active one.
OpenSegment(w, proc) ==
    LET same == Namesake(Number)
        i == IF same = {} THEN Len(segs) + 1 ELSE CHOOSE j \in same : TRUE
    IN  /\ segs' = IF same = {} THEN Append(segs, NewSegment(Number, proc))
                                ELSE [segs EXCEPT ![i] = NewSegment(Number, proc)]
        /\ dir' = dir \cup {i}
        /\ writer' = [w EXCEPT !.seg = i, !.counter = @ + 1,
                              !.rotate_at = UnixNow + RotateSecs]

\* open fails: segment_path has counted all the same.
OpenFails(w) ==
    /\ Fails
    /\ writer' = [w EXCEPT !.counter = @ + 1]
    /\ UNCHANGED <<segs, dir>>

\* CaptureWriter::open, and the janitor is spawned.  When the directory cannot be
\* opened the whole program ends, so that start changes nothing.
Start ==
    /\ writer.pc = "down"
    /\ restarts <= MaxRestarts
    /\ restarts' = restarts + 1
    /\ OpenSegment([writer EXCEPT !.pc = "idle", !.started = UnixNow], restarts + 1)
    /\ UNCHANGED <<now, janitor, next, faults, sweeps>>

-----------------------------------------------------------------------------
(* run and write_record.                                                   *)

\* Mutant: a segment is due a second late.
DueLate == UnixNow > writer.rotate_at

Due == UnixNow >= writer.rotate_at

\* The bus delivers a transaction; write_record looks at the clock once.
Recv ==
    /\ writer.pc = "idle"
    /\ next <= MaxRecords
    /\ next' = next + 1
    /\ writer' = [writer EXCEPT !.pc = IF Due THEN "rotate" ELSE "append",
                                !.rec = next, !.t = now]
    /\ UNCHANGED <<now, segs, dir, janitor, counters>>

\* RecvError::Lagged: transactions are skipped.
Lagged ==
    /\ writer.pc = "idle"
    /\ next <= MaxRecords
    /\ next' = next + 1
    /\ UNCHANGED <<now, segs, dir, writer, janitor, counters>>

\* An error is logged and the record dropped.
Dropped == [writer EXCEPT !.pc = "idle", !.old = 0, !.rec = 0, !.t = 0]

\* The new segment replaces the old one before the old one is finished.
Rotate ==
    /\ writer.pc = "rotate"
    /\ \/ OpenSegment([writer EXCEPT !.pc = "finish", !.old = writer.seg], restarts)
          /\ UNCHANGED faults
       \/ OpenFails(Dropped)
    /\ UNCHANGED <<now, janitor, next, restarts, sweeps>>

\* The encoder has given d chunks to the file of segment s.
Flushed(s, d) == [s EXCEPT !.disk = d, !.mtime = IF d > s.disk THEN now ELSE @]

\* old.encoder.finish(): the rest of the stream and the frame's end are written, or
\* an error leaves a part of it.
Finish(then, otherwise) ==
    LET s == segs[writer.old]
    IN  \/ /\ segs' = [segs EXCEPT ![writer.old] =
                  [Flushed(s, Len(s.stream)) EXCEPT !.done = TRUE, !.mtime = now]]
           /\ writer' = then
           /\ UNCHANGED faults
        \/ /\ Fails
           /\ \E d \in s.disk..Len(s.stream) :
                  segs' = [segs EXCEPT ![writer.old] = Flushed(s, d)]
           /\ writer' = otherwise

FinishOld ==
    /\ writer.pc = "finish"
    /\ Finish([writer EXCEPT !.pc = "append", !.old = 0], Dropped)
    /\ UNCHANGED <<now, dir, janitor, next, restarts, sweeps>>

\* Mutant: the payload goes to the encoder before its length.
GivenReversed(r, k) == SubSeq(Reverse(Chunks(r)), 1, k)

\* The first k chunks of a record.
Given(r, k) == SubSeq(Chunks(r), 1, k)

\* Both chunks are written, or an error stops after fewer; a part of what the
\* encoder holds may reach the file either way.
AppendRecord ==
    LET s == segs[writer.seg]
        r == writer.rec
    IN  /\ writer.pc = "append"
        /\ \E k \in 0..2 :
             LET stream == s.stream \o Given(r, k)
             IN  /\ IF k = 2 THEN UNCHANGED faults ELSE Fails
                 /\ \E d \in s.disk..Len(stream) :
                      segs' = [segs EXCEPT ![writer.seg] =
                        [Flushed(s, d) EXCEPT
                           !.stream = stream,
                           !.acked = IF k = 2 THEN Append(@, r) ELSE @,
                           !.sound = IF k = 2 /\ ~s.torn THEN @ + 1 ELSE @,
                           !.torn = @ \/ k = 1,
                           !.last = IF k = 2 THEN writer.t ELSE @]]
        /\ writer' = Dropped
        /\ UNCHANGED <<now, dir, janitor, next, restarts, sweeps>>

\* Shutdown: the loop ends, and finalize opens a placeholder to finish the old one.
Finalize ==
    /\ writer.pc = "idle"
    /\ \/ OpenSegment([writer EXCEPT !.pc = "last", !.old = writer.seg], restarts)
          /\ UNCHANGED faults
       \/ OpenFails([writer EXCEPT !.pc = "over"])
    /\ UNCHANGED <<now, janitor, next, restarts, sweeps>>

FinishLast ==
    /\ writer.pc = "last"
    /\ Finish([writer EXCEPT !.pc = "over"], [writer EXCEPT !.pc = "over"])
    /\ UNCHANGED <<now, dir, janitor, next, restarts, sweeps>>

\* The process ends, 500 ms after the shutdown or at any other moment.  What the
\* encoder holds is gone; the janitor stops where it is.
Ends ==
    /\ writer.pc # "down"
    /\ writer' = Down
    /\ janitor' = Resting
    /\ UNCHANGED <<now, segs, dir, next, counters>>

-----------------------------------------------------------------------------
(* sweep_directory.                                                        *)

Entry(i) == [seg |-> i, len |-> segs[i].disk, mtime |-> segs[i].mtime]
Size(entries) == SumOf([e \in entries |-> e.len], entries)

\* The ticker's next tick, as long as there was no shutdown.
SweepStart ==
    /\ writer.pc \notin {"down", "last", "over"}
    /\ janitor.pc = "idle"
    /\ sweeps < MaxSweeps
    /\ sweeps' = sweeps + 1
    /\ janitor' = [Resting EXCEPT !.pc = "stat", !.todo = dir]
    /\ UNCHANGED <<now, segs, dir, writer, next, faults, restarts>>

\* One directory entry's metadata; an error ends the sweep.
SweepStat ==
    /\ janitor.pc = "stat"
    /\ \E i \in janitor.todo :
         \/ /\ janitor' = [janitor EXCEPT !.todo = @ \ {i}, !.entries = @ \cup {Entry(i)}]
            /\ UNCHANGED faults
         \/ Fails /\ janitor' = Resting
    /\ UNCHANGED <<now, segs, dir, writer, next, restarts, sweeps>>

\* All are known: the clock is read, and the loop over the entries begins.
SweepTime ==
    /\ janitor.pc = "stat" /\ janitor.todo = {}
    /\ janitor' = [janitor EXCEPT !.pc = "age", !.todo = janitor.entries, !.at = now]
    /\ UNCHANGED <<now, segs, dir, writer, next, counters>>

\* remove_file, whose error is ignored.
Removed(e) ==
    \/ dir' = dir \ {e.seg} /\ UNCHANGED faults
    \/ Fails /\ UNCHANGED dir

\* is_ok_and(|d| d > max_age): the clock's resolution, not whole seconds.
TooOld(e) == janitor.at - e.mtime > MaxAge * TicksPerSecond

\* A file that is too old is removed, the others are added up.
SweepAge ==
    /\ janitor.pc = "age"
    /\ \E e \in janitor.todo :
         IF TooOld(e)
         THEN /\ Removed(e)
              /\ janitor' = [janitor EXCEPT !.todo = @ \ {e}, !.failed = @ \/ e.seg \in dir']
         ELSE /\ janitor' = [janitor EXCEPT !.todo = @ \ {e}, !.total = @ + e.len]
              /\ UNCHANGED <<dir, faults>>
    /\ UNCHANGED <<now, segs, writer, next, restarts, sweeps>>

\* Mutant: the most recent file goes first.
EvictNewest(todo) == {e \in todo : \A f \in todo : f.mtime <= e.mtime}

\* surviving.sort_by_key(mtime): the oldest goes first.
EvictFirst(todo) == {e \in todo : \A f \in todo : e.mtime <= f.mtime}

SweepSort ==
    /\ janitor.pc = "age" /\ janitor.todo = {}
    /\ janitor' = [janitor EXCEPT !.pc = "evict",
                                  !.todo = {e \in janitor.entries : e.seg \in dir}]
    /\ UNCHANGED <<now, segs, dir, writer, next, counters>>

\* Whether it was removed or not, a file's size is taken off the total.
SweepEvict ==
    /\ janitor.pc = "evict"
    /\ janitor.total > Retention
    /\ \E e \in EvictFirst(janitor.todo) :
         /\ Removed(e)
         /\ janitor' = [janitor EXCEPT !.todo = @ \ {e}, !.failed = @ \/ e.seg \in dir',
                                       !.total = IF @ > e.len THEN @ - e.len ELSE 0]
    /\ UNCHANGED <<now, segs, writer, next, restarts, sweeps>>

SweepEnds ==
    /\ janitor.pc = "evict"
    /\ janitor.total <= Retention \/ janitor.todo = {}
    /\ janitor' = Resting
    /\ UNCHANGED <<now, segs, dir, writer, next, counters>>

ClockTick ==
    /\ now < LastTick
    /\ now' = now + 1
    /\ UNCHANGED <<segs, dir, writer, janitor, next, counters>>

CaptureNext ==
    \/ Start \/ Recv \/ Lagged \/ Rotate \/ FinishOld \/ AppendRecord
    \/ Finalize \/ FinishLast \/ Ends
    \/ SweepStart \/ SweepStat \/ SweepTime \/ SweepAge \/ SweepSort \/ SweepEvict \/ SweepEnds
    \/ ClockTick

CaptureSpec == CaptureInit /\ [][CaptureNext]_cvars

-----------------------------------------------------------------------------
(* ReplayReader over the file of a segment.                                *)

OnDisk(s) == SubSeq(s.stream, 1, s.disk)

\* The pairs next_record reads before anything else than a length and its payload.
Pairs(s) ==
    {k \in 0..(s.disk \div 2) :
        \A j \in 1..k : \E r \in 1..MaxRecords :
            SubSeq(s.stream, 2 * j - 1, 2 * j) = Chunks(r)}

\* The records it returns up to there.
Found(s) == [j \in 1..Max(Pairs(s)) |-> s.stream[2 * j].rec]

\* Bytes that do not begin where a record does may decode as records of any content:
\* next_record does not compare what the decoder consumed with the length it read.
\* 0 is a record the bus never had.
Misread == UNION {[1..n -> 0..MaxRecords] : n \in 0..MaxMisread}

Outcomes == {"none", "truncated", "undecodable"}

\* What read_all may return: the records and how it ends, Ok(None) when no further length
\* can be read (be the frame finished or not), TruncatedPayload or DecodeSerde.  A
\* length alone is truncated; what follows in its place is read as a payload.
Replays(s) ==
    LET found == Found(s)
        rest == s.disk - 2 * Len(found)
    IN  IF rest < 2
        THEN {[recs |-> found, end |-> IF rest = 0 THEN "none" ELSE "truncated"]}
        ELSE {p \in [recs : {found \o g : g \in Misread}, end : Outcomes] :
                 p.end = "none" => p.recs # found}

-----------------------------------------------------------------------------
(* Properties                                                              *)

\* Types of the capture's state.
CaptureTypeOK ==
    /\ now \in 0..LastTick
    /\ dir \subseteq DOMAIN segs
    /\ \A i \in DOMAIN segs : segs[i].disk \in 0..Len(segs[i].stream)
    /\ writer.seg \in 0..Len(segs)
    /\ writer.pc \in {"down", "idle", "rotate", "finish", "append", "last", "over"}
    /\ janitor.pc \in {"idle", "stat", "age", "evict"}
    /\ {e.seg : e \in janitor.entries} \subseteq DOMAIN segs

\* replay.rs, next_record against capture.rs, write_record: whatever fails and
\* whenever the process dies, a reader returns the records that write_record reported
\* as written in their order, as far as they are in the file, up to the first record
\* whose payload did not follow its length.  Only behind such a record may it return
\* anything else or fail to decode; without one a finished segment replays exactly
\* what was acknowledged and ends cleanly.
ReplayMatchesAcked ==
    \A i \in dir : \A p \in Replays(segs[i]) :
        LET s == segs[i]
        IN  /\ \A j \in DOMAIN p.recs : j <= s.sound => p.recs[j] = s.acked[j]
            /\ ~s.torn => IsPrefix(p.recs, s.acked) /\ p.end # "undecodable"
            /\ s.done => Len(p.recs) >= s.sound
            /\ s.done /\ ~s.torn => p.recs = s.acked /\ p.end = "none"

\* capture.rs, open_segment's truncate(true): records in the directory are
\* overwritten only by a later process, and only those of a segment named in the
\* very second that process was started; within a process neither a rotation nor
\* the placeholder of finalize hits a name in use.
TruncationNeedsFastRestart ==
    [][\A i \in dir : segs[i].acked # <<>> /\ segs'[i].acked = <<>> =>
           segs[i].proc < restarts' /\ segs[i].sec = writer'.started]_cvars

\* capture.rs, sweep_directory: when a sweep of which no removal failed ends, the
\* files it saw and kept fit the retention, and each one it evicted for its size
\* would not have fitted together with those modified at the same time or later.
EvictsOldestExactly ==
    [][janitor.pc = "evict" /\ janitor'.pc = "idle" /\ ~janitor.failed /\ restarts' = restarts
          /\ writer'.pc # "down"
       => /\ Size({e \in janitor.entries : e.seg \in dir}) <= Retention
          /\ \A e \in janitor.entries :
               e.seg \notin dir /\ ~TooOld(e) =>
                 Size({f \in janitor.entries : f.mtime >= e.mtime}) > Retention]_cvars

\* capture.rs, write_record's rotation and sweep_directory's age rule: although the
\* encoder holds records back and the file's mtime with them, and although rotations
\* count whole seconds and ages do not, a file removed for its age has no record
\* written within max_age - rotate_secs of the sweep.
AgeSparesRecent ==
    [][\A i \in dir \ dir' :
         janitor.pc = "age" =>
             janitor.at - segs[i].last > (MaxAge - RotateSecs) * TicksPerSecond]_cvars
=============================================================================
