--------------------------- MODULE TranscriptTail ---------------------------
(***************************************************************************)
(* One tailed session of the observer: the watcher that reads complete     *)
(* lines of a transcript, the deduplicator, the bounded queue, the batch   *)
(* that is with the handler and the committed cursor                       *)
(* (apps/observer/src/tailing).  Lines are numbered in the order they are  *)
(* written; offsets are counted in lines of the current file.  A partial   *)
(* line is one that is not in the file yet.                                *)
(***************************************************************************)
EXTENDS Integers, Sequences, FiniteSets, SequencesExt

CONSTANTS MaxLines, MaxRotations, MaxRestarts,  \* bounds of the environment
          Capacity, HighWater, LowWater, BatchSize

ASSUME TailAssumption ==
  /\ {MaxLines, MaxRotations, MaxRestarts, LowWater} \subseteq Nat
  /\ {Capacity, HighWater, BatchSize} \subseteq Nat \ {0}
  /\ LowWater < HighWater /\ HighWater <= Capacity

VARIABLES
  file,      \* the lines of the file at transcriptPath
  written,   \* how many lines were ever written
  gen,       \* how often the file was rotated
  watcher,   \* fileReadOffset, committedOffset, currentSequence, the identity probed last
  reading,   \* the read that is awaited: where it started and the lines it got
  pump,      \* pumpSession is due: after an attach and after a "resume"
  known,     \* the deduplicator: texts and positions it remembers
  pending,   \* the queue
  full,      \* the queue's backpressure flag
  batch,     \* the batch the handler has, empty when none is in flight
  cursor,    \* the cursor in the database
  fate,      \* history: lines acknowledged, dead-lettered, refused, unacknowledged
  handed,    \* history: the lines given to the handler since the last attach
  skewed,    \* history: lines were numbered from where they were not read
  restarts

tailVars == <<file, written, gen, watcher, reading, pump, known, pending, full,
              batch, cursor, fate, handed, skewed, restarts>>
envVars == <<file, written, gen, restarts>>

NoRead == [from |-> -1, lines |-> <<>>, limit |-> 0]
Fates == {"acked", "dead", "refused", "unacked"}

(* attachSession(): everything but the cursor starts anew.                 *)
Attached(c) == [read |-> c.off, comm |-> c.off, seq |-> c.seq, gen |-> -1]

TailInit ==
  /\ file = <<>> /\ written = 0 /\ gen = 0 /\ restarts = 0
  /\ cursor = [off |-> 0, seq |-> 0]
  /\ watcher = Attached(cursor)
  /\ reading = NoRead /\ pump = TRUE
  /\ known = [texts |-> {}, places |-> {}]
  /\ pending = <<>> /\ full = FALSE /\ batch = <<>>
  /\ fate = [f \in Fates |-> {}]
  /\ handed = <<>> /\ skewed = FALSE

Lines(records) == {records[i].line : i \in DOMAIN records}

-----------------------------------------------------------------------------
(* The harness appends a line, or rotates the file away.                   *)
TailAppend ==
  /\ written < MaxLines
  /\ written' = written + 1
  /\ file' = Append(file, written + 1)
  /\ UNCHANGED <<gen, restarts, watcher, reading, pump, known, pending, full,
                 batch, cursor, fate, handed, skewed>>

TailRotate ==
  /\ gen < MaxRotations /\ file # <<>>
  /\ gen' = gen + 1
  /\ file' = <<>>
  /\ UNCHANGED <<written, restarts, watcher, reading, pump, known, pending, full,
                 batch, cursor, fate, handed, skewed>>

(* probe(): a new identity sends the reader to the start of the file; the  *)
(* sequence goes on.  The first probe of a watcher only takes note.        *)
Probed ==
  IF watcher.gen \notin {-1, gen} THEN [watcher EXCEPT !.read = 0, !.comm = 0, !.gen = gen]
  ELSE [watcher EXCEPT !.gen = gen]

(* executeRead() up to the read it awaits; a chunk may end anywhere.       *)
ReadFrom(limit) ==
  /\ reading = NoRead
  /\ watcher' = Probed
  /\ IF Len(file) <= watcher'.read THEN UNCHANGED reading
     ELSE \E upto \in watcher'.read + 1 .. Len(file) :
            reading' = [from |-> watcher'.read, limit |-> limit,
                        lines |-> SubSeq(file, watcher'.read + 1, upto)]
  /\ UNCHANGED <<envVars, known, pending, full, batch, cursor, fate, handed, skewed>>

TailPoll == ReadFrom(MaxLines) /\ UNCHANGED pump

(* pumpSession(): a read with a batch size, unless the queue is too long.  *)
(* While another read is awaited readNext returns nothing.                 *)
TailPump ==
  /\ pump
  /\ pump' = FALSE
  /\ \/ Len(pending) < HighWater /\ ReadFrom(BatchSize)
     \/ /\ Len(pending) >= HighWater \/ reading # NoRead
        /\ UNCHANGED <<envVars, watcher, reading, known, pending, full, batch, cursor,
                       fate, handed, skewed>>

(* The records of a read: numbered from committedOffset and                *)
(* currentSequence as they are now, and cut at the batch size.             *)
Records ==
  LET n == IF Len(reading.lines) < reading.limit THEN Len(reading.lines) ELSE reading.limit
  IN [i \in 1..n |-> [line |-> reading.lines[i], off |-> watcher.comm + i,
                      seq |-> watcher.seq + i]]

(* Mutant: only what was committed is remembered.                          *)
MutIsNew(r) == r.off > cursor.off

(* filterNew(): neither the text nor the place may have been seen.         *)
IsNew(r) == r.line \notin known.texts /\ <<r.off, r.seq>> \notin known.places

(* What passes the filter, in its order.                                   *)
Fresh(records) ==
  LET new == {i \in DOMAIN records : IsNew(records[i])}
      Nth(k) == CHOOSE i \in new : Cardinality({j \in new : j <= i}) = k
  IN [k \in 1..Cardinality(new) |-> records[Nth(k)]]

(* Mutant: the queue takes one record too many.                            *)
MutAccepted(q, records) ==
  SubSeq(records, 1, IF Len(q) + Len(records) <= Capacity THEN Len(records)
                     ELSE Capacity - Len(q) + 1)

(* enqueueBatch() with the policy "reject".                                *)
Accepted(q, records) ==
  SubSeq(records, 1, IF Len(q) + Len(records) <= Capacity THEN Len(records)
                     ELSE Capacity - Len(q))

(* dispatchQueue(): the next batch goes to the handler when none is there. *)
(* b is the batch in flight; checkWatermarks runs after every change.      *)
Dispatch(q, b) ==
  LET n == IF b # <<>> THEN 0 ELSE IF Len(q) < BatchSize THEN Len(q) ELSE BatchSize
      taken == SubSeq(q, 1, n)
      wasFull == full \/ Len(q) >= HighWater
  IN /\ pending' = SubSeq(q, n + 1, Len(q))
     /\ batch' = IF n = 0 THEN b ELSE taken
     /\ handed' = handed \o [i \in 1..n |-> taken[i].line]
     /\ full' = (wasFull /\ ~(n > 0 /\ Len(pending') <= LowWater))
     /\ pump' = (pump \/ (wasFull /\ ~full'))

(* executeRead() after the read: positions advance by what was read, then  *)
(* the records are filtered, queued and dispatched.  The copy that         *)
(* readNext returns to pumpSession finds every record already known.       *)
TailRead ==
  /\ reading # NoRead
  /\ LET fresh == Fresh(Records)
         taken == Accepted(pending, fresh)
     IN /\ watcher' = [watcher EXCEPT !.read = @ + Len(reading.lines),
                                      !.comm = @ + Len(Records), !.seq = @ + Len(Records)]
        /\ known' = [texts |-> known.texts \cup Lines(fresh),
                     places |-> known.places \cup {<<r.off, r.seq>> : r \in ToSet(fresh)}]
        /\ fate' = [fate EXCEPT !["refused"] = @ \cup (Lines(fresh) \ Lines(taken))]
        /\ IF fresh = <<>> THEN UNCHANGED <<pending, batch, handed, full, pump>>
           ELSE Dispatch(pending \o taken, batch)
  /\ reading' = NoRead
  /\ skewed' = (skewed \/ reading.from # watcher.comm)
  /\ UNCHANGED <<envVars, cursor>>

(* Mutant: an acknowledgement does not drain the queue.                    *)
MutTailAckStops ==
  /\ batch # <<>>
  /\ LET last == Last(batch)
     IN /\ last.off >= cursor.off /\ last.seq >= cursor.seq
        /\ cursor' = [off |-> last.off, seq |-> last.seq]
        /\ watcher' = [watcher EXCEPT !.read = last.off, !.comm = last.off, !.seq = last.seq]
        /\ fate' = [fate EXCEPT !["acked"] = @ \cup Lines(batch)]
        /\ batch' = <<>>
  /\ UNCHANGED <<envVars, reading, known, skewed, pending, handed, full, pump>>

(* The handler acknowledges its batch: the cursor is committed unless it   *)
(* would regress, the watcher goes back to it, and the queue drains.       *)
TailAck ==
  /\ batch # <<>>
  /\ LET last == Last(batch)
     IN \/ /\ last.off >= cursor.off /\ last.seq >= cursor.seq
           /\ cursor' = [off |-> last.off, seq |-> last.seq]
           /\ watcher' = [watcher EXCEPT !.read = last.off, !.comm = last.off, !.seq = last.seq]
           /\ fate' = [fate EXCEPT !["acked"] = @ \cup Lines(batch)]
           /\ Dispatch(pending, <<>>)
        \/ /\ last.off < cursor.off \/ last.seq < cursor.seq
           /\ fate' = [fate EXCEPT !["unacked"] = @ \cup Lines(batch)]
           /\ batch' = <<>>
           /\ UNCHANGED <<cursor, watcher, pending, handed, full, pump>>
  /\ UNCHANGED <<envVars, reading, known, skewed>>

(* Mutant: a batch that failed is forgotten.                               *)
MutTailThrow ==
  /\ batch # <<>>
  /\ batch' = <<>>
  /\ UNCHANGED <<envVars, watcher, reading, pump, known, pending, full, cursor, fate, handed,
                 skewed>>

(* The handler throws: every record of the batch is dead-lettered.  What   *)
(* is queued waits for the next line or the next resume.                   *)
TailThrow ==
  /\ batch # <<>>
  /\ fate' = [fate EXCEPT !["dead"] = @ \cup Lines(batch)]
  /\ batch' = <<>>
  /\ UNCHANGED <<envVars, watcher, reading, pump, known, pending, full, cursor, handed, skewed>>

(* The observer restarts, or the session is detached and attached again.   *)
TailRestart ==
  /\ restarts < MaxRestarts
  /\ restarts' = restarts + 1
  /\ watcher' = Attached(cursor)
  /\ reading' = NoRead /\ pump' = TRUE
  /\ known' = [texts |-> {}, places |-> {}]
  /\ pending' = <<>> /\ full' = FALSE /\ batch' = <<>>
  /\ handed' = <<>>
  /\ UNCHANGED <<file, written, gen, cursor, fate, skewed>>

TailNext ==
  \/ TailAppend \/ TailRotate \/ TailPoll \/ TailPump \/ TailRead
  \/ TailAck \/ TailThrow \/ TailRestart

TailSpec == TailInit /\ [][TailNext]_tailVars

-----------------------------------------------------------------------------
(* Every variable has its type; the queue and the batch keep their limits. *)
TailTypeOK ==
  /\ ToSet(file) \subseteq 1..written /\ written \in 0..MaxLines /\ gen \in 0..MaxRotations
  /\ watcher \in [read : Nat, comm : Nat, seq : Nat, gen : -1..MaxRotations]
  /\ ToSet(pending) \cup ToSet(batch) \subseteq [line : 1..MaxLines, off : Nat, seq : Nat]
  /\ Len(pending) <= Capacity /\ Len(batch) <= BatchSize
  /\ pump \in BOOLEAN /\ full \in BOOLEAN /\ skewed \in BOOLEAN
  /\ fate \in [Fates -> SUBSET (1..MaxLines)]
  /\ restarts \in 0..MaxRestarts /\ cursor \in [off : Nat, seq : Nat]

(* No line is lost in silence: the committed cursor passes only lines that *)
(* were acknowledged, dead-lettered or refused by the full queue, as long  *)
(* as the file is not rotated and no read was overtaken by a seek.         *)
TailNoSilentLoss ==
  gen = 0 /\ ~skewed =>
    \A i \in 1..cursor.off : file[i] \in fate["acked"] \cup fate["dead"] \cup fate["refused"]

(* The committed cursor never goes back, not even across a rotation or a   *)
(* restart.  As long as the file is not rotated and no read was overtaken, *)
(* a line whose cursor was committed is not handed out again, and between  *)
(* two attaches the handler gets each line at most once and in the order   *)
(* of the file, whatever is read again after a seek.                       *)
TailInOrder ==
  [][ /\ cursor'.off >= cursor.off /\ cursor'.seq >= cursor.seq
      /\ gen = 0 /\ ~skewed' =>
           /\ batch' # batch => Lines(batch') \cap fate["acked"] = {}
           /\ \A i, j \in DOMAIN handed' : i < j => handed'[i] < handed'[j]
    ]_tailVars

(* Every line reaches the handler and is acknowledged, or one of the four  *)
(* known ways out was taken: the queue was full, a batch failed, the file  *)
(* was rotated, a read was overtaken.                                      *)
TailDelivers ==
  []<>(\/ 1..written \subseteq fate["acked"] \cup fate["refused"]
       \/ fate["dead"] # {} \/ gen > 0 \/ skewed)
=============================================================================
