------------------------------- MODULE History ------------------------------
(***************************************************************************)
(* Reading the history of one exact view: HistoryCursor::next with its     *)
(* read-ahead queue, clones and dropped calls, and the ordered tail scan   *)
(* (tail_records) of read_tail and verify_tail.  Both end by marking the   *)
(* view's tail verified for the handle that read it, a mark that           *)
(* publish_checkpoint relies on.  Meanwhile a collection may delete the    *)
(* records, since nothing retains the view.                                *)
(***************************************************************************)
EXTENDS Integers, Sequences, FiniteSets, SequencesExt

CONSTANTS
  None,            \* the absent Option
  Handles,         \* Log handles (staging domains) that share the View
  Scanners,        \* the handles that read the tail or publish a checkpoint
  Cursors,         \* history cursors, the clones included
  TailLength,      \* number of commits in the view's tail
  ReadAhead,       \* READ_AHEAD (MAX_CONCURRENT_READS for the scan)
  MaxObjectBytes,  \* Options::max_object_bytes
  MaxCommitBytes,  \* Options::max_commit_bytes
  MaxFaults        \* bound: failed reads and dropped calls

VARIABLES
  bodies,     \* how the checkpoint (0) and each commit were written
  deleted,    \* the ones that a collection has deleted
  collected,  \* the head's collection epoch is past the view's
  verified,   \* View::verified_tail: the handle whose proof was stored first
  cursors,    \* the cursors
  scans,      \* the tail scan of each handle
  seen,       \* commits each handle has authenticated (observer)
  published,  \* handles that went on to publish a checkpoint (observer)
  errors,     \* errors returned to callers (observer)
  faults      \* faults so far

vars == <<bodies, deleted, collected, verified, cursors, scans, seen, published,
          errors, faults>>

store == <<bodies, deleted, collected>>

Commits == 1 .. TailLength

(* handle:  the handle the cursor was created on, None while unused        *)
(* next:    next_commit, the number of commits handed out                  *)
(* reads:   the reads of the window in flight                              *)
(* ready:   results not yet handed out, in order                           *)
(* items:   everything that next() has returned (observer)                 *)
NoCursor == [pc |-> "idle", handle |-> None, checkpointRead |-> FALSE, next |-> 0,
             reads |-> <<>>, ready |-> <<>>, complete |-> FALSE, items |-> <<>>]

NoScan == [pc |-> "idle", next |-> 0, reads |-> <<>>, then |-> None]

Init ==
  /\ bodies \in [0 .. TailLength -> {"ok", "bad"}]
  /\ deleted = {}
  /\ collected = FALSE
  /\ verified = None
  /\ cursors = [c \in Cursors |-> NoCursor]
  /\ scans = [h \in Handles |-> NoScan]
  /\ seen = [h \in Handles |-> {}]
  /\ published = {}
  /\ errors = {}
  /\ faults = 0

-----------------------------------------------------------------------------
(* Log::commit_read_window                                                 *)
AtLeastOne(n) == IF n < 1 THEN 1 ELSE n

ReadWindow(cap) ==
  LET fit == AtLeastOne(MaxObjectBytes \div AtLeastOne(MaxCommitBytes))
  IN IF cap < fit THEN cap ELSE fit

(* The next window of a reader that has handed out n commits.              *)
Window(n) ==
  {i \in Commits : n < i /\ i <= n + ReadWindow(ReadAhead)}

(* read_tail_record_optional: "bad" is a body that fails its digest, its   *)
(* decoding or the link to its declared predecessor.                       *)
Fetch(i) == IF i \in deleted THEN "missing" ELSE bodies[i]

(* missing_read_error: the current head decides what an absence means.     *)
Absence == IF collected THEN "ViewExpired" ELSE "CorruptObject"

CursorBecomes(c, cursor) == cursors' = [cursors EXCEPT ![c] = cursor]

Errs(error) == errors' = errors \cup {error}

Learns(h, i) == seen' = [seen EXCEPT ![h] = @ \cup {i}]

(* Log::remember_tail: OnceLock::set keeps the first proof.                *)
RememberTail(h) == verified' = IF verified = None THEN h ELSE verified

(* Mutation: any handle's proof will do.                                   *)
TailVerifiedByAny(h) == verified # None

(* Log::tail_is_verified                                                   *)
TailIsVerified(h) == verified = h

Fault == faults < MaxFaults /\ faults' = faults + 1

-----------------------------------------------------------------------------
(* history(log, view)                                                      *)
NewCursor(c, h) ==
  /\ cursors[c].handle = None
  /\ CursorBecomes(c, [NoCursor EXCEPT !.handle = h])
  /\ UNCHANGED <<store, verified, scans, seen, published, errors, faults>>

(* Clone for HistoryCursor: a clone starts with an empty read-ahead queue. *)
CloneCursor(c, d) ==
  /\ cursors[c].handle # None /\ cursors[c].pc = "idle"
  /\ cursors[d].handle = None
  /\ CursorBecomes(d, [cursors[c] EXCEPT !.ready = <<>>])
  /\ UNCHANGED <<store, verified, scans, seen, published, errors, faults>>

(* next() begins with the checkpoint; a failed read leaves it to be read   *)
(* again by the next call.                                                 *)
ReadCheckpoint(c) ==
  LET cursor == cursors[c] IN
  /\ cursor.handle # None /\ cursor.pc = "idle"
  /\ ~cursor.complete /\ ~cursor.checkpointRead
  /\ CASE Fetch(0) = "ok" ->
            /\ CursorBecomes(c, [cursor EXCEPT !.checkpointRead = TRUE,
                                               !.items = Append(@, 0)])
            /\ UNCHANGED errors
       [] Fetch(0) = "bad" -> Errs("CorruptObject") /\ UNCHANGED cursors
       [] Fetch(0) = "missing" ->
            CursorBecomes(c, [cursor EXCEPT !.pc = "explain"]) /\ UNCHANGED errors
  /\ UNCHANGED <<store, verified, scans, seen, published, faults>>

(* With an empty queue next() issues the reads of one window (join_all).   *)
StartWindow(c) ==
  LET cursor == cursors[c] IN
  /\ cursor.handle # None /\ cursor.pc = "idle" /\ cursor.checkpointRead
  /\ cursor.next < TailLength /\ cursor.ready = <<>>
  /\ CursorBecomes(c, [cursor EXCEPT !.pc = "reading",
                                     !.reads = [i \in Window(cursor.next) |-> "unread"]])
  /\ UNCHANGED <<store, verified, scans, seen, published, errors, faults>>

ReadOne(c, i) ==
  /\ cursors[c].pc = "reading"
  /\ cursors[c].reads[i] = "unread"
  /\ \/ CursorBecomes(c, [cursors[c] EXCEPT !.reads[i] = Fetch(i)]) /\ UNCHANGED faults
     \/ Fault /\ CursorBecomes(c, [cursors[c] EXCEPT !.reads[i] = "failed"])
  /\ UNCHANGED <<store, verified, scans, seen, published, errors>>

(* All of them are answered: the results become the queue, in order.       *)
FinishWindow(c) ==
  LET cursor == cursors[c] IN
  /\ cursor.pc = "reading"
  /\ \A i \in DOMAIN cursor.reads : cursor.reads[i] # "unread"
  /\ CursorBecomes(c, [cursor EXCEPT !.pc = "idle", !.reads = <<>>,
         !.ready = [k \in 1 .. Cardinality(DOMAIN cursor.reads) |->
                      [commit |-> cursor.next + k,
                       result |-> cursor.reads[cursor.next + k]]]])
  /\ UNCHANGED <<store, verified, scans, seen, published, errors, faults>>

(* next() returns the record at the front of the queue.                    *)
Handed(cursor) ==
  [cursor EXCEPT !.ready = Tail(@), !.next = @ + 1,
                 !.items = Append(@, Head(cursor.ready).commit)]

(* Mutation: an error takes only itself out of the queue.                  *)
TakeKeeping(c) ==
  LET cursor == cursors[c]
      first == Head(cursor.ready)
      rest == [cursor EXCEPT !.ready = Tail(@)]
  IN
  /\ cursor.pc = "idle" /\ cursor.ready # <<>>
  /\ CASE first.result = "ok" ->
            /\ CursorBecomes(c, Handed(cursor))
            /\ Learns(cursor.handle, first.commit)
            /\ UNCHANGED errors
       [] first.result = "missing" ->
            CursorBecomes(c, [rest EXCEPT !.pc = "explain"]) /\ UNCHANGED <<seen, errors>>
       [] OTHER ->
            /\ CursorBecomes(c, rest)
            /\ Errs(IF first.result = "bad" THEN "CorruptObject" ELSE "Store")
            /\ UNCHANGED seen
  /\ UNCHANGED <<store, verified, scans, published, faults>>

(* Mutation: a failed read stays at the front of the queue.                *)
TakePeeking(c) ==
  LET cursor == cursors[c]
      first == Head(cursor.ready)
      cleared == [cursor EXCEPT !.ready = <<>>]
  IN
  /\ cursor.pc = "idle" /\ cursor.ready # <<>>
  /\ CASE first.result = "ok" ->
            /\ CursorBecomes(c, Handed(cursor))
            /\ Learns(cursor.handle, first.commit)
            /\ UNCHANGED errors
       [] first.result = "missing" ->
            CursorBecomes(c, [cleared EXCEPT !.pc = "explain"]) /\ UNCHANGED <<seen, errors>>
       [] OTHER ->
            /\ UNCHANGED cursors
            /\ Errs(IF first.result = "bad" THEN "CorruptObject" ELSE "Store")
            /\ UNCHANGED seen
  /\ UNCHANGED <<store, verified, scans, published, faults>>

(* next() hands out the first result; an error or an absence drops the     *)
(* whole queue, before missing_read_error is awaited.                      *)
Take(c) ==
  LET cursor == cursors[c]
      first == Head(cursor.ready)
      cleared == [cursor EXCEPT !.ready = <<>>]
  IN
  /\ cursor.pc = "idle" /\ cursor.ready # <<>>
  /\ CASE first.result = "ok" ->
            /\ CursorBecomes(c, Handed(cursor))
            /\ Learns(cursor.handle, first.commit)
            /\ UNCHANGED errors
       [] first.result = "missing" ->
            CursorBecomes(c, [cleared EXCEPT !.pc = "explain"]) /\ UNCHANGED <<seen, errors>>
       [] OTHER ->
            /\ CursorBecomes(c, cleared)
            /\ Errs(IF first.result = "bad" THEN "CorruptObject" ELSE "Store")
            /\ UNCHANGED seen
  /\ UNCHANGED <<store, verified, scans, published, faults>>

ExplainAbsence(c) ==
  /\ cursors[c].pc = "explain"
  /\ CursorBecomes(c, [cursors[c] EXCEPT !.pc = "idle"])
  /\ \/ Errs(Absence) /\ UNCHANGED faults
     \/ Fault /\ Errs("Store")
  /\ UNCHANGED <<store, verified, scans, seen, published>>

(* The future of next() is dropped while it waits.                         *)
DropCall(c) ==
  /\ cursors[c].pc \in {"reading", "explain"}
  /\ Fault
  /\ CursorBecomes(c, [cursors[c] EXCEPT !.pc = "idle", !.reads = <<>>])
  /\ UNCHANGED <<store, verified, scans, seen, published, errors>>

(* Nothing is left: the view's tail is verified for this handle.           *)
Complete(c) ==
  LET cursor == cursors[c] IN
  /\ cursor.handle # None /\ cursor.pc = "idle"
  /\ cursor.checkpointRead /\ ~cursor.complete /\ cursor.next = TailLength
  /\ RememberTail(cursor.handle)
  /\ CursorBecomes(c, [cursor EXCEPT !.complete = TRUE])
  /\ UNCHANGED <<store, scans, seen, published, errors, faults>>

CursorStep(c) ==
  \/ \E h \in Handles : NewCursor(c, h)
  \/ \E d \in Cursors : CloneCursor(c, d)
  \/ ReadCheckpoint(c)
  \/ StartWindow(c)
  \/ \E i \in DOMAIN cursors[c].reads : ReadOne(c, i)
  \/ FinishWindow(c)
  \/ Take(c)
  \/ ExplainAbsence(c)
  \/ DropCall(c)
  \/ Complete(c)

-----------------------------------------------------------------------------
ScanBecomes(h, scan) == scans' = [scans EXCEPT ![h] = scan]

(* read_tail always reads; publish_checkpoint scans (verify_tail) only a   *)
(* tail this handle has not verified.                                      *)
StartScan(h, then) ==
  /\ scans[h] = NoScan
  /\ IF then = "publish" /\ TailIsVerified(h)
     THEN published' = published \cup {h} /\ UNCHANGED scans
     ELSE /\ ScanBecomes(h, [NoScan EXCEPT !.pc = "scan", !.then = then])
          /\ UNCHANGED published
  /\ UNCHANGED <<store, verified, cursors, seen, errors, faults>>

(* tail_records: buffered(window) keeps that many reads ahead of the next  *)
(* record to be checked.                                                   *)
ScanRead(h, i) ==
  /\ scans[h].pc = "scan"
  /\ i \in Window(scans[h].next) \ DOMAIN scans[h].reads
  /\ LET reads(result) == [j \in DOMAIN scans[h].reads \cup {i} |->
                             IF j = i THEN result ELSE scans[h].reads[j]]
     IN \/ ScanBecomes(h, [scans[h] EXCEPT !.reads = reads(Fetch(i))]) /\ UNCHANGED faults
        \/ Fault /\ ScanBecomes(h, [scans[h] EXCEPT !.reads = reads("failed")])
  /\ UNCHANGED <<store, verified, cursors, seen, published, errors>>

(* The next record in order: the first error ends the scan.                *)
ScanTake(h) ==
  LET scan == scans[h]
      i == scan.next + 1
  IN
  /\ scan.pc = "scan" /\ i \in DOMAIN scan.reads
  /\ CASE scan.reads[i] = "ok" ->
            /\ ScanBecomes(h, [scan EXCEPT !.next = i,
                   !.reads = [j \in DOMAIN scan.reads \ {i} |-> scan.reads[j]]])
            /\ Learns(h, i)
            /\ UNCHANGED errors
       [] scan.reads[i] = "missing" ->
            ScanBecomes(h, NoScan) /\ Errs(Absence) /\ UNCHANGED seen
       [] OTHER ->
            /\ ScanBecomes(h, NoScan)
            /\ Errs(IF scan.reads[i] = "bad" THEN "CorruptObject" ELSE "Store")
            /\ UNCHANGED seen
  /\ UNCHANGED <<store, verified, cursors, published, faults>>

(* Every record was checked.                                               *)
ScanEnd(h) ==
  /\ scans[h].pc = "scan" /\ scans[h].next = TailLength
  /\ RememberTail(h)
  /\ published' = IF scans[h].then = "publish" THEN published \cup {h} ELSE published
  /\ ScanBecomes(h, NoScan)
  /\ UNCHANGED <<store, cursors, seen, errors, faults>>

DropScan(h) ==
  /\ scans[h].pc = "scan"
  /\ Fault
  /\ ScanBecomes(h, NoScan)
  /\ UNCHANGED <<store, verified, cursors, seen, published, errors>>

ScanStep(h) ==
  \/ \E then \in {"read", "publish"} : StartScan(h, then)
  \/ \E i \in Commits : ScanRead(h, i)
  \/ ScanTake(h)
  \/ ScanEnd(h)
  \/ DropScan(h)

(* The collector: it fences first, which moves the epoch, then deletes.    *)
Fence ==
  /\ ~collected
  /\ collected' = TRUE
  /\ UNCHANGED <<bodies, deleted, verified, cursors, scans, seen, published, errors, faults>>

DeleteBody(i) ==
  /\ collected /\ i \notin deleted
  /\ deleted' = deleted \cup {i}
  /\ UNCHANGED <<bodies, collected, verified, cursors, scans, seen, published, errors, faults>>

Next ==
  \/ \E c \in Cursors : CursorStep(c)
  \/ \E h \in Scanners : ScanStep(h)
  \/ Fence
  \/ \E i \in 0 .. TailLength : DeleteBody(i)

Spec == Init /\ [][Next]_vars

-----------------------------------------------------------------------------
(* A consumer replays exactly a prefix of the history: the checkpoint,     *)
(* then the commits in sequence order, none twice and none left out, with  *)
(* errors, retries, dropped calls and clones in between; a cursor that is  *)
(* complete has handed out all of it.                                      *)
HistoryInOrder ==
  \A c \in Cursors :
    LET cursor == cursors[c] IN
    /\ cursor.items = [k \in 1 .. Len(cursor.items) |-> k - 1]
    /\ cursor.complete => Len(cursor.items) = TailLength + 1

(* A handle publishes a checkpoint over this tail only after it has        *)
(* authenticated every record of it itself; the proof that another handle  *)
(* left on the shared view, or an aborted read of its own, is not enough.  *)
PublishersVerified ==
  \A h \in published : seen[h] = Commits /\ \A i \in Commits : bodies[i] = "ok"

(* A number of commit records that the byte budget of one read allows.    *)
Fits(count) ==
  count <= 1 \/ (count <= ReadAhead /\ count * MaxCommitBytes <= MaxObjectBytes)

(* The commits held in memory at once, read ahead or in flight, fit into   *)
(* one maximum-sized object, or are a single commit (the comment at        *)
(* commit_read_window); and never more than READ_AHEAD.                    *)
ReadAheadFits ==
  /\ \A c \in Cursors : /\ Fits(Len(cursors[c].ready))
                        /\ Fits(Cardinality(DOMAIN cursors[c].reads))
  /\ \A h \in Handles : Fits(Cardinality(DOMAIN scans[h].reads))

(* No body was damaged when it was written.                               *)
Intact == \A i \in 0 .. TailLength : bodies[i] = "ok"

(* When every body was written intact, a reader is never told that the log *)
(* is corrupt: what the collection removed is reported as an expired view. *)
ExpiryIsNotCorruption == Intact => "CorruptObject" \notin errors

-----------------------------------------------------------------------------
(* A consumer that keeps calling next(), over reads that get answered.     *)
CursorProgress(c) ==
  \/ ReadCheckpoint(c)
  \/ StartWindow(c)
  \/ \E i \in DOMAIN cursors[c].reads : ReadOne(c, i)
  \/ FinishWindow(c)
  \/ Take(c)
  \/ ExplainAbsence(c)
  \/ Complete(c)

(* A cursor over an intact history is done when it is complete, or the     *)
(* view has expired under it.                                              *)
Replaying(c) == Intact /\ cursors[c].handle # None
Replayed(c) == cursors[c].complete \/ collected

=============================================================================
