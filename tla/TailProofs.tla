------------------------------ MODULE TailProofs ----------------------------
(***************************************************************************)
(* How the proof that a view's tail is verified travels from view to view. *)
(* Reading a whole tail (History) marks one View for one handle; a commit  *)
(* hands the mark on to the view it produces, a checkpoint does so only    *)
(* when nothing was appended meanwhile, load never does.  A View is a      *)
(* shared object (Arc<Observed>): handles may exchange it, and its         *)
(* verified_tail can be set once.                                          *)
(***************************************************************************)
EXTENDS Integers, Sequences

CONSTANTS
  None,        \* the absent Option
  Handles,     \* handles (staging domains) that read and publish
  MaxCommits,  \* bound: commits in the log
  MaxViews     \* bound: Views created

ASSUME TailProofsAssumption ==
  None \notin Handles /\ MaxCommits \in Nat /\ MaxViews \in Nat

VARIABLES
  head,      \* the durable head: commits base + 1 .. next are its tail
  bodies,    \* [author, sound]: who wrote each commit, and if it is sound
  views,     \* the Views created so far: [base, next, verified]
  held,      \* the View (an index into views) that each handle works with
  read,      \* commits that each handle has authenticated (observer)
  covered    \* commits behind published checkpoints: <<handle, commit>> (observer)

vars == <<head, bodies, views, held, read, covered>>

Init ==
  /\ head = [base |-> 0, next |-> 0]
  /\ bodies = <<>>
  /\ views = <<>>
  /\ held = [h \in Handles |-> None]
  /\ read = [h \in Handles |-> {}]
  /\ covered = {}

-----------------------------------------------------------------------------
TailOf(view) == (view.base + 1) .. view.next

(* A new View after the known ones, marked by this handle or not at all.   *)
NewView(h, known, state, verified) ==
  /\ Len(known) < MaxViews
  /\ views' = Append(known, [base |-> state.base, next |-> state.next,
                             verified |-> IF verified THEN h ELSE None])
  /\ held' = [held EXCEPT ![h] = Len(known) + 1]

(* Log::load                                                               *)
Load(h) ==
  /\ NewView(h, views, head, FALSE)
  /\ UNCHANGED <<head, bodies, read, covered>>

(* A clone of the View is passed to another handle.                        *)
Share(h, other) ==
  /\ held[h] # None /\ h # other
  /\ held' = [held EXCEPT ![other] = held[h]]
  /\ UNCHANGED <<head, bodies, views, read, covered>>

(* read_tail, a completed cursor or a mark phase: every record is sound,   *)
(* and remember_tail sets the mark unless it is set already.               *)
Remembered(h, view) ==
  [view EXCEPT !.verified = IF @ = None THEN h ELSE @]

ReadTail(h) ==
  /\ held[h] # None
  /\ \A i \in TailOf(views[held[h]]) : bodies[i].sound
  /\ views' = [views EXCEPT ![held[h]] = Remembered(h, @)]
  /\ read' = [read EXCEPT ![h] = @ \cup TailOf(views[held[h]])]
  /\ UNCHANGED <<head, bodies, held, covered>>

(* Log::commit: a conditional update, so the head is the view's own plus   *)
(* this handle's commit, and the mark of the view is handed on.            *)
Commit(h) ==
  LET view == views[held[h]] IN
  /\ held[h] # None
  /\ head = [base |-> view.base, next |-> view.next]
  /\ Len(bodies) < MaxCommits
  /\ bodies' = Append(bodies, [author |-> h, sound |-> TRUE])
  /\ head' = [head EXCEPT !.next = @ + 1]
  /\ NewView(h, views, head', view.verified = h)
  /\ UNCHANGED <<read, covered>>

(* Another process commits, with code this one need not trust.             *)
CommitElsewhere ==
  /\ Len(bodies) < MaxCommits
  /\ \E sound \in BOOLEAN : bodies' = Append(bodies, [author |-> None, sound |-> sound])
  /\ head' = [head EXCEPT !.next = @ + 1]
  /\ UNCHANGED <<views, held, read, covered>>

(* Mutation: the view of a reconciled checkpoint inherits the mark.        *)
InheritsAlways(view) == TRUE

(* publish_checkpoint: the new view inherits the mark only when its        *)
(* next_sequence is the one that was verified.                             *)
Inherits(view) == head.next = view.next

(* Mutation: a checkpoint is published over an unread tail.                *)
VerifyNothing(h, view) == UNCHANGED read

(* Log::verify_tail reads what is not verified by this very handle, and    *)
(* remembers it on the View.                                               *)
VerifyTail(h, view) ==
  IF view.verified = h
  THEN UNCHANGED read
  ELSE /\ \A i \in TailOf(view) : bodies[i].sound
       /\ read' = [read EXCEPT ![h] = @ \cup TailOf(view)]

(* The base moves up to `through`; commits appended since the view was     *)
(* loaded stay in the tail (reconciliation).  The answer may be lost.      *)
Checkpoint(h, through, answered) ==
  LET view == views[held[h]]
      marked == [views EXCEPT ![held[h]] = Remembered(h, @)]
  IN
  /\ held[h] # None
  /\ through \in TailOf(view)
  /\ head.base = view.base
  /\ VerifyTail(h, view)
  /\ head' = [head EXCEPT !.base = through]
  /\ covered' = covered \cup {<<h, i>> : i \in (view.base + 1) .. through}
  /\ IF answered
     THEN NewView(h, marked, head', Inherits(view))
     ELSE held' = [held EXCEPT ![h] = None] /\ views' = marked
  /\ UNCHANGED bodies

Next ==
  \/ CommitElsewhere
  \/ \E h \in Handles :
       \/ Load(h)
       \/ \E other \in Handles : Share(h, other)
       \/ ReadTail(h)
       \/ Commit(h)
       \/ \E through \in 1 .. MaxCommits, answered \in BOOLEAN :
            Checkpoint(h, through, answered)

Spec == Init /\ [][Next]_vars

-----------------------------------------------------------------------------
(* What a handle may rely on: it has authenticated the record, or it made  *)
(* the record itself on top of a tail it knew.                             *)
Knows(h, i) == i \in read[h] \/ bodies[i].author = h

(* A View marked for a handle has a tail of which that handle knows every  *)
(* record, and all of them are sound, however many commits, checkpoints    *)
(* and exchanged views lie between the read and this View.                 *)
MarksAreEarned ==
  \A v \in 1 .. Len(views) : views[v].verified # None =>
    \A i \in TailOf(views[v]) : bodies[i].sound /\ Knows(views[v].verified, i)

(* No commit that its publisher does not know disappears behind a          *)
(* checkpoint, where no reader will check it again.                        *)
CheckpointsCoverKnown == \A p \in covered : bodies[p[2]].sound /\ Knows(p[1], p[2])

=============================================================================
