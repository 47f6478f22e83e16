----------------------------- MODULE Checkpoints ----------------------------
(***************************************************************************)
(* Checkpoint publication: Log::publish_checkpoint and                     *)
(* resolve_checkpoint.  The checkpoint covers a prefix of the tail of the  *)
(* view it was computed from; commits appended meanwhile and retention     *)
(* changes do not invalidate it.  Its evidence (PendingCheckpoint) lives   *)
(* in memory only: a process that stops forgets it.                        *)
(***************************************************************************)
EXTENDS HeadStore

CONSTANT Checkpointers   \* the clients that publish checkpoints

ASSUME CheckpointersAssumption == Checkpointers \subseteq Clients

VARIABLES
  checkpointers,       \* the local state of each checkpointer
  checkpointAnswers    \* every definite answer: [checkpoint, status] (observer)

checkpointVars == <<checkpointers, checkpointAnswers>>

(* pending: the view of the PendingCheckpoint; through: the covered commit *)
(* source, view, attempt: the loop state of publish_head_compatible        *)
IdleCheckpointer ==
  [pc |-> "idle", call |-> "publish", through |-> None, checkpoint |-> NoCheckpoint,
   pending |-> NoView, source |-> NoView, view |-> NoView, attempt |-> 0]

CheckpointsInit ==
  /\ checkpointers = [k \in Checkpointers |-> IdleCheckpointer]
  /\ checkpointAnswers = {}

-----------------------------------------------------------------------------
CheckpointerBecomes(k, state) ==
  /\ checkpointers' = [checkpointers EXCEPT ![k] = state]
  /\ UNCHANGED checkpointAnswers

CheckpointAnswer(k, status) ==
  /\ checkpointers' = [checkpointers EXCEPT ![k] = IdleCheckpointer]
  /\ checkpointAnswers' = checkpointAnswers \cup
       {[checkpoint |-> checkpointers[k].checkpoint, status |-> status]}

CheckpointStillPending(k) ==
  CheckpointerBecomes(k, [IdleCheckpointer EXCEPT
    !.pc = "pending", !.through = checkpointers[k].through,
    !.checkpoint = checkpointers[k].checkpoint, !.pending = checkpointers[k].pending])

StartCheckpointPublish(k, view) ==
  CheckpointerBecomes(k, [checkpointers[k] EXCEPT
    !.pc = "publish", !.source = view, !.view = view, !.attempt = 0])

CheckpointCandidate(k) ==
  CheckpointHead(checkpointers[k].view.head, checkpointers[k].through,
                 checkpointers[k].checkpoint.object)

-----------------------------------------------------------------------------
(* publish_checkpoint up to publish_checkpoint_head: the view is loaded,   *)
(* its tail verified and the checkpoint object created.                    *)
PublishCheckpoint(k) ==
  /\ checkpointers[k].pc = "idle"
  /\ \E through \in Range(head.tail) :
       CheckpointerBecomes(k, [IdleCheckpointer EXCEPT
         !.pc = "publish", !.through = through,
         !.checkpoint = [through_sequence |-> through.sequence,
                         through_commit |-> through.digest,
                         object |-> Fresh(k)],
         !.pending = Observed, !.source = Observed, !.view = Observed])
  /\ Draw(k)
  /\ UNCHANGED <<head, version, late, history, bases>>

CheckpointApplied(k) ==
  /\ checkpointers[k].pc = "publish"
  /\ UpdateApplied(checkpointers[k].view, CheckpointCandidate(k))
  /\ CheckpointAnswer(k, "Published")
  /\ UNCHANGED quota

CheckpointRejected(k) ==
  /\ checkpointers[k].pc = "publish"
  /\ UpdateInFlight(checkpointers[k].view, CheckpointCandidate(k))
  /\ CheckpointerBecomes(k, [checkpointers[k] EXCEPT !.pc = "reload"])
  /\ UNCHANGED quota

CheckpointUncertain(k) ==
  /\ checkpointers[k].pc = "publish"
  /\ UpdateInFlight(checkpointers[k].view, CheckpointCandidate(k))
  /\ CheckpointStillPending(k)
  /\ UNCHANGED quota

(* The request guard refuses the write: publish_checkpoint fails and the   *)
(* evidence is gone, resolve_checkpoint keeps it.                          *)
CheckpointDenied(k) ==
  /\ checkpointers[k].pc = "publish"
  /\ IF checkpointers[k].call = "publish"
     THEN CheckpointerBecomes(k, IdleCheckpointer) ELSE CheckpointStillPending(k)
  /\ UNCHANGED storeVars

CheckpointReload(k) ==
  LET me == checkpointers[k]
      outcome == PublishReload(me.view, Observed, me.attempt,
                   HasCheckpointAppendBase(me.source.head, head))
      status == ClassifyCheckpoint(me.checkpoint, head, me.view.head.generation)
  IN
  /\ me.pc = "reload"
  /\ CASE outcome = "Changed" ->
            IF status = "Expired" /\ me.call = "publish"
            THEN CheckpointStillPending(k) ELSE CheckpointAnswer(k, status)
       [] outcome = "Pending" -> CheckpointStillPending(k)
       [] outcome = "Contended" -> CheckpointAnswer(k, "NotPublished")
       [] outcome = "Corrupt" -> CheckpointAnswer(k, "Corrupt")
       [] outcome = "Retry" ->
            CheckpointerBecomes(k, [me EXCEPT !.pc = "publish",
                                      !.view = Observed, !.attempt = @ + 1])
  /\ UNCHANGED storeVars

(* A reload, or a read that verifies the tail and the checkpoint, fails.   *)
CheckpointReadFails(k) ==
  /\ checkpointers[k].pc \in {"reload", "verify"}
  /\ CheckpointStillPending(k)
  /\ UNCHANGED storeVars

ResolveCheckpoint(k) ==
  LET me == checkpointers[k]
      outcome == PublicationView(me.pending, Observed,
                   HasCheckpointAppendBase(me.pending.head, head))
  IN
  /\ me.pc = "pending"
  /\ CASE outcome = "Changed" ->
            CheckpointAnswer(k, ClassifyCheckpoint(me.checkpoint, head,
                                                   me.pending.head.generation))
       [] outcome = "Corrupt" -> CheckpointAnswer(k, "Corrupt")
       [] outcome = "Publish" ->
            CheckpointerBecomes(k, [me EXCEPT !.pc = "verify",
                                      !.call = "resolve", !.source = Observed])
  /\ UNCHANGED storeVars

CheckpointVerified(k) ==
  /\ checkpointers[k].pc = "verify"
  /\ StartCheckpointPublish(k, checkpointers[k].source)
  /\ UNCHANGED storeVars

(* The process stops, or drops the evidence.                               *)
CheckpointCrash(k) ==
  /\ checkpointers[k].pc # "idle"
  /\ CheckpointerBecomes(k, IdleCheckpointer)
  /\ UNCHANGED storeVars

CheckpointerStep(k) ==
  \/ PublishCheckpoint(k)
  \/ CheckpointApplied(k)
  \/ CheckpointRejected(k)
  \/ CheckpointUncertain(k)
  \/ CheckpointDenied(k)
  \/ CheckpointReload(k)
  \/ CheckpointReadFails(k)
  \/ ResolveCheckpoint(k)
  \/ CheckpointVerified(k)
  \/ CheckpointCrash(k)

=============================================================================
