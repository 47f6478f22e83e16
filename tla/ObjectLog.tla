----------------------------- MODULE ObjectLog ------------------------------
(***************************************************************************)
(* One log shared by writers, checkpointers, readers, operators and        *)
(* collectors.  Their only synchronisation is the conditional update of    *)
(* the head; every storage request is a step of its own.                   *)
(***************************************************************************)
EXTENDS Commits, Checkpoints, Retentions, Fences

CONSTANT Persistent   \* the clients that keep trying (liveness only)

vars == <<storeVars, writerVars, checkpointVars, retainerVars, collectorVars>>

Init ==
  /\ StoreInit
  /\ CommitsInit
  /\ CheckpointsInit
  /\ RetentionsInit
  /\ FencesInit

Next ==
  \/ /\ Land
     /\ UNCHANGED <<writerVars, checkpointVars, retainerVars, collectorVars>>
  \/ /\ \E w \in Writers : WriterStep(w)
     /\ UNCHANGED <<checkpointVars, retainerVars, collectorVars>>
  \/ /\ \E k \in Checkpointers : CheckpointerStep(k)
     /\ UNCHANGED <<writerVars, retainerVars, collectorVars>>
  \/ /\ \/ \E r \in Readers : ReaderStep(r)
        \/ \E o \in Operators : StartRecovery(o)
        \/ \E r \in Readers \cup Operators : RetainerStep(r)
     /\ UNCHANGED <<writerVars, checkpointVars, collectorVars>>
  \/ /\ \E c \in Collectors : CollectorStep(c)
     /\ UNCHANGED <<writerVars, checkpointVars, retainerVars>>

Spec == Init /\ [][Next]_vars

-----------------------------------------------------------------------------
(* Every client is at a point of its code, and every publication loop of   *)
(* the clients stays below MAX_HEAD_PUBLICATION_ATTEMPTS.                  *)
TypeOK ==
  /\ version \in Nat
  /\ quota \in [Clients -> Nat]
  /\ \A w \in Writers :
       /\ writers[w].pc \in {"idle", "token", "prepared", "pending", "resumed",
                              "verify", "publish", "reload"}
       /\ writers[w].attempt \in Attempts
  /\ \A k \in Checkpointers :
       /\ checkpointers[k].pc \in {"idle", "publish", "reload", "pending", "verify"}
       /\ checkpointers[k].attempt \in Attempts
  /\ \A r \in Readers \cup Operators :
       /\ retainers[r].pc \in {"idle", "call", "update", "reload", "holding"}
       /\ retainers[r].attempt \in Attempts
  /\ \A c \in Collectors :
       /\ collectors[c].pc \in {"idle", "install", "reload", "fenced", "read", "missing",
                                "delete", "clear", "clearReload", "cleanup"}
       /\ collectors[c].attempt \in Attempts

(* Every view that a client holds, whichever call it came from.            *)
Views ==
  UNION ({{writers[w].token, writers[w].prepared, writers[w].source, writers[w].view} :
            w \in Writers}
         \cup {{checkpointers[k].pending, checkpointers[k].source, checkpointers[k].view} :
                 k \in Checkpointers}
         \cup {{retainers[r].session, retainers[r].view} : r \in Readers \cup Operators}
         \cup {{collectors[c].view} : c \in Collectors})

(* What makes comparing versions enough: a view with the storage version   *)
(* of the durable head has that head, so a conditional update that matches *)
(* replaces exactly the head it was computed from.                         *)
ViewsNameTheirHead ==
  \A v \in Views : v.version <= version /\ (v.version = version => v.head = head)

-----------------------------------------------------------------------------
(* Properties of the head                                                  *)

(* Every head that a client can make durable passes Head::validate: the    *)
(* carried-over proposals (a commit over retention changes, a checkpoint   *)
(* over appended commits) never build one that a later load rejects.       *)
HeadValid == Validate(head)

(* checkpoint_head forgets nothing it must keep: recent outcomes followed  *)
(* by the tail are the newest commits ever published, in order.            *)
HeadIsNewestHistory ==
  /\ head.next_sequence = Len(history)
  /\ LET kept == head.recent_outcomes \o head.tail IN
       /\ Len(kept) <= Len(history)
       /\ kept = SubSeq(history, Len(history) - Len(kept) + 1, Len(history))

-----------------------------------------------------------------------------
(* Properties of the answers                                               *)

(* A checkpoint reported Published was installed; one reported as a        *)
(* conflict or NotPublished was not and cannot be any more, so its object  *)
(* is garbage (classify_checkpoint decides from one generation number).    *)
CheckpointAnswersAreSound ==
  \A a \in checkpointAnswers :
    /\ a.status = "Published" => a.checkpoint.object \in bases
    /\ a.status = "NotPublished" =>
         /\ a.checkpoint.object \notin bases
         /\ \A w \in late : w.head.checkpoint # a.checkpoint

(* The code's corruption errors (a head that precedes evidence, a version  *)
(* that changes without a newer generation, a missing active plan) are     *)
(* reported for corrupt storage only: no interleaving of correct clients   *)
(* reaches them.                                                           *)
NoFalseCorruption ==
  /\ \A a \in answers : a.status # "Corrupt"
  /\ \A a \in checkpointAnswers : a.status # "Corrupt"
  /\ "Corrupt" \notin planErrors

-----------------------------------------------------------------------------
(* Properties of retention and collection                                  *)

(* A reader whose acquisition was confirmed is pinned: until it releases,  *)
(* its identity stays in the head and no collection starts, so the epoch   *)
(* of the view it reads from stays the current one.                        *)
HeldIsPinned ==
  \A r \in Readers : retainers[r].pc = "holding" =>
    /\ retainers[r].change.id \in head.retention_ids
    /\ head.active_plan = None
    /\ head.collection_epoch = retainers[r].session.head.collection_epoch

(* A commit is published in the collection epoch and under the plan that   *)
(* its dependencies were checked against when it was prepared, however     *)
(* often it was retried, resolved or resumed: no collection ran in between *)
(* that could have deleted what it depends on.                             *)
PublishedInItsEpoch ==
  [][\A w \in Writers :
       writers[w].commit \in Range(head'.tail) \ Range(head.tail) =>
         /\ head.collection_epoch = writers[w].token.head.collection_epoch
         /\ head.active_plan = writers[w].token.head.active_plan]_vars

(* A released identity does not come back into the head, where it would    *)
(* block collection with no owner to release it.                           *)
ReleasedStaysReleased == released \cap head.retention_ids = {}

(* The head never names a plan object that a collector has already removed *)
(* after a conflict, a completion or a takeover.                           *)
ActivePlanExists == head.active_plan # None => head.active_plan \in plans

(* A fence leaves the head only after every deletion of its plan succeeded *)
(* in some pass, whichever collector made it.                              *)
FenceClearedAfterSweep ==
  [][head.active_plan # None /\ head'.active_plan # head.active_plan
       => head.active_plan \in swept]_vars

-----------------------------------------------------------------------------
(* Liveness: a persistent client keeps asking and storage does not fail it *)
(* for ever; the other clients may stop anywhere.                          *)

WriterFairness(w) ==
  LET v == <<storeVars, writerVars>> IN
  /\ WF_v(Commit(w))
  /\ SF_v(PublishApplied(w)) /\ SF_v(PublishRejected(w)) /\ SF_v(Reload(w))
  /\ SF_v(Resolve(w)) /\ SF_v(ResolveVerified(w)) /\ SF_v(Resume(w))

CollectorFairness(c) ==
  LET v == <<storeVars, collectorVars>> IN
  /\ WF_v(InstallRejected(c)) /\ WF_v(InstallReload(c)) /\ WF_v(TakeUpCollection(c))
  /\ SF_v(ResumeCollection(c)) /\ SF_v(ReadPlan(c)) /\ SF_v(DeleteBatches(c))
  /\ SF_v(ClearApplied(c)) /\ SF_v(ClearRejected(c)) /\ SF_v(ClearReload(c))
  /\ WF_v(CleanupPlan(c)) /\ WF_v(ExplainMissingPlan(c))

FairSpec ==
  /\ Spec
  /\ \A w \in Writers \cap Persistent : WriterFairness(w)
  /\ \A c \in Collectors \cap Persistent : CollectorFairness(c)

(* A caller that keeps resolving gets a definite answer in the end: lost   *)
(* responses, refused requests, its own crashes, rival commits and         *)
(* retention traffic only delay it.                                        *)
EveryCandidateSettles ==
  \A w \in Writers \cap Persistent :
    writers[w].pc # "idle" ~> writers[w].pc = "idle"

(* A fence does not stay: one collector that keeps running clears it, also *)
(* when the collector that installed it is gone.                           *)
EveryFenceClears == head.active_plan # None ~> head.active_plan = None

=============================================================================
