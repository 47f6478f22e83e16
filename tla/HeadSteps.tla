----------------------------- MODULE HeadSteps ------------------------------
(***************************************************************************)
(* The legal transitions of the durable head, with no clients, views,      *)
(* retries or lost responses: each is computed from the head it replaces.  *)
(***************************************************************************)
EXTENDS Head

(* A commit is appended only where it was prepared: at the next sequence,  *)
(* on the current tip, below the tail limit, with an unused transaction.   *)
FollowsHead(h, commit) ==
  /\ ValidCommitPosition(h, commit.transaction_id)
  /\ commit.sequence = h.next_sequence
  /\ commit.digest.expected_tip = Tip(h)

AppendCommit(h, next) ==
  \E commit \in Range(next.tail) :
    FollowsHead(h, commit) /\ next = CandidateHead(h, commit)

(* A checkpoint covers a commit of the tail, and everything before it.     *)
CoverTail(h, next) ==
  \E through \in Range(h.tail) :
    next = CheckpointHead(h, through, next.checkpoint.object)

(* Retentions and an active plan exclude each other.                       *)
AcquireRetention(h, next) ==
  /\ h.active_plan = None
  /\ ~(Cardinality(h.retention_ids) >= MaxRetentionIds)
  /\ \E id \in next.retention_ids \ h.retention_ids :
       next = RetentionHead(h, [kind |-> "Acquire", id |-> id])

ReleaseRetention(h, next) ==
  \E id \in h.retention_ids : next = RetentionHead(h, [kind |-> "Release", id |-> id])

ClearRetentions(h, next) ==
  /\ h.retention_ids # {}
  /\ next = RetentionHead(h, [kind |-> "ClearAfterDrain", id |-> None])

InstallFence(h, next) ==
  /\ h.active_plan = None
  /\ h.retention_ids = {}
  /\ next.active_plan # None
  /\ next = FenceHead(h, next.active_plan)

ClearFence(h, next) ==
  /\ h.active_plan # None
  /\ next = UnfencedHead(h)

LegalStep(h, next) ==
  \/ AppendCommit(h, next)
  \/ CoverTail(h, next)
  \/ AcquireRetention(h, next)
  \/ ReleaseRetention(h, next)
  \/ ClearRetentions(h, next)
  \/ InstallFence(h, next)
  \/ ClearFence(h, next)

=============================================================================
