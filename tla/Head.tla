-------------------------------- MODULE Head --------------------------------
(***************************************************************************)
(* The durable head (index.cbor) of one log, as pure operators: the record *)
(* of src/format.rs, its validation, the heads that each operation of      *)
(* src/log.rs proposes, and the classification of a proposal against a     *)
(* later head.                                                             *)
(*                                                                         *)
(* A commit reference is [sequence, transaction_id, storage_id, digest].   *)
(* A digest is what it is taken of, [transaction_id, expected_tip]: a      *)
(* transaction id stands for its operation, result and objects too, so two *)
(* candidates for one transaction on one tip differ in storage id only.    *)
(* log_id, incarnation and options never change after the log is open and  *)
(* are left out.                                                           *)
(***************************************************************************)
EXTENDS Integers, Sequences, FiniteSets, Functions

CONSTANTS
  None,               \* the absent Option
  MaxTailEntries,     \* Options::max_tail_entries
  ResolutionWindow,   \* Options::resolution_window
  MaxRetentionIds     \* Options::max_retention_ids

ASSUME OptionsAssumption ==
  /\ MaxTailEntries \in Nat
  /\ ResolutionWindow \in Nat
  /\ MaxRetentionIds \in Nat

(* checkpoint: None is the reference that covers nothing.                  *)
NoCheckpoint == [through_sequence |-> -1, through_commit |-> None, object |-> None]

Empty ==
  [generation |-> 0, next_sequence |-> 0, checkpoint |-> NoCheckpoint,
   tail |-> <<>>, recent_outcomes |-> <<>>, collection_epoch |-> 0,
   active_plan |-> None, retention_ids |-> {}]

(* The last of some commits, and a sequence that another one extends.      *)
Newest(commits) == commits[Len(commits)]

StartsWith(s, start) == Len(start) <= Len(s) /\ SubSeq(s, 1, Len(start)) = start

Tip(h) == IF h.tail # <<>> THEN Newest(h.tail).digest ELSE h.checkpoint.through_commit

(* The commits a head still has evidence of: tail, then recent outcomes.   *)
Retained(h) == Range(h.tail) \cup Range(h.recent_outcomes)

-----------------------------------------------------------------------------
(* Head::validate                                                          *)

ExpectedStart(h) == h.checkpoint.through_sequence + 1

Contiguous(commits, start) ==
  \A i \in DOMAIN commits : commits[i].sequence = start + i - 1

DistinctTransactions(commits) ==
  \A i, j \in DOMAIN commits :
    commits[i].transaction_id = commits[j].transaction_id => i = j

RequiredOutcomes(h) ==
  IF ExpectedStart(h) < ResolutionWindow THEN ExpectedStart(h) ELSE ResolutionWindow

ValidTail(h) ==
  /\ Len(h.tail) <= MaxTailEntries
  /\ h.generation >= h.next_sequence
  /\ Contiguous(h.tail, ExpectedStart(h))
  /\ h.next_sequence = ExpectedStart(h) + Len(h.tail)

ValidOutcomes(h) ==
  /\ Len(h.recent_outcomes) = RequiredOutcomes(h)
  /\ h.recent_outcomes # <<>> =>
       Newest(h.recent_outcomes).digest = h.checkpoint.through_commit
  /\ Contiguous(h.recent_outcomes, ExpectedStart(h) - Len(h.recent_outcomes))

ValidCollectionState(h) ==
  /\ h.collection_epoch <= h.generation
  /\ Cardinality(h.retention_ids) <= MaxRetentionIds
  /\ h.active_plan # None => /\ h.retention_ids = {}
                             /\ h.collection_epoch > 0

Validate(h) ==
  /\ ValidTail(h)
  /\ ValidOutcomes(h)
  /\ DistinctTransactions(h.tail \o h.recent_outcomes)
  /\ ValidCollectionState(h)

-----------------------------------------------------------------------------
(* What may differ between two heads for a proposal to be carried over     *)

(* Mutation: the collection state is not compared.                         *)
HasSameCommits(h, other) ==
  /\ h.next_sequence = other.next_sequence
  /\ h.checkpoint = other.checkpoint
  /\ h.tail = other.tail
  /\ h.recent_outcomes = other.recent_outcomes

HasSamePublicationBase(h, other) ==
  /\ h.next_sequence = other.next_sequence
  /\ h.checkpoint = other.checkpoint
  /\ h.tail = other.tail
  /\ h.recent_outcomes = other.recent_outcomes
  /\ h.collection_epoch = other.collection_epoch
  /\ h.active_plan = other.active_plan

HasCheckpointAppendBase(h, other) ==
  /\ StartsWith(other.tail, h.tail)
  /\ h.checkpoint = other.checkpoint
  /\ h.recent_outcomes = other.recent_outcomes
  /\ h.collection_epoch = other.collection_epoch
  /\ h.active_plan = other.active_plan
  /\ other.next_sequence = h.next_sequence + Len(other.tail) - Len(h.tail)

(* format::publication_base_digest: equal digests, equal bases.            *)
PublicationBase(h) ==
  [h EXCEPT !.generation = IF h.next_sequence > h.collection_epoch
                           THEN h.next_sequence ELSE h.collection_epoch,
            !.retention_ids = {}]

-----------------------------------------------------------------------------
(* The heads that the operations propose                                   *)

(* Log::validate_commit_position                                           *)
ValidCommitPosition(h, txn) ==
  /\ Len(h.tail) < MaxTailEntries
  /\ \A commit \in Retained(h) : commit.transaction_id # txn

CandidateHead(h, commit) ==
  [h EXCEPT !.generation = @ + 1, !.next_sequence = @ + 1,
            !.tail = Append(@, commit)]

(* Mutations: the oldest outcomes are kept; none is dropped.               *)
FirstN(s, n) == IF Len(s) <= n THEN s ELSE SubSeq(s, 1, n)
KeepAll(s, n) == s

LastN(s, n) == IF Len(s) <= n THEN s ELSE SubSeq(s, Len(s) - n + 1, Len(s))

CheckpointHead(h, through, object) ==
  LET covered == CHOOSE i \in DOMAIN h.tail : h.tail[i] = through IN
  [h EXCEPT !.generation = @ + 1,
            !.tail = SubSeq(@, covered + 1, Len(@)),
            !.recent_outcomes =
               LastN(@ \o SubSeq(h.tail, 1, covered), ResolutionWindow),
            !.checkpoint = [through_sequence |-> through.sequence,
                            through_commit |-> through.digest,
                            object |-> object]]

(* Mutation: a retention change does not advance the generation.           *)
RetentionHeadInPlace(h, change) ==
  [h EXCEPT !.retention_ids = CASE change.kind = "Acquire" -> @ \cup {change.id}
                                [] change.kind = "Release" -> @ \ {change.id}
                                [] change.kind = "ClearAfterDrain" -> {}]

(* RetentionChange::apply; a change is [kind, id].                         *)
RetentionHead(h, change) ==
  [h EXCEPT !.generation = @ + 1,
            !.retention_ids = CASE change.kind = "Acquire" -> @ \cup {change.id}
                                [] change.kind = "Release" -> @ \ {change.id}
                                [] change.kind = "ClearAfterDrain" -> {}]

FenceHead(h, plan) ==
  [h EXCEPT !.generation = @ + 1, !.collection_epoch = @ + 1,
            !.active_plan = plan]

UnfencedHead(h) == [h EXCEPT !.generation = @ + 1, !.active_plan = None]

-----------------------------------------------------------------------------
(* What a later head says about an earlier proposal                        *)

ClassifyResolution(target, h) ==
  CASE target \in Retained(h) -> "Committed"
    [] target \notin Retained(h) /\ h.next_sequence > target.sequence ->
         IF \E commit \in Retained(h) : commit.sequence = target.sequence
         THEN "NotCommitted" ELSE "Expired"
    [] h.next_sequence < target.sequence -> "Corrupt"
    [] OTHER -> "NotCommitted"

(* Mutation: a checkpoint that is not the current one was never published. *)
ClassifyByPresence(checkpoint, h, attempted_generation) ==
  IF h.checkpoint = checkpoint THEN "Published" ELSE "NotPublished"

ClassifyCheckpoint(checkpoint, h, attempted_generation) ==
  CASE h.checkpoint = checkpoint -> "Published"
    [] h.checkpoint # checkpoint /\ h.generation < attempted_generation + 1 ->
         "Corrupt"
    [] h.checkpoint # checkpoint /\ h.generation = attempted_generation + 1 ->
         "NotPublished"
    [] OTHER -> "Expired"

(* RetentionChange::classify                                               *)
ClassifyRetention(change, h) ==
  CASE change.kind = "Acquire" /\ change.id \in h.retention_ids -> "Applied"
    [] change.kind = "Acquire" /\ change.id \notin h.retention_ids
         /\ h.active_plan # None -> "ActiveCollection"
    [] change.kind = "Release" /\ change.id \notin h.retention_ids -> "Applied"
    [] change.kind = "ClearAfterDrain" /\ h.retention_ids = {} -> "Applied"
    [] OTHER -> "Conflict"

=============================================================================
