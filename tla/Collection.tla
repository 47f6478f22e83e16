----------------------------- MODULE Collection -----------------------------
(***************************************************************************)
(* Garbage collection with the objects it deletes.  A collector marks what *)
(* its view keeps alive, lists the namespace, writes the rest into a plan, *)
(* installs the plan as a fence (Fences), deletes in batches and clears    *)
(* the fence, while publishers stage and publish (Staging) and readers     *)
(* read from views that may be old, with a retention (Retentions) or not.  *)
(***************************************************************************)
EXTENDS Staging, Retentions, FiniteSetsExt

CONSTANTS
  MaxCandidates,    \* max_candidates of start_collection_with_limit
  MaxDeleteBatch,   \* MAX_DELETE_BATCH
  MaxFaults         \* bound: failing requests, hidden answers and crashes under
                    \* each of the Quotas

ASSUME LimitsAssumption == MaxCandidates \in Nat \ {0} /\ MaxDeleteBatch \in Nat \ {0}
ASSUME FaultsAssumption == MaxFaults \in [Quotas -> Nat]

VARIABLES
  marking,      \* the local state of each start_collection and resume_collection
  deleting,     \* deletions that failed and may still take effect
  missed,       \* readers that found an object of their view missing
  readErrors,   \* what they were told: [retained, error] (observer)
  faults        \* the faults that may still happen

collectionVars == <<marking, deleting, missed, readErrors, faults>>
vars == <<storeVars, collectorVars, stagingVars, retainerVars, collectionVars>>

(* found: the candidates listed                                            *)
(* done:  the candidates that this resume_collection has deleted           *)
NoMarking == [found |-> {}, done |-> {}]

Init ==
  /\ StoreInit
  /\ FencesInit
  /\ StagingInit
  /\ RetentionsInit
  /\ marking = [c \in Collectors |-> NoMarking]
  /\ deleting = {}
  /\ missed = {}
  /\ readErrors = {}
  /\ faults = MaxFaults[quota]

-----------------------------------------------------------------------------
(* start_collection up to the plan                                         *)

MarkingBecomes(c, state) == marking' = [marking EXCEPT ![c] = state]

BeginMark(c) ==
  /\ collectors[c].pc = "idle"
  /\ head.active_plan = None /\ head.retention_ids = {}
  /\ CollectorBecomes(c, [IdleCollector EXCEPT !.pc = "mark", !.view = Observed])
  /\ UNCHANGED <<quota, contents, plans, marking>>

(* mark_live reads everything but blobs, which have no edges and are only  *)
(* protected (GraphWalk::Reachability).                                    *)
MarkReads(h) == {k \in Live(h) : contents[k].kind # "Blob"}

(* A marked object is missing: the call returns an error.                  *)
MarkFails(c) ==
  /\ collectors[c].pc = "mark"
  /\ ~(MarkReads(collectors[c].view.head) \subseteq objects)
  /\ CollectorBecomes(c, IdleCollector)
  /\ UNCHANGED <<quota, contents, plans, marking>>

Stored == objects \cup plans


(* The mark succeeds and the listing, which a limit or unknown entries may *)
(* cut short, finds candidates.  What is marked depends on the view alone  *)
(* and what is listed on the store, so both are one step.                  *)
List(c) ==
  LET h == collectors[c].view.head IN
  /\ collectors[c].pc = "mark" /\ CanDraw(c)
  /\ MarkReads(h) \subseteq objects
  /\ \E found \in SUBSET (Stored \ Live(h)) :
       /\ found # {} /\ Cardinality(found) <= MaxCandidates
       /\ MarkingBecomes(c, [NoMarking EXCEPT !.found = found])
  /\ CollectorBecomes(c, [collectors[c] EXCEPT !.pc = "list"])
  /\ UNCHANGED <<quota, contents, plans>>

(* CollectionStart::Empty                                                  *)
ListEmpty(c) ==
  /\ collectors[c].pc = "mark"
  /\ Stored \subseteq Live(collectors[c].view.head)
  /\ CollectorBecomes(c, IdleCollector)
  /\ UNCHANGED <<quota, contents, plans, marking>>

(* The plan object is written.                                             *)
CreatePlan(c) ==
  LET me == marking[c] IN
  /\ collectors[c].pc = "list"
  /\ CollectorBecomes(c, [collectors[c] EXCEPT !.pc = "install", !.plan = Fresh(c)])
  /\ MarkingBecomes(c, NoMarking)
  /\ NewObject(c, "CollectionPlan", me.found)
  /\ plans' = plans \cup {Fresh(c)}
  /\ Draw(c)

MarkStep(c) ==
  /\ \/ BeginMark(c)
     \/ MarkFails(c)
     \/ List(c)
     \/ ListEmpty(c)
     \/ CreatePlan(c)
  /\ UNCHANGED <<head, version, late, history, bases, swept, planErrors, objects>>

-----------------------------------------------------------------------------
(* resume_collection deletes the candidates of the plan it read            *)

Remaining(c) == contents[collectors[c].plan].refs \ marking[c].done

Batches(c) ==
  IF collectors[c].pc # "delete" THEN {}
  ELSE kSubset(Min({MaxDeleteBatch, Cardinality(Remaining(c))}), Remaining(c))

Delete(keys) == objects' = objects \ keys /\ plans' = plans \ keys

(* Mutation: deletions that fail are left for later.                       *)
DeleteUnchecked(c) ==
  \E keys \in Batches(c) : \E lost \in SUBSET keys :
    /\ Delete(keys \ lost)
    /\ CollectorBecomes(c, [collectors[c] EXCEPT !.pc = "clear", !.attempt = 0])
    /\ swept' = swept \cup {collectors[c].plan}
    /\ deleting' = deleting \cup lost
    /\ MarkingBecomes(c, NoMarking)

(* ScopedStore::delete_immutable_batch succeeds: a missing key is success. *)
DeleteBatch(c) ==
  \E keys \in Batches(c) :
    /\ Delete(keys)
    /\ IF keys = Remaining(c)
       THEN /\ CollectorBecomes(c, [collectors[c] EXCEPT !.pc = "clear", !.attempt = 0])
            /\ swept' = swept \cup {collectors[c].plan}
            /\ MarkingBecomes(c, NoMarking)
       ELSE /\ MarkingBecomes(c, [marking[c] EXCEPT !.done = @ \cup keys])
            /\ UNCHANGED <<collectors, swept>>
    /\ UNCHANGED deleting

(* Some deletions of the batch fail: those may still take effect later.    *)
DeleteFails(c) ==
  \E keys \in Batches(c) : \E lost \in SUBSET keys :
    /\ Delete(keys \ lost)
    /\ HoldFence(c, collectors[c].plan)
    /\ deleting' = deleting \cup lost
    /\ MarkingBecomes(c, NoMarking)
    /\ UNCHANGED swept

(* Everything else about a fence is as in Fences.                          *)
FenceStep(c) ==
  \/ TakeUpCollection(c)
  \/ InstallApplied(c)
  \/ InstallRejected(c) /\ ~Matches(collectors[c].view.version)
  \/ InstallReload(c)
  \/ ResumeCollection(c)
  \/ ReadPlan(c)
  \/ ExplainMissingPlan(c)
  \/ ClearApplied(c)
  \/ ClearRejected(c) /\ ~Matches(collectors[c].view.version)
  \/ ClearReload(c)
  \/ CleanupPlan(c)

FenceFault(c) ==
  \/ InstallRejected(c) /\ Matches(collectors[c].view.version)
  \/ InstallUncertain(c)
  \/ StartFails(c)
  \/ ResumeFails(c)
  \/ ClearRejected(c) /\ Matches(collectors[c].view.version)
  \/ ClearUncertain(c)
  \/ CollectorCrash(c)

DuringFence(c) == MarkingBecomes(c, NoMarking) /\ UNCHANGED <<objects, contents, deleting>>

CollectStep(c) ==
  \/ MarkStep(c) /\ UNCHANGED deleting
  \/ DeleteBatch(c) /\ UNCHANGED <<storeVars, planErrors, contents>>
  \/ FenceStep(c) /\ DuringFence(c)

CollectFault(c) ==
  \/ DeleteFails(c) /\ UNCHANGED <<storeVars, planErrors, contents>>
  \/ FenceFault(c) /\ DuringFence(c)

LandDelete ==
  /\ \E k \in deleting : Delete({k}) /\ deleting' = deleting \ {k}
  /\ UNCHANGED <<storeVars, contents, collectors, swept, planErrors, marking>>

-----------------------------------------------------------------------------
(* Readers: read_object, read_node, read_checkpoint and tail reads         *)

(* Log::missing_read_error                                                 *)
MissingRead(h, current) ==
  CASE current.collection_epoch > h.collection_epoch -> "ViewExpired"
    [] current.collection_epoch = h.collection_epoch -> "Corrupt"
    [] OTHER -> "Invalid"

SessionHead(r) == retainers[r].session.head

(* A read of some object of the session's view finds nothing.              *)
ReadMissing(r) ==
  /\ r \notin missed
  /\ \E k \in Live(SessionHead(r)) : k \notin objects
  /\ missed' = missed \cup {r}
  /\ UNCHANGED readErrors

(* The head is loaded again to say what that means.                        *)
ExplainMissingRead(r) ==
  /\ r \in missed
  /\ missed' = missed \ {r}
  /\ readErrors' = readErrors \cup
       {[retained |-> retainers[r].pc = "holding", error |-> MissingRead(SessionHead(r), head)]}

-----------------------------------------------------------------------------
Fault == faults > 0 /\ faults' = faults - 1

Next ==
  \/ /\ Land
     /\ UNCHANGED <<collectorVars, stagingVars, retainerVars, collectionVars>>
  \/ /\ LandCreate
     /\ UNCHANGED <<storeVars, collectorVars, retainerVars, collectionVars>>
  \/ /\ LandDelete
     /\ UNCHANGED <<creating, publishers, failures, retainerVars, missed, readErrors, faults>>
  \/ /\ \E p \in Publishers : \/ PublisherStep(p) /\ UNCHANGED faults
                              \/ Fault /\ PublisherFault(p)
     /\ UNCHANGED <<retainerVars, marking, deleting, missed, readErrors>>
  \/ /\ \E c \in Collectors : \/ CollectStep(c) /\ UNCHANGED faults
                              \/ Fault /\ CollectFault(c)
     /\ UNCHANGED <<creating, publishers, failures, retainerVars, missed, readErrors>>
  \/ /\ \E r \in Readers \ missed : ReaderStep(r) \/ RetainerStep(r)
     /\ UNCHANGED <<collectorVars, stagingVars, collectionVars>>
  \/ /\ \E r \in Readers : ReadMissing(r) \/ ExplainMissingRead(r)
     /\ UNCHANGED <<storeVars, collectorVars, stagingVars, retainerVars>>
     /\ UNCHANGED <<marking, deleting, faults>>

Spec == Init /\ [][Next]_vars

-----------------------------------------------------------------------------
(* Everything that the durable head reaches is in the store: whatever was  *)
(* retried, resumed from a token or published next to a collection, no     *)
(* live object was deleted before or after it became live.                 *)
LiveObjectsExist == Live(head) \subseteq objects

(* Keys that some collector, or a deletion that failed earlier, may still  *)
(* delete: those of the plans it is working on.                            *)
Doomed ==
  deleting \cup UNION {contents[collectors[c].plan].refs :
                         c \in {d \in Collectors : collectors[d].pc = "delete"}}

(* A deletion that is late, repeated, or made by a collector that another  *)
(* one has overtaken, hits only objects that are not live and that no      *)
(* publisher can make live: no proof of the current epoch names them.      *)
DoomedIsDead ==
  LET usable == UNION {{q.key : q \in {proof \in publishers[p].proofs :
                                         proof.epoch = head.collection_epoch}} : p \in Publishers}
  IN Doomed \cap (Live(head) \cup Closure(usable)) = {}

(* A proof of the current collection epoch is as good as a read: the whole *)
(* graph below it is in the store and the active plan spares it.           *)
ProofsHold ==
  \A p \in Publishers : \A proof \in publishers[p].proofs :
    proof.epoch = head.collection_epoch =>
      /\ Closure({proof.key}) \subseteq objects
      /\ head.active_plan # None =>
           contents[head.active_plan].refs \cap Closure({proof.key}) = {}

(* What a collection removed is never taken for corruption: a reader that  *)
(* finds an object of its view missing is told that the view expired, and  *)
(* under a confirmed retention it finds everything; a client whose plan is *)
(* gone expires; and a publication, resumed or not, that finds a           *)
(* dependency missing works on a view of an earlier collection epoch.      *)
AbsenceMeansExpiry ==
  /\ \A e \in readErrors : e.error = "ViewExpired" /\ ~e.retained
  /\ "Corrupt" \notin planErrors
  /\ \A f \in failures : f.call # "stage" => f.expired

-----------------------------------------------------------------------------
(* A collector that keeps running.                                         *)
FairSpec == Spec /\ \A c \in Collectors : WF_vars(CollectStep(c) /\ UNCHANGED
  <<creating, publishers, failures, retainerVars, missed, readErrors, faults>>)


=============================================================================
