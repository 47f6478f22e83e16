------------------------------- MODULE Fences -------------------------------
(***************************************************************************)
(* The head protocol of garbage collection: Log::start_collection writes a *)
(* deletion plan and installs it in the head as a fence, resume_collection *)
(* deletes what the plan names, clears the fence and removes the plan.     *)
(* Any collector may resume any active plan.  Which objects a plan names   *)
(* is left to a later module: here a plan is an object that exists or not, *)
(* and has been swept (its deletions all succeeded) or not.                *)
(***************************************************************************)
EXTENDS HeadStore

CONSTANT Collectors   \* the clients that collect

ASSUME CollectorsAssumption == Collectors \subseteq Clients

VARIABLES
  collectors,   \* the local state of each collector
  plans,        \* the plan objects in the store
  swept,        \* plans whose candidates were all deleted once (observer)
  planErrors    \* what readers of a missing plan were told (observer)

collectorVars == <<collectors, plans, swept, planErrors>>

(* view: the view that the next head update of the call starts from        *)
IdleCollector == [pc |-> "idle", plan |-> None, view |-> NoView, attempt |-> 0]

FencesInit ==
  /\ collectors = [c \in Collectors |-> IdleCollector]
  /\ plans = {}
  /\ swept = {}
  /\ planErrors = {}

-----------------------------------------------------------------------------
CollectorBecomes(c, state) == collectors' = [collectors EXCEPT ![c] = state]

KeepPlans == UNCHANGED <<plans, swept, planErrors>>

(* The caller holds a view with this plan in its fence.                    *)
HoldFence(c, plan) ==
  CollectorBecomes(c, [IdleCollector EXCEPT !.pc = "fenced", !.plan = plan])

FinishWithCleanup(c) ==
  CollectorBecomes(c, [IdleCollector EXCEPT !.pc = "cleanup", !.plan = collectors[c].plan])

(* Mutation: only a newer epoch explains a missing plan.                   *)
MissingUnlessNewEpoch(h, plan, current) ==
  IF current.collection_epoch > h.collection_epoch THEN "ViewExpired" ELSE "Corrupt"

(* read_collection_plan when the plan object is missing: a fence that is   *)
(* gone from a newer head expires the view, anything else is corruption.   *)
MissingPlan(h, plan, current) ==
  IF /\ current.generation > h.generation
     /\ current.active_plan # plan
     /\ \/ current.collection_epoch > h.collection_epoch
        \/ /\ current.collection_epoch = h.collection_epoch
           /\ current.active_plan = None
  THEN "ViewExpired" ELSE "Corrupt"

-----------------------------------------------------------------------------
(* Mutation: retained readers do not stop a collection.                    *)
CollectOverReaders(c) ==
  /\ collectors[c].pc = "idle"
  /\ head.active_plan = None
  /\ CollectorBecomes(c, [IdleCollector EXCEPT !.pc = "install", !.plan = Fresh(c),
                                               !.view = Observed])
  /\ plans' = plans \cup {Fresh(c)}
  /\ Draw(c)
  /\ UNCHANGED <<head, version, late, history, bases, swept, planErrors>>

(* start_collection on a freshly loaded view: an active plan is taken up;  *)
(* otherwise, with no retention, the live graph is marked and a plan       *)
(* object created for the candidates found.                                *)
StartCollection(c) ==
  /\ collectors[c].pc = "idle"
  /\ head.active_plan = None /\ head.retention_ids = {}
  /\ CollectorBecomes(c, [IdleCollector EXCEPT !.pc = "install", !.plan = Fresh(c),
                                               !.view = Observed])
  /\ plans' = plans \cup {Fresh(c)}
  /\ Draw(c)
  /\ UNCHANGED <<head, version, late, history, bases, swept, planErrors>>

(* Mutation: a collector takes up its own plans only.                      *)
TakeUpOwnCollection(c) ==
  /\ collectors[c].pc = "idle"
  /\ head.active_plan # None
  /\ head.active_plan[1] = c
  /\ HoldFence(c, head.active_plan)
  /\ KeepPlans
  /\ UNCHANGED storeVars

TakeUpCollection(c) ==
  /\ collectors[c].pc = "idle"
  /\ head.active_plan # None
  /\ HoldFence(c, head.active_plan)
  /\ KeepPlans
  /\ UNCHANGED storeVars

Fenced(c) == FenceHead(collectors[c].view.head, collectors[c].plan)

InstallApplied(c) ==
  /\ collectors[c].pc = "install"
  /\ UpdateApplied(collectors[c].view, Fenced(c))
  /\ HoldFence(c, collectors[c].plan)
  /\ KeepPlans
  /\ UNCHANGED quota

InstallRejected(c) ==
  /\ collectors[c].pc = "install"
  /\ UpdateInFlight(collectors[c].view, Fenced(c))
  /\ CollectorBecomes(c, [collectors[c] EXCEPT !.pc = "reload"])
  /\ KeepPlans
  /\ UNCHANGED quota

(* CollectionStart::Pending; the caller starts again from a new load.      *)
InstallUncertain(c) ==
  /\ collectors[c].pc = "install"
  /\ UpdateInFlight(collectors[c].view, Fenced(c))
  /\ CollectorBecomes(c, IdleCollector)
  /\ KeepPlans
  /\ UNCHANGED quota

(* Mutation: a rejected install removes its plan although it may still     *)
(* take effect.                                                            *)
CleanupOnRejection(c) ==
  LET me == collectors[c] IN
  /\ me.pc = "reload"
  /\ IF head.active_plan = me.plan THEN HoldFence(c, me.plan) ELSE FinishWithCleanup(c)
  /\ KeepPlans
  /\ UNCHANGED storeVars

InstallReload(c) ==
  LET me == collectors[c] IN
  /\ me.pc = "reload"
  /\ CASE head.active_plan = me.plan ->
            HoldFence(c, me.plan)
       [] head.active_plan # me.plan /\ SameObservation(me.view, Observed) ->
            CollectorBecomes(c, IdleCollector)
       [] OTHER -> FinishWithCleanup(c)
  /\ KeepPlans
  /\ UNCHANGED storeVars

(* The install is refused (an error) or the reload fails (Pending).        *)
StartFails(c) ==
  /\ collectors[c].pc \in {"install", "reload"}
  /\ CollectorBecomes(c, IdleCollector)
  /\ KeepPlans
  /\ UNCHANGED storeVars

(* resume_collection: the head decides whether the plan is still active.   *)
ResumeCollection(c) ==
  LET me == collectors[c] IN
  /\ me.pc = "fenced"
  /\ CASE head.active_plan = None ->
            FinishWithCleanup(c)
       [] head.active_plan \notin {None, me.plan} ->
            CollectorBecomes(c, IdleCollector)
       [] head.active_plan = me.plan ->
            CollectorBecomes(c, [me EXCEPT !.pc = "read", !.view = Observed])
  /\ KeepPlans
  /\ UNCHANGED storeVars

(* read_collection_plan; when the plan is missing the head is read again.  *)
ReadPlan(c) ==
  LET me == collectors[c] IN
  /\ me.pc = "read"
  /\ CollectorBecomes(c, [me EXCEPT !.pc = IF me.plan \in plans THEN "delete" ELSE "missing"])
  /\ KeepPlans
  /\ UNCHANGED storeVars

ExplainMissingPlan(c) ==
  LET me == collectors[c] IN
  /\ me.pc = "missing"
  /\ CollectorBecomes(c, IdleCollector)
  /\ planErrors' = planErrors \cup {MissingPlan(me.view.head, me.plan, head)}
  /\ UNCHANGED <<storeVars, plans, swept>>

(* Mutation: a failed batch does not keep the fence.                       *)
IgnoreFailedBatch(c) ==
  /\ collectors[c].pc = "delete"
  /\ CollectorBecomes(c, [collectors[c] EXCEPT !.pc = "clear", !.attempt = 0])
  /\ UNCHANGED <<storeVars, plans, swept, planErrors>>

(* Every deletion batch succeeds.                                          *)
DeleteBatches(c) ==
  /\ collectors[c].pc = "delete"
  /\ CollectorBecomes(c, [collectors[c] EXCEPT !.pc = "clear", !.attempt = 0])
  /\ swept' = swept \cup {collectors[c].plan}
  /\ UNCHANGED <<storeVars, plans, planErrors>>

(* CollectionFinish::Pending: a batch or the reload fails, or is refused.  *)
ResumeFails(c) ==
  /\ collectors[c].pc \in {"read", "missing", "delete", "clear", "clearReload"}
  /\ HoldFence(c, collectors[c].plan)
  /\ KeepPlans
  /\ UNCHANGED storeVars

(* clear_collection_plan.                                                  *)
Unfenced(c) == UnfencedHead(collectors[c].view.head)

ClearApplied(c) ==
  /\ collectors[c].pc = "clear"
  /\ UpdateApplied(collectors[c].view, Unfenced(c))
  /\ FinishWithCleanup(c)
  /\ KeepPlans
  /\ UNCHANGED quota

ClearRejected(c) ==
  /\ collectors[c].pc = "clear"
  /\ UpdateInFlight(collectors[c].view, Unfenced(c))
  /\ CollectorBecomes(c, [collectors[c] EXCEPT !.pc = "clearReload"])
  /\ KeepPlans
  /\ UNCHANGED quota

ClearUncertain(c) ==
  /\ collectors[c].pc = "clear"
  /\ UpdateInFlight(collectors[c].view, Unfenced(c))
  /\ HoldFence(c, collectors[c].plan)
  /\ KeepPlans
  /\ UNCHANGED quota

ClearReload(c) ==
  LET me == collectors[c] IN
  /\ me.pc = "clearReload"
  /\ CASE SameObservation(me.view, Observed) ->
            HoldFence(c, me.plan)
       [] ~SameObservation(me.view, Observed) /\ head.active_plan = None ->
            FinishWithCleanup(c)
       [] ~SameObservation(me.view, Observed) /\ head.active_plan # None
            /\ \/ head.active_plan # me.plan
               \/ head.generation <= me.view.head.generation
               \/ me.attempt + 1 = MaxAttempts ->
            CollectorBecomes(c, IdleCollector)
       [] OTHER ->
            CollectorBecomes(c, [me EXCEPT !.pc = "clear", !.view = Observed,
                                           !.attempt = @ + 1])
  /\ KeepPlans
  /\ UNCHANGED storeVars

(* cleanup_collection_plan: the plan is deleted, or that fails unnoticed.  *)
CleanupPlan(c) ==
  /\ collectors[c].pc = "cleanup"
  /\ CollectorBecomes(c, IdleCollector)
  /\ plans' \in {plans, plans \ {collectors[c].plan}}
  /\ UNCHANGED <<storeVars, swept, planErrors>>

(* The process stops, or its caller gives up; another one may take over.   *)
CollectorCrash(c) ==
  /\ collectors[c].pc # "idle"
  /\ CollectorBecomes(c, IdleCollector)
  /\ KeepPlans
  /\ UNCHANGED storeVars

CollectorStep(c) ==
  \/ StartCollection(c)
  \/ TakeUpCollection(c)
  \/ InstallApplied(c)
  \/ InstallRejected(c)
  \/ InstallUncertain(c)
  \/ InstallReload(c)
  \/ StartFails(c)
  \/ ResumeCollection(c)
  \/ ReadPlan(c)
  \/ ExplainMissingPlan(c)
  \/ DeleteBatches(c)
  \/ ResumeFails(c)
  \/ ClearApplied(c)
  \/ ClearRejected(c)
  \/ ClearUncertain(c)
  \/ ClearReload(c)
  \/ CleanupPlan(c)
  \/ CollectorCrash(c)

=============================================================================
