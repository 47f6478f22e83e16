----------------------------- MODULE Retentions -----------------------------
(***************************************************************************)
(* Reader retention: Log::retain, release_retention and                    *)
(* clear_retentions_after_drain (all change_retention), driven the way     *)
(* examples/git drives them.  A reader draws an identity, acquires it,     *)
(* reads, and releases it whatever happened; an operator clears the        *)
(* retentions that lost their owner once no reader is active.  The session *)
(* of examples/wal-component keeps the view that each call returns.        *)
(***************************************************************************)
EXTENDS HeadStore

CONSTANTS
  Readers,      \* the clients that read under a retention
  Operators     \* the clients that clear retentions after a drain

ASSUME ReadersAssumption == Readers \subseteq Clients /\ Operators \subseteq Clients

VARIABLES
  retainers,    \* the local state of each reader and operator
  released      \* identities whose release was confirmed (observer)

retainerVars == <<retainers, released>>

NoChange == [kind |-> "Acquire", id |-> None]

(* pc "call": between two calls for the same change; "holding": reading    *)
(* session: the view of the session; view, attempt: the state of the loop  *)
IdleRetainer ==
  [pc |-> "idle", change |-> NoChange, session |-> NoView, view |-> NoView,
   attempt |-> 0]

RetentionsInit ==
  /\ retainers = [r \in Readers \cup Operators |-> IdleRetainer]
  /\ released = {}

-----------------------------------------------------------------------------
RetainerBecomes(r, state) ==
  /\ retainers' = [retainers EXCEPT ![r] = state]
  /\ UNCHANGED released

(* The change is confirmed: an acquirer holds, the others are done.        *)
Confirmed(r, view) ==
  LET change == retainers[r].change IN
  /\ retainers' = [retainers EXCEPT ![r] =
       IF change.kind = "Acquire"
       THEN [IdleRetainer EXCEPT !.pc = "holding", !.change = change, !.session = view]
       ELSE IdleRetainer]
  /\ released' = IF change.kind = "Release" THEN released \cup {change.id} ELSE released

(* Between two calls for the same change.                                  *)
BetweenCalls(r, change, view) ==
  RetainerBecomes(r, [IdleRetainer EXCEPT !.pc = "call", !.change = change,
                                          !.session = view])

(* accept_retention: a status that carries a view moves the session to it. *)
AcceptRetention(r, status, view) ==
  CASE status = "Applied" -> Confirmed(r, view)
    [] status \in {"ActiveCollection", "Conflict"} ->
         BetweenCalls(r, retainers[r].change, view)
    [] status = "Pending" ->
         BetweenCalls(r, retainers[r].change, retainers[r].session)

(* resolveAcquire gives up (an error, a cancelled request, no attempt left)*)
(* and the deferred release runs; a release that gives up is abandoned.    *)
GiveUp(r) ==
  IF retainers[r].change.kind = "Acquire"
  THEN BetweenCalls(r, [retainers[r].change EXCEPT !.kind = "Release"], retainers[r].session)
  ELSE RetainerBecomes(r, IdleRetainer)

Drained == \A r \in Readers : retainers[r].pc = "idle"
Recovering == \E o \in Operators : retainers[o].pc # "idle"

-----------------------------------------------------------------------------
(* A request opens a session and draws an identity.                        *)
StartReader(r) ==
  /\ retainers[r].pc = "idle"
  /\ ~Recovering
  /\ BetweenCalls(r, [kind |-> "Acquire", id |-> Fresh(r)], Observed)
  /\ Draw(r)
  /\ UNCHANGED <<head, version, late, history, bases>>

StartRecovery(o) ==
  /\ retainers[o].pc = "idle"
  /\ Drained
  /\ BetweenCalls(o, [kind |-> "ClearAfterDrain", id |-> None], Observed)
  /\ Draw(o)
  /\ UNCHANGED <<head, version, late, history, bases>>

(* change_retention when the supplied view already settles the change: it  *)
(* is only refreshed.                                                      *)
RefreshRetention(r) ==
  LET me == retainers[r]
      moved == me.change.kind = "Acquire"
                 /\ head.collection_epoch # me.session.head.collection_epoch
      status == IF moved THEN "Conflict"
                ELSE ClassifyRetention(me.change, head)
  IN
  /\ me.pc = "call"
  /\ ClassifyRetention(me.change, me.session.head) # "Conflict"
  /\ AcceptRetention(r, status, Observed)
  /\ UNCHANGED storeVars

(* The head must change: the first attempt starts from the supplied view.  *)
ChangeRetention(r) ==
  /\ retainers[r].pc = "call"
  /\ ClassifyRetention(retainers[r].change, retainers[r].session.head) = "Conflict"
  /\ RetainerBecomes(r, [retainers[r] EXCEPT !.pc = "update", !.attempt = 0,
                                             !.view = retainers[r].session])
  /\ UNCHANGED storeVars

RetentionIdLimit(r) ==
  /\ retainers[r].change.kind = "Acquire"
  /\ Cardinality(retainers[r].view.head.retention_ids) >= MaxRetentionIds

RetentionCandidate(r) == RetentionHead(retainers[r].view.head, retainers[r].change)

(* Mutation: the returned view pairs the new version with the old head.    *)
AppliedWithOldHead(r) ==
  /\ retainers[r].pc = "update"
  /\ ~RetentionIdLimit(r)
  /\ UpdateApplied(retainers[r].view, RetentionCandidate(r))
  /\ AcceptRetention(r, "Applied", [head |-> retainers[r].view.head,
                                    version |-> retainers[r].view.version + 1])
  /\ UNCHANGED quota

RetentionApplied(r) ==
  /\ retainers[r].pc = "update"
  /\ ~RetentionIdLimit(r)
  /\ UpdateApplied(retainers[r].view, RetentionCandidate(r))
  /\ AcceptRetention(r, "Applied",
       [head |-> RetentionCandidate(r), version |-> retainers[r].view.version + 1])
  /\ UNCHANGED quota

RetentionRejected(r) ==
  /\ retainers[r].pc = "update"
  /\ ~RetentionIdLimit(r)
  /\ UpdateInFlight(retainers[r].view, RetentionCandidate(r))
  /\ RetainerBecomes(r, [retainers[r] EXCEPT !.pc = "reload"])
  /\ UNCHANGED quota

RetentionUncertain(r) ==
  /\ retainers[r].pc = "update"
  /\ ~RetentionIdLimit(r)
  /\ UpdateInFlight(retainers[r].view, RetentionCandidate(r))
  /\ AcceptRetention(r, "Pending", NoView)
  /\ UNCHANGED quota

(* Every identity is in use, or the request guard refuses: an error.       *)
RetentionRefused(r) ==
  /\ retainers[r].pc = "update"
  /\ GiveUp(r)
  /\ UNCHANGED storeVars

(* Only an acquisition goes round the loop.                                *)
RetentionReload(r) ==
  LET me == retainers[r]
      acquiring == me.change.kind = "Acquire"
      status == ClassifyRetention(me.change, head)
  IN
  /\ me.pc = "reload"
  /\ CASE SameObservation(me.view, Observed) -> AcceptRetention(r, "Pending", NoView)
       [] ~SameObservation(me.view, Observed) /\ acquiring
            /\ head.collection_epoch # me.session.head.collection_epoch ->
            AcceptRetention(r, "Conflict", Observed)
       [] ~SameObservation(me.view, Observed) /\ acquiring /\ status = "Conflict"
            /\ head.collection_epoch = me.session.head.collection_epoch
            /\ me.attempt + 1 < MaxAttempts ->
            IF head.generation <= me.view.head.generation THEN GiveUp(r)
            ELSE RetainerBecomes(r, [me EXCEPT !.pc = "update", !.view = Observed,
                                               !.attempt = @ + 1])
       [] OTHER -> AcceptRetention(r, status, Observed)
  /\ UNCHANGED storeVars

RetentionReloadFails(r) ==
  /\ retainers[r].pc = "reload"
  /\ AcceptRetention(r, "Pending", NoView)
  /\ UNCHANGED storeVars

(* An error of the refresh, a cancelled request or the last attempt of the *)
(* caller's loop.                                                          *)
CallerGivesUp(r) ==
  /\ retainers[r].pc = "call"
  /\ GiveUp(r)
  /\ UNCHANGED storeVars

(* The read is over: retained runs its deferred release.                   *)
FinishReading(r) ==
  /\ retainers[r].pc = "holding"
  /\ BetweenCalls(r, [retainers[r].change EXCEPT !.kind = "Release"], retainers[r].session)
  /\ UNCHANGED storeVars

(* The process stops: its retention, if any, has no owner any more.        *)
RetainerCrash(r) ==
  /\ retainers[r].pc # "idle"
  /\ RetainerBecomes(r, IdleRetainer)
  /\ UNCHANGED storeVars

ReaderStep(r) == StartReader(r) \/ FinishReading(r)

RetainerStep(r) ==
  \/ RefreshRetention(r)
  \/ ChangeRetention(r)
  \/ RetentionApplied(r)
  \/ RetentionRejected(r)
  \/ RetentionUncertain(r)
  \/ RetentionRefused(r)
  \/ RetentionReload(r)
  \/ RetentionReloadFails(r)
  \/ CallerGivesUp(r)
  \/ RetainerCrash(r)

=============================================================================
