------------------------------ MODULE Commits -------------------------------
(***************************************************************************)
(* Commit publication: Log::prepare, commit, resolve and resume.  A writer *)
(* prepares one candidate against the view it loaded, saves its recovery   *)
(* token, publishes it with a conditional head update, and resolves an     *)
(* uncertain publication from memory (resolve) or, after its process       *)
(* stopped or a call failed, from the token alone (resume).                *)
(*                                                                         *)
(* A writer runs one call at a time.  Between two storage requests of a    *)
(* call any other client may act.                                          *)
(***************************************************************************)
EXTENDS HeadStore

CONSTANTS
  Writers,       \* the clients that publish commits
  Transactions   \* the transaction ids they use; two writers may share one

ASSUME WritersAssumption == Writers \subseteq Clients /\ None \notin Transactions

VARIABLES
  writers,       \* the local state of each writer
  answers        \* every definite answer given: [commit, status] (observer)

writerVars == <<writers, answers>>

NoCommit == [sequence |-> 0, transaction_id |-> None, storage_id |-> None,
             digest |-> None]

(* pc:       where the writer is                                           *)
(* call:     the call in progress, or the last one                         *)
(* commit:   the candidate's commit reference                              *)
(* token:    the view recorded in the recovery token                       *)
(* prepared: the view of the PreparedCommit in memory                      *)
(* source, view, attempt: the loop state of publish_head_compatible        *)
IdleWriter ==
  [pc |-> "idle", call |-> "commit", commit |-> NoCommit, token |-> NoView,
   prepared |-> NoView, source |-> NoView, view |-> NoView, attempt |-> 0]

CommitsInit ==
  /\ writers = [w \in Writers |-> IdleWriter]
  /\ answers = {}

-----------------------------------------------------------------------------
Become(w, state) ==
  /\ writers' = [writers EXCEPT ![w] = state]
  /\ UNCHANGED answers

Answer(w, status) ==
  /\ writers' = [writers EXCEPT ![w] = IdleWriter]
  /\ answers' = answers \cup {[commit |-> writers[w].commit, status |-> status]}

(* The call returns an error: the token is all that the application has.   *)
Fail(w) ==
  Become(w, [IdleWriter EXCEPT !.pc = "token", !.commit = writers[w].commit,
                               !.token = writers[w].token])

(* CommitStatus::Pending or Resolution::StillPending: a resumed candidate  *)
(* goes back to its token, the others keep the PreparedCommit.             *)
StillPending(w) ==
  IF writers[w].call = "resume" THEN Fail(w)
  ELSE Become(w, [IdleWriter EXCEPT !.pc = "pending", !.commit = writers[w].commit,
                    !.token = writers[w].token, !.prepared = writers[w].prepared])

(* The evidence in a changed head; commit keeps an expired candidate.      *)
Classify(w, h) ==
  LET status == ClassifyResolution(writers[w].commit, h) IN
  IF status = "Expired" /\ writers[w].call = "commit"
  THEN StillPending(w) ELSE Answer(w, status)

StartPublish(w, view) ==
  Become(w, [writers[w] EXCEPT !.pc = "publish", !.source = view,
                               !.view = view, !.attempt = 0])

(* Mutation: a retry proposes the head built from the first view.          *)
StaleCandidate(w) == CandidateHead(writers[w].source.head, writers[w].commit)

Candidate(w) == CandidateHead(writers[w].view.head, writers[w].commit)

-----------------------------------------------------------------------------
(* Log::load, then Log::prepare on that view (no storage request).         *)
Prepare(w, txn) ==
  /\ writers[w].pc = "idle"
  /\ ValidCommitPosition(head, txn)
  /\ Become(w, [IdleWriter EXCEPT
       !.pc = "prepared",
       !.commit = [sequence |-> head.next_sequence, transaction_id |-> txn,
                   storage_id |-> Fresh(w),
                   digest |-> [transaction_id |-> txn, expected_tip |-> Tip(head)]],
       !.token = Observed,
       !.prepared = Observed])
  /\ Draw(w)
  /\ UNCHANGED <<head, version, late, history, bases>>

(* Log::commit up to publish_head: the dependencies are verified and the   *)
(* commit object is durable, or the call fails before any head update.     *)
Commit(w) ==
  /\ writers[w].pc = "prepared"
  /\ \/ StartPublish(w, writers[w].prepared)
     \/ Fail(w)
  /\ UNCHANGED storeVars

(* The four ways out of update_head inside publish_head_compatible.        *)
PublishApplied(w) ==
  /\ writers[w].pc = "publish"
  /\ UpdateApplied(writers[w].view, Candidate(w))
  /\ Answer(w, "Committed")
  /\ UNCHANGED quota

PublishRejected(w) ==
  /\ writers[w].pc = "publish"
  /\ UpdateInFlight(writers[w].view, Candidate(w))
  /\ Become(w, [writers[w] EXCEPT !.pc = "reload"])
  /\ UNCHANGED quota

PublishUncertain(w) ==
  /\ writers[w].pc = "publish"
  /\ UpdateInFlight(writers[w].view, Candidate(w))
  /\ StillPending(w)
  /\ UNCHANGED quota

(* The request guard refuses the write: commit reports the error.          *)
PublishDenied(w) ==
  /\ writers[w].pc = "publish"
  /\ IF writers[w].call = "commit" THEN Fail(w) ELSE StillPending(w)
  /\ UNCHANGED storeVars

(* The load after a rejected update fails.                                 *)
ReloadFails(w) ==
  /\ writers[w].pc = "reload"
  /\ StillPending(w)
  /\ UNCHANGED storeVars

Reload(w) ==
  LET me == writers[w]
      outcome == PublishReload(me.view, Observed, me.attempt,
                   HasSamePublicationBase(me.source.head, head))
  IN
  /\ me.pc = "reload"
  /\ CASE outcome = "Changed" -> Classify(w, head)
       [] outcome = "Pending" -> StillPending(w)
       [] outcome = "Contended" -> Answer(w, "NotCommitted")
       [] outcome = "Corrupt" -> Answer(w, "Corrupt")
       [] outcome = "Retry" ->
            Become(w, [me EXCEPT !.pc = "publish", !.view = Observed,
                                 !.attempt = @ + 1])
  /\ UNCHANGED storeVars

(* Mutation: an unchanged head is waited for, not published again.         *)
WaitForHead(w) ==
  LET me == writers[w] IN
  /\ me.pc \in {"pending", "resumed"}
  /\ IF HasSamePublicationBase(me.prepared.head, head) THEN StillPending(w)
     ELSE Answer(w, ClassifyResolution(me.commit, head))
  /\ UNCHANGED storeVars

(* Log::resolve: load, then classify a changed head or publish again.      *)
Resolve(w) ==
  LET me == writers[w]
      outcome == PublicationView(me.prepared, Observed,
                   HasSamePublicationBase(me.prepared.head, head))
  IN
  /\ me.pc \in {"pending", "resumed"}
  /\ CASE outcome = "Changed" ->
            LET status == ClassifyResolution(me.commit, head) IN Answer(w, status)
       [] outcome = "Corrupt" -> Answer(w, "Corrupt")
       [] outcome = "Publish" ->
            Become(w, [me EXCEPT !.pc = "verify", !.source = Observed,
                         !.call = IF me.pc = "resumed" THEN "resume" ELSE "resolve"])
  /\ UNCHANGED storeVars

(* A load or a verification read of resolve or resume fails.               *)
ResolveFails(w) ==
  /\ writers[w].pc \in {"resumed", "verify"}
  /\ StillPending(w)
  /\ UNCHANGED storeVars

(* verify_publication and ensure_immutable inside resolve succeed.         *)
ResolveVerified(w) ==
  /\ writers[w].pc = "verify"
  /\ StartPublish(w, writers[w].source)
  /\ UNCHANGED storeVars

(* Log::resume: only the token is known; the head decides.                 *)
Resume(w) ==
  LET me == writers[w]
      exact == SameObservation(me.token, Observed)
      retention_only == PublicationBase(head) = PublicationBase(me.token.head)
  IN
  /\ me.pc = "token"
  /\ CASE exact \/ (retention_only /\ head.generation > me.token.head.generation) ->
            IF head.next_sequence = me.commit.sequence /\ Tip(head) = me.commit.digest.expected_tip
            THEN Become(w, [me EXCEPT !.pc = "resumed", !.call = "resume",
                                      !.prepared = Observed])
            ELSE Answer(w, "Corrupt")
       [] ~exact /\ retention_only
            /\ head.generation <= me.token.head.generation -> Answer(w, "Corrupt")
       [] OTHER -> LET status == ClassifyResolution(me.commit, head) IN Answer(w, status)
  /\ UNCHANGED storeVars

(* The process stops, or a call fails: only the recovery token is left.    *)
Crash(w) ==
  /\ writers[w].pc \notin {"idle", "token"}
  /\ Fail(w)
  /\ UNCHANGED storeVars

WriterStep(w) ==
  \/ \E txn \in Transactions : Prepare(w, txn)
  \/ Commit(w)
  \/ PublishApplied(w)
  \/ PublishRejected(w)
  \/ PublishUncertain(w)
  \/ PublishDenied(w)
  \/ Reload(w)
  \/ ReloadFails(w)
  \/ Resolve(w)
  \/ ResolveFails(w)
  \/ ResolveVerified(w)
  \/ Resume(w)
  \/ Crash(w)

=============================================================================
