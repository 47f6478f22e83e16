------------------------------ MODULE Session -------------------------------
(***************************************************************************)
(* The resources that the WAL component gives to a host: a Session with    *)
(* its cached view, a Recovery that reads one exact view, a Candidate that *)
(* is published once, and the recovery token that outlives them.           *)
(*                                                                         *)
(* Each host has one operation to apply.  It saves the token before it     *)
(* publishes; when publish fails it may publish the candidate again or     *)
(* resume the token; only after Conflict or NotCommitted does it refresh,  *)
(* recover and prepare the operation anew.  The component runs one call of *)
(* a host at a time.                                                       *)
(***************************************************************************)
EXTENDS ObjectLog

VARIABLE hosts      \* the resources of each host, and its operation

sessionVars == <<vars, hosts>>

(* items: what next() has still to return; complete: it returned None      *)
NoRecovery == [view |-> None, items |-> 0, complete |-> FALSE]

(* session:   the cached view, None while the host is not running          *)
(* fresh:     the session was opened, refreshed or resumed since the last  *)
(*            candidate was prepared                                       *)
(* candidate: the PreparedCommit's view while the Candidate is live        *)
(* operation: what the host knows of it, which it keeps through a crash    *)
NewHost ==
  [session |-> None, fresh |-> FALSE, recovery |-> NoRecovery,
   candidate |-> None, operation |-> "todo"]

SessionInit == Init /\ hosts = [w \in Writers |-> NewHost]

HostBecomes(w, state) ==
  /\ hosts' = [hosts EXCEPT ![w] = state]
  /\ UNCHANGED <<checkpointVars, retainerVars, collectorVars>>

Running(w) == hosts[w].session # None

(* No call in progress and no candidate to settle.                         *)
Free(w) == Running(w) /\ writers[w].pc = "idle" /\ hosts[w].operation = "todo"

-----------------------------------------------------------------------------
(* open_session, by a host that can prepare a candidate or has a token.    *)
OpenSession(w) ==
  /\ ~Running(w) /\ hosts[w].operation = "todo"
  /\ CanDraw(w) \/ writers[w].pc = "token"
  /\ HostBecomes(w, [hosts[w] EXCEPT !.session = Observed, !.fresh = TRUE])
  /\ UNCHANGED <<storeVars, writerVars>>

(* refresh: a new Session, which the host uses from here on.               *)
Refresh(w) ==
  /\ Free(w) /\ ~hosts[w].fresh
  /\ HostBecomes(w, [hosts[w] EXCEPT !.session = Observed, !.fresh = TRUE])
  /\ UNCHANGED <<storeVars, writerVars>>

(* recover: a cursor over the cached view, however old it is by now.       *)
Recover(w) ==
  /\ Free(w) /\ hosts[w].fresh /\ hosts[w].recovery = NoRecovery
  /\ LET view == hosts[w].session IN
     HostBecomes(w, [hosts[w] EXCEPT !.recovery =
       [view |-> view, complete |-> FALSE,
        items |-> Len(view.head.tail)
                    + IF view.head.checkpoint = NoCheckpoint THEN 0 ELSE 1]])
  /\ UNCHANGED <<storeVars, writerVars>>

NextItem(w) ==
  LET cursor == hosts[w].recovery IN
  /\ cursor.view # None /\ ~cursor.complete
  /\ HostBecomes(w, [hosts[w] EXCEPT !.recovery =
       IF cursor.items = 0 THEN [cursor EXCEPT !.complete = TRUE]
       ELSE [cursor EXCEPT !.items = @ - 1]])
  /\ UNCHANGED <<storeVars, writerVars>>

(* prepare on the recovered view; the host saves the candidate's token.    *)
(* The transaction id of an operation is its host's own.                   *)
PrepareCandidate(w) ==
  LET view == hosts[w].recovery.view IN
  /\ Free(w) /\ hosts[w].recovery.complete
  /\ ValidCommitPosition(view.head, w)
  /\ Become(w, [IdleWriter EXCEPT
       !.pc = "prepared",
       !.commit = [sequence |-> view.head.next_sequence, transaction_id |-> w,
                   storage_id |-> Fresh(w),
                   digest |-> [transaction_id |-> w, expected_tip |-> Tip(view.head)]],
       !.token = view])
  /\ Draw(w)
  /\ HostBecomes(w, [hosts[w] EXCEPT !.candidate = view, !.fresh = FALSE,
                                     !.recovery = NoRecovery])
  /\ UNCHANGED <<head, version, late, history, bases>>

-----------------------------------------------------------------------------
(* publish: Log::commit on a clone of the live candidate, for the first    *)
(* time or again after an error.                                           *)
PublishCandidate(w) ==
  /\ writers[w].pc \in {"prepared", "token"}
  /\ hosts[w].candidate # None
  /\ StartPublish(w, hosts[w].candidate)
  /\ HostBecomes(w, hosts[w])
  /\ UNCHANGED storeVars

(* Log::commit fails before it sends a head update.                        *)
PublishFails(w) ==
  /\ writers[w].pc = "prepared"
  /\ Fail(w)
  /\ HostBecomes(w, hosts[w])
  /\ UNCHANGED storeVars

(* What the host knows of its operation once the call has answered.        *)
Known(w) ==
  LET given == {a \in answers' : a.commit = writers[w].commit} IN
  IF given = {} THEN hosts[w].operation
  ELSE IF \E a \in given : a.status = "Committed" THEN "done"
  ELSE IF \E a \in given : a.status = "Expired" THEN "unknown"
  ELSE "todo"

(* The storage steps of Log::commit; an answer takes the candidate, an     *)
(* error leaves it live.                                                   *)
CommitReturns(w) ==
  /\ writers[w].call = "commit"
  /\ \/ PublishApplied(w) \/ PublishRejected(w) \/ PublishUncertain(w)
     \/ PublishDenied(w) \/ Reload(w) \/ ReloadFails(w)
  /\ HostBecomes(w, [hosts[w] EXCEPT
       !.operation = Known(w),
       !.candidate = IF writers'[w].pc \in {"idle", "pending"} THEN None ELSE @])

(* Mutation: an uncertain publication is reported as a conflict.           *)
PendingIsConflict(w) ==
  /\ writers[w].pc = "pending"
  /\ Become(w, IdleWriter)
  /\ HostBecomes(w, hosts[w])
  /\ UNCHANGED storeVars

(* Outcome::Pending: the host has the token and nothing else.              *)
TakeToken(w) ==
  /\ writers[w].pc = "pending"
  /\ Fail(w)
  /\ HostBecomes(w, hosts[w])
  /\ UNCHANGED storeVars

(* Session::resume, from its load to its answer.  A definite answer brings *)
(* the view that it was decided on, StillPending returns the token.        *)
ResumeToken(w) ==
  /\ Running(w)
  /\ \/ Resume(w)
     \/ /\ writers[w].call = "resume"
        /\ \/ Resolve(w) \/ ResolveFails(w) \/ ResolveVerified(w)
           \/ PublishApplied(w) \/ PublishRejected(w) \/ PublishUncertain(w)
           \/ PublishDenied(w) \/ Reload(w) \/ ReloadFails(w)
  /\ HostBecomes(w, [hosts[w] EXCEPT
       !.operation = Known(w),
       !.session = IF writers'[w].pc = "idle" THEN Observed' ELSE @,
       !.fresh = writers'[w].pc = "idle",
       !.candidate = IF writers'[w].pc = "idle" THEN None ELSE @])

(* The host's process stops: the saved token and its own record of the     *)
(* operation are left.                                                     *)
HostCrash(w) ==
  /\ Running(w) /\ hosts[w].operation = "todo"
  /\ IF writers[w].pc \in {"idle", "token"} THEN UNCHANGED writerVars ELSE Fail(w)
  /\ HostBecomes(w, [NewHost EXCEPT !.operation = hosts[w].operation])
  /\ UNCHANGED storeVars

HostStep(w) ==
  \/ OpenSession(w)
  \/ Refresh(w)
  \/ Recover(w)
  \/ NextItem(w)
  \/ PrepareCandidate(w)
  \/ PublishCandidate(w)
  \/ PublishFails(w)
  \/ CommitReturns(w)
  \/ TakeToken(w)
  \/ ResumeToken(w)
  \/ HostCrash(w)

(* Checkpoints and retention changes of other sessions.                    *)
OtherSessions ==
  \/ /\ \E k \in Checkpointers : CheckpointerStep(k)
     /\ UNCHANGED <<writerVars, retainerVars, collectorVars, hosts>>
  \/ /\ \E r \in Readers : ReaderStep(r) \/ RetainerStep(r)
     /\ UNCHANGED <<writerVars, checkpointVars, collectorVars, hosts>>

SessionNext ==
  \/ /\ Land
     /\ UNCHANGED <<writerVars, checkpointVars, retainerVars, collectorVars, hosts>>
  \/ \E w \in Writers : HostStep(w)
  \/ OtherSessions

SessionSpec == SessionInit /\ [][SessionNext]_sessionVars

-----------------------------------------------------------------------------
(* A host that saves its token, publishes or resumes until it has a        *)
(* definite answer, and prepares again only after Conflict or NotCommitted *)
(* applies its operation at most once, whatever crashed, failed or was     *)
(* published again in between.                                             *)
OperationsApplyOnce ==
  \A i, j \in DOMAIN history :
    history[i].transaction_id = history[j].transaction_id => i = j

(* What a host remembers of its operation is true: an operation that is    *)
(* done is in the log, and one that is to be run again is not in the log   *)
(* and in no write that could still take effect.                           *)
HostsAreRight ==
  \A w \in Writers : writers[w].pc = "idle" =>
    LET published == \E i \in DOMAIN history : history[i].transaction_id = w
        coming == \E l \in late : Matches(l.version) /\
                    \E c \in Range(l.head.tail) : c.transaction_id = w
    IN /\ hosts[w].operation = "done" => published
       /\ hosts[w].operation = "todo" => ~published /\ ~coming

=============================================================================
