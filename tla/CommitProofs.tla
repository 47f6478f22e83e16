---------------------------- MODULE CommitProofs ----------------------------
(***************************************************************************)
(* Every head that a writer proposes is legal from the view it is written  *)
(* from: on the first attempt, on a retry over a compatible newer head,    *)
(* and after a recovery.  And no answer to a writer is contradicted later. *)
(***************************************************************************)
EXTENDS Commits, HeadStoreProofs, TLAPS

(* The candidate fits on the head it was prepared on, and each head that   *)
(* the writer may still publish it from is a view with the same base.      *)
WriterOk(me, h, n) ==
  /\ me = [pc |-> me.pc, call |-> me.call, commit |-> me.commit, token |-> me.token,
           prepared |-> me.prepared, source |-> me.source, view |-> me.view,
           attempt |-> me.attempt]
  /\ ViewOf(me.token, h, n) /\ ViewOf(me.prepared, h, n)
  /\ ViewOf(me.source, h, n) /\ ViewOf(me.view, h, n)
  /\ me.attempt \in Attempts
  /\ me.pc \in {"idle", "token", "prepared", "pending", "resumed", "verify",
                "publish", "reload"}
  /\ IF me.pc = "idle" THEN me = IdleWriter ELSE FollowsHead(me.token.head, me.commit)
  /\ me.pc \notin {"idle", "token"} =>
       HasSamePublicationBase(me.token.head, me.prepared.head)
  /\ me.pc \in {"verify", "publish", "reload"} =>
       HasSamePublicationBase(me.token.head, me.source.head)
  /\ me.pc \in {"publish", "reload"} =>
       HasSamePublicationBase(me.token.head, me.view.head)

WritersInv ==
  /\ writers = [w \in Writers |-> writers[w]]
  /\ \A w \in Writers : WriterOk(writers[w], head, version)

(* A writer that does not act keeps its promise.                           *)
LEMMA WritersStay ==
  ASSUME StoreInv, HeadStep, WritersInv, UNCHANGED writers
  PROVE  WritersInv'
<1>1. ASSUME NEW w \in Writers PROVE WriterOk(writers[w], head', version')
  BY ViewsStay DEF WritersInv, WriterOk
<1> QED BY <1>1 DEF WritersInv, WriterOk

(* One writer moves to a state that keeps it.                              *)
LEMMA WriterMoves ==
  ASSUME StoreInv, HeadStep, WritersInv, NEW w \in Writers, NEW state,
         writers' = [writers EXCEPT ![w] = state], WriterOk(state, head', version')
  PROVE  WritersInv'
<1>1. ASSUME NEW v \in Writers PROVE WriterOk(writers[v], head', version')
  BY ViewsStay DEF WritersInv, WriterOk
<1>2. /\ writers' = [v \in Writers |-> writers'[v]]
      /\ \A v \in Writers : writers'[v] = IF v = w THEN state ELSE writers[v]
  BY DEF WritersInv
<1>3. \A v \in Writers : WriterOk(writers'[v], head', version')
  BY <1>1, <1>2
<1> QED BY <1>2, <1>3 DEF WritersInv, WriterOk

(* The ways in which a call of a writer ends.                              *)
LEMMA CallEnds ==
  ASSUME StoreInv, StoreInv', HeadStep, WritersInv, NEW w \in Writers, NEW status,
         \/ Answer(w, status)
         \/ Fail(w) /\ writers[w].pc # "idle"
         \/ StillPending(w) /\ writers[w].pc \notin {"idle", "token"}
  PROVE  WritersInv'
<1> DEFINE me == writers[w]
<1>1. ViewOf(NoView, head', version')
  BY ViewsStay DEF StoreInv
<1>2. WriterOk(me, head', version')
  BY ViewsStay DEF WritersInv, WriterOk
<1> HIDE DEF me
<1>3. CASE Answer(w, status)
  <2>1. WriterOk(IdleWriter, head', version')
    BY <1>1, LoopAttempts DEF WriterOk, IdleWriter
  <2> QED BY <1>3, <2>1, WriterMoves, Zenon DEF Answer
<1>4. CASE Fail(w) /\ me.pc # "idle"
  <2>0. PICK state : state = [IdleWriter EXCEPT !.pc = "token", !.commit = me.commit,
                                         !.token = me.token]
    OBVIOUS
  <2>1. WriterOk(state, head', version')
    BY <2>0, <1>1, <1>2, <1>4, LoopAttempts, Zenon DEF WriterOk, IdleWriter
  <2>2. writers' = [writers EXCEPT ![w] = state]
    BY <1>4, <2>0 DEF Fail, Become, me
  <2> QED BY <2>1, <2>2, WriterMoves, Zenon
<1>5. CASE StillPending(w) /\ ~Fail(w) /\ me.pc \notin {"idle", "token"}
  <2>0. PICK state : state = [IdleWriter EXCEPT !.pc = "pending", !.commit = me.commit,
                         !.token = me.token, !.prepared = me.prepared]
    OBVIOUS
  <2>1. WriterOk(state, head', version')
    BY <2>0, <1>1, <1>2, <1>5, LoopAttempts, Zenon DEF WriterOk, IdleWriter
  <2>2. writers' = [writers EXCEPT ![w] = state]
    BY <1>5, <2>0 DEF StillPending, Become, me
  <2> QED BY <2>1, <2>2, WriterMoves, Zenon
<1> QED BY <1>3, <1>4, <1>5 DEF me

(* Every step of a writer makes the head take a legal step or none, and    *)
(* keeps its candidate publishable only where it fits.                     *)
LEMMA WriterKeeps ==
  ASSUME StoreInv, WritersInv, NEW w \in Writers, WriterStep(w)
  PROVE  StoreInv' /\ HeadStep /\ WritersInv'
<1> DEFINE me == writers[w]
<1>1. WriterOk(me, head, version) /\ w \in Clients
  BY WritersAssumption DEF WritersInv
<1>2. ViewOf(NoView, head, version) /\ ViewOf(Observed, head, version)
  BY ObservedIsView DEF StoreInv
<1>3. ASSUME UNCHANGED storeVars PROVE StoreInv' /\ HeadStep /\ UNCHANGED <<head, version>>
  BY <1>3, QuietKeepsStore DEF StoreInv, storeVars
<1> HIDE DEF me
<1>4. ASSUME NEW state, UNCHANGED storeVars, Become(w, state),
             WriterOk(state, head, version)
      PROVE  StoreInv' /\ HeadStep /\ WritersInv'
  BY <1>3, <1>4, WriterMoves, Zenon DEF Become
<1>5. ASSUME NEW status, UNCHANGED storeVars,
             \/ Answer(w, status)
             \/ Fail(w) /\ me.pc # "idle"
             \/ StillPending(w) /\ me.pc \notin {"idle", "token"}
      PROVE  StoreInv' /\ HeadStep /\ WritersInv'
  BY <1>3, <1>5, CallEnds DEF me
<1>6. ASSUME me.pc = "publish"
      PROVE  ViewOf(me.view, head, version) /\ LegalStep(me.view.head, Candidate(w))
  BY <1>1, <1>6, SameBaseSameFit, CandidateIsLegal DEF WriterOk, Candidate, ViewOf, me
<1>7. ASSUME NEW txn, Prepare(w, txn) PROVE StoreInv' /\ HeadStep /\ WritersInv'
  <2> DEFINE commit == [sequence |-> head.next_sequence, transaction_id |-> txn,
                        storage_id |-> Fresh(w),
                        digest |-> [transaction_id |-> txn, expected_tip |-> Tip(head)]]
  <2>0. PICK state : state = [IdleWriter EXCEPT !.pc = "prepared", !.commit = commit,
                         !.token = Observed, !.prepared = Observed]
    OBVIOUS
  <2>1. StoreInv' /\ HeadStep /\ UNCHANGED <<head, version>>
    BY <1>1, <1>7, DrawnIdentity, QuietKeepsStore DEF Prepare
  <2>2. FollowsHead(head, commit)
    BY <1>7 DEF Prepare, FollowsHead
  <2>3. writers' = [writers EXCEPT ![w] = state]
    BY <1>7, <2>0 DEF Prepare, Become
  <2> HIDE DEF commit
  <2>4. WriterOk(state, head, version)
    BY <2>0, <1>2, <2>2, LoopAttempts, Zenon DEF WriterOk, IdleWriter, Observed, HasSamePublicationBase
  <2> QED BY <2>1, <2>3, <2>4, WriterMoves, Zenon
<1>8. CASE Commit(w)
  <2>1. me.pc = "prepared" /\ UNCHANGED storeVars
    BY <1>8 DEF Commit, me
  <2>2. CASE StartPublish(w, me.prepared)
    <3>0. PICK state : state = [me EXCEPT !.pc = "publish", !.source = me.prepared,
                                   !.view = me.prepared, !.attempt = 0]
      OBVIOUS
    <3>1. WriterOk(state, head, version)
      BY <3>0, <1>1, <2>1, LoopAttempts, Zenon DEF WriterOk
    <3> QED BY <1>4, <2>1, <2>2, <3>0, <3>1 DEF StartPublish, me
  <2> QED BY <1>5, <1>8, <2>1, <2>2 DEF Commit, me
<1>9. CASE PublishApplied(w)
  <2>1. me.pc = "publish" /\ UpdateApplied(me.view, Candidate(w)) /\ UNCHANGED quota
        /\ Answer(w, "Committed")
    BY <1>9 DEF PublishApplied, me
  <2>2. StoreInv' /\ HeadStep
    BY <1>6, <2>1, UpdateKeepsStore
  <2> QED BY <2>1, <2>2, CallEnds
<1>10. CASE PublishRejected(w)
  <2>0. PICK state : state = [me EXCEPT !.pc = "reload"]
    BY Zenon
  <2>1. me.pc = "publish" /\ UpdateInFlight(me.view, Candidate(w)) /\ UNCHANGED quota
        /\ writers' = [writers EXCEPT ![w] = state]
    BY <1>10, <2>0 DEF PublishRejected, Become, me
  <2>2. StoreInv' /\ HeadStep /\ UNCHANGED <<head, version>>
    BY <1>6, <2>1, UpdateKeepsStore DEF UpdateInFlight
  <2>3. WriterOk(state, head, version)
    BY <2>0, <1>1, <2>1 DEF WriterOk
  <2> QED BY <2>1, <2>2, <2>3, WriterMoves, Zenon
<1>11. CASE PublishUncertain(w)
  <2>1. me.pc = "publish" /\ UpdateInFlight(me.view, Candidate(w)) /\ UNCHANGED quota
        /\ StillPending(w)
    BY <1>11 DEF PublishUncertain, me
  <2>2. StoreInv' /\ HeadStep
    BY <1>6, <2>1, UpdateKeepsStore
  <2> QED BY <2>1, <2>2, CallEnds DEF me
<1>12. CASE PublishDenied(w)
  BY <1>5, <1>12 DEF PublishDenied, me
<1>13. CASE ReloadFails(w)
  BY <1>5, <1>13 DEF ReloadFails, me
<1>14. CASE Reload(w)
  <2> DEFINE outcome == PublishReload(me.view, Observed, me.attempt,
                          HasSamePublicationBase(me.source.head, head))
  <2>0. PICK state : state = [me EXCEPT !.pc = "publish", !.view = Observed,
                                 !.attempt = me.attempt + 1]
    OBVIOUS
  <2>1. me.pc = "reload" /\ UNCHANGED storeVars
    BY <1>14 DEF Reload, me
  <2>2. CASE outcome = "Retry" /\ Become(w, state)
    <3>1. HasSamePublicationBase(me.source.head, head)
      BY <2>2 DEF PublishReload
    <3>2. HasSamePublicationBase(me.token.head, Observed.head)
      BY <1>1, <2>1, <3>1, SameBaseComposes DEF WriterOk, Observed
    <3>3. me.attempt + 1 \in Attempts
      <4>1. head.generation \in Nat /\ me.view.head.generation \in Nat
        BY <1>1, Zenon DEF StoreInv, WriterOk, ViewOf, HeadInvariant, IsHead
      <4>2. me.attempt + 1 # MaxAttempts
        BY <2>2, <4>1 DEF PublishReload, Observed
      <4> QED BY <1>1, <4>2, LoopAttempts DEF WriterOk
    <3>4. WriterOk(state, head, version)
      BY <2>0, <1>1, <1>2, <2>1, <3>2, <3>3, Zenon DEF WriterOk
    <3> QED BY <1>4, <2>1, <2>2, <3>4
  <2>3. CASE Classify(w, head)
    BY <1>5, <2>1, <2>3 DEF Classify
  <2>4. outcome \in {"Changed", "Pending", "Contended", "Corrupt", "Retry"}
    BY DEF PublishReload
  <2> HIDE DEF outcome
  <2>5. \/ Classify(w, head) \/ StillPending(w)
        \/ Answer(w, "NotCommitted") \/ Answer(w, "Corrupt")
        \/ outcome = "Retry" /\ Become(w, state)
    BY <1>14, <2>0, <2>4, Zenon DEF Reload, outcome, me
  <2> QED BY <1>5, <2>1, <2>2, <2>3, <2>5
<1>15. CASE Resolve(w)
  <2> DEFINE outcome == PublicationView(me.prepared, Observed,
                          HasSamePublicationBase(me.prepared.head, head))
             call == IF me.pc = "resumed" THEN "resume" ELSE "resolve"
  <2>0. PICK state : state = [me EXCEPT !.pc = "verify", !.source = Observed, !.call = call]
    OBVIOUS
  <2>1. me.pc \in {"pending", "resumed"} /\ UNCHANGED storeVars
    BY <1>15 DEF Resolve, me
  <2>2. CASE outcome = "Publish" /\ Become(w, state)
    <3>1. me.prepared = Observed \/ HasSamePublicationBase(me.prepared.head, head)
      BY <2>2 DEF PublicationView, SameObservation
    <3>2. HasSamePublicationBase(me.token.head, Observed.head)
      BY <1>1, <2>1, <3>1, SameBaseComposes DEF WriterOk, Observed
    <3>3. WriterOk(state, head, version)
      BY <2>0, <1>1, <1>2, <2>1, <3>2, Zenon DEF WriterOk
    <3> QED BY <1>4, <2>1, <2>2, <3>3
  <2>3. outcome \in {"Changed", "Corrupt", "Publish"}
    BY DEF PublicationView
  <2> HIDE DEF outcome
  <2>4. \/ Answer(w, ClassifyResolution(me.commit, head)) \/ Answer(w, "Corrupt")
        \/ outcome = "Publish" /\ Become(w, state)
    BY <1>15, <2>0, <2>3, Zenon DEF Resolve, outcome, me
  <2> QED BY <1>5, <2>1, <2>2, <2>4
<1>16. CASE ResolveFails(w)
  BY <1>5, <1>16 DEF ResolveFails, me
<1>17. CASE ResolveVerified(w)
  <2>0. PICK state : state = [me EXCEPT !.pc = "publish", !.source = me.source,
                                 !.view = me.source, !.attempt = 0]
    OBVIOUS
  <2>1. me.pc = "verify" /\ UNCHANGED storeVars /\ Become(w, state)
    BY <1>17, <2>0 DEF ResolveVerified, StartPublish, me
  <2>2. WriterOk(state, head, version)
    BY <2>0, <1>1, <2>1, LoopAttempts, Zenon DEF WriterOk
  <2> QED BY <1>4, <2>1, <2>2
<1>18. CASE Resume(w)
  <2> DEFINE exact == me.token = Observed
             retention_only == PublicationBase(head) = PublicationBase(me.token.head)
  <2>0. PICK state : state = [me EXCEPT !.pc = "resumed", !.call = "resume",
                                 !.prepared = Observed]
    OBVIOUS
  <2>1. me.pc = "token" /\ UNCHANGED storeVars
    BY <1>18 DEF Resume, me
  <2>2. CASE (exact \/ retention_only) /\ Become(w, state)
    <3>1. IsHead(me.token.head) /\ IsHead(head)
      BY <1>1, <2>1 DEF WriterOk, ViewOf, HeadInvariant, StoreInv
    <3>2. HasSamePublicationBase(me.token.head, Observed.head)
      BY <2>2, <3>1, SameDigestSameBase DEF Observed, HasSamePublicationBase
    <3>3. WriterOk(state, head, version)
      BY <2>0, <1>1, <1>2, <2>1, <3>2, Zenon DEF WriterOk
    <3> QED BY <1>4, <2>1, <2>2, <3>3
  <2>3. \/ Answer(w, ClassifyResolution(me.commit, head)) \/ Answer(w, "Corrupt")
        \/ (exact \/ retention_only) /\ Become(w, state)
    BY <1>18, <2>0 DEF Resume, SameObservation, me
  <2> QED BY <1>5, <2>1, <2>2, <2>3
<1>19. CASE Crash(w)
  BY <1>5, <1>19 DEF Crash, me
<1> QED BY <1>7, <1>8, <1>9, <1>10, <1>11, <1>12, <1>13, <1>14, <1>15, <1>16, <1>17,
           <1>18, <1>19 DEF WriterStep

-----------------------------------------------------------------------------
(* What a step of a writer does to its candidate.  While a write of the    *)
(* candidate may be in flight, the base is the one it was prepared on and  *)
(* the loop has not moved on to a newer version.                           *)
Open(me, h, n) ==
  /\ me.pc \notin {"idle", "prepared"}
  /\ HasSamePublicationBase(me.token.head, h)
  /\ me.pc = "verify" => me.source.version = n
  /\ me.pc \in {"publish", "reload"} => me.view.version = n

Prepares(w) ==
  /\ writers[w].pc = "idle" /\ writers'[w].pc = "prepared"
  /\ Draw(w) /\ writers'[w].commit.storage_id = Fresh(w)
  /\ StoreStays /\ UNCHANGED answers

(* The call goes on, ends without a definite answer, or is cut off.        *)
Carries(w) ==
  /\ writers[w].pc # "idle" /\ writers'[w].pc # "idle"
  /\ writers'[w].commit = writers[w].commit
  /\ Open(writers[w], head, version) => Open(writers'[w], head, version)
  /\ UNCHANGED <<quota, answers>>
  /\ \/ StoreStays
     \/ /\ Open(writers'[w], head, version)
        /\ FollowsHead(head, writers[w].commit)
        /\ Submits(CandidateHead(head, writers[w].commit))

(* A definite answer, and the evidence it rests on.                        *)
Settles(w, status) ==
  /\ writers[w].pc # "idle" /\ writers'[w].pc = "idle"
  /\ answers' = answers \cup {[commit |-> writers[w].commit, status |-> status]}
  /\ UNCHANGED quota
  /\ \/ /\ status = "Committed"
        /\ HasSamePublicationBase(writers[w].token.head, head)
        /\ FollowsHead(head, writers[w].commit)
        /\ Apply(CandidateHead(head, writers[w].commit))
     \/ /\ StoreStays
        /\ status # "Corrupt"
        /\ status = "Committed" => writers[w].commit \in Retained(head)
        /\ status = "NotCommitted" =>
             Refutes(head, writers[w].commit) /\ ~Open(writers[w], head, version)

WriterActs(w) ==
  /\ \A v \in Writers \ {w} : writers'[v] = writers[v]
  /\ Prepares(w) \/ Carries(w) \/ \E status : Settles(w, status)

(* classify_resolution against a head that is not older than the one the   *)
(* candidate was prepared on.                                              *)
LEMMA ClassificationIsSound ==
  ASSUME NEW h, NEW commit, h.next_sequence \in Nat, commit.sequence \in Nat,
         commit.sequence <= h.next_sequence, NEW status,
         status = ClassifyResolution(commit, h)
  PROVE  /\ status # "Corrupt"
         /\ status = "Committed" => commit \in Retained(h)
         /\ status = "NotCommitted" => Refutes(h, commit)
BY DEF ClassifyResolution, Refutes

(* Every step of a writer is one of these.                                 *)
LEMMA WritersAct ==
  ASSUME StoreInv, WritersInv, NEW w \in Writers, WriterStep(w)
  PROVE  WriterActs(w)
<1> DEFINE me == writers[w]
<1>1. WriterOk(me, head, version) /\ ViewOf(Observed, head, version)
  BY ObservedIsView DEF WritersInv
<1>2. ASSUME NEW state, writers' = [writers EXCEPT ![w] = state]
      PROVE  writers'[w] = state /\ \A v \in Writers \ {w} : writers'[v] = writers[v]
  BY <1>2 DEF WritersInv
<1>3. ASSUME UNCHANGED storeVars PROVE StoreStays /\ UNCHANGED quota
  BY <1>3 DEF storeVars, StoreStays
<1>4. ASSUME me.pc # "idle"
      PROVE  /\ FollowsHead(me.token.head, me.commit)
             /\ head.next_sequence \in Nat /\ me.commit.sequence \in Nat
             /\ me.commit.sequence <= head.next_sequence
             /\ IsHead(me.token.head) /\ IsHead(head)
  BY <1>1, <1>4, HeadNumbers, Zenon
     DEF WriterOk, ViewOf, NotAhead, FollowsHead, StoreInv, HeadInvariant
<1>5. ASSUME HasSamePublicationBase(me.token.head, head), me.pc # "idle"
      PROVE  FollowsHead(head, me.commit) /\ Refutes(head, me.commit)
  <2>1. FollowsHead(head, me.commit)
    BY <1>4, <1>5, SameBaseSameFit
  <2> QED BY <1>4, <1>5, <2>1 DEF FollowsHead, Refutes
<1> HIDE DEF me
(* The two ways in which a call ends without an answer.                    *)
<1>6. ASSUME Fail(w) \/ StillPending(w), me.pc # "idle"
      PROVE  /\ \A v \in Writers \ {w} : writers'[v] = writers[v]
             /\ UNCHANGED answers
             /\ writers'[w].pc \in {"token", "pending"}
             /\ writers'[w].commit = me.commit /\ writers'[w].token = me.token
  <2>1. CASE Fail(w)
    <3>0. PICK state : state = [IdleWriter EXCEPT !.pc = "token", !.commit = me.commit,
                                           !.token = me.token]
      OBVIOUS
    <3>1. writers' = [writers EXCEPT ![w] = state] /\ UNCHANGED answers
      BY <2>1, <3>0 DEF Fail, Become, me
    <3>2. state.pc = "token" /\ state.commit = me.commit /\ state.token = me.token
      BY <3>0 DEF IdleWriter
    <3> QED BY <1>2, <3>1, <3>2, Zenon
  <2>2. CASE StillPending(w) /\ ~Fail(w)
    <3>0. PICK state : state = [IdleWriter EXCEPT !.pc = "pending", !.commit = me.commit,
                           !.token = me.token, !.prepared = me.prepared]
      OBVIOUS
    <3>1. writers' = [writers EXCEPT ![w] = state] /\ UNCHANGED answers
      BY <2>2, <3>0 DEF StillPending, Become, me
    <3>2. state.pc = "pending" /\ state.commit = me.commit /\ state.token = me.token
      BY <3>0 DEF IdleWriter
    <3> QED BY <1>2, <3>1, <3>2, Zenon
  <2> QED BY <1>6, <2>1, <2>2
<1>7. ASSUME Fail(w) \/ StillPending(w), me.pc # "idle", UNCHANGED storeVars
      PROVE  WriterActs(w)
  BY <1>3, <1>6, <1>7 DEF WriterActs, Carries, Open, me
(* A step that keeps the candidate and stays in a call.                    *)
<1>8. ASSUME NEW state, Become(w, state), UNCHANGED storeVars,
             me.pc # "idle", state.pc # "idle",
             state.commit = me.commit, state.token = me.token,
             Open(me, head, version) => Open(state, head, version)
      PROVE  WriterActs(w)
  <2>1. writers'[w] = state /\ UNCHANGED answers
        /\ \A v \in Writers \ {w} : writers'[v] = writers[v]
    BY <1>2, <1>8, Zenon DEF Become
  <2> QED BY <1>3, <1>8, <2>1 DEF WriterActs, Carries, me
(* An answer from a head that was loaded.                                  *)
<1>9. ASSUME NEW status, Answer(w, status), UNCHANGED storeVars, me.pc # "idle",
             status # "Corrupt",
             status = "Committed" => me.commit \in Retained(head),
             status = "NotCommitted" =>
               Refutes(head, me.commit) /\ ~Open(me, head, version)
      PROVE  WriterActs(w)
  <2>1. writers'[w] = IdleWriter /\ \A v \in Writers \ {w} : writers'[v] = writers[v]
    BY <1>2, <1>9, Zenon DEF Answer
  <2>2. Settles(w, status)
    BY <1>3, <1>9, <2>1 DEF Settles, Answer, me, IdleWriter
  <2> QED BY <2>1, <2>2 DEF WriterActs
<1>10. ASSUME NEW status, status = ClassifyResolution(me.commit, head), Answer(w, status),
              UNCHANGED storeVars, me.pc # "idle", ~Open(me, head, version)
       PROVE  WriterActs(w)
  <2>1. /\ status # "Corrupt"
        /\ status = "Committed" => me.commit \in Retained(head)
        /\ status = "NotCommitted" => Refutes(head, me.commit)
    BY <1>4, <1>10, ClassificationIsSound
  <2> QED BY <1>9, <1>10, <2>1
<1>11. ASSUME NEW txn, Prepare(w, txn) PROVE WriterActs(w)
  <2> DEFINE commit == [sequence |-> head.next_sequence, transaction_id |-> txn,
                        storage_id |-> Fresh(w),
                        digest |-> [transaction_id |-> txn, expected_tip |-> Tip(head)]]
  <2>0. PICK state : state = [IdleWriter EXCEPT !.pc = "prepared", !.commit = commit,
                         !.token = Observed, !.prepared = Observed]
    OBVIOUS
  <2>1. writers' = [writers EXCEPT ![w] = state] /\ UNCHANGED answers
    BY <1>11, <2>0 DEF Prepare, Become
  <2>2. state.pc = "prepared" /\ state.commit.storage_id = Fresh(w)
    BY <2>0 DEF IdleWriter
  <2>3. me.pc = "idle" /\ Draw(w) /\ StoreStays
    BY <1>11 DEF Prepare, StoreStays, me
  <2>4. writers'[w] = state /\ \A v \in Writers \ {w} : writers'[v] = writers[v]
    BY <1>2, <2>1, Zenon
  <2>5. Prepares(w)
    BY <2>1, <2>2, <2>3, <2>4 DEF Prepares, me
  <2> QED BY <2>4, <2>5 DEF WriterActs
<1>12. ASSUME NEW v, StartPublish(w, v), UNCHANGED storeVars,
              \/ me.pc = "prepared"
              \/ me.pc = "verify" /\ v = me.source
       PROVE  WriterActs(w)
  <2>0. PICK state : state = [me EXCEPT !.pc = "publish", !.source = v,
                                 !.view = v, !.attempt = 0]
    OBVIOUS
  <2>1. /\ state.pc = "publish" /\ state.commit = me.commit /\ state.token = me.token
        /\ state.view = v
    BY <1>1, <2>0 DEF WriterOk
  <2>2. Become(w, state)
    BY <1>12, <2>0 DEF StartPublish, me
  <2> QED BY <1>8, <1>12, <2>1, <2>2 DEF Open
<1>13. CASE Commit(w)
  BY <1>7, <1>12, <1>13 DEF Commit, me
<1>14. ASSUME me.pc = "publish",
              \/ UpdateApplied(me.view, Candidate(w))
              \/ UpdateInFlight(me.view, Candidate(w))
       PROVE  \/ StoreStays /\ ~UpdateApplied(me.view, Candidate(w))
              \/ /\ me.view.version = version
                 /\ HasSamePublicationBase(me.token.head, head)
                 /\ FollowsHead(head, me.commit)
                 /\ IF UpdateApplied(me.view, Candidate(w))
                    THEN Apply(CandidateHead(head, me.commit))
                    ELSE Submits(CandidateHead(head, me.commit))
  <2>1. ViewOf(me.view, head, version) /\ HasSamePublicationBase(me.token.head, me.view.head)
    BY <1>1, <1>14 DEF WriterOk
  <2>2. \/ StoreStays /\ ~UpdateApplied(me.view, Candidate(w))
        \/ /\ me.view.version = version /\ me.view.head = head
           /\ IF UpdateApplied(me.view, Candidate(w))
              THEN Apply(Candidate(w)) ELSE Submits(Candidate(w))
    BY <1>14, <2>1, UpdateProposes
  <2>3. me.view.head = head => Candidate(w) = CandidateHead(head, me.commit)
    BY DEF Candidate, me
  <2> QED BY <1>5, <1>14, <2>1, <2>2, <2>3
<1>15. CASE PublishApplied(w)
  <2>1. me.pc = "publish" /\ UpdateApplied(me.view, Candidate(w)) /\ UNCHANGED quota
        /\ Answer(w, "Committed")
    BY <1>15 DEF PublishApplied, me
  <2>2. /\ HasSamePublicationBase(me.token.head, head) /\ FollowsHead(head, me.commit)
        /\ Apply(CandidateHead(head, me.commit))
    BY <1>14, <2>1
  <2>3. writers'[w] = IdleWriter /\ \A v \in Writers \ {w} : writers'[v] = writers[v]
    BY <1>2, <2>1, Zenon DEF Answer
  <2>4. Settles(w, "Committed")
    BY <2>1, <2>2, <2>3 DEF Settles, Answer, IdleWriter, me
  <2> QED BY <2>3, <2>4 DEF WriterActs
<1>16. ASSUME me.pc = "publish", UpdateInFlight(me.view, Candidate(w)), UNCHANGED quota,
              \A v \in Writers \ {w} : writers'[v] = writers[v],
              UNCHANGED answers, writers'[w].pc \in {"token", "pending", "reload"},
              writers'[w].commit = me.commit, writers'[w].token = me.token,
              writers'[w].pc = "reload" => writers'[w].view = me.view
       PROVE  WriterActs(w)
  <2>1. CASE StoreStays
    BY <1>16, <2>1 DEF WriterActs, Carries, Open, me
  <2>2. CASE ~StoreStays
    <3>1. /\ me.view.version = version
          /\ HasSamePublicationBase(me.token.head, head)
          /\ FollowsHead(head, me.commit)
          /\ \/ Apply(CandidateHead(head, me.commit))
             \/ Submits(CandidateHead(head, me.commit))
      BY <1>14, <1>16, <2>2
    <3>2. ~Apply(CandidateHead(head, me.commit))
      BY <1>16 DEF Apply, UpdateInFlight, StoreInv
    <3>3. Open(writers'[w], head, version)
      BY <1>16, <3>1 DEF Open
    <3> QED BY <1>16, <3>1, <3>2, <3>3 DEF WriterActs, Carries, me
  <2> QED BY <2>1, <2>2
<1>17. CASE PublishRejected(w)
  <2>0. PICK state : state = [me EXCEPT !.pc = "reload"]
    BY Zenon
  <2>1. me.pc = "publish" /\ UpdateInFlight(me.view, Candidate(w)) /\ UNCHANGED quota
        /\ writers' = [writers EXCEPT ![w] = state] /\ UNCHANGED answers
    BY <1>17, <2>0 DEF PublishRejected, Become, me
  <2>2. /\ state.pc = "reload" /\ state.commit = me.commit /\ state.token = me.token
        /\ state.view = me.view
    BY <1>1, <2>0 DEF WriterOk
  <2>3. writers'[w] = state /\ \A v \in Writers \ {w} : writers'[v] = writers[v]
    BY <1>2, <2>1, Zenon
  <2> QED BY <1>16, <2>1, <2>2, <2>3
<1>18. CASE PublishUncertain(w)
  <2>1. me.pc = "publish" /\ UpdateInFlight(me.view, Candidate(w)) /\ UNCHANGED quota
        /\ StillPending(w)
    BY <1>18 DEF PublishUncertain, me
  <2>2. /\ \A v \in Writers \ {w} : writers'[v] = writers[v]
        /\ UNCHANGED answers
        /\ writers'[w].pc \in {"token", "pending"}
        /\ writers'[w].commit = me.commit /\ writers'[w].token = me.token
    BY <1>6, <2>1
  <2> QED BY <1>16, <2>1, <2>2
<1>19. CASE PublishDenied(w) \/ ReloadFails(w) \/ ResolveFails(w) \/ Crash(w)
  BY <1>7, <1>19 DEF PublishDenied, ReloadFails, ResolveFails, Crash, me
<1>20. CASE Reload(w)
  <2> DEFINE base == HasSamePublicationBase(me.source.head, head)
             outcome == PublishReload(me.view, Observed, me.attempt, base)
  <2>0. PICK state : state = [me EXCEPT !.pc = "publish", !.view = Observed,
                                 !.attempt = me.attempt + 1]
    OBVIOUS
  <2>1. me.pc = "reload" /\ UNCHANGED storeVars
    BY <1>20 DEF Reload, me
  <2>2. /\ ViewOf(me.view, head, version)
        /\ HasSamePublicationBase(me.token.head, me.source.head)
        /\ base <=> HasSamePublicationBase(me.token.head, head)
    BY <1>1, <2>1, SameBaseComposes DEF WriterOk
  <2>3. /\ me.view # Observed =>
             me.view.version < version /\ me.view.head.generation < head.generation
        /\ head.generation \in Nat /\ me.view.head.generation \in Nat
        /\ version \in Nat /\ me.view.version \in Nat
    BY <2>2, OtherViewsAreOlder, Zenon DEF StoreInv, ViewOf, HeadInvariant, IsHead
  <2>4. \/ ~base /\ outcome = "Changed"
        \/ base /\ outcome = "Pending"
        \/ base /\ me.view # Observed /\ outcome \in {"Contended", "Retry"}
    BY <2>3 DEF PublishReload, SameObservation, Observed
  <2> HIDE DEF outcome
  <2>5. CASE ~base
    <3>1. ~Open(me, head, version) /\ Classify(w, head)
      BY <1>20, <2>2, <2>4, <2>5, Zenon DEF Open, Reload, outcome, me
    <3> QED BY <1>7, <1>10, <2>1, <3>1 DEF Classify, me
  <2>6. CASE base /\ outcome = "Pending"
    BY <1>7, <1>20, <2>1, <2>6, Zenon DEF Reload, outcome, me
  <2>7. CASE base /\ me.view # Observed /\ outcome = "Contended"
    <3>1. Answer(w, "NotCommitted")
      BY <1>20, <2>7, Zenon DEF Reload, outcome, me
    <3>2. ~Open(me, head, version) /\ Refutes(head, me.commit)
      BY <1>5, <2>1, <2>2, <2>3, <2>7 DEF Open
    <3> QED BY <1>9, <2>1, <3>1, <3>2
  <2>8. CASE base /\ outcome = "Retry"
    <3>1. Become(w, state)
      BY <1>20, <2>0, <2>8 DEF Reload, outcome, me
    <3>2. /\ state.pc = "publish" /\ state.commit = me.commit /\ state.token = me.token
          /\ state.view.version = version
      BY <1>1, <2>0 DEF WriterOk, Observed
    <3> QED BY <1>8, <2>1, <3>1, <3>2 DEF Open
  <2> QED BY <2>4, <2>5, <2>6, <2>7, <2>8
<1>21. CASE Resolve(w)
  <2> DEFINE base == HasSamePublicationBase(me.prepared.head, head)
             outcome == PublicationView(me.prepared, Observed, base)
             call == IF me.pc = "resumed" THEN "resume" ELSE "resolve"
  <2>0. PICK state : state = [me EXCEPT !.pc = "verify", !.source = Observed, !.call = call]
    OBVIOUS
  <2>1. me.pc \in {"pending", "resumed"} /\ UNCHANGED storeVars
    BY <1>21 DEF Resolve, me
  <2>2. /\ ViewOf(me.prepared, head, version)
        /\ base <=> HasSamePublicationBase(me.token.head, head)
    BY <1>1, <2>1, SameBaseComposes DEF WriterOk
  <2>3. /\ me.prepared # Observed => me.prepared.head.generation < head.generation
        /\ head.generation \in Nat /\ me.prepared.head.generation \in Nat
    BY <2>2, OtherViewsAreOlder, Zenon DEF StoreInv, ViewOf, HeadInvariant, IsHead
  <2>4. \/ ~base /\ outcome = "Changed"
        \/ outcome = "Publish"
    BY <2>3 DEF PublicationView, SameObservation, Observed
  <2> HIDE DEF outcome
  <2>5. CASE ~base /\ outcome = "Changed"
    <3>1. ~Open(me, head, version) /\ Answer(w, ClassifyResolution(me.commit, head))
      BY <1>21, <2>2, <2>5 DEF Open, Resolve, outcome, me
    <3> QED BY <1>10, <2>1, <3>1
  <2>6. CASE outcome = "Publish"
    <3>1. Become(w, state)
      BY <1>21, <2>0, <2>6 DEF Resolve, outcome, me
    <3>2. /\ state.pc = "verify" /\ state.commit = me.commit /\ state.token = me.token
          /\ state.source.version = version
      BY <1>1, <2>0 DEF WriterOk, Observed
    <3> QED BY <1>8, <2>1, <3>1, <3>2 DEF Open
  <2> QED BY <2>4, <2>5, <2>6
<1>22. CASE ResolveVerified(w)
  BY <1>12, <1>22 DEF ResolveVerified, me
<1>23. CASE Resume(w)
  <2> DEFINE exact == me.token = Observed
             base == PublicationBase(head) = PublicationBase(me.token.head)
  <2>0. PICK state : state = [me EXCEPT !.pc = "resumed", !.call = "resume",
                                 !.prepared = Observed]
    OBVIOUS
  <2>1. me.pc = "token" /\ UNCHANGED storeVars
    BY <1>23 DEF Resume, me
  <2>2. /\ ViewOf(me.token, head, version)
        /\ base <=> HasSamePublicationBase(me.token.head, head)
    BY <1>1, <1>4, <2>1, SameDigestSameBase DEF WriterOk
  <2>3. /\ ~exact => me.token.head.generation < head.generation
        /\ exact => base
        /\ head.generation \in Nat /\ me.token.head.generation \in Nat
    BY <2>2, OtherViewsAreOlder, Zenon DEF StoreInv, ViewOf, HeadInvariant, IsHead, Observed
  <2>4. CASE base
    <3>1. FollowsHead(head, me.commit)
      BY <1>5, <2>1, <2>2, <2>4
    <3>2. head.next_sequence = me.commit.sequence /\ Tip(head) = me.commit.digest.expected_tip
      BY <3>1 DEF FollowsHead
    <3>3. exact \/ (base /\ head.generation > me.token.head.generation)
      BY <2>3, <2>4
    <3>4. Become(w, state)
      BY <1>23, <2>0, <2>3, <2>4, <3>2, <3>3 DEF Resume, SameObservation, me
    <3>5. state.pc = "resumed" /\ state.commit = me.commit /\ state.token = me.token
      BY <1>1, <2>0 DEF WriterOk
    <3> QED BY <1>8, <2>1, <3>4, <3>5 DEF Open
  <2>5. CASE ~base
    <3>0. me.token # Observed /\ PublicationBase(head) # PublicationBase(me.token.head)
      BY <2>3, <2>5
    <3>1. Answer(w, ClassifyResolution(me.commit, head))
      BY <1>23, <3>0 DEF Resume, SameObservation, me
    <3>2. ~Open(me, head, version)
      BY <2>2, <2>5 DEF Open
    <3> QED BY <1>10, <2>1, <3>1, <3>2
  <2> QED BY <2>4, <2>5
<1> QED BY <1>11, <1>13, <1>15, <1>17, <1>18, <1>19, <1>20, <1>21, <1>22, <1>23
        DEF WriterStep

-----------------------------------------------------------------------------
(* What the answers rest on.  Candidates are told apart by their storage   *)
(* identity, which is drawn once.                                          *)
CandidatesInv ==
  \A w \in Writers :
    writers[w].pc # "idle" => DrawnBy(w, writers[w].commit.storage_id, quota)

(* A commit that a write in flight would publish is the candidate of a     *)
(* writer that has no answer, or of none any more.                         *)
InFlightInv ==
  \A l \in late : \A c \in Range(l.head.tail) \ Range(history) :
    /\ Drawn(Writers, c.storage_id, quota)
    /\ \A w \in Writers : writers[w].pc # "idle" /\ writers[w].commit = c =>
         Open(writers[w], head, version)

(* A refuted candidate is not published, and nothing can publish it.       *)
Refuted(c) ==
  /\ c \notin Range(history)
  /\ \A l \in late : c \notin Range(l.head.tail)
  /\ \A w \in Writers : writers[w].pc # "idle" => writers[w].commit # c

AnsweredInv ==
  \A a \in answers :
    /\ Drawn(Writers, a.commit.storage_id, quota)
    /\ a.status # "Corrupt"
    /\ a.status = "Committed" => a.commit \in Range(history)
    /\ a.status = "NotCommitted" => Refuted(a.commit)

AnswersInv == CandidatesInv /\ InFlightInv /\ AnsweredInv

(* Drawn identities stay drawn.                                            *)
LEMMA CandidatesStay ==
  ASSUME StoreInv, CandidatesInv, QuotaFalls, NEW w \in Writers, writers[w].pc # "idle"
  PROVE  DrawnBy(w, writers[w].commit.storage_id, quota')
BY DrawnStaysDrawn, WritersAssumption DEF CandidatesInv

(* The storage identities that writers drew stay drawn.                    *)
LEMMA WriterIdentities ==
  ASSUME StoreInv, QuotaFalls, NEW id, Drawn(Writers, id, quota)
  PROVE  Drawn(Writers, id, quota')
BY DrawnStays, WritersAssumption

(* Two writers never have the same candidate.                              *)
LEMMA CandidatesDiffer ==
  ASSUME CandidatesInv, NEW v \in Writers, NEW w \in Writers,
         writers[v].pc # "idle", writers[w].pc # "idle",
         writers[v].commit = writers[w].commit
  PROVE  v = w
<1>1. /\ DrawnBy(v, writers[w].commit.storage_id, quota)
      /\ DrawnBy(w, writers[w].commit.storage_id, quota)
  BY DEF CandidatesInv
<1> QED BY <1>1, DrawnOnce, WritersAssumption

(* Steps of the other clients, which publish no commit.                    *)
LEMMA AnswersStay ==
  ASSUME StoreInv, HistoryInv, AnswersInv, QuotaFalls, UNCHANGED <<writers, answers>>,
         \/ StoreStays
         \/ \E h : /\ LegalStep(head, h) /\ Proposes(h)
                   /\ h.next_sequence = head.next_sequence
                   /\ Range(h.tail) \subseteq Range(head.tail)
  PROVE  AnswersInv'
<1>1. CandidatesInv'
  BY CandidatesStay DEF CandidatesInv, AnswersInv
<1>2. ASSUME history' = history,
             \A l \in late' : l \in late \/ Range(l.head.tail) \subseteq Range(history)
      PROVE  AnsweredInv'
  <2>1. ASSUME NEW c, Refuted(c) PROVE Refuted(c)'
    BY <1>2, <2>1 DEF Refuted
  <2> QED BY <1>2, <2>1, WriterIdentities DEF AnsweredInv, AnswersInv
<1>3. ASSUME history' = history, UNCHANGED <<head, version>>,
             \A l \in late' : l \in late \/ Range(l.head.tail) \subseteq Range(history)
      PROVE  InFlightInv'
  BY <1>3, WriterIdentities DEF InFlightInv, AnswersInv
<1>4. CASE StoreStays
  BY <1>1, <1>2, <1>3, <1>4 DEF StoreStays, AnswersInv
<1>5. ASSUME NEW h, LegalStep(head, h), Proposes(h), h.next_sequence = head.next_sequence,
             Range(h.tail) \subseteq Range(head.tail)
      PROVE  AnswersInv'
  <2>1. CASE Apply(h)
    <3>1. late' = {} /\ history' = history
      BY <1>5, <2>1, HeadNumbers DEF Apply, StoreInv
    <3>2. InFlightInv'
      BY <3>1 DEF InFlightInv
    <3> QED BY <1>1, <1>2, <3>1, <3>2 DEF AnswersInv
  <2>2. CASE Submits(h)
    <3>1. Range(h.tail) \subseteq Range(history)
      BY <1>5, RetainedIsPublished DEF Retained
    <3>2. \A l \in late' : l \in late \/ l.head = h
      BY <2>2 DEF Submits
    <3>3. UNCHANGED <<head, version>> /\ history' = history
      BY <2>2 DEF Submits
    <3> QED BY <1>1, <1>2, <1>3, <3>1, <3>2, <3>3 DEF AnswersInv
  <2> QED BY <1>5, <2>1, <2>2 DEF Proposes
<1> QED BY <1>4, <1>5

(* A write in flight takes effect.                                         *)
LEMMA LandKeepsAnswers ==
  ASSUME StoreInv, HistoryInv, AnswersInv, Land, UNCHANGED <<writers, answers>>
  PROVE  AnswersInv'
<1>1. PICK w \in late : LegalStep(head, w.head) /\ Apply(w.head)
  BY LandProposes
<1>2. /\ late' = {} /\ Range(history) \subseteq Range(history')
      /\ Range(history') \subseteq Range(history) \cup Range(w.head.tail)
  BY <1>1, ApplyPublishes
<1>3. QuotaFalls
  BY QuotaStays DEF Land
<1>4. CandidatesInv'
  BY <1>3, CandidatesStay DEF CandidatesInv, AnswersInv
<1>5. InFlightInv'
  BY <1>2 DEF InFlightInv
<1>6. ASSUME NEW c, Refuted(c) PROVE Refuted(c)'
  BY <1>2, <1>6 DEF Refuted
<1>7. AnsweredInv'
  BY <1>2, <1>3, <1>6, WriterIdentities DEF AnsweredInv, AnswersInv
<1> QED BY <1>4, <1>5, <1>7 DEF AnswersInv

(* The tail that a candidate proposes.                                     *)
LEMMA CandidateTail ==
  ASSUME NEW h, HeadInvariant(h), NEW commit
  PROVE  /\ Range(CandidateHead(h, commit).tail) = Range(h.tail) \cup {commit}
         /\ Newest(CandidateHead(h, commit).tail) = commit
<1> DEFINE t == h.tail
           S == Range(t) \cup {commit}
           all == Append(t, commit)
<1>1. CandidateHead(h, commit).tail = all
  BY DEF CandidateHead, HeadInvariant, IsHead
<1>2. t \in Seq(S)
  BY SeqMonotonic DEF HeadInvariant, IsHead
<1>3. /\ all \in Seq(S) /\ Len(all) = Len(t) + 1
      /\ \A i \in 1..Len(t) : all[i] = t[i]
      /\ all[Len(t) + 1] = commit
  BY <1>2, AppendProperties
<1>4. DOMAIN t = 1..Len(t) /\ DOMAIN all = 1..Len(all) /\ Len(t) \in Nat
  BY <1>2, <1>3, LenProperties
<1> HIDE DEF all, t
<1>5. Range(all) \subseteq S
  BY <1>3, <1>4, ElementOfSeq DEF Range
<1>6. ASSUME NEW e \in Range(t) PROVE e \in Range(all)
  <2>1. PICK i \in 1..Len(t) : t[i] = e
    BY <1>4 DEF Range
  <2>2. i \in 1..Len(all) /\ all[i] = e
    BY <1>3, <1>4, <2>1
  <2> QED BY <1>4, <2>2 DEF Range
<1>7. commit \in Range(all)
  <2>1. Len(t) + 1 \in DOMAIN all
    BY <1>3, <1>4
  <2> QED BY <1>3, <2>1 DEF Range
<1>8. Newest(all) = commit
  BY <1>3 DEF Newest
<1> QED BY <1>1, <1>5, <1>6, <1>7, <1>8 DEF t

(* Steps of a writer.                                                      *)
LEMMA WriterKeepsAnswers ==
  ASSUME StoreInv, HistoryInv, AnswersInv, NEW w \in Writers, WriterActs(w)
  PROVE  AnswersInv'
<1> DEFINE me == writers[w]
<1>1. /\ CandidatesInv /\ InFlightInv /\ AnsweredInv
      /\ w \in Clients /\ Writers \subseteq Clients
      /\ \A v \in Writers \ {w} : writers'[v] = writers[v]
  BY WritersAssumption DEF AnswersInv, WriterActs
<1>2. CASE Prepares(w)
  <2>1. PICK id : id = Fresh(w)
    OBVIOUS
  <2>2. /\ QuotaFalls /\ DrawnBy(w, id, quota') /\ \A v \in Clients : ~DrawnBy(v, id, quota)
        /\ writers'[w].commit.storage_id = id
    BY <1>1, <1>2, <2>1, FreshIsDrawn DEF Prepares
  <2>3. ASSUME NEW c, Drawn(Writers, c.storage_id, quota) PROVE writers'[w].commit # c
    BY <1>1, <2>2, <2>3 DEF Drawn
  <2>4. CandidatesInv'
    BY <1>1, <2>2, CandidatesStay DEF CandidatesInv
  <2>5. UNCHANGED <<head, version, late, history, answers>>
    BY <1>2 DEF Prepares, StoreStays
  <2>6. InFlightInv'
    BY <1>1, <2>2, <2>3, <2>5, WriterIdentities DEF InFlightInv
  <2>7. ASSUME NEW c, Drawn(Writers, c.storage_id, quota), Refuted(c) PROVE Refuted(c)'
    BY <1>1, <2>3, <2>5, <2>7 DEF Refuted
  <2>8. AnsweredInv'
    BY <1>1, <2>2, <2>5, <2>7, WriterIdentities DEF AnsweredInv
  <2> QED BY <2>4, <2>6, <2>8 DEF AnswersInv
<1>3. CASE Carries(w)
  <2>1. /\ me.pc # "idle" /\ writers'[w].pc # "idle" /\ writers'[w].commit = me.commit
        /\ Open(me, head, version) => Open(writers'[w], head, version)
        /\ UNCHANGED <<quota, answers>>
    BY <1>3 DEF Carries
  <2>2. \A v \in Writers : /\ writers'[v].pc # "idle" <=> writers[v].pc # "idle"
                           /\ writers'[v].pc # "idle" => writers'[v].commit = writers[v].commit
    BY <1>1, <2>1
  <2>3. CandidatesInv'
    BY <1>1, <2>1, <2>2 DEF CandidatesInv
  <2>4. CASE StoreStays
    <3>1. InFlightInv'
      BY <1>1, <2>1, <2>2, <2>4 DEF InFlightInv, StoreStays
    <3>2. ASSUME NEW c, Refuted(c) PROVE Refuted(c)'
      BY <2>2, <2>4, <3>2 DEF Refuted, StoreStays
    <3>3. AnsweredInv'
      BY <1>1, <2>1, <2>4, <3>2 DEF AnsweredInv, StoreStays
    <3> QED BY <2>3, <3>1, <3>3 DEF AnswersInv
  <2>5. CASE /\ Open(writers'[w], head, version)
             /\ Submits(CandidateHead(head, me.commit))
    <3>0. PICK h : h = CandidateHead(head, me.commit)
      OBVIOUS
    <3>1. /\ UNCHANGED <<head, version, history>>
          /\ \A l \in late' : l \in late \/ l.head = h
      BY <2>5, <3>0 DEF Submits
    <3>2. Range(h.tail) = Range(head.tail) \cup {me.commit}
      BY <3>0, CandidateTail DEF StoreInv
    <3>3. \A c \in Range(h.tail) \ Range(history) : c = me.commit
      BY <3>2, RetainedIsPublished DEF Retained
    <3>4. Drawn(Writers, me.commit.storage_id, quota)
      BY <1>1, <2>1 DEF CandidatesInv, Drawn
    <3>5. \A v \in Writers : writers'[v].pc # "idle" /\ writers'[v].commit = me.commit =>
            Open(writers'[v], head, version)
      BY <1>1, <2>1, <2>2, <2>5, CandidatesDiffer
    <3>6. ASSUME NEW l \in late', NEW c \in Range(l.head.tail) \ Range(history)
          PROVE  /\ Drawn(Writers, c.storage_id, quota)
                 /\ \A v \in Writers : writers'[v].pc # "idle" /\ writers'[v].commit = c =>
                      Open(writers'[v], head, version)
      <4>1. CASE l.head = h
        BY <3>3, <3>4, <3>5, <3>6, <4>1
      <4>2. CASE l \in late
        BY <1>1, <2>1, <2>2, <3>6, <4>2 DEF InFlightInv
      <4> QED BY <3>1, <4>1, <4>2
    <3>7. InFlightInv'
      BY <2>1, <3>1, <3>6 DEF InFlightInv
    <3>8. ASSUME NEW c, Refuted(c) PROVE Refuted(c)'
      <4>1. c # me.commit /\ c \notin Range(h.tail)
        BY <2>1, <3>3, <3>8 DEF Refuted
      <4> QED BY <2>2, <3>1, <3>8, <4>1 DEF Refuted
    <3>9. AnsweredInv'
      BY <1>1, <2>1, <3>1, <3>8 DEF AnsweredInv
    <3> QED BY <2>3, <3>7, <3>9 DEF AnswersInv
  <2> QED BY <1>3, <2>4, <2>5 DEF Carries
<1>4. ASSUME NEW status, Settles(w, status) PROVE AnswersInv'
  <2>0. PICK c : c = me.commit
    OBVIOUS
  <2>1. /\ me.pc # "idle" /\ writers'[w].pc = "idle" /\ UNCHANGED quota
        /\ answers' = answers \cup {[commit |-> c, status |-> status]}
    BY <1>4, <2>0, Zenon DEF Settles
  <2>2. CandidatesInv'
    BY <1>1, <2>1 DEF CandidatesInv
  <2>3. Drawn(Writers, c.storage_id, quota)
    BY <1>1, <2>0, <2>1 DEF CandidatesInv, Drawn
  <2>4. \A v \in Writers : writers'[v].pc # "idle" =>
          writers[v].pc # "idle" /\ writers'[v] = writers[v] /\ writers[v].commit # c
    BY <1>1, <2>0, <2>1, CandidatesDiffer
  <2>5. ASSUME status # "Corrupt",
               status = "Committed" => c \in Range(history'),
               status = "NotCommitted" => Refuted(c)',
               Range(history) \subseteq Range(history'),
               \A d : Refuted(d) => Refuted(d)'
        PROVE  AnsweredInv'
    <3>1. ASSUME NEW a \in answers'
          PROVE  /\ Drawn(Writers, a.commit.storage_id, quota)
                 /\ a.status # "Corrupt"
                 /\ a.status = "Committed" => a.commit \in Range(history')
                 /\ a.status = "NotCommitted" => Refuted(a.commit)'
      <4>1. CASE a \in answers
        BY <1>1, <2>5, <4>1 DEF AnsweredInv
      <4>2. CASE a = [commit |-> c, status |-> status]
        BY <2>3, <2>5, <4>2
      <4> QED BY <2>1, <3>1, <4>1, <4>2
    <3> QED BY <2>1, <3>1 DEF AnsweredInv
  <2>6. CASE /\ StoreStays
             /\ status # "Corrupt"
             /\ status = "Committed" => me.commit \in Retained(head)
             /\ status = "NotCommitted" =>
                  Refutes(head, me.commit) /\ ~Open(me, head, version)
    <3>1. UNCHANGED <<head, version, late, history>>
      BY <2>6 DEF StoreStays
    <3>2. InFlightInv'
      BY <1>1, <2>1, <2>4, <3>1 DEF InFlightInv
    <3>3. \A d : Refuted(d) => Refuted(d)'
      BY <2>4, <3>1 DEF Refuted
    <3>4. ASSUME status = "NotCommitted" PROVE Refuted(c)'
      <4>1. c \notin Range(history)
        BY <2>0, <2>6, <3>4, RefutedIsUnpublished
      <4>2. ASSUME NEW l \in late PROVE c \notin Range(l.head.tail)
        BY <1>1, <2>0, <2>1, <2>6, <3>4, <4>1 DEF InFlightInv
      <4> QED BY <2>4, <3>1, <4>1, <4>2 DEF Refuted
    <3>5. status = "Committed" => c \in Range(history')
      BY <2>0, <2>6, <3>1, RetainedIsPublished
    <3> QED BY <2>2, <2>5, <2>6, <3>1, <3>2, <3>3, <3>4, <3>5 DEF AnswersInv
  <2>7. CASE /\ status = "Committed" /\ FollowsHead(head, me.commit)
             /\ Apply(CandidateHead(head, me.commit))
    <3>0. PICK h : h = CandidateHead(head, c)
      OBVIOUS
    <3>1. LegalStep(head, h) /\ Apply(h) /\ h.next_sequence = head.next_sequence + 1
      BY <2>0, <2>7, <3>0, CandidateIsLegal, Zenon DEF StoreInv, CandidateHead, HeadInvariant, IsHead
    <3>2. Newest(h.tail) = c
      BY <3>0, CandidateTail DEF StoreInv
    <3>3. head.next_sequence + 1 # head.next_sequence
      BY HeadNumbers DEF StoreInv
    <3>4. late' = {} /\ Range(history') = Range(history) \cup {c}
      BY <3>1, <3>2, <3>3, ApplyPublishes
    <3>5. InFlightInv'
      BY <3>4 DEF InFlightInv
    <3>6. \A d : Refuted(d) => Refuted(d)'
      BY <2>0, <2>1, <2>4, <3>4 DEF Refuted
    <3> QED BY <2>2, <2>5, <2>7, <3>4, <3>5, <3>6 DEF AnswersInv
  <2> QED BY <1>4, <2>6, <2>7 DEF Settles
<1> QED BY <1>2, <1>3, <1>4 DEF WriterActs

=============================================================================
