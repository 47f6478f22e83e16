--------------------------- MODULE RetentionProofs --------------------------
(***************************************************************************)
(* Every head that a reader or an operator proposes is legal from the view *)
(* it is written from: an identity is acquired only below the limit and    *)
(* outside a fence.  And an identity that is held stays in the head.       *)
(***************************************************************************)
EXTENDS Retentions, HeadStoreProofs, TLAPS

Kinds == {"Acquire", "Release", "ClearAfterDrain"}

(* What is about to be written still has to be, in the view written from.  *)
RetainerOk(me, h, n) ==
  /\ me = [pc |-> me.pc, change |-> me.change, session |-> me.session,
           view |-> me.view, attempt |-> me.attempt]
  /\ me.pc \in {"idle", "call", "update", "reload", "holding"}
  /\ me.attempt \in Attempts
  /\ me.change = [kind |-> me.change.kind, id |-> me.change.id]
  /\ me.change.kind \in Kinds
  /\ ViewOf(me.session, h, n) /\ ViewOf(me.view, h, n)
  /\ me.pc = "update" => ClassifyRetention(me.change, me.view.head) = "Conflict"
  /\ me.pc = "holding" => me.change.kind = "Acquire"

RetainersInv ==
  /\ retainers = [r \in Readers \cup Operators |-> retainers[r]]
  /\ \A r \in Readers \cup Operators : RetainerOk(retainers[r], head, version)

(* RetentionChange::apply where the change is needed and, for an           *)
(* acquisition, an identity is free.                                       *)
LEMMA RetentionIsLegal ==
  ASSUME NEW h, HeadInvariant(h), NEW change, change.kind \in Kinds,
         ClassifyRetention(change, h) = "Conflict",
         ~(change.kind = "Acquire" /\ Cardinality(h.retention_ids) >= MaxRetentionIds)
  PROVE  LegalStep(h, RetentionHead(h, change))
<1>0. PICK next : next = RetentionHead(h, change)
  OBVIOUS
<1>1. CASE change.kind = "Acquire"
  <2>1. change.id \notin h.retention_ids /\ h.active_plan = None
    BY <1>1 DEF ClassifyRetention
  <2>2. ~(Cardinality(h.retention_ids) >= MaxRetentionIds)
    BY <1>1
  <2>3. next.retention_ids = h.retention_ids \cup {change.id}
    BY <1>0, <1>1 DEF RetentionHead, HeadInvariant, IsHead
  <2>4. next = RetentionHead(h, [kind |-> "Acquire", id |-> change.id])
    BY <1>0, <1>1 DEF RetentionHead
  <2>5. AcquireRetention(h, next)
    BY <2>1, <2>2, <2>3, <2>4 DEF AcquireRetention
  <2> QED BY <1>0, <2>5 DEF LegalStep
<1>2. CASE change.kind = "Release"
  <2>1. change.id \in h.retention_ids
    BY <1>2 DEF ClassifyRetention
  <2>2. next = RetentionHead(h, [kind |-> "Release", id |-> change.id])
    BY <1>0, <1>2 DEF RetentionHead
  <2>3. ReleaseRetention(h, next)
    BY <2>1, <2>2 DEF ReleaseRetention
  <2> QED BY <1>0, <2>3 DEF LegalStep
<1>3. CASE change.kind = "ClearAfterDrain"
  <2>1. h.retention_ids # {}
    BY <1>3 DEF ClassifyRetention
  <2>2. next = RetentionHead(h, [kind |-> "ClearAfterDrain", id |-> None])
    BY <1>0, <1>3 DEF RetentionHead
  <2>3. ClearRetentions(h, next)
    BY <2>1, <2>2 DEF ClearRetentions
  <2> QED BY <1>0, <2>3 DEF LegalStep
<1> QED BY <1>1, <1>2, <1>3 DEF Kinds

(* A client that does not act keeps its promise.                           *)
LEMMA RetainersStay ==
  ASSUME StoreInv, HeadStep, RetainersInv, UNCHANGED retainers
  PROVE  RetainersInv'
<1>1. ASSUME NEW r \in Readers \cup Operators
      PROVE  RetainerOk(retainers[r], head', version')
  BY ViewsStay DEF RetainersInv, RetainerOk
<1> QED BY <1>1 DEF RetainersInv, RetainerOk

(* One client moves to a state that keeps it.                              *)
LEMMA RetainerMoves ==
  ASSUME StoreInv, HeadStep, RetainersInv, NEW r \in Readers \cup Operators, NEW state,
         retainers' = [retainers EXCEPT ![r] = state], RetainerOk(state, head', version')
  PROVE  RetainersInv'
<1>1. ASSUME NEW q \in Readers \cup Operators
      PROVE  RetainerOk(retainers[q], head', version')
  BY ViewsStay DEF RetainersInv, RetainerOk
<1>2. /\ retainers' = [q \in Readers \cup Operators |-> retainers'[q]]
      /\ \A q \in Readers \cup Operators :
           retainers'[q] = IF q = r THEN state ELSE retainers[q]
  BY DEF RetainersInv
<1>3. \A q \in Readers \cup Operators : RetainerOk(retainers'[q], head', version')
  BY <1>1, <1>2
<1> QED BY <1>2, <1>3, Zenon DEF RetainersInv, RetainerOk

(* The ways in which a call for a retention ends.                          *)
LEMMA RetentionCallEnds ==
  ASSUME StoreInv, StoreInv', HeadStep, RetainersInv, NEW r \in Readers \cup Operators,
         NEW v, ViewOf(v, head', version'), NEW change, NEW kind \in Kinds, NEW id,
         change = [kind |-> kind, id |-> id],
         \/ RetainerBecomes(r, IdleRetainer)
         \/ Confirmed(r, v)
         \/ BetweenCalls(r, change, v)
  PROVE  RetainersInv'
<1> DEFINE me == retainers[r]
<1>1. ViewOf(NoView, head', version')
  BY ViewsStay DEF StoreInv
<1>2. RetainerOk(me, head', version')
  BY ViewsStay DEF RetainersInv, RetainerOk
<1>3. RetainerOk(IdleRetainer, head', version')
  BY <1>1, LoopAttempts DEF RetainerOk, IdleRetainer, NoChange, Kinds
<1> HIDE DEF me
<1>4. CASE RetainerBecomes(r, IdleRetainer)
  BY <1>3, <1>4, RetainerMoves, Zenon DEF RetainerBecomes
<1>5. CASE Confirmed(r, v)
  <2>0. PICK state : state = IF me.change.kind = "Acquire"
                             THEN [IdleRetainer EXCEPT !.pc = "holding",
                                     !.change = me.change, !.session = v]
                             ELSE IdleRetainer
    OBVIOUS
  <2>1. ASSUME me.change.kind = "Acquire" PROVE RetainerOk(state, head', version')
    <3>1. state = [IdleRetainer EXCEPT !.pc = "holding", !.change = me.change,
                                       !.session = v]
      BY <2>0, <2>1
    <3> QED BY <2>1, <3>1, <1>1, <1>2, LoopAttempts, Zenon DEF RetainerOk, IdleRetainer
  <2>2. RetainerOk(state, head', version')
    BY <2>0, <2>1, <1>3
  <2>3. retainers' = [retainers EXCEPT ![r] = state]
    BY <1>5, <2>0 DEF Confirmed, me
  <2> QED BY <2>2, <2>3, RetainerMoves, Zenon
<1>6. CASE BetweenCalls(r, change, v)
  <2>0. PICK state : state = [IdleRetainer EXCEPT !.pc = "call", !.change = change,
                                                  !.session = v]
    OBVIOUS
  <2>1. change = [kind |-> change.kind, id |-> change.id] /\ change.kind \in Kinds
    OBVIOUS
  <2>2. RetainerOk(state, head', version')
    BY <2>0, <2>1, <1>1, LoopAttempts, Zenon DEF RetainerOk, IdleRetainer
  <2>3. retainers' = [retainers EXCEPT ![r] = state]
    BY <1>6, <2>0 DEF BetweenCalls, RetainerBecomes
  <2> QED BY <2>2, <2>3, RetainerMoves, Zenon
<1> QED BY <1>4, <1>5, <1>6

(* accept_retention, and a caller that gives up.                           *)
LEMMA RetentionAccepted ==
  ASSUME StoreInv, StoreInv', HeadStep, RetainersInv, NEW r \in Readers \cup Operators,
         NEW v, ViewOf(v, head', version'), NEW status,
         status \in {"Applied", "ActiveCollection", "Conflict", "Pending"},
         AcceptRetention(r, status, v) \/ GiveUp(r)
  PROVE  RetainersInv'
<1> DEFINE me == retainers[r]
<1>1. /\ ViewOf(me.session, head', version')
      /\ me.change = [kind |-> me.change.kind, id |-> me.change.id]
      /\ me.change.kind \in Kinds
  BY ViewsStay, Zenon DEF RetainersInv, RetainerOk
<1>2. PICK release : release = [me.change EXCEPT !.kind = "Release"]
  BY Zenon
<1>3. release = [kind |-> "Release", id |-> me.change.id] /\ "Release" \in Kinds
  BY <1>1, <1>2 DEF Kinds
<1>4. \/ Confirmed(r, v)
      \/ BetweenCalls(r, me.change, v)
      \/ BetweenCalls(r, me.change, me.session)
      \/ BetweenCalls(r, release, me.session)
      \/ RetainerBecomes(r, IdleRetainer)
  BY <1>2, Zenon DEF AcceptRetention, GiveUp
<1> HIDE DEF me
<1> QED BY <1>1, <1>3, <1>4, RetentionCallEnds

(* Every step of a reader or an operator makes the head take a legal step  *)
(* or none.                                                                *)
LEMMA RetainerKeeps ==
  ASSUME StoreInv, RetainersInv, NEW r \in Readers \cup Operators,
         \/ r \in Readers /\ ReaderStep(r)
         \/ r \in Operators /\ StartRecovery(r)
         \/ RetainerStep(r)
  PROVE  StoreInv' /\ HeadStep /\ RetainersInv'
<1> DEFINE me == retainers[r]
           Statuses == {"Applied", "ActiveCollection", "Conflict", "Pending"}
<1>1. RetainerOk(me, head, version) /\ r \in Clients
  BY ReadersAssumption DEF RetainersInv
<1>2. ViewOf(NoView, head, version) /\ ViewOf(Observed, head, version)
  BY ObservedIsView DEF StoreInv
<1>3. ASSUME UNCHANGED storeVars
      PROVE  /\ StoreInv' /\ HeadStep /\ UNCHANGED <<head, version>>
             /\ ViewOf(NoView, head', version') /\ ViewOf(Observed, head', version')
  BY <1>2, <1>3, QuietKeepsStore DEF StoreInv, storeVars
<1> HIDE DEF me
<1>4. ASSUME NEW state, UNCHANGED storeVars, RetainerBecomes(r, state),
             RetainerOk(state, head, version)
      PROVE  StoreInv' /\ HeadStep /\ RetainersInv'
  BY <1>3, <1>4, RetainerMoves, Zenon DEF RetainerBecomes
<1>5. ASSUME UNCHANGED storeVars, NEW v \in {NoView, Observed}, NEW status \in Statuses,
             AcceptRetention(r, status, v) \/ GiveUp(r)
      PROVE  StoreInv' /\ HeadStep /\ RetainersInv'
  BY <1>3, <1>5, RetentionAccepted
<1>6. ASSUME UNCHANGED <<head, version, late>>, Draw(r),
             NEW kind \in Kinds, NEW id,
             BetweenCalls(r, [kind |-> kind, id |-> id], Observed)
      PROVE  StoreInv' /\ HeadStep /\ RetainersInv'
  <2>1. StoreInv' /\ HeadStep
    BY <1>1, <1>6, DrawnIdentity, QuietKeepsStore
  <2>2. ViewOf(Observed, head', version')
    BY <1>2, <1>6
  <2>3. PICK change : change = [kind |-> kind, id |-> id]
    BY Zenon
  <2> QED BY <1>6, <2>1, <2>2, <2>3, RetentionCallEnds
<1>7. ASSUME me.pc = "update", ~RetentionIdLimit(r)
      PROVE  /\ ViewOf(me.view, head, version)
             /\ LegalStep(me.view.head, RetentionCandidate(r))
  BY <1>1, <1>7, RetentionIsLegal
     DEF RetainerOk, RetentionIdLimit, RetentionCandidate, ViewOf, me
<1>8. CASE StartReader(r)
  <2>1. "Acquire" \in Kinds
    BY DEF Kinds
  <2> QED BY <1>6, <1>8, <2>1 DEF StartReader
<1>9. CASE StartRecovery(r)
  <2>1. "ClearAfterDrain" \in Kinds
    BY DEF Kinds
  <2> QED BY <1>6, <1>9, <2>1 DEF StartRecovery
<1>10. CASE FinishReading(r)
  <2>1. UNCHANGED storeVars
        /\ BetweenCalls(r, [me.change EXCEPT !.kind = "Release"], me.session)
    BY <1>10 DEF FinishReading, me
  <2>2. PICK change : change = [me.change EXCEPT !.kind = "Release"]
    BY Zenon
  <2>3. change = [kind |-> "Release", id |-> me.change.id] /\ "Release" \in Kinds
    BY <1>1, <2>2 DEF RetainerOk, Kinds
  <2>4. StoreInv' /\ HeadStep /\ ViewOf(me.session, head', version')
    BY <1>1, <1>3, <2>1, ViewsStay DEF RetainerOk
  <2> QED BY <2>1, <2>2, <2>3, <2>4, RetentionCallEnds
<1>11. ASSUME NEW h PROVE ClassifyRetention(me.change, h) \in Statuses
  BY DEF ClassifyRetention
<1>12. "Conflict" \in Statuses /\ "Pending" \in Statuses /\ "Applied" \in Statuses
  OBVIOUS
<1> HIDE DEF Statuses
<1>13. CASE RefreshRetention(r)
  <2>1. PICK status \in Statuses :
          UNCHANGED storeVars /\ AcceptRetention(r, status, Observed)
    BY <1>11, <1>12, <1>13 DEF RefreshRetention, me
  <2> QED BY <1>5, <2>1
<1>14. CASE ChangeRetention(r)
  <2>0. PICK state : state = [me EXCEPT !.pc = "update", !.attempt = 0,
                                        !.view = me.session]
    OBVIOUS
  <2>1. /\ UNCHANGED storeVars /\ RetainerBecomes(r, state)
        /\ ClassifyRetention(me.change, me.session.head) = "Conflict"
    BY <1>14, <2>0 DEF ChangeRetention, me
  <2>2. RetainerOk(state, head, version)
    BY <2>0, <1>1, <2>1, LoopAttempts, Zenon DEF RetainerOk
  <2> QED BY <1>4, <2>1, <2>2
<1>15. CASE RetentionApplied(r)
  <2>0. PICK v : v = [head |-> RetentionCandidate(r), version |-> me.view.version + 1]
    BY Zenon
  <2>1. /\ me.pc = "update" /\ ~RetentionIdLimit(r) /\ UNCHANGED quota
        /\ UpdateApplied(me.view, RetentionCandidate(r))
        /\ AcceptRetention(r, "Applied", v)
    BY <1>15, <2>0 DEF RetentionApplied, me
  <2>2. /\ StoreInv' /\ HeadStep
        /\ head' = RetentionCandidate(r) /\ version' = me.view.version + 1
    BY <1>7, <2>1, UpdateKeepsStore
  <2>3. ViewOf(v, head', version')
    <3>1. PICK h, n : h = head' /\ n = version'
      OBVIOUS
    <3>2. n \in Nat /\ HeadInvariant(h) /\ h.generation = n
      BY <2>2, <3>1 DEF StoreInv
    <3>3. NotAhead(h, h)
      BY <3>2 DEF NotAhead, HeadInvariant, IsHead
    <3>4. v = [head |-> h, version |-> n]
      BY <2>0, <2>2, <3>1
    <3>5. ViewOf(v, h, n)
      BY <3>2, <3>3, <3>4 DEF ViewOf
    <3> QED BY <3>1, <3>5
  <2> QED BY <1>12, <2>1, <2>2, <2>3, RetentionAccepted DEF Statuses
<1>16. CASE RetentionRejected(r)
  <2>0. PICK state : state = [me EXCEPT !.pc = "reload"]
    BY Zenon
  <2>1. /\ me.pc = "update" /\ ~RetentionIdLimit(r) /\ UNCHANGED quota
        /\ UpdateInFlight(me.view, RetentionCandidate(r))
        /\ retainers' = [retainers EXCEPT ![r] = state]
    BY <1>16, <2>0 DEF RetentionRejected, RetainerBecomes, me
  <2>2. StoreInv' /\ HeadStep /\ UNCHANGED <<head, version>>
    BY <1>7, <2>1, UpdateKeepsStore, Zenon DEF UpdateInFlight
  <2>3. RetainerOk(state, head, version)
    BY <2>0, <1>1, <2>1 DEF RetainerOk
  <2> QED BY <2>1, <2>2, <2>3, RetainerMoves, Zenon
<1>17. CASE RetentionUncertain(r)
  <2>1. /\ me.pc = "update" /\ ~RetentionIdLimit(r) /\ UNCHANGED quota
        /\ UpdateInFlight(me.view, RetentionCandidate(r))
        /\ AcceptRetention(r, "Pending", NoView)
    BY <1>17 DEF RetentionUncertain, me
  <2>2. StoreInv' /\ HeadStep
    BY <1>7, <2>1, UpdateKeepsStore
  <2>3. ViewOf(NoView, head', version')
    BY <1>2, <2>2, ViewsStay
  <2> QED BY <1>12, <2>1, <2>2, <2>3, RetentionAccepted DEF Statuses
<1>18. CASE RetentionRefused(r)
  BY <1>5, <1>12, <1>18 DEF RetentionRefused
<1>19. CASE RetentionReload(r)
  <2> DEFINE status == ClassifyRetention(me.change, head)
  <2>0. PICK state : state = [me EXCEPT !.pc = "update", !.view = Observed,
                                        !.attempt = me.attempt + 1]
    OBVIOUS
  <2>1. UNCHANGED storeVars
    BY <1>19 DEF RetentionReload
  <2>2. \/ AcceptRetention(r, "Pending", NoView)
        \/ AcceptRetention(r, "Conflict", Observed)
        \/ AcceptRetention(r, status, Observed)
        \/ GiveUp(r)
        \/ /\ status = "Conflict" /\ me.attempt + 1 # MaxAttempts
           /\ RetainerBecomes(r, state)
    BY <1>1, <1>19, <2>0, BoundsAssumption DEF RetentionReload, RetainerOk, Attempts, me
  <2>3. CASE /\ status = "Conflict" /\ me.attempt + 1 # MaxAttempts
           /\ RetainerBecomes(r, state)
    <3>0. me.attempt + 1 \in Attempts
      BY <1>1, <2>3, LoopAttempts, BoundsAssumption DEF RetainerOk
    <3>1. RetainerOk(state, head, version)
      BY <2>0, <1>1, <1>2, <2>3, <3>0, Zenon DEF RetainerOk, Observed
    <3> QED BY <1>4, <2>1, <2>3, <3>1
  <2>4. status \in Statuses
    BY <1>11
  <2> HIDE DEF status
  <2> QED BY <1>5, <1>12, <2>1, <2>2, <2>3, <2>4
<1>20. CASE RetentionReloadFails(r)
  BY <1>5, <1>12, <1>20 DEF RetentionReloadFails
<1>21. CASE CallerGivesUp(r)
  BY <1>5, <1>12, <1>21 DEF CallerGivesUp
<1>22. CASE RetainerCrash(r)
  <2>1. RetainerOk(IdleRetainer, head, version)
    BY <1>2, LoopAttempts DEF RetainerOk, IdleRetainer, NoChange, Kinds
  <2> QED BY <1>4, <1>22, <2>1 DEF RetainerCrash
<1> QED BY <1>8, <1>9, <1>10, <1>13, <1>14, <1>15, <1>16, <1>17, <1>18, <1>19, <1>20,
           <1>21, <1>22 DEF ReaderStep, RetainerStep

-----------------------------------------------------------------------------
(* What a step of a reader or an operator does to the retentions.  A call  *)
(* goes on with its change or turns an acquisition into its release, and   *)
(* an acquisition is confirmed only by a head that has the identity.       *)
RetentionGoesOn(me, next, h) ==
  \/ next.pc = "idle"
  \/ /\ next.pc # "idle"
     /\ next.change.id = me.change.id
     /\ \/ next.change.kind = me.change.kind
        \/ me.change.kind = "Acquire" /\ next.change.kind = "Release"
     /\ next.pc = "holding" =>
          /\ next.change.kind = "Acquire" /\ next.change.id \in h.retention_ids
          /\ h.collection_epoch = next.session.head.collection_epoch

StartsRetention(r) ==
  /\ retainers[r].pc = "idle" /\ retainers'[r].pc = "call"
  /\ Draw(r) /\ StoreStays
  /\ \/ /\ r \in Readers /\ ~Recovering
        /\ retainers'[r].change = [kind |-> "Acquire", id |-> Fresh(r)]
     \/ /\ r \in Operators /\ Drained
        /\ retainers'[r].change = [kind |-> "ClearAfterDrain", id |-> None]

ChangesRetention(r) ==
  /\ retainers[r].pc # "idle" /\ UNCHANGED quota
  /\ RetentionGoesOn(retainers[r], retainers'[r], head')
  /\ \/ StoreStays
     \/ \E h : /\ LegalStep(head, h) /\ Proposes(h)
               /\ h = RetentionHead(head, retainers[r].change)

RetainerActs(r) ==
  /\ \A q \in (Readers \cup Operators) \ {r} : retainers'[q] = retainers[q]
  /\ StartsRetention(r) \/ ChangesRetention(r)

(* accept_retention, and a caller that gives up.                           *)
LEMMA AcceptedGoesOn ==
  ASSUME RetainersInv, NEW r \in Readers \cup Operators, NEW v, NEW h, NEW status,
         status \in {"Applied", "ActiveCollection", "Conflict", "Pending"},
         AcceptRetention(r, status, v) \/ GiveUp(r),
         status = "Applied" =>
           /\ v.head = h
           /\ retainers[r].change.kind = "Acquire" =>
                retainers[r].change.id \in h.retention_ids
  PROVE  /\ \A q \in (Readers \cup Operators) \ {r} : retainers'[q] = retainers[q]
         /\ RetentionGoesOn(retainers[r], retainers'[r], h)
<1> DEFINE me == retainers[r]
<1>1. ASSUME NEW state, retainers' = [retainers EXCEPT ![r] = state],
             RetentionGoesOn(me, state, h)
      PROVE  /\ \A q \in (Readers \cup Operators) \ {r} : retainers'[q] = retainers[q]
             /\ RetentionGoesOn(me, retainers'[r], h)
  BY <1>1 DEF RetainersInv
<1>2. me.change = [kind |-> me.change.kind, id |-> me.change.id]
  BY Zenon DEF RetainersInv, RetainerOk
<1> HIDE DEF me
<1>3. RetentionGoesOn(me, IdleRetainer, h)
  BY DEF RetentionGoesOn, IdleRetainer
<1>4. ASSUME NEW view, NEW change, BetweenCalls(r, change, view), change.id = me.change.id,
             \/ change.kind = me.change.kind
             \/ me.change.kind = "Acquire" /\ change.kind = "Release"
      PROVE  /\ \A q \in (Readers \cup Operators) \ {r} : retainers'[q] = retainers[q]
             /\ RetentionGoesOn(me, retainers'[r], h)
  <2>1. PICK state : state = [IdleRetainer EXCEPT !.pc = "call", !.change = change,
                                                  !.session = view]
    OBVIOUS
  <2>2. state.pc = "call" /\ state.change = change
    BY <2>1 DEF IdleRetainer
  <2>3. retainers' = [retainers EXCEPT ![r] = state]
    BY <1>4, <2>1 DEF BetweenCalls, RetainerBecomes
  <2>4. RetentionGoesOn(me, state, h)
    BY <1>4, <2>2 DEF RetentionGoesOn
  <2> QED BY <1>1, <2>3, <2>4, Zenon
<1>5. CASE GiveUp(r)
  <2>1. PICK change : change = [me.change EXCEPT !.kind = "Release"]
    BY Zenon
  <2>2. change.id = me.change.id /\ change.kind = "Release"
    BY <1>2, <2>1
  <2>3. \/ BetweenCalls(r, change, me.session) /\ me.change.kind = "Acquire"
        \/ RetainerBecomes(r, IdleRetainer)
    BY <1>5, <2>1 DEF GiveUp, me
  <2> QED BY <1>1, <1>3, <1>4, <2>2, <2>3 DEF RetainerBecomes, me
<1>6. CASE AcceptRetention(r, status, v) /\ status = "Applied"
  <2>1. PICK state : state = IF me.change.kind = "Acquire"
                             THEN [IdleRetainer EXCEPT !.pc = "holding",
                                     !.change = me.change, !.session = v]
                             ELSE IdleRetainer
    OBVIOUS
  <2>2. retainers' = [retainers EXCEPT ![r] = state]
    BY <1>6, <2>1 DEF AcceptRetention, Confirmed, me
  <2>3. ASSUME me.change.kind = "Acquire" PROVE RetentionGoesOn(me, state, h)
    <3>1. state.pc = "holding" /\ state.change = me.change /\ state.session = v
      BY <2>1, <2>3 DEF IdleRetainer
    <3> QED BY <1>6, <2>3, <3>1 DEF RetentionGoesOn, me
  <2>4. RetentionGoesOn(me, state, h)
    BY <1>3, <2>1, <2>3
  <2> QED BY <1>1, <2>2, <2>4, Zenon DEF me
<1>7. CASE AcceptRetention(r, status, v) /\ status # "Applied"
  <2>1. BetweenCalls(r, me.change, v) \/ BetweenCalls(r, me.change, me.session)
    BY <1>7, Zenon DEF AcceptRetention, me
  <2> QED BY <1>4, <2>1 DEF me
<1> QED BY <1>5, <1>6, <1>7

(* Every step of a reader or an operator is one of these.                  *)
LEMMA RetainersAct ==
  ASSUME StoreInv, RetainersInv, NEW r \in Readers \cup Operators,
         \/ r \in Readers /\ ReaderStep(r)
         \/ r \in Operators /\ StartRecovery(r)
         \/ RetainerStep(r)
  PROVE  RetainerActs(r)
<1> DEFINE me == retainers[r]
           Statuses == {"Applied", "ActiveCollection", "Conflict", "Pending"}
           Others == \A q \in (Readers \cup Operators) \ {r} : retainers'[q] = retainers[q]
<1>1. RetainerOk(me, head, version)
  BY DEF RetainersInv
<1>2. ASSUME NEW state, retainers' = [retainers EXCEPT ![r] = state]
      PROVE  retainers'[r] = state /\ Others
  BY <1>2 DEF RetainersInv
<1>3. ASSUME NEW h PROVE /\ ClassifyRetention(me.change, h) \in Statuses
                         /\ ClassifyRetention(me.change, h) = "Applied" =>
                              (me.change.kind = "Acquire" => me.change.id \in h.retention_ids)
  BY DEF ClassifyRetention
<1>4. "Conflict" \in Statuses /\ "Pending" \in Statuses /\ "Applied" \in Statuses
  OBVIOUS
<1>5. ASSUME UNCHANGED storeVars, NEW v, NEW status \in Statuses,
             AcceptRetention(r, status, v) \/ GiveUp(r), me.pc # "idle",
             status = "Applied" =>
               /\ v.head = head
               /\ me.change.kind = "Acquire" => me.change.id \in head.retention_ids
      PROVE  RetainerActs(r)
  <2>1. Others /\ RetentionGoesOn(me, retainers'[r], head)
    BY <1>5, AcceptedGoesOn
  <2>2. head' = head /\ StoreStays /\ UNCHANGED quota
    BY <1>5 DEF storeVars, StoreStays
  <2> QED BY <1>5, <2>1, <2>2 DEF RetainerActs, ChangesRetention
<1> HIDE DEF me, Statuses, Others
<1>6. ASSUME me.pc = "update", ~RetentionIdLimit(r), UNCHANGED quota, Others,
             NEW h, h = RetentionCandidate(r),
             UpdateApplied(me.view, h) \/ UpdateInFlight(me.view, h),
             RetentionGoesOn(me, retainers'[r], head')
      PROVE  RetainerActs(r)
  <2>1. /\ ViewOf(me.view, head, version) /\ HeadInvariant(me.view.head)
        /\ LegalStep(me.view.head, h)
    BY <1>1, <1>6, RetentionIsLegal, Zenon
       DEF RetainerOk, RetentionIdLimit, RetentionCandidate, ViewOf, me
  <2>2. \/ StoreStays
        \/ me.view.head = head /\ Proposes(h)
    BY <1>6, <2>1, UpdateProposes DEF Proposes
  <2>3. h = RetentionHead(me.view.head, me.change)
    BY <1>6 DEF RetentionCandidate, me
  <2>4. ChangesRetention(r)
    BY <1>6, <2>1, <2>2, <2>3 DEF ChangesRetention, me
  <2> QED BY <1>6, <2>4 DEF RetainerActs, Others
<1>7. ASSUME NEW kind, NEW id, Draw(r), StoreStays, me.pc = "idle",
             BetweenCalls(r, [kind |-> kind, id |-> id], Observed),
             \/ r \in Readers /\ ~Recovering /\ kind = "Acquire" /\ id = Fresh(r)
             \/ r \in Operators /\ Drained /\ kind = "ClearAfterDrain" /\ id = None
      PROVE  RetainerActs(r)
  <2>1. PICK change : change = [kind |-> kind, id |-> id]
    BY Zenon
  <2>2. PICK state : state = [IdleRetainer EXCEPT !.pc = "call", !.change = change,
                                                  !.session = Observed]
    OBVIOUS
  <2>3. state.pc = "call" /\ state.change = change
    BY <2>2 DEF IdleRetainer
  <2>4. retainers' = [retainers EXCEPT ![r] = state]
    BY <1>7, <2>1, <2>2 DEF BetweenCalls, RetainerBecomes
  <2>5. retainers'[r] = state /\ Others
    BY <1>2, <2>4, Zenon
  <2>6. StartsRetention(r)
    BY <1>7, <2>1, <2>3, <2>5 DEF StartsRetention, me
  <2> QED BY <2>5, <2>6 DEF RetainerActs, Others
<1>8. ASSUME NEW state, UNCHANGED storeVars, RetainerBecomes(r, state), me.pc # "idle",
             RetentionGoesOn(me, state, head)
      PROVE  RetainerActs(r)
  <2>1. retainers'[r] = state /\ Others
    BY <1>2, <1>8, Zenon DEF RetainerBecomes
  <2>2. head' = head /\ StoreStays /\ UNCHANGED quota
    BY <1>8 DEF storeVars, StoreStays
  <2> QED BY <1>8, <2>1, <2>2 DEF RetainerActs, ChangesRetention, Others, me
<1>9. CASE StartReader(r) /\ r \in Readers
  <2>1. PICK kind, id : kind = "Acquire" /\ id = Fresh(r)
    OBVIOUS
  <2> QED BY <1>7, <1>9, <2>1 DEF StartReader, StoreStays, me
<1>10. CASE StartRecovery(r) /\ r \in Operators
  <2>1. PICK kind, id : kind = "ClearAfterDrain" /\ id = None
    OBVIOUS
  <2> QED BY <1>7, <1>10, <2>1 DEF StartRecovery, StoreStays, me
<1>11. CASE FinishReading(r)
  <2>1. PICK change : change = [me.change EXCEPT !.kind = "Release"]
    BY Zenon
  <2>2. PICK state : state = [IdleRetainer EXCEPT !.pc = "call", !.change = change,
                                                  !.session = me.session]
    OBVIOUS
  <2>3. /\ state.pc = "call" /\ state.change.id = me.change.id
        /\ state.change.kind = "Release"
    BY <1>1, <2>1, <2>2 DEF IdleRetainer, RetainerOk
  <2>4. /\ UNCHANGED storeVars /\ RetainerBecomes(r, state) /\ me.pc # "idle"
        /\ me.pc = "holding"
    BY <1>11, <2>1, <2>2 DEF FinishReading, BetweenCalls, me
  <2>5. ASSUME me.change.kind = "Acquire" \/ me.change.kind = "Release"
        PROVE  RetainerActs(r)
    <3>1. RetentionGoesOn(me, state, head)
      BY <2>3, <2>5 DEF RetentionGoesOn
    <3> QED BY <1>8, <2>4, <3>1
  <2>6. me.change.kind = "Acquire"
    BY <1>1, <2>4 DEF RetainerOk
  <2> QED BY <2>5, <2>6
<1>12. CASE RefreshRetention(r)
  <2>1. PICK status \in Statuses :
          /\ UNCHANGED storeVars /\ AcceptRetention(r, status, Observed)
          /\ status # "Conflict" => status = ClassifyRetention(me.change, head)
    BY <1>3, <1>4, <1>12 DEF RefreshRetention, me
  <2>2. me.pc # "idle" /\ Observed.head = head
    BY <1>12 DEF RefreshRetention, Observed, me
  <2> QED BY <1>3, <1>5, <2>1, <2>2
<1>13. CASE ChangeRetention(r)
  <2>0. PICK state : state = [me EXCEPT !.pc = "update", !.attempt = 0,
                                        !.view = me.session]
    OBVIOUS
  <2>1. /\ UNCHANGED storeVars /\ RetainerBecomes(r, state) /\ me.pc # "idle"
    BY <1>13, <2>0 DEF ChangeRetention, me
  <2>2. state.pc = "update" /\ state.change = me.change
    BY <1>1, <2>0 DEF RetainerOk
  <2>3. RetentionGoesOn(me, state, head)
    BY <2>2 DEF RetentionGoesOn
  <2> QED BY <1>8, <2>1, <2>3
<1>14. CASE RetentionApplied(r)
  <2>0. PICK h, v : h = RetentionCandidate(r)
                    /\ v = [head |-> h, version |-> me.view.version + 1]
    BY Zenon
  <2>1. /\ me.pc = "update" /\ ~RetentionIdLimit(r) /\ UNCHANGED quota
        /\ UpdateApplied(me.view, h) /\ AcceptRetention(r, "Applied", v)
    BY <1>14, <2>0 DEF RetentionApplied, me
  <2>2. head' = h /\ v.head = h
    BY <2>0, <2>1 DEF UpdateApplied, Apply
  <2>3. me.change.kind = "Acquire" => me.change.id \in h.retention_ids
    BY <1>1, <2>0, Zenon DEF RetentionCandidate, RetentionHead, RetainerOk, ViewOf, HeadInvariant,
                      IsHead, me
  <2>4. Others /\ RetentionGoesOn(me, retainers'[r], h)
    BY <2>1, <2>2, <2>3, AcceptedGoesOn, Zenon DEF Others, me
  <2> QED BY <1>6, <2>0, <2>1, <2>2, <2>4
<1>15. CASE RetentionRejected(r)
  <2>0. PICK state, h : state = [me EXCEPT !.pc = "reload"] /\ h = RetentionCandidate(r)
    BY Zenon
  <2>1. /\ me.pc = "update" /\ ~RetentionIdLimit(r) /\ UNCHANGED quota
        /\ UpdateInFlight(me.view, h)
        /\ retainers' = [retainers EXCEPT ![r] = state]
    BY <1>15, <2>0 DEF RetentionRejected, RetainerBecomes, me
  <2>2. state.pc = "reload" /\ state.change = me.change
    BY <1>1, <2>0 DEF RetainerOk
  <2>3. retainers'[r] = state /\ Others
    BY <1>2, <2>1, Zenon
  <2>4. RetentionGoesOn(me, retainers'[r], head')
    BY <2>2, <2>3 DEF RetentionGoesOn
  <2> QED BY <1>6, <2>0, <2>1, <2>3, <2>4
<1>16. CASE RetentionUncertain(r)
  <2>0. PICK h : h = RetentionCandidate(r)
    OBVIOUS
  <2>1. /\ me.pc = "update" /\ ~RetentionIdLimit(r) /\ UNCHANGED quota
        /\ UpdateInFlight(me.view, h) /\ AcceptRetention(r, "Pending", NoView)
    BY <1>16, <2>0 DEF RetentionUncertain, me
  <2>2. Others /\ RetentionGoesOn(me, retainers'[r], head)
    BY <2>1, AcceptedGoesOn, Zenon DEF Others, me
  <2>3. head' = head
    BY <2>1 DEF UpdateInFlight
  <2> QED BY <1>6, <2>0, <2>1, <2>2, <2>3
<1>17. CASE RetentionRefused(r) \/ RetentionReloadFails(r) \/ CallerGivesUp(r)
  <2>1. /\ UNCHANGED storeVars /\ me.pc # "idle"
        /\ AcceptRetention(r, "Pending", NoView) \/ GiveUp(r)
    BY <1>17 DEF RetentionRefused, RetentionReloadFails, CallerGivesUp, me
  <2>2. "Pending" # "Applied"
    OBVIOUS
  <2> QED BY <1>4, <1>5, <2>1, <2>2
<1>18. CASE RetentionReload(r)
  <2> DEFINE status == ClassifyRetention(me.change, head)
  <2>0. PICK state : state = [me EXCEPT !.pc = "update", !.view = Observed,
                                        !.attempt = me.attempt + 1]
    OBVIOUS
  <2>1. UNCHANGED storeVars /\ me.pc # "idle"
    BY <1>18 DEF RetentionReload, me
  <2>2. \/ AcceptRetention(r, "Pending", NoView)
        \/ AcceptRetention(r, "Conflict", Observed)
        \/ AcceptRetention(r, status, Observed)
        \/ GiveUp(r)
        \/ RetainerBecomes(r, state)
    BY <1>18, <2>0 DEF RetentionReload, me
  <2>3. CASE RetainerBecomes(r, state)
    <3>1. state.pc = "update" /\ state.change = me.change
      BY <1>1, <2>0 DEF RetainerOk
    <3>2. RetentionGoesOn(me, state, head)
      BY <3>1 DEF RetentionGoesOn
    <3> QED BY <1>8, <2>1, <2>3, <3>2
  <2>4. /\ status \in Statuses
        /\ status = "Applied" =>
             (me.change.kind = "Acquire" => me.change.id \in head.retention_ids)
        /\ Observed.head = head
    BY <1>3 DEF Observed
  <2> HIDE DEF status
  <2>5. CASE AcceptRetention(r, status, Observed)
    BY <1>5, <2>1, <2>4, <2>5
  <2>6. CASE \/ AcceptRetention(r, "Pending", NoView)
             \/ AcceptRetention(r, "Conflict", Observed) \/ GiveUp(r)
    <3>1. "Pending" # "Applied" /\ "Conflict" # "Applied"
      OBVIOUS
    <3> QED BY <1>4, <1>5, <2>1, <2>6, <3>1
  <2> QED BY <2>2, <2>3, <2>5, <2>6
<1>19. CASE RetainerCrash(r)
  <2>1. RetentionGoesOn(me, IdleRetainer, head)
    BY DEF RetentionGoesOn, IdleRetainer
  <2> QED BY <1>8, <1>19, <2>1 DEF RetainerCrash, me
<1> QED BY <1>9, <1>10, <1>11, <1>12, <1>13, <1>14, <1>15, <1>16, <1>17, <1>18, <1>19
        DEF ReaderStep, RetainerStep

-----------------------------------------------------------------------------
(* What a pinned reader rests on.  Readers and a drain exclude each other. *)
Retains(r) == retainers[r].pc # "idle" /\ retainers[r].change.kind \in {"Acquire", "Release"}
Acquires(r) == retainers[r].pc # "idle" /\ retainers[r].change.kind = "Acquire"
Drains(r) == retainers[r].pc # "idle" /\ retainers[r].change.kind = "ClearAfterDrain"

OwnersInv ==
  /\ \A r \in Readers \cup Operators :
       /\ Retains(r) => r \in Readers /\ DrawnBy(r, retainers[r].change.id, quota)
       /\ Drains(r) => r \in Operators
  /\ \A r, o \in Readers \cup Operators : ~(Retains(r) /\ Drains(o))

(* Identities in the head, or in a head in flight, were drawn by readers;  *)
(* an acquired one is in every head in flight, and the epoch of a reader   *)
(* that holds its retention is the current one.                            *)
PinnedInv ==
  /\ \A id \in head.retention_ids : Drawn(Readers, id, quota)
  /\ \A l \in late : \A id \in l.head.retention_ids : Drawn(Readers, id, quota)
  /\ \A r \in Readers \cup Operators :
       Acquires(r) /\ retainers[r].change.id \in head.retention_ids =>
         \A l \in late : retainers[r].change.id \in l.head.retention_ids
  /\ \A r \in Readers \cup Operators : retainers[r].pc = "holding" =>
       /\ retainers[r].change.kind = "Acquire"
       /\ retainers[r].change.id \in head.retention_ids
       /\ head.collection_epoch = retainers[r].session.head.collection_epoch

PinsInv == OwnersInv /\ PinnedInv

(* The retention identities that readers drew stay drawn.                  *)
LEMMA RetentionIdentities ==
  ASSUME StoreInv, QuotaFalls, NEW id, Drawn(Readers, id, quota)
  PROVE  Drawn(Readers, id, quota')
BY DrawnStays, ReadersAssumption

(* So does the identity of one reader.                                     *)
LEMMA OwnersStay ==
  ASSUME StoreInv, QuotaFalls, NEW r \in Readers, NEW id, DrawnBy(r, id, quota)
  PROVE  DrawnBy(r, id, quota')
BY DrawnStaysDrawn, ReadersAssumption

(* The head takes a step that drops no identity of a reader that acquires: *)
(* a fence is not installed over it.                                       *)
LEMMA PinsStayOn ==
  ASSUME StoreInv, PinsInv, QuotaFalls, NEW h, LegalStep(head, h), Proposes(h),
         UNCHANGED retainers,
         \A id \in h.retention_ids : Drawn(Readers, id, quota'),
         \A r \in Readers \cup Operators :
           Acquires(r) /\ retainers[r].change.id \in head.retention_ids =>
             retainers[r].change.id \in h.retention_ids
  PROVE  PinsInv'
<1>1. OwnersInv'
  BY OwnersStay DEF PinsInv, OwnersInv, Retains, Drains
<1>2. CASE Submits(h)
  <2>1. /\ head' = head
        /\ \A l \in late' : l \in late \/ l.head = h
    BY <1>2 DEF Submits
  <2>2. PinnedInv'
    BY <2>1, RetentionIdentities DEF PinsInv, PinnedInv, Acquires
  <2> QED BY <1>1, <2>2 DEF PinsInv
<1>3. CASE Apply(h)
  <2>1. head' = h /\ late' = {}
    BY <1>3 DEF Apply, StoreInv
  <2>2. head.collection_epoch # h.collection_epoch => head.retention_ids = {}
    BY LegalStepAdvances DEF StoreInv, Advances
  <2>3. ASSUME NEW r \in Readers \cup Operators, retainers[r].pc = "holding"
        PROVE  /\ retainers[r].change.kind = "Acquire"
               /\ retainers[r].change.id \in h.retention_ids
               /\ h.collection_epoch = retainers[r].session.head.collection_epoch
    <3>1. /\ retainers[r].change.kind = "Acquire"
          /\ retainers[r].change.id \in head.retention_ids
          /\ head.collection_epoch = retainers[r].session.head.collection_epoch
      BY <2>3 DEF PinsInv, PinnedInv
    <3>2. Acquires(r)
      BY <2>3, <3>1 DEF Acquires
    <3> QED BY <2>2, <3>1, <3>2
  <2>4. PinnedInv'
    BY <2>1, <2>3 DEF PinnedInv
  <2> QED BY <1>1, <2>4 DEF PinsInv
<1> QED BY <1>2, <1>3 DEF Proposes

(* Steps of the other clients, which change no retention.                  *)
LEMMA PinsStay ==
  ASSUME StoreInv, PinsInv, QuotaFalls, UNCHANGED retainers,
         \/ StoreStays
         \/ \E h : /\ LegalStep(head, h) /\ Proposes(h)
                   /\ h.retention_ids = head.retention_ids
  PROVE  PinsInv'
<1>1. CASE StoreStays
  <2>1. OwnersInv'
    BY OwnersStay DEF PinsInv, OwnersInv, Retains, Drains
  <2>2. PinnedInv'
    BY <1>1, RetentionIdentities DEF PinsInv, PinnedInv, Acquires, StoreStays
  <2> QED BY <2>1, <2>2 DEF PinsInv
<1>2. ASSUME NEW h, LegalStep(head, h), Proposes(h), h.retention_ids = head.retention_ids
      PROVE  PinsInv'
  <2>1. \A id \in h.retention_ids : Drawn(Readers, id, quota')
    BY <1>2, RetentionIdentities DEF PinsInv, PinnedInv
  <2> QED BY <1>2, <2>1, PinsStayOn
<1> QED BY <1>1, <1>2

(* A write in flight takes effect.                                         *)
LEMMA LandKeepsPins ==
  ASSUME StoreInv, PinsInv, Land, UNCHANGED retainers
  PROVE  PinsInv'
<1>1. PICK w \in late : LegalStep(head, w.head) /\ Apply(w.head)
  BY LandProposes
<1>2. QuotaFalls /\ quota' = quota
  BY QuotaStays DEF Land
<1>3. /\ \A id \in w.head.retention_ids : Drawn(Readers, id, quota')
      /\ \A r \in Readers \cup Operators :
           Acquires(r) /\ retainers[r].change.id \in head.retention_ids =>
             retainers[r].change.id \in w.head.retention_ids
  BY <1>2 DEF PinsInv, PinnedInv
<1> QED BY <1>1, <1>2, <1>3, PinsStayOn DEF Proposes

(* The identities of a head that a change proposes.                        *)
LEMMA RetentionIds ==
  ASSUME NEW h, HeadInvariant(h), NEW change, change.kind \in Kinds
  PROVE  /\ change.kind = "Acquire" =>
              RetentionHead(h, change).retention_ids = h.retention_ids \cup {change.id}
         /\ change.kind = "Release" =>
              RetentionHead(h, change).retention_ids = h.retention_ids \ {change.id}
         /\ change.kind = "ClearAfterDrain" => RetentionHead(h, change).retention_ids = {}
BY DEF RetentionHead, HeadInvariant, IsHead, Kinds

(* Steps of a reader or an operator.                                       *)
LEMMA RetainerKeepsPins ==
  ASSUME StoreInv, RetainersInv, PinsInv, NEW r \in Readers \cup Operators, RetainerActs(r)
  PROVE  PinsInv'
<1> DEFINE me == retainers[r]
           All == Readers \cup Operators
<1>1. /\ OwnersInv /\ PinnedInv /\ r \in Clients /\ Readers \subseteq Clients
      /\ \A q \in All \ {r} : retainers'[q] = retainers[q]
  BY ReadersAssumption DEF PinsInv, RetainerActs
<1>2. CASE StartsRetention(r)
  <2>1. PICK id : id = Fresh(r)
    OBVIOUS
  <2>2. /\ QuotaFalls /\ DrawnBy(r, id, quota') /\ \A q \in Clients : ~DrawnBy(q, id, quota)
    BY <1>1, <1>2, <2>1, FreshIsDrawn DEF StartsRetention
  <2>3. /\ me.pc = "idle" /\ retainers'[r].pc = "call"
        /\ \/ /\ r \in Readers /\ ~Recovering
              /\ retainers'[r].change = [kind |-> "Acquire", id |-> id]
           \/ /\ r \in Operators /\ Drained
              /\ retainers'[r].change = [kind |-> "ClearAfterDrain", id |-> None]
        /\ UNCHANGED <<head, late>>
    BY <1>2, <2>1 DEF StartsRetention, StoreStays
  <2>4. /\ retainers'[r].change.kind = "Acquire" =>
             /\ r \in Readers /\ retainers'[r].change.id = id
             /\ \A o \in Operators : retainers[o].pc = "idle"
        /\ retainers'[r].change.kind = "ClearAfterDrain" =>
             r \in Operators /\ \A q \in Readers : retainers[q].pc = "idle"
        /\ retainers'[r].change.kind \in {"Acquire", "ClearAfterDrain"}
    BY <2>3 DEF Recovering, Drained
  <2>5. ASSUME NEW q \in All
        PROVE  /\ Retains(q)' => q \in Readers /\ DrawnBy(q, retainers'[q].change.id, quota')
               /\ Drains(q)' => q \in Operators
    <3>1. CASE q = r
      BY <2>2, <2>4, <3>1 DEF Retains, Drains
    <3>2. CASE q # r
      BY <1>1, <2>2, <3>2, OwnersStay DEF OwnersInv, Retains, Drains
    <3> QED BY <3>1, <3>2
  <2>6. ASSUME NEW q \in All, NEW o \in All, Retains(q)', Drains(o)' PROVE FALSE
    <3>1. CASE q # r /\ o # r
      BY <1>1, <2>6, <3>1 DEF OwnersInv, Retains, Drains
    <3>2. CASE q = r /\ o # r
      <4>1. o \in Operators /\ retainers'[o] = retainers[o] /\ retainers'[o].pc # "idle"
        BY <1>1, <2>5, <2>6, <3>2 DEF Drains
      <4>2. retainers'[r].change.kind = "Acquire"
        BY <2>4, <2>6, <3>2 DEF Retains
      <4> QED BY <2>4, <4>1, <4>2
    <3>3. CASE o = r /\ q # r
      <4>1. q \in Readers /\ retainers'[q] = retainers[q] /\ retainers'[q].pc # "idle"
        BY <1>1, <2>5, <2>6, <3>3 DEF Retains
      <4>2. retainers'[r].change.kind = "ClearAfterDrain"
        BY <2>6, <3>3 DEF Drains
      <4> QED BY <2>4, <4>1, <4>2
    <3>4. CASE o = r /\ q = r
      BY <2>6, <3>4 DEF Retains, Drains
    <3> QED BY <3>1, <3>2, <3>3, <3>4
  <2>7. OwnersInv'
    BY <2>5, <2>6 DEF OwnersInv
  <2>8. id \notin head.retention_ids
    BY <1>1, <2>2 DEF PinnedInv, Drawn
  <2>9. ASSUME NEW q \in All, Acquires(q)', retainers'[q].change.id \in head.retention_ids,
               NEW l \in late
        PROVE  retainers'[q].change.id \in l.head.retention_ids
    <3>1. q # r
      BY <2>4, <2>8, <2>9 DEF Acquires
    <3> QED BY <1>1, <2>9, <3>1 DEF PinnedInv, Acquires
  <2>10. ASSUME NEW q \in All, retainers'[q].pc = "holding"
         PROVE  /\ retainers'[q].change.kind = "Acquire"
                /\ retainers'[q].change.id \in head.retention_ids
                /\ head.collection_epoch = retainers'[q].session.head.collection_epoch
    <3>1. q # r
      BY <2>3, <2>10
    <3> QED BY <1>1, <2>10, <3>1 DEF PinnedInv
  <2>11. PinnedInv'
    BY <1>1, <2>2, <2>3, <2>9, <2>10, RetentionIdentities DEF PinnedInv
  <2> QED BY <2>7, <2>11 DEF PinsInv
<1>3. CASE ChangesRetention(r)
  <2>1. /\ me.pc # "idle" /\ quota' = quota /\ QuotaFalls
        /\ RetentionGoesOn(me, retainers'[r], head')
    BY <1>3, QuotaStays DEF ChangesRetention
  <2>2. /\ me.change.kind \in Kinds /\ HeadInvariant(head)
    BY Zenon DEF RetainersInv, RetainerOk, StoreInv
  <2>3. /\ Retains(r)' => Retains(r) /\ retainers'[r].change.id = me.change.id
        /\ Drains(r)' => Drains(r)
        /\ Acquires(r)' => Acquires(r) /\ retainers'[r].change.id = me.change.id
    BY <2>1 DEF Retains, Drains, Acquires, RetentionGoesOn
  <2>4. ASSUME NEW q \in All
        PROVE  /\ Retains(q)' => Retains(q) /\ retainers'[q].change.id = retainers[q].change.id
               /\ Drains(q)' => Drains(q)
               /\ Acquires(q)' => Acquires(q) /\ retainers'[q].change.id = retainers[q].change.id
    <3>1. CASE q = r
      BY <2>3, <3>1
    <3>2. CASE q # r
      BY <1>1, <3>2 DEF Retains, Drains, Acquires
    <3> QED BY <3>1, <3>2
  <2>5. OwnersInv'
    BY <1>1, <2>1, <2>4 DEF OwnersInv
  <2>6. CASE StoreStays
    <3>1. UNCHANGED <<head, late>>
      BY <2>6 DEF StoreStays
    <3>2. ASSUME NEW q \in All, retainers'[q].pc = "holding"
          PROVE  /\ retainers'[q].change.kind = "Acquire"
                 /\ retainers'[q].change.id \in head.retention_ids
                 /\ head.collection_epoch = retainers'[q].session.head.collection_epoch
      <4>1. CASE q = r
        BY <2>1, <3>1, <3>2, <4>1 DEF RetentionGoesOn
      <4>2. CASE q # r
        BY <1>1, <3>2, <4>2 DEF PinnedInv
      <4> QED BY <4>1, <4>2
    <3>3. PinnedInv'
      BY <1>1, <2>1, <2>4, <3>1, <3>2, Zenon DEF PinnedInv
    <3> QED BY <2>5, <3>3 DEF PinsInv
  <2>7. ASSUME NEW h, LegalStep(head, h), Proposes(h), h = RetentionHead(head, me.change)
        PROVE  PinsInv'
    <3>1. /\ me.change.kind = "Acquire" =>
               h.retention_ids = head.retention_ids \cup {me.change.id}
          /\ me.change.kind = "Release" =>
               h.retention_ids = head.retention_ids \ {me.change.id}
          /\ me.change.kind = "ClearAfterDrain" => h.retention_ids = {}
      BY <2>2, <2>7, RetentionIds
    <3>2. \A id \in h.retention_ids : Drawn(Readers, id, quota)
      <4>1. me.change.kind = "Acquire" => Drawn(Readers, me.change.id, quota)
        BY <1>1, <2>1 DEF OwnersInv, Retains, Drawn
      <4> QED BY <1>1, <2>2, <3>1, <4>1 DEF PinnedInv, Kinds
    <3>3. ASSUME NEW q \in All, Acquires(q), retainers[q].change.id \in head.retention_ids
          PROVE  retainers[q].change.id \in h.retention_ids
      <4>1. CASE me.change.kind = "Acquire"
        BY <3>1, <3>3, <4>1
      <4>2. CASE me.change.kind = "Release"
        <5>1. Retains(r) /\ Retains(q) /\ q # r
          BY <2>1, <3>3, <4>2 DEF Retains, Acquires
        <5>2. /\ q \in Readers /\ r \in Readers
              /\ DrawnBy(q, retainers[q].change.id, quota)
              /\ DrawnBy(r, me.change.id, quota)
          BY <1>1, <5>1 DEF OwnersInv
        <5>3. retainers[q].change.id # me.change.id
          BY <1>1, <5>1, <5>2, DrawnOnce
        <5> QED BY <3>1, <3>3, <4>2, <5>3
      <4>3. CASE me.change.kind = "ClearAfterDrain"
        <5>1. Drains(r) /\ Retains(q)
          BY <2>1, <3>3, <4>3 DEF Drains, Retains, Acquires
        <5> QED BY <1>1, <5>1 DEF OwnersInv
      <4> QED BY <2>2, <4>1, <4>2, <4>3 DEF Kinds
    <3>4. CASE Submits(h)
      <4>1. /\ head' = head
            /\ \A l \in late' : l \in late \/ l.head = h
        BY <3>4 DEF Submits
      <4>2. ASSUME NEW q \in All, retainers'[q].pc = "holding"
            PROVE  /\ retainers'[q].change.kind = "Acquire"
                   /\ retainers'[q].change.id \in head.retention_ids
                   /\ head.collection_epoch = retainers'[q].session.head.collection_epoch
        <5>1. CASE q = r
          BY <2>1, <4>1, <4>2, <5>1 DEF RetentionGoesOn
        <5>2. CASE q # r
          BY <1>1, <4>2, <5>2 DEF PinnedInv
        <5> QED BY <5>1, <5>2
      <4>3. ASSUME NEW q \in All, Acquires(q)', retainers'[q].change.id \in head.retention_ids,
                   NEW l \in late'
            PROVE  retainers'[q].change.id \in l.head.retention_ids
        <5>1. /\ Acquires(q) /\ retainers'[q].change.id = retainers[q].change.id
          BY <2>4, <4>3
        <5> QED BY <1>1, <3>3, <4>1, <4>3, <5>1 DEF PinnedInv
      <4>4. PinnedInv'
        BY <1>1, <2>1, <3>2, <4>1, <4>2, <4>3, Zenon DEF PinnedInv
      <4> QED BY <2>5, <4>4 DEF PinsInv
    <3>5. CASE Apply(h)
      <4>1. head' = h /\ late' = {}
        BY <3>5 DEF Apply, StoreInv
      <4>2. h.collection_epoch = head.collection_epoch
        BY <2>2, <2>7 DEF RetentionHead, HeadInvariant, IsHead
      <4>3. ASSUME NEW q \in All, retainers'[q].pc = "holding"
            PROVE  /\ retainers'[q].change.kind = "Acquire"
                   /\ retainers'[q].change.id \in h.retention_ids
                   /\ h.collection_epoch = retainers'[q].session.head.collection_epoch
        <5>1. CASE q = r
          BY <2>1, <4>1, <4>3, <5>1 DEF RetentionGoesOn
        <5>2. CASE q # r
          <6>1. /\ retainers'[q] = retainers[q]
                /\ retainers[q].change.kind = "Acquire"
                /\ retainers[q].change.id \in head.retention_ids
                /\ head.collection_epoch = retainers[q].session.head.collection_epoch
            BY <1>1, <4>3, <5>2 DEF PinnedInv
          <6>2. Acquires(q)
            BY <4>3, <6>1 DEF Acquires
          <6> QED BY <3>3, <4>2, <6>1, <6>2
        <5> QED BY <5>1, <5>2
      <4>4. PinnedInv'
        BY <2>1, <3>2, <4>1, <4>3 DEF PinnedInv
      <4> QED BY <2>5, <4>4 DEF PinsInv
    <3> QED BY <2>7, <3>4, <3>5 DEF Proposes
  <2> QED BY <1>3, <2>6, <2>7 DEF ChangesRetention
<1> QED BY <1>2, <1>3 DEF RetainerActs

(* A step of a reader or an operator.                                      *)
LEMMA RetainerEffect ==
  ASSUME StoreInv, NEW r \in Readers \cup Operators, RetainerActs(r)
  PROVE  /\ QuotaFalls
         /\ \/ StoreStays
            \/ \E h : /\ LegalStep(head, h) /\ Proposes(h) /\ h.checkpoint = head.checkpoint
                      /\ h.next_sequence = head.next_sequence
                      /\ Range(h.tail) \subseteq Range(head.tail)
                      /\ h.active_plan = head.active_plan
<1>1. HeadInvariant(head) /\ r \in Clients
  BY ReadersAssumption DEF StoreInv
<1>2. CASE StartsRetention(r)
  BY <1>1, <1>2, FreshIsDrawn DEF StartsRetention
<1>3. CASE ChangesRetention(r)
  <2>1. QuotaFalls
    BY <1>3, QuotaStays DEF ChangesRetention
  <2>2. CASE ~StoreStays
    <3>1. PICK h : /\ LegalStep(head, h) /\ Proposes(h)
                   /\ h = RetentionHead(head, retainers[r].change)
      BY <1>3, <2>2 DEF ChangesRetention
    <3>2. /\ h.checkpoint = head.checkpoint /\ h.active_plan = head.active_plan
          /\ h.next_sequence = head.next_sequence /\ h.tail = head.tail
      BY <1>1, <3>1, RetentionKeeps
    <3> QED BY <2>1, <3>1, <3>2
  <2> QED BY <2>1, <2>2
<1> QED BY <1>2, <1>3 DEF RetainerActs

=============================================================================
