-------------------------- MODULE CheckpointProofs --------------------------
(***************************************************************************)
(* Every head that a checkpointer proposes is legal from the view it is    *)
(* written from, on the first attempt and over a head that has only been   *)
(* appended to.  And no answer to a checkpointer is contradicted later.    *)
(***************************************************************************)
EXTENDS Checkpoints, HeadStoreProofs, TLAPS

(* The covered commit is in the tail that the checkpoint was computed      *)
(* from, and each head that the checkpointer may still publish from is a   *)
(* view that only appends to it.                                           *)
CheckpointerOk(me, h, n) ==
  /\ me = [pc |-> me.pc, call |-> me.call, through |-> me.through,
           checkpoint |-> me.checkpoint, pending |-> me.pending,
           source |-> me.source, view |-> me.view, attempt |-> me.attempt]
  /\ ViewOf(me.pending, h, n) /\ ViewOf(me.source, h, n) /\ ViewOf(me.view, h, n)
  /\ me.attempt \in Attempts
  /\ me.pc \in {"idle", "publish", "reload", "pending", "verify"}
  /\ IF me.pc = "idle" THEN me = IdleCheckpointer
     ELSE /\ me.through \in Range(me.pending.head.tail)
          /\ me.checkpoint = [through_sequence |-> me.through.sequence,
                              through_commit |-> me.through.digest,
                              object |-> me.checkpoint.object]
  /\ me.pc \in {"verify", "publish", "reload"} =>
       HasCheckpointAppendBase(me.pending.head, me.source.head)
  /\ me.pc \in {"publish", "reload"} =>
       /\ HasCheckpointAppendBase(me.pending.head, me.view.head)
       /\ HasCheckpointAppendBase(me.source.head, me.view.head)

CheckpointersInv ==
  /\ checkpointers = [k \in Checkpointers |-> checkpointers[k]]
  /\ \A k \in Checkpointers : CheckpointerOk(checkpointers[k], head, version)

(* A checkpointer that does not act keeps its promise.                     *)
LEMMA CheckpointersStay ==
  ASSUME StoreInv, HeadStep, CheckpointersInv, UNCHANGED checkpointers
  PROVE  CheckpointersInv'
<1>1. ASSUME NEW k \in Checkpointers PROVE CheckpointerOk(checkpointers[k], head', version')
  BY ViewsStay DEF CheckpointersInv, CheckpointerOk
<1> QED BY <1>1, Zenon DEF CheckpointersInv, CheckpointerOk

(* One checkpointer moves to a state that keeps it.                        *)
LEMMA CheckpointerMoves ==
  ASSUME StoreInv, HeadStep, CheckpointersInv, NEW k \in Checkpointers, NEW state,
         checkpointers' = [checkpointers EXCEPT ![k] = state],
         CheckpointerOk(state, head', version')
  PROVE  CheckpointersInv'
<1>1. ASSUME NEW j \in Checkpointers PROVE CheckpointerOk(checkpointers[j], head', version')
  BY ViewsStay, Zenon DEF CheckpointersInv, CheckpointerOk
<1>2. /\ checkpointers' = [j \in Checkpointers |-> checkpointers'[j]]
      /\ \A j \in Checkpointers :
           checkpointers'[j] = IF j = k THEN state ELSE checkpointers[j]
  BY DEF CheckpointersInv
<1>3. \A j \in Checkpointers : CheckpointerOk(checkpointers'[j], head', version')
  BY <1>1, <1>2
<1> QED BY <1>2, <1>3, Zenon DEF CheckpointersInv, CheckpointerOk

(* The ways in which a call of a checkpointer ends.                        *)
LEMMA CheckpointCallEnds ==
  ASSUME StoreInv, StoreInv', HeadStep, CheckpointersInv, NEW k \in Checkpointers,
         NEW status,
         \/ CheckpointAnswer(k, status)
         \/ CheckpointerBecomes(k, IdleCheckpointer)
         \/ CheckpointStillPending(k) /\ checkpointers[k].pc # "idle"
  PROVE  CheckpointersInv'
<1> DEFINE me == checkpointers[k]
<1>1. ViewOf(NoView, head', version')
  BY ViewsStay DEF StoreInv
<1>2. CheckpointerOk(me, head', version')
  BY ViewsStay DEF CheckpointersInv, CheckpointerOk
<1> HIDE DEF me
<1>3. CASE CheckpointAnswer(k, status) \/ CheckpointerBecomes(k, IdleCheckpointer)
  <2>1. CheckpointerOk(IdleCheckpointer, head', version')
    BY <1>1, LoopAttempts DEF CheckpointerOk, IdleCheckpointer
  <2> QED BY <1>3, <2>1, CheckpointerMoves DEF CheckpointAnswer, CheckpointerBecomes
<1>4. CASE CheckpointStillPending(k) /\ me.pc # "idle"
  <2>0. PICK state : state = [IdleCheckpointer EXCEPT !.pc = "pending",
                                !.through = me.through, !.checkpoint = me.checkpoint,
                                !.pending = me.pending]
    OBVIOUS
  <2>1. CheckpointerOk(state, head', version')
    BY <2>0, <1>1, <1>2, <1>4, LoopAttempts, Zenon DEF CheckpointerOk, IdleCheckpointer
  <2>2. checkpointers' = [checkpointers EXCEPT ![k] = state]
    BY <1>4, <2>0 DEF CheckpointStillPending, CheckpointerBecomes, me
  <2> QED BY <2>1, <2>2, CheckpointerMoves, Zenon
<1> QED BY <1>3, <1>4 DEF me

(* Every step of a checkpointer makes the head take a legal step or none,  *)
(* and keeps its checkpoint publishable only where its commit is.          *)
LEMMA CheckpointerKeeps ==
  ASSUME StoreInv, CheckpointersInv, NEW k \in Checkpointers, CheckpointerStep(k)
  PROVE  StoreInv' /\ HeadStep /\ CheckpointersInv'
<1> DEFINE me == checkpointers[k]
<1>1. CheckpointerOk(me, head, version) /\ k \in Clients
  BY CheckpointersAssumption DEF CheckpointersInv
<1>2. /\ ViewOf(NoView, head, version) /\ ViewOf(Observed, head, version)
      /\ HeadInvariant(head) /\ Observed.head = head
  BY ObservedIsView DEF StoreInv, Observed
<1>3. ASSUME UNCHANGED storeVars PROVE StoreInv' /\ HeadStep /\ UNCHANGED <<head, version>>
  BY <1>3, QuietKeepsStore DEF StoreInv, storeVars
<1> HIDE DEF me
<1>4. ASSUME NEW state, UNCHANGED storeVars, CheckpointerBecomes(k, state),
             CheckpointerOk(state, head, version)
      PROVE  StoreInv' /\ HeadStep /\ CheckpointersInv'
  BY <1>3, <1>4, CheckpointerMoves, Zenon DEF CheckpointerBecomes
<1>5. ASSUME NEW status, UNCHANGED storeVars,
             \/ CheckpointAnswer(k, status)
             \/ CheckpointerBecomes(k, IdleCheckpointer)
             \/ CheckpointStillPending(k) /\ me.pc # "idle"
      PROVE  StoreInv' /\ HeadStep /\ CheckpointersInv'
  BY <1>3, <1>5, CheckpointCallEnds DEF me
<1>6. ASSUME me.pc = "publish"
      PROVE  /\ ViewOf(me.view, head, version)
             /\ LegalStep(me.view.head, CheckpointCandidate(k))
  <2>1. /\ ViewOf(me.view, head, version) /\ HeadInvariant(me.view.head)
        /\ me.through \in Range(me.view.head.tail)
    BY <1>1, <1>6, AppendBaseKeepsTail DEF CheckpointerOk, ViewOf
  <2> QED BY <2>1, CoveringIsLegal DEF CheckpointCandidate, me
<1>7. CASE PublishCheckpoint(k)
  <2>1. StoreInv' /\ HeadStep /\ UNCHANGED <<head, version>>
    BY <1>1, <1>7, DrawnIdentity, QuietKeepsStore DEF PublishCheckpoint
  <2>2. PICK through \in Range(head.tail) :
          CheckpointerBecomes(k, [IdleCheckpointer EXCEPT
            !.pc = "publish", !.through = through,
            !.checkpoint = [through_sequence |-> through.sequence,
                            through_commit |-> through.digest,
                            object |-> Fresh(k)],
            !.pending = Observed, !.source = Observed, !.view = Observed])
    BY <1>7, Zenon DEF PublishCheckpoint
  <2>3. PICK checkpoint : checkpoint = [through_sequence |-> through.sequence,
                                        through_commit |-> through.digest,
                                        object |-> Fresh(k)]
    BY Zenon
  <2>4. PICK state : state = [IdleCheckpointer EXCEPT
            !.pc = "publish", !.through = through, !.checkpoint = checkpoint,
            !.pending = Observed, !.source = Observed, !.view = Observed]
    OBVIOUS
  <2>5. CheckpointerOk(state, head, version)
    BY <1>2, <2>2, <2>3, <2>4, LoopAttempts, AppendBaseStarts, Zenon
       DEF CheckpointerOk, IdleCheckpointer
  <2>6. checkpointers' = [checkpointers EXCEPT ![k] = state]
    BY <2>2, <2>3, <2>4 DEF CheckpointerBecomes
  <2> QED BY <2>1, <2>5, <2>6, CheckpointerMoves, Zenon
<1>8. CASE CheckpointApplied(k)
  <2>1. me.pc = "publish" /\ UpdateApplied(me.view, CheckpointCandidate(k))
        /\ UNCHANGED quota /\ CheckpointAnswer(k, "Published")
    BY <1>8 DEF CheckpointApplied, me
  <2>2. StoreInv' /\ HeadStep
    BY <1>6, <2>1, UpdateKeepsStore
  <2> QED BY <2>1, <2>2, CheckpointCallEnds
<1>9. CASE CheckpointRejected(k)
  <2>0. PICK state : state = [me EXCEPT !.pc = "reload"]
    BY Zenon
  <2>1. me.pc = "publish" /\ UpdateInFlight(me.view, CheckpointCandidate(k))
        /\ UNCHANGED quota /\ checkpointers' = [checkpointers EXCEPT ![k] = state]
    BY <1>9, <2>0 DEF CheckpointRejected, CheckpointerBecomes, me
  <2>2. StoreInv' /\ HeadStep /\ UNCHANGED <<head, version>>
    BY <1>6, <2>1, UpdateKeepsStore, Zenon DEF UpdateInFlight
  <2>3. CheckpointerOk(state, head, version)
    BY <2>0, <1>1, <2>1 DEF CheckpointerOk
  <2> QED BY <2>1, <2>2, <2>3, CheckpointerMoves, Zenon
<1>10. CASE CheckpointUncertain(k)
  <2>1. me.pc = "publish" /\ UpdateInFlight(me.view, CheckpointCandidate(k))
        /\ UNCHANGED quota /\ CheckpointStillPending(k)
    BY <1>10 DEF CheckpointUncertain, me
  <2>2. StoreInv' /\ HeadStep
    BY <1>6, <2>1, UpdateKeepsStore
  <2> QED BY <2>1, <2>2, CheckpointCallEnds DEF me
<1>11. CASE CheckpointDenied(k)
  BY <1>5, <1>11 DEF CheckpointDenied, me
<1>12. CASE CheckpointReload(k)
  <2> DEFINE outcome == PublishReload(me.view, Observed, me.attempt,
                          HasCheckpointAppendBase(me.source.head, head))
             status == ClassifyCheckpoint(me.checkpoint, head, me.view.head.generation)
  <2>0. PICK state : state = [me EXCEPT !.pc = "publish", !.view = Observed,
                                        !.attempt = me.attempt + 1]
    OBVIOUS
  <2>1. me.pc = "reload" /\ UNCHANGED storeVars
    BY <1>12 DEF CheckpointReload, me
  <2>2. CASE outcome = "Retry" /\ CheckpointerBecomes(k, state)
    <3>1. HasCheckpointAppendBase(me.source.head, head)
      BY <2>2 DEF PublishReload
    <3>2. HasCheckpointAppendBase(me.pending.head, head)
      BY <1>1, <1>2, <2>1, <3>1, AppendBaseComposes DEF CheckpointerOk, ViewOf
    <3>3. me.attempt + 1 \in Attempts
      <4>1. head.generation \in Nat /\ me.view.head.generation \in Nat
        BY <1>1, Zenon DEF StoreInv, CheckpointerOk, ViewOf, HeadInvariant, IsHead
      <4>2. me.attempt + 1 # MaxAttempts
        BY <2>2, <4>1 DEF PublishReload, Observed
      <4> QED BY <1>1, <4>2, LoopAttempts DEF CheckpointerOk
    <3>4. CheckpointerOk(state, head, version)
      BY <2>0, <1>1, <1>2, <2>1, <3>1, <3>2, <3>3, Zenon DEF CheckpointerOk
    <3> QED BY <1>4, <2>1, <2>2, <3>4
  <2>3. outcome \in {"Changed", "Pending", "Contended", "Corrupt", "Retry"}
    BY DEF PublishReload
  <2> HIDE DEF outcome
  <2>4. \/ CheckpointStillPending(k) \/ CheckpointAnswer(k, status)
        \/ CheckpointAnswer(k, "NotPublished") \/ CheckpointAnswer(k, "Corrupt")
        \/ outcome = "Retry" /\ CheckpointerBecomes(k, state)
    BY <1>12, <2>0, <2>3, Zenon DEF CheckpointReload, outcome, me
  <2> QED BY <1>5, <2>1, <2>2, <2>4
<1>13. CASE CheckpointReadFails(k)
  BY <1>5, <1>13 DEF CheckpointReadFails, me
<1>14. CASE ResolveCheckpoint(k)
  <2> DEFINE outcome == PublicationView(me.pending, Observed,
                          HasCheckpointAppendBase(me.pending.head, head))
             status == ClassifyCheckpoint(me.checkpoint, head, me.pending.head.generation)
  <2>0. PICK state : state = [me EXCEPT !.pc = "verify", !.call = "resolve",
                                        !.source = Observed]
    OBVIOUS
  <2>1. me.pc = "pending" /\ UNCHANGED storeVars
    BY <1>14 DEF ResolveCheckpoint, me
  <2>2. CASE outcome = "Publish" /\ CheckpointerBecomes(k, state)
    <3>1. me.pending = Observed \/ HasCheckpointAppendBase(me.pending.head, head)
      BY <2>2 DEF PublicationView, SameObservation
    <3>2. HasCheckpointAppendBase(me.pending.head, head)
      BY <1>2, <3>1, AppendBaseStarts
    <3>3. CheckpointerOk(state, head, version)
      BY <2>0, <1>1, <1>2, <2>1, <3>2, Zenon DEF CheckpointerOk
    <3> QED BY <1>4, <2>1, <2>2, <3>3
  <2>3. outcome \in {"Changed", "Corrupt", "Publish"}
    BY DEF PublicationView
  <2> HIDE DEF outcome
  <2>4. \/ CheckpointAnswer(k, status) \/ CheckpointAnswer(k, "Corrupt")
        \/ outcome = "Publish" /\ CheckpointerBecomes(k, state)
    BY <1>14, <2>0, <2>3, Zenon DEF ResolveCheckpoint, outcome, me
  <2> QED BY <1>5, <2>1, <2>2, <2>4
<1>15. CASE CheckpointVerified(k)
  <2>0. PICK state : state = [me EXCEPT !.pc = "publish", !.source = me.source,
                                        !.view = me.source, !.attempt = 0]
    OBVIOUS
  <2>1. me.pc = "verify" /\ UNCHANGED storeVars /\ CheckpointerBecomes(k, state)
    BY <1>15, <2>0 DEF CheckpointVerified, StartCheckpointPublish, me
  <2>2. CheckpointerOk(state, head, version)
    BY <2>0, <1>1, <2>1, LoopAttempts, AppendBaseStarts, Zenon DEF CheckpointerOk, ViewOf
  <2> QED BY <1>4, <2>1, <2>2
<1>16. CASE CheckpointCrash(k)
  BY <1>5, <1>16 DEF CheckpointCrash, me
<1> QED BY <1>7, <1>8, <1>9, <1>10, <1>11, <1>12, <1>13, <1>14, <1>15, <1>16
        DEF CheckpointerStep

-----------------------------------------------------------------------------
(* What a step of a checkpointer does to its checkpoint.  While a write of *)
(* it may be in flight, the head has only been appended to and the loop    *)
(* has not moved on to a newer version.                                    *)
Coverable(me, h, n) ==
  /\ me.pc # "idle"
  /\ HasCheckpointAppendBase(me.pending.head, h)
  /\ me.pc = "verify" => me.source.version = n
  /\ me.pc \in {"publish", "reload"} => me.view.version = n

(* Once a write of it took effect, the head covers as much, and a head one *)
(* version after a view that was published from has this checkpoint:       *)
(* classify_checkpoint tells the two apart by one generation number.       *)
Past(v, checkpoint, h, n) ==
  v.version < n /\ (n = v.version + 1 => h.checkpoint = checkpoint)

Covered(me, h, n) ==
  /\ h.checkpoint.through_sequence >= me.checkpoint.through_sequence
  /\ Past(me.pending, me.checkpoint, h, n)
  /\ me.pc = "verify" => Past(me.source, me.checkpoint, h, n)
  /\ me.pc \in {"publish", "reload"} => Past(me.view, me.checkpoint, h, n)

StartsCheckpoint(k) ==
  /\ checkpointers[k].pc = "idle" /\ checkpointers'[k].pc # "idle"
  /\ Draw(k) /\ checkpointers'[k].checkpoint.object = Fresh(k)
  /\ StoreStays /\ UNCHANGED checkpointAnswers

DropsCheckpoint(k) ==
  /\ checkpointers[k].pc # "idle" /\ checkpointers'[k].pc = "idle"
  /\ UNCHANGED quota
  /\ StoreStays /\ UNCHANGED checkpointAnswers

CarriesCheckpoint(k) ==
  /\ checkpointers[k].pc # "idle" /\ checkpointers'[k].pc # "idle"
  /\ checkpointers'[k].checkpoint = checkpointers[k].checkpoint
  /\ Coverable(checkpointers[k], head, version) => Coverable(checkpointers'[k], head, version)
  /\ Covered(checkpointers[k], head, version) => Covered(checkpointers'[k], head, version)
  /\ UNCHANGED <<quota, checkpointAnswers>>
  /\ \/ StoreStays
     \/ /\ Coverable(checkpointers'[k], head, version)
        /\ ~Covered(checkpointers[k], head, version)
        /\ \E h : /\ CoverTail(head, h) /\ h.checkpoint = checkpointers[k].checkpoint
                  /\ Submits(h)

SettlesCheckpoint(k, status) ==
  /\ checkpointers[k].pc # "idle" /\ checkpointers'[k].pc = "idle"
  /\ checkpointAnswers' = checkpointAnswers \cup
       {[checkpoint |-> checkpointers[k].checkpoint, status |-> status]}
  /\ UNCHANGED quota
  /\ \/ /\ status = "Published"
        /\ \E h : /\ CoverTail(head, h) /\ h.checkpoint = checkpointers[k].checkpoint
                  /\ Apply(h)
     \/ /\ StoreStays
        /\ status # "Corrupt"
        /\ status = "Published" => head.checkpoint = checkpointers[k].checkpoint
        /\ status = "NotPublished" => /\ ~Coverable(checkpointers[k], head, version)
                                      /\ ~Covered(checkpointers[k], head, version)

CheckpointerActs(k) ==
  /\ \A j \in Checkpointers \ {k} : checkpointers'[j] = checkpointers[j]
  /\ \/ StartsCheckpoint(k) \/ DropsCheckpoint(k) \/ CarriesCheckpoint(k)
     \/ \E status : SettlesCheckpoint(k, status)

(* A commit of the tail is not covered yet.                                *)
LEMMA TailIsUncovered ==
  ASSUME NEW h, HeadInvariant(h), NEW through \in Range(h.tail)
  PROVE  /\ through.sequence \in Int /\ h.checkpoint.through_sequence \in Int
         /\ h.checkpoint.through_sequence < through.sequence
<1>1. PICK t, q : t = h.tail /\ q = h.checkpoint.through_sequence
  OBVIOUS
<1>2. /\ t \in Seq(Range(t)) /\ q \in Int
      /\ \A i \in DOMAIN t : t[i].sequence = q + 1 + i - 1
  BY <1>1 DEF HeadInvariant, IsHead, ValidTail, Contiguous, ExpectedStart
<1>3. DOMAIN t = 1..Len(t)
  BY <1>2, LenProperties
<1>4. PICK i \in 1..Len(t) : t[i] = through
  BY <1>1, <1>3 DEF Range
<1>5. t[i].sequence = q + 1 + i - 1
  BY <1>2, <1>3, <1>4
<1>6. i \in Int /\ i >= 1
  BY <1>2, <1>4, LenProperties
<1>7. t[i].sequence \in Int /\ q < t[i].sequence
  BY <1>2, <1>5, <1>6
<1> QED BY <1>1, <1>2, <1>4, <1>7

(* Every step of a checkpointer is one of these.                           *)
LEMMA CheckpointersAct ==
  ASSUME StoreInv, CheckpointersInv, NEW k \in Checkpointers, CheckpointerStep(k)
  PROVE  CheckpointerActs(k)
<1> DEFINE me == checkpointers[k]
<1>1. CheckpointerOk(me, head, version) /\ ViewOf(Observed, head, version)
      /\ HeadInvariant(head)
  BY ObservedIsView DEF CheckpointersInv, StoreInv
<1>2. ASSUME NEW state, checkpointers' = [checkpointers EXCEPT ![k] = state]
      PROVE  /\ checkpointers'[k] = state
             /\ \A j \in Checkpointers \ {k} : checkpointers'[j] = checkpointers[j]
  BY <1>2 DEF CheckpointersInv
<1>3. ASSUME UNCHANGED storeVars PROVE StoreStays /\ UNCHANGED quota
  BY <1>3 DEF storeVars, StoreStays
(* A head that has only been appended to does not cover the commit.        *)
<1>4. ASSUME me.pc # "idle", HasCheckpointAppendBase(me.pending.head, head)
      PROVE  ~Covered(me, head, version)
  <2>1. /\ me.through \in Range(me.pending.head.tail) /\ HeadInvariant(me.pending.head)
        /\ me.checkpoint.through_sequence = me.through.sequence
    BY <1>1, <1>4 DEF CheckpointerOk, ViewOf
  <2>2. me.through \in Range(head.tail)
    BY <1>1, <1>4, <2>1, AppendBaseKeepsTail, Zenon
  <2> QED BY <1>1, <2>1, <2>2, TailIsUncovered DEF Covered
<1> HIDE DEF me
<1>5. ASSUME CheckpointerBecomes(k, IdleCheckpointer), UNCHANGED storeVars, me.pc # "idle"
      PROVE  CheckpointerActs(k)
  <2>1. /\ checkpointers'[k] = IdleCheckpointer /\ UNCHANGED checkpointAnswers
        /\ \A j \in Checkpointers \ {k} : checkpointers'[j] = checkpointers[j]
    BY <1>2, <1>5, Zenon DEF CheckpointerBecomes
  <2>2. DropsCheckpoint(k)
    BY <1>3, <1>5, <2>1 DEF DropsCheckpoint, IdleCheckpointer, me
  <2> QED BY <2>1, <2>2, Zenon DEF CheckpointerActs
<1>6. ASSUME CheckpointStillPending(k), me.pc # "idle"
      PROVE  /\ \A j \in Checkpointers \ {k} : checkpointers'[j] = checkpointers[j]
             /\ UNCHANGED checkpointAnswers
             /\ checkpointers'[k].pc = "pending"
             /\ checkpointers'[k].checkpoint = me.checkpoint
             /\ checkpointers'[k].pending = me.pending
  <2>0. PICK state : state = [IdleCheckpointer EXCEPT !.pc = "pending",
                                !.through = me.through, !.checkpoint = me.checkpoint,
                                !.pending = me.pending]
    OBVIOUS
  <2>1. checkpointers' = [checkpointers EXCEPT ![k] = state] /\ UNCHANGED checkpointAnswers
    BY <1>6, <2>0 DEF CheckpointStillPending, CheckpointerBecomes, me
  <2>2. state.pc = "pending" /\ state.checkpoint = me.checkpoint /\ state.pending = me.pending
    BY <2>0 DEF IdleCheckpointer
  <2> QED BY <1>2, <2>1, <2>2, Zenon
<1>7. ASSUME CheckpointStillPending(k), me.pc # "idle", UNCHANGED storeVars
      PROVE  CheckpointerActs(k)
  <2>1. CarriesCheckpoint(k)
    BY <1>3, <1>6, <1>7, Zenon DEF CarriesCheckpoint, Coverable, Covered, me
  <2> QED BY <1>6, <1>7, <2>1 DEF CheckpointerActs
<1>8. ASSUME NEW state, CheckpointerBecomes(k, state), UNCHANGED storeVars,
             me.pc # "idle", state.pc # "idle", state.checkpoint = me.checkpoint,
             Coverable(me, head, version) => Coverable(state, head, version),
             Covered(me, head, version) => Covered(state, head, version)
      PROVE  CheckpointerActs(k)
  <2>1. /\ checkpointers'[k] = state /\ UNCHANGED checkpointAnswers
        /\ \A j \in Checkpointers \ {k} : checkpointers'[j] = checkpointers[j]
    BY <1>2, <1>8, Zenon DEF CheckpointerBecomes
  <2>2. CarriesCheckpoint(k)
    BY <1>3, <1>8, <2>1 DEF CarriesCheckpoint, me
  <2> QED BY <2>1, <2>2 DEF CheckpointerActs
<1>9. ASSUME NEW status, CheckpointAnswer(k, status), UNCHANGED storeVars, me.pc # "idle",
             status # "Corrupt",
             status = "Published" => head.checkpoint = me.checkpoint,
             status = "NotPublished" =>
               ~Coverable(me, head, version) /\ ~Covered(me, head, version)
      PROVE  CheckpointerActs(k)
  <2>1. /\ checkpointers'[k] = IdleCheckpointer
        /\ \A j \in Checkpointers \ {k} : checkpointers'[j] = checkpointers[j]
    BY <1>2, <1>9, Zenon DEF CheckpointAnswer
  <2>2. SettlesCheckpoint(k, status)
    BY <1>3, <1>9, <2>1 DEF SettlesCheckpoint, CheckpointAnswer, IdleCheckpointer, me
  <2> QED BY <2>1, <2>2 DEF CheckpointerActs
(* classify_checkpoint against a later head, from the view of the attempt. *)
<1>10. ASSUME NEW v, ViewOf(v, head, version), v # Observed, NEW status,
              status = ClassifyCheckpoint(me.checkpoint, head, v.head.generation),
              CheckpointAnswer(k, status), UNCHANGED storeVars, me.pc # "idle",
              ~Coverable(me, head, version),
              Covered(me, head, version) => Past(v, me.checkpoint, head, version)
       PROVE  CheckpointerActs(k)
  <2>1. /\ v.head.generation < head.generation /\ v.head.generation = v.version
        /\ head.generation = version /\ version \in Nat /\ v.version \in Nat
    BY <1>10, OtherViewsAreOlder DEF ViewOf, StoreInv
  <2>2. /\ status # "Corrupt"
        /\ status = "Published" => head.checkpoint = me.checkpoint
        /\ status = "NotPublished" =>
             head.checkpoint # me.checkpoint /\ version = v.version + 1
    BY <1>10, <2>1 DEF ClassifyCheckpoint
  <2>3. status = "NotPublished" => ~Covered(me, head, version)
    BY <1>10, <2>2 DEF Past
  <2> QED BY <1>9, <1>10, <2>2, <2>3, Zenon
<1>11. CASE PublishCheckpoint(k)
  <2>1. PICK through \in Range(head.tail) :
          CheckpointerBecomes(k, [IdleCheckpointer EXCEPT
            !.pc = "publish", !.through = through,
            !.checkpoint = [through_sequence |-> through.sequence,
                            through_commit |-> through.digest,
                            object |-> Fresh(k)],
            !.pending = Observed, !.source = Observed, !.view = Observed])
    BY <1>11, Zenon DEF PublishCheckpoint
  <2>2. PICK checkpoint : checkpoint = [through_sequence |-> through.sequence,
                                        through_commit |-> through.digest,
                                        object |-> Fresh(k)]
    BY Zenon
  <2>3. PICK state : state = [IdleCheckpointer EXCEPT
            !.pc = "publish", !.through = through, !.checkpoint = checkpoint,
            !.pending = Observed, !.source = Observed, !.view = Observed]
    OBVIOUS
  <2>4. checkpointers' = [checkpointers EXCEPT ![k] = state] /\ UNCHANGED checkpointAnswers
    BY <2>1, <2>2, <2>3 DEF CheckpointerBecomes
  <2>5. state.pc = "publish" /\ state.checkpoint.object = Fresh(k)
    BY <2>2, <2>3 DEF IdleCheckpointer
  <2>6. me.pc = "idle" /\ Draw(k) /\ StoreStays
    BY <1>11 DEF PublishCheckpoint, StoreStays, me
  <2>7. /\ checkpointers'[k] = state
        /\ \A j \in Checkpointers \ {k} : checkpointers'[j] = checkpointers[j]
    BY <1>2, <2>4, Zenon
  <2>8. StartsCheckpoint(k)
    BY <2>4, <2>5, <2>6, <2>7 DEF StartsCheckpoint, me
  <2> QED BY <2>7, <2>8 DEF CheckpointerActs
<1>12. ASSUME me.pc = "publish", NEW h, h = CheckpointCandidate(k),
              UpdateApplied(me.view, h) \/ UpdateInFlight(me.view, h)
       PROVE  \/ StoreStays /\ ~UpdateApplied(me.view, h)
              \/ /\ me.view.version = version /\ Coverable(me, head, version)
                 /\ CoverTail(head, h) /\ h.checkpoint = me.checkpoint
                 /\ IF UpdateApplied(me.view, h) THEN Apply(h) ELSE Submits(h)
  <2>1. /\ ViewOf(me.view, head, version) /\ HeadInvariant(me.view.head)
        /\ HasCheckpointAppendBase(me.pending.head, me.view.head)
        /\ HeadInvariant(me.pending.head) /\ me.through \in Range(me.pending.head.tail)
        /\ me.checkpoint = [through_sequence |-> me.through.sequence,
                            through_commit |-> me.through.digest,
                            object |-> me.checkpoint.object]
    BY <1>1, <1>12 DEF CheckpointerOk, ViewOf
  <2>2. \/ StoreStays /\ ~UpdateApplied(me.view, h)
        \/ /\ me.view.version = version /\ me.view.head = head
           /\ IF UpdateApplied(me.view, h) THEN Apply(h) ELSE Submits(h)
    BY <1>12, <2>1, UpdateProposes, Zenon
  <2>3. CASE me.view.version = version /\ me.view.head = head
    <3>1. PICK object : object = me.checkpoint.object
      OBVIOUS
    <3>2. h = CheckpointHead(head, me.through, object)
      BY <1>12, <2>3, <3>1 DEF CheckpointCandidate, me
    <3>3. me.through \in Range(head.tail)
      BY <2>1, <2>3, AppendBaseKeepsTail
    <3>4. h.checkpoint = [through_sequence |-> me.through.sequence,
                          through_commit |-> me.through.digest, object |-> object]
      BY <1>1, <3>2, CheckpointFields DEF HeadInvariant
    <3>5. h.checkpoint = me.checkpoint /\ h.checkpoint.object = object
      BY <2>1, <3>1, <3>4
    <3>6. CoverTail(head, h)
      BY <3>2, <3>3, <3>5 DEF CoverTail
    <3>7. Coverable(me, head, version)
      BY <1>12, <2>1, <2>3 DEF Coverable
    <3> QED BY <2>2, <2>3, <3>5, <3>6, <3>7
  <2> QED BY <2>2, <2>3
<1>13. CASE CheckpointApplied(k)
  <2>0. PICK h : h = CheckpointCandidate(k)
    OBVIOUS
  <2>1. me.pc = "publish" /\ UpdateApplied(me.view, h)
        /\ UNCHANGED quota /\ CheckpointAnswer(k, "Published")
    BY <1>13, <2>0 DEF CheckpointApplied, me
  <2>2. CoverTail(head, h) /\ h.checkpoint = me.checkpoint /\ Apply(h)
    BY <1>12, <2>0, <2>1, Zenon
  <2>3. /\ checkpointers'[k] = IdleCheckpointer
        /\ \A j \in Checkpointers \ {k} : checkpointers'[j] = checkpointers[j]
    BY <1>2, <2>1, Zenon DEF CheckpointAnswer
  <2>4. SettlesCheckpoint(k, "Published")
    BY <2>1, <2>2, <2>3 DEF SettlesCheckpoint, CheckpointAnswer, IdleCheckpointer, me
  <2> QED BY <2>3, <2>4 DEF CheckpointerActs
<1>14. ASSUME me.pc = "publish", NEW h, h = CheckpointCandidate(k),
              UpdateInFlight(me.view, h), UNCHANGED quota,
              \A j \in Checkpointers \ {k} : checkpointers'[j] = checkpointers[j],
              UNCHANGED checkpointAnswers, checkpointers'[k].pc \in {"pending", "reload"},
              checkpointers'[k].checkpoint = me.checkpoint,
              checkpointers'[k].pending = me.pending,
              checkpointers'[k].pc = "reload" => checkpointers'[k].view = me.view
       PROVE  CheckpointerActs(k)
  <2>1. /\ Coverable(me, head, version) => Coverable(checkpointers'[k], head, version)
        /\ Covered(me, head, version) => Covered(checkpointers'[k], head, version)
    BY <1>14, Zenon DEF Coverable, Covered
  <2>2. CASE StoreStays
    BY <1>14, <2>1, <2>2, Zenon DEF CheckpointerActs, CarriesCheckpoint, me
  <2>3. CASE ~StoreStays
    <3>1. /\ Coverable(me, head, version)
          /\ CoverTail(head, h) /\ h.checkpoint = me.checkpoint
          /\ Apply(h) \/ Submits(h)
      BY <1>12, <1>14, <2>3, Zenon
    <3>2. ~Apply(h)
      BY <1>14 DEF Apply, UpdateInFlight, StoreInv
    <3>3. ~Covered(me, head, version)
      BY <1>4, <1>14, <3>1, Zenon DEF Coverable, me
    <3>4. CarriesCheckpoint(k)
      BY <1>14, <2>1, <3>1, <3>2, <3>3, Zenon DEF CarriesCheckpoint, me
    <3> QED BY <1>14, <3>4, Zenon DEF CheckpointerActs
  <2> QED BY <2>2, <2>3
<1>15. CASE CheckpointRejected(k)
  <2>0. PICK state, h : state = [me EXCEPT !.pc = "reload"] /\ h = CheckpointCandidate(k)
    BY Zenon
  <2>1. me.pc = "publish" /\ UpdateInFlight(me.view, h) /\ UNCHANGED quota
        /\ checkpointers' = [checkpointers EXCEPT ![k] = state]
        /\ UNCHANGED checkpointAnswers
    BY <1>15, <2>0 DEF CheckpointRejected, CheckpointerBecomes, me
  <2>2. /\ state.pc = "reload" /\ state.checkpoint = me.checkpoint
        /\ state.pending = me.pending /\ state.view = me.view
    BY <1>1, <2>0 DEF CheckpointerOk
  <2>3. /\ checkpointers'[k] = state
        /\ \A j \in Checkpointers \ {k} : checkpointers'[j] = checkpointers[j]
    BY <1>2, <2>1, Zenon
  <2> QED BY <1>14, <2>0, <2>1, <2>2, <2>3, Zenon
<1>16. CASE CheckpointUncertain(k)
  <2>0. PICK h : h = CheckpointCandidate(k)
    OBVIOUS
  <2>1. me.pc = "publish" /\ UpdateInFlight(me.view, h) /\ UNCHANGED quota
        /\ CheckpointStillPending(k)
    BY <1>16, <2>0 DEF CheckpointUncertain, me
  <2>2. /\ \A j \in Checkpointers \ {k} : checkpointers'[j] = checkpointers[j]
        /\ UNCHANGED checkpointAnswers
        /\ checkpointers'[k].pc = "pending"
        /\ checkpointers'[k].checkpoint = me.checkpoint
        /\ checkpointers'[k].pending = me.pending
    BY <1>6, <2>1
  <2> QED BY <1>14, <2>0, <2>1, <2>2
<1>17. CASE CheckpointDenied(k) \/ CheckpointReadFails(k) \/ CheckpointCrash(k)
  BY <1>5, <1>7, <1>17 DEF CheckpointDenied, CheckpointReadFails, CheckpointCrash, me
<1>18. CASE CheckpointReload(k)
  <2> DEFINE base == HasCheckpointAppendBase(me.source.head, head)
             outcome == PublishReload(me.view, Observed, me.attempt, base)
             status == ClassifyCheckpoint(me.checkpoint, head, me.view.head.generation)
  <2>0. PICK state : state = [me EXCEPT !.pc = "publish", !.view = Observed,
                                        !.attempt = me.attempt + 1]
    OBVIOUS
  <2>1. me.pc = "reload" /\ UNCHANGED storeVars
    BY <1>18 DEF CheckpointReload, me
  <2>2. /\ ViewOf(me.view, head, version)
        /\ me.view = Observed => base
        /\ base => HasCheckpointAppendBase(me.pending.head, head)
    BY <1>1, <2>1, AppendBaseComposes DEF CheckpointerOk, ViewOf, Observed
  <2>3. /\ me.view # Observed =>
             me.view.version < version /\ me.view.head.generation < head.generation
        /\ head.generation \in Nat /\ me.view.head.generation \in Nat
        /\ version \in Nat /\ me.view.version \in Nat
    BY <2>2, OtherViewsAreOlder, Zenon DEF StoreInv, ViewOf, HeadInvariant, IsHead
  <2>4. \/ ~base /\ outcome = "Changed"
        \/ base /\ outcome = "Pending"
        \/ base /\ me.view # Observed /\ outcome \in {"Contended", "Retry"}
    BY <2>3 DEF PublishReload, SameObservation, Observed
  <2>5. me.view # Observed => ~Coverable(me, head, version)
    BY <2>1, <2>3 DEF Coverable
  <2> HIDE DEF outcome
  <2>6. CASE ~base /\ outcome = "Changed"
    <3>1. CheckpointStillPending(k) \/ CheckpointAnswer(k, status)
      BY <1>18, <2>6 DEF CheckpointReload, outcome, me
    <3>2. Covered(me, head, version) => Past(me.view, me.checkpoint, head, version)
      BY <2>1 DEF Covered
    <3>3. me.view # Observed
      BY <2>2, <2>6
    <3> HIDE DEF status
    <3>4. CASE CheckpointAnswer(k, status)
      BY <1>10, <2>1, <2>2, <2>5, <3>2, <3>3, <3>4, Zenon DEF status
    <3> QED BY <1>7, <2>1, <3>1, <3>4
  <2>7. CASE base /\ outcome = "Pending"
    BY <1>7, <1>18, <2>1, <2>7, Zenon DEF CheckpointReload, outcome, me
  <2>8. CASE base /\ me.view # Observed /\ outcome = "Contended"
    <3>1. CheckpointAnswer(k, "NotPublished")
      BY <1>18, <2>8, Zenon DEF CheckpointReload, outcome, me
    <3>2. ~Covered(me, head, version)
      BY <1>4, <2>1, <2>2, <2>8 DEF me
    <3> QED BY <1>9, <2>1, <2>5, <2>8, <3>1, <3>2
  <2>9. CASE base /\ outcome = "Retry"
    <3>1. CheckpointerBecomes(k, state)
      BY <1>18, <2>0, <2>9 DEF CheckpointReload, outcome, me
    <3>2. /\ state.pc = "publish" /\ state.checkpoint = me.checkpoint
          /\ state.pending = me.pending /\ state.view.version = version
      BY <1>1, <2>0 DEF CheckpointerOk, Observed
    <3>3. ~Covered(me, head, version)
      BY <1>4, <2>1, <2>2, <2>9 DEF me
    <3>4. Coverable(me, head, version) => Coverable(state, head, version)
      BY <3>2 DEF Coverable
    <3> QED BY <1>8, <2>1, <3>1, <3>2, <3>3, <3>4
  <2> QED BY <2>4, <2>6, <2>7, <2>8, <2>9
<1>19. CASE ResolveCheckpoint(k)
  <2> DEFINE base == HasCheckpointAppendBase(me.pending.head, head)
             outcome == PublicationView(me.pending, Observed, base)
             status == ClassifyCheckpoint(me.checkpoint, head, me.pending.head.generation)
  <2>0. PICK state : state = [me EXCEPT !.pc = "verify", !.call = "resolve",
                                        !.source = Observed]
    OBVIOUS
  <2>1. me.pc = "pending" /\ UNCHANGED storeVars
    BY <1>19 DEF ResolveCheckpoint, me
  <2>2. ViewOf(me.pending, head, version) /\ (me.pending = Observed => base)
    BY <1>1, AppendBaseStarts DEF CheckpointerOk, Observed
  <2>3. /\ me.pending # Observed => me.pending.head.generation < head.generation
        /\ head.generation \in Nat /\ me.pending.head.generation \in Nat
    BY <2>2, OtherViewsAreOlder, Zenon DEF StoreInv, ViewOf, HeadInvariant, IsHead
  <2>4. \/ ~base /\ outcome = "Changed"
        \/ base /\ outcome = "Publish"
    BY <2>2, <2>3 DEF PublicationView, SameObservation, Observed
  <2> HIDE DEF outcome
  <2>5. CASE ~base /\ outcome = "Changed"
    <3>1. CheckpointAnswer(k, status)
      BY <1>19, <2>5 DEF ResolveCheckpoint, outcome, me
    <3>2. ~Coverable(me, head, version)
      BY <2>5 DEF Coverable
    <3>3. Covered(me, head, version) => Past(me.pending, me.checkpoint, head, version)
      BY DEF Covered
    <3>4. me.pending # Observed
      BY <2>2, <2>5
    <3> HIDE DEF status
    <3> QED BY <1>10, <2>1, <2>2, <3>1, <3>2, <3>3, <3>4, Zenon DEF status
  <2>6. CASE base /\ outcome = "Publish"
    <3>1. CheckpointerBecomes(k, state)
      BY <1>19, <2>0, <2>6 DEF ResolveCheckpoint, outcome, me
    <3>2. /\ state.pc = "verify" /\ state.checkpoint = me.checkpoint
          /\ state.pending = me.pending /\ state.source.version = version
      BY <1>1, <2>0 DEF CheckpointerOk, Observed
    <3>3. ~Covered(me, head, version)
      BY <1>4, <2>1, <2>6 DEF me
    <3>4. Coverable(me, head, version) => Coverable(state, head, version)
      BY <3>2 DEF Coverable
    <3> QED BY <1>8, <2>1, <3>1, <3>2, <3>3, <3>4
  <2> QED BY <2>4, <2>5, <2>6
<1>20. CASE CheckpointVerified(k)
  <2>0. PICK state : state = [me EXCEPT !.pc = "publish", !.source = me.source,
                                        !.view = me.source, !.attempt = 0]
    OBVIOUS
  <2>1. me.pc = "verify" /\ UNCHANGED storeVars /\ CheckpointerBecomes(k, state)
    BY <1>20, <2>0 DEF CheckpointVerified, StartCheckpointPublish, me
  <2>2. /\ state.pc = "publish" /\ state.checkpoint = me.checkpoint
        /\ state.pending = me.pending /\ state.view = me.source
    BY <1>1, <2>0 DEF CheckpointerOk
  <2>3. /\ Coverable(me, head, version) => Coverable(state, head, version)
        /\ Covered(me, head, version) => Covered(state, head, version)
    BY <2>1, <2>2 DEF Coverable, Covered
  <2> QED BY <1>8, <2>1, <2>2, <2>3
<1> QED BY <1>11, <1>13, <1>15, <1>16, <1>17, <1>18, <1>19, <1>20 DEF CheckpointerStep

-----------------------------------------------------------------------------
(* What the answers about checkpoints rest on.  A checkpoint is told apart *)
(* by its object, and one that the head has had is covered.                *)
CheckpointsInv ==
  \A k \in Checkpointers : checkpointers[k].pc # "idle" =>
    /\ DrawnBy(k, checkpointers[k].checkpoint.object, quota)
    /\ checkpointers[k].checkpoint.object \in bases =>
         Covered(checkpointers[k], head, version)

BasesInv ==
  /\ head.checkpoint = NoCheckpoint \/ head.checkpoint.object \in bases
  /\ \A b \in bases : Drawn(Checkpointers, b, quota)

(* A checkpoint that a write in flight would publish is new, and belongs   *)
(* to a checkpointer that has no answer, or to none any more.              *)
CoveringInv ==
  \A l \in late : l.head.checkpoint # head.checkpoint =>
    /\ Drawn(Checkpointers, l.head.checkpoint.object, quota)
    /\ l.head.checkpoint.object \notin bases
    /\ \A k \in Checkpointers :
         checkpointers[k].pc # "idle"
           /\ checkpointers[k].checkpoint.object = l.head.checkpoint.object =>
         /\ l.head.checkpoint = checkpointers[k].checkpoint
         /\ Coverable(checkpointers[k], head, version)

(* A refuted checkpoint is not published, and nothing can publish it.      *)
Discarded(object) ==
  /\ object \notin bases
  /\ \A l \in late : l.head.checkpoint.object # object
  /\ \A k \in Checkpointers :
       checkpointers[k].pc # "idle" => checkpointers[k].checkpoint.object # object

CheckpointAnsweredInv ==
  \A a \in checkpointAnswers :
    /\ Drawn(Checkpointers, a.checkpoint.object, quota)
    /\ a.status # "Corrupt"
    /\ a.status = "Published" => a.checkpoint.object \in bases
    /\ a.status = "NotPublished" => Discarded(a.checkpoint.object)

CheckpointAnswersInv ==
  CheckpointsInv /\ BasesInv /\ CoveringInv /\ CheckpointAnsweredInv

(* The objects that checkpointers drew stay drawn.                         *)
LEMMA CheckpointIdentities ==
  ASSUME StoreInv, QuotaFalls, NEW id, Drawn(Checkpointers, id, quota)
  PROVE  Drawn(Checkpointers, id, quota')
BY DrawnStays, CheckpointersAssumption

(* So does the object of one checkpointer.                                 *)
LEMMA CheckpointsStay ==
  ASSUME StoreInv, QuotaFalls, NEW k \in Checkpointers, NEW id, DrawnBy(k, id, quota)
  PROVE  DrawnBy(k, id, quota')
BY DrawnStaysDrawn, CheckpointersAssumption

(* Two checkpointers never have the same checkpoint object.                *)
LEMMA CheckpointsDiffer ==
  ASSUME CheckpointsInv, NEW j \in Checkpointers, NEW k \in Checkpointers,
         checkpointers[j].pc # "idle", checkpointers[k].pc # "idle",
         checkpointers[j].checkpoint.object = checkpointers[k].checkpoint.object
  PROVE  j = k
<1>1. /\ DrawnBy(j, checkpointers[k].checkpoint.object, quota)
      /\ DrawnBy(k, checkpointers[k].checkpoint.object, quota)
  BY DEF CheckpointsInv
<1> QED BY <1>1, DrawnOnce, CheckpointersAssumption

(* A refuted checkpoint is not the one of the head.                        *)
LEMMA DiscardedIsNotCurrent ==
  ASSUME BasesInv, NEW object, Drawn(Checkpointers, object, quota), object \notin bases
  PROVE  head.checkpoint.object # object
<1>1. object # None
  BY DrawnOnce, CheckpointersAssumption DEF Drawn
<1> QED BY <1>1 DEF BasesInv, NoCheckpoint

(* A covered checkpoint stays covered.                                     *)
LEMMA CoveredStays ==
  ASSUME StoreInv, NEW me, CheckpointerOk(me, head, version), me.pc # "idle",
         Covered(me, head, version), NEW h, LegalStep(head, h)
  PROVE  Covered(me, h, version + 1)
<1>1. /\ version \in Nat /\ me.pending.version \in Nat /\ me.source.version \in Nat
      /\ me.view.version \in Nat
  BY DEF StoreInv, CheckpointerOk, ViewOf
<1>2. /\ me.checkpoint.through_sequence \in Int
      /\ head.checkpoint.through_sequence \in Int
  <2>1. /\ me.through \in Range(me.pending.head.tail) /\ HeadInvariant(me.pending.head)
        /\ me.checkpoint.through_sequence = me.through.sequence
    BY DEF CheckpointerOk, ViewOf
  <2> QED BY <2>1, TailIsUncovered, HeadNumbers, Zenon DEF StoreInv
<1>3. \/ h.checkpoint = head.checkpoint
      \/ /\ h.checkpoint.through_sequence \in Int
         /\ h.checkpoint.through_sequence > head.checkpoint.through_sequence
  <2>1. Advances(head, h)
    BY LegalStepAdvances DEF StoreInv
  <2>2. ASSUME NEW through \in Range(head.tail),
               h.checkpoint.through_sequence = through.sequence
        PROVE  /\ h.checkpoint.through_sequence \in Int
               /\ h.checkpoint.through_sequence > head.checkpoint.through_sequence
    BY <1>2, <2>2, TailIsUncovered DEF StoreInv
  <2> QED BY <2>1, <2>2, Zenon DEF Advances
<1>4. h.checkpoint.through_sequence >= me.checkpoint.through_sequence
  BY <1>2, <1>3 DEF Covered
<1>5. ASSUME NEW v, v.version \in Nat, Past(v, me.checkpoint, head, version)
      PROVE  Past(v, me.checkpoint, h, version + 1)
  BY <1>1, <1>5 DEF Past
<1> QED BY <1>1, <1>4, <1>5 DEF Covered

(* Steps of the other clients, which publish no checkpoint.                *)
LEMMA CheckpointAnswersStay ==
  ASSUME StoreInv, CheckpointersInv, CheckpointAnswersInv, QuotaFalls,
         UNCHANGED <<checkpointers, checkpointAnswers>>,
         \/ StoreStays
         \/ \E h : /\ LegalStep(head, h) /\ Proposes(h)
                   /\ h.checkpoint = head.checkpoint
  PROVE  CheckpointAnswersInv'
<1>1. CheckpointsInv /\ BasesInv /\ CoveringInv /\ CheckpointAnsweredInv
  BY DEF CheckpointAnswersInv
<1>2. ASSUME bases' = bases, head'.checkpoint = head.checkpoint,
             \A k \in Checkpointers : checkpointers[k].pc # "idle" =>
               (Covered(checkpointers[k], head, version) =>
                  Covered(checkpointers[k], head', version')),
             \A l \in late' : l \in late \/ l.head.checkpoint = head.checkpoint
      PROVE  CheckpointsInv' /\ BasesInv' /\ CheckpointAnsweredInv'
  <2>1. CheckpointsInv'
    BY <1>1, <1>2, CheckpointsStay DEF CheckpointsInv
  <2>2. BasesInv'
    BY <1>1, <1>2, CheckpointIdentities DEF BasesInv
  <2>3. ASSUME NEW object, Drawn(Checkpointers, object, quota), Discarded(object)
        PROVE  Discarded(object)'
    <3>1. head.checkpoint.object # object
      BY <1>1, <2>3, DiscardedIsNotCurrent DEF Discarded
    <3> QED BY <1>2, <2>3, <3>1 DEF Discarded
  <2>4. CheckpointAnsweredInv'
    BY <1>1, <1>2, <2>3, CheckpointIdentities DEF CheckpointAnsweredInv
  <2> QED BY <2>1, <2>2, <2>4
<1>3. ASSUME UNCHANGED <<head, version, bases>>,
             \A l \in late' : l \in late \/ l.head.checkpoint = head.checkpoint
      PROVE  CheckpointAnswersInv'
  <2>1. CoveringInv'
    BY <1>1, <1>3, CheckpointIdentities, Zenon DEF CoveringInv
  <2> QED BY <1>2, <1>3, <2>1 DEF CheckpointAnswersInv
<1>4. CASE StoreStays
  BY <1>3, <1>4 DEF StoreStays
<1>5. ASSUME NEW h, LegalStep(head, h), Proposes(h), h.checkpoint = head.checkpoint
      PROVE  CheckpointAnswersInv'
  <2>1. CASE Apply(h)
    <3>1. /\ late' = {} /\ bases' = bases /\ head' = h /\ version' = version + 1
      BY <1>5, <2>1 DEF Apply, StoreInv
    <3>2. ASSUME NEW k \in Checkpointers, checkpointers[k].pc # "idle",
                 Covered(checkpointers[k], head, version)
          PROVE  Covered(checkpointers[k], h, version + 1)
      BY <1>5, <3>2, CoveredStays DEF CheckpointersInv
    <3>3. CoveringInv'
      BY <3>1 DEF CoveringInv
    <3> QED BY <1>2, <1>5, <3>1, <3>2, <3>3 DEF CheckpointAnswersInv
  <2>2. CASE Submits(h)
    <3>1. \A l \in late' : l \in late \/ l.head = h
      BY <2>2 DEF Submits
    <3> QED BY <1>3, <1>5, <2>2, <3>1 DEF Submits
  <2> QED BY <1>5, <2>1, <2>2 DEF Proposes
<1> QED BY <1>4, <1>5

(* A write in flight takes effect.                                         *)
LEMMA LandKeepsCheckpointAnswers ==
  ASSUME StoreInv, CheckpointersInv, CheckpointAnswersInv, Land,
         UNCHANGED <<checkpointers, checkpointAnswers>>
  PROVE  CheckpointAnswersInv'
<1>1. CheckpointsInv /\ BasesInv /\ CoveringInv /\ CheckpointAnsweredInv
  BY DEF CheckpointAnswersInv
<1>2. PICK w \in late : LegalStep(head, w.head) /\ Apply(w.head)
  BY LandProposes
<1>3. QuotaFalls /\ UNCHANGED quota
  BY QuotaStays DEF Land
<1>4. CASE w.head.checkpoint = head.checkpoint
  BY <1>2, <1>3, <1>4, CheckpointAnswersStay DEF Proposes
<1>5. CASE w.head.checkpoint # head.checkpoint
  <2>0. PICK h, object : h = w.head /\ object = w.head.checkpoint.object
    OBVIOUS
  <2>1. /\ late' = {} /\ bases' = bases \cup {object}
        /\ head' = h /\ version' = version + 1 /\ version \in Nat
    BY <1>2, <1>5, <2>0 DEF Apply, StoreInv
  <2>2. /\ Drawn(Checkpointers, object, quota) /\ object \notin bases
        /\ \A k \in Checkpointers :
             checkpointers[k].pc # "idle" /\ checkpointers[k].checkpoint.object = object =>
               /\ h.checkpoint = checkpointers[k].checkpoint
               /\ Coverable(checkpointers[k], head, version)
    BY <1>1, <1>5, <2>0, Zenon DEF CoveringInv
  <2>3. ASSUME NEW k \in Checkpointers, checkpointers[k].pc # "idle",
               checkpointers[k].checkpoint.object \in bases'
        PROVE  Covered(checkpointers[k], head', version')
    <3>0. PICK me : me = checkpointers[k]
      OBVIOUS
    <3>1. CheckpointerOk(me, head, version)
      BY <3>0 DEF CheckpointersInv
    <3>2. CASE me.checkpoint.object = object
      <4>1. h.checkpoint = me.checkpoint /\ Coverable(me, head, version)
        BY <2>2, <2>3, <3>0, <3>2
      <4>2. me.pending.version \in Nat /\ me.pending.version <= version
        BY <3>1, Zenon DEF CheckpointerOk, ViewOf
      <4>3. /\ me.through \in Range(me.pending.head.tail) /\ HeadInvariant(me.pending.head)
            /\ me.checkpoint.through_sequence = me.through.sequence
        BY <2>3, <3>0, <3>1 DEF CheckpointerOk, ViewOf
      <4>4. me.checkpoint.through_sequence \in Int
        BY <4>3, TailIsUncovered
      <4>5. ASSUME NEW v, v.version \in Nat, v.version <= version
            PROVE  Past(v, me.checkpoint, h, version + 1)
        BY <2>1, <4>1, <4>5 DEF Past
      <4>6. /\ Past(me.pending, me.checkpoint, h, version + 1)
            /\ me.pc = "verify" => Past(me.source, me.checkpoint, h, version + 1)
            /\ me.pc \in {"publish", "reload"} => Past(me.view, me.checkpoint, h, version + 1)
        BY <2>1, <4>1, <4>2, <4>5 DEF Coverable
      <4> QED BY <2>1, <3>0, <4>1, <4>4, <4>6 DEF Covered
    <3>3. CASE me.checkpoint.object \in bases
      <4>1. Covered(me, head, version)
        BY <1>1, <2>3, <3>0, <3>3 DEF CheckpointsInv
      <4> QED BY <1>2, <2>0, <2>1, <2>3, <3>0, <3>1, <4>1, CoveredStays
    <3> QED BY <2>1, <2>3, <3>0, <3>2, <3>3
  <2>4. CheckpointsInv'
    BY <1>1, <1>3, <2>3 DEF CheckpointsInv
  <2>5. BasesInv'
    BY <1>1, <1>3, <2>0, <2>1, <2>2 DEF BasesInv
  <2>6. CoveringInv'
    BY <2>1 DEF CoveringInv
  <2>7. ASSUME NEW o, Discarded(o) PROVE Discarded(o)'
    BY <2>0, <2>1, <2>7 DEF Discarded
  <2>8. CheckpointAnsweredInv'
    BY <1>1, <1>3, <2>1, <2>7 DEF CheckpointAnsweredInv
  <2> QED BY <2>4, <2>5, <2>6, <2>8 DEF CheckpointAnswersInv
<1> QED BY <1>4, <1>5

(* Steps of a checkpointer.                                                *)
LEMMA CheckpointerKeepsAnswers ==
  ASSUME StoreInv, CheckpointersInv, CheckpointAnswersInv,
         NEW k \in Checkpointers, CheckpointerActs(k)
  PROVE  CheckpointAnswersInv'
<1> DEFINE me == checkpointers[k]
<1>1. /\ CheckpointsInv /\ BasesInv /\ CoveringInv /\ CheckpointAnsweredInv
      /\ k \in Clients /\ Checkpointers \subseteq Clients
      /\ \A j \in Checkpointers \ {k} : checkpointers'[j] = checkpointers[j]
  BY CheckpointersAssumption DEF CheckpointAnswersInv, CheckpointerActs
<1>2. CASE StartsCheckpoint(k)
  <2>1. PICK id : id = Fresh(k)
    OBVIOUS
  <2>2. /\ QuotaFalls /\ DrawnBy(k, id, quota') /\ \A j \in Clients : ~DrawnBy(j, id, quota)
        /\ checkpointers'[k].checkpoint.object = id
    BY <1>1, <1>2, <2>1, FreshIsDrawn DEF StartsCheckpoint
  <2>3. UNCHANGED <<head, version, late, bases, checkpointAnswers>>
    BY <1>2, Zenon DEF StartsCheckpoint, StoreStays
  <2>4. ASSUME NEW object, Drawn(Checkpointers, object, quota)
        PROVE  checkpointers'[k].checkpoint.object # object
    BY <1>1, <2>2, <2>4 DEF Drawn
  <2>5. checkpointers'[k].checkpoint.object \notin bases
    BY <1>1, <2>4 DEF BasesInv
  <2>6. CheckpointsInv'
    <3>1. ASSUME NEW j \in Checkpointers, checkpointers'[j].pc # "idle"
          PROVE  /\ DrawnBy(j, checkpointers'[j].checkpoint.object, quota')
                 /\ checkpointers'[j].checkpoint.object \in bases =>
                      Covered(checkpointers'[j], head, version)
      <4>1. CASE j = k
        BY <2>2, <2>5, <4>1
      <4>2. CASE j # k
        BY <1>1, <2>2, <3>1, <4>2, CheckpointsStay DEF CheckpointsInv
      <4> QED BY <4>1, <4>2
    <3> QED BY <2>3, <3>1 DEF CheckpointsInv
  <2>7. BasesInv'
    BY <1>1, <2>2, <2>3, CheckpointIdentities DEF BasesInv
  <2>8. CoveringInv'
    BY <1>1, <2>2, <2>3, <2>4, CheckpointIdentities DEF CoveringInv
  <2>9. ASSUME NEW o, Drawn(Checkpointers, o, quota), Discarded(o) PROVE Discarded(o)'
    BY <1>1, <2>3, <2>4, <2>9, Zenon DEF Discarded
  <2>10. CheckpointAnsweredInv'
    BY <1>1, <2>2, <2>3, <2>9, CheckpointIdentities, Zenon DEF CheckpointAnsweredInv
  <2> QED BY <2>6, <2>7, <2>8, <2>10 DEF CheckpointAnswersInv
<1>3. CASE DropsCheckpoint(k)
  <2>1. UNCHANGED <<head, version, late, bases, quota, checkpointAnswers>>
        /\ checkpointers'[k].pc = "idle"
    BY <1>3 DEF DropsCheckpoint, StoreStays
  <2>2. \A j \in Checkpointers : checkpointers'[j].pc # "idle" =>
          checkpointers'[j] = checkpointers[j]
    BY <1>1, <2>1
  <2>3. CheckpointsInv'
    BY <1>1, <2>1, <2>2 DEF CheckpointsInv
  <2>4. BasesInv'
    BY <1>1, <2>1 DEF BasesInv
  <2>5. CoveringInv'
    BY <1>1, <2>1, <2>2 DEF CoveringInv
  <2>6. ASSUME NEW o, Discarded(o) PROVE Discarded(o)'
    BY <2>1, <2>2, <2>6, Zenon DEF Discarded
  <2>7. CheckpointAnsweredInv'
    BY <1>1, <2>1, <2>6 DEF CheckpointAnsweredInv
  <2> QED BY <2>3, <2>4, <2>5, <2>7 DEF CheckpointAnswersInv
<1>4. CASE CarriesCheckpoint(k)
  <2>0. PICK c : c = me.checkpoint
    OBVIOUS
  <2>1. /\ me.pc # "idle" /\ checkpointers'[k].pc # "idle"
        /\ checkpointers'[k].checkpoint = c
        /\ Coverable(me, head, version) => Coverable(checkpointers'[k], head, version)
        /\ Covered(me, head, version) => Covered(checkpointers'[k], head, version)
        /\ UNCHANGED <<quota, checkpointAnswers>>
    BY <1>4, <2>0, Zenon DEF CarriesCheckpoint
  <2>2. \A j \in Checkpointers :
          /\ checkpointers'[j].pc # "idle" <=> checkpointers[j].pc # "idle"
          /\ checkpointers'[j].pc # "idle" =>
               /\ checkpointers'[j].checkpoint = checkpointers[j].checkpoint
               /\ Covered(checkpointers[j], head, version) =>
                    Covered(checkpointers'[j], head, version)
               /\ Coverable(checkpointers[j], head, version) =>
                    Coverable(checkpointers'[j], head, version)
    BY <1>1, <2>0, <2>1
  <2>3. UNCHANGED <<head, version, bases>>
    BY <1>4, Zenon DEF CarriesCheckpoint, StoreStays, Submits
  <2>4. CheckpointsInv'
    BY <1>1, <2>1, <2>2, <2>3, Zenon DEF CheckpointsInv
  <2>5. BasesInv'
    BY <1>1, <2>1, <2>3, Zenon DEF BasesInv
  <2>6. CASE StoreStays
    <3>0. UNCHANGED late
      BY <2>6 DEF StoreStays
    <3>1. CoveringInv'
      BY <1>1, <2>1, <2>2, <2>3, <3>0, Zenon DEF CoveringInv
    <3>2. ASSUME NEW o, Discarded(o) PROVE Discarded(o)'
      BY <2>2, <2>3, <3>0, <3>2, Zenon DEF Discarded
    <3>3. CheckpointAnsweredInv'
      BY <1>1, <2>1, <2>3, <3>2 DEF CheckpointAnsweredInv
    <3> QED BY <2>4, <2>5, <3>1, <3>3 DEF CheckpointAnswersInv
  <2>7. CASE /\ Coverable(checkpointers'[k], head, version)
             /\ ~Covered(me, head, version)
             /\ \E h : /\ CoverTail(head, h) /\ h.checkpoint = me.checkpoint
                       /\ Submits(h)
    <3>1. \A l \in late' : l \in late \/ l.head.checkpoint = c
      BY <2>0, <2>7 DEF Submits
    <3>2. Drawn(Checkpointers, c.object, quota) /\ c.object \notin bases
      BY <1>1, <2>0, <2>1, <2>7, Zenon DEF CheckpointsInv, Drawn
    <3>3. \A j \in Checkpointers :
            checkpointers'[j].pc # "idle" /\ checkpointers'[j].checkpoint.object = c.object =>
              /\ c = checkpointers'[j].checkpoint
              /\ Coverable(checkpointers'[j], head, version)
      BY <1>1, <2>0, <2>1, <2>2, <2>7, CheckpointsDiffer, Zenon
    <3>4. ASSUME NEW l \in late', l.head.checkpoint # head.checkpoint
          PROVE  /\ Drawn(Checkpointers, l.head.checkpoint.object, quota)
                 /\ l.head.checkpoint.object \notin bases
                 /\ \A j \in Checkpointers :
                      checkpointers'[j].pc # "idle"
                        /\ checkpointers'[j].checkpoint.object = l.head.checkpoint.object =>
                      /\ l.head.checkpoint = checkpointers'[j].checkpoint
                      /\ Coverable(checkpointers'[j], head, version)
      <4>1. CASE l.head.checkpoint = c
        BY <3>2, <3>3, <4>1
      <4>2. CASE l \in late
        BY <1>1, <2>2, <3>4, <4>2, Zenon DEF CoveringInv
      <4> QED BY <3>1, <4>1, <4>2, Zenon
    <3>5. CoveringInv'
      BY <2>1, <2>3, <3>4, Zenon DEF CoveringInv
    <3>6. ASSUME NEW o, Discarded(o) PROVE Discarded(o)'
      <4>1. o # c.object
        BY <2>0, <2>1, <3>6, Zenon DEF Discarded
      <4> QED BY <2>2, <2>3, <3>1, <3>6, <4>1, Zenon DEF Discarded
    <3>7. CheckpointAnsweredInv'
      BY <1>1, <2>1, <2>3, <3>6 DEF CheckpointAnsweredInv
    <3> QED BY <2>4, <2>5, <3>5, <3>7 DEF CheckpointAnswersInv
  <2> QED BY <1>4, <2>6, <2>7, Zenon DEF CarriesCheckpoint
<1>5. ASSUME NEW status, SettlesCheckpoint(k, status) PROVE CheckpointAnswersInv'
  <2>0. PICK c : c = me.checkpoint
    OBVIOUS
  <2>1. /\ me.pc # "idle" /\ checkpointers'[k].pc = "idle" /\ UNCHANGED quota
        /\ checkpointAnswers' = checkpointAnswers \cup {[checkpoint |-> c, status |-> status]}
    BY <1>5, <2>0, Zenon DEF SettlesCheckpoint
  <2>2. Drawn(Checkpointers, c.object, quota)
    BY <1>1, <2>0, <2>1 DEF CheckpointsInv, Drawn
  <2>3. \A j \in Checkpointers : checkpointers'[j].pc # "idle" =>
          /\ checkpointers[j].pc # "idle" /\ checkpointers'[j] = checkpointers[j]
          /\ checkpointers[j].checkpoint.object # c.object
    BY <1>1, <2>0, <2>1, CheckpointsDiffer
  <2>4. c # NoCheckpoint
    <3>1. c.object # None
      BY <1>1, <2>2, DrawnOnce DEF Drawn
    <3> QED BY <3>1 DEF NoCheckpoint
  <2>5. ASSUME status # "Corrupt",
               status = "Published" => c.object \in bases',
               status = "NotPublished" => Discarded(c.object)',
               bases \subseteq bases',
               \A o : Discarded(o) => Discarded(o)'
        PROVE  CheckpointAnsweredInv'
    <3>1. ASSUME NEW a \in checkpointAnswers'
          PROVE  /\ Drawn(Checkpointers, a.checkpoint.object, quota)
                 /\ a.status # "Corrupt"
                 /\ a.status = "Published" => a.checkpoint.object \in bases'
                 /\ a.status = "NotPublished" => Discarded(a.checkpoint.object)'
      <4>1. CASE a \in checkpointAnswers
        BY <1>1, <2>5, <4>1, Zenon DEF CheckpointAnsweredInv
      <4>2. CASE a = [checkpoint |-> c, status |-> status]
        BY <2>2, <2>5, <4>2
      <4> QED BY <2>1, <3>1, <4>1, <4>2
    <3> QED BY <2>1, <3>1 DEF CheckpointAnsweredInv
  <2>6. CASE /\ StoreStays
             /\ status # "Corrupt"
             /\ status = "Published" => head.checkpoint = me.checkpoint
             /\ status = "NotPublished" => /\ ~Coverable(me, head, version)
                                           /\ ~Covered(me, head, version)
    <3>1. UNCHANGED <<head, version, late, bases>>
      BY <2>6 DEF StoreStays
    <3>2. CheckpointsInv'
      BY <1>1, <2>1, <2>3, <3>1 DEF CheckpointsInv
    <3>3. BasesInv'
      BY <1>1, <2>1, <3>1 DEF BasesInv
    <3>4. CoveringInv'
      BY <1>1, <2>1, <2>3, <3>1 DEF CoveringInv
    <3>5. \A o : Discarded(o) => Discarded(o)'
      BY <2>3, <3>1 DEF Discarded
    <3>6. status = "Published" => c.object \in bases
      BY <1>1, <2>0, <2>4, <2>6, Zenon DEF BasesInv
    <3>7. ASSUME status = "NotPublished" PROVE Discarded(c.object)'
      <4>1. c.object \notin bases
        BY <1>1, <2>0, <2>1, <2>6, <3>7, Zenon DEF CheckpointsInv
      <4>2. head.checkpoint.object # c.object
        BY <1>1, <2>2, <4>1, DiscardedIsNotCurrent
      <4>3. ASSUME NEW l \in late PROVE l.head.checkpoint.object # c.object
        BY <1>1, <2>0, <2>1, <2>6, <3>7, <4>2, Zenon DEF CoveringInv
      <4> QED BY <2>3, <3>1, <4>1, <4>3 DEF Discarded
    <3>8. CheckpointAnsweredInv'
      BY <2>5, <2>6, <3>1, <3>5, <3>6, <3>7
    <3> QED BY <3>2, <3>3, <3>4, <3>8 DEF CheckpointAnswersInv
  <2>7. ASSUME NEW h, CoverTail(head, h), h.checkpoint = me.checkpoint, Apply(h),
               status = "Published"
        PROVE  CheckpointAnswersInv'
    <3>1. LegalStep(head, h)
      BY <2>7 DEF LegalStep
    <3>2. /\ late' = {} /\ head' = h /\ version' = version + 1
          /\ bases \subseteq bases' /\ bases' \subseteq bases \cup {c.object}
          /\ c.object \in bases'
      BY <1>1, <2>0, <2>4, <2>7 DEF Apply, StoreInv, BasesInv
    <3>3. ASSUME NEW j \in Checkpointers, checkpointers'[j].pc # "idle",
                 checkpointers'[j].checkpoint.object \in bases'
          PROVE  Covered(checkpointers'[j], h, version + 1)
      <4>1. Covered(checkpointers[j], head, version)
        BY <1>1, <2>3, <3>2, <3>3 DEF CheckpointsInv
      <4>2. /\ checkpointers[j].pc # "idle" /\ checkpointers'[j] = checkpointers[j]
            /\ CheckpointerOk(checkpointers[j], head, version)
        BY <2>3, <3>3 DEF CheckpointersInv
      <4> QED BY <3>1, <4>1, <4>2, CoveredStays, Zenon
    <3>4. CheckpointsInv'
      BY <1>1, <2>1, <2>3, <3>2, <3>3, Zenon DEF CheckpointsInv
    <3>5. BasesInv'
      BY <1>1, <2>0, <2>1, <2>2, <2>7, <3>2, Zenon DEF BasesInv
    <3>6. CoveringInv'
      BY <3>2, Zenon DEF CoveringInv
    <3>7. \A o : Discarded(o) => Discarded(o)'
      BY <2>0, <2>1, <2>3, <3>2 DEF Discarded
    <3>8. CheckpointAnsweredInv'
      BY <2>5, <2>7, <3>2, <3>7
    <3> QED BY <3>4, <3>5, <3>6, <3>8 DEF CheckpointAnswersInv
  <2> QED BY <1>5, <2>6, <2>7, Zenon DEF SettlesCheckpoint
<1> QED BY <1>2, <1>3, <1>4, <1>5 DEF CheckpointerActs

=============================================================================
