--------------------------- MODULE ObjectLogProofs --------------------------
(***************************************************************************)
(* However many clients interleave, whatever their views and whenever      *)
(* their writes take effect, the durable head makes legal transitions only *)
(* and stays valid: for every set of clients, every option and any number  *)
(* of operations.                                                          *)
(***************************************************************************)
EXTENDS ObjectLog, CommitProofs, CheckpointProofs, RetentionProofs, FenceProofs

(* The inductive invariant: what each client may still write fits the head *)
(* of the view it would write from, the head agrees with the list of all   *)
(* commits, and what a client knows of its candidate, its checkpoint, its  *)
(* retention or its plan agrees with the head and the writes in flight.    *)
Inv ==
  /\ StoreInv /\ WritersInv /\ CheckpointersInv /\ RetainersInv /\ CollectorsInv
  /\ HistoryInv /\ AnswersInv /\ CheckpointAnswersInv /\ PinsInv /\ PlansInv

(* A fresh log and idle clients.                                           *)
LEMMA InitInv == Init => Inv
<1> SUFFICES ASSUME Init PROVE Inv
  OBVIOUS
<1>1. /\ head = Empty /\ version = 0 /\ late = {} /\ quota \in [Clients -> Nat]
      /\ history = <<>> /\ bases = {}
  BY BoundsAssumption DEF Init, StoreInit
<1>2. HeadInvariant(head) /\ head.generation = 0
  BY <1>1, EmptyIsValid DEF Empty
<1>3. NotAhead(Empty, Empty)
  BY <1>1, <1>2, HeadNumbers DEF NotAhead
<1>4. ViewOf(NoView, head, version)
  BY <1>1, <1>2, <1>3 DEF ViewOf, NoView
<1>5. StoreInv
  BY <1>1, <1>2, <1>4 DEF StoreInv
<1>6. WritersInv
  BY <1>4, LoopAttempts DEF Init, CommitsInit, WritersInv, WriterOk, IdleWriter
<1>7. CheckpointersInv
  BY <1>4, LoopAttempts DEF Init, CheckpointsInit, CheckpointersInv, CheckpointerOk, IdleCheckpointer
<1>8. RetainersInv
  BY <1>4, LoopAttempts DEF Init, RetentionsInit, RetainersInv, RetainerOk, IdleRetainer, NoChange, Kinds
<1>9. CollectorsInv
  BY <1>4, LoopAttempts DEF Init, FencesInit, CollectorsInv, CollectorOk, HasPlan, IdleCollector
<1>10. HistoryInv
  BY <1>1 DEF HistoryInv, RetainsHistory, Empty, NoCheckpoint, Retained, Range
<1>11. AnswersInv
  BY <1>1 DEF Init, CommitsInit, AnswersInv, CandidatesInv, InFlightInv, AnsweredInv, IdleWriter
<1>12. CheckpointAnswersInv
  BY <1>1 DEF Init, CheckpointsInit, CheckpointAnswersInv, CheckpointsInv, BasesInv,
              CoveringInv, CheckpointAnsweredInv, IdleCheckpointer, Empty
<1>13. PinsInv
  BY <1>1 DEF Init, RetentionsInit, PinsInv, OwnersInv, PinnedInv, Retains, Acquires, Drains,
              IdleRetainer, Empty
<1>14. PlansInv
  BY <1>1 DEF Init, FencesInit, PlansInv, FencesInv, InstallsInv, PlanOk, HasPlan,
              IdleCollector, Empty
<1> QED BY <1>5, <1>6, <1>7, <1>8, <1>9, <1>10, <1>11, <1>12, <1>13, <1>14 DEF Inv

(* A step of a writer as the other clients see it.                         *)
LEMMA WriterEffect ==
  ASSUME StoreInv, NEW w \in Writers, WriterActs(w)
  PROVE  /\ QuotaFalls
         /\ \/ StoreStays
            \/ \E h : /\ LegalStep(head, h) /\ Proposes(h) /\ h.checkpoint = head.checkpoint
                      /\ h.retention_ids = head.retention_ids
                      /\ h.active_plan = head.active_plan
<1>1. HeadInvariant(head) /\ w \in Clients
  BY WritersAssumption DEF StoreInv
<1>2. CASE Prepares(w)
  BY <1>1, <1>2, FreshIsDrawn DEF Prepares
<1>3. ASSUME FollowsHead(head, writers[w].commit),
             Proposes(CandidateHead(head, writers[w].commit))
      PROVE  \E h : /\ LegalStep(head, h) /\ Proposes(h) /\ h.checkpoint = head.checkpoint
                    /\ h.retention_ids = head.retention_ids
                    /\ h.active_plan = head.active_plan
  BY <1>1, <1>3, CandidateIsLegal, CandidateKeeps
<1>4. CASE Carries(w)
  BY <1>3, <1>4, QuotaStays DEF Carries, Proposes
<1>5. CASE \E status : Settles(w, status)
  BY <1>3, <1>5, QuotaStays DEF Settles, Proposes
<1> QED BY <1>2, <1>4, <1>5 DEF WriterActs

(* A step of a checkpointer.                                               *)
LEMMA CheckpointerEffect ==
  ASSUME StoreInv, NEW k \in Checkpointers, CheckpointerActs(k)
  PROVE  /\ QuotaFalls
         /\ \/ StoreStays
            \/ \E h : /\ LegalStep(head, h) /\ Proposes(h)
                      /\ h.next_sequence = head.next_sequence
                      /\ Range(h.tail) \subseteq Range(head.tail)
                      /\ h.retention_ids = head.retention_ids
                      /\ h.active_plan = head.active_plan
<1>1. HeadInvariant(head) /\ k \in Clients
  BY CheckpointersAssumption DEF StoreInv
<1>2. ASSUME NEW h, CoverTail(head, h)
      PROVE  /\ LegalStep(head, h) /\ h.next_sequence = head.next_sequence
             /\ Range(h.tail) \subseteq Range(head.tail)
             /\ h.retention_ids = head.retention_ids
             /\ h.active_plan = head.active_plan
  BY <1>1, <1>2, CoverKeeps DEF LegalStep
<1>3. CASE StartsCheckpoint(k)
  BY <1>1, <1>3, FreshIsDrawn DEF StartsCheckpoint
<1>4. CASE DropsCheckpoint(k)
  BY <1>4, QuotaStays DEF DropsCheckpoint
<1>5. CASE CarriesCheckpoint(k)
  BY <1>2, <1>5, QuotaStays DEF CarriesCheckpoint, Proposes
<1>6. CASE \E status : SettlesCheckpoint(k, status)
  BY <1>2, <1>6, QuotaStays DEF SettlesCheckpoint, Proposes
<1> QED BY <1>3, <1>4, <1>5, <1>6 DEF CheckpointerActs

(* Every step keeps the invariant, moves the head legally, and drops a     *)
(* fence only after a sweep.                                               *)
LEMMA NextInv == Inv /\ [Next]_vars => Inv' /\ HeadStep /\ FenceFalls
<1> SUFFICES ASSUME Inv, [Next]_vars PROVE Inv' /\ HeadStep /\ FenceFalls
  OBVIOUS
<1>1. /\ StoreInv /\ WritersInv /\ CheckpointersInv /\ RetainersInv /\ CollectorsInv
      /\ HistoryInv /\ AnswersInv /\ CheckpointAnswersInv /\ PinsInv /\ PlansInv
  BY DEF Inv
<1>2. CASE Land /\ UNCHANGED <<writerVars, checkpointVars, retainerVars, collectorVars>>
  <2>1. UNCHANGED <<writers, answers, checkpointers, checkpointAnswers, retainers, collectors>>
    BY <1>2 DEF writerVars, checkpointVars, retainerVars, collectorVars
  <2>2. StoreInv' /\ HeadStep
    BY <1>1, <1>2, LandKeepsStore
  <2>3. WritersInv' /\ CheckpointersInv' /\ RetainersInv' /\ CollectorsInv'
    BY <1>1, <2>1, <2>2, WritersStay, CheckpointersStay, RetainersStay, CollectorsStay
  <2>4. StoreStep
    BY <1>1, <1>2, LandProposes DEF StoreStep, Proposes
  <2>5. HistoryInv' /\ AnswersInv' /\ CheckpointAnswersInv' /\ PinsInv'
    BY <1>1, <1>2, <2>1, <2>4, HistoryStays, LandKeepsAnswers, LandKeepsCheckpointAnswers,
       LandKeepsPins
  <2>6. PlansInv' /\ FenceFalls
    BY <1>1, <1>2, LandKeepsPlans
  <2> QED BY <2>2, <2>3, <2>5, <2>6 DEF Inv
<1>3. ASSUME NEW w \in Writers, WriterStep(w),
             UNCHANGED <<checkpointVars, retainerVars, collectorVars>>
      PROVE  Inv' /\ HeadStep /\ FenceFalls
  <2>1. UNCHANGED <<checkpointers, checkpointAnswers, retainers, collectors>>
    BY <1>3 DEF checkpointVars, retainerVars, collectorVars
  <2>2. StoreInv' /\ HeadStep /\ WritersInv'
    BY <1>1, <1>3, WriterKeeps
  <2>3. CheckpointersInv' /\ RetainersInv' /\ CollectorsInv'
    BY <1>1, <2>1, <2>2, CheckpointersStay, RetainersStay, CollectorsStay
  <2>4. WriterActs(w)
    BY <1>1, <1>3, WritersAct
  <2>5. /\ QuotaFalls
        /\ \/ StoreStays
           \/ \E h : /\ LegalStep(head, h) /\ Proposes(h) /\ h.checkpoint = head.checkpoint
                     /\ h.retention_ids = head.retention_ids
                     /\ h.active_plan = head.active_plan
    BY <1>1, <2>4, WriterEffect
  <2>6. HistoryInv'
    BY <1>1, <2>5, HistoryStays DEF StoreStep
  <2>7. AnswersInv'
    BY <1>1, <2>4, WriterKeepsAnswers
  <2>8. CheckpointAnswersInv'
    BY <1>1, <2>1, <2>5, CheckpointAnswersStay
  <2>9. PinsInv'
    BY <1>1, <2>1, <2>5, PinsStay
  <2>10. PlansInv' /\ FenceFalls
    BY <1>1, <1>3, <2>5, PlansStay
  <2> QED BY <2>2, <2>3, <2>6, <2>7, <2>8, <2>9, <2>10 DEF Inv
<1>4. ASSUME NEW k \in Checkpointers, CheckpointerStep(k),
             UNCHANGED <<writerVars, retainerVars, collectorVars>>
      PROVE  Inv' /\ HeadStep /\ FenceFalls
  <2>1. UNCHANGED <<writers, answers, retainers, collectors>>
    BY <1>4 DEF writerVars, retainerVars, collectorVars
  <2>2. StoreInv' /\ HeadStep /\ CheckpointersInv'
    BY <1>1, <1>4, CheckpointerKeeps
  <2>3. WritersInv' /\ RetainersInv' /\ CollectorsInv'
    BY <1>1, <2>1, <2>2, WritersStay, RetainersStay, CollectorsStay
  <2>4. CheckpointerActs(k)
    BY <1>1, <1>4, CheckpointersAct
  <2>5. /\ QuotaFalls
        /\ \/ StoreStays
           \/ \E h : /\ LegalStep(head, h) /\ Proposes(h)
                     /\ h.next_sequence = head.next_sequence
                     /\ Range(h.tail) \subseteq Range(head.tail)
                     /\ h.retention_ids = head.retention_ids
                     /\ h.active_plan = head.active_plan
    BY <1>1, <2>4, CheckpointerEffect
  <2>6. HistoryInv'
    BY <1>1, <2>5, HistoryStays DEF StoreStep
  <2>7. AnswersInv'
    BY <1>1, <2>1, <2>5, AnswersStay
  <2>8. CheckpointAnswersInv'
    BY <1>1, <2>4, CheckpointerKeepsAnswers
  <2>9. PinsInv'
    BY <1>1, <2>1, <2>5, PinsStay
  <2>10. PlansInv' /\ FenceFalls
    BY <1>1, <1>4, <2>5, PlansStay
  <2> QED BY <2>2, <2>3, <2>6, <2>7, <2>8, <2>9, <2>10 DEF Inv
<1>5. ASSUME NEW r \in Readers \cup Operators,
             \/ r \in Readers /\ ReaderStep(r)
             \/ r \in Operators /\ StartRecovery(r)
             \/ RetainerStep(r),
             UNCHANGED <<writerVars, checkpointVars, collectorVars>>
      PROVE  Inv' /\ HeadStep /\ FenceFalls
  <2>1. UNCHANGED <<writers, answers, checkpointers, checkpointAnswers, collectors>>
    BY <1>5 DEF writerVars, checkpointVars, collectorVars
  <2>2. StoreInv' /\ HeadStep /\ RetainersInv'
    BY <1>1, <1>5, RetainerKeeps
  <2>3. WritersInv' /\ CheckpointersInv' /\ CollectorsInv'
    BY <1>1, <2>1, <2>2, WritersStay, CheckpointersStay, CollectorsStay
  <2>4. RetainerActs(r)
    BY <1>1, <1>5, RetainersAct
  <2>5. /\ QuotaFalls
        /\ \/ StoreStays
           \/ \E h : /\ LegalStep(head, h) /\ Proposes(h) /\ h.checkpoint = head.checkpoint
                     /\ h.next_sequence = head.next_sequence
                     /\ Range(h.tail) \subseteq Range(head.tail)
                     /\ h.active_plan = head.active_plan
    BY <1>1, <2>4, RetainerEffect
  <2>6. HistoryInv'
    BY <1>1, <2>5, HistoryStays DEF StoreStep
  <2>7. AnswersInv'
    BY <1>1, <2>1, <2>5, AnswersStay
  <2>8. CheckpointAnswersInv'
    BY <1>1, <2>1, <2>5, CheckpointAnswersStay
  <2>9. PinsInv'
    BY <1>1, <2>4, RetainerKeepsPins
  <2>10. PlansInv' /\ FenceFalls
    BY <1>1, <1>5, <2>5, PlansStay
  <2> QED BY <2>2, <2>3, <2>6, <2>7, <2>8, <2>9, <2>10 DEF Inv
<1>6. ASSUME NEW c \in Collectors, CollectorStep(c),
             UNCHANGED <<writerVars, checkpointVars, retainerVars>>
      PROVE  Inv' /\ HeadStep /\ FenceFalls
  <2>1. UNCHANGED <<writers, answers, checkpointers, checkpointAnswers, retainers>>
    BY <1>6 DEF writerVars, checkpointVars, retainerVars
  <2>2. StoreInv' /\ HeadStep /\ CollectorsInv'
    BY <1>1, <1>6, CollectorKeeps
  <2>3. WritersInv' /\ CheckpointersInv' /\ RetainersInv'
    BY <1>1, <2>1, <2>2, WritersStay, CheckpointersStay, RetainersStay
  <2>4. PlansInv' /\ FenceFalls /\ FencesMove /\ QuotaFalls
    BY <1>1, <1>6, CollectorKeepsPlans
  <2>5. \/ StoreStays
        \/ \E h : /\ LegalStep(head, h) /\ Proposes(h) /\ h.checkpoint = head.checkpoint
                  /\ h.next_sequence = head.next_sequence
                  /\ Range(h.tail) \subseteq Range(head.tail)
                  /\ h.retention_ids = head.retention_ids
    BY <1>1, <2>4, CollectorEffect
  <2>6. HistoryInv'
    BY <1>1, <2>5, HistoryStays DEF StoreStep
  <2>7. AnswersInv'
    BY <1>1, <2>1, <2>4, <2>5, AnswersStay
  <2>8. CheckpointAnswersInv'
    BY <1>1, <2>1, <2>4, <2>5, CheckpointAnswersStay
  <2>9. PinsInv'
    BY <1>1, <2>1, <2>4, <2>5, PinsStay
  <2> QED BY <2>2, <2>3, <2>4, <2>6, <2>7, <2>8, <2>9 DEF Inv
<1>7. CASE UNCHANGED vars
  <2>1. /\ UNCHANGED <<storeVars, writers, answers, checkpointers, checkpointAnswers>>
        /\ UNCHANGED <<retainers, collectors, plans, swept, planErrors, collectorVars>>
        /\ UNCHANGED <<head, version, late, quota, history, bases>>
    BY <1>7 DEF vars, storeVars, writerVars, checkpointVars, retainerVars, collectorVars
  <2>2. StoreInv' /\ HeadStep
    BY <1>1, <2>1, QuietKeepsStore DEF StoreInv
  <2>3. WritersInv' /\ CheckpointersInv' /\ RetainersInv' /\ CollectorsInv'
    BY <1>1, <2>1, <2>2, WritersStay, CheckpointersStay, RetainersStay, CollectorsStay
  <2>4. StoreStays /\ QuotaFalls
    BY <1>1, <2>1, QuotaStays DEF StoreStays
  <2>5. HistoryInv' /\ AnswersInv' /\ CheckpointAnswersInv' /\ PinsInv'
    BY <1>1, <2>1, <2>4, HistoryStays, AnswersStay, CheckpointAnswersStay, PinsStay
       DEF StoreStep
  <2>6. PlansInv' /\ FenceFalls
    BY <1>1, <2>1, <2>4, PlansStay
  <2> QED BY <2>2, <2>3, <2>5, <2>6 DEF Inv
<1> QED BY <1>2, <1>3, <1>4, <1>5, <1>6, <1>7 DEF Next

(* Here no collector marks or lists: those are steps of Collection.        *)
Fencing == \A c \in Collectors : collectors[c].pc \notin {"mark", "list"}

(* Every step of every collector leads to a step of the fence.             *)
LEMMA FencingStays == Inv /\ Fencing /\ [Next]_vars => Fencing'
<1> SUFFICES ASSUME Inv, Fencing, [Next]_vars PROVE Fencing'
  OBVIOUS
<1>1. CASE UNCHANGED collectors
  BY <1>1 DEF Fencing
<1>2. ASSUME NEW c \in Collectors, NEW state, CollectorBecomes(c, state),
             state.pc \notin {"mark", "list"}
      PROVE  Fencing'
  BY <1>2 DEF Fencing, CollectorBecomes, Inv, CollectorsInv
<1>3. ASSUME NEW c \in Collectors, CollectorStep(c) PROVE Fencing'
  <2>1. PICK state : CollectorBecomes(c, state) /\ CollectorGoes(c, state)
    BY <1>3, CollectorGoesTo DEF Inv
  <2>2. state.pc \notin {"mark", "list"}
    BY <2>1 DEF CollectorGoes, Working
  <2> QED BY <1>2, <2>1, <2>2
<1> QED BY <1>1, <1>3 DEF Next, vars, collectorVars

(* The points of the code and the attempts of the publication loops.       *)
THEOREM TypesAreKept == Spec => []TypeOK
<1>1. Inv /\ Fencing => TypeOK
  BY Zenon DEF Inv, StoreInv, WritersInv, WriterOk, CheckpointersInv, CheckpointerOk,
         RetainersInv, RetainerOk, CollectorsInv, CollectorOk, TypeOK, Fencing
<1>2. Init => Fencing
  BY DEF Init, FencesInit, Fencing, IdleCollector
<1> QED BY <1>1, <1>2, InitInv, NextInv, FencingStays, PTL DEF Spec

(* A conditional update that matches replaces the head it was computed     *)
(* from: no client holds a view with the current version of another head.  *)
THEOREM ViewsAreFaithful == Spec => []ViewsNameTheirHead
<1>1. ASSUME Inv PROVE ViewsNameTheirHead
  <2>1. ASSUME NEW w \in Writers
        PROVE  /\ ViewOf(writers[w].token, head, version)
               /\ ViewOf(writers[w].prepared, head, version)
               /\ ViewOf(writers[w].source, head, version)
               /\ ViewOf(writers[w].view, head, version)
    BY <1>1 DEF Inv, WritersInv, WriterOk
  <2>2. ASSUME NEW k \in Checkpointers
        PROVE  /\ ViewOf(checkpointers[k].pending, head, version)
               /\ ViewOf(checkpointers[k].source, head, version)
               /\ ViewOf(checkpointers[k].view, head, version)
    BY <1>1, Zenon DEF Inv, CheckpointersInv, CheckpointerOk
  <2>3. ASSUME NEW r \in Readers \cup Operators
        PROVE  /\ ViewOf(retainers[r].session, head, version)
               /\ ViewOf(retainers[r].view, head, version)
    <3>1. RetainerOk(retainers[r], head, version)
      BY <1>1 DEF Inv, RetainersInv
    <3> QED BY <3>1 DEF RetainerOk
  <2>4. ASSUME NEW c \in Collectors PROVE ViewOf(collectors[c].view, head, version)
    BY <1>1 DEF Inv, CollectorsInv, CollectorOk
  <2>5. ASSUME NEW v \in Views PROVE ViewOf(v, head, version)
    <3>1. \/ \E w \in Writers : v \in {writers[w].token, writers[w].prepared,
                                      writers[w].source, writers[w].view}
          \/ \E k \in Checkpointers : v \in {checkpointers[k].pending,
                                            checkpointers[k].source, checkpointers[k].view}
          \/ \E r \in Readers \cup Operators : v \in {retainers[r].session, retainers[r].view}
          \/ \E c \in Collectors : v \in {collectors[c].view}
      BY <2>5, Zenon DEF Views
    <3>2. ASSUME NEW w \in Writers, v \in {writers[w].token, writers[w].prepared,
                                           writers[w].source, writers[w].view}
          PROVE  ViewOf(v, head, version)
      BY <2>1, <3>2, Zenon
    <3>3. ASSUME NEW k \in Checkpointers, v \in {checkpointers[k].pending,
                                   checkpointers[k].source, checkpointers[k].view}
          PROVE  ViewOf(v, head, version)
      BY <2>2, <3>3, Zenon
    <3>4. ASSUME NEW r \in Readers \cup Operators,
                 v \in {retainers[r].session, retainers[r].view}
          PROVE  ViewOf(v, head, version)
      BY <2>3, <3>4, Zenon
    <3>5. ASSUME NEW c \in Collectors, v \in {collectors[c].view}
          PROVE  ViewOf(v, head, version)
      BY <2>4, <3>5, Zenon
    <3> QED BY <3>1, <3>2, <3>3, <3>4, <3>5, Zenon
  <2> QED BY <2>5 DEF ViewOf, ViewsNameTheirHead
<1> QED BY <1>1, InitInv, NextInv, PTL DEF Spec

(* The head keeps the newest commits, as many as its validation requires:  *)
(* checkpoint_head and candidate_head forget or reorder none of them,      *)
(* however late a checkpoint is applied.                                   *)
THEOREM NothingIsForgotten == Spec => []HeadIsNewestHistory
<1>1. Inv => HeadIsNewestHistory
  BY RetainedIsSuffix, Zenon DEF Inv, StoreInv, HistoryInv, RetainsHistory, HeadIsNewestHistory
<1> QED BY <1>1, InitInv, NextInv, PTL DEF Spec

(* What a caller is told about a checkpoint is true for ever: a checkpoint *)
(* reported Published was installed, and one reported NotPublished neither *)
(* was nor can be by a write that is still in flight.                      *)
THEOREM CheckpointAnswersHold == Spec => []CheckpointAnswersAreSound
<1>1. ASSUME Inv PROVE CheckpointAnswersAreSound
  <2>1. ASSUME NEW a \in checkpointAnswers, a.status = "NotPublished", NEW l \in late
        PROVE  l.head.checkpoint # a.checkpoint
    BY <1>1, <2>1 DEF Inv, CheckpointAnswersInv, CheckpointAnsweredInv, Discarded
  <2>2. ASSUME NEW a \in checkpointAnswers
        PROVE  /\ a.status = "Published" => a.checkpoint.object \in bases
               /\ a.status = "NotPublished" => a.checkpoint.object \notin bases
    BY <1>1 DEF Inv, CheckpointAnswersInv, CheckpointAnsweredInv, Discarded
  <2> QED BY <2>1, <2>2 DEF CheckpointAnswersAreSound
<1> QED BY <1>1, InitInv, NextInv, PTL DEF Spec

(* No interleaving of correct clients and no loss, delay or duplication of *)
(* a write makes publish_head_compatible, classify_resolution, resume,     *)
(* classify_checkpoint or read_collection_plan report corruption.          *)
THEOREM CorruptionIsReal == Spec => []NoFalseCorruption
<1>1. Inv => NoFalseCorruption
  BY DEF Inv, AnswersInv, AnsweredInv, CheckpointAnswersInv, CheckpointAnsweredInv,
         PlansInv, FencesInv, NoFalseCorruption
<1> QED BY <1>1, InitInv, NextInv, PTL DEF Spec

(* A reader whose Log::retain was confirmed reads in safety: its identity  *)
(* stays in the head, no fence is active and the collection epoch is the   *)
(* one of its view, until the reader itself gives the retention up.        *)
THEOREM RetainedViewsArePinned == Spec => []HeldIsPinned
<1>1. ASSUME Inv, NEW r \in Readers, retainers[r].pc = "holding"
      PROVE  /\ retainers[r].change.id \in head.retention_ids
             /\ head.active_plan = None
             /\ head.collection_epoch = retainers[r].session.head.collection_epoch
  <2>1. /\ retainers[r].change.id \in head.retention_ids
        /\ head.collection_epoch = retainers[r].session.head.collection_epoch
    BY <1>1 DEF Inv, PinsInv, PinnedInv
  <2>2. EpochOk(head)
    BY <1>1 DEF Inv, StoreInv, HeadInvariant
  <2> QED BY <2>1, <2>2 DEF EpochOk
<1>2. Inv => HeldIsPinned
  BY <1>1 DEF HeldIsPinned
<1> QED BY <1>2, InitInv, NextInv, PTL DEF Spec

(* resume_collection finds the plan of the fence that it was given: no     *)
(* collector removes a plan object that the head names, or that a write in *)
(* flight may still make it name.                                          *)
THEOREM PlansOutliveTheirFence == Spec => []ActivePlanExists
<1>1. Inv => ActivePlanExists
  BY DEF Inv, PlansInv, FencesInv, ActivePlanExists
<1> QED BY <1>1, InitInv, NextInv, PTL DEF Spec

(* A fence leaves the head only after all deletions of its plan succeeded, *)
(* also when the write that clears it takes effect late.                   *)
THEOREM FencesFallAfterSweeps == Spec => FenceClearedAfterSweep
<1>1. Inv /\ [Next]_vars =>
        (head.active_plan # None /\ head'.active_plan # head.active_plan
           => head.active_plan \in swept)
  BY NextInv DEF FenceFalls
<1> QED BY <1>1, InitInv, NextInv, PTL DEF Spec, FenceClearedAfterSweep

-----------------------------------------------------------------------------
(* A step as the writers and their callers see it.                         *)
LEMMA StepKinds ==
  ASSUME Inv, [Next]_vars
  PROVE  \/ Land /\ UNCHANGED <<writers, answers>>
         \/ \E w \in Writers : WriterActs(w)
         \/ /\ UNCHANGED <<writers, answers>>
            /\ \/ StoreStays
               \/ \E h : /\ LegalStep(head, h) /\ Proposes(h)
                         /\ h.next_sequence = head.next_sequence
                         /\ Range(h.tail) \subseteq Range(head.tail)
<1> DEFINE Quiet == \/ StoreStays
                    \/ \E h : /\ LegalStep(head, h) /\ Proposes(h)
                              /\ h.next_sequence = head.next_sequence
                              /\ Range(h.tail) \subseteq Range(head.tail)
<1>1. /\ StoreInv /\ WritersInv /\ CheckpointersInv /\ RetainersInv /\ CollectorsInv
      /\ PlansInv
  BY DEF Inv
<1>2. UNCHANGED writerVars => UNCHANGED <<writers, answers>>
  BY DEF writerVars
<1>3. ASSUME NEW w \in Writers, WriterStep(w) PROVE WriterActs(w)
  BY <1>1, <1>3, WritersAct
<1>4. ASSUME NEW k \in Checkpointers, CheckpointerStep(k) PROVE Quiet
  <2>1. CheckpointerActs(k)
    BY <1>1, <1>4, CheckpointersAct
  <2> QED BY <1>1, <2>1, CheckpointerEffect
<1>5. ASSUME NEW r \in Readers \cup Operators,
             \/ r \in Readers /\ ReaderStep(r)
             \/ r \in Operators /\ StartRecovery(r)
             \/ RetainerStep(r)
      PROVE  Quiet
  <2>1. RetainerActs(r)
    BY <1>1, <1>5, RetainersAct
  <2> QED BY <1>1, <2>1, RetainerEffect
<1>6. ASSUME NEW c \in Collectors, CollectorStep(c) PROVE Quiet
  <2>1. FencesMove
    BY <1>1, <1>6, CollectorKeepsPlans
  <2> QED BY <1>1, <2>1, CollectorEffect
<1>7. UNCHANGED vars => Quiet /\ UNCHANGED writerVars
  BY DEF vars, storeVars, StoreStays
<1> HIDE DEF Quiet
<1>8. \/ Land /\ UNCHANGED writerVars
      \/ \E w \in Writers : WriterActs(w)
      \/ UNCHANGED writerVars /\ Quiet
  BY <1>3, <1>4, <1>5, <1>6, <1>7 DEF Next
<1> QED BY <1>2, <1>8 DEF Quiet

(* A commit becomes durable: the one of a write in flight, or the one that *)
(* a writer is told Committed for.                                         *)
LEMMA PublishedCommit ==
  ASSUME Inv, [Next]_vars,
         ~(Range(head'.tail) \subseteq Range(head.tail))
  PROVE  \E commit :
           /\ FollowsHead(head, commit) /\ commit \notin Range(history)
           /\ history' = Append(history, commit)
           /\ Range(history') = Range(history) \cup {commit}
           /\ Range(head'.tail) \subseteq Range(head.tail) \cup {commit}
           /\ \/ /\ Land /\ UNCHANGED <<writers, answers>>
                 /\ \E l \in late : commit \in Range(l.head.tail)
              \/ \E w \in Writers :
                   /\ writers[w].pc # "idle" /\ commit = writers[w].commit
                   /\ HasSamePublicationBase(writers[w].token.head, head)
                   /\ answers' = answers \cup {[commit |-> commit, status |-> "Committed"]}
<1>1. StoreInv /\ HistoryInv /\ HeadInvariant(head)
  BY Zenon DEF Inv, StoreInv
<1>2. ASSUME NEW h, LegalStep(head, h), Apply(h)
      PROVE  LET commit == Newest(h.tail) IN
             /\ FollowsHead(head, commit) /\ commit \notin Range(history)
             /\ history' = Append(history, commit)
             /\ Range(history') = Range(history) \cup {commit}
             /\ Range(head'.tail) \subseteq Range(head.tail) \cup {commit}
             /\ commit \in Range(h.tail)
  <2>1. head' = h
    BY <1>2 DEF Apply
  <2> QED BY <1>1, <1>2, <2>1, ApplyPublishes
<1>3. CASE Land /\ UNCHANGED <<writers, answers>>
  <2>1. PICK l \in late : LegalStep(head, l.head) /\ Apply(l.head)
    BY <1>1, <1>3, LandProposes
  <2> QED BY <1>2, <1>3, <2>1
<1>4. ASSUME NEW w \in Writers, WriterActs(w)
      PROVE  \E commit :
           /\ FollowsHead(head, commit) /\ commit \notin Range(history)
           /\ history' = Append(history, commit)
           /\ Range(history') = Range(history) \cup {commit}
           /\ Range(head'.tail) \subseteq Range(head.tail) \cup {commit}
           /\ writers[w].pc # "idle" /\ commit = writers[w].commit
           /\ HasSamePublicationBase(writers[w].token.head, head)
           /\ answers' = answers \cup {[commit |-> commit, status |-> "Committed"]}
  <2>1. PICK status : Settles(w, status)
    BY <1>4 DEF WriterActs, Prepares, Carries, StoreStays, Submits
  <2>2. /\ status = "Committed" /\ FollowsHead(head, writers[w].commit)
        /\ HasSamePublicationBase(writers[w].token.head, head)
        /\ Apply(CandidateHead(head, writers[w].commit))
        /\ writers[w].pc # "idle"
        /\ answers' = answers \cup {[commit |-> writers[w].commit, status |-> status]}
    BY <2>1 DEF Settles, StoreStays
  <2>3. PICK h : h = CandidateHead(head, writers[w].commit)
    OBVIOUS
  <2>4. LegalStep(head, h) /\ Apply(h) /\ Newest(h.tail) = writers[w].commit
    BY <1>1, <2>2, <2>3, CandidateIsLegal, CandidateTail, Zenon
  <2> QED BY <1>2, <2>2, <2>4
<1>5. CASE \/ StoreStays
           \/ \E h : /\ LegalStep(head, h) /\ Proposes(h)
                     /\ h.next_sequence = head.next_sequence
                     /\ Range(h.tail) \subseteq Range(head.tail)
  BY <1>5 DEF StoreStays, Proposes, Submits, Apply
<1> QED BY <1>3, <1>4, <1>5, StepKinds, Zenon

(* A commit is published in the collection epoch, and under the plan, that *)
(* its token records: by the call itself, by a retry, after a recovery, or *)
(* by a write that takes effect after every call has ended.                *)
THEOREM PublicationKeepsItsEpoch == Spec => PublishedInItsEpoch
<1>1. ASSUME Inv, [Next]_vars, NEW w \in Writers,
             writers[w].commit \in Range(head'.tail) \ Range(head.tail)
      PROVE  /\ head.collection_epoch = writers[w].token.head.collection_epoch
             /\ head.active_plan = writers[w].token.head.active_plan
  <2>1. PICK commit :
           /\ FollowsHead(head, commit) /\ commit \notin Range(history)
           /\ Range(head'.tail) \subseteq Range(head.tail) \cup {commit}
           /\ \/ /\ Land /\ UNCHANGED <<writers, answers>>
                 /\ \E l \in late : commit \in Range(l.head.tail)
              \/ \E v \in Writers :
                   /\ writers[v].pc # "idle" /\ commit = writers[v].commit
                   /\ HasSamePublicationBase(writers[v].token.head, head)
    BY <1>1, PublishedCommit
  <2>2. commit = writers[w].commit
    BY <1>1, <2>1
  <2>3. CandidatesInv /\ InFlightInv /\ WriterOk(writers[w], head, version)
    BY <1>1 DEF Inv, AnswersInv, WritersInv
  <2>4. ASSUME NEW id, Drawn(Writers, id, quota) PROVE id # None
    BY <2>4, DrawnOnce, WritersAssumption DEF Drawn
  <2>5. Drawn(Writers, commit.storage_id, quota)
    BY <2>1, <2>3 DEF Drawn, CandidatesInv, InFlightInv
  <2>6. writers[w].pc # "idle"
    <3>1. commit.storage_id # None
      BY <2>4, <2>5
    <3>2. writers[w].pc = "idle" => writers[w] = IdleWriter
      BY <2>3 DEF WriterOk
    <3>3. IdleWriter.commit.storage_id = None
      BY DEF IdleWriter, NoCommit
    <3> QED BY <2>2, <3>1, <3>2, <3>3
  <2>7. HasSamePublicationBase(writers[w].token.head, head)
    BY <2>1, <2>2, <2>3, <2>6, CandidatesDiffer, Zenon DEF InFlightInv, Open
  <2> QED BY <2>7 DEF HasSamePublicationBase
<1>2. ASSUME Inv, [Next]_vars
      PROVE  \A w \in Writers :
               writers[w].commit \in Range(head'.tail) \ Range(head.tail) =>
                 /\ head.collection_epoch = writers[w].token.head.collection_epoch
                 /\ head.active_plan = writers[w].token.head.active_plan
  BY <1>1, <1>2
<1> QED BY <1>2, InitInv, NextInv, PTL DEF Spec, PublishedInItsEpoch

-----------------------------------------------------------------------------
(* A step as the list of commits and the answers show it: a commit is      *)
(* added at the end, or an answer is given that agrees with the list.      *)
Publishes(commit) ==
  /\ commit \notin Range(history)
  /\ \A a \in answers : a.status = "NotCommitted" => a.commit # commit
  /\ commit.sequence = Len(history)
  /\ commit.digest.expected_tip = IF history = <<>> THEN None ELSE Newest(history).digest
  /\ history' = Append(history, commit) /\ commit \in Range(history')
  /\ answers' \in {answers, answers \cup {[commit |-> commit, status |-> "Committed"]}}

Reports(commit, status) ==
  /\ answers' = answers \cup {[commit |-> commit, status |-> status]}
  /\ status = "Committed" => commit \in Range(history)
  /\ status = "NotCommitted" => commit \notin Range(history)
  /\ UNCHANGED history

(* Every step of every client is such a step.  A rejected candidate is in  *)
(* no write in flight and with no writer, so no step publishes it.         *)
LEMMA LogStep ==
  ASSUME Inv, [Next]_vars
  PROVE  \/ UNCHANGED <<history, answers>>
         \/ \E commit : Publishes(commit)
         \/ \E commit, status : Reports(commit, status)
<1>1. StoreInv /\ HistoryInv /\ HeadInvariant(head) /\ AnswersInv
  BY DEF Inv, StoreInv
<1>2. CASE ~(Range(head'.tail) \subseteq Range(head.tail))
  <2>1. PICK commit :
           /\ FollowsHead(head, commit) /\ commit \notin Range(history)
           /\ history' = Append(history, commit)
           /\ Range(history') = Range(history) \cup {commit}
           /\ \/ /\ Land /\ UNCHANGED <<writers, answers>>
                 /\ \E l \in late : commit \in Range(l.head.tail)
              \/ \E w \in Writers :
                   /\ writers[w].pc # "idle" /\ commit = writers[w].commit
                   /\ answers' = answers \cup {[commit |-> commit, status |-> "Committed"]}
    BY <1>2, PublishedCommit
  <2>2. ASSUME NEW a \in answers, a.status = "NotCommitted" PROVE a.commit # commit
    <3>1. Refuted(a.commit)
      BY <1>1, <2>2 DEF AnswersInv, AnsweredInv
    <3> QED BY <2>1, <3>1, Zenon DEF Refuted
  <2>3. commit.sequence = Len(history) /\ commit.digest.expected_tip = Tip(head)
    BY <1>1, <2>1 DEF FollowsHead, HistoryInv, RetainsHistory
  <2>4. Tip(head) = IF history = <<>> THEN None ELSE Newest(history).digest
    BY <1>1, TipIsNewest
  <2>5. answers' \in {answers, answers \cup {[commit |-> commit, status |-> "Committed"]}}
    BY <2>1
  <2>6. Publishes(commit)
    BY <2>1, <2>2, <2>3, <2>4, <2>5 DEF Publishes
  <2> QED BY <2>6
<1>3. CASE Range(head'.tail) \subseteq Range(head.tail)
  <2>2. ASSUME NEW h, LegalStep(head, h), Proposes(h) PROVE UNCHANGED history
    <3>1. CASE Apply(h)
      <4>1. head' = h
        BY <3>1 DEF Apply
      <4>2. \A c \in Range(h.tail) : c \in Range(history)
        BY <1>1, <1>3, <4>1, RetainedIsPublished DEF Retained
      <4> QED BY <1>1, <2>2, <3>1, <4>2, ApplyPublishes
    <3>2. CASE Submits(h)
      BY <3>2 DEF Submits
    <3> QED BY <2>2, <3>1, <3>2 DEF Proposes
  <2>3. CASE Land /\ UNCHANGED <<writers, answers>>
    BY <1>1, <2>2, <2>3, LandProposes DEF Proposes
  <2>4. CASE /\ UNCHANGED <<writers, answers>>
             /\ \/ StoreStays
                \/ \E h : LegalStep(head, h) /\ Proposes(h)
    BY <2>2, <2>4 DEF StoreStays
  <2>5. ASSUME NEW w \in Writers, WriterActs(w)
        PROVE  \/ UNCHANGED <<history, answers>>
               \/ \E commit, status : Reports(commit, status)
    <3>1. UNCHANGED history
      BY <1>1, <2>2, <2>5, WriterEffect DEF StoreStays
    <3>2. CASE Prepares(w) \/ Carries(w)
      BY <3>1, <3>2 DEF Prepares, Carries
    <3>3. ASSUME NEW status, Settles(w, status) PROVE Reports(writers[w].commit, status)
      <4>1. CASE /\ status = "Committed" /\ FollowsHead(head, writers[w].commit)
                 /\ Apply(CandidateHead(head, writers[w].commit))
        <5>1. Range(head'.tail) = Range(head.tail) \cup {writers[w].commit}
          BY <1>1, <4>1, CandidateTail DEF Apply
        <5>2. writers[w].commit \in Range(history)
          BY <1>1, <1>3, <5>1, RetainedIsPublished DEF Retained
        <5> QED BY <3>1, <3>3, <4>1, <5>2 DEF Settles, Reports
      <4>2. CASE /\ status = "Committed" => writers[w].commit \in Retained(head)
                 /\ status = "NotCommitted" => Refutes(head, writers[w].commit)
        BY <1>1, <3>1, <3>3, <4>2, RetainedIsPublished, RefutedIsUnpublished
           DEF Settles, Reports
      <4> QED BY <3>3, <4>1, <4>2 DEF Settles
    <3> QED BY <2>5, <3>2, <3>3 DEF WriterActs
  <2> QED BY <2>3, <2>4, <2>5, StepKinds
<1> QED BY <1>2, <1>3

=============================================================================
