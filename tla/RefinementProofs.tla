-------------------------- MODULE RefinementProofs --------------------------
(***************************************************************************)
(* The clients of a log together implement what its head and its callers   *)
(* are promised, for every set of clients, every option and any number of  *)
(* operations.                                                             *)
(***************************************************************************)
EXTENDS ObjectLogRefines, ObjectLogProofs, FiniteSetTheorems

(* The abstract module's operators are the same ones.                      *)
LEMMA SameSteps ==
  ASSUME NEW h, NEW next
  PROVE  LegalStep(h, next) <=> Protocol!LegalStep(h, next)
<1>1. AppendCommit(h, next) <=> Protocol!AppendCommit(h, next)
  BY DEF AppendCommit, Protocol!AppendCommit, FollowsHead, Protocol!FollowsHead,
         ValidCommitPosition, Protocol!ValidCommitPosition, Retained, Protocol!Retained,
         Tip, Protocol!Tip, Newest, Protocol!Newest, Range, Protocol!Range,
         CandidateHead, Protocol!CandidateHead
<1>2. CoverTail(h, next) <=> Protocol!CoverTail(h, next)
  BY DEF CoverTail, Protocol!CoverTail, CheckpointHead, Protocol!CheckpointHead,
         LastN, Protocol!LastN, Range, Protocol!Range
<1>3. AcquireRetention(h, next) <=> Protocol!AcquireRetention(h, next)
  BY DEF AcquireRetention, Protocol!AcquireRetention, RetentionHead,
         Protocol!RetentionHead, Cardinality, Protocol!Cardinality
<1>4. ReleaseRetention(h, next) <=> Protocol!ReleaseRetention(h, next)
  BY DEF ReleaseRetention, Protocol!ReleaseRetention, RetentionHead,
         Protocol!RetentionHead
<1>5. ClearRetentions(h, next) <=> Protocol!ClearRetentions(h, next)
  BY DEF ClearRetentions, Protocol!ClearRetentions, RetentionHead,
         Protocol!RetentionHead
<1>6. InstallFence(h, next) <=> Protocol!InstallFence(h, next)
  BY DEF InstallFence, Protocol!InstallFence, FenceHead, Protocol!FenceHead
<1>7. ClearFence(h, next) <=> Protocol!ClearFence(h, next)
  BY DEF ClearFence, Protocol!ClearFence, UnfencedHead, Protocol!UnfencedHead
<1> QED BY <1>1, <1>2, <1>3, <1>4, <1>5, <1>6, <1>7 DEF LegalStep, Protocol!LegalStep

(* The clients together implement the head protocol: every change of the   *)
(* durable head is a legal transition from the head it replaces.           *)
THEOREM HeadProtocolIsImplemented == Spec => ImplementsHeadProtocol
<1>1. Init => head = Protocol!Empty
  BY DEF Init, StoreInit, Empty, Protocol!Empty, NoCheckpoint, Protocol!NoCheckpoint
<1>2. Inv /\ [Next]_vars => [Protocol!LegalStep(head, head')]_head
  BY NextInv, SameSteps DEF HeadStep
<1> QED BY <1>1, <1>2, InitInv, NextInv, PTL
        DEF Spec, ImplementsHeadProtocol, Protocol!HeadSpec

(* RetentionChange::apply is the only transition that adds a retention id, *)
(* and only where the durable limit leaves room.                           *)
IdsBounded(h) ==
  IsFiniteSet(h.retention_ids) /\ Cardinality(h.retention_ids) <= MaxRetentionIds

LEMMA IdsStayBounded ==
  ASSUME NEW h, NEW next, HeadInvariant(h), IdsBounded(h), LegalStep(h, next)
  PROVE  IdsBounded(next)
<1>1. IsHead(h) /\ MaxRetentionIds \in Nat
  BY OptionsAssumption DEF HeadInvariant
<1>2. Cardinality(h.retention_ids) \in Nat /\ Cardinality({}) = 0 /\ IsFiniteSet({})
  BY FS_CardinalityType, FS_EmptySet DEF IdsBounded
<1>3. CASE next.retention_ids = h.retention_ids
  BY <1>3 DEF IdsBounded
<1>4. CASE next.retention_ids = {}
  BY <1>1, <1>2, <1>4 DEF IdsBounded
<1>5. CASE AcquireRetention(h, next)
  <2>1. PICK id \in next.retention_ids \ h.retention_ids :
          next = RetentionHead(h, [kind |-> "Acquire", id |-> id])
    BY <1>5 DEF AcquireRetention
  <2>2. next.retention_ids = h.retention_ids \cup {id}
    BY <1>1, <2>1 DEF RetentionHead, IsHead
  <2>3. /\ IsFiniteSet(next.retention_ids)
        /\ Cardinality(next.retention_ids) = Cardinality(h.retention_ids) + 1
    BY <2>1, <2>2, FS_AddElement DEF IdsBounded
  <2>4. ~(Cardinality(h.retention_ids) >= MaxRetentionIds)
    BY <1>5 DEF AcquireRetention
  <2> QED BY <1>1, <1>2, <2>3, <2>4 DEF IdsBounded
<1>6. CASE ReleaseRetention(h, next)
  <2>1. PICK id \in h.retention_ids :
          next = RetentionHead(h, [kind |-> "Release", id |-> id])
    BY <1>6 DEF ReleaseRetention
  <2>2. next.retention_ids = h.retention_ids \ {id}
    BY <1>1, <2>1 DEF RetentionHead, IsHead
  <2>3. /\ IsFiniteSet(next.retention_ids)
        /\ Cardinality(next.retention_ids) = Cardinality(h.retention_ids) - 1
    BY <2>1, <2>2, FS_RemoveElement DEF IdsBounded
  <2> QED BY <1>1, <1>2, <2>3 DEF IdsBounded
<1>7. ASSUME AppendCommit(h, next) PROVE next.retention_ids = h.retention_ids
  <2>1. PICK commit : next = CandidateHead(h, commit)
    BY <1>7, Zenon DEF AppendCommit
  <2> QED BY <2>1, CandidateKeeps, Zenon
<1>8. ASSUME CoverTail(h, next) PROVE next.retention_ids = h.retention_ids
  <2>1. PICK through : next = CheckpointHead(h, through, next.checkpoint.object)
    BY <1>8, Zenon DEF CoverTail
  <2>2. PICK object : next = CheckpointHead(h, through, object)
    BY <2>1
  <2> QED BY ONLY <1>1, <2>2 DEF CheckpointHead, IsHead
<1>9. ASSUME ClearRetentions(h, next) PROVE next.retention_ids = {}
  BY <1>1, <1>9 DEF ClearRetentions, RetentionHead, IsHead
<1>10. ASSUME InstallFence(h, next) \/ ClearFence(h, next)
       PROVE  next.retention_ids = h.retention_ids
  BY <1>1, <1>10, Zenon DEF InstallFence, ClearFence, FenceHead, UnfencedHead, IsHead
<1> QED BY <1>3, <1>4, <1>5, <1>6, <1>7, <1>8, <1>9, <1>10 DEF LegalStep

(* Every head that the protocol allows passes Head::validate: each legal   *)
(* transition keeps it, so no client can be shown a head that it rejects.  *)
THEOREM ProtocolHeadsAreValid == ImplementsHeadProtocol => []HeadValid
<1> DEFINE Valid == HeadInvariant(head) /\ IdsBounded(head)
<1>1. head = Protocol!Empty => Valid
  <2>1. Protocol!Empty = Empty /\ Empty.retention_ids = {}
    BY DEF Empty, Protocol!Empty, NoCheckpoint, Protocol!NoCheckpoint
  <2> QED BY <2>1, EmptyIsValid, FS_EmptySet, OptionsAssumption DEF IdsBounded
<1>2. Valid /\ [Protocol!LegalStep(head, head')]_head => Valid'
  BY SameSteps, LegalStepKeepsHead, IdsStayBounded
<1>3. Valid => HeadValid
  BY DistinctFromPositions
     DEF HeadInvariant, HeadValid, Validate, EpochOk, ValidCollectionState, IdsBounded
<1> QED BY <1>1, <1>2, <1>3, PTL DEF ImplementsHeadProtocol, Protocol!HeadSpec

(* Every durable head passes Head::validate: no load of a log that only    *)
(* these clients write reports a corrupt head.                             *)
THEOREM HeadsAreValid == Spec => []HeadValid
BY HeadProtocolIsImplemented, ProtocolHeadsAreValid, PTL

(* One answer more, and the commits with each of the two answers.          *)
LEMMA AnswersAdd ==
  ASSUME NEW commit, NEW status,
         answers' = answers \cup {[commit |-> commit, status |-> status]}
  PROVE  /\ With("Committed")' =
              IF status = "Committed" THEN With("Committed") \cup {commit} ELSE With("Committed")
         /\ With("NotCommitted")' =
              IF status = "NotCommitted" THEN With("NotCommitted") \cup {commit}
              ELSE With("NotCommitted")
<1>1. ASSUME NEW s
      PROVE  With(s)' = IF status = s THEN With(s) \cup {commit} ELSE With(s)
  <2>1. {a \in answers' : a.status = s} =
          IF status = s THEN {a \in answers : a.status = s}
                               \cup {[commit |-> commit, status |-> status]}
          ELSE {a \in answers : a.status = s}
    OBVIOUS
  <2>2. PICK A, B : A = {a \in answers : a.status = s} /\ B = {a \in answers' : a.status = s}
    BY Zenon
  <2>3. With(s) = {a.commit : a \in A} /\ With(s)' = {a.commit : a \in B}
    BY <2>2 DEF With
  <2>4. CASE status = s
    <3>1. PICK new : new = [commit |-> commit, status |-> status] /\ B = A \cup {new}
      BY <2>1, <2>2, <2>4, Zenon
    <3>2. ASSUME NEW e PROVE e \in With(s)' <=> e \in With(s) \/ e = commit
      <4>1. e \in With(s)' <=> \E a \in B : e = a.commit
        BY <2>3
      <4>2. e \in With(s) <=> \E a \in A : e = a.commit
        BY <2>3
      <4>3. new.commit = commit
        BY <3>1
      <4>4. \A a : a \in B <=> a \in A \/ a = new
        BY <3>1
      <4> QED BY <4>1, <4>2, <4>3, <4>4
    <3>3. With(s)' \subseteq With(s) \cup {commit} /\ With(s) \cup {commit} \subseteq With(s)'
      BY <3>2
    <3>4. With(s)' = With(s) \cup {commit}
      BY <3>3
    <3> QED BY <2>4, <3>4
  <2>5. CASE status # s
    BY <2>1, <2>2, <2>3, <2>5
  <2> QED BY <2>4, <2>5
<1>2. /\ With("Committed")' =
           IF status = "Committed" THEN With("Committed") \cup {commit} ELSE With("Committed")
      /\ With("NotCommitted")' =
           IF status = "NotCommitted" THEN With("NotCommitted") \cup {commit}
           ELSE With("NotCommitted")
  BY <1>1
<1> QED BY <1>2

(* The writers implement the append-only log that their callers are        *)
(* promised: every commit is published on the one it was prepared on,      *)
(* Committed is said of published commits only, and a commit once said not *)
(* to be committed is never published, whatever was lost or came late.     *)
THEOREM AbstractLogIsImplemented == Spec => ImplementsAbstractLog
<1>1. Init => history = <<>> /\ With("Committed") = {} /\ With("NotCommitted") = {}
  BY DEF Init, StoreInit, CommitsInit, With
<1>2. ASSUME Inv, [Next]_vars
      PROVE  [Promised!Publish \/ Promised!Accept \/ Promised!Reject]_
               <<history, With("Committed"), With("NotCommitted")>>
  <2>1. CASE UNCHANGED <<history, answers>>
    BY <2>1 DEF With
  <2>2. ASSUME NEW commit, Publishes(commit) PROVE Promised!Publish
    <3>1. commit \notin With("NotCommitted")
      BY <2>2 DEF Publishes, With
    <3>2. /\ With("Committed")' \in {With("Committed"), With("Committed") \cup {commit}}
          /\ UNCHANGED With("NotCommitted")
      <4>1. CASE UNCHANGED answers
        BY <4>1 DEF With
      <4>2. CASE answers' = answers \cup {[commit |-> commit, status |-> "Committed"]}
        BY <4>2, AnswersAdd
      <4> QED BY <2>2, <4>1, <4>2 DEF Publishes
    <3> QED BY <2>2, <3>1, <3>2
            DEF Publishes, Promised!Publish, Promised!TipOf, Newest,
                Promised!Range, Range
  <2>3. ASSUME NEW commit, NEW status, Reports(commit, status)
        PROVE  \/ Promised!Accept \/ Promised!Reject
               \/ UNCHANGED <<history, With("Committed"), With("NotCommitted")>>
    <3>1. /\ With("Committed")' =
               IF status = "Committed" THEN With("Committed") \cup {commit}
               ELSE With("Committed")
          /\ With("NotCommitted")' =
               IF status = "NotCommitted" THEN With("NotCommitted") \cup {commit}
               ELSE With("NotCommitted")
      BY <2>3, AnswersAdd DEF Reports
    <3>2. CASE status = "Committed"
      BY <2>3, <3>1, <3>2 DEF Reports, Promised!Accept, Promised!Range, Range
    <3>3. CASE status = "NotCommitted"
      BY <2>3, <3>1, <3>3 DEF Reports, Promised!Reject, Promised!Range, Range
    <3>4. CASE status \notin {"Committed", "NotCommitted"}
      BY <2>3, <3>1, <3>4 DEF Reports
    <3> QED BY <3>2, <3>3, <3>4
  <2> QED BY <1>2, <2>1, <2>2, <2>3, LogStep
<1> QED BY <1>1, <1>2, InitInv, NextInv, PTL
        DEF Spec, ImplementsAbstractLog, Promised!LogSpec

=============================================================================
