----------------------------- MODULE FenceProofs ----------------------------
(***************************************************************************)
(* Every head that a collector proposes is legal from the view it is       *)
(* written from: a fence is installed only over no retention, and only a   *)
(* fence is cleared.  And a fence falls only when its plan was swept.      *)
(***************************************************************************)
EXTENDS Fences, HeadStoreProofs, TLAPS

(* Before it writes a plan, a collector of Collection marks and lists.     *)
HasPlan(me) == me.pc \notin {"idle", "mark", "list"}

(* A collector installs over no fence and no retention, and clears a fence *)
(* that its view has.                                                      *)
CollectorOk(me, h, n) ==
  /\ me = [pc |-> me.pc, plan |-> me.plan, view |-> me.view, attempt |-> me.attempt]
  /\ ViewOf(me.view, h, n)
  /\ me.pc \in {"idle", "mark", "list", "install", "reload", "fenced", "read", "missing",
                "delete", "clear", "clearReload", "cleanup"}
  /\ me.attempt \in Attempts
  /\ HasPlan(me) => me.plan # None
  /\ me.pc \in {"mark", "list", "install"} => me.view.head.active_plan = None
                                               /\ me.view.head.retention_ids = {}
  /\ me.pc \in {"read", "missing", "delete", "clear", "clearReload"} =>
       me.view.head.active_plan = me.plan

CollectorsInv ==
  /\ collectors = [c \in Collectors |-> collectors[c]]
  /\ \A c \in Collectors : CollectorOk(collectors[c], head, version)

(* The head that start_collection installs is a legal transition.          *)
LEMMA InstallIsLegal ==
  ASSUME NEW h, HeadInvariant(h), NEW plan, plan # None,
         h.active_plan = None, h.retention_ids = {}
  PROVE  LegalStep(h, FenceHead(h, plan))
<1>0. PICK next : next = FenceHead(h, plan)
  OBVIOUS
<1>1. next.active_plan = plan
  BY <1>0 DEF FenceHead, HeadInvariant, IsHead
<1>2. InstallFence(h, next)
  BY <1>0, <1>1 DEF InstallFence
<1> QED BY <1>0, <1>2 DEF LegalStep

(* A collector that does not act keeps its promise.                        *)
LEMMA CollectorsStay ==
  ASSUME StoreInv, HeadStep, CollectorsInv, UNCHANGED collectors
  PROVE  CollectorsInv'
<1>1. ASSUME NEW c \in Collectors PROVE CollectorOk(collectors[c], head', version')
  BY ViewsStay DEF CollectorsInv, CollectorOk
<1> QED BY <1>1 DEF CollectorsInv, CollectorOk

(* One collector moves to a state that keeps it.                           *)
LEMMA CollectorMoves ==
  ASSUME StoreInv, HeadStep, CollectorsInv, NEW c \in Collectors, NEW state,
         CollectorBecomes(c, state), CollectorOk(state, head', version')
  PROVE  CollectorsInv'
<1>1. ASSUME NEW d \in Collectors PROVE CollectorOk(collectors[d], head', version')
  BY ViewsStay DEF CollectorsInv, CollectorOk
<1>2. /\ collectors' = [d \in Collectors |-> collectors'[d]]
      /\ \A d \in Collectors : collectors'[d] = IF d = c THEN state ELSE collectors[d]
  BY DEF CollectorsInv, CollectorBecomes
<1>3. \A d \in Collectors : CollectorOk(collectors'[d], head', version')
  BY <1>1, <1>2
<1> QED BY <1>2, <1>3 DEF CollectorsInv, CollectorOk

(* The ways in which a call of a collector ends.                           *)
LEMMA CollectorCallEnds ==
  ASSUME StoreInv, HeadStep, CollectorsInv, NEW c \in Collectors, NEW plan,
         \/ CollectorBecomes(c, IdleCollector)
         \/ HoldFence(c, plan) /\ plan # None
         \/ FinishWithCleanup(c) /\ HasPlan(collectors[c])
  PROVE  CollectorsInv'
<1> USE DEF HasPlan
<1>1. ViewOf(NoView, head', version')
  BY ViewsStay DEF StoreInv
<1>2. CASE CollectorBecomes(c, IdleCollector)
  <2>1. CollectorOk(IdleCollector, head', version')
    BY <1>1, LoopAttempts DEF CollectorOk, IdleCollector
  <2> QED BY <1>2, <2>1, CollectorMoves
<1>3. CASE HoldFence(c, plan) /\ plan # None
  <2>0. PICK state : state = [IdleCollector EXCEPT !.pc = "fenced", !.plan = plan]
    OBVIOUS
  <2>1. CollectorOk(state, head', version')
    BY <1>1, <1>3, <2>0, LoopAttempts, Zenon DEF CollectorOk, IdleCollector
  <2> QED BY <1>3, <2>0, <2>1, CollectorMoves DEF HoldFence
<1>4. CASE FinishWithCleanup(c) /\ HasPlan(collectors[c])
  <2>0. PICK state : state = [IdleCollector EXCEPT !.pc = "cleanup",
                                                   !.plan = collectors[c].plan]
    OBVIOUS
  <2>1. collectors[c].plan # None
    BY <1>4 DEF CollectorsInv, CollectorOk
  <2>2. CollectorOk(state, head', version')
    BY <1>1, <2>0, <2>1, LoopAttempts, Zenon DEF CollectorOk, IdleCollector
  <2> QED BY <1>4, <2>0, <2>2, CollectorMoves DEF FinishWithCleanup
<1> QED BY <1>2, <1>3, <1>4

(* Every step of a collector makes the head take a legal step or none.     *)
LEMMA CollectorKeeps ==
  ASSUME StoreInv, CollectorsInv, NEW c \in Collectors, CollectorStep(c)
  PROVE  StoreInv' /\ HeadStep /\ CollectorsInv'
<1> USE DEF HasPlan
<1> DEFINE me == collectors[c]
<1>1. CollectorOk(me, head, version) /\ c \in Clients
  BY CollectorsAssumption DEF CollectorsInv
<1>2. ViewOf(NoView, head, version) /\ ViewOf(Observed, head, version)
  BY ObservedIsView DEF StoreInv
<1>3. ASSUME UNCHANGED storeVars PROVE StoreInv' /\ HeadStep /\ UNCHANGED <<head, version>>
  BY <1>3, QuietKeepsStore DEF StoreInv, storeVars
<1> HIDE DEF me
<1>4. ASSUME NEW state, UNCHANGED storeVars, CollectorBecomes(c, state),
             CollectorOk(state, head, version)
      PROVE  StoreInv' /\ HeadStep /\ CollectorsInv'
  BY <1>3, <1>4, CollectorMoves
<1>5. ASSUME NEW plan, UNCHANGED storeVars,
             \/ CollectorBecomes(c, IdleCollector)
             \/ HoldFence(c, plan) /\ plan # None
             \/ FinishWithCleanup(c) /\ HasPlan(me)
      PROVE  StoreInv' /\ HeadStep /\ CollectorsInv'
  BY <1>3, <1>5, CollectorCallEnds DEF me
<1>6. ASSUME me.pc = "install"
      PROVE  ViewOf(me.view, head, version) /\ LegalStep(me.view.head, Fenced(c))
  BY <1>1, <1>6, InstallIsLegal, Zenon DEF CollectorOk, Fenced, ViewOf, me
<1>7. ASSUME me.pc = "clear"
      PROVE  ViewOf(me.view, head, version) /\ LegalStep(me.view.head, Unfenced(c))
  BY <1>1, <1>7, Zenon DEF CollectorOk, Unfenced, ViewOf, LegalStep, ClearFence, me
<1>8. ASSUME NEW pc \in {"reload", "clearReload", "delete", "clear", "missing"},
             NEW state, state = [me EXCEPT !.pc = pc],
             \/ me.pc \in {"read", "delete", "clear"}
             \/ me.pc = "install" /\ pc = "reload"
      PROVE  CollectorOk(state, head, version)
  BY <1>1, <1>8 DEF CollectorOk
<1>9. CASE StartCollection(c)
  <2>0. PICK plan, state : /\ plan = Fresh(c)
                           /\ state = [IdleCollector EXCEPT !.pc = "install",
                                         !.plan = plan, !.view = Observed]
    BY Zenon
  <2>1. StoreInv' /\ HeadStep /\ UNCHANGED <<head, version>> /\ plan # None
    BY <1>1, <1>9, <2>0, DrawnIdentity, QuietKeepsStore DEF StartCollection
  <2>2. Observed.head.active_plan = None /\ Observed.head.retention_ids = {}
    BY <1>9 DEF StartCollection, Observed
  <2>3. CollectorOk(state, head, version)
    BY <1>2, <2>0, <2>1, <2>2, LoopAttempts, Zenon DEF CollectorOk, IdleCollector
  <2>4. CollectorBecomes(c, state)
    BY <1>9, <2>0 DEF StartCollection
  <2> QED BY <2>1, <2>3, <2>4, CollectorMoves
<1>10. CASE TakeUpCollection(c)
  BY <1>5, <1>10 DEF TakeUpCollection
<1>11. CASE InstallApplied(c)
  <2>1. /\ me.pc = "install" /\ UpdateApplied(me.view, Fenced(c)) /\ UNCHANGED quota
        /\ HoldFence(c, me.plan) /\ me.plan # None
    BY <1>1, <1>11 DEF InstallApplied, CollectorOk, me
  <2>2. StoreInv' /\ HeadStep
    BY <1>6, <2>1, UpdateKeepsStore
  <2> QED BY <2>1, <2>2, CollectorCallEnds
<1>12. CASE InstallRejected(c)
  <2>0. PICK state : state = [me EXCEPT !.pc = "reload"]
    BY Zenon
  <2>1. /\ me.pc = "install" /\ UpdateInFlight(me.view, Fenced(c)) /\ UNCHANGED quota
        /\ CollectorBecomes(c, state)
    BY <1>12, <2>0 DEF InstallRejected, me
  <2>2. StoreInv' /\ HeadStep /\ UNCHANGED <<head, version>>
    BY <1>6, <2>1, UpdateKeepsStore DEF UpdateInFlight
  <2>3. CollectorOk(state, head, version)
    BY <1>8, <2>0, <2>1
  <2> QED BY <2>1, <2>2, <2>3, CollectorMoves
<1>13. CASE InstallUncertain(c)
  <2>1. /\ me.pc = "install" /\ UpdateInFlight(me.view, Fenced(c)) /\ UNCHANGED quota
        /\ CollectorBecomes(c, IdleCollector)
    BY <1>13 DEF InstallUncertain, me
  <2>2. StoreInv' /\ HeadStep
    BY <1>6, <2>1, UpdateKeepsStore
  <2> QED BY <2>1, <2>2, CollectorCallEnds
<1>14. CASE InstallReload(c)
  <2>1. me.pc = "reload" /\ me.plan # None /\ UNCHANGED storeVars
    BY <1>1, <1>14 DEF InstallReload, CollectorOk, me
  <2>2. \/ HoldFence(c, me.plan) \/ CollectorBecomes(c, IdleCollector)
        \/ FinishWithCleanup(c)
    BY <1>14 DEF InstallReload, me
  <2> QED BY <1>5, <2>1, <2>2
<1>15. CASE StartFails(c)
  BY <1>5, <1>15 DEF StartFails
<1>16. CASE ResumeCollection(c)
  <2>0. PICK state : state = [me EXCEPT !.pc = "read", !.view = Observed]
    OBVIOUS
  <2>1. me.pc = "fenced" /\ me.plan # None /\ UNCHANGED storeVars
    BY <1>1, <1>16 DEF ResumeCollection, CollectorOk, me
  <2>2. \/ FinishWithCleanup(c) \/ CollectorBecomes(c, IdleCollector)
        \/ head.active_plan = me.plan /\ CollectorBecomes(c, state)
    BY <1>16, <2>0, Zenon DEF ResumeCollection, me
  <2>3. CASE head.active_plan = me.plan /\ CollectorBecomes(c, state)
    <3>1. Observed.head.active_plan = me.plan
      BY <2>3 DEF Observed
    <3>2. CollectorOk(state, head, version)
      BY <1>1, <1>2, <2>0, <2>1, <3>1, Zenon DEF CollectorOk
    <3> QED BY <1>4, <2>1, <2>3, <3>2
  <2> QED BY <1>5, <2>1, <2>2, <2>3
<1>17. CASE ReadPlan(c)
  <2>1. PICK pc \in {"delete", "missing"} :
          CollectorBecomes(c, [me EXCEPT !.pc = pc]) /\ UNCHANGED storeVars
    BY <1>17 DEF ReadPlan, me
  <2>2. PICK state : state = [me EXCEPT !.pc = pc]
    BY Zenon
  <2>3. CollectorOk(state, head, version)
    BY <1>8, <1>17, <2>2 DEF ReadPlan, me
  <2> QED BY <1>4, <2>1, <2>2, <2>3
<1>18. CASE ExplainMissingPlan(c)
  BY <1>5, <1>18 DEF ExplainMissingPlan
<1>19. CASE DeleteBatches(c)
  <2>0. PICK state : state = [me EXCEPT !.pc = "clear", !.attempt = 0]
    OBVIOUS
  <2>1. me.pc = "delete" /\ CollectorBecomes(c, state) /\ UNCHANGED storeVars
    BY <1>19, <2>0 DEF DeleteBatches, me
  <2>2. CollectorOk(state, head, version)
    BY <1>1, <2>0, <2>1, LoopAttempts, Zenon DEF CollectorOk
  <2> QED BY <1>4, <2>1, <2>2
<1>20. CASE ResumeFails(c)
  <2>1. HoldFence(c, me.plan) /\ me.plan # None /\ UNCHANGED storeVars
    BY <1>1, <1>20, Zenon DEF ResumeFails, CollectorOk, me
  <2> QED BY <1>5, <2>1
<1>21. CASE ClearApplied(c)
  <2>1. /\ me.pc = "clear" /\ UpdateApplied(me.view, Unfenced(c)) /\ UNCHANGED quota
        /\ FinishWithCleanup(c)
    BY <1>21 DEF ClearApplied, me
  <2>2. StoreInv' /\ HeadStep
    BY <1>7, <2>1, UpdateKeepsStore
  <2> QED BY <2>1, <2>2, CollectorCallEnds DEF me
<1>22. CASE ClearRejected(c)
  <2>0. PICK state : state = [me EXCEPT !.pc = "clearReload"]
    BY Zenon
  <2>1. /\ me.pc = "clear" /\ UpdateInFlight(me.view, Unfenced(c)) /\ UNCHANGED quota
        /\ CollectorBecomes(c, state)
    BY <1>22, <2>0 DEF ClearRejected, me
  <2>2. StoreInv' /\ HeadStep /\ UNCHANGED <<head, version>>
    BY <1>7, <2>1, UpdateKeepsStore DEF UpdateInFlight
  <2>3. CollectorOk(state, head, version)
    BY <1>8, <2>0, <2>1
  <2> QED BY <2>1, <2>2, <2>3, CollectorMoves
<1>23. CASE ClearUncertain(c)
  <2>1. /\ me.pc = "clear" /\ UpdateInFlight(me.view, Unfenced(c)) /\ UNCHANGED quota
        /\ HoldFence(c, me.plan) /\ me.plan # None
    BY <1>1, <1>23 DEF ClearUncertain, CollectorOk, me
  <2>2. StoreInv' /\ HeadStep
    BY <1>7, <2>1, UpdateKeepsStore
  <2> QED BY <2>1, <2>2, CollectorCallEnds, Zenon
<1>24. CASE ClearReload(c)
  <2>0. PICK state : state = [me EXCEPT !.pc = "clear", !.view = Observed,
                                        !.attempt = me.attempt + 1]
    OBVIOUS
  <2>1. me.pc = "clearReload" /\ me.plan # None /\ UNCHANGED storeVars
    BY <1>1, <1>24 DEF ClearReload, CollectorOk, me
  <2>2. \/ HoldFence(c, me.plan) \/ FinishWithCleanup(c)
        \/ CollectorBecomes(c, IdleCollector)
        \/ /\ head.active_plan = me.plan /\ me.attempt + 1 # MaxAttempts
           /\ CollectorBecomes(c, state)
    BY <1>24, <2>0 DEF ClearReload, me
  <2>3. CASE /\ head.active_plan = me.plan /\ me.attempt + 1 # MaxAttempts
           /\ CollectorBecomes(c, state)
    <3>0. me.attempt + 1 \in Attempts
      BY <1>1, <2>3, LoopAttempts DEF CollectorOk
    <3>1. CollectorOk(state, head, version)
      BY <1>1, <1>2, <2>0, <2>1, <2>3, <3>0, Zenon DEF CollectorOk, Observed
    <3> QED BY <1>4, <2>1, <2>3, <3>1
  <2> QED BY <1>5, <2>1, <2>2, <2>3, Zenon
<1>25. CASE CleanupPlan(c)
  BY <1>5, <1>25 DEF CleanupPlan
<1>26. CASE CollectorCrash(c)
  BY <1>5, <1>26 DEF CollectorCrash
<1> QED BY <1>9, <1>10, <1>11, <1>12, <1>13, <1>14, <1>15, <1>16, <1>17, <1>18, <1>19,
           <1>20, <1>21, <1>22, <1>23, <1>24, <1>25, <1>26 DEF CollectorStep

-----------------------------------------------------------------------------
(* What the plan objects rest on.  A plan is spent once no write in flight *)
(* would still install it, and retired once the head has dropped it too:   *)
(* only then is its object removed.                                        *)
Spent(plan) == \A l \in late : l.head.active_plan = plan => head.active_plan = plan

Retired(plan) == head.active_plan # plan /\ Spent(plan)

PlanOk(me) ==
  /\ HasPlan(me) => Drawn(Collectors, me.plan, quota)
  /\ me.pc = "install" =>
       /\ me.view.version = version => me.plan \in plans
       /\ me.plan \notin swept /\ me.plan # head.active_plan
       /\ \A l \in late : l.head.active_plan # me.plan
  /\ me.pc = "reload" => me.view.version = version \/ Spent(me.plan)
  /\ me.pc \in {"fenced", "read", "missing", "delete", "clear", "clearReload"} =>
       Spent(me.plan)
  /\ me.pc = "cleanup" => Retired(me.plan)
  /\ me.pc = "missing" => me.plan \notin plans
  /\ me.pc \in {"clear", "clearReload"} => me.plan \in swept

(* A fence in the head, or in a head in flight, has its plan object; a     *)
(* write in flight that drops the fence comes after a sweep.               *)
FencesInv ==
  /\ head.active_plan # None => head.active_plan \in plans
  /\ \A plan \in plans \cup swept : Drawn(Collectors, plan, quota)
  /\ \A l \in late :
       /\ l.head.active_plan \notin {None, head.active_plan} => l.head.active_plan \in plans
       /\ head.active_plan \notin {None, l.head.active_plan} => head.active_plan \in swept
  /\ "Corrupt" \notin planErrors

(* A plan that is being installed is known to its collector only.          *)
InstallsInv ==
  \A c, d \in Collectors :
    c # d /\ collectors[c].pc = "install" /\ HasPlan(collectors[d]) =>
      collectors[d].plan # collectors[c].plan

PlansInv ==
  FencesInv /\ InstallsInv /\ \A c \in Collectors : PlanOk(collectors[c])

(* A fence leaves the head after a sweep of its plan.                      *)
FenceFalls ==
  head.active_plan # None /\ head'.active_plan # head.active_plan =>
    head.active_plan \in swept

(* The plan identities that collectors drew stay drawn, and none is None.  *)
LEMMA PlanIdentities ==
  ASSUME StoreInv, QuotaFalls, NEW id, Drawn(Collectors, id, quota)
  PROVE  Drawn(Collectors, id, quota') /\ id # None
BY DrawnStays, DrawnOnce, CollectorsAssumption DEF Drawn

(* A collector that does not act, while the head stays, changes or is      *)
(* about to: no step gives it a plan that another collector installs.      *)
LEMMA PlanOkStays ==
  ASSUME StoreInv, NEW me, PlanOk(me), QuotaFalls, swept \subseteq swept',
         me.pc = "install" =>
           (me.view.version = version' => me.plan \in plans') /\ me.plan \notin swept',
         me.pc = "missing" => me.plan \notin plans',
         \/ StoreStays
         \/ \E h : /\ Proposes(h)
                   /\ HasPlan(me) =>
                        \/ h.active_plan # me.plan
                        \/ h.active_plan = head.active_plan
                        \/ me.pc = "reload" /\ Apply(h)
  PROVE  PlanOk(me)'
<1> USE DEF HasPlan
<1>1. HasPlan(me) => Drawn(Collectors, me.plan, quota')
  BY PlanIdentities DEF PlanOk
<1>2. CASE StoreStays
  BY <1>1, <1>2 DEF StoreStays, PlanOk, Spent, Retired
<1>3. ASSUME NEW h, Submits(h),
             HasPlan(me) => h.active_plan # me.plan \/ h.active_plan = head.active_plan
      PROVE  PlanOk(me)'
  <2>1. /\ UNCHANGED <<head, version>>
        /\ \A l \in late' : l \in late \/ l.head = h
    BY <1>3 DEF Submits
  <2>2. ASSUME Spent(me.plan), HasPlan(me) PROVE Spent(me.plan)'
    BY <1>3, <2>1, <2>2 DEF Spent
  <2>3. me.pc = "install" =>
          /\ me.plan # head'.active_plan
          /\ \A l \in late' : l.head.active_plan # me.plan
    BY <1>3, <2>1 DEF PlanOk
  <2>4. Retired(me.plan) /\ HasPlan(me) => Retired(me.plan)'
    BY <2>1, <2>2 DEF Retired
  <2>5. me.view.version = version => me.view.version = version'
    BY <2>1
  <2> QED BY <1>1, <2>2, <2>3, <2>4, <2>5, Zenon DEF PlanOk
<1>4. ASSUME NEW h, Apply(h),
             HasPlan(me) => \/ h.active_plan # me.plan \/ h.active_plan = head.active_plan
                            \/ me.pc = "reload"
      PROVE  PlanOk(me)'
  <2>1. head' = h /\ late' = {}
    BY <1>4 DEF Apply, StoreInv
  <2>2. Spent(me.plan)'
    BY <2>1 DEF Spent
  <2>3. me.pc = "install" => me.plan # head'.active_plan
    BY <1>4, <2>1 DEF PlanOk
  <2>4. me.pc = "cleanup" => Retired(me.plan)'
    BY <1>4, <2>1, <2>2 DEF Retired, PlanOk
  <2> QED BY <1>1, <2>1, <2>2, <2>3, <2>4, Zenon DEF PlanOk
<1>5. ASSUME NEW h, Proposes(h),
             HasPlan(me) =>
               \/ h.active_plan # me.plan
               \/ h.active_plan = head.active_plan
               \/ me.pc = "reload" /\ Apply(h)
      PROVE  PlanOk(me)'
  <2>1. ~(Apply(h) /\ Submits(h))
    BY DEF Apply, Submits, StoreInv
  <2> QED BY <1>3, <1>4, <1>5, <2>1 DEF Proposes
<1> QED BY <1>2, <1>5

(* Steps of the other clients, which change no fence.                      *)
LEMMA PlansStay ==
  ASSUME StoreInv, CollectorsInv, PlansInv, QuotaFalls, UNCHANGED collectorVars,
         \/ StoreStays
         \/ \E h : /\ LegalStep(head, h) /\ Proposes(h)
                   /\ h.active_plan = head.active_plan
  PROVE  PlansInv' /\ FenceFalls
<1> USE DEF HasPlan
<1>0. UNCHANGED <<collectors, plans, swept, planErrors>>
  BY DEF collectorVars
<1>1. ASSUME NEW c \in Collectors PROVE PlanOk(collectors[c])'
  <2>1. PICK me : me = collectors[c]
    OBVIOUS
  <2>2. PlanOk(me)
    BY <2>1 DEF PlansInv
  <2>3. \/ StoreStays
        \/ \E h : Proposes(h) /\ h.active_plan = head.active_plan
    OBVIOUS
  <2>4. me.pc = "install" =>
          (me.view.version = version' => me.plan \in plans') /\ me.plan \notin swept'
    <3>1. ViewOf(me.view, head, version)
      BY <2>1 DEF CollectorsInv, CollectorOk
    <3>2. version' = version \/ version' = version + 1
      BY DEF StoreStays, Proposes, Apply, Submits
    <3> QED BY <1>0, <2>2, <3>1, <3>2 DEF PlanOk, ViewOf, StoreInv
  <2>5. PlanOk(me)'
    BY <1>0, <2>2, <2>3, <2>4, PlanOkStays, Zenon DEF PlanOk
  <2> QED BY <1>0, <2>1, <2>5
<1>2. InstallsInv'
  BY <1>0 DEF PlansInv, InstallsInv
<1>3. \A plan \in plans \cup swept : Drawn(Collectors, plan, quota')
  BY PlanIdentities, Zenon DEF PlansInv, FencesInv
<1>4. head'.active_plan = head.active_plan
  BY DEF StoreStays, Proposes, Apply, Submits
<1>5. \A l \in late' : l \in late \/ l.head.active_plan = head.active_plan
  BY DEF StoreStays, Proposes, Apply, Submits, StoreInv
<1>6. FencesInv'
  BY <1>0, <1>3, <1>4, <1>5 DEF PlansInv, FencesInv
<1> QED BY <1>1, <1>2, <1>4, <1>6 DEF PlansInv, FenceFalls

(* A write in flight takes effect.                                         *)
LEMMA LandKeepsPlans ==
  ASSUME StoreInv, CollectorsInv, PlansInv, Land, UNCHANGED collectorVars
  PROVE  PlansInv' /\ FenceFalls
<1> USE DEF HasPlan
<1>0. UNCHANGED <<collectors, plans, swept, planErrors>>
  BY DEF collectorVars
<1>1. PICK w \in late : LegalStep(head, w.head) /\ Apply(w.head)
  BY LandProposes
<1>2. QuotaFalls /\ quota' = quota
  BY QuotaStays DEF Land
<1>3. head' = w.head /\ late' = {}
  BY <1>1 DEF Apply, StoreInv
<1>4. ASSUME NEW c \in Collectors PROVE PlanOk(collectors[c])'
  <2>1. PICK me, h : me = collectors[c] /\ h = w.head
    OBVIOUS
  <2>2. PlanOk(me)
    BY <2>1 DEF PlansInv
  <2>3. /\ Proposes(h)
        /\ HasPlan(me) => \/ h.active_plan # me.plan \/ h.active_plan = head.active_plan
                          \/ me.pc = "reload" /\ Apply(h)
    <3>1. Proposes(h) /\ Apply(h)
      BY <1>1, <2>1 DEF Proposes
    <3>2. \/ ~HasPlan(me) \/ me.pc = "reload"
          \/ h.active_plan # me.plan \/ h.active_plan = head.active_plan
      <4>1. me.pc \in {"idle", "mark", "list", "install", "reload", "fenced", "read",
                       "missing", "delete", "clear", "clearReload", "cleanup"}
        BY <2>1 DEF CollectorsInv, CollectorOk
      <4> QED BY <2>1, <2>2, <4>1 DEF PlanOk, Retired, Spent
    <3> QED BY <3>1, <3>2
  <2>4. me.pc = "install" =>
          (me.view.version = version' => me.plan \in plans') /\ me.plan \notin swept'
    <3>1. ViewOf(me.view, head, version)
      BY <2>1 DEF CollectorsInv, CollectorOk
    <3> QED BY <1>0, <1>1, <2>2, <3>1 DEF PlanOk, ViewOf, StoreInv, Apply
  <2>5. PlanOk(me)'
    BY <1>0, <1>2, <2>2, <2>3, <2>4, PlanOkStays, Zenon DEF PlanOk
  <2> QED BY <1>0, <2>1, <2>5
<1>5. InstallsInv'
  BY <1>0 DEF PlansInv, InstallsInv
<1>6. FencesInv'
  BY <1>0, <1>2, <1>3, Zenon DEF PlansInv, FencesInv
<1>7. FenceFalls
  BY <1>3 DEF PlansInv, FencesInv, FenceFalls
<1> QED BY <1>4, <1>5, <1>6, <1>7 DEF PlansInv

(* One collector moves; the others do not notice.                          *)
LEMMA PlansMove ==
  ASSUME StoreInv, CollectorsInv, PlansInv, QuotaFalls, NEW c \in Collectors, NEW state,
         CollectorBecomes(c, state), PlanOk(state)', FencesInv', swept \subseteq swept',
         \A d \in Collectors \ {c} : HasPlan(collectors[d]) =>
           /\ collectors[d].pc = "install" =>
                /\ collectors[d].view.version = version' => collectors[d].plan \in plans'
                /\ collectors[d].plan \notin swept'
                /\ HasPlan(state) => state.plan # collectors[d].plan
           /\ collectors[d].pc = "missing" => collectors[d].plan \notin plans'
           /\ state.pc = "install" => collectors[d].plan # state.plan,
         \/ StoreStays
         \/ \E h : /\ Proposes(h)
                   /\ \A d \in Collectors \ {c} : HasPlan(collectors[d]) =>
                        \/ h.active_plan # collectors[d].plan
                        \/ h.active_plan = head.active_plan
  PROVE  PlansInv'
<1> USE DEF HasPlan
<1>1. \A d \in Collectors : collectors'[d] = IF d = c THEN state ELSE collectors[d]
  BY DEF CollectorsInv, CollectorBecomes
<1>2. ASSUME NEW d \in Collectors PROVE PlanOk(collectors[d])'
  <2>1. CASE d = c
    BY <1>1, <2>1
  <2>2. CASE d # c
    <3>1. PICK me : me = collectors[d]
      OBVIOUS
    <3>2. PlanOk(me)
      BY <3>1 DEF PlansInv
    <3>3. \/ StoreStays
          \/ \E h : /\ Proposes(h)
                    /\ HasPlan(me) => \/ h.active_plan # me.plan
                                      \/ h.active_plan = head.active_plan
      BY <2>2, <3>1
    <3>4. /\ me.pc = "install" =>
                /\ me.view.version = version' => me.plan \in plans'
                /\ me.plan \notin swept'
          /\ me.pc = "missing" => me.plan \notin plans'
      BY <2>2, <3>1
    <3>5. PlanOk(me)'
      BY <3>2, <3>3, <3>4, PlanOkStays, Zenon
    <3> QED BY <1>1, <2>2, <3>1, <3>5
  <2> QED BY <2>1, <2>2
<1>3. ASSUME NEW d \in Collectors, NEW e \in Collectors, d # e,
             collectors'[d].pc = "install", HasPlan(collectors'[e])
      PROVE  collectors'[e].plan # collectors'[d].plan
  <2>1. CASE d = c
    BY <1>1, <1>3, <2>1
  <2>2. CASE e = c
    BY <1>1, <1>3, <2>2
  <2>3. CASE d # c /\ e # c
    BY <1>1, <1>3, <2>3, Zenon DEF PlansInv, InstallsInv
  <2> QED BY <2>1, <2>2, <2>3
<1> QED BY <1>2, <1>3 DEF PlansInv, InstallsInv

(* What a collector does to the head.                                      *)
FencesMove ==
  \/ StoreStays
  \/ \E h : Proposes(h) /\ (InstallFence(head, h) \/ ClearFence(head, h))

(* Every step of a collector keeps the plans, and draws, fences or clears. *)
LEMMA CollectorKeepsPlans ==
  ASSUME StoreInv, CollectorsInv, PlansInv, NEW c \in Collectors, CollectorStep(c)
  PROVE  PlansInv' /\ FenceFalls /\ FencesMove /\ QuotaFalls
<1> USE DEF HasPlan
<1>0. PICK me : me = collectors[c]
  OBVIOUS
<1> DEFINE Goal == PlansInv' /\ FenceFalls /\ FencesMove /\ QuotaFalls
<1>1. /\ CollectorOk(me, head, version) /\ c \in Clients /\ Collectors \subseteq Clients
      /\ FencesInv /\ InstallsInv /\ PlanOk(me) /\ HeadInvariant(head)
  BY <1>0, CollectorsAssumption DEF CollectorsInv, PlansInv, StoreInv
<1>2. ASSUME NEW d \in Collectors \ {c}
      PROVE  /\ PlanOk(collectors[d])
             /\ collectors[d].pc = "install" /\ HasPlan(me) => collectors[d].plan # me.plan
             /\ HasPlan(collectors[d]) /\ me.pc = "install" => collectors[d].plan # me.plan
  BY <1>0 DEF PlansInv, InstallsInv
<1>3. ASSUME NEW d \in Collectors \ {c}, HasPlan(collectors[d])
      PROVE  /\ Drawn(Collectors, collectors[d].plan, quota)
             /\ collectors[d].pc = "install" =>
                  /\ collectors[d].view.version = version => collectors[d].plan \in plans
                  /\ collectors[d].view.version # version + 1
                  /\ collectors[d].plan \notin swept
                  /\ collectors[d].plan # head.active_plan
             /\ collectors[d].pc = "missing" => collectors[d].plan \notin plans
  <2>1. ViewOf(collectors[d].view, head, version)
    BY <1>3 DEF CollectorsInv, CollectorOk
  <2>2. collectors[d].view.version # version + 1
    BY <2>1 DEF ViewOf, StoreInv
  <2> QED BY <1>2, <1>3, <2>2, Zenon DEF PlanOk
<1>4. ASSUME UNCHANGED storeVars
      PROVE  /\ UNCHANGED <<head, version, late, quota>> /\ StoreStays /\ QuotaFalls
             /\ FenceFalls /\ FencesMove
  BY <1>4, QuotaStays DEF storeVars, StoreStays, FenceFalls, FencesMove
<1> SUFFICES Goal
  OBVIOUS
<1> HIDE DEF Goal
(* Calls that change neither the head nor a plan.                          *)
<1>5. ASSUME NEW state, CollectorBecomes(c, state), UNCHANGED storeVars, KeepPlans,
             PlanOk(state), state.pc # "install",
             \/ state.pc = "idle"
             \/ HasPlan(me) /\ state.plan = me.plan
             \/ state.plan = head.active_plan
      PROVE  Goal
  <2>1. UNCHANGED <<head, version, late, quota, plans, swept, planErrors>>
        /\ StoreStays /\ QuotaFalls /\ FenceFalls /\ FencesMove
    BY <1>4, <1>5 DEF KeepPlans
  <2>2. PlanOk(state)'
    BY <1>5, <2>1 DEF PlanOk, Spent, Retired
  <2>3. FencesInv'
    BY <1>1, <2>1, Zenon DEF FencesInv
  <2>4. \A d \in Collectors \ {c} : HasPlan(collectors[d]) =>
           /\ collectors[d].pc = "install" =>
                /\ collectors[d].view.version = version' => collectors[d].plan \in plans'
                /\ collectors[d].plan \notin swept'
                /\ HasPlan(state) => state.plan # collectors[d].plan
           /\ collectors[d].pc = "missing" => collectors[d].plan \notin plans'
           /\ state.pc = "install" => collectors[d].plan # state.plan
    BY <1>2, <1>3, <1>5, <2>1, Zenon
  <2>5. swept \subseteq swept'
    BY <2>1
  <2> QED BY <1>5, <2>1, <2>2, <2>3, <2>4, <2>5, PlansMove, Zenon DEF Goal
<1>6. ASSUME NEW plan, UNCHANGED storeVars, KeepPlans,
             \/ CollectorBecomes(c, IdleCollector)
             \/ /\ HoldFence(c, plan) /\ Spent(plan) /\ Drawn(Collectors, plan, quota)
                /\ (HasPlan(me) /\ plan = me.plan) \/ plan = head.active_plan
             \/ FinishWithCleanup(c) /\ Retired(me.plan) /\ HasPlan(me)
      PROVE  Goal
  <2>1. CASE CollectorBecomes(c, IdleCollector)
    <3>1. PlanOk(IdleCollector) /\ IdleCollector.pc = "idle"
      BY Zenon DEF PlanOk, IdleCollector
    <3> QED BY <1>5, <1>6, <2>1, <3>1
  <2>2. CASE /\ HoldFence(c, plan) /\ Spent(plan) /\ Drawn(Collectors, plan, quota)
             /\ (HasPlan(me) /\ plan = me.plan) \/ plan = head.active_plan
    <3>0. PICK state : state = [IdleCollector EXCEPT !.pc = "fenced", !.plan = plan]
      OBVIOUS
    <3>1. state.pc = "fenced" /\ state.plan = plan
      BY <3>0 DEF IdleCollector
    <3>2. PlanOk(state)
      BY <2>2, <3>1 DEF PlanOk
    <3>3. CollectorBecomes(c, state)
      BY <2>2, <3>0 DEF HoldFence
    <3> QED BY <1>5, <1>6, <2>2, <3>1, <3>2, <3>3, Zenon
  <2>3. CASE FinishWithCleanup(c) /\ Retired(me.plan) /\ HasPlan(me)
    <3>0. PICK state : state = [IdleCollector EXCEPT !.pc = "cleanup", !.plan = me.plan]
      OBVIOUS
    <3>1. state.pc = "cleanup" /\ state.plan = me.plan
      BY <3>0 DEF IdleCollector
    <3>2. PlanOk(state)
      BY <1>1, <2>3, <3>1, Zenon DEF PlanOk
    <3>3. CollectorBecomes(c, state)
      BY <1>0, <2>3, <3>0 DEF FinishWithCleanup
    <3> QED BY <1>5, <1>6, <2>3, <3>1, <3>2, <3>3
  <2> QED BY <1>6, <2>1, <2>2, <2>3, Zenon
(* The updates of the head.                                                *)
<1>7. ASSUME me.pc = "install", NEW h, h = Fenced(c), UNCHANGED quota, KeepPlans,
             UpdateApplied(me.view, h) \/ UpdateInFlight(me.view, h),
             NEW state, CollectorBecomes(c, state),
             HasPlan(state) => state.plan = me.plan,
             \/ state.pc = "idle"
             \/ state.pc = "fenced" /\ UpdateApplied(me.view, h)
             \/ state.pc = "reload" /\ state.view = me.view
      PROVE  Goal
  <2>1. /\ ViewOf(me.view, head, version) /\ HeadInvariant(me.view.head)
        /\ me.view.head.active_plan = None /\ me.view.head.retention_ids = {}
        /\ me.plan # None
    BY <1>1, <1>7 DEF CollectorOk, ViewOf
  <2>2. /\ Drawn(Collectors, me.plan, quota)
        /\ me.view.version = version => me.plan \in plans
        /\ \A l \in late : l.head.active_plan # me.plan
    BY <1>1, <1>7, Zenon DEF PlanOk
  <2>3. h = FenceHead(me.view.head, me.plan)
    BY <1>0, <1>7 DEF Fenced
  <2>4. /\ QuotaFalls /\ UNCHANGED <<plans, swept, planErrors, quota>>
        /\ version' = version \/ version' = version + 1
    BY <1>7, QuotaStays, Zenon DEF KeepPlans, UpdateApplied, UpdateInFlight, Apply
  <2>5. \A d \in Collectors \ {c} : HasPlan(collectors[d]) =>
           /\ collectors[d].plan # me.plan
           /\ collectors[d].pc = "install" =>
                /\ collectors[d].view.version = version' => collectors[d].plan \in plans'
                /\ collectors[d].plan \notin swept'
                /\ HasPlan(state) => state.plan # collectors[d].plan
           /\ collectors[d].pc = "missing" => collectors[d].plan \notin plans'
           /\ state.pc = "install" => collectors[d].plan # state.plan
    BY <1>2, <1>3, <1>7, <2>4, Zenon
  <2>6. CASE StoreStays /\ ~UpdateApplied(me.view, h)
    <3>0. UNCHANGED <<head, version, late>>
      BY <2>6 DEF StoreStays
    <3>1. FencesInv'
      BY <1>1, <2>4, <3>0 DEF FencesInv
    <3>2. Spent(me.plan)'
      BY <2>2, <3>0 DEF Spent
    <3>3. PlanOk(state)'
      <4>1. HasPlan(state) => state.pc = "reload" /\ state.plan = me.plan
        BY <1>7, <2>6
      <4> QED BY <2>2, <2>4, <3>2, <4>1 DEF PlanOk
    <3>4. FenceFalls /\ FencesMove
      BY <2>6, <3>0 DEF FenceFalls, FencesMove
    <3> QED BY <1>7, <2>4, <2>5, <2>6, <3>1, <3>3, <3>4, PlansMove, Zenon DEF Goal
  <2>7. CASE /\ me.view.version = version /\ me.view.head = head
             /\ IF UpdateApplied(me.view, h) THEN Apply(h) ELSE Submits(h)
    <3>1. h.active_plan = me.plan /\ head.active_plan = None
      BY <1>1, <2>1, <2>3, <2>7 DEF FenceHead, HeadInvariant, IsHead
    <3>2. InstallFence(head, h)
      BY <2>1, <2>3, <2>7, <3>1 DEF InstallFence
    <3>3. FenceFalls /\ FencesMove /\ Proposes(h)
      BY <2>7, <3>1, <3>2 DEF FenceFalls, FencesMove, Proposes
    <3>4. \A d \in Collectors \ {c} : HasPlan(collectors[d]) =>
                        \/ h.active_plan # collectors[d].plan
                        \/ h.active_plan = head.active_plan
      BY <2>5, <3>1
    <3>5. CASE Apply(h) /\ UpdateApplied(me.view, h)
      <4>1. head' = h /\ late' = {}
        BY <3>5 DEF Apply, StoreInv
      <4>2. FencesInv'
        BY <1>1, <2>2, <2>4, <2>7, <3>1, <4>1, Zenon DEF FencesInv
      <4>3. PlanOk(state)'
        <5>1. Spent(me.plan)'
          BY <4>1 DEF Spent
        <5> QED BY <1>7, <2>2, <2>4, <5>1, Zenon DEF PlanOk
      <4> QED BY <1>7, <2>4, <2>5, <3>3, <3>4, <4>2, <4>3, PlansMove, Zenon DEF Goal
    <3>6. CASE Submits(h) /\ ~UpdateApplied(me.view, h)
      <4>1. /\ UNCHANGED <<head, version>>
            /\ \A l \in late' : l \in late \/ l.head = h
        BY <3>6 DEF Submits
      <4>2. FencesInv'
        BY <1>1, <2>2, <2>4, <2>7, <3>1, <4>1, Zenon DEF FencesInv
      <4>3. PlanOk(state)'
        <5>1. HasPlan(state) =>
                state.pc = "reload" /\ state.plan = me.plan /\ state.view.version = version'
          BY <1>7, <2>7, <3>6, <4>1, Zenon
        <5> QED BY <2>2, <2>4, <5>1, Zenon DEF PlanOk
      <4> QED BY <1>7, <2>4, <2>5, <3>3, <3>4, <4>2, <4>3, PlansMove, Zenon DEF Goal
    <3> QED BY <2>7, <3>5, <3>6
  <2> QED BY <1>7, <2>1, <2>6, <2>7, UpdateProposes, Zenon
<1>8. ASSUME me.pc = "clear", NEW h, h = Unfenced(c), UNCHANGED quota, KeepPlans,
             UpdateApplied(me.view, h) \/ UpdateInFlight(me.view, h),
             NEW state, CollectorBecomes(c, state), state.plan = me.plan,
             \/ state.pc = "cleanup" /\ UpdateApplied(me.view, h)
             \/ state.pc \in {"fenced", "clearReload"}
      PROVE  Goal
  <2>1. /\ ViewOf(me.view, head, version) /\ HeadInvariant(me.view.head)
        /\ me.view.head.active_plan = me.plan /\ me.plan # None
    BY <1>1, <1>8 DEF CollectorOk, ViewOf
  <2>2. Drawn(Collectors, me.plan, quota) /\ me.plan \in swept /\ Spent(me.plan)
    BY <1>1, <1>8, Zenon DEF PlanOk
  <2>3. h = UnfencedHead(me.view.head) /\ h.active_plan = None
    BY <1>0, <1>8, <2>1 DEF Unfenced, UnfencedHead, HeadInvariant, IsHead
  <2>4. /\ QuotaFalls /\ UNCHANGED <<plans, swept, planErrors, quota>>
        /\ version' = version \/ version' = version + 1
    BY <1>8, QuotaStays, Zenon DEF KeepPlans, UpdateApplied, UpdateInFlight, Apply
  <2>5. \A d \in Collectors \ {c} : HasPlan(collectors[d]) =>
           /\ h.active_plan # collectors[d].plan
           /\ collectors[d].pc = "install" =>
                /\ collectors[d].view.version = version' => collectors[d].plan \in plans'
                /\ collectors[d].plan \notin swept'
                /\ HasPlan(state) => state.plan # collectors[d].plan
           /\ collectors[d].pc = "missing" => collectors[d].plan \notin plans'
           /\ state.pc = "install" => collectors[d].plan # state.plan
    BY <1>2, <1>3, <1>8, <2>3, <2>4, PlanIdentities, Zenon
  <2>6. CASE StoreStays /\ ~UpdateApplied(me.view, h)
    <3>0. UNCHANGED <<head, version, late>>
      BY <2>6 DEF StoreStays
    <3>1. FencesInv'
      BY <1>1, <2>4, <3>0 DEF FencesInv
    <3>2. Spent(me.plan)'
      BY <2>2, <3>0 DEF Spent
    <3>3. PlanOk(state)'
      BY <1>8, <2>2, <2>4, <2>6, <3>2, Zenon DEF PlanOk
    <3>4. FenceFalls /\ FencesMove
      BY <2>6, <3>0 DEF FenceFalls, FencesMove
    <3> QED BY <1>8, <2>4, <2>5, <2>6, <3>1, <3>3, <3>4, PlansMove, Zenon DEF Goal
  <2>7. CASE /\ me.view.version = version /\ me.view.head = head
             /\ IF UpdateApplied(me.view, h) THEN Apply(h) ELSE Submits(h)
    <3>1. head.active_plan = me.plan
      BY <2>1, <2>7
    <3>2. ClearFence(head, h)
      BY <2>1, <2>3, <2>7 DEF ClearFence
    <3>3. FenceFalls /\ FencesMove /\ Proposes(h)
      BY <2>2, <2>7, <3>1, <3>2, Zenon DEF FenceFalls, FencesMove, Proposes
    <3>4. \A d \in Collectors \ {c} : HasPlan(collectors[d]) =>
                        \/ h.active_plan # collectors[d].plan
                        \/ h.active_plan = head.active_plan
      BY <2>5
    <3>5. CASE Apply(h) /\ UpdateApplied(me.view, h)
      <4>1. head' = h /\ late' = {}
        BY <3>5 DEF Apply, StoreInv
      <4>2. FencesInv'
        BY <1>1, <2>3, <2>4, <4>1, Zenon DEF FencesInv
      <4>3. PlanOk(state)'
        <5>1. Spent(me.plan)' /\ Retired(me.plan)'
          BY <2>1, <2>3, <4>1 DEF Spent, Retired
        <5> QED BY <1>8, <2>2, <2>4, <5>1, Zenon DEF PlanOk
      <4> QED BY <1>8, <2>4, <2>5, <3>3, <3>4, <4>2, <4>3, PlansMove, Zenon DEF Goal
    <3>6. CASE Submits(h) /\ ~UpdateApplied(me.view, h)
      <4>1. /\ UNCHANGED <<head, version>>
            /\ \A l \in late' : l \in late \/ l.head = h
        BY <3>6 DEF Submits
      <4>2. FencesInv'
        BY <1>1, <2>2, <2>3, <2>4, <3>1, <4>1, Zenon DEF FencesInv
      <4>3. PlanOk(state)'
        <5>1. Spent(me.plan)'
          BY <2>1, <2>2, <2>3, <4>1, Zenon DEF Spent
        <5> QED BY <1>8, <2>2, <2>4, <3>6, <5>1, Zenon DEF PlanOk
      <4> QED BY <1>8, <2>4, <2>5, <3>3, <3>4, <4>2, <4>3, PlansMove, Zenon DEF Goal
    <3> QED BY <2>7, <3>5, <3>6
  <2> QED BY <1>8, <2>1, <2>6, <2>7, UpdateProposes, Zenon
<1>9. CASE StartCollection(c)
  <2>0. PICK plan, state : /\ plan = Fresh(c)
                           /\ state = [IdleCollector EXCEPT !.pc = "install",
                                         !.plan = plan, !.view = Observed]
    BY Zenon
  <2>1. /\ CollectorBecomes(c, state) /\ plans' = plans \cup {plan}
        /\ UNCHANGED <<head, version, late, swept, planErrors>> /\ StoreStays
        /\ head.active_plan = None
    BY <1>9, <2>0 DEF StartCollection, StoreStays
  <2>2. /\ QuotaFalls /\ DrawnBy(c, plan, quota') /\ plan # None
        /\ \A d \in Clients : ~DrawnBy(d, plan, quota)
    BY <1>1, <1>9, <2>0, FreshIsDrawn DEF StartCollection
  <2>3. ASSUME NEW p, Drawn(Collectors, p, quota) PROVE p # plan
    BY <1>1, <2>2, <2>3 DEF Drawn
  <2>4. state.pc = "install" /\ state.plan = plan
    BY <2>0 DEF IdleCollector
  <2>5. Drawn(Collectors, plan, quota')
    BY <2>2 DEF Drawn
  <2>6. FencesInv'
    BY <1>1, <2>1, <2>2, <2>5, PlanIdentities, Zenon DEF FencesInv
  <2>7. \A l \in late : l.head.active_plan # plan
    BY <1>1, <2>1, <2>2, <2>3, Zenon DEF FencesInv
  <2>8. plan \notin swept
    BY <1>1, <2>3 DEF FencesInv
  <2>9. PlanOk(state)'
    BY <2>1, <2>2, <2>4, <2>5, <2>7, <2>8, Zenon DEF PlanOk
  <2>10. \A d \in Collectors \ {c} : HasPlan(collectors[d]) =>
           /\ collectors[d].pc = "install" =>
                /\ collectors[d].view.version = version' => collectors[d].plan \in plans'
                /\ collectors[d].plan \notin swept'
                /\ HasPlan(state) => state.plan # collectors[d].plan
           /\ collectors[d].pc = "missing" => collectors[d].plan \notin plans'
           /\ state.pc = "install" => collectors[d].plan # state.plan
    BY <1>3, <2>1, <2>3, <2>4, Zenon
  <2>11. FenceFalls /\ FencesMove /\ swept \subseteq swept'
    BY <2>1 DEF FenceFalls, FencesMove
  <2> QED BY <2>1, <2>2, <2>6, <2>9, <2>10, <2>11, PlansMove, Zenon DEF Goal
<1>10. CASE TakeUpCollection(c)
  <2>1. PICK plan : plan = head.active_plan
    OBVIOUS
  <2>2. /\ plan # None /\ HoldFence(c, plan) /\ KeepPlans /\ UNCHANGED storeVars
    BY <1>10, <2>1 DEF TakeUpCollection
  <2>3. Spent(plan) /\ Drawn(Collectors, plan, quota)
    BY <1>1, <2>1, <2>2 DEF Spent, FencesInv
  <2> QED BY <1>6, <2>1, <2>2, <2>3
<1>11. ASSUME HasPlan(me) PROVE Drawn(Collectors, me.plan, quota)
  BY <1>1, <1>11 DEF PlanOk
<1>12. CASE InstallApplied(c)
  <2>0. PICK state, h : /\ state = [IdleCollector EXCEPT !.pc = "fenced", !.plan = me.plan]
                        /\ h = Fenced(c)
    OBVIOUS
  <2>1. /\ me.pc = "install" /\ UpdateApplied(me.view, h) /\ UNCHANGED quota /\ KeepPlans
        /\ CollectorBecomes(c, state)
    BY <1>0, <1>12, <2>0 DEF InstallApplied, HoldFence
  <2>2. state.pc = "fenced" /\ state.plan = me.plan
    BY <2>0 DEF IdleCollector
  <2> QED BY <1>7, <2>0, <2>1, <2>2, Zenon
<1>13. CASE InstallRejected(c)
  <2>0. PICK state, h : state = [me EXCEPT !.pc = "reload"] /\ h = Fenced(c)
    BY Zenon
  <2>1. /\ me.pc = "install" /\ UpdateInFlight(me.view, h) /\ UNCHANGED quota /\ KeepPlans
        /\ CollectorBecomes(c, state)
    BY <1>0, <1>13, <2>0 DEF InstallRejected
  <2>2. state.pc = "reload" /\ state.plan = me.plan /\ state.view = me.view
    BY <1>1, <2>0 DEF CollectorOk
  <2> QED BY <1>7, <2>0, <2>1, <2>2, Zenon
<1>14. CASE InstallUncertain(c)
  <2>0. PICK h : h = Fenced(c)
    OBVIOUS
  <2>1. /\ me.pc = "install" /\ UpdateInFlight(me.view, h) /\ UNCHANGED quota /\ KeepPlans
        /\ CollectorBecomes(c, IdleCollector) /\ IdleCollector.pc = "idle"
    BY <1>0, <1>14, <2>0 DEF InstallUncertain, IdleCollector
  <2> QED BY <1>7, <2>0, <2>1
<1>15. CASE InstallReload(c)
  <2>1. me.pc = "reload" /\ HasPlan(me) /\ UNCHANGED storeVars /\ KeepPlans
    BY <1>0, <1>15 DEF InstallReload
  <2>2. \/ HoldFence(c, me.plan) /\ head.active_plan = me.plan
        \/ CollectorBecomes(c, IdleCollector)
        \/ FinishWithCleanup(c) /\ head.active_plan # me.plan /\ me.view # Observed
    BY <1>0, <1>15 DEF InstallReload, SameObservation
  <2>3. head.active_plan = me.plan => Spent(me.plan)
    BY DEF Spent
  <2>4. me.view # Observed => Spent(me.plan)
    <3>1. ViewOf(me.view, head, version)
      BY <1>1 DEF CollectorOk
    <3> QED BY <1>1, <2>1, <3>1, OtherViewsAreOlder, Zenon DEF PlanOk
  <2> QED BY <1>6, <1>11, <2>1, <2>2, <2>3, <2>4, Zenon DEF Retired
<1>16. CASE StartFails(c)
  BY <1>6, <1>16, Zenon DEF StartFails
<1>17. CASE ResumeCollection(c)
  <2>0. PICK state : state = [me EXCEPT !.pc = "read", !.view = Observed]
    OBVIOUS
  <2>1. /\ me.pc = "fenced" /\ HasPlan(me) /\ UNCHANGED storeVars /\ KeepPlans
        /\ Spent(me.plan) /\ me.plan # None
    BY <1>0, <1>1, <1>17 DEF ResumeCollection, CollectorOk, PlanOk
  <2>2. \/ FinishWithCleanup(c) /\ head.active_plan = None
        \/ CollectorBecomes(c, IdleCollector)
        \/ CollectorBecomes(c, state)
    BY <1>0, <1>17, <2>0, Zenon DEF ResumeCollection
  <2>3. CASE CollectorBecomes(c, state)
    <3>1. state.pc = "read" /\ state.plan = me.plan
      BY <1>1, <2>0 DEF CollectorOk
    <3>2. PlanOk(state)
      BY <1>11, <2>1, <3>1 DEF PlanOk
    <3> QED BY <1>5, <2>1, <2>3, <3>1, <3>2
  <2> QED BY <1>6, <2>1, <2>2, <2>3 DEF Retired
<1>18. CASE ReadPlan(c)
  <2>0. PICK pc, state : /\ pc = IF me.plan \in plans THEN "delete" ELSE "missing"
                         /\ state = [me EXCEPT !.pc = pc]
    BY Zenon
  <2>1. /\ me.pc = "read" /\ CollectorBecomes(c, state) /\ UNCHANGED storeVars /\ KeepPlans
        /\ Spent(me.plan)
    BY <1>0, <1>1, <1>18, <2>0 DEF ReadPlan, PlanOk
  <2>2. /\ state.pc \in {"delete", "missing"} /\ state.plan = me.plan
        /\ state.pc = "missing" => me.plan \notin plans
    BY <1>1, <2>0 DEF CollectorOk
  <2>3. PlanOk(state)
    BY <1>11, <2>1, <2>2 DEF PlanOk
  <2> QED BY <1>5, <2>1, <2>2, <2>3
<1>19. CASE ExplainMissingPlan(c)
  <2>1. /\ me.pc = "missing" /\ CollectorBecomes(c, IdleCollector)
        /\ planErrors' = planErrors \cup {MissingPlan(me.view.head, me.plan, head)}
        /\ UNCHANGED storeVars /\ UNCHANGED <<plans, swept>>
    BY <1>0, <1>19, Zenon DEF ExplainMissingPlan
  <2>2. /\ me.view.head.active_plan = me.plan /\ me.plan # None
        /\ ViewOf(me.view, head, version) /\ me.plan \notin plans
    BY <1>1, <2>1 DEF CollectorOk, PlanOk
  <2>3. head.active_plan # me.plan
    BY <1>1, <2>2, Zenon DEF FencesInv
  <2>4. head.generation > me.view.head.generation
    <3>1. me.view # Observed
      BY <2>2, <2>3 DEF Observed
    <3> QED BY <2>2, <3>1, OtherViewsAreOlder, Zenon DEF StoreInv, ViewOf, HeadInvariant, IsHead
  <2>5. /\ me.view.head.collection_epoch <= head.collection_epoch
        /\ me.view.head.collection_epoch = head.collection_epoch => head.active_plan = None
        /\ me.view.head.collection_epoch \in Nat /\ head.collection_epoch \in Nat
    BY <1>1, <2>2, <2>3, Zenon DEF ViewOf, NotAhead, HeadInvariant, IsHead
  <2>6. MissingPlan(me.view.head, me.plan, head) = "ViewExpired"
    BY <2>3, <2>4, <2>5 DEF MissingPlan
  <2>7. "Corrupt" \notin planErrors'
    BY <1>1, <2>1, <2>6, Zenon DEF FencesInv
  <2>8. UNCHANGED <<head, version, late, quota>>
        /\ StoreStays /\ QuotaFalls /\ FenceFalls /\ FencesMove
    BY <1>4, <2>1
  <2>9. FencesInv'
    BY <1>1, <2>1, <2>7, <2>8, Zenon DEF FencesInv
  <2>10. PlanOk(IdleCollector)' /\ IdleCollector.pc = "idle"
    BY Zenon DEF PlanOk, IdleCollector
  <2>11. \A d \in Collectors \ {c} : HasPlan(collectors[d]) =>
           /\ collectors[d].pc = "install" =>
                /\ collectors[d].view.version = version' => collectors[d].plan \in plans'
                /\ collectors[d].plan \notin swept'
           /\ collectors[d].pc = "missing" => collectors[d].plan \notin plans'
    BY <1>3, <2>1, <2>8, Zenon
  <2> QED BY <2>1, <2>8, <2>9, <2>10, <2>11, PlansMove, Zenon DEF Goal
<1>20. CASE DeleteBatches(c)
  <2>0. PICK state : state = [me EXCEPT !.pc = "clear", !.attempt = 0]
    OBVIOUS
  <2>1. /\ me.pc = "delete" /\ CollectorBecomes(c, state) /\ UNCHANGED storeVars
        /\ swept' = swept \cup {me.plan} /\ UNCHANGED <<plans, planErrors>>
        /\ Spent(me.plan)
    BY <1>0, <1>1, <1>20, <2>0 DEF DeleteBatches, PlanOk
  <2>2. UNCHANGED <<head, version, late, quota>>
        /\ StoreStays /\ QuotaFalls /\ FenceFalls /\ FencesMove
    BY <1>4, <2>1
  <2>3. state.pc = "clear" /\ state.plan = me.plan
    BY <1>1, <2>0 DEF CollectorOk
  <2>4. PlanOk(state)'
    BY <1>11, <2>1, <2>2, <2>3, Zenon DEF PlanOk, Spent
  <2>5. FencesInv'
    BY <1>1, <1>11, <2>1, <2>2, Zenon DEF FencesInv
  <2>6. \A d \in Collectors \ {c} : HasPlan(collectors[d]) =>
           /\ collectors[d].pc = "install" =>
                /\ collectors[d].view.version = version' => collectors[d].plan \in plans'
                /\ collectors[d].plan \notin swept'
                /\ HasPlan(state) => state.plan # collectors[d].plan
           /\ collectors[d].pc = "missing" => collectors[d].plan \notin plans'
           /\ state.pc = "install" => collectors[d].plan # state.plan
    BY <1>2, <1>3, <2>1, <2>2, <2>3, Zenon
  <2> QED BY <2>1, <2>2, <2>4, <2>5, <2>6, PlansMove DEF Goal
<1>21. CASE ResumeFails(c)
  <2>1. /\ HoldFence(c, me.plan) /\ HasPlan(me) /\ Spent(me.plan)
        /\ UNCHANGED storeVars /\ KeepPlans
    BY <1>0, <1>1, <1>21, Zenon DEF ResumeFails, PlanOk
  <2> QED BY <1>6, <1>11, <2>1, Zenon
<1>22. CASE ClearApplied(c)
  <2>0. PICK state, h : /\ state = [IdleCollector EXCEPT !.pc = "cleanup", !.plan = me.plan]
                        /\ h = Unfenced(c)
    OBVIOUS
  <2>1. /\ me.pc = "clear" /\ UpdateApplied(me.view, h) /\ UNCHANGED quota /\ KeepPlans
        /\ CollectorBecomes(c, state)
    BY <1>0, <1>22, <2>0 DEF ClearApplied, FinishWithCleanup
  <2>2. state.pc = "cleanup" /\ state.plan = me.plan
    BY <2>0 DEF IdleCollector
  <2> QED BY <1>8, <2>0, <2>1, <2>2, Zenon
<1>23. CASE ClearRejected(c)
  <2>0. PICK state, h : state = [me EXCEPT !.pc = "clearReload"] /\ h = Unfenced(c)
    BY Zenon
  <2>1. /\ me.pc = "clear" /\ UpdateInFlight(me.view, h) /\ UNCHANGED quota /\ KeepPlans
        /\ CollectorBecomes(c, state)
    BY <1>0, <1>23, <2>0 DEF ClearRejected
  <2>2. state.pc = "clearReload" /\ state.plan = me.plan
    BY <1>1, <2>0 DEF CollectorOk
  <2> QED BY <1>8, <2>0, <2>1, <2>2, Zenon
<1>24. CASE ClearUncertain(c)
  <2>0. PICK state, h : /\ state = [IdleCollector EXCEPT !.pc = "fenced", !.plan = me.plan]
                        /\ h = Unfenced(c)
    OBVIOUS
  <2>1. /\ me.pc = "clear" /\ UpdateInFlight(me.view, h) /\ UNCHANGED quota /\ KeepPlans
        /\ CollectorBecomes(c, state)
    BY <1>0, <1>24, <2>0 DEF ClearUncertain, HoldFence
  <2>2. state.pc = "fenced" /\ state.plan = me.plan
    BY <2>0 DEF IdleCollector
  <2> QED BY <1>8, <2>0, <2>1, <2>2, Zenon
<1>25. CASE ClearReload(c)
  <2>0. PICK state : state = [me EXCEPT !.pc = "clear", !.view = Observed,
                                        !.attempt = me.attempt + 1]
    OBVIOUS
  <2>1. /\ me.pc = "clearReload" /\ HasPlan(me) /\ UNCHANGED storeVars /\ KeepPlans
        /\ Spent(me.plan) /\ me.plan \in swept /\ me.plan # None
    BY <1>0, <1>1, <1>25 DEF ClearReload, CollectorOk, PlanOk
  <2>2. \/ HoldFence(c, me.plan)
        \/ FinishWithCleanup(c) /\ head.active_plan = None
        \/ CollectorBecomes(c, IdleCollector)
        \/ CollectorBecomes(c, state)
    BY <1>0, <1>25, <2>0 DEF ClearReload
  <2>3. CASE CollectorBecomes(c, state)
    <3>1. state.pc = "clear" /\ state.plan = me.plan
      BY <1>1, <2>0 DEF CollectorOk
    <3>2. PlanOk(state)
      BY <1>11, <2>1, <3>1 DEF PlanOk
    <3> QED BY <1>5, <2>1, <2>3, <3>1, <3>2
  <2> QED BY <1>6, <1>11, <2>1, <2>2, <2>3 DEF Retired
<1>26. CASE CleanupPlan(c)
  <2>1. /\ me.pc = "cleanup" /\ CollectorBecomes(c, IdleCollector) /\ UNCHANGED storeVars
        /\ plans' \subseteq plans /\ plans \subseteq plans' \cup {me.plan}
        /\ UNCHANGED <<swept, planErrors>> /\ Retired(me.plan)
    BY <1>0, <1>1, <1>26, Zenon DEF CleanupPlan, PlanOk
  <2>2. UNCHANGED <<head, version, late, quota>>
        /\ StoreStays /\ QuotaFalls /\ FenceFalls /\ FencesMove
    BY <1>4, <2>1
  <2>3. PlanOk(IdleCollector)' /\ IdleCollector.pc = "idle"
    BY Zenon DEF PlanOk, IdleCollector
  <2>4. FencesInv'
    BY <1>1, <2>1, <2>2, Zenon DEF FencesInv, Retired, Spent
  <2>5. \A d \in Collectors \ {c} : HasPlan(collectors[d]) =>
           /\ collectors[d].pc = "install" =>
                /\ collectors[d].view.version = version' => collectors[d].plan \in plans'
                /\ collectors[d].plan \notin swept'
           /\ collectors[d].pc = "missing" => collectors[d].plan \notin plans'
    BY <1>2, <1>3, <2>1, <2>2, Zenon
  <2> QED BY <2>1, <2>2, <2>3, <2>4, <2>5, PlansMove, Zenon DEF Goal
<1>27. CASE CollectorCrash(c)
  BY <1>6, <1>27, Zenon DEF CollectorCrash
<1> QED
  BY <1>9, <1>10, <1>12, <1>13, <1>14, <1>15, <1>16, <1>17, <1>18, <1>19, <1>20,
     <1>21, <1>22, <1>23, <1>24, <1>25, <1>26, <1>27 DEF CollectorStep

(* A step of a collector.                                                  *)
LEMMA CollectorEffect ==
  ASSUME StoreInv, FencesMove
  PROVE  \/ StoreStays
         \/ \E h : /\ LegalStep(head, h) /\ Proposes(h) /\ h.checkpoint = head.checkpoint
                   /\ h.next_sequence = head.next_sequence
                   /\ Range(h.tail) \subseteq Range(head.tail)
                   /\ h.retention_ids = head.retention_ids
<1>1. CASE ~StoreStays
  <2>1. PICK h : Proposes(h) /\ (InstallFence(head, h) \/ ClearFence(head, h))
    BY <1>1 DEF FencesMove
  <2>2. LegalStep(head, h)
    BY <2>1 DEF LegalStep
  <2>3. /\ h.checkpoint = head.checkpoint /\ h.retention_ids = head.retention_ids
        /\ h.next_sequence = head.next_sequence /\ h.tail = head.tail
    BY <2>1, FenceKeeps, Zenon DEF StoreInv
  <2> QED BY <2>1, <2>2, <2>3
<1> QED BY <1>1

-----------------------------------------------------------------------------
(* The points at which a collector works on a plan that is, or was, the    *)
(* fence.                                                                  *)
Working == {"fenced", "read", "missing", "delete", "clear", "clearReload"}

(* Where a step takes a collector: only start_collection comes to the      *)
(* installation, and a plan is worked on because it is the fence, or       *)
(* because the collector was working on it before.                         *)
CollectorGoes(c, state) ==
  \/ StartCollection(c) /\ state.pc = "install"
  \/ state.pc \in {"idle", "reload", "cleanup"}
  \/ state.pc \in Working /\ state.plan = head'.active_plan
  \/ state.pc \in Working /\ collectors[c].pc \in Working /\ state.plan = collectors[c].plan

LEMMA CollectorGoesTo ==
  ASSUME CollectorsInv, NEW c \in Collectors, CollectorStep(c)
  PROVE  \E state : CollectorBecomes(c, state) /\ CollectorGoes(c, state)
<1>1. PICK me : me = collectors[c]
  OBVIOUS
<1>2. me = [pc |-> me.pc, plan |-> me.plan, view |-> me.view, attempt |-> me.attempt]
  BY <1>1 DEF CollectorsInv, CollectorOk
<1>3. CASE StartCollection(c)
  <2>1. PICK state : state = [IdleCollector EXCEPT !.pc = "install", !.plan = Fresh(c),
                                                   !.view = Observed]
    OBVIOUS
  <2>2. state.pc = "install"
    BY <2>1 DEF IdleCollector
  <2> QED BY <1>3, <2>1, <2>2, Zenon DEF StartCollection, CollectorGoes
<1>4. CASE CollectorBecomes(c, IdleCollector)
  BY <1>4 DEF CollectorGoes, IdleCollector
<1>5. CASE FinishWithCleanup(c)
  <2>1. PICK state : state = [IdleCollector EXCEPT !.pc = "cleanup", !.plan = collectors[c].plan]
    OBVIOUS
  <2>2. state.pc = "cleanup"
    BY <2>1 DEF IdleCollector
  <2> QED BY <1>5, <2>1, <2>2, Zenon DEF FinishWithCleanup, CollectorGoes
<1>6. ASSUME NEW plan, HoldFence(c, plan),
             plan = head'.active_plan \/ (me.pc \in Working /\ plan = me.plan)
      PROVE  \E state : CollectorBecomes(c, state) /\ CollectorGoes(c, state)
  <2>1. PICK state : state = [IdleCollector EXCEPT !.pc = "fenced", !.plan = plan]
    OBVIOUS
  <2>2. state.pc = "fenced" /\ state.plan = plan
    BY <2>1 DEF IdleCollector
  <2> QED BY <1>1, <1>6, <2>1, <2>2, Zenon DEF HoldFence, CollectorGoes, Working
<1>7. ASSUME NEW state, CollectorBecomes(c, state), state.plan = me.plan,
             \/ state.pc = "reload"
             \/ state.pc \in Working /\ me.pc \in Working
      PROVE  \E next : CollectorBecomes(c, next) /\ CollectorGoes(c, next)
  BY <1>1, <1>7 DEF CollectorGoes
<1>8. CASE TakeUpCollection(c) \/ InstallReload(c)
  BY <1>1, <1>4, <1>5, <1>6, <1>8 DEF TakeUpCollection, InstallReload, storeVars
<1>9. CASE InstallApplied(c)
  <2>1. head'.active_plan = me.plan
    BY <1>1, <1>9 DEF InstallApplied, UpdateApplied, Apply, Fenced, FenceHead
  <2> QED BY <1>1, <1>6, <1>9, <2>1 DEF InstallApplied
<1>10. CASE \/ InstallUncertain(c) \/ StartFails(c) \/ ExplainMissingPlan(c)
            \/ CleanupPlan(c) \/ CollectorCrash(c) \/ ClearApplied(c)
  BY <1>4, <1>5, <1>10, Zenon DEF InstallUncertain, StartFails, ExplainMissingPlan, CleanupPlan,
     CollectorCrash, ClearApplied
<1>11. CASE ResumeFails(c) \/ ClearUncertain(c)
  BY <1>1, <1>6, <1>11, Zenon DEF ResumeFails, ClearUncertain, Working
<1>12. CASE \E pc \in {"reload"} \cup Working :
              /\ CollectorBecomes(c, [me EXCEPT !.pc = pc])
              /\ pc = "reload" \/ me.pc \in Working
  <2>1. PICK pc \in {"reload"} \cup Working :
          /\ CollectorBecomes(c, [me EXCEPT !.pc = pc])
          /\ pc = "reload" \/ me.pc \in Working
    BY <1>12
  <2>2. PICK state : state = [me EXCEPT !.pc = pc]
    BY Zenon
  <2>3. state.pc = pc /\ state.plan = me.plan
    BY <1>2, <2>2
  <2> QED BY <1>7, <2>1, <2>2, <2>3, Zenon
<1>13. CASE InstallRejected(c) \/ ClearRejected(c) \/ ReadPlan(c)
  BY <1>1, <1>12, <1>13 DEF InstallRejected, ClearRejected, ReadPlan, Working
<1>14. CASE DeleteBatches(c)
  <2>1. PICK state : state = [me EXCEPT !.pc = "clear", !.attempt = 0]
    OBVIOUS
  <2>2. state.pc = "clear" /\ state.plan = me.plan
    BY <1>2, <2>1
  <2> QED BY <1>1, <1>7, <1>14, <2>1, <2>2, Zenon DEF DeleteBatches, Working
<1>15. CASE ResumeCollection(c)
  <2>1. PICK state : state = [me EXCEPT !.pc = "read", !.view = Observed]
    OBVIOUS
  <2>2. state.pc = "read" /\ state.plan = me.plan
    BY <1>2, <2>1
  <2>3. \/ FinishWithCleanup(c) \/ CollectorBecomes(c, IdleCollector)
        \/ CollectorBecomes(c, state) /\ me.pc \in Working
    BY <1>1, <1>15, <2>1, Zenon DEF ResumeCollection, Working
  <2> QED BY <1>4, <1>5, <1>7, <2>2, <2>3 DEF Working
<1>16. CASE ClearReload(c)
  <2>1. PICK state : state = [me EXCEPT !.pc = "clear", !.view = Observed, !.attempt = @ + 1]
    OBVIOUS
  <2>2. state.pc = "clear" /\ state.plan = me.plan
    BY <1>2, <2>1
  <2>3. /\ me.pc \in Working
        /\ \/ FinishWithCleanup(c) \/ CollectorBecomes(c, IdleCollector)
           \/ CollectorBecomes(c, state) \/ HoldFence(c, me.plan)
    BY <1>1, <1>16, <2>1 DEF ClearReload, Working
  <2> QED BY <1>4, <1>5, <1>6, <1>7, <2>2, <2>3, Zenon DEF Working
<1> QED BY <1>3, <1>8, <1>9, <1>10, <1>11, <1>13, <1>14, <1>15, <1>16 DEF CollectorStep

=============================================================================
