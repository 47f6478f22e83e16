------------------------------ MODULE Staging -------------------------------
(***************************************************************************)
(* The immutable objects of a log and the clients that create and publish  *)
(* them: Log::put_object, put_node and stage_objects give proofs, prepare  *)
(* and commit or publish_checkpoint publish what the proofs name, resolve, *)
(* resolve_checkpoint and resume retry it, without the proofs when the     *)
(* handle was reopened.                                                    *)
(*                                                                         *)
(* A call is a sequence of storage phases; every read, create and update   *)
(* is a step of its own, and a collector may delete objects in between.    *)
(* Object bytes are what they reference: [kind, refs].  What the callers   *)
(* are told about a publication is the subject of Commits and Checkpoints. *)
(***************************************************************************)
EXTENDS Fences

CONSTANT Publishers   \* the clients that stage and publish objects

ASSUME PublishersAssumption == Publishers \subseteq Clients

VARIABLES
  objects,      \* the keys of the blobs, nodes, checkpoints and commits in the store
  contents,     \* what is written, or about to be, under each key drawn so far
  creating,     \* creates that failed and may still take effect
  publishers,   \* the local state of each publisher
  failures      \* dependencies reported missing: [call, expired] (observer)

stagingVars == <<objects, contents, creating, publishers, failures>>

NotRead == {None}
NoEvidence == [kind |-> "commit", key |-> None, base |-> NoView,
               through |-> None, proven |-> FALSE]

(* call, todo: the call in progress and the phases left in it              *)
(* view, blocked: a View and its cached collection candidates              *)
(* proofs:   the StagedObjects of this handle: [key, epoch]                *)
(* new:      the key to create (an object, or the candidate's own object)  *)
(* evidence: the PendingCommit, PendingCheckpoint or recovery token; it is *)
(*           proven while staging_domain is that of the handle             *)
(* roots, visited: the walk of mark_object_graph                           *)
(* source, current, attempt: the loop of publish_head_compatible           *)
IdlePublisher ==
  [call |-> "none", todo |-> <<>>, view |-> NoView, blocked |-> NotRead,
   proofs |-> {}, new |-> None, evidence |-> NoEvidence, roots |-> {},
   visited |-> {}, source |-> NoView, current |-> NoView, attempt |-> 0]

StagingInit ==
  /\ objects = {}
  /\ contents = [k \in {} |-> None]
  /\ creating = {}
  /\ publishers = [p \in Publishers |-> IdlePublisher]
  /\ failures = {}

-----------------------------------------------------------------------------
(* The graph of references                                                 *)

Refs(S) == UNION {contents[k].refs : k \in S}

(* What S reaches: the smallest set of keys with S and what it refers to.  *)
Closure(S) ==
  LET closed == {X \in SUBSET DOMAIN contents : S \subseteq X /\ Refs(X) \subseteq X}
  IN {k \in DOMAIN contents : \A X \in closed : k \in X}

TailKeys(h) == {commit.storage_id : commit \in Range(h.tail)}
CheckpointKeys(h) == {h.checkpoint.object} \ {None}

(* What a head keeps alive: tail, checkpoint and all they refer to.        *)
Live(h) == Closure(TailKeys(h) \cup CheckpointKeys(h))

-----------------------------------------------------------------------------
PublisherBecomes(p, state) == publishers' = [publishers EXCEPT ![p] = state]
Phase(p, phase) == publishers[p].todo # <<>> /\ publishers[p].todo[1] = phase
KeepObjects == UNCHANGED <<objects, contents, creating>>

(* A call is over; the view, its cache, the proofs and the evidence stay.  *)
Returned(me) ==
  [me EXCEPT !.call = "none", !.todo = <<>>, !.new = None, !.roots = {},
             !.visited = {}, !.source = NoView,
             !.current = NoView, !.attempt = 0]

Settled(me) == [Returned(me) EXCEPT !.evidence = NoEvidence]

(* Mutation: the epoch of a proof is not compared with that of the view.   *)
AnyProof(me, proof) == TRUE

(* Log::validate_staged_object: proofs of another handle are not kept.     *)
ValidProof(me, proof) == proof.epoch = me.view.head.collection_epoch

Proven(me) == {proof.key : proof \in {q \in me.proofs : ValidProof(me, q)}}

(* Log::staged_object for the result of a call.                            *)
WithProofs(me, keys) ==
  [me EXCEPT !.proofs = @ \cup
     {[key |-> k, epoch |-> me.view.head.collection_epoch] : k \in keys}]

(* The bytes under a key drawn by client c never change.                   *)
NewObject(c, kind, refs) ==
  contents' = [k \in DOMAIN contents \cup {Fresh(c)} |->
                 IF k = Fresh(c) THEN [kind |-> kind, refs |-> refs] ELSE contents[k]]

-----------------------------------------------------------------------------
(* Starting a call                                                         *)

(* An application settles uncertain evidence before it goes on.            *)
Idle(p) == publishers[p].call = "none" /\ publishers[p].evidence = NoEvidence

(* Mutation: a view under a fence is used without reading its plan.        *)
WithoutPlan(me, todo) == todo

(* active_collection_candidates reads the plan unless the view has none or *)
(* has its candidates cached.                                              *)
AfterPlan(me, todo) ==
  IF me.view.head.active_plan # None /\ me.blocked = NotRead
  THEN <<"plan">> \o todo ELSE todo

(* Log::load: a new View has no cached candidates.                         *)
LoadView(p) ==
  /\ Idle(p)
  /\ publishers[p].view # Observed
  /\ PublisherBecomes(p, [publishers[p] EXCEPT !.view = Observed, !.blocked = NotRead])
  /\ KeepObjects
  /\ UNCHANGED failures

PutNew(p, kind, refs) ==
  LET me == publishers[p] IN
  /\ Idle(p) /\ CanDraw(p)
  /\ NewObject(p, kind, refs)
  /\ PublisherBecomes(p, [me EXCEPT !.call = "put", !.new = Fresh(p),
                                    !.todo = AfterPlan(me, <<"create">>)])
  /\ UNCHANGED <<objects, creating, failures>>

PutObject(p) == PutNew(p, "Blob", {})

(* put_node names children with valid proofs (one without children has no  *)
(* edges either and is left to put_object).                                *)
PutNode(p, children) ==
  /\ children # {} /\ children \subseteq Proven(publishers[p])
  /\ PutNew(p, "Node", children)

(* stage_objects: the application names an object it learnt of earlier.    *)
StageObjects(p, key) ==
  LET me == publishers[p] IN
  /\ Idle(p)
  /\ contents[key].kind \in {"Blob", "Node"} /\ key \notin Proven(me)
  /\ PublisherBecomes(p, [me EXCEPT !.call = "stage", !.roots = {key},
                                    !.todo = AfterPlan(me, <<"walk">>)])
  /\ KeepObjects
  /\ UNCHANGED failures

(* read_staged_node and history: the application reads a node that it has  *)
(* a proof for, or a record of its view, and gets proofs of what it names  *)
(* without reading that.                                                   *)
ReadForProofs(p, call, key) ==
  LET me == publishers[p] IN
  /\ Idle(p)
  /\ ~(contents[key].refs \subseteq Proven(me))
  /\ PublisherBecomes(p, [me EXCEPT !.call = call, !.roots = {key}, !.todo = <<"derive">>])
  /\ KeepObjects
  /\ UNCHANGED failures

ReadStagedNode(p, key) ==
  /\ key \in Proven(publishers[p]) /\ contents[key].kind = "Node"
  /\ ReadForProofs(p, "node", key)

ReadRecord(p, key) ==
  /\ key \in TailKeys(publishers[p].view.head) \cup CheckpointKeys(publishers[p].view.head)
  /\ ReadForProofs(p, "history", key)

Evidence(p, kind, through) ==
  [kind |-> kind, key |-> Fresh(p), base |-> publishers[p].view,
   through |-> through, proven |-> TRUE]

(* prepare and commit on the view held, with proofs for the dependencies.  *)
Commit(p, refs) ==
  LET me == publishers[p] IN
  /\ Idle(p) /\ CanDraw(p)
  /\ refs \subseteq Proven(me)
  /\ Len(me.view.head.tail) < MaxTailEntries
  /\ NewObject(p, "Commit", refs)
  /\ PublisherBecomes(p, [me EXCEPT
       !.call = "commit", !.evidence = Evidence(p, "commit", None),
       !.new = Fresh(p), !.todo = AfterPlan(me, <<"ensure", "publish">>),
       !.source = me.view, !.current = me.view])
  /\ UNCHANGED <<objects, creating, failures>>

(* publish_checkpoint: verify_tail reads the tail first.                   *)
PublishCheckpoint(p, through, refs) ==
  LET me == publishers[p] IN
  /\ Idle(p) /\ CanDraw(p)
  /\ refs \subseteq Proven(me)
  /\ NewObject(p, "Checkpoint", refs)
  /\ PublisherBecomes(p, [me EXCEPT
       !.call = "checkpoint", !.evidence = Evidence(p, "checkpoint", through),
       !.new = Fresh(p), !.todo = <<"tail">> \o AfterPlan(me, <<"create", "publish">>),
       !.source = me.view, !.current = me.view])
  /\ UNCHANGED <<objects, creating, failures>>

-----------------------------------------------------------------------------
(* Retrying uncertain evidence                                             *)

CommitOf(e) ==
  [sequence |-> e.base.head.next_sequence, transaction_id |-> e.key,
   storage_id |-> e.key,
   digest |-> [transaction_id |-> e.key, expected_tip |-> Tip(e.base.head)]]

Proposal(e, h) ==
  IF e.kind = "commit" THEN CandidateHead(h, CommitOf(e))
  ELSE CheckpointHead(h, e.through, e.key)

Compatible(e, h, other) ==
  IF e.kind = "commit" THEN HasSamePublicationBase(h, other)
  ELSE HasCheckpointAppendBase(h, other)

Uncertain(p) == publishers[p].call = "none" /\ publishers[p].evidence # NoEvidence

(* Is the evidence published, with an object that the head still names?    *)
Named(e, h) ==
  IF e.kind = "commit" THEN CommitOf(e) \in Range(h.tail)
  ELSE CheckpointKeys(h) = {e.key}

(* resolve and resolve_checkpoint by the handle that staged everything.    *)
Resolve(p) ==
  LET me == publishers[p]
      e == me.evidence
  IN
  /\ Uncertain(p) /\ e.proven
  /\ PublisherBecomes(p,
       IF PublicationView(e.base, Observed, Compatible(e, e.base.head, head)) = "Publish"
       THEN [me EXCEPT !.call = "resolve", !.new = e.key,
                       !.todo = AfterPlan(me, <<"publish">>),
                       !.source = Observed, !.current = Observed]
       ELSE Settled(me))
  /\ KeepObjects
  /\ UNCHANGED failures

(* resume from a token, and resolve_checkpoint by a reopened handle: the   *)
(* dependencies are verified again, against the plan of the view just      *)
(* loaded (resume) or of the original view (resolve_checkpoint); in a      *)
(* changed head only what it still names is read.  resume loads the head,  *)
(* and resolve loads it again: the second read is this step.               *)
Resume(p) ==
  LET me == publishers[p]
      e == me.evidence
      fresh == [me EXCEPT !.call = "resume", !.new = e.key, !.roots = contents[e.key].refs,
                          !.view = IF e.kind = "commit" THEN Observed ELSE e.base,
                          !.blocked = NotRead, !.source = Observed, !.current = Observed]
      verify == IF contents[e.key].refs = {} THEN <<>> ELSE <<"walk">>
  IN
  /\ Uncertain(p) /\ ~e.proven
  /\ PublisherBecomes(p,
       CASE PublicationView(e.base, Observed, Compatible(e, e.base.head, head)) = "Publish" ->
              [fresh EXCEPT !.todo =
                 IF e.kind = "commit"
                 THEN AfterPlan(fresh, verify \o <<"ensure", "publish">>)
                 ELSE <<"tail", "body">> \o AfterPlan(fresh, verify \o <<"publish">>)]
         [] PublicationView(e.base, Observed, Compatible(e, e.base.head, head)) # "Publish"
              /\ Named(e, head) ->
              [fresh EXCEPT !.view = Observed, !.todo = <<"body">> \o verify]
         [] OTHER -> Settled(me))
  /\ KeepObjects
  /\ UNCHANGED failures

-----------------------------------------------------------------------------
(* The storage phases of a call                                            *)

(* The call returns an error: a token survives, a pending checkpoint given *)
(* to the call does not; an uncertain answer keeps the evidence.           *)
Failed(me) ==
  IF me.call \in {"put", "stage", "node", "history"} \/ me.evidence.kind = "checkpoint" THEN Settled(me)
  ELSE [Returned(me) EXCEPT !.evidence.proven = FALSE]

StillPending(me) ==
  IF me.call = "resume" /\ me.evidence.kind = "commit" THEN Failed(me) ELSE Returned(me)

(* A store error while reading, or a refused request.                      *)
Unavailable(me) ==
  IF me.call \in {"resolve", "resume"} \/ me.todo[1] = "reload"
  THEN StillPending(me) ELSE Failed(me)

RequestFails(p) ==
  /\ publishers[p].todo # <<>>
  /\ PublisherBecomes(p, Unavailable(publishers[p]))
  /\ KeepObjects
  /\ UNCHANGED failures

(* An object that the call depends on is not there.                        *)
Missing(p) ==
  /\ PublisherBecomes(p, Failed(publishers[p]))
  /\ failures' = failures \cup
       {[call |-> publishers[p].call,
         expired |-> head.collection_epoch > publishers[p].view.head.collection_epoch]}

(* The phase succeeds; after the last one the call returns its proofs, or  *)
(* has verified the evidence that it found published.                      *)
Advance(p, me) ==
  /\ PublisherBecomes(p,
       CASE Len(me.todo) > 1 -> [me EXCEPT !.todo = Tail(@)]
         [] Len(me.todo) = 1 /\ me.call = "put" -> WithProofs(Returned(me), {me.new})
         [] Len(me.todo) = 1 /\ me.call = "stage" -> WithProofs(Returned(me), me.roots)
         [] OTHER -> Settled(me))
  /\ UNCHANGED failures

ReadTail(p) ==
  /\ Phase(p, "tail")
  /\ IF TailKeys(publishers[p].view.head) \subseteq objects
     THEN Advance(p, publishers[p]) ELSE Missing(p)
  /\ KeepObjects

ReadBody(p) ==
  /\ Phase(p, "body")
  /\ IF publishers[p].evidence.key \in objects
     THEN Advance(p, publishers[p]) ELSE Missing(p)
  /\ KeepObjects

(* The children of the node or record that was read get proofs.            *)
Derive(p) ==
  LET me == publishers[p] IN
  /\ Phase(p, "derive")
  /\ IF me.roots \subseteq objects
     THEN PublisherBecomes(p, WithProofs(Returned(me), Refs(me.roots))) /\ UNCHANGED failures
     ELSE Missing(p)
  /\ KeepObjects

(* A plan that names the candidate's own object ends the call as well      *)
(* (verify_publication); an object's identity is drawn after the plan.     *)
ReadCandidates(p) ==
  LET me == publishers[p]
      plan == me.view.head.active_plan
  IN
  /\ Phase(p, "plan")
  /\ IF plan \in plans /\ me.new \notin contents[plan].refs
     THEN Advance(p, [me EXCEPT !.blocked = contents[plan].refs])
     ELSE /\ PublisherBecomes(p, IF plan \in plans THEN Failed(me)
                                 ELSE [me EXCEPT !.todo[1] = "missing"])
          /\ UNCHANGED failures
  /\ KeepObjects

(* The head is read again to tell an expired view from a corrupt log.      *)
ExplainMissing(p) ==
  LET h == publishers[p].view.head IN
  /\ Phase(p, "missing")
  /\ planErrors' = planErrors \cup {MissingPlan(h, h.active_plan, head)}
  /\ PublisherBecomes(p, Failed(publishers[p]))
  /\ KeepObjects
  /\ UNCHANGED failures

(* mark_object_graph: what is known of the graph but not read yet.         *)
Frontier(roots, visited) == (roots \cup Refs(visited)) \ visited

(* Mutation: only the roots are compared with the deletion plan.           *)
WalkRootsGuarded(p) ==
  LET me == publishers[p] IN
  /\ Phase(p, "walk")
  /\ IF me.roots \cap me.blocked # {}
     THEN PublisherBecomes(p, Failed(me)) /\ UNCHANGED failures
     ELSE \E k \in Frontier(me.roots, me.visited) :
            LET next == [me EXCEPT !.visited = @ \cup {k}] IN
            CASE k \notin objects -> Missing(p)
              [] k \in objects /\ Frontier(me.roots, next.visited) = {} -> Advance(p, next)
              [] OTHER -> PublisherBecomes(p, next) /\ UNCHANGED failures
  /\ KeepObjects

(* mark_object_graph(VerifyBlobs): the reads finish in any order, a child  *)
(* that the plan names ends the walk (CollectionFence).                    *)
Walk(p) ==
  LET me == publishers[p] IN
  /\ Phase(p, "walk")
  /\ IF Frontier(me.roots, me.visited) \cap me.blocked # {}
     THEN PublisherBecomes(p, Failed(me)) /\ UNCHANGED failures
     ELSE \E k \in Frontier(me.roots, me.visited) :
            LET next == [me EXCEPT !.visited = @ \cup {k}] IN
            CASE k \notin objects -> Missing(p)
              [] k \in objects /\ Frontier(me.roots, next.visited) = {} -> Advance(p, next)
              [] OTHER -> PublisherBecomes(p, next) /\ UNCHANGED failures
  /\ KeepObjects

(* create_fresh_object_with and ensure_immutable write the object; an      *)
(* error hides a create that took effect, may still, or never will.        *)
Create(p) ==
  /\ Phase(p, "create") \/ Phase(p, "ensure")
  /\ publishers[p].new \notin objects
  /\ objects' = objects \cup {publishers[p].new}
  /\ Advance(p, publishers[p])
  /\ UNCHANGED <<contents, creating>>

CreateExists(p) ==
  /\ Phase(p, "ensure")
  /\ publishers[p].new \in objects
  /\ PublisherBecomes(p, [publishers[p] EXCEPT !.todo[1] = "reread"])
  /\ KeepObjects
  /\ UNCHANGED failures

CreateFails(p) ==
  LET me == publishers[p] IN
  /\ \/ Phase(p, "create") /\ PublisherBecomes(p, Failed(me))
     \/ Phase(p, "ensure") /\ PublisherBecomes(p, [me EXCEPT !.todo[1] = "confirm"])
  /\ \/ objects' = objects \cup {me.new} /\ UNCHANGED creating
     \/ creating' = creating \cup ({me.new} \ objects) /\ UNCHANGED objects
  /\ UNCHANGED <<contents, failures>>

(* ensure_immutable reads back a commit that it did not create.            *)
Confirm(p) ==
  /\ Phase(p, "confirm") \/ Phase(p, "reread")
  /\ CASE publishers[p].new \in objects -> Advance(p, publishers[p])
       [] publishers[p].new \notin objects /\ Phase(p, "confirm") ->
            PublisherBecomes(p, Unavailable(publishers[p])) /\ UNCHANGED failures
       [] publishers[p].new \notin objects /\ Phase(p, "reread") -> Missing(p)
  /\ KeepObjects

-----------------------------------------------------------------------------
(* publish_head_compatible; from here on the handle's own proofs cover the *)
(* evidence                                                                *)

Proposed(p) == Proposal(publishers[p].evidence, publishers[p].current.head)

Owned(me) == [me EXCEPT !.evidence.proven = TRUE]

PublishApplied(p) ==
  LET me == publishers[p] IN
  /\ Phase(p, "publish")
  /\ UpdateApplied(me.current, Proposed(p))
  /\ PublisherBecomes(p, [Settled(me) EXCEPT !.view = [head |-> head', version |-> version'],
                                             !.blocked = NotRead])

PublishRejected(p) ==
  /\ Phase(p, "publish")
  /\ UpdateInFlight(publishers[p].current, Proposed(p))
  /\ PublisherBecomes(p, [Owned(publishers[p]) EXCEPT !.todo[1] = "reload"])

PublishUncertain(p) ==
  /\ Phase(p, "publish")
  /\ UpdateInFlight(publishers[p].current, Proposed(p))
  /\ PublisherBecomes(p, StillPending(Owned(publishers[p])))

(* The answers of a changed or contended head are those of Commits and     *)
(* Checkpoints; none of them touches an object.                            *)
Reload(p) ==
  LET me == publishers[p]
      next == PublishReload(me.current, Observed, me.attempt,
                            Compatible(me.evidence, me.source.head, head))
  IN
  /\ Phase(p, "reload")
  /\ PublisherBecomes(p,
       CASE next = "Pending" -> StillPending(me)
         [] next = "Retry" -> [me EXCEPT !.todo[1] = "publish", !.current = Observed,
                                         !.attempt = @ + 1]
         [] OTHER -> Settled(me))
  /\ KeepObjects
  /\ UNCHANGED failures

(* The process stops and opens the log again: what it has stored is the    *)
(* recovery token of a commit.                                             *)
Restart(p) ==
  LET e == publishers[p].evidence IN
  /\ publishers[p].proofs # {} \/ e # NoEvidence \/ publishers[p].call # "none"
  /\ PublisherBecomes(p, [IdlePublisher EXCEPT
       !.view = Observed,
       !.evidence = IF e.kind = "commit" THEN [e EXCEPT !.proven = FALSE] ELSE NoEvidence])
  /\ KeepObjects
  /\ UNCHANGED failures

(* The log is opened again, which makes a new staging domain; a pending    *)
(* checkpoint is given to the new handle.                                  *)
Reopen(p) ==
  LET me == publishers[p] IN
  /\ Uncertain(p) /\ me.evidence.proven /\ me.evidence.kind = "checkpoint"
  /\ PublisherBecomes(p, [me EXCEPT !.proofs = {}, !.evidence.proven = FALSE])
  /\ KeepObjects
  /\ UNCHANGED failures

(* A failed create takes effect after all.                                 *)
LandCreate ==
  /\ \E k \in creating : objects' = objects \cup {k} /\ creating' = creating \ {k}
  /\ UNCHANGED <<contents, publishers, failures>>

-----------------------------------------------------------------------------
StartCall(p) ==
  \/ PutObject(p)
  \/ \E refs \in SUBSET Proven(publishers[p]) :
       \/ PutNode(p, refs)
       \/ Commit(p, refs)
       \/ \E through \in Range(publishers[p].view.head.tail) :
            PublishCheckpoint(p, through, refs)

ReadStep(p) ==
  \/ LoadView(p)
  \/ \E key \in DOMAIN contents :
       StageObjects(p, key) \/ ReadStagedNode(p, key) \/ ReadRecord(p, key)
  \/ Derive(p)
  \/ Resolve(p)
  \/ Resume(p)
  \/ ReadTail(p)
  \/ ReadBody(p)
  \/ ReadCandidates(p)
  \/ Walk(p)
  \/ Create(p)
  \/ CreateExists(p)
  \/ Confirm(p)
  \/ Reload(p)

(* Storage and the process do what they should.                            *)
PublisherStep(p) ==
  \/ /\ StartCall(p) /\ Draw(p)
     /\ UNCHANGED <<head, version, late, history, bases, collectorVars>>
  \/ ReadStep(p) /\ UNCHANGED <<storeVars, collectorVars>>
  \/ ExplainMissing(p) /\ UNCHANGED <<storeVars, collectors, plans, swept>>
  \/ /\ PublishApplied(p) \/ (PublishRejected(p) /\ ~Matches(publishers[p].current.version))
     /\ KeepObjects
     /\ UNCHANGED <<failures, quota, collectorVars>>

(* They do not: a request fails or its effect is hidden, the process stops.*)
PublisherFault(p) ==
  \/ /\ RequestFails(p) \/ CreateFails(p) \/ Restart(p) \/ Reopen(p)
     /\ UNCHANGED <<storeVars, collectorVars>>
  \/ /\ PublishUncertain(p) \/ (PublishRejected(p) /\ Matches(publishers[p].current.version))
     /\ KeepObjects
     /\ UNCHANGED <<failures, quota, collectorVars>>

=============================================================================
