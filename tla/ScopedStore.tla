----------------------------- MODULE ScopedStore ----------------------------
(***************************************************************************)
(* The requests of one log's namespace (ScopedStore in store.rs):          *)
(* admission by a chain of request guards, reads that are repeated after a *)
(* generic failure, bodies collected under a byte limit, conditional       *)
(* writes sent once, and batches of deletes.  Operations run concurrently  *)
(* and can be dropped at any await; each guard admits atomically, the      *)
(* chain does not.                                                         *)
(***************************************************************************)
EXTENDS Integers, Sequences, FiniteSets

CONSTANTS
  None,               \* the absent Option
  Tasks,              \* operations in flight at once
  Keys,               \* immutable objects
  Budgets,            \* what each guard of the chain admits, outermost first
  MaxBytes,           \* the byte limit that readers pass
  SAFE_READ_ATTEMPTS, \* how often a read is tried
  MAX_DELETE_BATCH    \* keys in one delete request

VARIABLES
  present,  \* the keys that exist
  tasks,    \* the operation of each task
  charged,  \* what each guard has admitted, without refunds
  calls     \* guarded invocations of the client so far (observer)

vars == <<present, tasks, charged, calls>>

(* guard:    the guard of the chain that is asked next                     *)
(* attempt:  tries of a read before this one                               *)
(* buffered: body bytes collected                                          *)
(* pending:  keys of a delete without a result; failed: first_error is set *)
NoTask == [pc |-> "idle", op |-> None, keys |-> {}, guard |-> 0, attempt |-> 0,
           buffered |-> 0, pending |-> {}, failed |-> FALSE, answer |-> None]

Init ==
  /\ present \in SUBSET Keys
  /\ tasks = [t \in Tasks |-> NoTask]
  /\ charged = [g \in 1 .. Len(Budgets) |-> 0]
  /\ calls = 0

-----------------------------------------------------------------------------
TaskBecomes(t, task) == tasks' = [tasks EXCEPT ![t] = task]

Answer(t, answer) ==
  TaskBecomes(t, [tasks[t] EXCEPT !.pc = "idle", !.answer = answer, !.buffered = 0])

(* with_request_guard puts a new guard behind the ones already there.      *)
FirstGuard == 1

Ask(task) == [task EXCEPT !.pc = "admit", !.guard = FirstGuard]

BeginRead(t, k) ==
  /\ tasks[t].pc = "idle"
  /\ TaskBecomes(t, Ask([NoTask EXCEPT !.op = "read", !.keys = {k}]))
  /\ UNCHANGED <<present, charged, calls>>

BeginCreate(t, k) ==
  /\ tasks[t].pc = "idle"
  /\ TaskBecomes(t, Ask([NoTask EXCEPT !.op = "create", !.keys = {k}]))
  /\ UNCHANGED <<present, charged, calls>>

BeginUpdate(t, k) ==
  /\ tasks[t].pc = "idle"
  /\ TaskBecomes(t, Ask([NoTask EXCEPT !.op = "update", !.keys = {k}]))
  /\ UNCHANGED <<present, charged, calls>>

(* list_scoped is admitted when its stream is first polled.                *)
BeginList(t) ==
  /\ tasks[t].pc = "idle"
  /\ TaskBecomes(t, Ask([NoTask EXCEPT !.op = "list"]))
  /\ UNCHANGED <<present, charged, calls>>

(* delete_immutable_batch refuses a large batch, and sends no empty one.   *)
BeginDelete(t, keys) ==
  LET task == [NoTask EXCEPT !.op = "delete", !.keys = keys] IN
  /\ tasks[t].pc = "idle"
  /\ TaskBecomes(t,
       CASE Cardinality(keys) > MAX_DELETE_BATCH -> [task EXCEPT !.answer = "LimitExceeded"]
         [] keys = {} -> [task EXCEPT !.answer = "Ok"]
         [] OTHER -> Ask(task))
  /\ UNCHANGED <<present, charged, calls>>

(* Guards::before_request: each guard charges or denies.  What an earlier  *)
(* guard has charged stays charged when a later one denies.                *)
Admit(t) ==
  LET g == tasks[t].guard IN
  /\ tasks[t].pc = "admit"
  /\ IF g <= Len(Budgets)
     THEN /\ IF charged[g] < Budgets[g]
             THEN /\ charged' = [charged EXCEPT ![g] = @ + 1]
                  /\ TaskBecomes(t, [tasks[t] EXCEPT !.guard = @ + 1])
             ELSE Answer(t, "RequestDenied") /\ UNCHANGED charged
          /\ UNCHANGED calls
     ELSE /\ TaskBecomes(t, [tasks[t] EXCEPT !.pc = tasks[t].op,
                  !.pending = IF tasks[t].op = "delete" THEN tasks[t].keys ELSE {}])
          /\ calls' = IF Budgets = <<>> THEN calls ELSE calls + 1
          /\ UNCHANGED charged
  /\ UNCHANGED present

-----------------------------------------------------------------------------
(* retry_safe_read: after a generic failure the read starts over, body and *)
(* admission included, until the attempts are used up.                     *)
Retry(task) ==
  IF task.attempt + 1 < SAFE_READ_ATTEMPTS
  THEN Ask([task EXCEPT !.attempt = @ + 1, !.buffered = 0])
  ELSE [task EXCEPT !.pc = "idle", !.answer = "StoreError", !.buffered = 0]

ReadAnswered(t) ==
  LET task == tasks[t] IN
  /\ task.pc = "read"
  /\ \/ task.keys \subseteq present /\ TaskBecomes(t, [task EXCEPT !.pc = "body"])
     \/ ~(task.keys \subseteq present) /\ Answer(t, "Missing")
     \/ TaskBecomes(t, Retry(task))
     \/ Answer(t, "StoreError")        \* a failure that is not generic
     \/ Answer(t, "LimitExceeded")     \* the declared size is too large
  /\ UNCHANGED <<present, charged, calls>>

(* collect_object and collect_integrity count what really arrives.         *)
TooLarge(size) == size > MaxBytes

ReadChunk(t, size) ==
  LET task == tasks[t] IN
  /\ task.pc = "body"
  /\ task.buffered <= MaxBytes
  /\ IF TooLarge(task.buffered + size)
     THEN Answer(t, "LimitExceeded")
     ELSE TaskBecomes(t, [task EXCEPT !.buffered = @ + size])
  /\ UNCHANGED <<present, charged, calls>>

ReadEnds(t) ==
  /\ tasks[t].pc = "body"
  /\ \/ Answer(t, "Found")
     \/ TaskBecomes(t, Retry(tasks[t]))
  /\ UNCHANGED <<present, charged, calls>>

(* create: one conditional PUT.                                            *)
WriteAnswered(t) ==
  LET k == tasks[t].keys IN
  /\ tasks[t].pc = "create"
  /\ \/ k \cap present = {} /\ present' = present \cup k /\ Answer(t, "Created")
     \/ k \subseteq present /\ Answer(t, "Exists") /\ UNCHANGED present
     \/ Answer(t, "StoreError") /\ present' \in {present, present \cup k}
  /\ UNCHANGED <<charged, calls>>

(* update, with the versions left out: of the bytes nothing is told apart. *)
UpdateAnswered(t) ==
  /\ tasks[t].pc = "update"
  /\ \/ tasks[t].keys \subseteq present /\ Answer(t, "Updated")
     \/ Answer(t, "Stale")
     \/ Answer(t, "StoreError")
  /\ UNCHANGED <<present, charged, calls>>

ListEnds(t) ==
  /\ tasks[t].pc = "list"
  /\ Answer(t, "Ok") \/ Answer(t, "StoreError")
  /\ UNCHANGED <<present, charged, calls>>

(* One result of the delete stream; NotFound is a success.                 *)
DeleteResult(t, k) ==
  LET task == tasks[t] IN
  /\ task.pc = "delete"
  /\ k \in task.pending
  /\ \/ /\ present' = present \ {k}
        /\ TaskBecomes(t, [task EXCEPT !.pending = @ \ {k}])
     \/ /\ present' \in {present, present \ {k}}
        /\ TaskBecomes(t, [task EXCEPT !.pending = @ \ {k}, !.failed = TRUE])
  /\ UNCHANGED <<charged, calls>>

(* Mutation: the first error ends the batch.                               *)
DeleteEndsEarly(t) ==
  /\ tasks[t].pc = "delete"
  /\ tasks[t].pending = {} \/ tasks[t].failed
  /\ Answer(t, IF tasks[t].failed THEN "StoreError" ELSE "Ok")
  /\ UNCHANGED <<present, charged, calls>>

(* The batch answers once every result has been drained.                   *)
DeleteEnds(t) ==
  /\ tasks[t].pc = "delete"
  /\ tasks[t].pending = {}
  /\ Answer(t, IF tasks[t].failed THEN "StoreError" ELSE "Ok")
  /\ UNCHANGED <<present, charged, calls>>

(* The caller drops the operation; nothing is refunded.                    *)
Drop(t) ==
  /\ tasks[t].pc # "idle"
  /\ TaskBecomes(t, NoTask)
  /\ UNCHANGED <<present, charged, calls>>

Progress(t) ==
  \/ Admit(t)
  \/ ReadAnswered(t)
  \/ \E size \in 1 .. MaxBytes : ReadChunk(t, size)
  \/ ReadEnds(t)
  \/ WriteAnswered(t)
  \/ UpdateAnswered(t)
  \/ ListEnds(t)
  \/ \E k \in Keys : DeleteResult(t, k)
  \/ DeleteEnds(t)

Next ==
  \E t \in Tasks :
    \/ \E k \in Keys : BeginRead(t, k) \/ BeginCreate(t, k) \/ BeginUpdate(t, k)
    \/ BeginList(t)
    \/ \E keys \in SUBSET Keys : BeginDelete(t, keys)
    \/ Progress(t)
    \/ Drop(t)

Spec == Init /\ [][Next]_vars

-----------------------------------------------------------------------------
(* However operations interleave, are repeated, denied half way down the   *)
(* chain or dropped, every call of the client has been paid for at every   *)
(* guard, so that the calls stay within each guard's budget.               *)
CallsArePaid ==
  \A g \in 1 .. Len(Budgets) : calls <= charged[g] /\ charged[g] <= Budgets[g]

(* A reader never holds more than the bytes it asked for, whatever the     *)
(* store declared and sends.                                               *)
BodiesAreBounded == \A t \in Tasks : tasks[t].buffered <= MaxBytes

(* A batch answers only when each of its deletes has been answered, so     *)
(* that none is still at work after an error has been reported.            *)
BatchesAreDrained ==
  \A t \in Tasks : tasks[t].op = "delete" /\ tasks[t].pc = "idle"
                     /\ tasks[t].answer \in {"Ok", "StoreError"} => tasks[t].pending = {}

=============================================================================
