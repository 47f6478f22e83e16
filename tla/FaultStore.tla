----------------------------- MODULE FaultStore -----------------------------
(***************************************************************************)
(* The fault-injecting store the tests of this repository run on (sim.rs): *)
(* one-shot failures and PUT rejections keyed by operation and occurrence, *)
(* pauses, and request accounting, shared by concurrent requests behind a  *)
(* mutex.  Every lock of that mutex is one step.  The operations stand for *)
(* the four request shapes: "put" and "get" go through execute (so do      *)
(* delete, copy, rename, ranged reads and the other multipart calls),      *)
(* "part" checks failures without pauses, "list" is a stream.              *)
(***************************************************************************)
EXTENDS Integers, Sequences, FiniteSets, FiniteSetsExt

CONSTANTS
  None,          \* the absent Option
  Operations,    \* the operations in use, of {"put", "get", "part", "list"}
  MaxRequests,   \* bound: requests issued
  MaxControls,   \* bound: faults and pauses scheduled
  MaxResets      \* bound: calls of reset

VARIABLES
  metrics,    \* counters of each operation
  events,     \* the request events recorded, in completion order
  sequence,   \* State::next_sequence
  failures,   \* scheduled failures: [operation, occurrence, phase]
  rejections, \* rejected_puts, in the same form
  pause,      \* the scheduled pause, or None
  recording,  \* State::record_events
  requests,   \* the requests accepted so far, with their progress
  applied,    \* requests that the wrapped store has executed (observer)
  fired,      \* <<control, request>> for each control that acted (observer)
  controls,   \* how many faults and pauses were scheduled
  resets      \* how many resets there were

vars == <<metrics, events, sequence, failures, rejections, pause, recording,
          requests, applied, fired, controls, resets>>

state == <<metrics, events, sequence, failures, rejections, pause, recording>>
budget == <<controls, resets>>

Phases == {"before", "after"}

(* OperationMetrics; "uploaded" counts requests instead of their bytes.    *)
NoMetrics == [requests |-> 0, succeeded |-> 0, visible |-> 0, backendErrors |-> 0,
              injectedBefore |-> 0, injectedAfter |-> 0, uploaded |-> 0]

Init ==
  /\ metrics = [o \in Operations |-> NoMetrics]
  /\ events = <<>>
  /\ sequence = 0
  /\ failures = {}
  /\ rejections = {}
  /\ pause = None
  /\ recording = TRUE
  /\ requests = <<>>
  /\ applied = {}
  /\ fired = {}
  /\ controls = 0
  /\ resets = 0

-----------------------------------------------------------------------------
(* The controls that a test calls.                                         *)
Matching(set, operation, occurrence) ==
  {f \in set : f.operation = operation /\ f.occurrence = occurrence}

Control(operation, occurrence, phase) ==
  [id |-> controls + 1, operation |-> operation,
   occurrence |-> occurrence, phase |-> phase]

Spend == controls < MaxControls /\ controls' = controls + 1

(* schedule, and fail_next, which schedules the occurrence after the       *)
(* requests accepted so far: the new fault replaces whatever was scheduled *)
(* for that request.                                                       *)
Schedule(operation, occurrence, phase) ==
  /\ Spend
  /\ rejections' = rejections \ Matching(rejections, operation, occurrence)
  /\ failures' = (failures \ Matching(failures, operation, occurrence))
                   \cup {Control(operation, occurrence, phase)}
  /\ UNCHANGED <<metrics, events, sequence, pause, recording,
                 requests, applied, fired, resets>>

(* reject_put_at                                                           *)
RejectPutAt(occurrence, phase) ==
  /\ Spend
  /\ failures' = failures \ Matching(failures, "put", occurrence)
  /\ rejections' = (rejections \ Matching(rejections, "put", occurrence))
                     \cup {Control("put", occurrence, phase)}
  /\ UNCHANGED <<metrics, events, sequence, pause, recording,
                 requests, applied, fired, resets>>

(* schedule_pause panics when a pause is waiting to be entered.            *)
SchedulePause(operation, occurrence, phase) ==
  /\ operation \in {"put", "get"}
  /\ pause = None
  /\ Spend
  /\ pause' = Control(operation, occurrence, phase)
  /\ UNCHANGED <<metrics, events, sequence, failures, rejections, recording,
                 requests, applied, fired, resets>>

ClearFailures ==
  /\ failures \cup rejections # {}
  /\ failures' = {}
  /\ rejections' = {}
  /\ UNCHANGED <<metrics, events, sequence, pause, recording, requests, applied,
                 fired, budget>>

RecordEvents ==
  /\ recording' = ~recording
  /\ UNCHANGED <<metrics, events, sequence, failures, rejections, pause, requests,
                 applied, fired, budget>>

(* reset replaces the state; requests in flight keep their tickets, and a  *)
(* request that has entered its pause stays there.                         *)
Reset ==
  /\ resets < MaxResets
  /\ resets' = resets + 1
  /\ metrics' = [o \in Operations |-> NoMetrics]
  /\ events' = <<>>
  /\ sequence' = 0
  /\ failures' = {}
  /\ rejections' = {}
  /\ pause' = None
  /\ recording' = TRUE
  /\ UNCHANGED <<requests, applied, fired, controls>>

-----------------------------------------------------------------------------
(* A request.  ticket: what start gave it.                                 *)
RequestBecomes(r, pc) == requests' = [requests EXCEPT ![r].pc = pc]

RequestEnds(r, outcome) ==
  requests' = [requests EXCEPT ![r].pc = "end", ![r].outcome = outcome]

KeepControls == UNCHANGED <<failures, rejections, pause, recording, budget>>

Start(operation) ==
  /\ Len(requests) < MaxRequests
  /\ sequence' = sequence + 1
  /\ metrics' = [metrics EXCEPT ![operation].requests = @ + 1]
  /\ requests' = Append(requests,
       [operation |-> operation, sequence |-> sequence',
        occurrence |-> metrics'[operation].requests,
        pc |-> IF operation \in {"part", "list"} THEN "failBefore" ELSE "pauseBefore",
        outcome |-> None, finishedIn |-> None])
  /\ KeepControls
  /\ UNCHANGED <<events, applied, fired>>

(* The four request shapes of the ObjectStore implementation.              *)
PutOpts == Start("put")
GetOpts == Start("get")
PutPart == Start("part")
ListObjects == Start("list")

Accept(operation) ==
  \/ operation = "put" /\ PutOpts
  \/ operation = "get" /\ GetOpts
  \/ operation = "part" /\ PutPart
  \/ operation = "list" /\ ListObjects

(* The control that matches the ticket of a request in this phase.         *)
Hits(set, r, phase) ==
  {f \in Matching(set, requests[r].operation, requests[r].occurrence) : f.phase = phase}

(* enter_pause, before and after the wrapped request.                      *)
EnterPause(r, phase) ==
  /\ requests[r].pc = (IF phase = "before" THEN "pauseBefore" ELSE "pauseAfter")
  /\ IF pause # None /\ Hits({pause}, r, phase) # {}
     THEN /\ pause' = None
          /\ fired' = fired \cup {<<pause, r>>}
          /\ RequestBecomes(r, IF phase = "before" THEN "pausedBefore" ELSE "pausedAfter")
     ELSE /\ RequestBecomes(r, IF phase = "before" THEN "rejectBefore" ELSE "failAfter")
          /\ UNCHANGED <<pause, fired>>
  /\ UNCHANGED <<metrics, events, sequence, failures, rejections, recording, applied, budget>>

(* PauseControl::release, or the control is dropped.                       *)
Release(r) ==
  /\ requests[r].pc \in {"pausedBefore", "pausedAfter"}
  /\ RequestBecomes(r, IF requests[r].pc = "pausedBefore" THEN "rejectBefore" ELSE "failAfter")
  /\ UNCHANGED <<state, applied, fired, budget>>

(* Mutation: the mutex is held while a request is paused.                  *)
FailBeforeLocked(r) ==
  LET hits == Hits(failures, r, "before") IN
  /\ requests[r].pc = "failBefore"
  /\ \A q \in DOMAIN requests : requests[q].pc \notin {"pausedBefore", "pausedAfter"}
  /\ failures' = failures \ hits
  /\ fired' = fired \cup {<<f, r>> : f \in hits}
  /\ IF hits # {} THEN RequestEnds(r, "InjectedBefore") ELSE RequestBecomes(r, "request")
  /\ UNCHANGED <<metrics, events, sequence, rejections, pause, recording, applied, budget>>

(* take_rejected_put and take_failure in the Before phase.                 *)
RejectBefore(r) ==
  LET hits == Hits(rejections, r, "before") IN
  /\ requests[r].pc = "rejectBefore"
  /\ rejections' = rejections \ hits
  /\ fired' = fired \cup {<<f, r>> : f \in hits}
  /\ IF hits # {} THEN RequestEnds(r, "InjectedBefore") ELSE RequestBecomes(r, "failBefore")
  /\ UNCHANGED <<metrics, events, sequence, failures, pause, recording, applied, budget>>

FailBefore(r) ==
  LET hits == Hits(failures, r, "before") IN
  /\ requests[r].pc = "failBefore"
  /\ failures' = failures \ hits
  /\ fired' = fired \cup {<<f, r>> : f \in hits}
  /\ IF hits # {} THEN RequestEnds(r, "InjectedBefore") ELSE RequestBecomes(r, "request")
  /\ UNCHANGED <<metrics, events, sequence, rejections, pause, recording, applied, budget>>

(* The wrapped request.  An error comes without effect here.               *)
BackendAnswers(r) ==
  /\ requests[r].pc = "request"
  /\ requests[r].operation # "list"
  /\ \/ /\ applied' = applied \cup {r}
        /\ RequestBecomes(r, IF requests[r].operation = "part" THEN "failAfter" ELSE "pauseAfter")
     \/ RequestEnds(r, "BackendError") /\ UNCHANGED applied
  /\ UNCHANGED <<state, fired, budget>>

(* The After phase; only execute asks for a rejection, after the failure.  *)
FailAfter(r) ==
  LET hits == Hits(failures, r, "after") IN
  /\ requests[r].pc = "failAfter"
  /\ failures' = failures \ hits
  /\ fired' = fired \cup {<<f, r>> : f \in hits}
  /\ LET outcome == IF hits # {} THEN "InjectedAfter" ELSE "Succeeded" IN
     requests' = [requests EXCEPT
       ![r].pc = IF requests[r].operation = "put" THEN "rejectAfter" ELSE "end",
       ![r].outcome = outcome]
  /\ UNCHANGED <<metrics, events, sequence, rejections, pause, recording, applied, budget>>

RejectAfter(r) ==
  LET hits == Hits(rejections, r, "after") IN
  /\ requests[r].pc = "rejectAfter"
  /\ rejections' = rejections \ hits
  /\ fired' = fired \cup {<<f, r>> : f \in hits}
  /\ RequestEnds(r, IF hits # {} THEN "InjectedAfter" ELSE requests[r].outcome)
  /\ UNCHANGED <<metrics, events, sequence, failures, pause, recording, applied, budget>>

-----------------------------------------------------------------------------
Counter(outcome) ==
  CASE outcome = "Succeeded" -> "succeeded"
    [] outcome = "BackendError" -> "backendErrors"
    [] outcome = "InjectedBefore" -> "injectedBefore"
    [] outcome = "InjectedAfter" -> "injectedAfter"

(* Mutation: what an injected error hides does not count as visible.       *)
VisibleIfAnswered(operation, outcome) == operation = "put" /\ outcome = "Succeeded"

(* is_mutation, and the outcomes after which the effect is there.          *)
CountsVisible(operation, outcome) ==
  operation = "put" /\ outcome \in {"Succeeded", "InjectedAfter"}

Bit(condition) == IF condition THEN 1 ELSE 0

(* finish: the counters and the event of one completed request.            *)
Finish(r, outcome) ==
  LET o == requests[r].operation IN
  /\ metrics' = [metrics EXCEPT
       ![o][Counter(outcome)] = @ + 1,
       ![o].visible = @ + Bit(CountsVisible(o, outcome)),
       ![o].uploaded = @ + Bit(o \in {"put", "part"} /\ outcome # "InjectedBefore")]
  /\ events' = IF recording
               THEN Append(events, [request |-> r, sequence |-> requests[r].sequence,
                                    outcome |-> outcome])
               ELSE events

EndRequest(r) ==
  /\ requests[r].pc = "end"
  /\ Finish(r, requests[r].outcome)
  /\ requests' = [requests EXCEPT ![r].pc = "done", ![r].finishedIn = resets]
  /\ KeepControls
  /\ UNCHANGED <<sequence, applied, fired>>

(* The stream of list: an error item is recorded once, and the stream goes *)
(* on; its end is recorded unless an error was.                            *)
ListItemFails(r) ==
  /\ requests[r].pc = "request" /\ requests[r].operation = "list"
  /\ requests[r].outcome = None
  /\ Finish(r, "BackendError")
  /\ requests' = [requests EXCEPT ![r].outcome = "BackendError", ![r].finishedIn = resets]
  /\ KeepControls
  /\ UNCHANGED <<sequence, applied, fired>>

ListEnds(r) ==
  /\ requests[r].pc = "request" /\ requests[r].operation = "list"
  /\ RequestBecomes(r, IF requests[r].outcome # None THEN "done" ELSE "failAfter")
  /\ applied' = applied \cup {r}
  /\ UNCHANGED <<state, fired, budget>>

(* The caller drops the future or the stream.                              *)
Cancel(r) ==
  /\ requests[r].pc \in {"pausedBefore", "pausedAfter", "request"}
  /\ RequestBecomes(r, "cancelled")
  /\ UNCHANGED <<state, applied, fired, budget>>

Progress(r) ==
  \/ \E phase \in Phases : EnterPause(r, phase)
  \/ RejectBefore(r)
  \/ FailBefore(r)
  \/ BackendAnswers(r)
  \/ FailAfter(r)
  \/ RejectAfter(r)
  \/ EndRequest(r)
  \/ ListEnds(r)

TestStep ==
  \/ \E o \in Operations, n \in 1 .. MaxRequests, phase \in Phases :
       Schedule(o, n, phase) \/ SchedulePause(o, n, phase)
  \/ \E n \in 1 .. MaxRequests, phase \in Phases :
       "put" \in Operations /\ RejectPutAt(n, phase)
  \/ ClearFailures
  \/ RecordEvents
  \/ Reset

Next ==
  \/ TestStep
  \/ \E o \in Operations : Accept(o)
  \/ \E r \in DOMAIN requests : Progress(r) \/ Release(r) \/ ListItemFails(r) \/ Cancel(r)

Spec == Init /\ [][Next]_vars

-----------------------------------------------------------------------------
(* At most one fault waits for each occurrence of an operation, whichever  *)
(* way it was scheduled; and a fault that has fired waits no longer        *)
(* (pending_failures), so that it cannot hit a second request.             *)
FaultsAreOneShot ==
  /\ \A f, g \in failures \cup rejections :
       f.operation = g.operation /\ f.occurrence = g.occurrence => f = g
  /\ \A p \in fired : p[1] \notin failures \cup rejections \cup {pause}

(* What the counters call an outcome is what happened in the wrapped       *)
(* store: an error injected before the request left no effect, one         *)
(* injected after it did.                                                  *)
OutcomeTellsEffect ==
  \A r \in DOMAIN requests : requests[r].pc = "done" =>
    \/ requests[r].outcome \in {"Succeeded", "InjectedAfter"} /\ r \in applied
    \/ requests[r].outcome = "InjectedBefore" /\ r \notin applied
    \/ requests[r].outcome = "BackendError"

(* The requests of an operation that completed since the last reset.       *)
Completed(o) ==
  {r \in DOMAIN requests : requests[r].operation = o /\ requests[r].finishedIn = resets}

(* Every completed request is counted under exactly one outcome, and has   *)
(* at most one event; requests that were dropped, or that are in flight,   *)
(* have none.                                                              *)
OutcomesAreCountedOnce ==
  \A o \in Operations :
    /\ metrics[o].succeeded + metrics[o].backendErrors + metrics[o].injectedBefore
         + metrics[o].injectedAfter = Cardinality(Completed(o))
    /\ \A i, j \in DOMAIN events : events[i].request = events[j].request => i = j

(* visible_mutations counts the completed PUTs that took effect, also      *)
(* those whose caller was given an error.                                  *)
VisibleMutationsCountEffects ==
  "put" \in Operations =>
    metrics["put"].visible = Cardinality(Completed("put") \cap applied)

(* All requests but the paused ones have ended.                            *)
AllPassed ==
  \A r \in DOMAIN requests :
    requests[r].pc \in {"done", "cancelled", "pausedBefore", "pausedAfter"}

=============================================================================
