------------------------------ MODULE Transport -----------------------------
(***************************************************************************)
(* The component's HTTP transport (transport.rs, request_retry.rs): calls  *)
(* that share one budget, each an exchange whose upload and response run   *)
(* side by side, and the single replay of reads and conditional writes     *)
(* whose response was lost.  The server (external) may answer before it    *)
(* has read the body, and may act on an attempt that the client has given  *)
(* up.                                                                     *)
(*                                                                         *)
(* Calls are GETs ("read"), PUTs with an exact If-Match or If-None-Match   *)
(* condition ("put"), and everything else ("other").                       *)
(***************************************************************************)
EXTENDS Integers, FiniteSets

CONSTANTS
  Calls,      \* call -> its kind
  Chunks,     \* chunks of the body of a write, and of a response
  MaxCalls,   \* Budget::max_calls
  MaxBytes,   \* Budget::max_bytes, in chunks
  MaxFaults,  \* bound: lost responses, broken uploads, dropped calls
  MaxOthers   \* bound: writes by other clients

VARIABLES
  call,      \* the calls: pc, attempt, up, resp, sent, expect, answer
  budget,    \* Budget: calls, bytes
  server,    \* version of the object; messages: attempts not yet acted on;
             \* replies: answers not yet delivered; applied: effects per call
  traffic,   \* attempts made, chunks uploaded and delivered (observer)
  faults

vars == <<call, budget, server, traffic, faults>>

Writes(c) == Calls[c] # "read"

NoCall == [pc |-> "idle", attempt |-> 1, up |-> "run", resp |-> "wait", sent |-> 0,
           expect |-> 0, answer |-> "none"]

Init ==
  /\ call = [c \in DOMAIN Calls |-> NoCall]
  /\ budget = [calls |-> 0, bytes |-> 0]
  /\ server = [version |-> 0, messages |-> {}, replies |-> {},
               applied |-> [c \in DOMAIN Calls |-> 0]]
  /\ traffic = [attempts |-> 0, uploaded |-> 0, delivered |-> 0]
  /\ faults = 0

CallBecomes(c, r) == call' = [call EXCEPT ![c] = r]

Fault == faults < MaxFaults /\ faults' = faults + 1

-----------------------------------------------------------------------------
(* Service::call starts; a put carries the version that the caller read.   *)
Begin(c) ==
  /\ call[c].pc = "idle"
  /\ CallBecomes(c, [call[c] EXCEPT !.pc = "charge", !.expect = server.version])
  /\ UNCHANGED <<budget, server, traffic, faults>>

(* retry_request: what is replayed, and what a failed replay says.         *)
Replayable(c) == Calls[c] \in {"read", "put"}

(* Mutation: the answer to the replay is the answer to the call.           *)
ReplayDecides(c, result) ==
  LET r == call[c] IN
  IF r.attempt = 1 /\ result = "lost" /\ Replayable(c)
  THEN [r EXCEPT !.pc = "charge", !.attempt = 2, !.up = "run", !.resp = "wait", !.sent = 0]
  ELSE [r EXCEPT !.pc = IF result \in {"ok", "rejected"} THEN "body" ELSE "ended",
                 !.answer = result]

(* An attempt ends with `result`: a lost response is retried once; a write *)
(* that was replayed without success keeps its first error.                *)
Attempted(c, result) ==
  LET r == call[c]
      answer == IF r.attempt = 2 /\ Calls[c] # "read" /\ result # "ok" THEN "lost"
                ELSE result
  IN
  IF r.attempt = 1 /\ result = "lost" /\ Replayable(c)
  THEN [r EXCEPT !.pc = "charge", !.attempt = 2, !.up = "run", !.resp = "wait", !.sent = 0]
  ELSE [r EXCEPT !.pc = IF answer \in {"ok", "rejected"} THEN "body" ELSE "ended",
                 !.answer = answer]

(* Budget::charge: a refused charge leaves the counter alone.              *)
Charge(field, limit) ==
  IF budget[field] < limit THEN budget' = [budget EXCEPT ![field] = @ + 1]
  ELSE UNCHANGED budget

(* call_once: every attempt is charged, then goes out.                     *)
Send(c) ==
  LET fits == budget.calls < MaxCalls IN
  /\ call[c].pc = "charge"
  /\ Charge("calls", MaxCalls)
  /\ CallBecomes(c, IF fits THEN [call[c] EXCEPT !.pc = "exchange"]
                            ELSE Attempted(c, "failed"))
  /\ server' = IF fits THEN [server EXCEPT !.messages = @ \union {<<c, call[c].attempt>>}]
                       ELSE server
  /\ traffic' = IF fits THEN [traffic EXCEPT !.attempts = @ + 1] ELSE traffic
  /\ UNCHANGED faults

Length(c) == IF Writes(c) THEN Chunks ELSE 0

(* The server has not yet refused the attempt: it still reads the body.    *)
ServerReads(c) == <<c, call[c].attempt, "rejected">> \notin server.replies

(* The upload: each chunk is charged before it is written.                 *)
Upload(c) ==
  /\ call[c].pc = "exchange" /\ call[c].up = "run" /\ call[c].resp # "rejected"
  /\ ServerReads(c)
  /\ IF call[c].sent = Length(c) THEN
       /\ CallBecomes(c, [call[c] EXCEPT !.up = "ok"])
       /\ UNCHANGED <<budget, traffic>>
     ELSE
       /\ Charge("bytes", MaxBytes)
       /\ IF budget.bytes < MaxBytes
          THEN /\ CallBecomes(c, [call[c] EXCEPT !.sent = @ + 1])
               /\ traffic' = [traffic EXCEPT !.uploaded = @ + 1]
          ELSE /\ CallBecomes(c, [call[c] EXCEPT !.up = "err"])
               /\ UNCHANGED traffic
  /\ UNCHANGED <<server, faults>>

(* The server closes the upload stream, or it breaks; OutgoingBody::finish *)
(* may fail with an error code that is retried.                            *)
UploadBreaks(c) ==
  /\ call[c].pc = "exchange" /\ call[c].up = "run"
  /\ Fault
  /\ \E error \in {"lost", "err"} : CallBecomes(c, [call[c] EXCEPT !.up = error])
  /\ UNCHANGED <<budget, server, traffic>>

(* The response, or the failure to get one: "lost" is one of the error     *)
(* codes after which the request may have been served, "failed" another.   *)
Respond(c) ==
  /\ call[c].pc = "exchange" /\ call[c].resp = "wait"
  /\ \E reply \in server.replies :
       /\ reply[1] = c /\ reply[2] = call[c].attempt
       /\ CallBecomes(c, [call[c] EXCEPT !.resp = reply[3]])
       /\ server' = [server EXCEPT !.replies = @ \ {reply}]
  /\ UNCHANGED <<budget, traffic, faults>>

ResponseFails(c) ==
  /\ call[c].pc = "exchange" /\ call[c].resp = "wait"
  /\ Fault
  /\ \E error \in {"lost", "failed"} : CallBecomes(c, [call[c] EXCEPT !.resp = error])
  /\ UNCHANGED <<budget, server, traffic>>

(* The host ends the other side of an exchange that has failed on one      *)
(* (external): the connection is gone, or the body was dropped unfinished. *)
OtherSideFails(c) ==
  LET r == call[c] IN
  /\ r.pc = "exchange"
  /\ \/ /\ r.up \in {"lost", "err"} /\ r.resp = "wait"
        /\ CallBecomes(c, [r EXCEPT !.resp = "failed"])
     \/ /\ r.resp \in {"lost", "failed"} /\ r.up = "run"
        /\ CallBecomes(c, [r EXCEPT !.up = "err"])
  /\ UNCHANGED <<budget, server, traffic, faults>>

(* What the exchange returns once it is decided.                           *)
Exchanged(r) ==
  CASE r.resp = "rejected" \/ r.up = "ok" -> r.resp
    [] r.resp # "rejected" /\ r.up = "lost" -> "lost"
    [] OTHER -> "failed"

(* Mutation: a rejection waits for the upload too.                         *)
WaitForBoth(c) ==
  LET r == call[c] IN
  /\ r.pc = "exchange" /\ r.resp # "wait" /\ r.up # "run"
  /\ CallBecomes(c, Attempted(c, Exchanged(r)))
  /\ UNCHANGED <<budget, server, traffic, faults>>

(* finish_exchange: a definite rejection wins at once; anything else waits *)
(* for both sides, and an upload error wins.                               *)
FinishExchange(c) ==
  LET r == call[c] IN
  /\ r.pc = "exchange" /\ r.resp # "wait"
  /\ r.resp = "rejected" \/ r.up # "run"
  /\ CallBecomes(c, Attempted(c, Exchanged(r)))
  /\ UNCHANGED <<budget, server, traffic, faults>>

(* The response body: a chunk that the budget refuses is not delivered.    *)
ReadBody(c) ==
  /\ call[c].pc = "body"
  /\ Charge("bytes", MaxBytes)
  /\ traffic' = IF budget.bytes < MaxBytes THEN [traffic EXCEPT !.delivered = @ + 1]
                ELSE traffic
  /\ CallBecomes(c, [call[c] EXCEPT !.pc = "ended"])
  /\ UNCHANGED <<server, faults>>

Drop(c) ==
  /\ call[c].pc \in {"charge", "exchange"}
  /\ Fault
  /\ CallBecomes(c, [call[c] EXCEPT !.pc = "ended"])
  /\ UNCHANGED <<budget, server, traffic>>

-----------------------------------------------------------------------------
(* The server (external): it acts on a write once it has the whole body,   *)
(* and refuses one whose condition does not hold as soon as it sees it.    *)
Complete(c, attempt) ==
  attempt < call[c].attempt \/ call[c].sent = Length(c)

Serve(c, attempt) ==
  LET holds == Calls[c] = "put" => server.version = call[c].expect
      taken == [server EXCEPT !.messages = @ \ {<<c, attempt>>}]
      Replied(s, result) == [s EXCEPT !.replies = @ \union {<<c, attempt, result>>}]
  IN
  /\ <<c, attempt>> \in server.messages
  /\ server' = IF ~Writes(c) THEN Replied(taken, "ok")
               ELSE IF holds
               THEN Replied([taken EXCEPT !.version = @ + 1, !.applied[c] = @ + 1], "ok")
               ELSE Replied(taken, "rejected")
  /\ holds => Complete(c, attempt)
  /\ UNCHANGED <<call, budget, traffic, faults>>

Other ==
  /\ server.version < MaxOthers
  /\ server' = [server EXCEPT !.version = @ + 1]
  /\ UNCHANGED <<call, budget, traffic, faults>>

Progress(c) ==
  \/ Send(c)
  \/ Upload(c)
  \/ Respond(c)
  \/ OtherSideFails(c)
  \/ FinishExchange(c)
  \/ ReadBody(c)

Next ==
  \/ \E c \in DOMAIN Calls :
       \/ Begin(c)
       \/ Progress(c)
       \/ UploadBreaks(c)
       \/ ResponseFails(c)
       \/ Drop(c)
       \/ \E attempt \in 1 .. 2 : Serve(c, attempt)
  \/ Other

Spec == Init /\ [][Next]_vars

-----------------------------------------------------------------------------
(* A definite answer is true: a write that is answered with success took   *)
(* effect, one that is answered with a rejection did not and never will,   *)
(* although it may have been sent twice.                                   *)
AnswersAreTrue ==
  \A c \in DOMAIN Calls : Writes(c) =>
    /\ call[c].answer = "ok" => server.applied[c] > 0
    /\ call[c].answer = "rejected" =>
         /\ server.applied[c] = 0
         /\ \A message \in server.messages : message[1] # c

(* No write takes effect twice, whatever is lost, late or replayed.        *)
WritesApplyOnce == \A c \in DOMAIN Calls : server.applied[c] <= 1

(* Replays, refused charges and dropped calls included, the budget bounds  *)
(* the attempts made and the bytes moved, and counts no less than them.    *)
BudgetCoversTraffic ==
  /\ traffic.attempts <= budget.calls /\ budget.calls <= MaxCalls
  /\ traffic.uploaded + traffic.delivered <= budget.bytes /\ budget.bytes <= MaxBytes

(* Every call made has ended.                                              *)
AllEnded == \A c \in DOMAIN Calls : call[c].pc \in {"idle", "ended"}

=============================================================================
