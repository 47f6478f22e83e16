----------------------------- MODULE HeadStore ------------------------------
(***************************************************************************)
(* The one mutable object of a log and the conditional writes on it, as    *)
(* src/store.rs uses the object store: a write names the storage version   *)
(* it was computed from and takes effect only on that version.             *)
(*                                                                         *)
(* An update whose answer is not a success leaves its write in flight: it  *)
(* may take effect at any later time (the store was slow, the response was *)
(* lost, a transport replay overtook it) or never.  This covers an error   *)
(* after the write was applied, an error before it was applied, a          *)
(* rejection reported for a write that was applied, and a rejection of a   *)
(* write whose version is still current.                                   *)
(***************************************************************************)
EXTENDS Head

CONSTANTS
  Clients,      \* processes that hold a log handle
  MaxAttempts,  \* MAX_HEAD_PUBLICATION_ATTEMPTS
  Quotas        \* bound: how many identities (storage, retention, plan) each
                \* client may draw; a behaviour takes place under one of them

ASSUME IdentityAssumption == None \notin Clients \X Nat
ASSUME BoundsAssumption == MaxAttempts \in Nat \ {0} /\ Quotas \subseteq [Clients -> Nat]

Attempts == 0 .. MaxAttempts - 1

VARIABLES
  head,         \* the durable head
  version,      \* its storage version
  late,         \* conditional writes in flight: [version, head]
  quota,        \* how many fresh identities each client may still draw
  history,      \* every commit ever published, in order (observer)
  bases         \* every checkpoint object ever published (observer)

storeVars == <<head, version, late, quota, history, bases>>

StoreInit ==
  /\ head = Empty
  /\ version = 0
  /\ late = {}
  /\ quota \in Quotas
  /\ history = <<>>
  /\ bases = {}

(* A View: the head and the version it was read at.                        *)
Observed == [head |-> head, version |-> version]
NoView == [head |-> Empty, version |-> 0]

(* A random identity: StorageId::new, RetentionId::new.  No two are equal. *)
Fresh(c) == <<c, quota[c]>>
CanDraw(c) == quota[c] > 0
Draw(c) == CanDraw(c) /\ quota' = [quota EXCEPT ![c] = @ - 1]

-----------------------------------------------------------------------------
Matches(expected) == expected = version

Apply(h) ==
  /\ head' = h
  /\ version' = version + 1
  /\ late' = {w \in late : w.version = version + 1}
  /\ history' = IF h.next_sequence > head.next_sequence
                THEN Append(history, Newest(h.tail)) ELSE history
  /\ bases' = IF h.checkpoint # head.checkpoint
              THEN bases \cup {h.checkpoint.object} ELSE bases

(* ScopedStore::update answers with the new version.                       *)
UpdateApplied(view, h) == Matches(view.version) /\ Apply(h)

(* It answers with a rejection or an error, or the response is lost.       *)
UpdateInFlight(view, h) ==
  /\ late' = IF Matches(view.version)
             THEN late \cup {[version |-> view.version, head |-> h]} ELSE late
  /\ UNCHANGED <<head, version, history, bases>>

(* A write in flight takes effect.                                         *)
Land ==
  /\ \E w \in late : Matches(w.version) /\ Apply(w.head)
  /\ UNCHANGED quota

-----------------------------------------------------------------------------
(* Log::publish_head_compatible after a rejected update, given the head it *)
(* reloads: what the loop returns, or Retry.                               *)
SameObservation(view, current) == view = current

(* Mutation: a rejection is believed although the head has not changed.    *)
BelieveRejection(view, current, attempt, compatible) ==
  CASE ~compatible \/ SameObservation(view, current) -> "Changed"
    [] OTHER -> IF attempt + 1 = MaxAttempts THEN "Contended" ELSE "Retry"

(* Mutation: the attempts are counted before the heads are compared.       *)
CountAttemptsFirst(view, current, attempt, compatible) ==
  CASE ~compatible -> "Changed"
    [] compatible /\ attempt + 1 = MaxAttempts -> "Contended"
    [] compatible /\ attempt + 1 # MaxAttempts /\ SameObservation(view, current) ->
         "Pending"
    [] OTHER -> "Retry"

(* Mutation: one attempt too many.                                         *)
OneMoreAttempt(view, current, attempt, compatible) ==
  CASE ~compatible -> "Changed"
    [] compatible /\ SameObservation(view, current) -> "Pending"
    [] compatible /\ ~SameObservation(view, current) /\ attempt = MaxAttempts ->
         "Contended"
    [] OTHER -> "Retry"

PublishReload(view, current, attempt, compatible) ==
  CASE ~compatible -> "Changed"
    [] compatible /\ SameObservation(view, current) -> "Pending"
    [] compatible /\ ~SameObservation(view, current)
         /\ current.head.generation <= view.head.generation -> "Corrupt"
    [] compatible /\ current.head.generation > view.head.generation
         /\ attempt + 1 = MaxAttempts -> "Contended"
    [] OTHER -> "Retry"

(* Log::compatible_publication_view, with the compatibility of the heads.  *)
PublicationView(source, current, compatible) ==
  CASE SameObservation(source, current) -> "Publish"
    [] ~SameObservation(source, current) /\ ~compatible -> "Changed"
    [] ~SameObservation(source, current) /\ compatible
         /\ current.head.generation <= source.head.generation -> "Corrupt"
    [] OTHER -> "Publish"

=============================================================================
