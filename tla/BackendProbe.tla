---------------------------- MODULE BackendProbe ----------------------------
(***************************************************************************)
(* ValidatedBackend::new: the capability probe that an object store must   *)
(* pass before logs are opened on it.  The backend is external; each of    *)
(* its features behaves in one of a few ways, fixed in the initial state,  *)
(* and any request may fail, with or without its effect.  One action is    *)
(* one request of the probe.                                               *)
(***************************************************************************)
EXTENDS Integers, FiniteSets

CONSTANTS
  None,        \* the absent Option
  MaxFailures, \* bound: requests that fail
  Retries      \* TRUE when the client repeats writes whose answer was lost

VARIABLES
  backend,   \* how each feature of the store behaves
  object,    \* None, or the probe object: [bytes, version]
  earlier,   \* what the object was before its last write
  pc,        \* the next request of the probe, or "done"
  first,     \* first_version
  current,   \* update_version or current_version
  unchanged, \* unchanged_conditional_read
  supported, \* the capabilities observed
  result,    \* None, "validated", "unsupported" or "error"
  deletes,   \* whether the last delete was refused or failed (observer)
  failures   \* requests that failed

vars == <<backend, object, earlier, pc, first, current, unchanged, supported,
          result, deletes, failures>>

REQUIRED == {"ConditionalCreate", "ConditionalUpdate", "ConditionalRead",
             "ConsistentReadAfterWrite", "PrefixList", "RepeatableDelete"}

Backends ==
  [create : {"works", "overwrites", "unsupported"},
   update : {"works", "ignoresVersion", "appliesRejected", "unsupported"},
   read : {"works", "stale"},
   conditional : {"works", "neverModified", "alwaysModified", "noETag", "unsupported"},
   list : {"works", "empty", "unsupported"},
   delete : {"works", "errorsIfMissing", "empty", "unsupported"}]

Works(b) == b = [create |-> "works", update |-> "works", read |-> "works",
                 conditional |-> "works", list |-> "works", delete |-> "works"]

Init ==
  /\ backend \in Backends
  /\ object = None
  /\ earlier = None
  /\ pc = "create"
  /\ first = None
  /\ current = None
  /\ unchanged = FALSE
  /\ supported = {}
  /\ result = None
  /\ deletes = "none"
  /\ failures = 0

-----------------------------------------------------------------------------
(* The store: a write gives the object a version never used before.        *)
NextVersion == IF object = None THEN 1 ELSE object.version + 1

Write(bytes) ==
  /\ object' = [bytes |-> bytes, version |-> NextVersion]
  /\ earlier' = object

KeepStore == UNCHANGED <<object, earlier, deletes>>

(* What a GET returns.                                                     *)
Visible == IF backend.read = "stale" THEN earlier ELSE object

(* The error path of probe_capabilities: the object is deleted first.      *)
Abort ==
  /\ pc' = "abort"
  /\ UNCHANGED <<first, current, unchanged, supported, result>>

Goto(next) == pc' = next /\ UNCHANGED result

Observe(capability, seen) ==
  supported' = IF seen THEN supported \cup {capability} ELSE supported

-----------------------------------------------------------------------------
(* run_probe: the first create.                                            *)
CreateFirst ==
  /\ pc = "create"
  /\ IF backend.create = "unsupported"
     THEN Goto("list") /\ KeepStore /\ UNCHANGED first
     ELSE /\ Write("first") /\ first' = NextVersion /\ Goto("createAgain")
          /\ UNCHANGED deletes
  /\ UNCHANGED <<backend, current, unchanged, supported, failures>>

(* The second one must be refused.                                         *)
CreateAgain ==
  /\ pc = "createAgain"
  /\ IF backend.create = "works" THEN KeepStore ELSE Write("first") /\ UNCHANGED deletes
  /\ Observe("ConditionalCreate", backend.create = "works")
  /\ Goto("read")
  /\ UNCHANGED <<backend, first, current, unchanged, failures>>

(* A GET of what was written; NotFound is an error, not a capability.      *)
ReadAfterWrite ==
  /\ pc = "read"
  /\ KeepStore
  /\ IF Visible = None
     THEN Abort
     ELSE /\ Observe("ConsistentReadAfterWrite", Visible.bytes = "first")
          /\ Goto("readUnchanged")
          /\ UNCHANGED <<first, current, unchanged>>
  /\ UNCHANGED <<backend, failures>>

(* Whether a conditional GET with this ETag answers NotModified.           *)
NotModified(version) ==
  \/ backend.conditional = "neverModified"
  \/ backend.conditional = "works" /\ object.version = version

ReadUnchanged ==
  /\ pc = "readUnchanged"
  /\ KeepStore
  /\ unchanged' = NotModified(first)
  /\ Goto("update")
  /\ UNCHANGED <<backend, first, current, supported, failures>>

(* probe_conditional_update: an update at the version just written ...     *)
Applies(version) ==
  backend.update = "ignoresVersion" \/ object.version = version

UpdateCurrent ==
  /\ pc = "update"
  /\ IF backend.update # "unsupported" /\ Applies(first)
     THEN /\ Write("second") /\ current' = NextVersion /\ UNCHANGED deletes
          /\ Goto("updateStale")
     ELSE KeepStore /\ Goto("overwrite") /\ UNCHANGED current
  /\ UNCHANGED <<backend, first, unchanged, supported, failures>>

(* ... which the client repeated after it had taken effect: the answer is  *)
(* the rejection of the repetition.                                        *)
UpdateRepeated ==
  /\ Retries
  /\ pc = "update"
  /\ backend.update = "works" /\ Applies(first)
  /\ Write("second") /\ UNCHANGED deletes
  /\ Goto("overwrite")
  /\ UNCHANGED <<backend, first, current, unchanged, supported, failures>>

(* ... and one at the version it replaced, which must be rejected ...      *)
UpdateStale ==
  /\ pc = "updateStale"
  /\ IF backend.update = "works"
     THEN KeepStore /\ Goto("readBack")
     ELSE /\ Write("first") /\ UNCHANGED deletes
          /\ Goto(IF backend.update = "appliesRejected" THEN "readBack" ELSE "overwrite")
  /\ UNCHANGED <<backend, first, current, unchanged, supported, failures>>

(* ... without having been applied.                                        *)
ReadBack ==
  /\ pc = "readBack"
  /\ KeepStore
  /\ IF Visible = None
     THEN Abort
     ELSE LET kept == Visible = [bytes |-> "second", version |-> current] IN
          /\ Observe("ConditionalUpdate", kept)
          /\ Goto(IF kept THEN "readChanged" ELSE "overwrite")
          /\ UNCHANGED <<first, current, unchanged>>
  /\ UNCHANGED <<backend, failures>>

(* Without conditional updates the object is overwritten with a plain put. *)
Overwrite ==
  /\ pc = "overwrite"
  /\ Write("second") /\ UNCHANGED deletes
  /\ current' = NextVersion
  /\ Goto("readChanged")
  /\ UNCHANGED <<backend, first, unchanged, supported, failures>>

ReadChanged ==
  /\ pc = "readChanged"
  /\ KeepStore
  /\ LET changed == /\ backend.conditional \notin {"noETag", "unsupported"}
                    /\ ~NotModified(first)
                    /\ Visible = [bytes |-> "second", version |-> current]
     IN Observe("ConditionalRead", unchanged /\ changed)
  /\ Goto("list")
  /\ UNCHANGED <<backend, first, current, unchanged, failures>>

(* Mutation: a listing that comes to an end will do.                       *)
ListAnything ==
  /\ pc = "list"
  /\ KeepStore
  /\ Observe("PrefixList", backend.list # "unsupported")
  /\ Goto("delete")
  /\ UNCHANGED <<backend, first, current, unchanged, failures>>

(* probe_prefix_listing                                                    *)
ListPrefix ==
  /\ pc = "list"
  /\ KeepStore
  /\ Observe("PrefixList", backend.list = "works" /\ object # None)
  /\ Goto("delete")
  /\ UNCHANGED <<backend, first, current, unchanged, failures>>

(* The protocol needs all of them (require_protocol).                      *)
Conclude ==
  /\ pc' = "done"
  /\ result' = IF REQUIRED \subseteq supported' THEN "validated" ELSE "unsupported"

Delete ==
  IF backend.delete \in {"works", "errorsIfMissing"}
  THEN object' = None /\ earlier' = object /\ deletes' = "done"
  ELSE UNCHANGED <<object, earlier>> /\ deletes' = "refused"

(* probe_repeatable_delete: twice through the batch interface.  Deleting   *)
(* what is gone may answer NotFound, but no other error.                   *)
DeleteOnce ==
  /\ pc = "delete"
  /\ Delete
  /\ Goto(CASE backend.delete = "works" -> "deleteAgain"
            [] backend.delete = "errorsIfMissing" ->
                 IF object = None THEN "abort" ELSE "deleteAgain"
            [] OTHER -> "remove")
  /\ UNCHANGED <<backend, first, current, unchanged, supported, failures>>

DeleteAgain ==
  /\ pc = "deleteAgain"
  /\ Delete
  /\ IF backend.delete = "works"
     THEN Observe("RepeatableDelete", TRUE) /\ Conclude
     ELSE Goto("abort") /\ UNCHANGED supported
  /\ UNCHANGED <<backend, first, current, unchanged, failures>>

(* delete_probe_object, for a store without the batch interface or after   *)
(* an error of the probe.                                                  *)
Remove ==
  /\ pc \in {"remove", "abort"}
  /\ Delete
  /\ IF pc = "remove"
     THEN Observe("RepeatableDelete", FALSE) /\ Conclude
     ELSE pc' = "done" /\ result' = "error" /\ UNCHANGED supported
  /\ UNCHANGED <<backend, first, current, unchanged, failures>>

(* What the write that is next would store, None when it would not apply.  *)
Attempted ==
  CASE pc = "create" /\ backend.create # "unsupported" -> "first"
    [] pc = "createAgain" /\ backend.create = "overwrites" -> "first"
    [] pc = "update" /\ backend.update # "unsupported" /\ Applies(first) -> "second"
    [] pc = "updateStale" /\ backend.update # "works" -> "first"
    [] pc = "overwrite" -> "second"
    [] OTHER -> None

(* Any request may fail; a write may have been applied nevertheless.  A    *)
(* failed clean-up ends the probe.  Without an ETag no conditional GET is  *)
(* made.                                                                   *)
RequestFails ==
  /\ pc # "done"
  /\ backend.conditional = "noETag" => pc \notin {"readUnchanged", "readChanged"}
  /\ failures < MaxFailures
  /\ failures' = failures + 1
  /\ IF pc \in {"remove", "abort"}
     THEN /\ pc' = "done" /\ result' = "error" /\ deletes' = "failed"
          /\ UNCHANGED <<first, current, unchanged, supported>>
     ELSE Abort /\ UNCHANGED deletes
  /\ \/ UNCHANGED <<object, earlier>>
     \/ Attempted # None /\ Write(Attempted)
  /\ UNCHANGED backend

Next ==
  \/ CreateFirst
  \/ CreateAgain
  \/ ReadAfterWrite
  \/ ReadUnchanged
  \/ UpdateCurrent
  \/ UpdateRepeated
  \/ UpdateStale
  \/ ReadBack
  \/ Overwrite
  \/ ReadChanged
  \/ ListPrefix
  \/ DeleteOnce
  \/ DeleteAgain
  \/ Remove
  \/ RequestFails

Spec == Init /\ [][Next]_vars

-----------------------------------------------------------------------------
(* A store is validated only if each behaviour the log protocol rests on   *)
(* is there, whatever the others do and whatever failed on the way.        *)
ValidatedWorks == result = "validated" => Works(backend)

(* The probe leaves nothing behind on a store that can delete, unless the  *)
(* clean-up itself failed.                                                 *)
NothingLeftBehind ==
  pc = "done" /\ backend.delete \in {"works", "errorsIfMissing"} /\ deletes # "failed"
    => object = None

=============================================================================
