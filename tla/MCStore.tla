------------------------------ MODULE MCStore -------------------------------
(***************************************************************************)
(* The store as the log sees it, for TLC: the guarded client, the probe of *)
(* its store, and the store that injects faults.  They share no state, so  *)
(* that a behaviour exercises one part, on one instance, while the         *)
(* variables of the others rest.                                           *)
(***************************************************************************)
EXTENDS Integers, Sequences

CONSTANTS None, t1, t2, k1, k2, k3

VARIABLES
  part,                                         \* which of the instances below
  present, tasks, charged, calls,               \* ScopedStore
  backend, object, earlier, pc, first, current, \* BackendProbe, with failures
  unchanged, supported, result, deletes,
  metrics, events, sequence, rejections, pause, \* FaultStore, with failures
  recording, requests, applied, fired, controls, resets,
  failures

scopedVars == <<present, tasks, charged, calls>>
probeVars == <<backend, object, earlier, pc, first, current, unchanged, supported,
               result, deletes>>
faultVars == <<metrics, events, sequence, rejections, pause, recording, requests,
               applied, fired, controls, resets>>
storeVars == <<part, failures, scopedVars, probeVars, faultVars>>

-----------------------------------------------------------------------------
(* Two operations under two guards of which the inner one is tighter, two  *)
(* without a guard, and one that deletes batches of three keys.            *)
Guards == INSTANCE ScopedStore WITH
  Tasks <- {t1, t2}, Keys <- {k1}, Budgets <- <<4, 3>>, MaxBytes <- 2,
  SAFE_READ_ATTEMPTS <- 3, MAX_DELETE_BATCH <- 2
Unguarded == INSTANCE ScopedStore WITH
  Tasks <- {t1, t2}, Keys <- {k1}, Budgets <- <<>>, MaxBytes <- 2,
  SAFE_READ_ATTEMPTS <- 3, MAX_DELETE_BATCH <- 2
Batches == INSTANCE ScopedStore WITH
  Tasks <- {t1}, Keys <- {k1, k2, k3}, Budgets <- <<5>>, MaxBytes <- 2,
  SAFE_READ_ATTEMPTS <- 3, MAX_DELETE_BATCH <- 2

(* Every kind of store, with failing and repeated requests, and without.   *)
Probe == INSTANCE BackendProbe WITH MaxFailures <- 2, Retries <- TRUE
CalmProbe == INSTANCE BackendProbe WITH MaxFailures <- 0, Retries <- FALSE

(* Two faults or pauses for two puts; a reset between them; and the reads. *)
Puts == INSTANCE FaultStore WITH
  Operations <- {"put"}, MaxRequests <- 2, MaxControls <- 2, MaxResets <- 0
Resets == INSTANCE FaultStore WITH
  Operations <- {"put"}, MaxRequests <- 2, MaxControls <- 1, MaxResets <- 1
Gets == INSTANCE FaultStore WITH
  Operations <- {"get", "part", "list"}, MaxRequests <- 2, MaxControls <- 1, MaxResets <- 0

-----------------------------------------------------------------------------
ScopedRests == present = None /\ tasks = None /\ charged = None /\ calls = None

ProbeRests ==
  /\ backend = None /\ object = None /\ earlier = None /\ pc = None /\ first = None
  /\ current = None /\ unchanged = None /\ supported = None /\ result = None
  /\ deletes = None

FaultsRest ==
  /\ metrics = None /\ events = None /\ sequence = None /\ rejections = None
  /\ pause = None /\ recording = None /\ requests = None /\ applied = None
  /\ fired = None /\ controls = None /\ resets = None

StoreInit ==
  \/ /\ \/ part = "guards" /\ Guards!Init
        \/ part = "unguarded" /\ Unguarded!Init
        \/ part = "batches" /\ Batches!Init
     /\ failures = None /\ ProbeRests /\ FaultsRest
  \/ /\ \/ part = "probe" /\ Probe!Init
        \/ part = "calmProbe" /\ CalmProbe!Init
     /\ ScopedRests /\ FaultsRest
  \/ /\ \/ part = "puts" /\ Puts!Init
        \/ part = "resets" /\ Resets!Init
        \/ part = "gets" /\ Gets!Init
     /\ ScopedRests /\ ProbeRests

StoreNext ==
  /\ UNCHANGED part
  /\ \/ /\ \/ part = "guards" /\ Guards!Next
           \/ part = "unguarded" /\ Unguarded!Next
           \/ part = "batches" /\ Batches!Next
        /\ UNCHANGED <<failures, probeVars, faultVars>>
     \/ /\ \/ part = "probe" /\ Probe!Next
           \/ part = "calmProbe" /\ CalmProbe!Next
        /\ UNCHANGED <<scopedVars, faultVars>>
     \/ /\ \/ part = "puts" /\ Puts!Next
           \/ part = "resets" /\ Resets!Next
           \/ part = "gets" /\ Gets!Next
        /\ UNCHANGED <<scopedVars, probeVars>>

(* A task that is polled goes on, the requests of a probe are answered (a  *)
(* failed one is an answer too), and requests to the fault store run on    *)
(* tasks of their own; nobody promises to release a pause.                 *)
StoreSpec ==
  /\ StoreInit /\ [][StoreNext]_storeVars
  /\ WF_(Unguarded!vars)(part = "unguarded" /\ Unguarded!Progress(t1))
  /\ WF_(CalmProbe!vars)(part = "calmProbe" /\ CalmProbe!Next)
  /\ \A r \in 1 .. 2 :
       WF_(Puts!vars)(part = "puts" /\ r \in DOMAIN requests /\ Puts!Progress(r))

-----------------------------------------------------------------------------
(* However operations interleave, are repeated, denied half way down the   *)
(* chain of guards or dropped, every call has been paid for at every       *)
(* guard; a reader never holds more bytes than it asked for; and a batch   *)
(* of deletes answers only when none of them is still at work.             *)
RequestsAreAccounted ==
  /\ part = "guards" => Guards!CallsArePaid /\ Guards!BodiesAreBounded
  /\ part = "batches" => Batches!CallsArePaid /\ Batches!BatchesAreDrained

(* A store is validated only if each behaviour the log protocol rests on   *)
(* is there, whatever the others do and whatever failed on the way; and    *)
(* the probe leaves nothing behind that it could delete.                   *)
ProbeIsSound ==
  /\ part = "probe" => Probe!ValidatedWorks /\ Probe!NothingLeftBehind
  /\ part = "calmProbe" => CalmProbe!ValidatedWorks

(* The fault store tells what happened: a fault acts once, the outcome and *)
(* the visible mutations that it counts are the effects on the wrapped     *)
(* store, and every completed request is counted once, across resets.      *)
FaultsAreAccounted ==
  /\ part = "puts" => /\ Puts!FaultsAreOneShot /\ Puts!OutcomeTellsEffect
                      /\ Puts!VisibleMutationsCountEffects
  /\ part = "gets" => /\ Gets!FaultsAreOneShot /\ Gets!OutcomeTellsEffect
                      /\ Gets!OutcomesAreCountedOnce
  /\ part = "resets" => /\ Resets!OutcomesAreCountedOnce
                        /\ Resets!VisibleMutationsCountEffects

(* An operation ends although all its reads may keep failing and no budget *)
(* stops them; a working store that answers is validated; and a paused     *)
(* request holds up nobody else: again and again, all the others have      *)
(* ended.                                                                  *)
RequestsEnd ==
  /\ (part = "unguarded" /\ tasks[t1].pc # "idle")
       ~> (part = "unguarded" /\ tasks[t1].pc = "idle")
  /\ (part = "calmProbe" /\ CalmProbe!Works(backend)) ~> result = "validated"
  /\ []<>(part = "puts" => Puts!AllPassed)

=============================================================================
