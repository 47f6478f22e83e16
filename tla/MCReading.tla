------------------------------ MODULE MCReading -----------------------------
(***************************************************************************)
(* Opening a log, replaying its history, and the proofs that its tail has  *)
(* been read, for TLC.  The three share no state, so that a behaviour      *)
(* exercises one part, on one instance, while the variables of the others  *)
(* rest.                                                                   *)
(***************************************************************************)
EXTENDS TailProofs, TLC

CONSTANTS o1, o2, o3, small, large, h1, h2, c1, c2

VARIABLES
  part,                                  \* which of the instances below
  creating, openers, drawn, statuses,    \* Open, with head
  deleted, collected, verified, cursors, \* History, with bodies
  scans, seen, published, errors, faults

openVars == <<creating, openers, drawn, statuses>>
historyVars == <<deleted, collected, verified, cursors, scans, seen, published,
                 errors, faults>>
tailVars == <<views, held, read, covered>>
readingVars == <<part, head, bodies, openVars, historyVars, tailVars>>

-----------------------------------------------------------------------------
(* Three processes race for the head, one with other options; two of them  *)
(* open again and again.                                                   *)
Race == INSTANCE Open WITH
  Openers <- {o1, o2, o3}, OptionsOf <- o1 :> small @@ o2 :> small @@ o3 :> large,
  MaxOpens <- 1, MaxGeneration <- 1
Retry == INSTANCE Open WITH
  Openers <- {o1, o2}, OptionsOf <- o1 :> small @@ o2 :> small,
  MaxOpens <- 2, MaxGeneration <- 1

(* A cursor and its clone; a cursor whose window is cut by the bytes of    *)
(* one object; and a checkpoint publisher beside the cursor of another     *)
(* handle.                                                                 *)
Clones == INSTANCE History WITH
  Handles <- {h1}, Scanners <- {}, Cursors <- {c1, c2}, TailLength <- 2,
  ReadAhead <- 2, MaxObjectBytes <- 4, MaxCommitBytes <- 2, MaxFaults <- 1
Window == INSTANCE History WITH
  Handles <- {h1}, Scanners <- {}, Cursors <- {c1}, TailLength <- 3,
  ReadAhead <- 3, MaxObjectBytes <- 5, MaxCommitBytes <- 2, MaxFaults <- 2
Scan == INSTANCE History WITH
  Handles <- {h1, h2}, Scanners <- {h1}, Cursors <- {c1}, TailLength <- 2,
  ReadAhead <- 2, MaxObjectBytes <- 4, MaxCommitBytes <- 2, MaxFaults <- 1

-----------------------------------------------------------------------------
OpenRests == creating = None /\ openers = None /\ drawn = None /\ statuses = None

HistoryRests ==
  /\ deleted = None /\ collected = None /\ verified = None /\ cursors = None
  /\ scans = None /\ seen = None /\ published = None /\ errors = None /\ faults = None

TailRests ==
  /\ views = <<>> /\ held = [h \in Handles |-> None]
  /\ read = [h \in Handles |-> {}] /\ covered = {}

ReadingInit ==
  \/ /\ \/ part = "race" /\ Race!Init
        \/ part = "retry" /\ Retry!Init
     /\ bodies = None /\ HistoryRests /\ TailRests
  \/ /\ \/ part = "clones" /\ Clones!Init
        \/ part = "window" /\ Window!Init
        \/ part = "scan" /\ Scan!Init
     /\ head = None /\ OpenRests /\ TailRests
  \/ part = "tail" /\ Init /\ OpenRests /\ HistoryRests

ReadingNext ==
  /\ UNCHANGED part
  /\ \/ /\ \/ part = "race" /\ Race!Next
           \/ part = "retry" /\ Retry!Next
        /\ UNCHANGED <<bodies, historyVars, tailVars>>
     \/ /\ \/ part = "clones" /\ Clones!Next
           \/ part = "window" /\ Window!Next
           \/ part = "scan" /\ Scan!Next
        /\ UNCHANGED <<head, openVars, tailVars>>
     \/ part = "tail" /\ Next /\ UNCHANGED <<openVars, historyVars>>

(* An open that began to create the head comes to an end, and a process    *)
(* that keeps opening finds its first read answered now and then; a        *)
(* consumer keeps calling next() over reads that get answered.             *)
ReadingSpec ==
  /\ ReadingInit /\ [][ReadingNext]_readingVars
  /\ WF_(Retry!vars)(part = "retry" /\ Retry!EndOpen(o1))
  /\ SF_(Retry!vars)(part = "retry" /\ Retry!OpenRead(o1))
  /\ WF_(Window!vars)(part = "window" /\ Window!CursorProgress(c1))

-----------------------------------------------------------------------------
(* However many processes create the log at once, and whatever answers are *)
(* lost, every handle that open returns is a handle of the one durable     *)
(* log, also after later updates, and no racing open is told that the log  *)
(* is damaged.                                                             *)
HandlesAgree ==
  /\ part = "race" => Race!HandlesAgree /\ Race!NoDamageReported
  /\ part = "retry" => Retry!HandlesAgree /\ Retry!NoDamageReported

(* Once there is a head with its options, whoever created it, a process    *)
(* that keeps opening gets a handle.                                       *)
OpenSucceeds ==
  (part = "retry" /\ Retry!CanOpen(o1)) ~> (part = "retry" /\ Retry!Opened(o1))

(* A consumer replays exactly a prefix of the history, in order, with      *)
(* errors, retries, dropped calls and clones in between, and all of it     *)
(* once its cursor is complete; the commits it holds fit into one maximum- *)
(* sized object or are a single one; and what a collection removed is      *)
(* never reported as corruption.                                           *)
ReplayIsSound ==
  /\ part = "clones" => Clones!HistoryInOrder /\ Clones!ExpiryIsNotCorruption
  /\ part = "window" => Window!HistoryInOrder /\ Window!ReadAheadFits
  /\ part = "scan" => Scan!ReadAheadFits /\ Scan!ExpiryIsNotCorruption

(* A handle publishes a checkpoint over this tail only after it has        *)
(* authenticated every record of it itself.                                *)
PublishersVerified == part = "scan" => Scan!PublishersVerified

(* Failed reads and dropped calls only delay it: a cursor over an intact   *)
(* history completes, unless the view expires under it.                    *)
CursorCompletes ==
  (part = "window" /\ Window!Replaying(c1)) ~> (part = "window" /\ Window!Replayed(c1))

=============================================================================
