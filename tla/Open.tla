-------------------------------- MODULE Open --------------------------------
(***************************************************************************)
(* Opening a log: Log::open, which creates the first head when there is    *)
(* none, open_existing_with_view, and the checks by which a handle         *)
(* recognises its log afterwards (view_from_stored).  Several processes    *)
(* open the same log at once; a create whose answer is an error may have   *)
(* taken effect, take effect later, or never.                              *)
(***************************************************************************)
EXTENDS Integers, FiniteSets

CONSTANTS
  None,         \* the absent Option
  Openers,      \* processes that open the log
  OptionsOf,    \* the Options each of them is configured with
  MaxOpens,     \* bound: fresh incarnations each process draws
  MaxGeneration \* bound: head updates

VARIABLES
  head,         \* None, or the durable head: [incarnation, options, generation]
  creating,     \* heads whose creation failed and may still take effect
  openers,      \* the local state of each process
  drawn,        \* how many incarnations each process has drawn
  statuses      \* the errors that calls returned (observer)

vars == <<head, creating, openers, drawn, statuses>>

(* incarnation: that of the Log handle, None before open returns one       *)
(* initial:     the head that this open tries to create                    *)
(* view:        the head this handle last loaded                           *)
Closed == [pc |-> "idle", incarnation |-> None, initial |-> None, view |-> None]

Init ==
  /\ head = None
  /\ creating = {}
  /\ openers = [o \in Openers |-> Closed]
  /\ drawn = [o \in Openers |-> 0]
  /\ statuses = {}

-----------------------------------------------------------------------------
Empty(o, incarnation) ==
  [incarnation |-> incarnation, options |-> OptionsOf[o], generation |-> 0]

OpenerBecomes(o, state) == openers' = [openers EXCEPT ![o] = state]

Fails(o, status) ==
  /\ OpenerBecomes(o, Closed)
  /\ statuses' = statuses \cup {status}

(* Log::head_from_stored: an existing head gives the handle its identity.  *)
Accept(o, view) ==
  IF head.options = OptionsOf[o]
  THEN /\ OpenerBecomes(o, [Closed EXCEPT !.pc = "open", !.incarnation = head.incarnation,
                                          !.view = view])
       /\ UNCHANGED statuses
  ELSE Fails(o, "ConfigurationMismatch")

(* Mutation: open refuses a log that is there already.                     *)
OpenOnlyFresh(o) ==
  /\ openers[o].pc = "idle"
  /\ IF head # None
     THEN Fails(o, "StoreError") /\ UNCHANGED drawn
     ELSE /\ drawn[o] < MaxOpens
          /\ OpenerBecomes(o, [Closed EXCEPT !.pc = "create",
                                             !.initial = Empty(o, <<o, drawn[o]>>)])
          /\ drawn' = [drawn EXCEPT ![o] = @ + 1]
          /\ UNCHANGED statuses
  /\ UNCHANGED <<head, creating>>

(* Log::open reads the head first; an absent one is to be created.         *)
OpenRead(o) ==
  /\ openers[o].pc = "idle"
  /\ IF head # None
     THEN Accept(o, None) /\ UNCHANGED drawn
     ELSE /\ drawn[o] < MaxOpens
          /\ OpenerBecomes(o, [Closed EXCEPT !.pc = "create",
                                             !.initial = Empty(o, <<o, drawn[o]>>)])
          /\ drawn' = [drawn EXCEPT ![o] = @ + 1]
          /\ UNCHANGED statuses
  /\ UNCHANGED <<head, creating>>

(* Log::open_existing_with_view returns the head it read as a view.        *)
OpenExisting(o) ==
  /\ openers[o].pc = "idle"
  /\ IF head # None THEN Accept(o, head) ELSE Fails(o, "LogNotFound")
  /\ UNCHANGED <<head, creating, drawn>>

(* Mutation: a process that lost the race keeps the incarnation it drew.   *)
CreateOrKeep(o) ==
  /\ openers[o].pc = "create"
  /\ head' = IF head = None THEN openers[o].initial ELSE head
  /\ OpenerBecomes(o, [Closed EXCEPT !.pc = "open",
                                     !.incarnation = openers[o].initial.incarnation])
  /\ UNCHANGED <<creating, drawn, statuses>>

(* The conditional create: it wins, or another process was first.          *)
CreateHead(o) ==
  /\ openers[o].pc = "create"
  /\ IF head = None
     THEN /\ head' = openers[o].initial
          /\ OpenerBecomes(o, [Closed EXCEPT !.pc = "open",
                                             !.incarnation = openers[o].initial.incarnation])
     ELSE OpenerBecomes(o, [openers[o] EXCEPT !.pc = "reload"]) /\ UNCHANGED head
  /\ UNCHANGED <<creating, drawn, statuses>>

CreateFails(o) ==
  /\ openers[o].pc = "create"
  /\ \/ head = None /\ head' = openers[o].initial /\ UNCHANGED creating
     \/ creating' = creating \cup {openers[o].initial} /\ UNCHANGED head
     \/ UNCHANGED <<head, creating>>
  /\ OpenerBecomes(o, [openers[o] EXCEPT !.pc = "confirm"])
  /\ UNCHANGED <<drawn, statuses>>

LandCreate ==
  /\ \E h \in creating :
       /\ head' = IF head = None THEN h ELSE head
       /\ creating' = creating \ {h}
  /\ UNCHANGED <<openers, drawn, statuses>>

(* load_existing_head after a lost race, and the read after an error: the  *)
(* error is returned only when there is no head.                           *)
ReadBack(o) ==
  /\ openers[o].pc \in {"reload", "confirm"}
  /\ CASE head # None -> Accept(o, None)
       [] head = None /\ openers[o].pc = "reload" -> Fails(o, "Vanished")
       [] head = None /\ openers[o].pc = "confirm" -> Fails(o, "StoreError")
  /\ UNCHANGED <<head, creating, drawn>>

ReadFails(o) ==
  /\ openers[o].pc \in {"idle", "reload", "confirm"}
  /\ Fails(o, "StoreError")
  /\ UNCHANGED <<head, creating, drawn>>

-----------------------------------------------------------------------------
(* A handle in use: Log::load (view_from_stored) and one conditional       *)
(* update of the head it loaded.                                           *)
Load(o) ==
  /\ openers[o].pc = "open"
  /\ openers[o].view # head
  /\ IF head # None /\ head.incarnation = openers[o].incarnation
          /\ head.options = OptionsOf[o]
     THEN OpenerBecomes(o, [openers[o] EXCEPT !.view = head]) /\ UNCHANGED statuses
     ELSE statuses' = statuses \cup {"ForeignHead"} /\ UNCHANGED openers
  /\ UNCHANGED <<head, creating, drawn>>

Update(o) ==
  /\ openers[o].pc = "open"
  /\ openers[o].view # None /\ openers[o].view.generation < MaxGeneration
  /\ head' = IF head = openers[o].view THEN [head EXCEPT !.generation = @ + 1] ELSE head
  /\ OpenerBecomes(o, [openers[o] EXCEPT !.view = None])
  /\ UNCHANGED <<creating, drawn, statuses>>

(* The process stops, or drops its handle.                                 *)
Close(o) ==
  /\ openers[o].pc # "idle"
  /\ OpenerBecomes(o, Closed)
  /\ UNCHANGED <<head, creating, drawn, statuses>>

Step(o) ==
  \/ OpenRead(o)
  \/ OpenExisting(o)
  \/ CreateHead(o)
  \/ CreateFails(o)
  \/ ReadBack(o)
  \/ ReadFails(o)
  \/ Load(o)
  \/ Update(o)
  \/ Close(o)

Next == LandCreate \/ \E o \in Openers : Step(o)

Spec == Init /\ [][Next]_vars

-----------------------------------------------------------------------------
(* However many processes create the log at once, and whatever answers are *)
(* lost, every handle that open returns is a handle of the one durable     *)
(* log: same incarnation, same options.                                    *)
HandlesAgree ==
  \A o \in Openers : openers[o].pc = "open" =>
    head # None /\ openers[o].incarnation = head.incarnation /\ OptionsOf[o] = head.options

(* The errors kept for a damaged log (a head of another incarnation, a     *)
(* head that vanished after a lost race) are not reached by racing opens.  *)
NoDamageReported == statuses \cap {"ForeignHead", "Vanished"} = {}

-----------------------------------------------------------------------------

(* The steps that end an open that began to create the head.               *)
EndOpen(o) == CreateHead(o) \/ CreateFails(o) \/ ReadBack(o) \/ ReadFails(o)

(* There is a head with the options of the process; the process got it.    *)
CanOpen(o) == head # None /\ head.options = OptionsOf[o]
Opened(o) == openers[o].pc = "open"

=============================================================================
