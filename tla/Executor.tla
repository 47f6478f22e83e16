------------------------------ MODULE Executor ------------------------------
(***************************************************************************)
(* The component's executor (executor.rs): one thread that polls a future, *)
(* and between polls blocks in the host on the pollables of the operations *)
(* that wait.  A future runs several operations; it may end before all of  *)
(* them have, and drops those that are left or keeps them for a later run  *)
(* (a response body in a reader).                                          *)
(***************************************************************************)
EXTENDS Integers, Sequences, FiniteSets

CONSTANTS
  Ops,         \* operations on host resources
  Runs,        \* the futures that run one after the other: [ops, all]
  MaxSpurious  \* bound: pollables that are ready before their operation is

VARIABLES
  op,        \* each operation: st, gen (its latest subscription), due (to be polled)
  host,      \* what the host knows of each: ready, and its pollable's signal
  slots,     \* subscriptions <<o, gen>> whose slot holds a pollable
  WAITING,   \* subscriptions in the global list
  active,    \* subscriptions handed to the host
  run,       \* which run, and where: "idle", "poll", "host", "panic"
  spurious

vars == <<op, host, slots, WAITING, active, run, spurious>>

Init ==
  /\ op = [o \in Ops |-> [st |-> "live", gen |-> 0, due |-> FALSE]]
  /\ host = [o \in Ops |-> [ready |-> FALSE, signal |-> FALSE]]
  /\ slots = {} /\ WAITING = {} /\ active = {}
  /\ run = [n |-> 0, pc |-> "idle"]
  /\ spurious = 0

Awaited == {o \in Runs[run.n].ops : op[o].st = "live"}

Ended ==
  IF Runs[run.n].all THEN Awaited = {} ELSE \E o \in Runs[run.n].ops : op[o].st = "done"

-----------------------------------------------------------------------------
(* run() begins: dead subscriptions leave the list; the future polls all   *)
(* of its operations.                                                      *)
Start ==
  /\ run.pc = "idle" /\ run.n < Len(Runs)
  /\ run' = [n |-> run.n + 1, pc |-> "poll"]
  /\ WAITING' = WAITING \intersect slots
  /\ op' = [o \in Ops |-> [op[o] EXCEPT !.due = @ \/ o \in Runs[run.n + 1].ops]]
  /\ UNCHANGED <<host, slots, active, spurious>>

(* An operation that is due lets go of its subscription, and ends or       *)
(* subscribes again (subscribe).                                           *)
PollOp(o) ==
  LET next == <<o, op[o].gen + 1>> IN
  /\ run.pc = "poll" /\ ~Ended
  /\ o \in Awaited /\ op[o].due
  /\ IF host[o].ready
     THEN /\ op' = [op EXCEPT ![o].st = "done", ![o].due = FALSE]
          /\ slots' = slots \ {<<o, op[o].gen>>}
          /\ UNCHANGED <<WAITING, host>>
     ELSE /\ op' = [op EXCEPT ![o].gen = @ + 1, ![o].due = FALSE]
          /\ slots' = (slots \ {<<o, op[o].gen>>}) \union {next}
          /\ WAITING' = WAITING \union {next}
          /\ host' = [host EXCEPT ![o].signal = FALSE]
  /\ UNCHANGED <<active, run, spurious>>

(* The live pollables are taken out of their slots; with none to wait for, *)
(* the assertion fails.                                                    *)
Block ==
  /\ run.pc = "poll" /\ ~Ended
  /\ \A o \in Awaited : ~op[o].due
  /\ active' = WAITING \intersect slots
  /\ slots' = slots \ WAITING
  /\ WAITING' = {}
  /\ run' = [run EXCEPT !.pc = IF active' = {} THEN "panic" ELSE "host"]
  /\ UNCHANGED <<op, host, spurious>>

Signalled == {e \in active : host[e[1]].signal}

(* The wakers of the ready ones are called; a combinator may poll others   *)
(* of its children as well.                                                *)
Wake ==
  \E others \in SUBSET Awaited :
    op' = [o \in Ops |->
             [op[o] EXCEPT !.due = @ \/ o \in others \union {e[1] : e \in Signalled}]]

(* Mutation: what is not ready is not put back.                            *)
ForgetUnready ==
  /\ run.pc = "host" /\ Signalled # {}
  /\ Wake
  /\ active' = {}
  /\ run' = [run EXCEPT !.pc = "poll"]
  /\ UNCHANGED <<host, slots, WAITING, spurious>>

(* poll::poll returns: ready operations are woken, the others go back to   *)
(* their slots unless their subscription has gone.                         *)
Unblock ==
  LET back == {e \in active \ Signalled : op[e[1]].st = "live" /\ op[e[1]].gen = e[2]} IN
  /\ run.pc = "host" /\ Signalled # {}
  /\ Wake
  /\ slots' = slots \union back
  /\ WAITING' = WAITING \union back
  /\ active' = {}
  /\ run' = [run EXCEPT !.pc = "poll"]
  /\ UNCHANGED <<host, spurious>>

(* The future is ready; the operations that it drops take their pollables  *)
(* with them (Subscription::drop).                                         *)
Finish ==
  /\ run.pc = "poll" /\ Ended
  /\ \E dropped \in SUBSET Awaited :
       /\ op' = [o \in Ops |-> IF o \in dropped THEN [op[o] EXCEPT !.st = "dropped"] ELSE op[o]]
       /\ slots' = {e \in slots : e[1] \notin dropped}
  /\ run' = [run EXCEPT !.pc = "idle"]
  /\ UNCHANGED <<host, WAITING, active, spurious>>

-----------------------------------------------------------------------------
(* The host (external): an operation becomes ready, or only its pollable.  *)
Ready(o) ==
  /\ ~host[o].ready
  /\ host' = [host EXCEPT ![o] = [ready |-> TRUE, signal |-> TRUE]]
  /\ UNCHANGED <<op, slots, WAITING, active, run, spurious>>

Spurious(o) ==
  /\ ~host[o].signal /\ spurious < MaxSpurious
  /\ host' = [host EXCEPT ![o].signal = TRUE]
  /\ spurious' = spurious + 1
  /\ UNCHANGED <<op, slots, WAITING, active, run>>

RunStep ==
  \/ Start
  \/ \E o \in Ops : PollOp(o)
  \/ Block
  \/ Unblock
  \/ Finish

Next ==
  \/ RunStep
  \/ \E o \in Ops : Ready(o) \/ Spurious(o)

Spec == Init /\ [][Next]_vars

-----------------------------------------------------------------------------
(* The assertion of the run loop holds: a future that is not ready always  *)
(* waits for something that can wake it.                                   *)
AlwaysSomethingToWaitFor == run.pc # "panic"

(* A pollable outlives neither its subscription nor its operation: the     *)
(* host's resource is never dropped under one.                             *)
PollablesHaveOwners ==
  \A e \in slots \union active : op[e[1]].st = "live" /\ op[e[1]].gen = e[2]

=============================================================================
