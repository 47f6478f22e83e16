---------------------------- MODULE MCTransfer ------------------------------
(***************************************************************************)
(* How bytes get to the store, for TLC: the encodings, the byte streams    *)
(* and their capacity, and the transport and executor of the WebAssembly   *)
(* component.  They share no state, so that a behaviour exercises one      *)
(* part, on one instance, while the variables of the others rest.          *)
(***************************************************************************)
EXTENDS StreamCapacity, CodecValues

CONSTANT None

VARIABLES
  part,                                            \* which of the instances below
  format, value, input, edits,                     \* Codec
  writer, accepted, root, reader, answers,         \* ByteStream, with faults
  call, budget, server, traffic,                   \* Transport, with faults
  faults,
  op, host, slots, WAITING, active, run, spurious  \* Executor

codecVars == <<format, value, input, edits>>
streamVars == <<writer, accepted, root, reader, answers>>
transportVars == <<call, budget, server, traffic>>
executorVars == <<op, host, slots, WAITING, active, run, spurious>>
transferVars == <<part, faults, capacityVars, codecVars, streamVars, transportVars, executorVars>>

-----------------------------------------------------------------------------
(* Options for StreamCapacity: reference limits that bind and that do not, *)
(* and byte limits around the edges of the encoded heads.                  *)
SmallRefLimits == 0 .. 5 \union {23, 24, 25, 40}

SmallByteLimits ==
  UNION {a .. a + 6 : a \in {66, 128, 190, 252, 316, 560}} \union 1560 .. 1630

(* One change to an encoding of each of the values.                        *)
Formats == INSTANCE Codec WITH
  Values <- AllValues, MaxRefs <- 2, MaxObjects <- 2, MaxBytes <- 300,
  MaxPlanBytes <- 400, MaxEdits <- 1

(* A stream of up to four chunks, written and read across their edges.     *)
Streams == INSTANCE ByteStream WITH
  ChunkBytes <- 2, MaxRefs <- 4, MaxWrite <- 5, MaxRead <- 3, MaxFaults <- 2

(* A put beside a request that is not replayed, and one beside a read over *)
(* a budget that does not suffice for both.                                *)
Exchange == INSTANCE Transport WITH
  Calls <- "p" :> "put" @@ "o" :> "other", Chunks <- 1, MaxCalls <- 3, MaxBytes <- 4,
  MaxFaults <- 2, MaxOthers <- 1
Quota == INSTANCE Transport WITH
  Calls <- "p" :> "put" @@ "r" :> "read", Chunks <- 2, MaxCalls <- 2, MaxBytes <- 3,
  MaxFaults <- 2, MaxOthers <- 1

(* Three runs: one that ends with the first of two operations, one that    *)
(* needs another and what the first may have kept, and a last one.         *)
Polls == INSTANCE Executor WITH
  Ops <- 1 .. 4,
  Runs <- << [ops |-> {1, 2}, all |-> FALSE], [ops |-> {3}, all |-> TRUE],
             [ops |-> {1, 2, 4}, all |-> TRUE] >>,
  MaxSpurious <- 1

-----------------------------------------------------------------------------
CapacityRests == maxRefs = 0 /\ maxBytes = 0 /\ low = 0 /\ high = 1

CodecRests == format = None /\ value = None /\ input = None /\ edits = None

StreamRests ==
  writer = None /\ accepted = None /\ root = None /\ reader = None /\ answers = None

TransportRests ==
  call = None /\ budget = None /\ server = None /\ traffic = None

ExecutorRests ==
  /\ op = None /\ host = None /\ slots = None /\ WAITING = None /\ active = None
  /\ run = None /\ spurious = None

TransferInit ==
  \/ /\ part = "capacity" /\ CapacityInit
     /\ faults = None /\ CodecRests /\ StreamRests /\ TransportRests /\ ExecutorRests
  \/ /\ part = "formats" /\ Formats!Init
     /\ faults = None /\ CapacityRests /\ StreamRests /\ TransportRests /\ ExecutorRests
  \/ /\ part = "streams" /\ Streams!Init
     /\ CapacityRests /\ CodecRests /\ TransportRests /\ ExecutorRests
  \/ /\ \/ part = "exchange" /\ Exchange!Init
        \/ part = "quota" /\ Quota!Init
     /\ CapacityRests /\ CodecRests /\ StreamRests /\ ExecutorRests
  \/ /\ part = "polls" /\ Polls!Init
     /\ faults = None /\ CapacityRests /\ CodecRests /\ StreamRests /\ TransportRests

TransferNext ==
  /\ UNCHANGED part
  /\ \/ /\ part = "capacity" /\ Search
        /\ UNCHANGED <<faults, codecVars, streamVars, transportVars, executorVars>>
     \/ /\ part = "formats" /\ Formats!Next
        /\ UNCHANGED <<faults, capacityVars, streamVars, transportVars, executorVars>>
     \/ /\ part = "streams" /\ Streams!Next
        /\ UNCHANGED <<capacityVars, codecVars, transportVars, executorVars>>
     \/ /\ \/ part = "exchange" /\ Exchange!Next
           \/ part = "quota" /\ Quota!Next
        /\ UNCHANGED <<capacityVars, codecVars, streamVars, executorVars>>
     \/ /\ part = "polls" /\ Polls!Next
        /\ UNCHANGED <<faults, capacityVars, codecVars, streamVars, transportVars>>

(* The search runs on.  The executor polls the component until it returns, *)
(* the server acts on what is sent to it, and its answer, or an error,     *)
(* reaches the host.  The thread of a run goes on, and the deadlines of    *)
(* the host make every operation ready at some time.                       *)
TransferSpec ==
  /\ TransferInit /\ [][TransferNext]_transferVars
  /\ WF_capacityVars(part = "capacity" /\ Search)
  /\ \A c \in {"p", "r"} :
       /\ WF_(Quota!vars)(part = "quota" /\ Quota!Progress(c))
       /\ \A attempt \in 1 .. 2 : WF_(Quota!vars)(part = "quota" /\ Quota!Serve(c, attempt))
  /\ WF_(Polls!vars)(part = "polls" /\ Polls!RunStep)
  /\ \A o \in 1 .. 4 : WF_(Polls!vars)(part = "polls" /\ Polls!Ready(o))

-----------------------------------------------------------------------------

(* A finished stream is all that its successful writes took, in order, and *)
(* never a truncated one; read_at answers with the bytes at its offset,    *)
(* whichever chunks are cached; and the reader holds at most two chunks.   *)
StreamsAreExact ==
  part = "streams" =>
    Streams!FinishedIsComplete /\ Streams!ReadsAreExact /\ Streams!TwoChunksAtMost

(* A write that is answered with success took effect, one that is answered *)
(* with a rejection did not and never will, and none takes effect twice,   *)
(* although it may have been sent twice; and the budget covers every       *)
(* attempt made and every byte moved.                                      *)
TransportIsSound ==
  /\ part = "exchange" => /\ Exchange!AnswersAreTrue /\ Exchange!WritesApplyOnce
                          /\ Exchange!BudgetCoversTraffic
  /\ part = "quota" => /\ Quota!AnswersAreTrue /\ Quota!WritesApplyOnce
                       /\ Quota!BudgetCoversTraffic

(* The assertion of the run loop holds (a future that is not ready waits   *)
(* for something that can wake it), and a pollable outlives neither its    *)
(* subscription nor its operation.                                         *)
PollablesAreSound ==
  part = "polls" => Polls!AlwaysSomethingToWaitFor /\ Polls!PollablesHaveOwners

(* The search for the capacity of a stream ends; so does every call of the *)
(* transport, also when the server refuses a write and never reads its     *)
(* body; and every call into the component returns: no wake-up is lost.    *)
TransfersEnd ==
  /\ <>(part = "capacity" => low = high)
  /\ []<>(part = "quota" => Quota!AllEnded)
  /\ (part = "polls" /\ run.pc = "poll") ~> (part = "polls" /\ run.pc = "idle")

=============================================================================
