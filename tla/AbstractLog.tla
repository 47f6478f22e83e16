---------------------------- MODULE AbstractLog -----------------------------
(***************************************************************************)
(* What a log promises to the callers of commit, resolve and resume: an    *)
(* append-only sequence of commits, each published where it was prepared,  *)
(* and answers that agree with it for ever.                                *)
(***************************************************************************)
EXTENDS Integers, Sequences, Functions

CONSTANT None

VARIABLES
  log,        \* every published commit, in order
  accepted,   \* commits whose caller was told Committed
  rejected    \* commits whose caller was told Conflict or NotCommitted

TipOf(l) == IF l = <<>> THEN None ELSE l[Len(l)].digest

Publish ==
  \E commit \in Range(log') :
    /\ commit \notin Range(log) \cup rejected
    /\ commit.sequence = Len(log)
    /\ commit.digest.expected_tip = TipOf(log)
    /\ log' = Append(log, commit)
    /\ accepted' \in {accepted, accepted \cup {commit}}
    /\ UNCHANGED rejected

Accept ==
  /\ \E commit \in Range(log) : accepted' = accepted \cup {commit}
  /\ UNCHANGED <<log, rejected>>

Reject ==
  /\ \E commit \in rejected' \ Range(log) : rejected' = rejected \cup {commit}
  /\ UNCHANGED <<log, accepted>>

LogSpec ==
  /\ log = <<>> /\ accepted = {} /\ rejected = {}
  /\ [][Publish \/ Accept \/ Reject]_<<log, accepted, rejected>>

=============================================================================
