-------------------------- MODULE ObjectLogRefines --------------------------
(***************************************************************************)
(* What the clients of a log together implement.                           *)
(***************************************************************************)
EXTENDS ObjectLog

Protocol == INSTANCE HeadProtocol

(* Every change of the durable head is a legal transition from the head it *)
(* replaces, whoever made it, from however old a view, and however late    *)
(* its write took effect.                                                  *)
ImplementsHeadProtocol == Protocol!HeadSpec

With(status) == {a.commit : a \in {b \in answers : b.status = status}}

Promised == INSTANCE AbstractLog WITH
  log <- history, accepted <- With("Committed"), rejected <- With("NotCommitted")

(* The writers implement an append-only log with definite answers: every   *)
(* published commit directly follows the one it was prepared on (commit    *)
(* never rebases), a caller told Committed finds its commit published, and *)
(* one told Conflict or NotCommitted, who may prepare the operation again, *)
(* never sees the candidate published, whatever was lost or came late.     *)
ImplementsAbstractLog == Promised!LogSpec

=============================================================================
