---------------------------- MODULE HeadProtocol ----------------------------
(***************************************************************************)
(* What the head of a log promises to everyone who loads it: it starts     *)
(* empty and changes one legal transition at a time.                       *)
(***************************************************************************)
EXTENDS HeadSteps

VARIABLE head

HeadSpec == head = Empty /\ [][LegalStep(head, head')]_head

=============================================================================
