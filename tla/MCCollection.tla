---------------------------- MODULE MCCollection ----------------------------
(***************************************************************************)
(* Small instances of Collection for TLC.                                  *)
(***************************************************************************)
EXTENDS Collection

CONSTANTS p1, r1, c1, c2

(* Identities each client may draw: p objects, r retentions, c plans.      *)
Quota(p, r, c) ==
  [x \in Clients |-> CASE x = p1 -> p [] x = r1 -> r [] x = c1 -> c [] OTHER -> 0]

(* A publisher of three objects, or of two while a reader reads.           *)
StageQuotas == {Quota(3, 0, 1), Quota(2, 1, 1)}
StageFaults == [q \in StageQuotas |-> IF q[r1] = 0 THEN 1 ELSE 0]

(* The second collector only takes over.                                   *)
RivalQuotas == {Quota(2, 0, 1)}
RivalFaults == [q \in RivalQuotas |-> 1]

(* Two collections of what a publisher leaves behind.                      *)
ReclaimQuotas == {Quota(1, 0, 2)}
ReclaimFaults == [q \in ReclaimQuotas |-> 2]
=============================================================================
