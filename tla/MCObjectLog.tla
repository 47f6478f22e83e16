---------------------------- MODULE MCObjectLog -----------------------------
(* Instances of ObjectLog for TLC.  A quota says who takes part in a       *)
(* behaviour and how many candidates, checkpoints, retentions and plans    *)
(* each client may start; a run covers the behaviours of several quotas.   *)
EXTENDS ObjectLogRefines, TLC

CONSTANTS w1, w2, k1, k2, r1, r2, o1, c1, c2

Once(clients) == [c \in Clients |-> IF c \in clients THEN 1 ELSE 0]

(* Writers and checkpointers; one of each with a reader.                   *)
PublishQuotas ==
  { [Once({w1, w2, k1}) EXCEPT ![w2] = 2],
    [Once({w2, k1, k2}) EXCEPT ![w2] = 2],
    Once({w1, k1, r1}) }

(* A reader with a writer and a collector; readers, a drain, a collector.  *)
CollectQuotas == {Once({w1, r, c1}) : r \in {r1, r2}} \cup {Once({r1, r2, o1, c1})}

(* A persistent writer with a rival or a reader.                           *)
SettleQuotas == {Once({w1, w2}), Once({w1, r1})}

(* A persistent collector with another one.                                *)
TakeOverQuotas == {[Once({c1, c2}) EXCEPT ![c2] = 2]}

LateQuotas == {Once({r1})}

(* Interchangeable clients, where the quotas treat them alike.             *)
PublishSymmetry == Permutations(Transactions)
CollectSymmetry == PublishSymmetry \cup Permutations(Readers)
=============================================================================
