----------------------- MODULE MCSubscriptionManager -----------------------
(* Small instances of SubscriptionManager. *)
EXTENDS SubscriptionManager

CONSTANTS n1, n2, n3, a1, a2, a3, app

(* Both accessors read one node. *)
SharedNodeOf == [a \in Accessors |-> n1]

(* Every accessor has a node of its own. *)
OwnNodeOf ==
  [a \in Accessors |-> IF a = a1 THEN n1 ELSE IF a = a2 THEN n2 ELSE n3]

(* Exchanging the accessors (and their nodes) changes nothing. *)
Exchange == Permutations({a1, a2})
ExchangeBoth ==
  {f \in Permutations({a1, a2, n1, n2}) :
     <<f[a1], f[n1], f[a2], f[n2]>> \in {<<a1, n1, a2, n2>>, <<a2, n2, a1, n1>>}}

(* What a step depends on when every accessor has a node of its own: there *)
(* is none to copy a first value from, which is all that data is for, and  *)
(* latest and excRun are history.                                          *)
NoHistory == <<items, item, subscriptionMap, queue, obj, handling, crashed,
               controlVars>>
=============================================================================
