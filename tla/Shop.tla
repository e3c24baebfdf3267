-------------------------------- MODULE Shop --------------------------------
(***************************************************************************)
(* Buying a streak freeze (app/services/shop.py).                          *)
(***************************************************************************)
EXTENDS Account

CONSTANTS FreezeCost, \* cost_points of the streak freeze
          MaxOwned    \* how many a learner can hold

ASSUME FreezeCostAssumption == FreezeCost \in Nat \ {0}
ASSUME MaxOwnedAssumption == MaxOwned \in Nat

\* purchase does not raise.
CanPurchase(a) == a.quantity < MaxOwned /\ a.total_points >= FreezeCost

\* Fault: a replayed purchase grants the item again.
PurchaseAlwaysGrants(a, key) ==
    [PostTransaction(a, PurchaseKey(a, key), -FreezeCost)
        EXCEPT !.quantity = @ + 1]

\* A replayed key posts nothing and grants nothing.
Purchase(a, key) ==
    LET charged == PostTransaction(a, PurchaseKey(a, key), -FreezeCost)
    IN  IF Posts(a, PurchaseKey(a, key), -FreezeCost)
        THEN [charged EXCEPT !.quantity = @ + 1] ELSE a

=============================================================================
