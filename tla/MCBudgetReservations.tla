----------------------- MODULE MCBudgetReservations -----------------------
(* Instances of BudgetReservations for TLC: jobs a, b and c. *)
EXTENDS BudgetReservations

CONSTANTS a, b, c, w1, w2, k1, k2, k3

(* One job per key, two of them in the same workspace. *)
OwnKeys == [j \in Jobs |-> CASE j = a -> k1 [] j = b -> k2 [] j = c -> k3]
TwoWorkspaces == [j \in Jobs |-> IF j = c THEN w2 ELSE w1]
OneWorkspace == [j \in Jobs |-> w1]

(* a and b are of one workspace; c uses a's key in another one. *)
CrossTenantKey == [j \in Jobs |-> IF j = b THEN k2 ELSE k1]

UnitCost == [j \in Jobs |-> 1]

NoCeilings == [w \in Workspaces |-> 0]
RoomForOne == [w \in Workspaces |-> 2]
OrgNoRow == NoRow
OneEach == [w \in Workspaces |-> 1]
TwoEach == [w \in Workspaces |-> 2]
=============================================================================
