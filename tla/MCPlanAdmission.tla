--------------------------- MODULE MCPlanAdmission ---------------------------
(* Three requests, two of them of one user, race for a plan of one or two     *)
(* keys: metered per model behind one concurrency limit, or provider-wide     *)
(* behind two that share their counter.                                       *)
EXTENDS PlanAdmission, TLC

CONSTANTS r1, r2, r3, alice, m1, m2, k1, k2

ThreeRequests == {r1, r2, r3}
OneUser       == {alice}
TwoModels     == {m1, m2}
OfUser        == (r1 :> alice) @@ (r2 :> alice) @@ (r3 :> NoUser)
OfModel       == (r1 :> m1) @@ (r2 :> m1) @@ (r3 :> m2)

Concurrency(n)   == [kind |-> "concurrency", max |-> n]
Window(b, model) == [kind |-> "rolling_window", budget |-> b, perModel |-> model]

Pool(plan, requests)   == [primary |-> k1, keys |-> {k1, k2}, plan |-> plan,
                           requests |-> requests]
Single(plan, requests) == [primary |-> k1, keys |-> {k1}, plan |-> plan,
                           requests |-> requests]

Configurations ==
    {Pool(<<Concurrency(1), Window(1, TRUE)>>, {r1, r2}),
     Pool(<<Window(1, TRUE)>>, {r1, r3}),
     Single(<<Window(2, FALSE), Concurrency(2), Concurrency(3)>>, ThreeRequests)}
=============================================================================
