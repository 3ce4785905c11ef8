--------------------------- MODULE MCUsageTotals ---------------------------
(* The instances of UsageTotals that TLC explores. *)
EXTENDS UsageTotals, TLC

Member      == [app |-> None, user |-> "u1", team |-> None]
TeamMember  == [app |-> None, user |-> "u1", team |-> "t1"]
Application == [app |-> "a1", user |-> "shadow", team |-> None]

(* A member and an application of one organization. *)
OrgCallers   == {Member, Application}
Applications == {Application}
(* A member who works for a team. *)
TeamCallers  == {TeamMember}

(* The organization has a monthly budget of 2, the member one of 1. *)
Monthly(budget) == [p \in {"day", "month", "year"} |->
                       IF p = "month" THEN budget ELSE Unlimited]
OrgQuotas  == [scope \in {<<"org">>, <<"user", "u1">>} |->
                   Monthly(IF scope = <<"org">> THEN 2 ELSE 1)]

(* The team has a monthly budget of 2, its members share it. *)
TeamQuotas == [scope \in {<<"team", "t1">>} |-> Monthly(2)]

Symmetry == Permutations(Requests)
=============================================================================
