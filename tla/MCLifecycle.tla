---------------------------- MODULE MCLifecycle ----------------------------
(* The instance of Lifecycle that TLC explores: an organization with a team   *)
(* and a shared alert, and the member who is in the team and owns the alert.  *)
EXTENDS Lifecycle, TLC

CONSTANTS tenant, org, member, q1, q2, w1, w2

LockOrderMC ==
    [alerts        |-> <<tenant, org>>,
     team_members  |-> <<tenant, org, member>>,
     users         |-> <<tenant, member>>,
     organizations |-> <<tenant, org>>,
     tenants       |-> <<tenant>>,
     audits        |-> <<tenant, org>>,
     namesake      |-> <<org>>]

PurgeOrderMC == <<"alerts", "team_members", "users", "organizations", "tenants">>

OwnRowMC == (tenant :> "tenants") @@ (org :> "organizations") @@ (member :> "users")

AuditsMC == (tenant :> {"audits"}) @@ (org :> {"audits"}) @@ (member :> {})

TeamRowsMC     == member :> {"team_members"}
OwnedAlertsMC  == member :> {"alerts"}
DetachAuditsMC ==
    [r \in DOMAIN LockOrderMC |-> IF r \in {"team_members", "alerts"} THEN {"audits"} ELSE {}]

(* A deletion of the organization against writes of it; of the tenant and of  *)
(* its children at once; of the organization and of a member, purged by two   *)
(* replicas; and identifiers of a purged tenant taken again.                  *)
TrafficsMC ==
    {[requests |-> {q1, q2}, workers |-> {w1}, stops |-> 1,
      freezes |-> {org}, writes |-> {"team_members"}],
     [requests |-> {q1, q2}, workers |-> {w1}, stops |-> 0,
      freezes |-> {tenant, org}, writes |-> {}],
     [requests |-> {q1}, workers |-> {w1, w2}, stops |-> 0,
      freezes |-> {org, member}, writes |-> {}],
     [requests |-> {q1}, workers |-> {w1, w2}, stops |-> 1,
      freezes |-> {org}, writes |-> {}],
     [requests |-> {q1}, workers |-> {w1}, stops |-> 1,
      freezes |-> {tenant}, writes |-> {"namesake"}]}
=============================================================================
