------------------------ MODULE MCWebhookPreparation ------------------------
(* The instances of WebhookPreparation that TLC explores. *)
EXTENDS WebhookPreparation, TLC

CONSTANTS t1, t2, typeA, typeB

(* Events of the tenant selected, not selected and unreadable, and events of  *)
(* another tenant.                                                            *)
AllKinds == {<<t1, typeA>>, <<t1, typeB>>, <<t1, Unreadable>>, <<t2, typeA>>}
OneKind == {<<t1, typeA>>}
OneFilter == {{typeA}}
BothFilters == {{typeA}, {typeA, typeB}}

(* The tenants stay active: a suspension only takes subscriptions off the     *)
(* list of a round.                                                           *)
NoSuspension == \A t \in Tenants : active[t]

(* Either several requests create and delete subscriptions, before the first  *)
(* event and the first round, or one request at a time works on the one       *)
(* subscription that the replicas prepare.                                    *)
Creations == log = {} /\ \A p \in Preparers : prep[p] = NoPrep
Busy      == {a \in Agents : txn[a] # NoTxn}
Rounds    == Cardinality(Busy) <= 1 /\ Cardinality(born \cup {txn[a].sub : a \in Busy}) <= 1
Scenarios == NoSuspension /\ (Creations \/ Rounds)

(* Nothing orders replicas or requests, nor subscriptions. *)
Symmetry == Permutations(Preparers) \cup Permutations(Agents) \cup Permutations(Subscriptions)
=============================================================================
