-------------------------- MODULE DeletionContract --------------------------
(***************************************************************************)
(* What the deletion lifecycle promises the owner of the data, whatever    *)
(* transactions, locks and replicas carry it out.  A resource goes from    *)
(* live to frozen, confirmed and purged, and never back.  The rows of a    *)
(* scope change while all that holds them is live; afterwards only a purge *)
(* the owner confirmed touches them.  Lifecycle is shown to implement it.  *)
(***************************************************************************)
EXTENDS Naturals

CONSTANTS
    Resources,
    Tenant,         \* the resource that holds all the others
    Rows,
    Scope,          \* the resources that hold each row
    OwnRow,         \* the row of each resource itself
    Contents,       \* what a row may hold
    Absent,
    Detached,       \* contents that only the purge of a member leaves
    Detaches        \* the rows that outlive each member and refer to it

(* How rows and resources fit together. *)
WellFormed ==
    /\ Tenant \in Resources
    /\ Scope \in [Rows -> SUBSET Resources]
    /\ OwnRow \in [Resources -> Rows]
    /\ \A x \in Resources : x \in Scope[OwnRow[x]] /\ Scope[OwnRow[x]] \subseteq {Tenant, x}
    /\ Absent \in Contents /\ Detached \subseteq Contents \ {Absent}
    /\ Detaches \in [Resources -> SUBSET Rows]

VARIABLES
    phase,          \* of each resource
    data,           \* what each row holds
    exported        \* what the confirmed export of each resource holds

vars == <<phase, data, exported>>

Phases == {"live", "frozen", "confirmed", "purged"}

RowsOf(x) == {r \in Rows : x \in Scope[r]}
Held(r)   == \E x \in Scope[r] : phase[x] # "live"

TypeOK ==
    /\ phase \in [Resources -> Phases]
    /\ data \in [Rows -> Contents]
    /\ exported \in [Resources -> [Rows -> Contents]]

Init ==
    /\ phase = [x \in Resources |-> "live"]
    /\ data \in [Rows -> Contents \ Detached]
    /\ exported = [x \in Resources |-> [r \in Rows |-> Absent]]

Write(r) ==
    /\ ~Held(r)
    /\ \E v \in Contents \ Detached : data' = [data EXCEPT ![r] = v]
    /\ UNCHANGED <<phase, exported>>

(* The resource is suspended as it is frozen. *)
Freeze(x) ==
    /\ phase[x] = "live" /\ phase[Tenant] = "live"
    /\ phase' = [phase EXCEPT ![x] = "frozen"]
    /\ \E v \in Contents \ Detached : data' = [data EXCEPT ![OwnRow[x]] = v]
    /\ UNCHANGED exported

(* The export confirmed is the one the owner holds: the purges of narrower    *)
(* scopes may have taken rows since, or detached them from a member.          *)
Confirm(x) ==
    /\ phase[x] = "frozen"
    /\ phase' = [phase EXCEPT ![x] = "confirmed"]
    /\ exported' \in [Resources -> [Rows -> Contents]]
    /\ \A y \in Resources \ {x} : exported'[y] = exported[y]
    /\ \A r \in RowsOf(x) : data[r] \in {exported'[x][r], Absent} \cup Detached
    /\ UNCHANGED data

(* What the purge of x may do to a row that it leaves. *)
Keeps(x, r) ==
    \/ data'[r] = data[r]
    \/ r \in Detaches[x] /\ data[r] # Absent /\ data'[r] \in Detached

(* One step of a purge.  What a tenant still holds is frozen with it. *)
Purge(x) ==
    /\ phase[x] = "confirmed"
    /\ phase' \in [Resources -> Phases] /\ data' \in [Rows -> Contents]
    /\ \A y \in Resources : \/ phase'[y] = phase[y]
                            \/ x = Tenant /\ phase[y] = "live" /\ phase'[y] = "frozen"
    /\ \A r \in Rows : \/ Keeps(x, r)
                       \/ r \in RowsOf(x) /\ data'[r] = Absent
    /\ UNCHANGED exported

(* The end of a purge: a tenant takes along all it holds.  Nothing is left,   *)
(* and nothing outside the scope was removed.                                 *)
Finish(x) ==
    /\ phase[x] = "confirmed"
    /\ phase' = [y \in Resources |-> IF x \in {y, Tenant} THEN "purged" ELSE phase[y]]
    /\ data' \in [Rows -> Contents]
    /\ \A r \in Rows : IF \E y \in Scope[r] : x \in {y, Tenant}
                     THEN data'[r] = Absent /\ (r \in RowsOf(x) \/ data[r] = Absent)
                     ELSE Keeps(x, r)
    /\ UNCHANGED exported

Next ==
    \/ \E r \in Rows : Write(r)
    \/ \E x \in Resources : Freeze(x) \/ Confirm(x) \/ Purge(x) \/ Finish(x)

Spec == Init /\ [][Next]_vars

-----------------------------------------------------------------------------
(* A confirmed scope holds nothing but what its export holds, and the marks   *)
(* that purges of members left: a purge removes nothing the owner lacks.      *)
ExportCovers ==
    \A x \in Resources : phase[x] = "confirmed" =>
        \A r \in RowsOf(x) : data[r] \in {exported[x][r], Absent} \cup Detached

(* Nothing is left of a purged scope, and nothing comes back under its        *)
(* identifier.                                                                *)
PurgedIsEmpty ==
    \A x \in Resources : phase[x] = "purged" => \A r \in RowsOf(x) : data[r] = Absent

(* What is held only leaves through the purge of a scope that holds it, and   *)
(* only when the export confirmed for that scope has it.                      *)
LossStep ==
    \A r \in Rows : Held(r) /\ data[r] # Absent /\ data'[r] = Absent =>
        \E x \in Scope[r] : phase[x] = "confirmed" /\ data[r] \in {exported[x][r]} \cup Detached

NothingLost == [][LossStep]_vars
=============================================================================
