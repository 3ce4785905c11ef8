------------------------------ MODULE Lifecycle ------------------------------
(***************************************************************************)
(* The deletion of a tenant, of its organizations and of its members on    *)
(* PostgreSQL: FreezeResource, the guards on every write of a frozen       *)
(* scope, the export, its confirmation, and PurgeDeletion run in steps by  *)
(* the workers of several replicas that may fail or stop at any point.     *)
(*                                                                         *)
(* One tenant.  A row stands for the rows of a table with one scope, and   *)
(* holds one of a few contents.  Transactions take their row locks one     *)
(* statement at a time; what no other transaction can observe in between   *)
(* is one step.  Who may ask (authority, last owner, administrators,       *)
(* stale revision) only decides whether a freeze is refused.               *)
(***************************************************************************)
EXTENDS Naturals, Sequences, FiniteSets

CONSTANTS
    Tenant,
    Children,       \* organizations and members of the tenant
    Members,        \* the members among them
    Requests,       \* concurrent API requests
    Workers,        \* purge workers, one per replica
    LockOrder,      \* of each row: the resources that hold it, in the order of the guard
    OwnRow,         \* of each resource: its own row
    PurgeOrder,     \* purgeOrder: the rows in the order a purge removes them
    Audits,         \* of each resource: its audits, removed last and not guarded
    Namesakes,      \* rows of another tenant that take an identifier again
    TeamRows,       \* of each member: its team memberships
    OwnedAlerts,    \* of each member: the shared alerts it owns
    DetachAudits,   \* of each row: the audits that a detachment from it adds to
    Traffics        \* the cases explored: requests, workers, what is frozen and written, and
                    \* how often a purge may fail or be interrupted (bound)

Resources == {Tenant} \cup Children
Rows      == DOMAIN LockOrder
Scope     == [r \in Rows |-> {LockOrder[r][i] : i \in DOMAIN LockOrder[r]}]
RowsOf(x) == {r \in Rows : x \in Scope[r]}

(* Contents: two that writes leave, the one that a freeze leaves in the row   *)
(* of its resource (suspended or not before, a new version of it), and the    *)
(* two that the purge of a member leaves in the rows of others.               *)
Absent    == 0
Active    == 1
Edited    == 2
Suspended == 3
TeamLeft  == 4
OwnerLeft == 5
Written   == {Active, Edited}
Detached  == {TeamLeft, OwnerLeft}
Contents  == {Absent, Suspended} \cup Written \cup Detached
NoExport  == [r \in Rows |-> Absent]

ASSUME LifecycleAssumption ==
    /\ Tenant \notin Children /\ Members \subseteq Children
    /\ IsFiniteSet(Children)
    /\ \A r \in Rows : LockOrder[r] \in Seq(Resources)
    /\ OwnRow \in [Resources -> Rows] /\ Audits \in [Resources -> SUBSET Rows]
    /\ Namesakes \subseteq Rows
    /\ \A t \in Traffics : /\ t.requests \subseteq Requests /\ t.workers \subseteq Workers
                          /\ t.freezes \subseteq Resources /\ t.writes \subseteq Rows
                          /\ t.stops \in Nat
    /\ TeamRows \in [Members -> SUBSET Rows] /\ OwnedAlerts \in [Members -> SUBSET Rows]
    /\ DetachAudits \in [Rows -> SUBSET Rows]

(* The tables: every row belongs to something, and to the tenant unless it is *)
(* of another one; the purge removes what it exports, table by table or with  *)
(* the audits; team memberships are held by their member and removed by it,   *)
(* shared alerts are not; the audits of a detachment are of its organization. *)
Removed == {PurgeOrder[i] : i \in DOMAIN PurgeOrder}

ASSUME TablesAssumption ==
    /\ PurgeOrder \in Seq(Rows)
    /\ \A r \in Rows : Scope[r] # {} /\ (r \notin Namesakes => Tenant \in Scope[r])
    /\ \A x \in Resources : /\ Audits[x] \subseteq RowsOf(x)
                            /\ RowsOf(x) \subseteq Removed \cup Audits[x] \cup Namesakes
                            /\ OwnRow[x] \in Removed \ Namesakes
    /\ \A m \in Members : /\ TeamRows[m] \subseteq RowsOf(m) \cap Removed
                          /\ OwnedAlerts[m] \cap RowsOf(m) = {}
                          /\ \A x \in Resources : OwnRow[x] \notin OwnedAlerts[m]
    /\ \A r \in Rows : /\ DetachAudits[r] \cap (Removed \cup Namesakes) = {}
                       /\ \A a \in DetachAudits[r] : Scope[a] \subseteq Scope[r] \ Members

VARIABLES
    traffic,        \* the case explored
    rows,           \* what each row holds
    projection,     \* resources with a projection
    published,      \* how often the deletion of each resource was published
    deletions,      \* resource_deletions: the resources with a deletion
    elapsed,        \* purge_after has passed
    confirmed,      \* confirmed_at is set
    digest,         \* export_sha256: the export it is the digest of
    purged,         \* purged_at is set
    share,          \* row locks FOR KEY SHARE: <<transaction, resource>>
    update,         \* row locks FOR UPDATE
    req,            \* each request: what it does and where it is
    work,           \* each worker: likewise
    marked,         \* deletions locked and marked purging by the running step
    stops           \* failures and crashes so far

data   == <<rows, projection, published>>
record == <<deletions, elapsed, confirmed, digest, purged>>
locks  == <<share, update>>
vars   == <<traffic, data, record, locks, req, work, marked, stops>>

Exists(x) == rows[OwnRow[x]] # Absent

exportOf(x) == [r \in Rows |-> IF r \in RowsOf(x) THEN rows[r] ELSE Absent]

Idle == [pc |-> "idle"]

Init ==
    /\ traffic \in Traffics
    /\ rows = [r \in Rows |-> IF r \in Namesakes THEN Absent ELSE Active]
    /\ projection = Resources
    /\ published = [x \in Resources |-> 0]
    /\ deletions = {} /\ elapsed = {} /\ confirmed = {} /\ purged = {}
    /\ digest = [x \in Resources |-> NoExport]
    /\ share = {} /\ update = {}
    /\ req = [q \in Requests |-> Idle]
    /\ work = [w \in Workers |-> Idle]
    /\ marked = {}
    /\ stops = 0

(* Row locks. *)
SharedBy(x)      == {q \in Requests : <<q, x>> \in share}
UpdatedBy(x)     == {q \in Requests : <<q, x>> \in update}
CanShare(q, x)   == UpdatedBy(x) \subseteq {q}
CanUpdate(q, x)  == UpdatedBy(x) \cup SharedBy(x) \subseteq {q}

Become(q, state) == req' = [req EXCEPT ![q] = state]

(* Commit or rollback: the locks are released. *)
EndRequest(q) ==
    /\ Become(q, Idle)
    /\ share' = {l \in share : l[1] # q}
    /\ update' = {l \in update : l[1] # q}

-----------------------------------------------------------------------------
(* A write of a row, and the guard of its table. *)

WriteRow(q, r, v) ==
    /\ req[q] = Idle
    /\ \A x \in Scope[r] : r \in Namesakes => ~Exists(x)
    /\ rows[r] # v
    /\ Become(q, [pc |-> "locking", row |-> r, to |-> v, at |-> 1])
    /\ UNCHANGED <<traffic, data, record, locks, work, marked, stops>>

(* Mutant: the guard reads without locking. *)
LockNothing(q) ==
    /\ req[q].pc = "locking"
    /\ LET order == LockOrder[req[q].row]
       IN  /\ CanShare(q, order[req[q].at])
           /\ Become(q, IF req[q].at < Len(order) THEN [req[q] EXCEPT !.at = @ + 1]
                        ELSE [req[q] EXCEPT !.pc = "guard"])
    /\ UNCHANGED <<traffic, data, record, locks, work, marked, stops>>

(* PERFORM 1 FROM ... FOR KEY SHARE: the tenant, the organization, the        *)
(* member.  A row that is gone is not locked.                                 *)
LockKeyShare(q) ==
    /\ req[q].pc = "locking"
    /\ LET order == LockOrder[req[q].row]
           x     == order[req[q].at]
       IN  /\ CanShare(q, x)
           /\ share' = IF Exists(x) THEN share \cup {<<q, x>>} ELSE share
           /\ Become(q, IF req[q].at < Len(order) THEN [req[q] EXCEPT !.at = @ + 1]
                        ELSE [req[q] EXCEPT !.pc = "guard"])
    /\ UNCHANGED <<traffic, data, record, update, work, marked, stops>>

frozenGuard(r, purging) == Scope[r] \cap (deletions \ purging) # {}

Guard(q) ==
    /\ req[q].pc = "guard"
    /\ IF frozenGuard(req[q].row, {})
       THEN EndRequest(q)
       ELSE Become(q, [req[q] EXCEPT !.pc = "writing"]) /\ UNCHANGED locks
    /\ UNCHANGED <<traffic, data, record, work, marked, stops>>

CommitWrite(q) ==
    /\ req[q].pc = "writing"
    /\ rows' = [rows EXCEPT ![req[q].row] = req[q].to]
    /\ EndRequest(q)
    /\ UNCHANGED <<traffic, projection, published, record, work, marked, stops>>

-----------------------------------------------------------------------------
(* FreezeResource, in a SERIALIZABLE transaction: the snapshot it reads from  *)
(* is the one of its first statement, which then waits for the row.           *)

FreezeResource(q, x) ==
    /\ req[q] = Idle
    /\ Become(q, [pc |-> "freezing", res |-> x, seen |-> deletions,
                  own |-> rows[OwnRow[x]], tenant |-> rows[OwnRow[Tenant]]])
    /\ UNCHANGED <<traffic, data, record, locks, work, marked, stops>>

(* A row changed since the snapshot fails the transaction, which is replayed. *)
(* (Here a row written back to what it was passes for unchanged.)             *)
Replay(q) ==
    /\ Become(q, [req[q] EXCEPT !.pc = "freezing", !.seen = deletions,
                  !.own = rows[OwnRow[req[q].res]], !.tenant = rows[OwnRow[Tenant]]])
    /\ share' = {l \in share : l[1] # q}
    /\ update' = {l \in update : l[1] # q}

(* The row is there, no deletion is recorded for it nor for its tenant.  The  *)
(* caller may still be refused.                                               *)
Freezable(q) ==
    /\ req[q].own # Absent
    /\ req[q].res \notin req[q].seen
    /\ Tenant \notin req[q].seen

LockForUpdate(q) ==
    /\ req[q].pc = "freezing"
    /\ CanUpdate(q, req[q].res)
    /\ IF rows[OwnRow[req[q].res]] # req[q].own
       THEN Replay(q)
       ELSE \/ EndRequest(q)
            \/ /\ Freezable(q)
               /\ update' = update \cup {<<q, req[q].res>>}
               /\ Become(q, [req[q] EXCEPT !.pc = "deactivating"])
               /\ UNCHANGED share
    /\ UNCHANGED <<traffic, data, record, work, marked, stops>>

(* Mutant: the row of the tenant is locked, its change is not noticed. *)
DeactivateStale(q) ==
    /\ req[q].pc = "deactivating"
    /\ CanShare(q, Tenant)
    /\ rows' = [rows EXCEPT ![OwnRow[req[q].res]] = Suspended]
    /\ deletions' = deletions \cup {req[q].res}
    /\ EndRequest(q)
    /\ UNCHANGED <<traffic, projection, published, elapsed, confirmed, digest, purged, work,
                   marked, stops>>

(* deactivate writes the row, whose guard locks the tenant; then the deletion *)
(* is recorded.                                                               *)
Deactivate(q) ==
    /\ req[q].pc = "deactivating"
    /\ CanShare(q, Tenant)
    /\ IF rows[OwnRow[Tenant]] # req[q].tenant
       THEN Replay(q) /\ UNCHANGED <<rows, deletions>>
       ELSE /\ rows' = [rows EXCEPT ![OwnRow[req[q].res]] = Suspended]
            /\ deletions' = deletions \cup {req[q].res}
            /\ EndRequest(q)
    /\ UNCHANGED <<traffic, projection, published, elapsed, confirmed, digest, purged,
                   work, marked, stops>>

(* Only its conjunction with the confirmation is ever looked at: the order of *)
(* the two does not matter.                                                   *)
RetentionElapses(x) ==
    /\ x \in confirmed \ elapsed
    /\ elapsed' = elapsed \cup {x}
    /\ UNCHANGED <<traffic, data, deletions, confirmed, digest, purged, locks, req,
                   work, marked, stops>>

-----------------------------------------------------------------------------
(* The export and its confirmation. *)

ReadDeletionScope(q, x) ==
    /\ req[q] = Idle
    /\ x \in deletions \ purged
    /\ Become(q, [pc |-> "exported", res |-> x, copy |-> exportOf(x)])
    /\ UNCHANGED <<traffic, data, record, locks, work, marked, stops>>

(* The digest is compared with the one of the current export, unless the      *)
(* deletion is confirmed or purged already.                                   *)
Confirm(q) ==
    /\ req[q].pc = "exported"
    /\ Become(q, IF \/ req[q].res \in confirmed \cup purged
                    \/ req[q].copy = exportOf(req[q].res)
                 THEN [req[q] EXCEPT !.pc = "confirming"]
                 ELSE Idle)
    /\ UNCHANGED <<traffic, data, record, locks, work, marked, stops>>

(* The row of the deletion is locked: not while a purge step holds it.  The   *)
(* revision of the resource is gone with its projection.                      *)
ConfirmDeletion(q) ==
    /\ req[q].pc = "confirming"
    /\ req[q].res \notin marked
    /\ IF req[q].res \in purged \cup confirmed \/ req[q].res \notin projection
       THEN UNCHANGED <<confirmed, digest>>
       ELSE /\ confirmed' = confirmed \cup {req[q].res}
            /\ digest' = [digest EXCEPT ![req[q].res] = req[q].copy]
    /\ EndRequest(q)
    /\ UNCHANGED <<traffic, data, deletions, elapsed, purged, work, marked, stops>>

-----------------------------------------------------------------------------
(* PurgeDeletion: retireProjections, one step per table, finishPurge. *)

Retire == 0
FinishStep == Len(PurgeOrder) + 1
BecomeWorker(w, state) == work' = [work EXCEPT ![w] = state]
StepRuns == \E w \in Workers : work[w].pc = "inStep"

(* DueDeletions: those held by a deleted tenant are left to its purge. *)
Due == {x \in (confirmed \cap elapsed) \ purged : x = Tenant \/ Tenant \notin deletions}

PurgeDue(w, x) ==
    /\ work[w] = Idle
    /\ x \in Due
    /\ BecomeWorker(w, [pc |-> "between", res |-> x, step |-> Retire])
    /\ UNCHANGED <<traffic, data, record, locks, req, marked, stops>>

(* purgeStep locks the deletions of the tenant and marks them purging.  One   *)
(* already purged, or no longer ready, ends the purge.                        *)
purgeStep(w) ==
    /\ work[w].pc = "between"
    /\ ~StepRuns
    /\ IF work[w].res \in Due
       THEN marked' = deletions /\ BecomeWorker(w, [work[w] EXCEPT !.pc = "inStep"])
       ELSE BecomeWorker(w, Idle) /\ UNCHANGED marked
    /\ UNCHANGED <<traffic, data, record, locks, req, stops>>

(* Mutant: rows already removed count as written. *)
TouchesGone(x, step) ==
    {r \in Rows : CASE step = Retire     -> x \in Members /\ r \in TeamRows[x]
                    [] step = FinishStep -> x \in Members /\ r \in OwnedAlerts[x]
                    [] OTHER             -> r = PurgeOrder[step] /\ r \in RowsOf(x)}

(* The guarded rows a step writes: team memberships of a member, the rows of  *)
(* the table, shared alerts the member owned.                                 *)
Touches(x, step) ==
    {r \in Rows : /\ rows[r] # Absent
                  /\ CASE step = Retire     -> x \in Members /\ r \in TeamRows[x]
                       [] step = FinishStep -> x \in Members /\ r \in OwnedAlerts[x]
                       [] OTHER             -> r = PurgeOrder[step] /\ r \in RowsOf(x)}

(* The guards lock what holds a row, and removing a resource locks its own.   *)
Unlocked(touched) ==
    \A r \in touched : \A x \in Scope[r] :
        UpdatedBy(x) = {} /\ (r = OwnRow[x] => SharedBy(x) = {})

(* The step is over: its locks and its mark are gone. *)
EndStep(w, state) == marked' = {} /\ BecomeWorker(w, state)

(* recorder.flush: what the change of a row adds to. *)
Noted(touched) == UNION {DetachAudits[r] : r \in touched}

(* Mutant: the deletion is published by every attempt. *)
retireAgain(x, touched) ==
    /\ rows' = [r \in Rows |-> IF r \in touched THEN Absent
                               ELSE IF r \in Noted(touched) THEN TeamLeft
                               ELSE rows[r]]
    /\ projection' = IF x = Tenant THEN {} ELSE projection \ {x}
    /\ published' = [published EXCEPT ![x] = @ + 1]
    /\ LET children == IF x = Tenant THEN {y \in Children : Exists(y)} \ deletions ELSE {}
       IN  deletions' = deletions \cup children /\ elapsed' = elapsed \cup children
    /\ UNCHANGED purged

retireProjections(x, touched) ==
    /\ rows' = [r \in Rows |-> IF r \in touched THEN Absent
                               ELSE IF r \in Noted(touched) THEN TeamLeft
                               ELSE rows[r]]
    /\ projection' = IF x = Tenant THEN {} ELSE projection \ {x}
    /\ published' = [published EXCEPT ![x] = @ + IF x \in projection THEN 1 ELSE 0]
    /\ LET children == IF x = Tenant THEN {y \in Children : Exists(y)} \ deletions ELSE {}
       IN  deletions' = deletions \cup children /\ elapsed' = elapsed \cup children
    /\ UNCHANGED purged

purgeRows(touched) ==
    /\ rows' = [r \in Rows |-> IF r \in touched THEN Absent ELSE rows[r]]
    /\ UNCHANGED <<projection, published, deletions, elapsed, purged>>

finishPurge(x, touched) ==
    /\ rows' = [r \in Rows |->
                   IF r \in Audits[x] THEN Absent
                   ELSE IF r \in touched \cup Noted(touched) THEN OwnerLeft
                   ELSE rows[r]]
    /\ purged' = IF x = Tenant THEN deletions ELSE purged \cup {x}
    /\ UNCHANGED <<projection, published, deletions, elapsed>>

(* Mutant: a batch that removed nothing is not the last of its table. *)
CommitStepRepeats(w) ==
    /\ work[w].pc = "inStep"
    /\ LET x       == work[w].res
           step    == work[w].step
           touched == Touches(x, step)
       IN  /\ Unlocked(touched)
           /\ IF \E r \in touched : frozenGuard(r, marked)
              THEN /\ EndStep(w, Idle)
                   /\ UNCHANGED <<data, deletions, elapsed, purged>>
              ELSE /\ CASE step = Retire     -> retireProjections(x, touched)
                        [] step = FinishStep -> finishPurge(x, touched)
                        [] OTHER             -> purgeRows(touched)
                   /\ EndStep(w, IF step = FinishStep THEN Idle
                                 ELSE [work[w] EXCEPT !.pc = "between",
                                           !.step = IF step # Retire /\ touched = {} THEN step
                                                    ELSE step + 1])
    /\ UNCHANGED <<traffic, confirmed, digest, locks, req, stops>>

(* A deletion recorded since the mark refuses the step. *)
CommitStep(w) ==
    /\ work[w].pc = "inStep"
    /\ LET x       == work[w].res
           step    == work[w].step
           touched == Touches(x, step)
       IN  /\ Unlocked(touched)
           /\ IF \E r \in touched : frozenGuard(r, marked)
              THEN /\ EndStep(w, Idle)
                   /\ UNCHANGED <<data, deletions, elapsed, purged>>
              ELSE /\ CASE step = Retire     -> retireProjections(x, touched)
                        [] step = FinishStep -> finishPurge(x, touched)
                        [] OTHER             -> purgeRows(touched)
                   /\ EndStep(w, IF step = FinishStep THEN Idle
                                 ELSE [work[w] EXCEPT !.pc = "between", !.step = step + 1])
    /\ UNCHANGED <<traffic, confirmed, digest, locks, req, stops>>

(* A step fails or the replica stops: its transaction is rolled back.  The    *)
(* failure is then recorded, in attempts and diagnostic only.                 *)
Stop(w) ==
    /\ work[w] # Idle
    /\ stops < traffic.stops
    /\ stops' = stops + 1
    /\ BecomeWorker(w, Idle)
    /\ marked' = IF work[w].pc = "inStep" THEN {} ELSE marked
    /\ UNCHANGED <<traffic, data, record, locks, req>>

-----------------------------------------------------------------------------
Proceed(q) ==
    \/ LockKeyShare(q) \/ Guard(q) \/ CommitWrite(q)
    \/ LockForUpdate(q) \/ Deactivate(q)
    \/ Confirm(q) \/ ConfirmDeletion(q)

PurgeOn(w) == (\E x \in Resources : PurgeDue(w, x)) \/ purgeStep(w)

Next ==
    \/ \E q \in traffic.requests :
          \/ \E r \in traffic.writes, v \in Written : WriteRow(q, r, v)
          \/ \E x \in traffic.freezes : FreezeResource(q, x)
          \/ \E x \in Resources : ReadDeletionScope(q, x)
          \/ Proceed(q)
    \/ \E x \in Resources : RetentionElapses(x)
    \/ \E w \in traffic.workers : PurgeOn(w) \/ CommitStep(w) \/ Stop(w)

Spec == Init /\ [][Next]_vars

(* Transactions end and workers tick.  A step waits for the transactions that *)
(* hold a row, one after the other: new ones do not keep it waiting for ever. *)
FairSpec ==
    /\ Spec
    /\ \A q \in Requests : WF_vars(Proceed(q))
    /\ \A w \in Workers : WF_vars(PurgeOn(w)) /\ SF_vars(CommitStep(w))
-----------------------------------------------------------------------------
Phase(x) == IF x \in purged THEN "purged"
            ELSE IF x \in confirmed THEN "confirmed"
            ELSE IF x \in deletions THEN "frozen"
            ELSE "live"

phases == [x \in Resources |-> Phase(x)]

(* The rows that outlive a member and refer to it. *)
Detaches ==
    [x \in Resources |->
        IF x \in Members THEN OwnedAlerts[x] \cup Noted(TeamRows[x] \cup OwnedAlerts[x]) ELSE {}]

Contract == INSTANCE DeletionContract WITH
    phase <- phases, data <- rows, exported <- digest

ASSUME ContractAssumption == Contract!WellFormed

(* Transactions, locks, replicas and their failures keep the contract: each   *)
(* step is one of its steps or changes nothing it speaks of.                  *)
Implements == Contract!Spec

(* ExportCovers: the rows of a confirmed scope are those of its export, even  *)
(* when a write races the freeze, or a purge of a member the confirmation.    *)
ExportCovers == Contract!ExportCovers

(* PurgedIsEmpty: whatever stopped a purge on the way, and whichever replicas *)
(* took part in it, a deletion marked purged has no row left.                 *)
PurgedIsEmpty == Contract!PurgedIsEmpty

(* retireProjections: the deletion of a resource is published once, however   *)
(* often its purge is started, unless its tenant took it along.               *)
PublishedOnce ==
    \A x \in Resources : /\ published[x] <= 1
                         /\ x \in purged /\ published[x] = 0 => published[Tenant] = 1

(* Run: however a purge is interrupted and its rows are locked, no deletion   *)
(* stays due: it is purged in the end, or its deleted tenant takes it along.  *)
NoneStaysDue == []<>(Due = {})
=============================================================================
