--------------------------- MODULE LifecycleProofs ---------------------------
(***************************************************************************)
(* Lifecycle implements DeletionContract, for any resources, rows and      *)
(* tables, any number of requests and workers, and any interruptions; and  *)
(* what the contract guarantees thereby holds of the code.                 *)
(***************************************************************************)
EXTENDS Lifecycle, TLAPS

(* What requests and workers are, by where they are. *)
WriteReq  == [pc : {"locking", "guard", "writing"}, row : Rows, to : Written, at : Nat]
FreezeReq == [pc : {"freezing", "deactivating"}, res : Resources, seen : SUBSET Resources,
              own : Contents, tenant : Contents]
ExportReq == [pc : {"exported", "confirming"}, res : Resources, copy : [Rows -> Contents]]
Worker    == [pc : {"between", "inStep"}, res : Resources, step : Nat]

Typed ==
    /\ rows \in [Rows -> Contents]
    /\ projection \subseteq Resources
    /\ published \in [Resources -> Nat]
    /\ deletions \subseteq Resources
    /\ confirmed \subseteq deletions /\ purged \subseteq deletions
    /\ digest \in [Resources -> [Rows -> Contents]]
    /\ share \subseteq Requests \X Resources /\ update \subseteq Requests \X Resources
    /\ req \in [Requests -> {Idle} \cup WriteReq \cup FreezeReq \cup ExportReq]
    /\ work \in [Workers -> {Idle} \cup Worker]

(* FOR UPDATE excludes both kinds of locks. *)
LocksExclude ==
    \A q, p \in Requests, x \in Resources :
        <<q, x>> \in update /\ <<p, x>> \in share \cup update => q = p

(* The guard has come to i: a freeze is seen, or kept waiting. *)
Secured(q, i) ==
    LET x == LockOrder[req[q].row][i] IN x \in deletions \/ <<q, x>> \in share

Passed(q) ==
    {i \in DOMAIN LockOrder[req[q].row] : req[q].pc = "locking" => i < req[q].at}

(* A write: what it passed is secured; past the guard, nothing is frozen.  An *)
(* identifier can be taken again only once its deletion is recorded.          *)
WritePlace(q) ==
    req[q].pc \in {"locking", "guard", "writing"} =>
        /\ \A i \in Passed(q) : Secured(q, i)
        /\ req[q].pc = "locking" => req[q].at \in DOMAIN LockOrder[req[q].row]
        /\ req[q].row \in Namesakes => Scope[req[q].row] \subseteq deletions
        /\ req[q].pc = "writing" => Scope[req[q].row] \cap deletions = {}

Gone == {Absent, Suspended}

(* A freeze: its snapshot knows the deletions of the rows it shows gone.  The *)
(* resource it has locked is not deleted but with its tenant.                 *)
FreezePlace(q) ==
    req[q].pc \in {"freezing", "deactivating"} =>
        /\ req[q].own \in Gone => req[q].res \in req[q].seen
        /\ req[q].tenant \in Gone => Tenant \in req[q].seen
        /\ req[q].pc = "deactivating" =>
              /\ <<q, req[q].res>> \in update
              /\ Tenant \notin req[q].seen
              /\ req[q].res \in deletions => req[q].res # Tenant /\ Tenant \in deletions

(* An export: the rows left are those it copied, or detached. *)
ExportPlace(q) ==
    req[q].pc \in {"exported", "confirming"} =>
        /\ req[q].res \in deletions
        /\ \A r \in RowsOf(req[q].res) : rows[r] \in {req[q].copy[r], Absent} \cup Detached

Places == \A q \in Requests : WritePlace(q) /\ FreezePlace(q) /\ ExportPlace(q)

(* A purge: the tables it has gone through are empty, the deletion published. *)
WorkPlace(w) ==
    work[w].pc \in {"between", "inStep"} =>
        /\ work[w].res \in confirmed
        /\ work[w].pc = "inStep" => work[w].res \notin purged
        /\ work[w].step \in 0 .. FinishStep
        /\ \A i \in DOMAIN PurgeOrder : i < work[w].step /\ PurgeOrder[i] \in RowsOf(work[w].res)
                                         => rows[PurgeOrder[i]] = Absent
        /\ work[w].step # Retire =>
              /\ work[w].res \notin projection
              /\ work[w].res = Tenant => projection = {} /\ deletions = Resources

Purging ==
    /\ \A w \in Workers : WorkPlace(w)
    /\ \A w, v \in Workers : work[w].pc = "inStep" /\ work[v].pc = "inStep" => w = v

(* The row of a resource is gone exactly when it is deleted, but for what is  *)
(* deleted with its tenant.                                                   *)
OwnRows ==
    \A x \in Resources :
        /\ rows[OwnRow[x]] \in Gone => x \in deletions
        /\ x \in deletions => rows[OwnRow[x]] \in Gone \/ (x # Tenant /\ Tenant \in deletions)

(* Identifiers stay retired; audits of detachments go with the last purge.    *)
Untaken == \A r \in Namesakes : rows[r] = Absent
AuditsKept ==
    \A r \in Rows : \A a \in DetachAudits[r] : rows[a] = Absent => Scope[a] \cap purged # {}

(* A deletion is published as the projection goes. *)
Publications ==
    \A x \in Resources :
        /\ x \in projection => published[x] = 0
        /\ published[x] <= 1
        /\ x \notin projection => published[x] = 1 \/ published[Tenant] = 1
        /\ x \in purged => x \notin projection

LInv ==
    /\ Typed /\ LocksExclude /\ Places /\ Purging /\ OwnRows /\ Untaken /\ AuditsKept
    /\ Publications

(* What holds at a step besides, and is kept by the steps of the contract. *)
Promised == Contract!PurgedIsEmpty /\ Contract!ExportCovers
-----------------------------------------------------------------------------
(* How rows and resources lie to each other. *)

(* The tenant is a resource and no member; members are resources. *)
LEMMA ResourceFacts ==
    Tenant \in Resources /\ Tenant \notin Members /\ Members \subseteq Resources
  BY Zenon, LifecycleAssumption DEF Resources

(* A count that starts at zero and goes up by one at most. *)
LEMMA Increments == 0 + 1 = 1 /\ 0 # 1 /\ 1 <= 1 /\ \A n \in Nat : n + 0 = n
  OBVIOUS

(* The last step of a purge is not the first. *)
LEMMA LastStep ==
    /\ FinishStep \in Nat /\ FinishStep # Retire
    /\ 0 \in 0 .. FinishStep /\ 1 \in 0 .. FinishStep
  <1>1. Len(PurgeOrder) \in Nat
    BY TablesAssumption
  <1> QED
    BY <1>1 DEF FinishStep, Retire

(* The steps in between are those of the tables. *)
LEMMA StepNumbers ==
    /\ \A i \in DOMAIN PurgeOrder : /\ i \in Nat /\ ~(i < 0) /\ ~(i < 1) /\ i < FinishStep
                                    /\ i + 1 \in 0 .. FinishStep /\ i + 1 # Retire
    /\ \A n \in 0 .. FinishStep : n # Retire /\ n # FinishStep => n \in DOMAIN PurgeOrder
    /\ \A i, n \in DOMAIN PurgeOrder : i < n + 1 => i < n \/ i = n
  <1>1. Len(PurgeOrder) \in Nat /\ DOMAIN PurgeOrder = 1 .. Len(PurgeOrder)
    BY TablesAssumption
  <1> QED
    BY <1>1 DEF FinishStep, Retire

(* Idle is where no request and no worker has anything to keep. *)
LEMMA IdleFacts ==
    /\ Idle.pc \notin {"locking", "guard", "writing", "freezing", "deactivating"}
    /\ Idle.pc \notin {"exported", "confirming", "between", "inStep"}
  BY DEF Idle

(* A row is held by the resources its guard locks, at least by one. *)
LEMMA ScopeFacts ==
    ASSUME NEW r \in Rows
    PROVE  /\ LockOrder[r] \in Seq(Resources)
           /\ Scope[r] = {LockOrder[r][i] : i \in DOMAIN LockOrder[r]}
           /\ Scope[r] \subseteq Resources /\ Scope[r] # {}
           /\ r \notin Namesakes => Tenant \in Scope[r]
  <1>1. LockOrder[r] \in Seq(Resources)
    BY LifecycleAssumption
  <1>2. Scope[r] = {LockOrder[r][i] : i \in DOMAIN LockOrder[r]}
    BY DEF Scope
  <1>3. \A i \in DOMAIN LockOrder[r] : LockOrder[r][i] \in Resources
    BY <1>1
  <1>4. Scope[r] \subseteq Resources
    BY <1>2, <1>3
  <1>5. Scope[r] # {} /\ (r \notin Namesakes => Tenant \in Scope[r])
    BY TablesAssumption
  <1> QED
    BY Zenon, <1>1, <1>2, <1>4, <1>5

(* The row of a resource is held by it and by its tenant only. *)
LEMMA OwnRowFacts ==
    ASSUME NEW x \in Resources
    PROVE  /\ OwnRow[x] \in Rows \cap Removed /\ OwnRow[x] \notin Namesakes
           /\ x \in Scope[OwnRow[x]] /\ Scope[OwnRow[x]] \subseteq {Tenant, x}
           /\ \A r \in Rows : OwnRow[x] \notin DetachAudits[r]
           /\ \A m \in Members : OwnRow[x] \notin OwnedAlerts[m]
  BY Zenon, LifecycleAssumption, TablesAssumption, ContractAssumption DEF Contract!WellFormed

(* The phase of a resource, as the columns of its deletion tell it. *)
LEMMA PhaseFacts ==
    ASSUME Typed, NEW x \in Resources
    PROVE  /\ phases[x] = "live" <=> x \notin deletions
           /\ phases[x] = "frozen" <=> x \in deletions \ (confirmed \cup purged)
           /\ phases[x] = "confirmed" <=> x \in confirmed \ purged
           /\ phases[x] = "purged" <=> x \in purged
           /\ phases[x] \in Contract!Phases
  BY DEF Typed, phases, Phase, Contract!Phases

(* The same after a step. *)
LEMMA NextPhaseFacts ==
    ASSUME Typed', NEW x \in Resources
    PROVE  /\ phases'[x] = "live" <=> x \notin deletions'
           /\ phases'[x] = "frozen" <=> x \in deletions' \ (confirmed' \cup purged')
           /\ phases'[x] = "confirmed" <=> x \in confirmed' \ purged'
           /\ phases'[x] = "purged" <=> x \in purged'
           /\ phases'[x] \in Contract!Phases
  BY DEF Typed, phases, Phase, Contract!Phases

(* The types of the contract. *)
LEMMA ContractTyped == ASSUME Typed PROVE Contract!TypeOK
  <1>1. phases \in [Resources -> Contract!Phases]
    BY DEF phases, Phase, Contract!Phases
  <1> QED
    BY <1>1 DEF Typed, Contract!TypeOK

(* What a request is, by where it is. *)
LEMMA Kinds ==
    ASSUME Typed, NEW q \in Requests
    PROVE  /\ req[q].pc \in {"locking", "guard", "writing"} => req[q] \in WriteReq
           /\ req[q].pc \in {"freezing", "deactivating"} => req[q] \in FreezeReq
           /\ req[q].pc \in {"exported", "confirming"} => req[q] \in ExportReq
  BY DEF Typed, Idle, WriteReq, FreezeReq, ExportReq

(* What a worker is. *)
LEMMA WorkerKinds ==
    ASSUME Typed, NEW w \in Workers, work[w].pc \in {"between", "inStep"}
    PROVE  work[w] \in Worker
  BY DEF Typed, Idle, Worker

-----------------------------------------------------------------------------
(* What a step may do to the rows and the deletions without disturbing who    *)
(* takes no part in it.                                                       *)
Advance ==
    /\ deletions \subseteq deletions' /\ confirmed \subseteq confirmed'
    /\ projection' \subseteq projection
    /\ \A x \in deletions : \A r \in RowsOf(x) :
          /\ rows'[r] \in {rows[r], Absent} \cup Detached
          /\ r \in Removed /\ rows[r] = Absent => rows'[r] = Absent
    /\ \A x \in deletions' \ deletions, q \in Requests : req'[q] = req[q] =>
          /\ req[q].pc = "writing" => x \notin Scope[req[q].row]
          /\ req[q].pc = "deactivating" /\ req[q].res = x => x # Tenant /\ Tenant \in deletions'

(* Its locks are its own. *)
SameLocks(q) ==
    \A x \in Resources : /\ <<q, x>> \in share' <=> <<q, x>> \in share
                         /\ <<q, x>> \in update' <=> <<q, x>> \in update

Place(q) == WritePlace(q) /\ FreezePlace(q) /\ ExportPlace(q)

(* A request that takes no part in a step stays entitled to where it is. *)
LEMMA PlaceStays ==
    ASSUME LInv, Typed', Advance, NEW q \in Requests, req'[q] = req[q], SameLocks(q)
    PROVE  Place(q)'
  <1>0. Place(q) /\ Typed
    BY DEF LInv, Places, Place
  <1>1. WritePlace(q)'
    <2> SUFFICES ASSUME req[q].pc \in {"locking", "guard", "writing"}
                 PROVE  WritePlace(q)'
      BY Zenon DEF WritePlace
    <2>1. req[q] \in WriteReq /\ req[q].row \in Rows
      BY <1>0, Kinds DEF WriteReq
    <2>2. ASSUME NEW i \in Passed(q) PROVE Secured(q, i)'
      <3>1. Secured(q, i)
        BY Zenon, <1>0, <2>2 DEF Place, WritePlace
      <3>2. LockOrder[req[q].row][i] \in Resources
        BY Zenon, <2>1, <2>2, ScopeFacts DEF Passed
      <3> QED
        BY Zenon, <3>1, <3>2 DEF Secured, Advance, SameLocks
    <2>3. Passed(q)' = Passed(q)
      BY DEF Passed
    <2>4. req[q].pc = "writing" => Scope[req[q].row] \cap deletions' = {}
      BY Zenon, <1>0 DEF Place, WritePlace, Advance
    <2> QED
      BY Zenon, <1>0, <2>2, <2>3, <2>4 DEF Place, WritePlace, Advance
  <1>2. FreezePlace(q)'
    <2> SUFFICES ASSUME req[q].pc \in {"freezing", "deactivating"}
                 PROVE  FreezePlace(q)'
      BY Zenon DEF FreezePlace
    <2>1. req[q].res \in Resources
      BY Zenon, <1>0, Kinds DEF FreezeReq
    <2> QED
      BY Zenon, <1>0, <2>1 DEF Place, FreezePlace, Advance, SameLocks
  <1>3. ExportPlace(q)'
    BY Zenon, <1>0 DEF Place, ExportPlace, Advance
  <1> QED
    BY <1>1, <1>2, <1>3 DEF Place

(* Likewise a worker, unless the deletion it purges is purged under it. *)
LEMMA WorkStays ==
    ASSUME LInv, Typed', Advance, NEW w \in Workers, work'[w] = work[w],
           work[w].pc = "inStep" => work[w].res \notin purged'
    PROVE  WorkPlace(w)'
  <1> SUFFICES ASSUME work[w].pc \in {"between", "inStep"}
               PROVE  WorkPlace(w)'
    BY Zenon DEF WorkPlace
  <1>1. WorkPlace(w) /\ Typed /\ Typed'
    BY DEF LInv, Purging
  <1>2. work[w].res \in deletions
    BY Zenon, <1>1 DEF WorkPlace, Typed
  <1>3. ASSUME NEW i \in DOMAIN PurgeOrder, i < work[w].step, PurgeOrder[i] \in RowsOf(work[w].res)
        PROVE  rows'[PurgeOrder[i]] = Absent
    <2>1. PurgeOrder[i] \in Removed /\ rows[PurgeOrder[i]] = Absent
      BY Zenon, <1>1, <1>3 DEF WorkPlace, Removed
    <2> QED
      BY Zenon, <1>2, <1>3, <2>1 DEF Advance
  <1> QED
    BY Zenon, <1>1, <1>3 DEF WorkPlace, Advance, Typed

-----------------------------------------------------------------------------
(* Requests that leave rows and deletions alone. *)

(* What moves of requests have in common. *)
Settled == UNCHANGED <<rows, projection, published, deletions, confirmed, digest, purged>>

(* Only request q moves. *)
Only(q) ==
    /\ req' \in [Requests -> {Idle} \cup WriteReq \cup FreezeReq \cup ExportReq]
    /\ \A p \in Requests \ {q} : req'[p] = req[p] /\ SameLocks(p)

(* What is shown of every step. *)
Kept == LInv' /\ [Contract!Next]_(Contract!vars)

(* A move of one request that leaves it entitled to where it is. *)
LEMMA MoveKeeps ==
    ASSUME LInv, Settled, UNCHANGED work, NEW q \in Requests, Only(q), Place(q)',
           share' \subseteq Requests \X Resources, update' \subseteq Requests \X Resources,
           LocksExclude'
    PROVE  Kept
  <1>1. Typed'
    BY Zenon DEF LInv, Typed, Settled, Only
  <1>2. Advance
    BY Zenon DEF Advance, Settled
  <1>3. Places'
    BY <1>1, <1>2, PlaceStays DEF Only, Places, Place
  <1>4. Purging' /\ OwnRows' /\ Untaken' /\ AuditsKept' /\ Publications'
    BY Zenon DEF LInv, Settled, Purging, WorkPlace, OwnRows, Untaken, AuditsKept, Publications
  <1>5. UNCHANGED Contract!vars
    BY DEF Settled, Contract!vars, phases, Phase
  <1> QED
    BY <1>1, <1>3, <1>4, <1>5 DEF LInv, Kept

(* Become changes the state of one request. *)
LEMMA BecomeOnly ==
    ASSUME Typed, NEW q \in Requests, NEW z \in {Idle} \cup WriteReq \cup FreezeReq \cup ExportReq,
           Become(q, z), \A p \in Requests \ {q} : SameLocks(p)
    PROVE  Only(q) /\ req'[q] = z
  BY DEF Typed, Become, Only

(* The end of a request gives its locks back. *)
LEMMA EndFacts ==
    ASSUME LInv, NEW q \in Requests, EndRequest(q)
    PROVE  /\ Only(q) /\ req'[q] = Idle /\ Place(q)' /\ LocksExclude'
           /\ share' \subseteq share /\ update' \subseteq update
  <1>1. share' \subseteq share /\ update' \subseteq update
    BY DEF EndRequest
  <1>2. \A p \in Requests \ {q} : SameLocks(p)
    BY DEF EndRequest, SameLocks
  <1>3. Only(q) /\ req'[q] = Idle
    BY Zenon, <1>2, BecomeOnly DEF LInv, EndRequest
  <1>4. Place(q)'
    BY <1>3 DEF Place, WritePlace, FreezePlace, ExportPlace, Idle
  <1>5. LocksExclude'
    BY <1>1 DEF LInv, LocksExclude
  <1> QED
    BY <1>1, <1>3, <1>4, <1>5

(* A request that ends without a trace. *)
LEMMA EndKeeps ==
    ASSUME LInv, NEW q \in Requests, EndRequest(q), Settled, UNCHANGED work
    PROVE  Kept
  BY Zenon, EndFacts, MoveKeeps DEF LInv, Typed

(* WriteRow: an identifier may be taken when its row is gone, hence deleted. *)
LEMMA WriteRowKeeps ==
    ASSUME LInv, NEW q \in Requests, NEW r \in Rows, NEW v \in Written, WriteRow(q, r, v)
    PROVE  Kept
  <1> DEFINE z == [pc |-> "locking", row |-> r, to |-> v, at |-> 1]
  <1>1. z \in WriteReq
    BY DEF WriteReq
  <1>2. Become(q, z) /\ Settled /\ UNCHANGED <<work, share, update>>
    BY Zenon DEF WriteRow, Settled, data, record, locks
  <1>3. Only(q) /\ req'[q] = z
    BY Zenon, <1>1, <1>2, BecomeOnly DEF LInv, SameLocks
  <1>4. r \in Namesakes => Scope[r] \subseteq deletions
    BY Zenon, ScopeFacts DEF WriteRow, Exists, LInv, OwnRows, Gone
  <1>5. 1 \in DOMAIN LockOrder[r] /\ \A i \in DOMAIN LockOrder[r] : ~(i < 1)
    BY ScopeFacts
  <1>6. Place(q)'
    BY <1>2, <1>3, <1>4, <1>5 DEF Place, WritePlace, FreezePlace, ExportPlace, Passed, Settled
  <1> QED
    BY Zenon, <1>2, <1>3, <1>6, MoveKeeps DEF LInv, Typed, LocksExclude

(* LockKeyShare: a row that is gone belongs to a resource that is deleted. *)
LEMMA LockKeyShareKeeps ==
    ASSUME LInv, NEW q \in Requests, LockKeyShare(q)
    PROVE  Kept
  <1> DEFINE r == req[q].row
             x == LockOrder[r][req[q].at]
  <1>1. /\ req[q] \in WriteReq /\ req[q].pc = "locking" /\ r \in Rows /\ WritePlace(q) /\ Typed
        /\ req[q].at \in DOMAIN LockOrder[r]
    BY Zenon, Kinds DEF LInv, Places, WritePlace, LockKeyShare, WriteReq
  <1>2. LockOrder[r] \in Seq(Resources) /\ x \in Resources
    BY <1>1, ScopeFacts
  <1>3. Settled /\ UNCHANGED <<work, update>> /\ CanShare(q, x)
        /\ share' = IF Exists(x) THEN share \cup {<<q, x>>} ELSE share
    BY Zenon DEF LockKeyShare, Settled, data, record
  <1>4. PICK z \in WriteReq :
            /\ Become(q, z) /\ z.row = r
            /\ \/ z.pc = "locking" /\ req[q].at < Len(LockOrder[r]) /\ z.at = req[q].at + 1
               \/ z.pc = "guard" /\ ~(req[q].at < Len(LockOrder[r]))
    <2>1. CASE req[q].at < Len(LockOrder[r])
      <3> DEFINE z == [req[q] EXCEPT !.at = @ + 1]
      <3>1. z \in WriteReq /\ z.row = r /\ z.pc = "locking" /\ z.at = req[q].at + 1
        BY <1>1 DEF WriteReq
      <3> QED
        BY Zenon, <2>1, <3>1 DEF LockKeyShare
    <2>2. CASE ~(req[q].at < Len(LockOrder[r]))
      <3> DEFINE z == [req[q] EXCEPT !.pc = "guard"]
      <3>1. z \in WriteReq /\ z.row = r /\ z.pc = "guard"
        BY <1>1 DEF WriteReq
      <3> QED
        BY Zenon, <2>2, <3>1 DEF LockKeyShare
    <2> QED
      BY Zenon, <2>1, <2>2
  <1>5. \A p \in Requests \ {q} : SameLocks(p)
    BY Zenon, <1>3 DEF SameLocks
  <1>6. Only(q) /\ req'[q] = z
    BY Zenon, <1>1, <1>4, <1>5, BecomeOnly
  <1>7. x \in deletions \/ <<q, x>> \in share'
    BY Zenon, <1>2, <1>3 DEF Exists, LInv, OwnRows, Gone
  <1>8. ASSUME NEW i \in DOMAIN LockOrder[r], z.pc = "locking" => i < z.at
        PROVE  LockOrder[r][i] \in deletions \/ <<q, LockOrder[r][i]>> \in share'
    <2>1. i = req[q].at \/ i < req[q].at
      BY <1>1, <1>2, <1>4, <1>8 DEF WriteReq
    <2>2. i < req[q].at => Secured(q, i)
      BY Zenon, <1>1 DEF WritePlace, Passed
    <2> QED
      BY Zenon, <1>3, <1>7, <2>1, <2>2 DEF Secured
  <1>9. z.pc = "locking" => z.at \in DOMAIN LockOrder[r]
    BY <1>1, <1>2, <1>4
  <1>10. Place(q)'
    BY Zenon, <1>1, <1>3, <1>4, <1>6, <1>8, <1>9
    DEF Place, WritePlace, FreezePlace, ExportPlace, Passed, Secured, Settled
  <1>11. LocksExclude'
    BY Zenon, <1>3 DEF LInv, LocksExclude, CanShare, UpdatedBy
  <1>12. share' \subseteq Requests \X Resources /\ update' \subseteq Requests \X Resources
    BY <1>1, <1>2, <1>3 DEF Typed
  <1> QED
    BY Zenon, <1>3, <1>6, <1>10, <1>11, <1>12, MoveKeeps

(* Guard: a write goes on when nothing that holds the row is deleted. *)
LEMMA GuardKeeps ==
    ASSUME LInv, NEW q \in Requests, Guard(q)
    PROVE  Kept
  <1>1. Settled /\ UNCHANGED work
    BY DEF Guard, Settled, data, record
  <1>2. CASE EndRequest(q)
    BY <1>1, <1>2, EndKeeps
  <1>3. CASE ~EndRequest(q)
    <2> DEFINE z == [req[q] EXCEPT !.pc = "writing"]
    <2>1. req[q] \in WriteReq /\ req[q].pc = "guard" /\ WritePlace(q) /\ Typed
      BY Kinds DEF LInv, Places, Guard
    <2>2. z \in WriteReq /\ z.pc = "writing" /\ z.row = req[q].row
      BY <2>1 DEF WriteReq
    <2>3. /\ Become(q, z) /\ UNCHANGED <<share, update>>
          /\ Scope[req[q].row] \cap deletions = {}
      BY <1>3 DEF Guard, locks, frozenGuard
    <2>4. Only(q) /\ req'[q] = z
      BY <2>1, <2>2, <2>3, BecomeOnly DEF SameLocks
    <2>5. Place(q)'
      BY Zenon, <1>1, <2>1, <2>2, <2>3, <2>4
      DEF Place, WritePlace, FreezePlace, ExportPlace, Passed, Secured, Settled
    <2> QED
      BY Zenon, <1>1, <2>3, <2>4, <2>5, MoveKeeps DEF LInv, Typed, LocksExclude
  <1> QED
    BY <1>2, <1>3

(* FreezeResource and a replay: the snapshot knows the deletion of each row   *)
(* that it shows gone.                                                        *)
LEMMA SnapshotKeeps ==
    ASSUME LInv, NEW q \in Requests, NEW z \in FreezeReq, Become(q, z), Settled, UNCHANGED work,
           z.pc = "freezing", z.seen = deletions, z.own = rows[OwnRow[z.res]],
           z.tenant = rows[OwnRow[Tenant]],
           share' \in {share, {l \in share : l[1] # q}},
           update' \in {update, {l \in update : l[1] # q}}
    PROVE  Kept
  <1>1. share' \subseteq share /\ update' \subseteq update /\ \A p \in Requests \ {q} : SameLocks(p)
    BY Zenon DEF SameLocks
  <1>2. Only(q) /\ req'[q] = z
    BY Zenon, <1>1, BecomeOnly DEF LInv
  <1>3. z.res \in Resources
    BY Zenon DEF FreezeReq
  <1>4. Place(q)'
    BY Zenon, <1>2, <1>3, ResourceFacts
    DEF LInv, OwnRows, Place, WritePlace, FreezePlace, ExportPlace
  <1>5. LocksExclude'
    BY Zenon, <1>1 DEF LInv, LocksExclude
  <1> QED
    BY Zenon, <1>1, <1>2, <1>4, <1>5, MoveKeeps DEF LInv, Typed

(* FreezeResource. *)
LEMMA FreezeResourceKeeps ==
    ASSUME LInv, NEW q \in Requests, NEW x \in Resources, FreezeResource(q, x)
    PROVE  Kept
  <1> DEFINE z == [pc |-> "freezing", res |-> x, seen |-> deletions,
                   own |-> rows[OwnRow[x]], tenant |-> rows[OwnRow[Tenant]]]
  <1>1. z \in FreezeReq
    BY Zenon, ResourceFacts, OwnRowFacts DEF LInv, Typed, FreezeReq
  <1>2. Become(q, z) /\ Settled /\ UNCHANGED <<work, share, update>>
    BY Zenon DEF FreezeResource, Settled, data, record, locks
  <1> QED
    BY Zenon, <1>1, <1>2, SnapshotKeeps

(* A freeze that is replayed. *)
LEMMA ReplayKeeps ==
    ASSUME LInv, NEW q \in Requests, req[q] \in FreezeReq, Replay(q), Settled, UNCHANGED work
    PROVE  Kept
  <1>1. req[q].res \in Resources
    BY DEF FreezeReq
  <1>2. /\ rows[OwnRow[req[q].res]] \in Contents /\ rows[OwnRow[Tenant]] \in Contents
        /\ deletions \in SUBSET Resources
    BY Zenon, <1>1, ResourceFacts, OwnRowFacts DEF LInv, Typed
  <1>3. PICK z \in FreezeReq :
            /\ Become(q, z) /\ z.pc = "freezing" /\ z.seen = deletions /\ z.res = req[q].res
            /\ z.own = rows[OwnRow[req[q].res]] /\ z.tenant = rows[OwnRow[Tenant]]
    <2> DEFINE z == [req[q] EXCEPT !.pc = "freezing", !.seen = deletions,
                  !.own = rows[OwnRow[req[q].res]], !.tenant = rows[OwnRow[Tenant]]]
    <2>1. /\ z \in FreezeReq
          /\ z.pc = "freezing" /\ z.seen = deletions /\ z.res = req[q].res
          /\ z.own = rows[OwnRow[req[q].res]] /\ z.tenant = rows[OwnRow[Tenant]]
      BY Zenon, <1>2 DEF FreezeReq
    <2> QED
      BY Zenon, <2>1 DEF Replay
  <1> QED
    BY Zenon, <1>3, SnapshotKeeps DEF Replay

(* LockForUpdate: the row is the one of the snapshot, so that the resource is *)
(* not deleted since, unless its tenant took it along.                        *)
LEMMA LockForUpdateKeeps ==
    ASSUME LInv, NEW q \in Requests, LockForUpdate(q)
    PROVE  Kept
  <1>1. /\ req[q] \in FreezeReq /\ req[q].pc = "freezing" /\ FreezePlace(q) /\ Typed
        /\ req[q].res \in Resources
    BY Zenon, Kinds DEF LInv, Places, LockForUpdate, FreezeReq
  <1>2. Settled /\ UNCHANGED work
    BY DEF LockForUpdate, Settled, data, record
  <1>3. CASE Replay(q)
    BY Zenon, <1>1, <1>2, <1>3, ReplayKeeps
  <1>4. CASE EndRequest(q)
    BY <1>2, <1>4, EndKeeps
  <1>5. CASE ~Replay(q) /\ ~EndRequest(q)
    <2> DEFINE z == [req[q] EXCEPT !.pc = "deactivating"]
               x == req[q].res
    <2>1. /\ Freezable(q) /\ Become(q, z) /\ CanUpdate(q, x) /\ rows[OwnRow[x]] = req[q].own
          /\ update' = update \cup {<<q, x>>} /\ UNCHANGED share
      BY Zenon, <1>5 DEF LockForUpdate
    <2>2. /\ z \in FreezeReq /\ z.pc = "deactivating" /\ z.res = x /\ z.seen = req[q].seen
          /\ z.own = req[q].own /\ z.tenant = req[q].tenant
      BY <1>1 DEF FreezeReq
    <2>3. \A p \in Requests \ {q} : SameLocks(p)
      BY <2>1 DEF SameLocks
    <2>4. Only(q) /\ req'[q] = z
      BY Zenon, <1>1, <2>1, <2>2, <2>3, BecomeOnly
    <2>5. x \in deletions => x # Tenant /\ Tenant \in deletions
      BY Zenon, <1>1, <2>1 DEF LInv, OwnRows, FreezePlace, Freezable
    <2>6. Place(q)'
      <3>1. FreezePlace(q)'
        BY Zenon, <1>1, <1>2, <2>1, <2>2, <2>4, <2>5 DEF FreezePlace, Freezable, Settled
      <3> QED
        BY <2>2, <2>4, <3>1 DEF Place, WritePlace, ExportPlace
    <2>7. LocksExclude'
      BY Zenon, <2>1 DEF LInv, LocksExclude, CanUpdate, UpdatedBy, SharedBy
    <2>8. share' \subseteq Requests \X Resources /\ update' \subseteq Requests \X Resources
      BY <1>1, <2>1 DEF Typed
    <2> QED
      BY <1>2, <2>4, <2>6, <2>7, <2>8, MoveKeeps
  <1> QED
    BY <1>3, <1>4, <1>5

(* ReadDeletionScope: the export is what there is. *)
LEMMA ReadDeletionScopeKeeps ==
    ASSUME LInv, NEW q \in Requests, NEW x \in Resources, ReadDeletionScope(q, x)
    PROVE  Kept
  <1> DEFINE z == [pc |-> "exported", res |-> x, copy |-> exportOf(x)]
  <1>1. exportOf(x) \in [Rows -> Contents] /\ \A r \in RowsOf(x) : exportOf(x)[r] = rows[r]
    BY Zenon DEF LInv, Typed, exportOf, RowsOf, Contents
  <1>2. z \in ExportReq
    BY Zenon, <1>1 DEF ExportReq
  <1>3. Become(q, z) /\ Settled /\ UNCHANGED <<work, share, update>> /\ x \in deletions
    BY Zenon DEF ReadDeletionScope, Settled, data, record, locks
  <1>4. Only(q) /\ req'[q] = z
    BY Zenon, <1>2, <1>3, BecomeOnly DEF LInv, SameLocks
  <1>5. Place(q)'
    BY <1>1, <1>3, <1>4 DEF Place, WritePlace, FreezePlace, ExportPlace, Settled
  <1> QED
    BY Zenon, <1>3, <1>4, <1>5, MoveKeeps DEF LInv, Typed, LocksExclude

(* Confirm: the request goes on or ends. *)
LEMMA ConfirmKeeps ==
    ASSUME LInv, NEW q \in Requests, Confirm(q)
    PROVE  Kept
  <1>1. req[q] \in ExportReq /\ req[q].pc = "exported" /\ ExportPlace(q) /\ Typed
    BY Kinds DEF LInv, Places, Confirm
  <1>2. Settled /\ UNCHANGED <<work, share, update>>
    BY DEF Confirm, Settled, data, record, locks
  <1>3. PICK z \in {Idle} \cup ExportReq :
            /\ Become(q, z)
            /\ z # Idle => z.pc = "confirming" /\ z.res = req[q].res /\ z.copy = req[q].copy
    <2> DEFINE z == [req[q] EXCEPT !.pc = "confirming"]
    <2>1. z \in ExportReq /\ z.pc = "confirming" /\ z.res = req[q].res /\ z.copy = req[q].copy
      BY <1>1 DEF ExportReq
    <2>2. Become(q, z) \/ Become(q, Idle)
      BY DEF Confirm
    <2> QED
      BY Zenon, <2>1, <2>2
  <1>4. Only(q) /\ req'[q] = z
    BY Zenon, <1>1, <1>2, <1>3, BecomeOnly DEF SameLocks
  <1>5. Place(q)'
    <2>1. CASE z = Idle
      BY Zenon, <1>4, <2>1, IdleFacts DEF Place, WritePlace, FreezePlace, ExportPlace
    <2>2. CASE z # Idle
      BY Zenon, <1>1, <1>2, <1>3, <1>4, <2>2
      DEF Place, WritePlace, FreezePlace, ExportPlace, Settled
    <2> QED
      BY <2>1, <2>2
  <1> QED
    BY Zenon, <1>2, <1>4, <1>5, MoveKeeps DEF LInv, Typed, LocksExclude

-----------------------------------------------------------------------------
(* Requests that change rows or deletions. *)

(* Whoever takes no part in the step of a request stays where it is. *)
LEMMA OthersStay ==
    ASSUME LInv, Typed', Advance, UNCHANGED <<work, purged>>, NEW q \in Requests, Only(q), Place(q)'
    PROVE  Places' /\ Purging'
  <1>1. Places'
    BY Zenon, PlaceStays DEF Only, Places, Place
  <1>2. ASSUME NEW w \in Workers PROVE WorkPlace(w)'
    BY Zenon, WorkStays DEF LInv, Purging, WorkPlace
  <1> QED
    BY Zenon, <1>1, <1>2 DEF LInv, Purging

(* CommitWrite: nothing that holds the row is deleted, a write of the         *)
(* contract.                                                                  *)
LEMMA CommitWriteKeeps ==
    ASSUME LInv, NEW q \in Requests, CommitWrite(q)
    PROVE  Kept
  <1> DEFINE r == req[q].row
             v == req[q].to
  <1>1. r \in Rows /\ v \in Written /\ Typed /\ Scope[r] \cap deletions = {} /\ r \notin Namesakes
    <2>1. req[q].pc = "writing" /\ WritePlace(q) /\ Typed
      BY Zenon DEF LInv, Places, CommitWrite
    <2>2. r \in Rows /\ v \in Written
      BY Zenon, <2>1, Kinds DEF WriteReq
    <2>3. Scope[r] \cap deletions = {} /\ (r \in Namesakes => Scope[r] \subseteq deletions)
      BY Zenon, <2>1 DEF WritePlace
    <2> QED
      BY Zenon, <2>1, <2>2, <2>3, ScopeFacts
  <1>2. /\ rows' = [rows EXCEPT ![r] = v] /\ EndRequest(q)
        /\ UNCHANGED <<projection, published, deletions, confirmed, digest, purged, work>>
    BY Zenon DEF CommitWrite, record
  <1>3. /\ Only(q) /\ req'[q] = Idle /\ Place(q)' /\ LocksExclude'
        /\ share' \subseteq share /\ update' \subseteq update
    BY Zenon, <1>2, EndFacts
  <1>4. v \in Contents /\ v \notin Gone \cup Detached
    BY <1>1 DEF Written, Contents, Gone, Detached, Absent, Active, Edited, Suspended, TeamLeft,
                OwnerLeft
  <1>5. Typed'
    BY Zenon, <1>1, <1>2, <1>3, <1>4 DEF Typed, Only
  <1>6. Advance
    BY Zenon, <1>1, <1>2 DEF Advance, Typed, RowsOf
  <1>7. Places' /\ Purging'
    BY Zenon, <1>2, <1>3, <1>5, <1>6, OthersStay
  <1>8. OwnRows'
    BY Zenon, <1>1, <1>2, <1>4, OwnRowFacts DEF LInv, OwnRows, Typed
  <1>9. Untaken' /\ AuditsKept' /\ Publications'
    BY Zenon, <1>1, <1>2, <1>4, LifecycleAssumption
    DEF LInv, Untaken, AuditsKept, Publications, Typed, Gone
  <1>10. Contract!Write(r)
    <2>1. ~Contract!Held(r)
      BY Zenon, <1>1, ScopeFacts, PhaseFacts DEF Contract!Held
    <2>2. UNCHANGED phases
      BY Zenon, <1>2 DEF phases, Phase
    <2> QED
      BY Zenon, <1>2, <1>4, <2>1, <2>2 DEF Contract!Write
  <1> QED
    BY Zenon, <1>1, <1>3, <1>5, <1>7, <1>8, <1>9, <1>10 DEF LInv, Kept, Contract!Next

(* Deactivate: the tenant is as in the snapshot, so that neither it nor the   *)
(* resource is deleted; writes of the scope wait or are over.                 *)
LEMMA DeactivateKeeps ==
    ASSUME LInv, NEW q \in Requests, Deactivate(q)
    PROVE  Kept
  <1> DEFINE x == req[q].res
  <1>1. /\ req[q] \in FreezeReq /\ req[q].pc = "deactivating" /\ FreezePlace(q) /\ Typed
        /\ x \in Resources
    BY Zenon, Kinds DEF LInv, Places, Deactivate, FreezeReq
  <1>2. CASE Replay(q) /\ UNCHANGED <<rows, deletions>>
    <2>1. Settled /\ UNCHANGED work
      BY Zenon, <1>2 DEF Deactivate, Settled
    <2> QED
      BY Zenon, <1>1, <1>2, <2>1, ReplayKeeps
  <1>3. CASE ~(Replay(q) /\ UNCHANGED <<rows, deletions>>)
    <2>1. /\ rows[OwnRow[Tenant]] = req[q].tenant /\ EndRequest(q)
          /\ rows' = [rows EXCEPT ![OwnRow[x]] = Suspended] /\ deletions' = deletions \cup {x}
          /\ UNCHANGED <<projection, published, confirmed, digest, purged, work>>
      BY Zenon, <1>3 DEF Deactivate
    <2>2. x \notin deletions /\ Tenant \notin deletions
      BY Zenon, <1>1, <2>1, ResourceFacts DEF LInv, OwnRows, FreezePlace
    <2>3. /\ Only(q) /\ req'[q] = Idle /\ Place(q)' /\ LocksExclude'
          /\ share' \subseteq share /\ update' \subseteq update
      BY Zenon, <2>1, EndFacts
    <2>4. OwnRow[x] \in Rows /\ OwnRow[x] \notin Namesakes
      BY Zenon, <1>1, OwnRowFacts
    <2>5. Typed'
      BY Zenon, <1>1, <2>1, <2>3, <2>4 DEF Typed, Only, Contents
    <2>6. ASSUME NEW p \in Requests, req'[p] = req[p]
          PROVE  /\ req[p].pc = "writing" => x \notin Scope[req[p].row]
                 /\ req[p].pc = "deactivating" => req[p].res # x
      <3>1. p # q
        BY Zenon, <1>1, <2>3, <2>6, IdleFacts
      <3>2. <<q, x>> \in update
        BY Zenon, <1>1 DEF FreezePlace
      <3>3. req[p].pc = "deactivating" => req[p].res # x
        BY Zenon, <1>1, <3>1, <3>2 DEF LInv, Places, FreezePlace, LocksExclude
      <3>4. ASSUME req[p].pc = "writing", x \in Scope[req[p].row] PROVE FALSE
        <4>1. req[p].row \in Rows
          BY Zenon, <1>1, <3>4, Kinds DEF WriteReq
        <4>2. PICK i \in DOMAIN LockOrder[req[p].row] : LockOrder[req[p].row][i] = x
          BY <3>4, <4>1, ScopeFacts
        <4>3. Secured(p, i)
          BY Zenon, <3>4, <4>2 DEF LInv, Places, WritePlace, Passed
        <4> QED
          BY Zenon, <1>1, <2>2, <3>1, <3>2, <4>2, <4>3 DEF Secured, LInv, LocksExclude
      <3> QED
        BY Zenon, <3>3, <3>4
    <2>7. Advance
      <3>1. \A y \in deletions : \A r \in RowsOf(y) : r # OwnRow[x]
        BY Zenon, <1>1, <2>2, OwnRowFacts DEF RowsOf
      <3> QED
        BY Zenon, <1>1, <2>1, <2>6, <3>1 DEF Advance, Typed, RowsOf
    <2>8. Places' /\ Purging'
      BY Zenon, <2>1, <2>3, <2>5, <2>7, OthersStay
    <2>9. OwnRows'
      <3>1. \A y \in Resources : OwnRow[y] = OwnRow[x] => y = x
        BY Zenon, <1>1, OwnRowFacts, ResourceFacts
      <3> QED
        BY Zenon, <1>1, <2>1, <2>4, <3>1, OwnRowFacts DEF LInv, OwnRows, Typed, Gone
    <2>10. Suspended \notin Detached \cup {Absent}
      BY DEF Detached, Absent, Suspended, TeamLeft, OwnerLeft
    <2>11. Untaken' /\ AuditsKept' /\ Publications'
      BY Zenon, <1>1, <2>1, <2>4, <2>10, LifecycleAssumption
      DEF LInv, Untaken, AuditsKept, Publications, Typed
    <2>12. Contract!Freeze(x)
      <3>1. phases[x] = "live" /\ phases[Tenant] = "live"
        BY Zenon, <1>1, <2>2, PhaseFacts, ResourceFacts
      <3>2. phases' = [phases EXCEPT ![x] = "frozen"]
        BY Zenon, <1>1, <2>1, <2>2 DEF phases, Phase, Typed
      <3> QED
        BY Zenon, <2>1, <2>10, <3>1, <3>2 DEF Contract!Freeze, Contents
    <2> QED
      BY Zenon, <1>1, <2>3, <2>5, <2>8, <2>9, <2>11, <2>12 DEF LInv, Kept, Contract!Next
  <1> QED
    BY <1>2, <1>3

(* ConfirmDeletion: what is left of the scope is in the export confirmed. *)
LEMMA ConfirmDeletionKeeps ==
    ASSUME LInv, NEW q \in Requests, ConfirmDeletion(q)
    PROVE  Kept
  <1> DEFINE x == req[q].res
  <1>1. /\ req[q] \in ExportReq /\ req[q].pc = "confirming" /\ ExportPlace(q) /\ Typed
        /\ x \in Resources /\ req[q].copy \in [Rows -> Contents]
    BY Zenon, Kinds DEF LInv, Places, ConfirmDeletion, ExportReq
  <1>2. /\ EndRequest(q)
        /\ UNCHANGED <<rows, projection, published, deletions, purged, work>>
    BY Zenon DEF ConfirmDeletion, data
  <1>3. CASE UNCHANGED <<confirmed, digest>>
    BY <1>2, <1>3, EndKeeps DEF Settled
  <1>4. CASE ~UNCHANGED <<confirmed, digest>>
    <2>1. /\ x \notin purged \cup confirmed /\ confirmed' = confirmed \cup {x}
          /\ digest' = [digest EXCEPT ![x] = req[q].copy]
      BY Zenon, <1>4 DEF ConfirmDeletion
    <2>2. /\ Only(q) /\ req'[q] = Idle /\ Place(q)' /\ LocksExclude'
          /\ share' \subseteq share /\ update' \subseteq update
      BY Zenon, <1>2, EndFacts
    <2>3. x \in deletions /\ \A r \in RowsOf(x) : rows[r] \in {req[q].copy[r], Absent} \cup Detached
      BY Zenon, <1>1 DEF ExportPlace
    <2>4. Typed'
      BY Zenon, <1>1, <1>2, <2>1, <2>2, <2>3 DEF Typed, Only
    <2>5. Advance
      BY Zenon, <1>2, <2>1 DEF Advance
    <2>6. Places' /\ Purging'
      BY Zenon, <1>2, <2>2, <2>4, <2>5, OthersStay
    <2>7. OwnRows' /\ Untaken' /\ AuditsKept' /\ Publications'
      BY Zenon, <1>2 DEF LInv, OwnRows, Untaken, AuditsKept, Publications
    <2>8. Contract!Confirm(x)
      <3>1. phases[x] = "frozen"
        BY Zenon, <1>1, <2>1, <2>3, PhaseFacts
      <3>2. phases' = [phases EXCEPT ![x] = "confirmed"]
        BY Zenon, <1>1, <1>2, <2>1 DEF phases, Phase
      <3>3. digest' \in [Resources -> [Rows -> Contents]]
        BY Zenon, <2>4 DEF Typed
      <3>4. digest'[x] = req[q].copy /\ \A y \in Resources \ {x} : digest'[y] = digest[y]
        BY Zenon, <1>1, <2>1 DEF Typed
      <3> QED
        BY Zenon, <1>2, <2>3, <3>1, <3>2, <3>3, <3>4 DEF Contract!Confirm, Contract!RowsOf, RowsOf
    <2> QED
      BY Zenon, <1>1, <2>2, <2>4, <2>6, <2>7, <2>8 DEF LInv, Kept, Contract!Next
  <1> QED
    BY <1>3, <1>4

-----------------------------------------------------------------------------
(* Workers. *)

(* Only the retention of a deletion elapses. *)
LEMMA ElapseKeeps ==
    ASSUME LInv, Settled, UNCHANGED <<req, work, share, update>>
    PROVE  Kept
  <1>1. UNCHANGED Contract!vars
    BY DEF Settled, Contract!vars, phases, Phase
  <1>2. Typed' /\ LocksExclude'
    BY Zenon DEF LInv, Typed, LocksExclude, Settled
  <1>3. Places'
    <2>1. \A q \in Requests : WritePlace(q)'
      BY Zenon DEF LInv, Settled, Places, WritePlace, Passed, Secured
    <2>2. \A q \in Requests : FreezePlace(q)' /\ ExportPlace(q)'
      BY Zenon DEF LInv, Settled, Places, FreezePlace, ExportPlace
    <2> QED
      BY <2>1, <2>2 DEF Places
  <1>4. Purging' /\ OwnRows' /\ Untaken' /\ AuditsKept' /\ Publications'
    BY Zenon DEF LInv, Settled, Purging, WorkPlace, OwnRows, Untaken, AuditsKept, Publications
  <1> QED
    BY <1>1, <1>2, <1>3, <1>4 DEF LInv, Kept

(* A worker that only moves: into a step when no other is in one. *)
LEMMA WorkerMoveKeeps ==
    ASSUME LInv, Settled, UNCHANGED <<req, share, update>>,
           NEW w \in Workers, NEW z \in {Idle} \cup Worker, BecomeWorker(w, z), WorkPlace(w)',
           z.pc = "inStep" => ~StepRuns
    PROVE  Kept
  <1>1. UNCHANGED Contract!vars
    BY Zenon DEF Settled, Contract!vars, phases, Phase
  <1>2. Typed' /\ LocksExclude'
    BY Zenon DEF LInv, Typed, LocksExclude, Settled, BecomeWorker
  <1>3. Places'
    <2>1. \A q \in Requests : WritePlace(q)'
      BY Zenon DEF LInv, Settled, Places, WritePlace, Passed, Secured
    <2>2. \A q \in Requests : FreezePlace(q)' /\ ExportPlace(q)'
      BY Zenon DEF LInv, Settled, Places, FreezePlace, ExportPlace
    <2> QED
      BY <2>1, <2>2 DEF Places
  <1>4. work'[w] = z /\ \A v \in Workers \ {w} : work'[v] = work[v]
    BY Zenon DEF LInv, Typed, BecomeWorker
  <1>5. \A v \in Workers \ {w} : WorkPlace(v)'
    BY Zenon, <1>4 DEF LInv, Settled, Purging, WorkPlace
  <1>6. Purging'
    BY Zenon, <1>4, <1>5 DEF LInv, Purging, StepRuns
  <1>7. OwnRows' /\ Untaken' /\ AuditsKept' /\ Publications'
    BY Zenon DEF LInv, Settled, OwnRows, Untaken, AuditsKept, Publications
  <1> QED
    BY Zenon, <1>1, <1>2, <1>3, <1>6, <1>7 DEF LInv, Kept

(* A worker that gives up. *)
LEMMA GiveUpKeeps ==
    ASSUME LInv, Settled, UNCHANGED <<req, share, update>>, NEW w \in Workers, BecomeWorker(w, Idle)
    PROVE  Kept
  <1>1. WorkPlace(w)'
    BY Zenon DEF LInv, Typed, BecomeWorker, WorkPlace, Idle
  <1> QED
    BY Zenon, <1>1, WorkerMoveKeeps DEF Idle

(* PurgeDue and purgeStep: what is due is confirmed and not purged. *)
LEMMA PurgeOnKeeps ==
    ASSUME LInv, NEW w \in Workers, PurgeOn(w)
    PROVE  Kept
  <1>1. Settled /\ UNCHANGED <<req, share, update>>
    BY Zenon DEF PurgeOn, PurgeDue, purgeStep, Settled, data, record, locks
  <1>2. ASSUME NEW x \in Resources, PurgeDue(w, x) PROVE Kept
    <2> DEFINE z == [pc |-> "between", res |-> x, step |-> Retire]
    <2>1. z \in Worker /\ BecomeWorker(w, z) /\ x \in confirmed
      BY Zenon, <1>2 DEF PurgeDue, Worker, Retire, Due
    <2>2. work'[w] = z
      BY Zenon, <2>1 DEF LInv, Typed, BecomeWorker
    <2>3. \A i \in DOMAIN PurgeOrder : ~(i < 0)
      BY Zenon, StepNumbers
    <2>4. 0 \in 0 .. FinishStep
      BY Zenon, LastStep
    <2>5. /\ z.pc = "between" /\ z.res = x /\ z.step = 0 /\ Retire = 0
          /\ confirmed' = confirmed
      BY Zenon, <1>1 DEF Retire, Settled
    <2>6. WorkPlace(w)'
      BY Zenon, <2>1, <2>2, <2>3, <2>4, <2>5 DEF WorkPlace
    <2> QED
      BY Zenon, <1>1, <2>1, <2>6, WorkerMoveKeeps
  <1>3. CASE purgeStep(w)
    <2>1. CASE BecomeWorker(w, Idle)
      BY <1>1, <2>1, GiveUpKeeps
    <2>2. CASE ~BecomeWorker(w, Idle)
      <3> DEFINE z == [work[w] EXCEPT !.pc = "inStep"]
      <3>1. /\ work[w] \in Worker /\ work[w].pc = "between" /\ WorkPlace(w) /\ ~StepRuns
            /\ BecomeWorker(w, z) /\ work[w].res \in Due
        BY <1>3, <2>2, WorkerKinds DEF LInv, Purging, purgeStep
      <3>2. /\ z \in Worker /\ z.pc = "inStep" /\ z.res = work[w].res /\ z.step = work[w].step
        BY <3>1 DEF Worker
      <3>3. work'[w] = z
        BY <3>1 DEF LInv, Typed, BecomeWorker
      <3>4. WorkPlace(w)'
        BY Zenon, <1>1, <3>1, <3>2, <3>3 DEF WorkPlace, Settled, Due
      <3> QED
        BY <1>1, <3>1, <3>2, <3>4, WorkerMoveKeeps
    <2> QED
      BY <2>1, <2>2
  <1> QED
    BY <1>2, <1>3 DEF PurgeOn

-----------------------------------------------------------------------------
(* The steps of a purge. *)

(* What a step of the purge of x does to the rows, as the contract has it. *)
Effect(x) ==
    \A r \in Rows : Contract!Keeps(x, r) \/ (r \in RowsOf(x) /\ rows'[r] = Absent)

(* What it does besides: worker w moves on, what the tenant holds is deleted  *)
(* with it.                                                                   *)
StepOf(w, x) ==
    /\ work[w].pc = "inStep" /\ work[w].res = x
    /\ Effect(x)
    /\ deletions \subseteq deletions'
    /\ IF x = Tenant THEN deletions' = Resources ELSE deletions' = deletions
    /\ projection' \subseteq projection /\ purged \subseteq purged'
    /\ \A r \in Rows : rows[r] # Absent /\ rows'[r] = Absent => r \in Removed \/ x \in purged'
    /\ UNCHANGED <<confirmed, digest, share, update, req>>
    /\ \A v \in Workers \ {w} : work'[v] = work[v]
    /\ work'[w].pc # "inStep"

(* Where a worker in a step is. *)
LEMMA InStep ==
    ASSUME LInv, NEW w \in Workers, work[w].pc = "inStep"
    PROVE  /\ work[w] \in Worker /\ work[w].res \in Resources /\ WorkPlace(w) /\ Typed
           /\ work[w].res \in confirmed \ purged /\ work[w].res \in deletions
           /\ \A v \in Workers \ {w} : work[v].pc # "inStep"
  <1>1. work[w] \in Worker /\ WorkPlace(w) /\ Typed
    BY Zenon, WorkerKinds DEF LInv, Purging
  <1>2. work[w].res \in confirmed \ purged /\ work[w].res \in deletions
    BY Zenon, <1>1 DEF WorkPlace, Typed
  <1> QED
    BY Zenon, <1>1, <1>2 DEF LInv, Purging, Typed

(* What the purge of x leaves is neither emptied nor refilled. *)
LEMMA EffectFacts ==
    ASSUME NEW x \in Resources, Effect(x), NEW r \in Rows
    PROVE  /\ rows'[r] \in {rows[r], Absent} \cup Detached
           /\ rows[r] = Absent => rows'[r] = Absent
           /\ rows'[r] = Absent => rows[r] = Absent \/ x \in Scope[r]
           /\ r \notin Detaches[x] => rows'[r] \in {rows[r], Absent}
  <1>1. Absent \notin Detached
    BY DEF Absent, Detached, TeamLeft, OwnerLeft
  <1> QED
    BY Zenon, <1>1 DEF Effect, Contract!Keeps, RowsOf

(* Own rows are not detached from anybody. *)
LEMMA OwnNotDetached ==
    ASSUME NEW x \in Resources, NEW y \in Resources
    PROVE  OwnRow[y] \notin Detaches[x]
  <1>1. \A m \in Members : TeamRows[m] \subseteq Rows /\ OwnedAlerts[m] \subseteq Rows
    BY Zenon, LifecycleAssumption
  <1> QED
    <2>1. \A r \in Rows : OwnRow[y] \notin DetachAudits[r]
      BY Zenon, OwnRowFacts
    <2>2. \A m \in Members : OwnRow[y] \notin OwnedAlerts[m]
      BY Zenon, OwnRowFacts
    <2>3. \A m \in Members : OwnRow[y] \notin Noted(TeamRows[m] \cup OwnedAlerts[m])
      BY Zenon, <1>1, <2>1 DEF Noted
    <2>4. Detaches[x] = IF x \in Members THEN OwnedAlerts[x] \cup Noted(TeamRows[x] \cup OwnedAlerts[x])
                        ELSE {}
      BY Zenon DEF Detaches
    <2> QED
      BY Zenon, <2>2, <2>3, <2>4

(* The requests and the other workers of a purge step. *)
LEMMA PurgeAdvances ==
    ASSUME LInv, NEW w \in Workers, NEW x \in Resources, StepOf(w, x)
    PROVE  Advance
  <1>1. \A y \in deletions : \A r \in RowsOf(y) :
            /\ rows'[r] \in {rows[r], Absent} \cup Detached
            /\ rows[r] = Absent => rows'[r] = Absent
    <2>1. ASSUME NEW y \in deletions, NEW r \in RowsOf(y) PROVE r \in Rows
      BY Zenon, <2>1 DEF RowsOf
    <2>2. Effect(x)
      BY Zenon DEF StepOf
    <2> QED
      BY Zenon, <2>1, <2>2, EffectFacts
  <1>2. ASSUME NEW y \in deletions' \ deletions, NEW q \in Requests
        PROVE  /\ req[q].pc # "writing" /\ y # Tenant /\ Tenant \in deletions'
    <2>1. x = Tenant /\ Tenant \in deletions /\ y # Tenant
      <3>1. work[w].pc = "inStep" /\ work[w].res = x
            /\ IF x = Tenant THEN deletions' = Resources ELSE deletions' = deletions
        BY Zenon DEF StepOf
      <3>2. x \in deletions
        BY Zenon, <3>1, InStep
      <3> QED
        BY Zenon, <1>2, <3>1, <3>2
    <2>2. ASSUME req[q].pc = "writing" PROVE FALSE
      <3>1. WritePlace(q) /\ req[q].row \in Rows
        BY Zenon, <2>2, Kinds DEF LInv, Places, WriteReq
      <3>2. Scope[req[q].row] \cap deletions = {}
        BY Zenon, <2>2, <3>1 DEF WritePlace
      <3>3. req[q].row \in Namesakes => Scope[req[q].row] \subseteq deletions
        BY Zenon, <2>2, <3>1 DEF WritePlace
      <3> QED
        BY Zenon, <2>1, <3>1, <3>2, <3>3, ScopeFacts
    <2> QED
      BY Zenon, <2>1, <2>2 DEF StepOf
  <1> QED
    BY Zenon, <1>1, <1>2 DEF Advance, StepOf

(* What a purge step keeps, but for the worker itself and what is published. *)
LEMMA PurgeStepKeeps ==
    ASSUME LInv, NEW w \in Workers, NEW x \in Resources, StepOf(w, x), Typed',
           WorkPlace(w)', Publications'
    PROVE  LInv'
  <1>1. Advance
    BY PurgeAdvances
  <1>2. x \in deletions /\ \A v \in Workers \ {w} : work[v].pc # "inStep"
    BY Zenon, InStep DEF StepOf
  <1>3. Places'
    BY Zenon, <1>1, PlaceStays DEF StepOf, SameLocks, Places, Place
  <1>4. \A v \in Workers \ {w} : WorkPlace(v)'
    BY Zenon, <1>1, <1>2, WorkStays DEF StepOf
  <1>5. Purging'
    BY Zenon, <1>2, <1>4 DEF Purging, StepOf
  <1>6. OwnRows'
    <2> SUFFICES ASSUME NEW y \in Resources
                 PROVE  /\ rows'[OwnRow[y]] \in Gone => y \in deletions'
                        /\ y \in deletions' => \/ rows'[OwnRow[y]] \in Gone
                                               \/ y # Tenant /\ Tenant \in deletions'
      BY Zenon DEF OwnRows
    <2>1. OwnRow[y] \in Rows /\ Scope[OwnRow[y]] \subseteq {Tenant, y}
      BY Zenon, OwnRowFacts
    <2>2. /\ rows'[OwnRow[y]] \in {rows[OwnRow[y]], Absent}
          /\ rows'[OwnRow[y]] = Absent => rows[OwnRow[y]] = Absent \/ x \in Scope[OwnRow[y]]
      BY Zenon, <2>1, EffectFacts, OwnNotDetached DEF StepOf
    <2>3. x = Tenant => Tenant \in deletions /\ deletions' = Resources
      BY Zenon, <1>2 DEF StepOf
    <2> QED
      BY Zenon, <1>2, <2>1, <2>2, <2>3 DEF LInv, OwnRows, Gone, StepOf
  <1>7. Untaken'
    BY Zenon, EffectFacts, LifecycleAssumption DEF LInv, Untaken, StepOf
  <1>8. AuditsKept'
    <2> SUFFICES ASSUME NEW r \in Rows, NEW a \in DetachAudits[r], rows'[a] = Absent
                 PROVE  Scope[a] \cap purged' # {}
      BY Zenon DEF AuditsKept
    <2>1. a \in Rows /\ a \notin Removed
      BY Zenon, LifecycleAssumption, TablesAssumption
    <2>2. rows[a] = Absent => Scope[a] \cap purged # {}
      BY Zenon DEF LInv, AuditsKept
    <2>3. rows[a] # Absent => x \in Scope[a] /\ x \in purged'
      BY Zenon, <2>1, EffectFacts DEF StepOf
    <2> QED
      BY Zenon, <2>2, <2>3 DEF StepOf
  <1>9. LocksExclude'
    BY Zenon DEF LInv, LocksExclude, StepOf
  <1> QED
    BY Zenon, <1>3, <1>5, <1>6, <1>7, <1>8, <1>9 DEF LInv

(* The audits a detachment adds to are there: who purged them would have      *)
(* purged the row that is detached.                                           *)
LEMMA NotedFacts ==
    ASSUME LInv, Contract!PurgedIsEmpty, NEW x \in Members,
           NEW touched \in SUBSET (TeamRows[x] \cup OwnedAlerts[x]),
           \A s \in touched : rows[s] # Absent, NEW a \in Noted(touched)
    PROVE  /\ a \in Rows /\ a \in Detaches[x] /\ rows[a] # Absent /\ x \notin Scope[a]
           /\ a \notin Removed
  <1>1. PICK s \in touched : a \in DetachAudits[s]
    BY Zenon DEF Noted
  <1>2. s \in Rows /\ x \in Resources
    BY Zenon, <1>1, LifecycleAssumption, ResourceFacts
  <1>3. a \in Rows /\ Scope[a] \subseteq Scope[s] \ Members /\ a \notin Removed
    BY Zenon, <1>1, <1>2, LifecycleAssumption, TablesAssumption
  <1>4. a \in Detaches[x]
    BY Zenon, <1>1, <1>2 DEF Detaches, Noted
  <1>5. ASSUME rows[a] = Absent PROVE FALSE
    <2>1. PICK y \in Scope[a] : y \in purged
      BY Zenon, <1>1, <1>2, <1>5 DEF LInv, AuditsKept
    <2>2. y \in Resources /\ y \in Scope[s]
      BY Zenon, <1>2, <1>3, <2>1, ScopeFacts
    <2>3. phases[y] = "purged"
      BY Zenon, <2>1, <2>2, PhaseFacts DEF LInv
    <2>4. rows[s] = Absent
      BY Zenon, <1>2, <2>2, <2>3 DEF Contract!PurgedIsEmpty, Contract!RowsOf
    <2> QED
      BY Zenon, <1>1, <2>4
  <1> QED
    BY Zenon, <1>3, <1>4, <1>5

(* The rows each step writes. *)
LEMMA TouchesFacts ==
    ASSUME NEW x \in Resources, NEW step \in Nat
    PROVE  /\ Touches(x, step) \subseteq {r \in Rows : rows[r] # Absent}
           /\ step = Retire => \A r \in Touches(x, step) : x \in Members /\ r \in TeamRows[x]
           /\ step = FinishStep =>
                 \A r \in Touches(x, step) : x \in Members /\ r \in OwnedAlerts[x]
           /\ step \notin {Retire, FinishStep} =>
                 Touches(x, step) =
                    {r \in Rows : rows[r] # Absent /\ r = PurgeOrder[step] /\ r \in RowsOf(x)}
  <1>1. Retire # FinishStep
    BY TablesAssumption DEF Retire, FinishStep
  <1>2. CASE step = Retire
    BY <1>1, <1>2 DEF Touches
  <1>3. CASE step = FinishStep
    BY <1>1, <1>3 DEF Touches
  <1>4. CASE step \notin {Retire, FinishStep}
    BY Zenon, <1>4 DEF Touches
  <1> QED
    BY Zenon, <1>2, <1>3, <1>4

(* A step of a purge that is not the last is one of the contract. *)
LEMMA PurgesContract ==
    ASSUME LInv, NEW w \in Workers, NEW x \in Resources, StepOf(w, x), Typed', UNCHANGED purged
    PROVE  Contract!Purge(x)
  <1>1. phases[x] = "confirmed"
    BY Zenon, InStep, PhaseFacts DEF StepOf
  <1>2. phases' \in [Resources -> Contract!Phases] /\ rows' \in [Rows -> Contents]
    BY Zenon DEF Typed, phases, Phase, Contract!Phases
  <1>3. ASSUME NEW y \in Resources
        PROVE  \/ phases'[y] = phases[y]
               \/ x = Tenant /\ phases[y] = "live" /\ phases'[y] = "frozen"
    <2>1. \/ y \in deletions' <=> y \in deletions
          \/ x = Tenant /\ y \notin deletions /\ y \in deletions'
      BY Zenon DEF StepOf
    <2> QED
      BY Zenon, <2>1, PhaseFacts, NextPhaseFacts DEF StepOf, LInv, Typed, Contract!Phases
  <1> QED
    BY Zenon, <1>1, <1>2, <1>3 DEF Contract!Purge, StepOf, Effect, Contract!RowsOf, RowsOf

(* retireProjections: the deletion is published with the projection, and what *)
(* the tenant still holds is recorded as deleted.                             *)
LEMMA RetireKeeps ==
    ASSUME LInv, Contract!PurgedIsEmpty, NEW w \in Workers, NEW x \in Resources,
           NEW touched, touched = Touches(x, Retire),
           work[w].pc = "inStep", work[w].res = x, work[w].step = Retire,
           retireProjections(x, touched),
           NEW z \in Worker, z.pc = "between", z.res = x, z.step = 1, BecomeWorker(w, z),
           UNCHANGED <<confirmed, digest, share, update, req>>
    PROVE  Kept
  <1>1. work[w] \in Worker /\ Typed /\ x \in confirmed \ purged /\ x \in deletions
    BY Zenon, InStep
  <1>2. /\ \A r \in touched : r \in Rows /\ rows[r] # Absent /\ x \in Members /\ r \in TeamRows[x]
        /\ touched \subseteq Rows
    BY TouchesFacts DEF Retire
  <1>3. ASSUME NEW r \in touched PROVE r \in RowsOf(x) \cap Removed
    BY Zenon, <1>2, <1>3, TablesAssumption
  <1>4. ASSUME NEW r \in Noted(touched)
        PROVE  r \in Rows /\ r \in Detaches[x] /\ rows[r] # Absent
    <2>1. x \in Members
      BY Zenon, <1>2, <1>4 DEF Noted
    <2>2. touched \in SUBSET (TeamRows[x] \cup OwnedAlerts[x]) /\ \A s \in touched : rows[s] # Absent
      BY Zenon, <1>2
    <2> QED
      BY Zenon, <1>4, <2>1, <2>2, NotedFacts
  <1>5. /\ rows' \in [Rows -> Contents]
        /\ \A r \in Rows : rows'[r] = IF r \in touched THEN Absent
                                      ELSE IF r \in Noted(touched) THEN TeamLeft ELSE rows[r]
    BY Zenon, <1>1 DEF retireProjections, Typed, Contents, Detached
  <1>6. Effect(x)
    BY Zenon, <1>3, <1>4, <1>5 DEF Effect, Contract!Keeps, Detached
  <1>7. \A r \in Rows : rows[r] # Absent /\ rows'[r] = Absent => r \in Removed
    <2>1. TeamLeft # Absent
      BY DEF Absent, TeamLeft
    <2> QED
      BY Zenon, <1>3, <1>5, <2>1
  <1>8. /\ IF x = Tenant THEN deletions' = Resources ELSE deletions' = deletions
        /\ deletions \subseteq deletions'
    <2>1. \A y \in Children : Exists(y) \/ y \in deletions
      BY Zenon DEF LInv, OwnRows, Exists, Gone, Resources
    <2> QED
      BY Zenon, <1>1, <2>1 DEF retireProjections, Resources, Typed
  <1>9. /\ projection' = IF x = Tenant THEN {} ELSE projection \ {x}
        /\ published' = [published EXCEPT ![x] = @ + IF x \in projection THEN 1 ELSE 0]
        /\ UNCHANGED purged
    BY Zenon DEF retireProjections
  <1>10. work' \in [Workers -> {Idle} \cup Worker] /\ work'[w] = z
         /\ \A v \in Workers \ {w} : work'[v] = work[v]
    BY Zenon, <1>1 DEF Typed, BecomeWorker
  <1>11. StepOf(w, x)
    BY Zenon, <1>6, <1>7, <1>8, <1>9, <1>10 DEF StepOf
  <1>12. Typed'
    <2>1. published' \in [Resources -> Nat]
      BY <1>1, <1>9 DEF Typed
    <2> QED
      BY Zenon, <1>1, <1>5, <1>8, <1>9, <1>10, <2>1 DEF Typed
  <1>13. WorkPlace(w)'
    <2>1. \A i \in DOMAIN PurgeOrder : ~(i < 1)
      BY Zenon, StepNumbers
    <2>2. 1 \in 0 .. FinishStep
      BY Zenon, LastStep
    <2> QED
      BY Zenon, <1>1, <1>8, <1>9, <1>10, <2>1, <2>2 DEF WorkPlace
  <1>14. Publications'
    <2>1. /\ published'[x] = published[x] + IF x \in projection THEN 1 ELSE 0
          /\ \A y \in Resources \ {x} : published'[y] = published[y]
      BY Zenon, <1>1, <1>9 DEF Typed
    <2>2. \A y \in Resources : published[y] \in Nat
      BY Zenon, <1>1 DEF Typed
    <2>3. Publications /\ Tenant \in Resources
      BY Zenon, ResourceFacts DEF LInv
    <2>4. ASSUME NEW y \in Resources, published'[y] # published[y]
          PROVE  y = x /\ x \in projection /\ published'[x] = 1
      <3>1. y = x /\ (x \in projection => published[x] = 0)
        BY Zenon, <2>1, <2>3, <2>4 DEF Publications
      <3> QED
        BY Zenon, <2>1, <2>2, <2>4, <3>1, Increments
    <2>5. ASSUME NEW y \in Resources, y \in projection, y \notin projection'
          PROVE  published'[y] = 1 \/ published'[Tenant] = 1
      <3>1. y = x \/ x = Tenant
        BY Zenon, <1>9, <2>5
      <3>2. published[x] = 0 \/ published[x] = 1
        BY Zenon, <2>3, <2>5, <3>1 DEF Publications
      <3>3. published[x] = 0 => x \in projection
        <4>1. CASE x = Tenant
          BY Zenon, <2>3, <4>1, Increments DEF Publications
        <4>2. CASE x # Tenant
          BY Zenon, <2>5, <3>1, <4>2
        <4> QED
          BY Zenon, <4>1, <4>2
      <3>4. x \in projection => published[x] = 0
        BY Zenon, <2>3 DEF Publications
      <3>5. published'[x] = 1
        BY Zenon, <2>1, <2>2, <3>2, <3>3, <3>4, Increments
      <3> QED
        BY Zenon, <3>1, <3>5
    <2>6. projection' \subseteq projection /\ UNCHANGED purged
      BY Zenon, <1>9
    <2>7. ASSUME NEW y \in Resources
          PROVE  published'[y] = published[y] \/ (y = x /\ x \in projection /\ published'[y] = 1)
      BY Zenon, <2>4
    <2>8. ASSUME NEW y \in Resources, y \in projection' PROVE published'[y] = 0
      <3>1. y # x
        BY Zenon, <1>9, <2>8
      <3> QED
        BY Zenon, <2>3, <2>6, <2>7, <2>8, <3>1 DEF Publications
    <2>9. ASSUME NEW y \in Resources PROVE published'[y] <= 1
      BY Zenon, <2>3, <2>7, Increments DEF Publications
    <2>10. ASSUME NEW y \in Resources, y \notin projection'
           PROVE  published'[y] = 1 \/ published'[Tenant] = 1
      <3>1. CASE y \in projection
        BY Zenon, <2>5, <2>10, <3>1
      <3>2. CASE y \notin projection
        BY Zenon, <2>3, <2>7, <3>2 DEF Publications
      <3> QED
        BY Zenon, <3>1, <3>2
    <2>11. \A y \in Resources : y \in purged' => y \notin projection'
      BY Zenon, <2>3, <2>6 DEF Publications
    <2> QED
      BY Zenon, <2>8, <2>9, <2>10, <2>11 DEF Publications
  <1>15. LInv'
    BY Zenon, <1>11, <1>12, <1>13, <1>14, PurgeStepKeeps
  <1>16. Contract!Purge(x)
    BY Zenon, <1>9, <1>11, <1>12, PurgesContract
  <1> QED
    BY Zenon, <1>15, <1>16 DEF Kept, Contract!Next

(* purgeRows: the table is empty then, in the scope purged. *)
LEMMA PurgeRowsKeeps ==
    ASSUME LInv, NEW w \in Workers, NEW x \in Resources, NEW step,
           NEW touched, touched = Touches(x, step),
           work[w].pc = "inStep", work[w].res = x, work[w].step = step,
           step # Retire, step # FinishStep, purgeRows(touched),
           NEW z \in Worker, z.pc = "between", z.res = x, z.step = step + 1, BecomeWorker(w, z),
           UNCHANGED <<confirmed, digest, share, update, req>>
    PROVE  Kept
  <1>1. /\ work[w] \in Worker /\ Typed /\ x \in confirmed \ purged /\ x \in deletions
        /\ WorkPlace(w)
    BY Zenon, InStep
  <1>2. step \in DOMAIN PurgeOrder /\ step \in Nat
    BY Zenon, <1>1, StepNumbers DEF WorkPlace
  <1>3. touched = {r \in Rows : rows[r] # Absent /\ r = PurgeOrder[step] /\ r \in RowsOf(x)}
    BY Zenon, <1>2, TouchesFacts
  <1>4. /\ rows' \in [Rows -> Contents]
        /\ \A r \in Rows : rows'[r] = IF r \in touched THEN Absent ELSE rows[r]
        /\ UNCHANGED <<projection, published, deletions, purged>>
    BY Zenon, <1>1 DEF purgeRows, Typed, Contents
  <1>5. Effect(x)
    BY Zenon, <1>3, <1>4 DEF Effect, Contract!Keeps
  <1>6. \A r \in Rows : rows[r] # Absent /\ rows'[r] = Absent => r \in Removed
    BY Zenon, <1>2, <1>3, <1>4 DEF Removed
  <1>7. work' \in [Workers -> {Idle} \cup Worker] /\ work'[w] = z
        /\ \A v \in Workers \ {w} : work'[v] = work[v]
    BY Zenon, <1>1 DEF Typed, BecomeWorker
  <1>8. x = Tenant => deletions = Resources /\ projection = {}
    BY Zenon, <1>1 DEF WorkPlace
  <1>9. StepOf(w, x)
    BY Zenon, <1>4, <1>5, <1>6, <1>7, <1>8 DEF StepOf
  <1>10. Typed'
    BY Zenon, <1>1, <1>4, <1>7 DEF Typed
  <1>11. WorkPlace(w)'
    <2>1. step + 1 \in 0 .. FinishStep /\ step + 1 # Retire
      BY Zenon, <1>2, StepNumbers
    <2>2. ASSUME NEW i \in DOMAIN PurgeOrder, i < step + 1, PurgeOrder[i] \in RowsOf(x)
          PROVE  rows'[PurgeOrder[i]] = Absent
      <3>1. i < step \/ i = step
        BY Zenon, <1>2, <2>2, StepNumbers
      <3>2. i < step => rows[PurgeOrder[i]] = Absent
        BY Zenon, <1>1, <2>2 DEF WorkPlace
      <3>3. PurgeOrder[i] \in Rows
        BY Zenon, <2>2 DEF RowsOf
      <3> QED
        BY Zenon, <1>3, <1>4, <2>2, <3>1, <3>2, <3>3
    <2> QED
      BY Zenon, <1>1, <1>4, <1>7, <1>8, <2>1, <2>2 DEF WorkPlace
  <1>12. Publications'
    BY Zenon, <1>4 DEF LInv, Publications
  <1>13. LInv'
    BY Zenon, <1>9, <1>10, <1>11, <1>12, PurgeStepKeeps
  <1>14. Contract!Purge(x)
    BY Zenon, <1>4, <1>9, <1>10, PurgesContract
  <1> QED
    BY Zenon, <1>13, <1>14 DEF Kept, Contract!Next

(* The last step of a purge is one of the contract: nothing is left, since    *)
(* the tables were emptied one by one and what is not in them are audits.     *)
LEMMA FinishesContract ==
    ASSUME LInv, NEW w \in Workers, NEW x \in Resources, StepOf(w, x), Typed',
           work[w].step = FinishStep, \A r \in Audits[x] : rows'[r] = Absent,
           UNCHANGED deletions, purged' = IF x = Tenant THEN deletions ELSE purged \cup {x}
    PROVE  Contract!Finish(x)
  <1>1. /\ phases[x] = "confirmed" /\ WorkPlace(w) /\ work[w].res = x
        /\ work[w].pc = "inStep" /\ Typed
    BY Zenon, InStep, PhaseFacts DEF StepOf
  <1>2. FinishStep # Retire
    BY Zenon, LastStep
  <1>3. x = Tenant => deletions = Resources
    BY Zenon, <1>1, <1>2 DEF WorkPlace
  <1>4. phases' = [y \in Resources |-> IF x \in {y, Tenant} THEN "purged" ELSE phases[y]]
    <2>1. ASSUME NEW y \in Resources
          PROVE  phases'[y] = IF x \in {y, Tenant} THEN "purged" ELSE phases[y]
      <3>1. CASE x \in {y, Tenant}
        BY Zenon, <1>3, <3>1, NextPhaseFacts
      <3>2. CASE x \notin {y, Tenant}
        <4>1. UNCHANGED <<deletions, confirmed>> /\ (y \in purged' <=> y \in purged)
          BY Zenon, <3>2 DEF StepOf
        <4>2. phases'[y] = Phase(y)' /\ phases[y] = Phase(y)
          BY Zenon DEF phases
        <4> QED
          BY Zenon, <3>2, <4>1, <4>2 DEF Phase
      <3> QED
        BY Zenon, <3>1, <3>2
    <2> QED
      BY Zenon, <2>1 DEF phases
  <1>5. rows' \in [Rows -> Contents]
    BY Zenon DEF Typed
  <1>6. ASSUME NEW r \in Rows, r \in Namesakes PROVE rows[r] = Absent /\ rows'[r] = Absent
    BY Zenon, <1>6, EffectFacts DEF LInv, Untaken, StepOf
  <1>7. ASSUME NEW r \in Rows, x \in Scope[r] PROVE rows'[r] = Absent
    <2>1. r \in RowsOf(x)
      BY Zenon, <1>7 DEF RowsOf
    <2>2. CASE r \in Removed
      <3>1. PICK i \in DOMAIN PurgeOrder : r = PurgeOrder[i]
        BY Zenon, <2>2 DEF Removed
      <3>2. i < FinishStep
        BY Zenon, <3>1, StepNumbers
      <3>3. rows[r] = Absent
        BY Zenon, <1>1, <2>1, <3>1, <3>2 DEF WorkPlace
      <3> QED
        BY Zenon, <3>3, EffectFacts DEF StepOf
    <2> QED
      BY Zenon, <1>6, <2>1, <2>2, TablesAssumption
  <1>8. ASSUME NEW r \in Rows
        PROVE  IF \E y \in Scope[r] : x \in {y, Tenant}
               THEN rows'[r] = Absent /\ (r \in RowsOf(x) \/ rows[r] = Absent)
               ELSE Contract!Keeps(x, r)
    <2>1. CASE x \in Scope[r]
      BY Zenon, <1>7, <2>1 DEF RowsOf
    <2>2. CASE x \notin Scope[r] /\ x = Tenant
      <3>1. r \in Namesakes
        BY Zenon, <2>2, ScopeFacts
      <3> QED
        BY Zenon, <1>6, <2>2, <3>1, ScopeFacts
    <2>3. CASE x \notin Scope[r] /\ x # Tenant
      <3>1. Contract!Keeps(x, r)
        BY Zenon, <2>3 DEF StepOf, Effect, RowsOf
      <3> QED
        BY Zenon, <2>3, <3>1
    <2> QED
      BY Zenon, <2>1, <2>2, <2>3
  <1> QED
    BY Zenon, <1>1, <1>4, <1>5, <1>8 DEF Contract!Finish, StepOf, Contract!RowsOf, RowsOf

(* finishPurge: what the purge has not removed are audits and shared alerts. *)
LEMMA FinishKeeps ==
    ASSUME LInv, Contract!PurgedIsEmpty, NEW w \in Workers, NEW x \in Resources,
           NEW touched, touched = Touches(x, FinishStep),
           work[w].pc = "inStep", work[w].res = x, work[w].step = FinishStep,
           finishPurge(x, touched), BecomeWorker(w, Idle),
           UNCHANGED <<confirmed, digest, share, update, req>>
    PROVE  Kept
  <1>1. /\ work[w] \in Worker /\ Typed /\ x \in confirmed \ purged /\ x \in deletions
        /\ WorkPlace(w)
    BY Zenon, InStep
  <1>2. /\ FinishStep # Retire /\ FinishStep \in Nat /\ x \notin projection
        /\ x = Tenant => projection = {} /\ deletions = Resources
    BY Zenon, <1>1, LastStep DEF WorkPlace
  <1>3. /\ touched \subseteq Rows
        /\ \A r \in touched : rows[r] # Absent /\ x \in Members /\ r \in OwnedAlerts[x]
    BY Zenon, <1>2, TouchesFacts
  <1>4. ASSUME NEW r \in touched \cup Noted(touched)
        PROVE  r \in Rows /\ r \in Detaches[x] /\ rows[r] # Absent
    <2>1. x \in Members
      BY Zenon, <1>3, <1>4 DEF Noted
    <2>2. touched \in SUBSET (TeamRows[x] \cup OwnedAlerts[x]) /\ \A s \in touched : rows[s] # Absent
      BY Zenon, <1>3
    <2>3. CASE r \in touched
      BY Zenon, <1>3, <2>1, <2>3 DEF Detaches
    <2>4. CASE r \in Noted(touched)
      BY Zenon, <2>1, <2>2, <2>4, NotedFacts
    <2> QED
      BY Zenon, <1>4, <2>3, <2>4
  <1>5. /\ rows' \in [Rows -> Contents]
        /\ \A r \in Rows : rows'[r] = IF r \in Audits[x] THEN Absent
                                      ELSE IF r \in touched \cup Noted(touched) THEN OwnerLeft
                                      ELSE rows[r]
    BY Zenon, <1>1 DEF finishPurge, Typed, Contents, Detached
  <1>6. Audits[x] \subseteq RowsOf(x)
    BY Zenon, TablesAssumption
  <1>7. Effect(x)
    BY Zenon, <1>4, <1>5, <1>6 DEF Effect, Contract!Keeps, Detached
  <1>8. /\ purged' = IF x = Tenant THEN deletions ELSE purged \cup {x}
        /\ UNCHANGED <<projection, published, deletions>>
    BY Zenon DEF finishPurge
  <1>9. /\ work' \in [Workers -> {Idle} \cup Worker] /\ work'[w] = Idle
        /\ \A v \in Workers \ {w} : work'[v] = work[v]
    BY Zenon, <1>1 DEF Typed, BecomeWorker
  <1>10. x \in purged' /\ purged \subseteq purged' /\ purged' \subseteq deletions
    BY Zenon, <1>1, <1>8 DEF Typed
  <1>11. StepOf(w, x)
    BY Zenon, <1>2, <1>7, <1>8, <1>9, <1>10, IdleFacts DEF StepOf
  <1>12. Typed'
    BY Zenon, <1>1, <1>5, <1>8, <1>9, <1>10 DEF Typed
  <1>13. WorkPlace(w)'
    BY Zenon, <1>9, IdleFacts DEF WorkPlace
  <1>14. Publications'
    BY Zenon, <1>2, <1>8 DEF LInv, Publications
  <1>15. LInv'
    BY Zenon, <1>11, <1>12, <1>13, <1>14, PurgeStepKeeps
  <1>16. \A r \in Audits[x] : rows'[r] = Absent
    BY Zenon, <1>5, <1>6 DEF RowsOf
  <1>17. Contract!Finish(x)
    BY Zenon, <1>8, <1>11, <1>12, <1>16, FinishesContract
  <1> QED
    BY Zenon, <1>15, <1>17 DEF Kept, Contract!Next

(* A worker that committed a step goes on to the next one. *)
LEMMA NextWorker ==
    ASSUME NEW z \in Worker, NEW next, next = [z EXCEPT !.pc = "between", !.step = z.step + 1]
    PROVE  next \in Worker /\ next.pc = "between" /\ next.res = z.res /\ next.step = z.step + 1
  <1>1. z.step \in Nat /\ z.step + 1 \in Nat
    BY DEF Worker
  <1>2. \A n \in Nat : [z EXCEPT !.pc = "between", !.step = n] \in Worker
    BY Zenon DEF Worker
  <1>3. next.pc = "between" /\ next.res = z.res /\ next.step = z.step + 1
    BY DEF Worker
  <1> QED
    BY Zenon, <1>1, <1>2, <1>3

(* CommitStep. *)
LEMMA CommitStepKeeps ==
    ASSUME LInv, Contract!PurgedIsEmpty, NEW w \in Workers, CommitStep(w)
    PROVE  Kept
  <1> DEFINE step == work[w].step
             next == [work[w] EXCEPT !.pc = "between", !.step = step + 1]
  <1>1. PICK x \in Resources : x = work[w].res
    BY Zenon, InStep DEF CommitStep
  <1>2. PICK touched : touched = Touches(x, step)
    OBVIOUS
  <1>3. /\ work[w] \in Worker /\ work[w].pc = "inStep" /\ step \in Nat
        /\ UNCHANGED <<confirmed, digest, share, update, req>>
    BY Zenon, InStep DEF CommitStep, locks, Worker
  <1>4. next \in Worker /\ next.pc = "between" /\ next.res = x /\ next.step = step + 1
    BY Zenon, <1>1, <1>3, NextWorker
  <1>5. CASE BecomeWorker(w, Idle) /\ UNCHANGED <<data, deletions, elapsed, purged>>
    <2>1. Settled
      BY Zenon, <1>3, <1>5 DEF Settled, data
    <2> QED
      BY Zenon, <1>3, <1>5, <2>1, GiveUpKeeps
  <1>6. CASE ~(BecomeWorker(w, Idle) /\ UNCHANGED <<data, deletions, elapsed, purged>>)
    <2>1. /\ CASE step = Retire     -> retireProjections(x, touched)
               [] step = FinishStep -> finishPurge(x, touched)
               [] OTHER             -> purgeRows(touched)
          /\ BecomeWorker(w, IF step = FinishStep THEN Idle ELSE next)
      BY Zenon, <1>1, <1>2, <1>6 DEF CommitStep, EndStep
    <2>2. Retire # FinishStep
      BY Zenon, LastStep
    <2>3. CASE step = Retire
      <3>1. retireProjections(x, touched) /\ BecomeWorker(w, next) /\ next.step = 1
        BY <1>4, <2>1, <2>2, <2>3 DEF Retire
      <3> QED
        BY Zenon, <1>1, <1>2, <1>3, <1>4, <2>3, <3>1, RetireKeeps
    <2>4. CASE step = FinishStep
      <3>1. finishPurge(x, touched) /\ BecomeWorker(w, Idle)
        BY <2>1, <2>2, <2>4
      <3> QED
        BY Zenon, <1>1, <1>2, <1>3, <2>4, <3>1, FinishKeeps
    <2>5. CASE step # Retire /\ step # FinishStep
      <3>1. purgeRows(touched) /\ BecomeWorker(w, next)
        BY <2>1, <2>5
      <3> QED
        BY Zenon, <1>1, <1>2, <1>3, <1>4, <2>5, <3>1, PurgeRowsKeeps
    <2> QED
      BY Zenon, <2>3, <2>4, <2>5
  <1> QED
    BY Zenon, <1>5, <1>6
-----------------------------------------------------------------------------
(* The contract keeps what it promises. *)

(* Suspended as it is frozen, the own row of a resource is held by nothing    *)
(* but the resource and its tenant.                                           *)
LEMMA FreezeTouches ==
    ASSUME NEW x \in Resources, Contract!Freeze(x), Contract!TypeOK,
           NEW y \in Resources, phases[y] # "live", NEW r \in Contract!RowsOf(y)
    PROVE  rows'[r] = rows[r]
  <1>1. r # OwnRow[x]
    BY Zenon, ContractAssumption DEF Contract!WellFormed, Contract!Freeze, Contract!RowsOf
  <1> QED
    BY <1>1, ContractAssumption
       DEF Contract!Freeze, Contract!RowsOf, Contract!TypeOK, Contract!WellFormed

(* No step gives a purged scope a row back: writes keep off held scopes, and  *)
(* a purge of another scope only removes or detaches.                         *)
LEMMA PurgedStep ==
    ASSUME Contract!TypeOK, Contract!PurgedIsEmpty, [Contract!Next]_(Contract!vars)
    PROVE  Contract!PurgedIsEmpty'
  <1> SUFFICES ASSUME NEW y \in Resources, phases'[y] = "purged", NEW r \in Contract!RowsOf(y)
               PROVE  rows'[r] = Absent
    BY Zenon DEF Contract!PurgedIsEmpty, Contract!RowsOf
  <1>0. phases[y] = "purged" => rows[r] = Absent
    BY Zenon DEF Contract!PurgedIsEmpty
  <1>1. ASSUME NEW s \in Rows, Contract!Write(s) PROVE rows'[r] = Absent
    <2>1. phases[y] = "purged" /\ r # s
      BY Zenon, <1>1 DEF Contract!Write, Contract!Held, Contract!RowsOf
    <2> QED
      BY Zenon, <2>1, <1>0, <1>1 DEF Contract!Write, Contract!TypeOK, Contract!RowsOf
  <1>2. ASSUME NEW x \in Resources, Contract!Freeze(x) PROVE rows'[r] = Absent
    <2>1. phases[y] = "purged"
      BY Zenon, <1>2 DEF Contract!Freeze, Contract!TypeOK
    <2> QED
      BY Zenon, <2>1, <1>0, <1>2, FreezeTouches
  <1>3. ASSUME NEW x \in Resources, Contract!Confirm(x) PROVE rows'[r] = Absent
    BY Zenon, <1>3, <1>0 DEF Contract!Confirm, Contract!TypeOK
  <1>4. ASSUME NEW x \in Resources, Contract!Purge(x) PROVE rows'[r] = Absent
    <2>1. phases[y] = "purged"
      BY Zenon, <1>4 DEF Contract!Purge
    <2> QED
      BY Zenon, <2>1, <1>0, <1>4 DEF Contract!Purge, Contract!Keeps, Contract!RowsOf
  <1>5. ASSUME NEW x \in Resources, Contract!Finish(x) PROVE rows'[r] = Absent
    BY Zenon, <1>5, <1>0 DEF Contract!Finish, Contract!Keeps, Contract!RowsOf, Contract!TypeOK
  <1>6. CASE UNCHANGED Contract!vars
    BY Zenon, <1>6, <1>0 DEF Contract!vars
  <1> QED
    BY Zenon, <1>1, <1>2, <1>3, <1>4, <1>5, <1>6 DEF Contract!Next

(* No step takes a row of a confirmed scope away from its export, other than  *)
(* by removing or detaching it.                                               *)
LEMMA ExportStep ==
    ASSUME Contract!TypeOK, Contract!ExportCovers, [Contract!Next]_(Contract!vars)
    PROVE  Contract!ExportCovers'
  <1> SUFFICES ASSUME NEW y \in Resources, phases'[y] = "confirmed", NEW r \in Contract!RowsOf(y)
               PROVE  rows'[r] \in {digest'[y][r], Absent} \cup Detached
    BY Zenon DEF Contract!ExportCovers, Contract!RowsOf
  <1>0. phases[y] = "confirmed" => rows[r] \in {digest[y][r], Absent} \cup Detached
    BY Zenon DEF Contract!ExportCovers
  <1>1. ASSUME NEW s \in Rows, Contract!Write(s)
        PROVE  rows'[r] \in {digest'[y][r], Absent} \cup Detached
    <2>1. phases[y] = "confirmed" /\ r # s
      BY Zenon, <1>1 DEF Contract!Write, Contract!Held, Contract!RowsOf
    <2> QED
      BY Zenon, <2>1, <1>0, <1>1 DEF Contract!Write, Contract!TypeOK, Contract!RowsOf
  <1>2. ASSUME NEW x \in Resources, Contract!Freeze(x)
        PROVE  rows'[r] \in {digest'[y][r], Absent} \cup Detached
    <2>1. phases[y] = "confirmed"
      BY Zenon, <1>2 DEF Contract!Freeze, Contract!TypeOK
    <2>2. rows'[r] = rows[r]
      BY Zenon, <2>1, <1>2, FreezeTouches
    <2> QED
      BY Zenon, <2>1, <2>2, <1>0, <1>2 DEF Contract!Freeze
  <1>3. ASSUME NEW x \in Resources, Contract!Confirm(x)
        PROVE  rows'[r] \in {digest'[y][r], Absent} \cup Detached
    <2>1. CASE y = x
      BY Zenon, <2>1, <1>3 DEF Contract!Confirm
    <2>2. CASE y # x
      BY Zenon, <2>2, <1>3, <1>0 DEF Contract!Confirm, Contract!TypeOK
    <2> QED
      BY Zenon, <2>1, <2>2
  <1>4. ASSUME NEW x \in Resources, Contract!Purge(x)
        PROVE  rows'[r] \in {digest'[y][r], Absent} \cup Detached
    <2>1. phases[y] = "confirmed"
      BY Zenon, <1>4 DEF Contract!Purge
    <2> QED
      BY Zenon, <2>1, <1>0, <1>4 DEF Contract!Purge, Contract!Keeps, Contract!RowsOf
  <1>5. ASSUME NEW x \in Resources, Contract!Finish(x)
        PROVE  rows'[r] \in {digest'[y][r], Absent} \cup Detached
    <2>1. phases[y] = "confirmed" /\ digest'[y] = digest[y]
      BY Zenon, <1>5 DEF Contract!Finish, Contract!TypeOK
    <2> QED
      BY Zenon, <2>1, <1>0, <1>5 DEF Contract!Finish, Contract!Keeps, Contract!RowsOf
  <1>6. CASE UNCHANGED Contract!vars
    BY Zenon, <1>6, <1>0 DEF Contract!vars
  <1> QED
    BY Zenon, <1>1, <1>2, <1>3, <1>4, <1>5, <1>6 DEF Contract!Next

(* A row held by a deletion disappears in the purge of a confirmed scope that *)
(* holds it, and its export has the row.                                      *)
LEMMA LossIsExported ==
    ASSUME Contract!TypeOK, Contract!ExportCovers, [Contract!Next]_(Contract!vars)
    PROVE  Contract!LossStep
  <1> SUFFICES ASSUME NEW r \in Rows, Contract!Held(r), rows[r] # Absent, rows'[r] = Absent
               PROVE  \E x \in Scope[r] : /\ phases[x] = "confirmed"
                                          /\ rows[r] \in {digest[x][r]} \cup Detached
    BY Zenon DEF Contract!LossStep
  <1>0. ASSUME NEW x \in Resources, phases[x] = "confirmed", r \in Contract!RowsOf(x)
        PROVE  \E y \in Scope[r] : /\ phases[y] = "confirmed"
                                   /\ rows[r] \in {digest[y][r]} \cup Detached
    BY Zenon, <1>0 DEF Contract!ExportCovers, Contract!RowsOf
  <1>1. ASSUME NEW s \in Rows, Contract!Write(s) PROVE FALSE
    <2>1. r # s
      BY Zenon, <1>1 DEF Contract!Write
    <2> QED
      BY Zenon, <2>1, <1>1 DEF Contract!Write, Contract!TypeOK
  <1>2. ASSUME NEW x \in Resources, Contract!Freeze(x) PROVE FALSE
    <2>1. PICK y \in Scope[r] : phases[y] # "live"
      BY Zenon DEF Contract!Held
    <2>2. y \in Resources /\ r \in Contract!RowsOf(y)
      BY Zenon, <2>1, ContractAssumption DEF Contract!WellFormed, Contract!RowsOf
    <2> QED
      BY Zenon, <2>1, <2>2, <1>2, FreezeTouches
  <1>3. ASSUME NEW x \in Resources, Contract!Confirm(x) PROVE FALSE
    BY Zenon, <1>3 DEF Contract!Confirm
  <1>4. ASSUME NEW x \in Resources, Contract!Purge(x)
        PROVE  phases[x] = "confirmed" /\ r \in Contract!RowsOf(x)
    BY Zenon, <1>4, ContractAssumption DEF Contract!Purge, Contract!Keeps, Contract!WellFormed
  <1>5. ASSUME NEW x \in Resources, Contract!Finish(x)
        PROVE  phases[x] = "confirmed" /\ r \in Contract!RowsOf(x)
    BY Zenon, <1>5, ContractAssumption DEF Contract!Finish, Contract!Keeps, Contract!WellFormed
  <1>6. CASE UNCHANGED Contract!vars
    BY Zenon, <1>6 DEF Contract!vars
  <1> QED
    BY Zenon, <1>0, <1>1, <1>2, <1>3, <1>4, <1>5, <1>6 DEF Contract!Next
-----------------------------------------------------------------------------
(* The inductive invariant. *)
Inv == traffic \in Traffics /\ LInv /\ Promised

(* In Init nothing is deleted and nobody is at work. *)
LEMMA InitInv == ASSUME Init PROVE Inv /\ Contract!Init
  <1>0. /\ Absent \in Contents \ Detached /\ Active \in Contents \ Detached
        /\ Active \notin Gone
    BY DEF Contents, Detached, Gone, Absent, Active, Suspended, Written, Edited, TeamLeft, OwnerLeft
  <1>1. Typed
    <2>1. rows \in [Rows -> Contents] /\ digest \in [Resources -> [Rows -> Contents]]
      BY Zenon, <1>0 DEF Init, NoExport
    <2>2. work \in [Workers -> {Idle}] /\ req \in [Requests -> {Idle}]
      BY Zenon DEF Init
    <2> QED
      BY Zenon, <2>1, <2>2 DEF Init, Typed
  <1>2. \A x \in Resources : phases[x] = "live"
    BY Zenon, PhaseFacts, <1>1 DEF Init
  <1>3. Promised
    BY Zenon, <1>2 DEF Promised, Contract!PurgedIsEmpty, Contract!ExportCovers
  <1>4. LocksExclude
    BY Zenon DEF Init, LocksExclude
  <1>5. Places
    BY Zenon DEF Init, Places, WritePlace, FreezePlace, ExportPlace, Idle
  <1>6. Purging
    BY Zenon DEF Init, Purging, WorkPlace, Idle
  <1>7. OwnRows
    <2>1. \A x \in Resources : rows[OwnRow[x]] = Active
      BY Zenon, OwnRowFacts DEF Init
    <2> QED
      BY Zenon, <1>0, <2>1 DEF Init, OwnRows
  <1>8. Untaken /\ AuditsKept
    <2>1. Active # Absent /\ \A r \in Rows : DetachAudits[r] \subseteq Rows \ Namesakes
      BY LifecycleAssumption, TablesAssumption DEF Active, Absent
    <2>2. Namesakes \subseteq Rows
      BY Zenon, LifecycleAssumption
    <2> QED
      BY Zenon, <2>1, <2>2 DEF Init, Untaken, AuditsKept
  <1>9. Publications
    BY DEF Init, Publications
  <1>10. phases = [x \in Resources |-> "live"]
    BY Zenon, <1>2 DEF phases
  <1>11. rows \in [Rows -> Contents \ Detached]
    BY Zenon, <1>0 DEF Init
  <1>12. Contract!Init
    BY Zenon, <1>10, <1>11 DEF Init, Contract!Init, NoExport
  <1> QED
    BY Zenon, <1>1, <1>3, <1>4, <1>5, <1>6, <1>7, <1>8, <1>9, <1>12 DEF Init, Inv, LInv

(* Every step keeps the invariant and is a step of the contract or none. *)
LEMMA StepKeeps == ASSUME Inv, [Next]_vars PROVE Inv' /\ [Contract!Next]_(Contract!vars)
  <1> USE DEF Inv
  <1>1. /\ traffic.requests \subseteq Requests /\ traffic.workers \subseteq Workers
        /\ traffic.freezes \subseteq Resources /\ traffic.writes \subseteq Rows
    BY Zenon, LifecycleAssumption
  <1>2. Kept
    <2>1. ASSUME NEW q \in traffic.requests, NEW r \in traffic.writes, NEW v \in Written,
                 WriteRow(q, r, v)
          PROVE  Kept
      BY Zenon, <1>1, <2>1, WriteRowKeeps
    <2>2. ASSUME NEW q \in traffic.requests, NEW x \in traffic.freezes, FreezeResource(q, x)
          PROVE  Kept
      BY Zenon, <1>1, <2>2, FreezeResourceKeeps
    <2>3. ASSUME NEW q \in traffic.requests, NEW x \in Resources, ReadDeletionScope(q, x)
          PROVE  Kept
      BY Zenon, <1>1, <2>3, ReadDeletionScopeKeeps
    <2>4. ASSUME NEW q \in traffic.requests, Proceed(q) PROVE Kept
      BY Zenon, <1>1, <2>4, LockKeyShareKeeps, GuardKeeps, CommitWriteKeeps, LockForUpdateKeeps,
         DeactivateKeeps, ConfirmKeeps, ConfirmDeletionKeeps DEF Proceed
    <2>5. ASSUME NEW x \in Resources, RetentionElapses(x) PROVE Kept
      <3>1. Settled /\ UNCHANGED <<req, work, share, update>>
        BY Zenon, <2>5 DEF RetentionElapses, Settled, data, record, locks
      <3> QED
        BY Zenon, <3>1, ElapseKeeps
    <2>6. ASSUME NEW w \in traffic.workers, PurgeOn(w) PROVE Kept
      BY Zenon, <1>1, <2>6, PurgeOnKeeps
    <2>7. ASSUME NEW w \in traffic.workers, CommitStep(w) PROVE Kept
      BY Zenon, <1>1, <2>7, CommitStepKeeps DEF Promised
    <2>8. ASSUME NEW w \in traffic.workers, Stop(w) PROVE Kept
      <3>1. Settled /\ UNCHANGED <<req, share, update>> /\ BecomeWorker(w, Idle)
        BY Zenon, <2>8 DEF Stop, Settled, data, record, locks
      <3> QED
        BY Zenon, <1>1, <3>1, GiveUpKeeps
    <2>9. CASE UNCHANGED vars
      <3>1. Settled /\ UNCHANGED <<req, work, share, update>>
        BY Zenon, <2>9 DEF vars, Settled, data, record, locks
      <3> QED
        BY Zenon, <3>1, ElapseKeeps
    <2> QED
      BY Zenon, <2>1, <2>2, <2>3, <2>4, <2>5, <2>6, <2>7, <2>8, <2>9 DEF Next
  <1>3. Contract!TypeOK
    BY ContractTyped DEF LInv
  <1>4. Promised'
    BY Zenon, <1>2, <1>3, PurgedStep, ExportStep DEF Kept, Promised
  <1>5. traffic' = traffic
    <2>1. ASSUME NEW q, Proceed(q) PROVE traffic' = traffic
      BY Zenon, <2>1 DEF Proceed, LockKeyShare, Guard, CommitWrite, LockForUpdate, Deactivate,
                         Confirm, ConfirmDeletion
    <2>2. ASSUME NEW w, PurgeOn(w) \/ CommitStep(w) \/ Stop(w) PROVE traffic' = traffic
      BY Zenon, <2>2 DEF PurgeOn, PurgeDue, purgeStep, CommitStep, Stop
    <2>3. ASSUME NEW q, NEW x, NEW v, \/ WriteRow(q, x, v) \/ FreezeResource(q, x)
                                      \/ ReadDeletionScope(q, x) \/ RetentionElapses(x)
          PROVE  traffic' = traffic
      BY Zenon, <2>3 DEF WriteRow, FreezeResource, ReadDeletionScope, RetentionElapses
    <2>4. CASE UNCHANGED vars
      BY Zenon, <2>4 DEF vars
    <2> QED
      BY Zenon, <2>1, <2>2, <2>3, <2>4 DEF Next
  <1> QED
    BY Zenon, <1>2, <1>4, <1>5 DEF Kept

(* The invariant holds in every reachable state. *)
LEMMA Invariance == Spec => []Inv
  <1>1. Init => Inv
    BY InitInv
  <1>2. Inv /\ [Next]_vars => Inv'
    BY Zenon, StepKeeps
  <1> QED
    BY <1>1, <1>2, PTL DEF Spec

(* Lifecycle implements the contract, whatever the resources, the tables and  *)
(* the traffic: each step of a transaction, a replica or its failure is one   *)
(* of the contract's, or changes nothing it speaks of.                        *)
THEOREM ImplementsHolds == Spec => Implements
  <1>1. Init => Contract!Init
    BY InitInv
  <1>2. Inv /\ [Next]_vars => [Contract!Next]_(Contract!vars)
    BY StepKeeps
  <1> QED
    BY <1>1, <1>2, Invariance, PTL DEF Spec, Implements, Contract!Spec

(* ExportCovers: no write that raced the freeze, no other confirmation and no *)
(* purge of another scope takes a confirmed scope away from its export.       *)
THEOREM ExportCoversHolds == Spec => []ExportCovers
  <1>1. Inv => ExportCovers
    BY DEF Inv, Promised, ExportCovers
  <1> QED
    BY <1>1, Invariance, PTL

(* PurgedIsEmpty: whatever stopped a purge on the way, what is marked purged  *)
(* is empty and its identifiers stay retired.                                 *)
THEOREM PurgedIsEmptyHolds == Spec => []PurgedIsEmpty
  <1>1. Inv => PurgedIsEmpty
    BY DEF Inv, Promised, PurgedIsEmpty
  <1> QED
    BY <1>1, Invariance, PTL

(* PublishedOnce: the projection goes with the publication, so an attempt     *)
(* that is repeated finds nothing to publish.                                 *)
THEOREM PublishedOnceHolds == Spec => []PublishedOnce
  <1>1. Inv => PublishedOnce
    BY DEF Inv, LInv, Typed, Publications, PublishedOnce
  <1> QED
    BY <1>1, Invariance, PTL

(* NothingLost: a row held by a deletion disappears only in the purge of a    *)
(* confirmed scope, and the export the owner confirmed has it.                *)
THEOREM NothingLostHolds == Spec => Contract!NothingLost
  <1>1. Inv /\ [Next]_vars => [Contract!LossStep]_(Contract!vars)
    <2> SUFFICES ASSUME Inv, [Next]_vars PROVE Contract!LossStep
      OBVIOUS
    <2>1. [Contract!Next]_(Contract!vars)
      BY Zenon, StepKeeps
    <2> QED
      BY <2>1, ContractTyped, LossIsExported DEF Inv, LInv, Promised
  <1> QED
    BY <1>1, Invariance, PTL DEF Spec, Contract!NothingLost
=============================================================================
