------------------------------ MODULE EventFeed ------------------------------
(***************************************************************************)
(* The event feed: how transactions publish the projections they change,   *)
(* how retention purges the oldest events, and how consumers page through  *)
(* the feed with cursors.                                                  *)
(*                                                                         *)
(* A resource is derived from two rows of the business tables (a member,   *)
(* for instance, from users and user_preferences), which two transactions  *)
(* may change concurrently.  Rows hold versions: every write gives a row a *)
(* value it never had, 0 is an absent row.                                 *)
(*                                                                         *)
(* On PostgreSQL a writer runs at READ COMMITTED (web UI, sign-in,         *)
(* invitations: Store.recorded) or SERIALIZABLE                            *)
(* (WithProvisioningTransaction).  On SQLite there is one connection and   *)
(* transactions run one after the other.                                   *)
(***************************************************************************)
EXTENDS Naturals, FiniteSets

CONSTANTS
    Writers,       \* transactions that change resources
    Serializable,  \* those of WithProvisioningTransaction; the others run at READ COMMITTED
    NoWriter,      \* nobody holds the feed lock
    Resources,     \* resources of the common contract
    Purgers,       \* the retention loops of the replicas
    Consumers,     \* readers of /v1/events
    PageLimit,     \* the limit of ReadEvents
    PurgeBatch,    \* purgeBatchSize
    Postgres,      \* TRUE: PostgreSQL; FALSE: SQLite
    MaxVersion,    \* bound of the exploration: row writes
    MaxSequence    \* bound of the exploration: allocated positions

ASSUME SerializableAssumption == Serializable \subseteq Writers
ASSUME NoWriterAssumption     == NoWriter \notin Writers
ASSUME ResourcesAssumption    == IsFiniteSet(Resources)
ASSUME LimitsAssumption       == PageLimit \in Nat \ {0} /\ PurgeBatch \in Nat \ {0}
ASSUME BoundsAssumption       == MaxVersion \in Nat /\ MaxSequence \in Nat
ASSUME PostgresAssumption     == Postgres \in BOOLEAN

VARIABLES
    base,       \* committed rows of the business tables
    version,    \* the last version given to a row
    proj,       \* committed provisioning_projections
    events,     \* committed provisioning_events
    floor,      \* provisioning_feeds.floor
    head,       \* the last position allocated
    lock,       \* holder of the feed lock
    pc,         \* state of each transaction
    wrote,      \* rows a transaction wrote ...
    vals,       \* ... and the values it gave them
    published,  \* resources a transaction published ...
    projs,      \* ... and the projections it wrote
    evs,        \* events a transaction appended, visible at its commit
    flushed,    \* its writes so far are published
    snap,       \* what a serializable transaction reads
    purge,      \* the purge transaction of each retention loop
    cursor,     \* position of each consumer's cursor
    start,      \* history: where that cursor was captured
    seen,       \* history: positions the consumer was given since then
    log         \* history: every event ever committed

Parts == {"main", "side"}
Rows  == Resources \X Parts
Main(r) == <<r, "main">>
Side(r) == <<r, "side">>

NoCursor == [valid |-> FALSE, position |-> 0]
NoProjection == [rep |-> <<0, 0>>, rev |-> 0]
NoPurge == [active |-> FALSE, floor |-> 0, last |-> 0]

database == <<base, version, proj, events, floor, head, lock>>
txs      == <<pc, wrote, vals, published, projs, evs, flushed, snap>>
readers  == <<cursor, start, seen>>
vars     == <<base, version, proj, events, floor, head, lock, pc, wrote, vals, published,
              projs, evs, flushed, snap, purge, cursor, start, seen, log>>

Sequences(es) == {e.seq : e \in es}
MaxOf(S, default) == IF S = {} THEN default ELSE CHOOSE x \in S : \A y \in S : y <= x

EmptyBase == [row \in Rows |-> 0]
EmptyProj == [r \in Resources |-> NoProjection]

Init ==
    /\ base = EmptyBase /\ version = 0
    /\ proj = EmptyProj
    /\ events = {} /\ log = {}
    /\ floor = 0 /\ head = 0
    /\ lock = NoWriter
    /\ pc        = [w \in Writers |-> "idle"]
    /\ wrote     = [w \in Writers |-> {}]
    /\ vals      = [w \in Writers |-> EmptyBase]
    /\ published = [w \in Writers |-> {}]
    /\ projs     = [w \in Writers |-> EmptyProj]
    /\ evs       = [w \in Writers |-> {}]
    /\ flushed   = [w \in Writers |-> TRUE]
    /\ snap      = [w \in Writers |-> [base |-> EmptyBase, proj |-> EmptyProj]]
    /\ purge     = [p \in Purgers |-> NoPurge]
    /\ cursor    = [c \in Consumers |-> NoCursor]
    /\ start     = [c \in Consumers |-> 0]
    /\ seen      = [c \in Consumers |-> {}]

-----------------------------------------------------------------------------
(* What a transaction reads: the latest commits at READ COMMITTED, its        *)
(* snapshot at SERIALIZABLE, and its own writes in both cases.                *)

Sees(w) == IF w \in Serializable THEN snap[w] ELSE [base |-> base, proj |-> proj]

View(w) == [row \in Rows |-> IF row \in wrote[w] THEN vals[w][row] ELSE Sees(w).base[row]]

(* Mutant: a second publication of the transaction forgets the first. *)
StoredCommitted(w, r) == Sees(w).proj[r]

Stored(w, r) == IF r \in published[w] THEN projs[w][r] ELSE Sees(w).proj[r]

(* projectionOf: the representation of a resource, absent with its main row. *)
Representation(b, r) == IF b[Main(r)] = 0 THEN <<0, 0>> ELSE <<b[Main(r)], b[Side(r)]>>

(* Mutant: a row a resource also derives from is not tracked. *)
PendingMainOnly(w) ==
    {r \in Resources : /\ Main(r) \in wrote[w]
                       /\ Representation(View(w), r) # Stored(w, r).rep}

(* pendingProjections: the tracked resources whose stored projection is not   *)
(* the one their rows give.                                                   *)
Pending(w) ==
    {r \in Resources : /\ {Main(r), Side(r)} \cap wrote[w] # {}
                       /\ Representation(View(w), r) # Stored(w, r).rep}

-----------------------------------------------------------------------------
(* Transactions *)

(* SQLite has a single connection. *)
ConnectionFree == \/ Postgres
                  \/ /\ \A w \in Writers : pc[w] = "idle"
                     /\ \A p \in Purgers : ~purge[p].active

Begin(w) ==
    /\ pc[w] = "idle" /\ ConnectionFree
    /\ pc' = [pc EXCEPT ![w] = "open"]
    /\ flushed' = [flushed EXCEPT ![w] = TRUE]
    /\ snap' = [snap EXCEPT ![w] = IF w \in Serializable THEN [base |-> base, proj |-> proj] ELSE @]
    /\ UNCHANGED <<database, wrote, vals, published, projs, evs, purge, readers, log>>

(* The rows another transaction holds until it ends. *)
LockedByOthers(w) == UNION {wrote[v] : v \in Writers \ {w}}

(* A row is written under its row lock; at SERIALIZABLE a row changed since   *)
(* the snapshot cannot be written.                                            *)
Writable(w, rs) ==
    /\ pc[w] = "open"
    /\ rs \cap LockedByOthers(w) = {}
    /\ w \in Serializable => \A row \in rs \ wrote[w] : base[row] = snap[w].base[row]

SetRows(w, rs, v) ==
    /\ wrote'   = [wrote EXCEPT ![w] = @ \cup rs]
    /\ vals'    = [vals EXCEPT ![w] = [row \in Rows |-> IF row \in rs THEN v ELSE @[row]]]
    /\ flushed' = [flushed EXCEPT ![w] = FALSE]
    /\ UNCHANGED <<base, proj, events, floor, head, lock, pc, published, projs, evs, snap,
                   purge, readers, log>>

(* Creates a resource, or changes one of its rows.  A side row refers to its  *)
(* main row, which another transaction must not be deleting.                  *)
Write(w, row) ==
    /\ version < MaxVersion
    /\ Writable(w, {row})
    /\ row[2] = "side" => /\ View(w)[Main(row[1])] # 0
                          /\ Main(row[1]) \in wrote[w] \/ base[Main(row[1])] # 0
                          /\ \A v \in Writers \ {w} :
                                Main(row[1]) \in wrote[v] => vals[v][Main(row[1])] # 0
    /\ version' = version + 1
    /\ SetRows(w, {row}, version + 1)

(* Deletes a resource, its side row with it. *)
Remove(w, r) ==
    /\ Writable(w, {Main(r), Side(r)})
    /\ View(w)[Main(r)] # 0
    /\ SetRows(w, {Main(r), Side(r)}, 0)
    /\ UNCHANGED version

(* publishProjections returns before the lock: no projection changes. *)
PublishNothing(w) ==
    /\ pc[w] = "open" /\ ~flushed[w]
    /\ Pending(w) = {}
    /\ flushed' = [flushed EXCEPT ![w] = TRUE]
    /\ UNCHANGED <<database, pc, wrote, vals, published, projs, evs, snap, purge, readers, log>>

(* Mutant: the feed lock does not exclude other publications. *)
LockFeedShared(w) ==
    /\ pc[w] = "open" /\ ~flushed[w]
    /\ Pending(w) # {}
    /\ lock' = w
    /\ pc' = [pc EXCEPT ![w] = "locked"]
    /\ UNCHANGED <<base, version, proj, events, floor, head, wrote, vals, published, projs,
                   evs, flushed, snap, purge, readers, log>>

(* lockProvisioningFeed, held until the transaction ends. *)
LockFeed(w) ==
    /\ pc[w] = "open" /\ ~flushed[w]
    /\ Pending(w) # {}
    /\ lock \in {NoWriter, w}
    /\ lock' = w
    /\ pc' = [pc EXCEPT ![w] = "locked"]
    /\ UNCHANGED <<base, version, proj, events, floor, head, wrote, vals, published, projs,
                   evs, flushed, snap, purge, readers, log>>

(* Mutant: WithProvisioningTransaction runs at the default isolation. *)
NoIsolation(w, rs) == TRUE

(* At SERIALIZABLE the write of a projection changed since the snapshot fails *)
(* with a serialization failure, and the transaction is replayed.             *)
NoSerializationFailure(w, rs) ==
    w \in Serializable => \A r \in rs \ published[w] : proj[r] = snap[w].proj[r]

(* One position per change, deletions first. *)
Positions(w, rs) ==
    {f \in [rs -> (head + 1)..(head + Cardinality(rs))] :
        \A q, r \in rs :
            /\ q # r => f[q] # f[r]
            /\ View(w)[Main(q)] = 0 /\ View(w)[Main(r)] # 0 => f[q] < f[r]}

(* The changes are computed again under the lock, then each projection is     *)
(* written with its position as revision, and its event appended.             *)
Publish(w) ==
    /\ pc[w] = "locked"
    /\ NoSerializationFailure(w, Pending(w))
    /\ head + Cardinality(Pending(w)) <= MaxSequence
    /\ \E f \in Positions(w, Pending(w)) :
          /\ projs' = [projs EXCEPT ![w] = [r \in Resources |->
                IF r \notin Pending(w) THEN @[r]
                ELSE IF View(w)[Main(r)] = 0 THEN NoProjection
                ELSE [rep |-> Representation(View(w), r), rev |-> f[r]]]]
          /\ evs' = [evs EXCEPT ![w] = @ \cup
                {[seq |-> f[r], res |-> r,
                  kind |-> IF View(w)[Main(r)] = 0 THEN "deleted"
                           ELSE IF Stored(w, r) = NoProjection THEN "created" ELSE "updated"]
                    : r \in Pending(w)}]
    /\ published' = [published EXCEPT ![w] = @ \cup Pending(w)]
    /\ head' = head + Cardinality(Pending(w))
    /\ flushed' = [flushed EXCEPT ![w] = TRUE]
    /\ pc' = [pc EXCEPT ![w] = "open"]
    /\ UNCHANGED <<base, version, proj, events, floor, lock, wrote, vals, snap, purge,
                   readers, log>>

(* The transaction ends: its locks are released and nothing of it remains. *)
End(w) ==
    /\ pc'        = [pc EXCEPT ![w] = "idle"]
    /\ wrote'     = [wrote EXCEPT ![w] = {}]
    /\ vals'      = [vals EXCEPT ![w] = EmptyBase]
    /\ published' = [published EXCEPT ![w] = {}]
    /\ projs'     = [projs EXCEPT ![w] = EmptyProj]
    /\ evs'       = [evs EXCEPT ![w] = {}]
    /\ flushed'   = [flushed EXCEPT ![w] = TRUE]
    /\ snap'      = [snap EXCEPT ![w] = [base |-> EmptyBase, proj |-> EmptyProj]]
    /\ lock'      = IF lock = w THEN NoWriter ELSE lock

Commit(w) ==
    /\ pc[w] = "open" /\ flushed[w]
    /\ base' = [row \in Rows |-> IF row \in wrote[w] THEN vals[w][row] ELSE base[row]]
    /\ proj' = [r \in Resources |-> IF r \in published[w] THEN projs[w][r] ELSE proj[r]]
    /\ events' = events \cup evs[w]
    /\ log' = log \cup evs[w]
    /\ End(w)
    /\ UNCHANGED <<version, floor, head, purge, readers>>

(* A refusal, a serialization failure, a deadlock, a crash.  The positions    *)
(* taken from the PostgreSQL sequence are lost; on SQLite the counter row is  *)
(* rolled back to the last position committed.                                *)
Rollback(w) ==
    /\ pc[w] # "idle"
    /\ head' = IF Postgres THEN head ELSE MaxOf(Sequences(log), 0)
    /\ End(w)
    /\ UNCHANGED <<base, version, proj, events, floor, purge, readers, log>>

-----------------------------------------------------------------------------
(* PurgeEvents *)

(* The first PurgeBatch events of the set, in order. *)
FirstEvents(es, n) ==
    {e \in es : Cardinality({x \in es : x.seq < e.seq}) < n}

(* The transaction reads the floor and a batch of events, and stops at the    *)
(* first one it keeps: any prefix of the batch may be older than the          *)
(* retention.                                                                 *)
PurgeRead(p) ==
    /\ ~purge[p].active /\ ConnectionFree
    /\ \E last \in Sequences(FirstEvents({e \in events : e.seq > floor}, PurgeBatch)) :
          purge' = [purge EXCEPT ![p] = [active |-> TRUE, floor |-> floor, last |-> last]]
    /\ UNCHANGED <<database, txs, readers, log>>

(* Mutant: the slower purge sets the floor back. *)
RaisedFloorBlindly(last) == last

(* The floor only rises: a slower purge of another replica leaves it alone. *)
RaisedFloor(last) == IF floor < last THEN last ELSE floor

(* The floor rises with the deletion, in the same commit. *)
PurgeCommit(p) ==
    /\ purge[p].active
    /\ floor' = RaisedFloor(purge[p].last)
    /\ events' = {e \in events : ~(purge[p].floor < e.seq /\ e.seq <= purge[p].last)}
    /\ purge' = [purge EXCEPT ![p] = NoPurge]
    /\ UNCHANGED <<base, version, proj, head, lock, txs, readers, log>>

-----------------------------------------------------------------------------
(* Consumers: every read runs on one snapshot (readTransaction). *)

(* Mutant: an emptied feed starts again from nothing. *)
HorizonOfEvents == MaxOf(Sequences(events), 0)

(* feedHorizon: the last position a reader may safely resume after. *)
Horizon ==
    LET last == MaxOf(Sequences(events), 0) IN IF last < floor THEN floor ELSE last

CaptureEventCursor(c) ==
    /\ cursor' = [cursor EXCEPT ![c] = [valid |-> TRUE, position |-> Horizon]]
    /\ start'  = [start EXCEPT ![c] = Horizon]
    /\ seen'   = [seen EXCEPT ![c] = {}]
    /\ UNCHANGED <<database, txs, purge, log>>

(* ErrCursorExpired: the consumer must rebuild from a new cursor. *)
CursorExpired(c) ==
    /\ cursor[c].valid
    /\ cursor[c].position <= Horizon
    /\ cursor[c].position < floor
    /\ cursor' = [cursor EXCEPT ![c] = NoCursor]
    /\ UNCHANGED <<database, txs, purge, start, seen, log>>

(* The page a cursor gives, and the position of the next one. *)
Page(c) == FirstEvents({e \in events : e.seq > cursor[c].position}, PageLimit)

HasMore(c) == Page(c) # {e \in events : e.seq > cursor[c].position}

NextPosition(c) == IF HasMore(c) THEN MaxOf(Sequences(Page(c)), 0) ELSE Horizon

ReadEvents(c) ==
    /\ cursor[c].valid
    /\ cursor[c].position <= Horizon
    /\ cursor[c].position >= floor
    /\ cursor' = [cursor EXCEPT ![c] = [valid |-> TRUE, position |-> NextPosition(c)]]
    /\ seen'   = [seen EXCEPT ![c] = @ \cup Sequences(Page(c))]
    /\ UNCHANGED <<database, txs, purge, start, log>>

-----------------------------------------------------------------------------
Transaction(w) ==
    \/ Begin(w) \/ PublishNothing(w) \/ LockFeed(w) \/ Publish(w) \/ Commit(w) \/ Rollback(w)
    \/ \E row \in Rows : Write(w, row)
    \/ \E r \in Resources : Remove(w, r)

Next ==
    \/ \E w \in Writers : Transaction(w)
    \/ \E p \in Purgers : PurgeRead(p) \/ PurgeCommit(p)
    \/ \E c \in Consumers : CaptureEventCursor(c) \/ CursorExpired(c) \/ ReadEvents(c)

Spec == Init /\ [][Next]_vars
-----------------------------------------------------------------------------
(* Properties *)

Projection == [rep : Nat \X Nat, rev : Nat]
Event == [seq : Nat, res : Resources, kind : {"created", "updated", "deleted"}]
Position == 0..MaxSequence

(* The types, and the resources of a transaction: only a running one holds    *)
(* the feed lock, rows or uncommitted events.                                 *)
TypeOK ==
    /\ base \in [Rows -> 0..MaxVersion] /\ version \in 0..MaxVersion
    /\ proj \in [Resources -> Projection]
    /\ events \subseteq log /\ log \subseteq Event
    /\ head \in Position /\ floor \in 0..head
    /\ lock \in Writers \cup {NoWriter}
    /\ pc \in [Writers -> {"idle", "open", "locked"}]
    /\ wrote \in [Writers -> SUBSET Rows]
    /\ vals \in [Writers -> [Rows -> 0..MaxVersion]]
    /\ published \in [Writers -> SUBSET Resources]
    /\ projs \in [Writers -> [Resources -> Projection]]
    /\ evs \in [Writers -> SUBSET Event]
    /\ flushed \in [Writers -> BOOLEAN]
    /\ snap \in [Writers -> [base : [Rows -> 0..MaxVersion], proj : [Resources -> Projection]]]
    /\ purge \in [Purgers -> [active : BOOLEAN, floor : Position, last : Position]]
    /\ cursor \in [Consumers -> [valid : BOOLEAN, position : Position]]
    /\ start \in [Consumers -> Position]
    /\ seen \in [Consumers -> SUBSET Position]
    /\ \A w \in Writers : pc[w] = "idle" => lock # w /\ wrote[w] = {} /\ evs[w] = {}

(* "There is never an in-flight transaction behind the horizon" (feedHorizon, *)
(* PrepareWebhooks): an event that becomes visible lies after every position  *)
(* a reader could have resumed from before it.                                *)
PrefixClosed ==
    [][\A e \in events' \ events : e.seq > Horizon]_vars

(* A consumer that follows its cursors, page after page and across purges, is *)
(* given every event ever committed after the position it started from: the   *)
(* retention answers ErrCursorExpired before it hides one.                    *)
NoEventSkipped ==
    \A c \in Consumers : cursor[c].valid =>
        \A e \in log : start[c] < e.seq /\ e.seq <= cursor[c].position => e.seq \in seen[c]

(* A cursor the feed issued is never refused as invalid later: the horizon    *)
(* does not fall back, even when retention empties the feed.                  *)
CursorStaysValid ==
    \A c \in Consumers : cursor[c].valid => cursor[c].position <= Horizon

(* The stored projection of a resource is the one its committed rows give,    *)
(* although the transactions that changed those rows overlapped, at           *)
(* different isolation levels, and each saw only a part of them at first.     *)
ProjectionCurrent ==
    \A r \in Resources : proj[r].rep = Representation(base, r)

(* PutCommon checks the If-Match condition once, against the first read of    *)
(* its transaction: when that transaction commits, the projections it         *)
(* publishes are still the ones it compared, so no update is lost.            *)
ConditionHoldsAtCommit ==
    [][\A w \in Serializable :
        evs[w] # {} /\ evs[w] \subseteq log' /\ ~(evs[w] \subseteq log)
            => \A r \in published[w] : proj[r] = snap[w].proj[r]]_vars

About(r) == {e \in log : e.res = r}
Latest(es) == CHOOSE e \in es : \A x \in es : x.seq <= e.seq

(* The log alone tells what exists and at which ETag: the revision of a       *)
(* projection is the position of the latest event about it, an absent one was *)
(* deleted last, and along the log a resource is created, updated and deleted *)
(* in a coherent order.                                                       *)
LogTellsHistory ==
    \A r \in Resources :
        /\ About(r) = {} => proj[r] = NoProjection
        /\ About(r) # {} =>
              IF Latest(About(r)).kind = "deleted" THEN proj[r] = NoProjection
              ELSE proj[r].rev = Latest(About(r)).seq
        /\ \A e \in About(r) :
              LET earlier == {x \in About(r) : x.seq < e.seq}
                  live == earlier # {} /\ Latest(earlier).kind # "deleted"
              IN (e.kind = "created") <=> ~live
=============================================================================
