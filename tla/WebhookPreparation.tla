------------------------- MODULE WebhookPreparation -------------------------
(***************************************************************************)
(* The webhook subscriptions: how the API creates, updates, resets and     *)
(* deletes them while the replicas turn the events of the feed into        *)
(* deliveries, and retention purges the feed behind them.                  *)
(*                                                                         *)
(* One step is one SQL statement, and the last statement of a transaction  *)
(* together with its commit.  No operation takes the lock of the feed; the *)
(* revision of a subscription is what detects a concurrent write.          *)
(*                                                                         *)
(* The feed appends and purges in one step each: module EventFeed shows    *)
(* that it is prefix-closed and that its floor rises with the deletion.    *)
(* Workers and sweep are reduced to Finish and Forget: see WebhookQueue.   *)
(***************************************************************************)
EXTENDS Naturals, FiniteSets

CONSTANTS
    Subscriptions,     \* webhook identifiers, chosen by the clients
    Tenants,
    Types,             \* event types a subscription may select
    Unreadable,        \* the type of an event whose payload cannot be decoded
    Kinds,             \* the <<tenant, type>> of the events that get published
    Filters,           \* the sets of types that clients ask for
    Preparers,         \* the WebhookService.Run loops of the replicas
    Agents,            \* concurrent requests to the webhook API
    QueueCapacity,     \* WebhookCapacity.Queue
    OwnCapacity,       \* WebhookCapacity.Subscription
    Budget,            \* webhookBudget: events read per subscription and round
    MaxSubscriptions,  \* WebhookMaxSubscriptionsPerTenant
    ReuseIds,          \* clients may create again an identifier they deleted
    Postgres,          \* TRUE: PostgreSQL at READ COMMITTED; FALSE: SQLite, one connection
    MaxSequence,       \* bound of the exploration: published events
    MaxRevision        \* bound of the exploration: writes of one subscription

ASSUME KindsAssumption    == Kinds \subseteq Tenants \X (Types \cup {Unreadable})
ASSUME TypesAssumption    == Unreadable \notin Types /\ Filters \subseteq (SUBSET Types) \ {{}}
ASSUME CapacityAssumption == /\ QueueCapacity \in Nat \ {0} /\ OwnCapacity \in Nat \ {0}
                             /\ Budget \in Nat \ {0} /\ MaxSubscriptions \in Nat \ {0}
ASSUME SwitchesAssumption == ReuseIds \in BOOLEAN /\ Postgres \in BOOLEAN
ASSUME BoundsAssumption   == MaxSequence \in Nat /\ MaxRevision \in Nat
ASSUME ActorsAssumption   == Preparers \cap Agents = {} /\ "other" \notin Preparers \cup Agents

VARIABLES
    events,    \* provisioning_events
    log,       \* history: every event ever committed
    floor,     \* provisioning_feeds.floor
    active,    \* tenants.active
    subs,      \* webhook_subscriptions
    queue,     \* deliveries pending or leased: <<subscription, sequence>>
    finished,  \* deliveries delivered or failed, not yet removed
    born,      \* identifiers already used
    prep,      \* where each preparation loop is
    txn        \* the transaction of each request

feed == <<events, log, floor>>
vars == <<events, log, floor, active, subs, queue, finished, born, prep, txn>>

NoRow == [tenant |-> "none", types |-> {}, enabled |-> FALSE, state |-> "ready",
          position |-> 0, revision |-> 0]
NoTxn == [op |-> "none", step |-> "idle", sub |-> "none", tenant |-> "none", row |-> NoRow,
          types |-> {}, enabled |-> FALSE, floor |-> 0, horizon |-> 0, doomed |-> {},
          began |-> 0]
NoPrep == [step |-> "idle", floor |-> 0, horizon |-> 0, todo |-> {}, sub |-> "none",
           row |-> NoRow, rows |-> {}, queued |-> 0, own |-> 0]

Init ==
    /\ events = {} /\ log = {} /\ floor = 0
    /\ active   = [t \in Tenants |-> TRUE]
    /\ subs     = [s \in Subscriptions |-> NoRow]
    /\ queue = {} /\ finished = {} /\ born = {}
    /\ prep     = [p \in Preparers |-> NoPrep]
    /\ txn      = [a \in Agents |-> NoTxn]

Exists(s) == subs[s].revision > 0

(* The bound of the exploration: no write is begun that could exceed it. *)
Writable(s) == subs[s].revision < MaxRevision

Sequences(es) == {e.seq : e \in es}
Highest(S) == IF S = {} THEN 0 ELSE CHOOSE x \in S : \A y \in S : y <= x
Higher(x, y) == IF x < y THEN y ELSE x

(* feedHorizon, read at once: the end of the feed. *)
End == Higher(Highest(Sequences(events)), floor)

(* On SQLite a transaction has the only connection. *)
Alone(actor) ==
    \/ Postgres
    \/ /\ \A a \in Agents \ {actor} : txn[a] = NoTxn
       /\ \A p \in Preparers \ {actor} : prep[p].step \notin {"floor", "count", "advance"}

-----------------------------------------------------------------------------
(* The feed, the tenants and the queue, as preparation sees them. *)

Publish(k) ==
    /\ Cardinality(log) < MaxSequence /\ Alone("other")
    /\ LET e == [seq |-> Cardinality(log) + 1, tenant |-> k[1], type |-> k[2]] IN
          events' = events \cup {e} /\ log' = log \cup {e}
    /\ UNCHANGED <<floor, active, subs, queue, finished, born, prep, txn>>

(* PurgeEvents removes a prefix of the feed. *)
Purge ==
    /\ Alone("other")
    /\ \E last \in Sequences(events) :
          /\ floor' = last
          /\ events' = {e \in events : e.seq > last}
    /\ UNCHANGED <<log, active, subs, queue, finished, born, prep, txn>>

(* A tenant is suspended or reactivated. *)
Switch(t) ==
    /\ Alone("other")
    /\ active' = [active EXCEPT ![t] = ~@]
    /\ UNCHANGED <<feed, subs, queue, finished, born, prep, txn>>

(* A delivery a transaction is deleting is locked until that transaction ends. *)
Doomed == UNION {txn[a].doomed : a \in Agents}

Finish(d) ==
    /\ d \in queue \ Doomed /\ Alone("other")
    /\ queue' = queue \ {d}
    /\ finished' = finished \cup {d}
    /\ UNCHANGED <<feed, active, subs, born, prep, txn>>

(* SweepWebhooks removes a delivery finished long ago. *)
Forget(d) ==
    /\ d \in finished \ Doomed /\ Alone("other")
    /\ finished' = finished \ {d}
    /\ UNCHANGED <<feed, active, subs, queue, born, prep, txn>>

-----------------------------------------------------------------------------
(* PutWebhook, ResetWebhook and DeleteWebhook *)

CountOf(t) == Cardinality({s \in Subscriptions : Exists(s) /\ subs[s].tenant = t})

(* Mutant: lockWebhookTenant only reads the tenant. *)
TenantUnlocked(a, t) == TRUE

(* lockWebhookTenant: no other PutWebhook of the tenant is running. *)
TenantLocked(a, t) == \A b \in Agents \ {a} : ~(txn[b].op = "put" /\ txn[b].tenant = t)

(* The tenant is locked, the row read, and for a creation the rows counted.   *)
PutBegin(a, s, t, types, enabled) ==
    /\ txn[a] = NoTxn /\ Alone(a)
    /\ TenantLocked(a, t)
    /\ IF Exists(s) THEN subs[s].tenant = t /\ Writable(s)
       ELSE /\ CountOf(t) < MaxSubscriptions
            /\ ReuseIds \/ s \notin born
    /\ txn' = [txn EXCEPT ![a] = [NoTxn EXCEPT
          !.op = "put", !.step = IF Exists(s) THEN "write" ELSE "floor", !.sub = s, !.tenant = t,
          !.row = subs[s], !.types = types, !.enabled = enabled,
          !.began = IF Exists(s) THEN 0 ELSE End]]
    /\ UNCHANGED <<feed, active, subs, queue, finished, born, prep>>

ResetBegin(a, s) ==
    /\ txn[a] = NoTxn /\ Alone(a)
    /\ Exists(s) /\ Writable(s)
    /\ txn' = [txn EXCEPT ![a] = [NoTxn EXCEPT
          !.op = "reset", !.step = "floor", !.sub = s, !.tenant = subs[s].tenant,
          !.row = subs[s], !.began = End]]
    /\ UNCHANGED <<feed, active, subs, queue, finished, born, prep>>

DeleteBegin(a, s) ==
    /\ txn[a] = NoTxn /\ Alone(a)
    /\ Exists(s)
    /\ txn' = [txn EXCEPT ![a] = [NoTxn EXCEPT
          !.op = "delete", !.step = "drop", !.sub = s, !.tenant = subs[s].tenant,
          !.row = subs[s]]]
    /\ UNCHANGED <<feed, active, subs, queue, finished, born, prep>>

(* webhookHorizon reads the floor ... *)
HorizonFloor(a) ==
    /\ txn[a].step = "floor"
    /\ txn' = [txn EXCEPT ![a].step = "max", ![a].floor = floor]
    /\ UNCHANGED <<feed, active, subs, queue, finished, born, prep>>

(* Mutant: the floor is ignored. *)
HorizonMaxOnly(a) ==
    /\ txn[a].step = "max"
    /\ txn' = [txn EXCEPT ![a].step = IF txn[a].op = "put" THEN "write" ELSE "drop",
                          ![a].horizon = Highest(Sequences(events)), ![a].floor = 0]
    /\ UNCHANGED <<feed, active, subs, queue, finished, born, prep>>

(* ... then the last event: at READ COMMITTED a purge may commit in between.  *)
HorizonMax(a) ==
    /\ txn[a].step = "max"
    /\ txn' = [txn EXCEPT ![a].step = IF txn[a].op = "put" THEN "write" ELSE "drop",
                          ![a].horizon = Higher(Highest(Sequences(events)), txn[a].floor),
                          ![a].floor = 0]
    /\ UNCHANGED <<feed, active, subs, queue, finished, born, prep>>

(* Mutant: the finished deliveries are left behind. *)
OfQueued(s) == {d \in queue : d[1] = s}

Of(s) == {d \in queue \cup finished : d[1] = s}

(* ResetWebhook and DeleteWebhook delete the deliveries they see.  One that   *)
(* another transaction is deleting is waited for.                             *)
Drop(a) ==
    /\ txn[a].step = "drop"
    /\ Of(txn[a].sub) \cap Doomed = {}
    /\ txn' = [txn EXCEPT ![a].step = "write", ![a].doomed = Of(txn[a].sub)]
    /\ UNCHANGED <<feed, active, subs, queue, finished, born, prep>>

(* The transaction of the request ends. *)
EndTxn(a) == txn' = [txn EXCEPT ![a] = NoTxn]

(* Mutant: the write ignores the revision it read. *)
CurrentIfExists(s, row) == Exists(s)

(* The conditional write: the row was not written since it was read. *)
Current(s, row) == Exists(s) /\ subs[s].revision = row.revision

(* A new subscription starts at the horizon. *)
PutCreate(a) ==
    /\ txn[a].op = "put" /\ txn[a].step = "write" /\ txn[a].row = NoRow
    /\ ~Exists(txn[a].sub)
    /\ subs' = [subs EXCEPT ![txn[a].sub] =
          [tenant |-> txn[a].tenant, types |-> txn[a].types, enabled |-> txn[a].enabled,
           state |-> "ready", position |-> txn[a].horizon, revision |-> 1]]
    /\ born' = born \cup {txn[a].sub}
    /\ EndTxn(a)
    /\ UNCHANGED <<feed, active, queue, finished, prep>>

(* The whole row is written back, with the new settings. *)
PutUpdate(a) ==
    /\ txn[a].op = "put" /\ txn[a].step = "write" /\ txn[a].row # NoRow
    /\ Current(txn[a].sub, txn[a].row)
    /\ subs' = [subs EXCEPT ![txn[a].sub] = [txn[a].row EXCEPT
          !.types = txn[a].types, !.enabled = txn[a].enabled, !.revision = @ + 1]]
    /\ EndTxn(a)
    /\ UNCHANGED <<feed, active, queue, finished, born, prep>>

RemoveDoomed(a) ==
    /\ queue' = queue \ txn[a].doomed
    /\ finished' = finished \ txn[a].doomed

ResetWrite(a) ==
    /\ txn[a].op = "reset" /\ txn[a].step = "write"
    /\ Current(txn[a].sub, txn[a].row)
    /\ subs' = [subs EXCEPT ![txn[a].sub].position = txn[a].horizon,
                            ![txn[a].sub].state = "ready",
                            ![txn[a].sub].revision = txn[a].row.revision + 1]
    /\ RemoveDoomed(a)
    /\ EndTxn(a)
    /\ UNCHANGED <<feed, active, born, prep>>

(* DeleteWebhook deletes the row whatever its revision. *)
DeleteWrite(a) ==
    /\ txn[a].op = "delete" /\ txn[a].step = "write"
    /\ subs' = [subs EXCEPT ![txn[a].sub] = IF @.tenant = txn[a].tenant THEN NoRow ELSE @]
    /\ RemoveDoomed(a)
    /\ EndTxn(a)
    /\ UNCHANGED <<feed, active, born, prep>>

(* errWebhookStale, a conflict on the identifier, a failure, a crash: nothing *)
(* is written.  webhookTransaction then runs the request again.               *)
Abort(a) ==
    /\ txn[a] # NoTxn
    /\ EndTxn(a)
    /\ UNCHANGED <<feed, active, subs, queue, finished, born, prep>>

-----------------------------------------------------------------------------
(* PrepareWebhooks *)

(* The horizon is read outside any transaction, in two statements ... *)
RoundFloor(p) ==
    /\ prep[p].step = "idle" /\ Alone(p)
    /\ prep' = [prep EXCEPT ![p].step = "max", ![p].floor = floor]
    /\ UNCHANGED <<feed, active, subs, queue, finished, born, txn>>

RoundMax(p) ==
    /\ prep[p].step = "max" /\ Alone(p)
    /\ prep' = [prep EXCEPT ![p].step = "list",
                            ![p].horizon = Higher(Highest(Sequences(events)), prep[p].floor),
                            ![p].floor = 0]
    /\ UNCHANGED <<feed, active, subs, queue, finished, born, txn>>

(* Enabled, not stopped by a loss, behind the horizon, of an active tenant. *)
Eligible(s, horizon) ==
    /\ Exists(s) /\ subs[s].enabled
    /\ subs[s].state # "history_lost"
    /\ subs[s].position < horizon
    /\ active[subs[s].tenant]

(* ... and so is the list of the subscriptions to prepare. *)
RoundList(p) ==
    /\ prep[p].step = "list" /\ Alone(p)
    /\ LET todo == {s \in Subscriptions : Eligible(s, prep[p].horizon) /\ Writable(s)} IN
       prep' = [prep EXCEPT ![p] =
          IF todo = {} THEN NoPrep
          ELSE [@ EXCEPT !.step = "next", !.todo = {[sub |-> s, row |-> subs[s]] : s \in todo}]]
    /\ UNCHANGED <<feed, active, subs, queue, finished, born, txn>>

(* The first n events of the set, in order. *)
FirstEvents(es, n) == {e \in es : Cardinality({x \in es : x.seq < e.seq}) < n}

(* The subscriptions are prepared one after the other, the furthest behind    *)
(* first, each in a transaction that starts by reading its events.            *)
PrepareRead(p) ==
    /\ prep[p].step = "next" /\ Alone(p)
    /\ \E item \in prep[p].todo :
          /\ \A other \in prep[p].todo : item.row.position <= other.row.position
          /\ prep' = [prep EXCEPT ![p].step = "floor", ![p].todo = @ \ {item},
                ![p].sub = item.sub, ![p].row = item.row,
                ![p].rows = FirstEvents({e \in events :
                    /\ e.tenant = item.row.tenant
                    /\ item.row.position < e.seq /\ e.seq <= prep[p].horizon}, Budget)]
    /\ UNCHANGED <<feed, active, subs, queue, finished, born, txn>>

(* The transaction of one subscription ends, and with the last one the round. *)
Done(p) ==
    prep' = [prep EXCEPT ![p] =
        IF @.todo = {} THEN NoPrep
        ELSE [NoPrep EXCEPT !.step = "next", !.todo = prep[p].todo, !.horizon = prep[p].horizon]]

(* advanceWebhook and the commit, unless the subscription was written since   *)
(* it was listed: the deliveries are then rolled back.                        *)
Advance(p, position, state, deliveries) ==
    /\ IF Current(prep[p].sub, prep[p].row)
       THEN /\ subs' = [subs EXCEPT ![prep[p].sub].position = position,
                                    ![prep[p].sub].state = state,
                                    ![prep[p].sub].revision = prep[p].row.revision + 1]
            /\ queue' = queue \cup deliveries
       ELSE UNCHANGED <<subs, queue>>
    /\ Done(p)

(* Mutant: the floor is compared with the horizon of the round. *)
BehindHorizon(p) == prep[p].horizon < floor

Behind(p) == prep[p].row.position < floor

(* The floor is read after the events, and compared with the position. *)
PrepareFloor(p) ==
    /\ prep[p].step = "floor"
    /\ IF Behind(p)
       THEN Advance(p, prep[p].row.position, "history_lost", {})
       ELSE prep' = [prep EXCEPT ![p].step = "count"] /\ UNCHANGED <<subs, queue>>
    /\ UNCHANGED <<feed, active, finished, born, txn>>

(* The deliveries waiting or in flight, for the instance and for the          *)
(* subscription.                                                              *)
PrepareCount(p) ==
    /\ prep[p].step = "count"
    /\ prep' = [prep EXCEPT ![p].step = "advance", ![p].queued = Cardinality(queue),
                            ![p].own = Cardinality({d \in queue : d[1] = prep[p].sub})]
    /\ UNCHANGED <<feed, active, subs, queue, finished, born, txn>>

(* The event can be delivered and the subscription selects it. *)
Selects(row, e) == e.type # Unreadable /\ e.type \in row.types

(* The events read that still have to be inserted: the unique index turns the *)
(* others into conflicts.                                                     *)
Missing(p) ==
    {e \in prep[p].rows : /\ Selects(prep[p].row, e)
                          /\ <<prep[p].sub, e.seq>> \notin queue \cup finished}

(* Mutants: a capacity is not compared. *)
NoRoomInQueue(p, n) == prep[p].queued + n >= QueueCapacity
NoRoomOfOwn(p, n) == prep[p].own + n >= OwnCapacity

(* No room is left once n deliveries were inserted. *)
NoRoom(p, n) == prep[p].queued + n >= QueueCapacity \/ prep[p].own + n >= OwnCapacity

(* The selected events at which the loop finds no room: it stops at the first. *)
Blocked(p) ==
    {e \in prep[p].rows : /\ Selects(prep[p].row, e)
                          /\ NoRoom(p, Cardinality({x \in Missing(p) : x.seq < e.seq}))}

Processed(p) == {e \in prep[p].rows : \A b \in Blocked(p) : e.seq < b.seq}

(* Mutant: a full queue still ends the round at the horizon. *)
CheckpointPastBlocked(p) ==
    IF Cardinality(prep[p].rows) < Budget THEN prep[p].horizon
    ELSE Higher(Highest(Sequences(Processed(p))), prep[p].row.position)

(* The new position: after the last event processed, or the horizon when the  *)
(* tenant has nothing else up to it.                                          *)
Checkpoint(p) ==
    IF Blocked(p) = {} /\ Cardinality(prep[p].rows) < Budget THEN prep[p].horizon
    ELSE Higher(Highest(Sequences(Processed(p))), prep[p].row.position)

Insertions(p) == {<<prep[p].sub, e.seq>> : e \in Missing(p) \cap Processed(p)}

(* The deliveries are inserted and the position advanced in one commit. *)
PrepareAdvance(p) ==
    /\ prep[p].step = "advance"
    /\ {<<prep[p].sub, e.seq>> : e \in prep[p].rows} \cap Doomed = {}
    /\ Advance(p, Checkpoint(p), IF Blocked(p) = {} THEN "ready" ELSE "backpressure",
               Insertions(p))
    /\ UNCHANGED <<feed, active, finished, born, txn>>

(* A database error or the end of the process: the round stops where it is. *)
RoundFails(p) ==
    /\ prep[p].step # "idle"
    /\ prep' = [prep EXCEPT ![p] = NoPrep]
    /\ UNCHANGED <<feed, active, subs, queue, finished, born, txn>>

-----------------------------------------------------------------------------
Request(a) ==
    \/ \E s \in Subscriptions : ResetBegin(a, s) \/ DeleteBegin(a, s)
    \/ \E s \in Subscriptions, t \in Tenants, types \in Filters, enabled \in BOOLEAN :
          PutBegin(a, s, t, types, enabled)
    \/ HorizonFloor(a) \/ HorizonMax(a) \/ Drop(a)
    \/ PutCreate(a) \/ PutUpdate(a) \/ ResetWrite(a) \/ DeleteWrite(a) \/ Abort(a)

Round(p) ==
    \/ RoundFloor(p) \/ RoundMax(p) \/ RoundList(p)
    \/ PrepareRead(p) \/ PrepareFloor(p) \/ PrepareCount(p) \/ PrepareAdvance(p)
    \/ RoundFails(p)

Next ==
    \/ \E k \in Kinds : Publish(k)
    \/ Purge
    \/ \E t \in Tenants : Switch(t)
    \/ \E d \in queue : Finish(d)
    \/ \E d \in finished : Forget(d)
    \/ \E a \in Agents : Request(a)
    \/ \E p \in Preparers : Round(p)

Spec == Init /\ [][Next]_vars
-----------------------------------------------------------------------------
(* Properties *)

(* A reset of the subscription commits in this step. *)
Resets(s) ==
    \E a \in Agents : /\ txn[a].op = "reset" /\ txn[a].step = "write" /\ txn[a].sub = s
                      /\ txn'[a] = NoTxn /\ subs' # subs

(* The subscription exists before and after this step, which does not reset it. *)
Stays(s) == subs[s].revision > 0 /\ subs'[s].revision > 0 /\ ~Resets(s)

SkipsNothing(s) ==
    Stays(s) =>
        \A e \in log :
            /\ subs[s].position < e.seq /\ e.seq <= subs'[s].position
            /\ e.tenant = subs[s].tenant /\ Selects(subs[s], e)
            => <<s, e.seq>> \in queue' \cup finished'

(* "A purged event is never silently skipped" (prepareWebhook): whenever the  *)
(* position of a subscription moves past an event of its tenant that it       *)
(* selects, other than by a reset, that event has its delivery - whatever was *)
(* purged, changed or prepared by another replica since the round began.      *)
NothingSkipped == [][\A s \in Subscriptions : SkipsNothing(s)]_vars

RoundWroteWhatItRead(p) ==
    prep'[p] # prep[p] /\ subs' # subs => subs[prep[p].sub] = prep[p].row

RequestWroteWhatItRead(a) ==
    txn'[a] # txn[a] /\ subs' # subs /\ txn[a].op # "delete"
        => subs[txn[a].sub] = txn[a].row

(* "Revision changes with every write, so concurrent writers detect each      *)
(* other without any lock" (WebhookSubscription): except for a deletion, the  *)
(* row written is the one that was read when the round or the request began.  *)
WritersDetectEachOther ==
    [][/\ \A p \in Preparers : RoundWroteWhatItRead(p)
       /\ \A a \in Agents : RequestWroteWhatItRead(a)]_vars

(* A position never moves back, so no event is queued a second time once its  *)
(* delivery was removed.                                                      *)
PositionNeverFalls ==
    [][\A s \in Subscriptions : Stays(s) => subs[s].position <= subs'[s].position]_vars

(* A subscription that lost history says so until it is reset: neither a      *)
(* concurrent update of its settings nor a preparation hides the gap.         *)
LossIsReported ==
    [][\A s \in Subscriptions :
        Stays(s) /\ subs[s].state = "history_lost" => subs'[s].state = "history_lost"]_vars

(* "WebhookCapacity bounds the deliveries waiting or in flight ... for each   *)
(* subscription": the revision makes the count of prepareWebhook exact, even  *)
(* when several replicas prepare the same subscription.                       *)
OwnCapacityHolds ==
    \A s \in Subscriptions : Cardinality({d \in queue : d[1] = s}) <= OwnCapacity

(* "WebhookCapacity bounds the deliveries waiting or in flight, for the whole *)
(* instance".                                                                 *)
QueueCapacityHolds == Cardinality(queue) <= QueueCapacity

(* "Concurrent creations for one tenant then count its subscriptions one      *)
(* after the other, so the cap holds at READ COMMITTED" (lockWebhookTenant).  *)
SubscriptionCapHolds == \A t \in Tenants : CountOf(t) <= MaxSubscriptions

(* "DeleteWebhook removes the subscription and its deliveries": no delivery   *)
(* outlives its subscription.                                                 *)
NoOrphans == \A d \in queue \cup finished : Exists(d[1])

StartsNoEarlier(a) ==
    txn[a].step = "write" /\ txn'[a] = NoTxn /\ subs' # subs
    /\ (txn[a].op = "reset" \/ txn[a].row = NoRow)
        => subs'[txn[a].sub].position >= txn[a].began

(* "A new one starts at the end of the feed", and a reset one too: not before *)
(* the end the feed had when the request began.                               *)
StartsAtEnd == [][\A a \in Agents : StartsNoEarlier(a)]_vars
=============================================================================
