---------------------- MODULE WebhookPreparationProofs ----------------------
(***************************************************************************)
(* Proofs about WebhookPreparation, for any sets of subscriptions, tenants,*)
(* replicas and requests, any capacities and any bound of the exploration: *)
(* the cap of a tenant; on SQLite the capacity of the instance, the        *)
(* absence of orphans and the start at the end of the feed; and, as long   *)
(* as no identifier is created twice, that concurrent writers detect each  *)
(* other, the capacity of a subscription and that no event is skipped.     *)
(***************************************************************************)
EXTENDS WebhookPreparationSteps

-----------------------------------------------------------------------------
(* SQLite: the transactions run one after the other. *)

Own(s) == {d \in queue : d[1] = s}

OthersIdle(x) ==
    /\ \A b \in Agents \ {x} : txn[b] = NoTxn
    /\ \A q \in Preparers \ {x} : ~InTxn(q)

(* What a request has read is still so. *)
StillTrue(a) ==
    /\ subs[txn[a].sub] = txn[a].row
    /\ txn[a].op # "put" => txn[a].tenant = txn[a].row.tenant
    /\ txn[a].op = "reset" \/ txn[a].row = NoRow =>
          /\ txn[a].began = End
          /\ txn[a].step = "max" => txn[a].floor = floor
          /\ txn[a].step \in {"drop", "write"} => txn[a].horizon = End
    /\ txn[a].op # "put" /\ txn[a].step = "write" => txn[a].doomed = Of(txn[a].sub)

Counted(p) == prep[p].queued = Cardinality(queue) /\ prep[p].own = Cardinality(Own(prep[p].sub))

Serial ==
    /\ \E x \in Agents \cup Preparers \cup {"other"} : OthersIdle(x)
    /\ \A a \in Agents : txn[a] # NoTxn => StillTrue(a)
    /\ \A p \in Preparers : prep[p].step = "advance" => Counted(p)
    /\ NoOrphans /\ QueueCapacityHolds /\ OwnCapacityHolds

(* Whoever is in a transaction is the only one. *)
LEMMA OnlyOne ==
    ASSUME Serial
    PROVE  /\ \A a \in Agents : txn[a] # NoTxn => OthersIdle(a)
           /\ \A p \in Preparers : InTxn(p) => OthersIdle(p)
  BY Zenon DEF Serial, OthersIdle

(* A step of x while the others are idle. *)
LEMMA SerialStep ==
    ASSUME NEW x \in Agents \cup Preparers \cup {"other"}, OthersIdle(x)',
           x \in Agents => txn'[x] = NoTxn \/ StillTrue(x)',
           x \in Preparers => (prep'[x].step = "advance" => Counted(x)'),
           NoOrphans', QueueCapacityHolds', OwnCapacityHolds'
    PROVE  Serial'
  BY Zenon DEF Serial, OthersIdle, InTxn

(* The capacities hold of fewer deliveries. *)
LEMMA CapacityKept ==
    ASSUME FiniteSetLaws, Typed, queue' \subseteq queue
    PROVE  /\ QueueCapacityHolds => QueueCapacityHolds'
           /\ OwnCapacityHolds => OwnCapacityHolds'
           /\ \A s : Own(s)' \subseteq Own(s) /\ Cardinality(Own(s)') <= Cardinality(Own(s))
           /\ \A s : Cardinality(Own(s)') \in Nat /\ Cardinality(Own(s)) \in Nat
  <1>1. /\ Cardinality(queue') <= Cardinality(queue) /\ Cardinality(queue') \in Nat
        /\ Cardinality(queue) \in Nat /\ QueueCapacity \in Nat /\ OwnCapacity \in Nat
    BY Zenon, PartIsFinite, SizeIsNatural, CapacityAssumption DEF Typed
  <1>2. \A s : Own(s)' \subseteq Own(s) /\ Own(s) \subseteq queue
    BY Zenon DEF Own
  <1>3. \A s : /\ Cardinality(Own(s)') <= Cardinality(Own(s)) /\ Cardinality(Own(s)) \in Nat
               /\ Cardinality(Own(s)') \in Nat
    BY Zenon, <1>2, PartIsFinite, SizeIsNatural DEF Typed
  <1>4. QueueCapacityHolds => QueueCapacityHolds'
    BY <1>1 DEF QueueCapacityHolds
  <1>5. ASSUME OwnCapacityHolds, NEW s \in Subscriptions PROVE Cardinality(Own(s)') <= OwnCapacity
    <2>1. Cardinality(Own(s)) <= OwnCapacity
      BY Zenon, <1>5 DEF OwnCapacityHolds, Own
    <2> QED
      BY <2>1, <1>1, <1>3
  <1> QED
    BY Zenon, <1>2, <1>3, <1>4, <1>5 DEF OwnCapacityHolds, Own

(* The feed, the tenants and the workers. *)
LEMMA SerialQuiet ==
    ASSUME FiniteSetLaws, Typed, Serial, OthersIdle("other"), UNCHANGED <<subs, prep, txn>>,
           queue' \subseteq queue, finished' \subseteq queue \cup finished
    PROVE  Serial'
  <1>1. OthersIdle("other")' /\ NoOrphans'
    BY Zenon DEF OthersIdle, InTxn, Serial, NoOrphans, Exists
  <1> QED
    BY Zenon, <1>1, CapacityKept, SerialStep, ActorsAssumption DEF Serial

(* A request goes on or ends without a write. *)
LEMMA SerialTxn ==
    ASSUME FiniteSetLaws, Typed, Serial, NEW a \in Agents, OthersIdle(a), Moves(a),
           UNCHANGED <<subs, queue, finished, prep>>, txn'[a] = NoTxn \/ StillTrue(a)'
    PROVE  Serial'
  <1>1. OthersIdle(a)' /\ NoOrphans'
    BY Zenon DEF OthersIdle, InTxn, Serial, NoOrphans, Exists, Moves
  <1> QED
    BY Zenon, <1>1, CapacityKept, SerialStep, ActorsAssumption DEF Serial

(* A request ends with its write. *)
LEMMA SerialWrite ==
    ASSUME FiniteSetLaws, Typed, Serial, NEW a \in Agents, Writes(a), UNCHANGED prep,
           queue' \subseteq queue, NoOrphans'
    PROVE  Serial'
  <1>1. OthersIdle(a)
    BY Zenon, OnlyOne, TxnFields DEF Writes
  <1>2. OthersIdle(a)' /\ txn'[a] = NoTxn
    BY Zenon, <1>1 DEF OthersIdle, InTxn, Writes, Moves
  <1> QED
    BY Zenon, <1>2, CapacityKept, SerialStep, ActorsAssumption DEF Serial

(* A round goes on without a write. *)
LEMMA SerialRound ==
    ASSUME FiniteSetLaws, Typed, Serial, NEW p \in Preparers, OthersIdle(p), PrepMoves(p),
           UNCHANGED <<subs, queue, finished, txn>>, prep'[p].step = "advance" => Counted(p)'
    PROVE  Serial'
  <1>1. OthersIdle(p)' /\ NoOrphans'
    BY Zenon DEF OthersIdle, InTxn, Serial, NoOrphans, Exists, PrepMoves
  <1> QED
    BY Zenon, <1>1, CapacityKept, SerialStep, ActorsAssumption DEF Serial

(* Existing subscriptions whose rows are rewritten leave no orphan. *)
LEMMA NoNewOrphans ==
    ASSUME Base, NoOrphans, NEW s, OnlyRow(s), subs'[s].revision > 0, NEW ds,
           \A d \in ds : d[1] = s, queue' \subseteq queue \cup ds, finished' \subseteq finished
    PROVE  NoOrphans'
  <1>1. ASSUME NEW u \in Subscriptions, Exists(u) PROVE Exists(u)'
    BY Zenon, <1>1 DEF Exists, OnlyRow
  <1>2. \A d \in queue \cup finished : d[1] \in Subscriptions
    BY Zenon DEF Base, Typed, Deliveries
  <1>3. Exists(s)'
    BY Zenon DEF Exists
  <1> QED
    BY Zenon, <1>1, <1>2, <1>3 DEF NoOrphans
(* No delivery is orphaned by a row that stays or appears. *)
LEMMA OrphansKept ==
    ASSUME Base, NoOrphans, NEW s, OnlyRow(s), subs'[s].revision > 0,
           queue' \subseteq queue, finished' \subseteq finished
    PROVE  NoOrphans'
  <1>1. PICK ds : ds = {}
    BY Zenon
  <1>2. queue' \subseteq queue \cup ds /\ \A d \in ds : d[1] = s
    BY Zenon, <1>1
  <1> QED
    BY Zenon, <1>2, NoNewOrphans

(* On SQLite, where a transaction has the connection, the others have none. *)
LEMMA AloneIdle == ASSUME ~Postgres, NEW x, Alone(x) PROVE OthersIdle(x)
  BY Zenon DEF Alone, OthersIdle, InTxn

(* The end of the feed, and what a subscription has in the queue, are what    *)
(* they were.                                                                 *)
LEMMA SameReads ==
    ASSUME UNCHANGED <<feed, queue, finished>>
    PROVE  End' = End /\ (\A s : Of(s)' = Of(s)) /\ floor' = floor /\ events' = events
  BY Zenon DEF feed, End, Of

(* Every step of a request keeps Serial. *)
LEMMA RequestSerial ==
    ASSUME FiniteSetLaws, ~Postgres, Base, Serial, NEW a \in Agents, Request(a)
    PROVE  Serial'
  <1> Typed /\ FeedOK
    BY Zenon DEF Base
  <1>1. ASSUME NEW s \in Subscriptions, ResetBegin(a, s) PROVE Serial'
    <2>1. UNCHANGED <<feed, queue, finished>> /\ UNCHANGED <<subs, queue, finished, prep>>
      BY Zenon, <1>1 DEF ResetBegin
    <2>2. /\ Moves(a) /\ txn'[a].op = "reset" /\ txn'[a].step = "floor" /\ txn'[a].sub = s
          /\ txn'[a].row = subs[s] /\ txn'[a].tenant = subs[s].tenant /\ txn'[a].began = End
      BY Zenon, <1>1, ResetBeginFacts
    <2>3. OthersIdle(a)
      BY Zenon, <1>1, AloneIdle DEF ResetBegin
    <2>4. StillTrue(a)'
      BY Zenon, <2>1, <2>2, SameReads DEF StillTrue
    <2> QED
      BY Zenon, <2>1, <2>2, <2>3, <2>4, SerialTxn
  <1>2. ASSUME NEW s \in Subscriptions, DeleteBegin(a, s) PROVE Serial'
    <2>1. UNCHANGED <<feed, queue, finished>> /\ UNCHANGED <<subs, queue, finished, prep>>
      BY Zenon, <1>2 DEF DeleteBegin
    <2>2. /\ Moves(a) /\ txn'[a].op = "delete" /\ txn'[a].step = "drop" /\ txn'[a].sub = s
          /\ txn'[a].row = subs[s] /\ txn'[a].tenant = subs[s].tenant /\ Exists(s)
      BY Zenon, <1>2, DeleteBeginFacts
    <2>3. OthersIdle(a)
      BY Zenon, <1>2, AloneIdle DEF DeleteBegin
    <2>4. subs[s] # NoRow
      BY <2>2, NoRowFacts DEF Exists
    <2>5. StillTrue(a)'
      BY Zenon, <2>1, <2>2, <2>4, SameReads DEF StillTrue
    <2> QED
      BY Zenon, <2>1, <2>2, <2>3, <2>5, SerialTxn
  <1>3. ASSUME NEW s \in Subscriptions, NEW t \in Tenants, NEW types \in Filters,
               NEW enabled \in BOOLEAN, PutBegin(a, s, t, types, enabled)
        PROVE  Serial'
    <2>1. UNCHANGED <<feed, queue, finished>> /\ UNCHANGED <<subs, queue, finished, prep>>
      BY Zenon, <1>3 DEF PutBegin
    <2>2. /\ Moves(a) /\ txn'[a].op = "put" /\ txn'[a].sub = s /\ txn'[a].row = subs[s]
          /\ txn'[a].step = (IF Exists(s) THEN "write" ELSE "floor")
          /\ ~Exists(s) => txn'[a].began = End
      BY <1>3, PutBeginFacts
    <2>3. OthersIdle(a)
      BY Zenon, <1>3, AloneIdle DEF PutBegin
    <2>4. subs[s] = NoRow => ~Exists(s)
      BY NoRowFacts DEF Exists
    <2>5. StillTrue(a)'
      BY Zenon, <2>1, <2>2, <2>4, SameReads DEF StillTrue
    <2> QED
      BY Zenon, <2>1, <2>2, <2>3, <2>5, SerialTxn
  <1>4. ASSUME txn[a] \in Txn PROVE OthersIdle(a) /\ StillTrue(a)
    BY Zenon, <1>4, OnlyOne, TxnFields DEF Serial
  <1>5. CASE HorizonFloor(a)
    <2>1. UNCHANGED <<feed, queue, finished>> /\ UNCHANGED <<subs, queue, finished, prep>>
      BY Zenon, <1>5 DEF HorizonFloor
    <2>2. GoesOn(a) /\ txn'[a].step = "max" /\ txn'[a].floor = floor
      BY Zenon, <1>5, HorizonFloorFacts
    <2>3. OthersIdle(a) /\ StillTrue(a)
      BY Zenon, <1>4, <2>2 DEF GoesOn
    <2>4. StillTrue(a)'
      BY Zenon, <2>1, <2>2, <2>3, SameReads DEF StillTrue, GoesOn
    <2> QED
      BY Zenon, <2>1, <2>2, <2>3, <2>4, SerialTxn DEF GoesOn
  <1>6. CASE HorizonMax(a)
    <2>1. UNCHANGED <<feed, queue, finished>> /\ UNCHANGED <<subs, queue, finished, prep>>
      BY Zenon, <1>6 DEF HorizonMax
    <2>2. /\ GoesOn(a) /\ txn[a].step = "max"
          /\ txn'[a].step = (IF txn[a].op = "put" THEN "write" ELSE "drop")
          /\ txn'[a].horizon = Higher(Highest(Sequences(events)), txn[a].floor)
      BY Zenon, <1>6, HorizonMaxFacts
    <2>3. OthersIdle(a) /\ StillTrue(a)
      BY Zenon, <1>4, <2>2 DEF GoesOn
    <2>4. txn[a].op = "reset" \/ txn[a].row = NoRow => txn'[a].horizon = End
      BY Zenon, <2>2, <2>3 DEF StillTrue, End
    <2>5. StillTrue(a)'
      BY Zenon, <2>1, <2>2, <2>3, <2>4, SameReads DEF StillTrue, GoesOn
    <2> QED
      BY Zenon, <2>1, <2>2, <2>3, <2>5, SerialTxn DEF GoesOn
  <1>7. CASE Drop(a)
    <2>1. UNCHANGED <<feed, queue, finished>> /\ UNCHANGED <<subs, queue, finished, prep>>
      BY Zenon, <1>7 DEF Drop
    <2>2. /\ GoesOn(a) /\ txn[a].step = "drop" /\ txn'[a].step = "write"
          /\ txn'[a].doomed = Of(txn[a].sub) /\ txn'[a].horizon = txn[a].horizon
      BY Zenon, <1>7, DropFacts
    <2>3. OthersIdle(a) /\ StillTrue(a)
      BY Zenon, <1>4, <2>2 DEF GoesOn
    <2>4. StillTrue(a)'
      BY Zenon, <2>1, <2>2, <2>3, SameReads DEF StillTrue, GoesOn
    <2> QED
      BY Zenon, <2>1, <2>2, <2>3, <2>4, SerialTxn DEF GoesOn
  <1>8. CASE Abort(a)
    <2>1. Moves(a) /\ txn'[a] = NoTxn
      BY Zenon, <1>8, EndTxnFacts DEF Abort
    <2>2. OthersIdle(a)
      BY Zenon, <1>8, OnlyOne DEF Abort
    <2> QED
      BY Zenon, <1>8, <2>1, <2>2, SerialTxn DEF Abort
  <1>9. PICK s : s = txn[a].sub
    BY Zenon
  <1>10. NoOrphans
    BY Zenon DEF Serial
  <1>11. CASE PutCreate(a)
    <2>1. Writes(a) /\ OnlyRow(s) /\ subs'[s].revision = 1 /\ UNCHANGED <<prep, queue, finished>>
      BY Zenon, <1>9, <1>11, PutCreateFacts DEF PutCreate
    <2>2. subs'[s].revision > 0
      BY <2>1
    <2>3. NoOrphans'
      BY Zenon, <1>10, <2>1, <2>2, OrphansKept
    <2> QED
      BY Zenon, <2>1, <2>3, SerialWrite
  <1>12. CASE PutUpdate(a)
    <2>1. Writes(a) /\ Rewrites(s) /\ UNCHANGED <<prep, queue, finished>> /\ UNCHANGED born
      BY Zenon, <1>9, <1>12, PutUpdateFacts DEF PutUpdate
    <2>2. OnlyRow(s) /\ subs'[s].revision > 0
      BY Zenon, <2>1, Survives
    <2>3. NoOrphans'
      BY Zenon, <1>10, <2>1, <2>2, OrphansKept
    <2> QED
      BY Zenon, <2>1, <2>3, SerialWrite
  <1>13. CASE ResetWrite(a)
    <2>1. /\ Writes(a) /\ Rewrites(s) /\ UNCHANGED prep /\ UNCHANGED born
          /\ queue' \subseteq queue /\ finished' \subseteq finished
      BY Zenon, <1>9, <1>13, ResetWriteFacts DEF ResetWrite
    <2>2. OnlyRow(s) /\ subs'[s].revision > 0
      BY Zenon, <2>1, Survives
    <2>3. NoOrphans'
      BY Zenon, <1>10, <2>1, <2>2, OrphansKept
    <2> QED
      BY Zenon, <2>1, <2>3, SerialWrite
  <1>14. CASE DeleteWrite(a)
    <2>1. /\ Writes(a) /\ OnlyRow(s) /\ UNCHANGED prep
          /\ queue' = queue \ txn[a].doomed /\ finished' = finished \ txn[a].doomed
      BY Zenon, <1>9, <1>14, DeleteWriteFacts DEF DeleteWrite
    <2>2. txn[a].op # "put" /\ txn[a].step = "write" /\ txn[a] \in Txn
      BY Zenon, <2>1, <1>14 DEF DeleteWrite, Writes
    <2>3. txn[a].doomed = Of(s)
      BY Zenon, <1>4, <1>9, <2>2 DEF StillTrue
    <2>4. \A d \in queue' \cup finished' : d \in queue \cup finished /\ d[1] # s
      BY Zenon, <2>1, <2>3 DEF Of
    <2>5. \A d \in queue \cup finished : d[1] \in Subscriptions
      BY Zenon DEF Typed, Deliveries
    <2>6. NoOrphans'
      BY Zenon, <1>10, <2>1, <2>4, <2>5 DEF NoOrphans, Exists, OnlyRow
    <2>7. queue' \subseteq queue
      BY Zenon, <2>1
    <2> QED
      BY Zenon, <2>1, <2>6, <2>7, SerialWrite
  <1> QED
    BY <1>1, <1>2, <1>3, <1>5, <1>6, <1>7, <1>8, <1>11, <1>12, <1>13, <1>14 DEF Request
(* What a round inserts fits into the capacities, since it counted exactly. *)
LEMMA AdvanceSerial ==
    ASSUME FiniteSetLaws, Base, Serial, NEW p \in Preparers, InTxn(p),
           NEW position \in Nat, NEW state \in States, NEW ds, IsFiniteSet(ds),
           \A d \in ds : d[1] = prep[p].sub,
           ds # {} => /\ Cardinality(queue) + Cardinality(ds) <= QueueCapacity
                      /\ Cardinality(Own(prep[p].sub)) + Cardinality(ds) <= OwnCapacity,
           Advance(p, position, state, ds), UNCHANGED <<feed, finished, born, txn>>
    PROVE  Serial'
  <1>1. prep[p].sub \in Subscriptions
    BY Zenon, RoundSub
  <1>2. Leaves(p) /\ (Advances(p, position, state, ds) \/ UNCHANGED <<subs, queue>>)
    BY Zenon, <1>1, AdvanceFacts DEF Base
  <1>3. PrepMoves(p) /\ prep'[p].step # "advance"
    BY Zenon, <1>2, NoPrepFacts DEF Leaves
  <1>4. OthersIdle(p) /\ Typed
    BY Zenon, OnlyOne DEF Base
  <1>5. CASE ds = {} \/ UNCHANGED <<subs, queue>>
    <2>1. UNCHANGED queue
      BY Zenon, <1>2, <1>5 DEF Advances
    <2>2. NoOrphans'
      <3>1. CASE UNCHANGED <<subs, queue>>
        BY Zenon, <3>1 DEF Serial, NoOrphans, Exists
      <3>2. CASE Advances(p, position, state, ds)
        <4>1. PICK s : s = prep[p].sub
          BY Zenon
        <4>2. Rewrites(s)
          BY Zenon, <3>2, <4>1 DEF Advances
        <4>3. OnlyRow(s) /\ subs'[s].revision > 0
          BY Zenon, <4>2, Survives
        <4> QED
          BY Zenon, <2>1, <4>3, OrphansKept DEF Serial
      <3> QED
        BY Zenon, <1>2, <3>1, <3>2
    <2>3. QueueCapacityHolds' /\ OwnCapacityHolds'
      BY Zenon, <1>4, <2>1, CapacityKept DEF Serial
    <2>4. OthersIdle(p)'
      BY Zenon, <1>3, <1>4 DEF OthersIdle, InTxn, PrepMoves
    <2> QED
      BY Zenon, <1>3, <2>2, <2>3, <2>4, SerialStep, ActorsAssumption
  <1>6. CASE ds # {} /\ Advances(p, position, state, ds)
    <2>1. PICK s : s = prep[p].sub
      OBVIOUS
    <2>2. Rewrites(s) /\ queue' = queue \cup ds
      BY Zenon, <1>6, <2>1 DEF Advances
    <2>3. OnlyRow(s) /\ subs'[s].revision > 0
      BY Zenon, <2>2, Survives
    <2>4. NoOrphans'
      BY Zenon, <2>1, <2>2, <2>3, NoNewOrphans DEF Serial
    <2>5. /\ IsFiniteSet(queue) /\ IsFiniteSet(queue') /\ IsFiniteSet(Own(s)) /\ IsFiniteSet(Own(s)')
          /\ Cardinality(queue') <= Cardinality(queue) + Cardinality(ds)
      <3>1. IsFiniteSet(queue) /\ IsFiniteSet(queue')
            /\ Cardinality(queue') <= Cardinality(queue) + Cardinality(ds)
        BY Zenon, <1>4, <2>2, UnionIsFinite DEF Typed
      <3> QED
        BY Zenon, <3>1, PartIsFinite DEF Own
    <2>6. Own(s)' = Own(s) \cup ds /\ \A u : u # s => Own(u)' = Own(u)
      BY Zenon, <2>1, <2>2 DEF Own
    <2>7. Cardinality(Own(s)') <= Cardinality(Own(s)) + Cardinality(ds)
      BY Zenon, <2>5, <2>6, UnionIsFinite
    <2>8. /\ Cardinality(queue) \in Nat /\ Cardinality(queue') \in Nat /\ Cardinality(ds) \in Nat
          /\ Cardinality(Own(s)) \in Nat /\ Cardinality(Own(s)') \in Nat
          /\ QueueCapacity \in Nat /\ OwnCapacity \in Nat
      BY Zenon, <2>5, SizeIsNatural, CapacityAssumption
    <2>9. Cardinality(queue') <= QueueCapacity /\ Cardinality(Own(s)') <= OwnCapacity
      BY <1>6, <2>1, <2>5, <2>7, <2>8
    <2>10. QueueCapacityHolds' /\ OwnCapacityHolds'
      BY Zenon, <2>6, <2>9 DEF Serial, QueueCapacityHolds, OwnCapacityHolds, Own
    <2>11. OthersIdle(p)'
      BY Zenon, <1>3, <1>4 DEF OthersIdle, InTxn, PrepMoves
    <2> QED
      BY Zenon, <1>3, <2>4, <2>10, <2>11, SerialStep, ActorsAssumption
  <1> QED
    BY Zenon, <1>2, <1>5, <1>6

(* Every step of a round keeps Serial. *)
LEMMA RoundSerial ==
    ASSUME FiniteSetLaws, ~Postgres, Base, Serial, NEW p \in Preparers, Round(p)
    PROVE  Serial'
  <1> Typed /\ FeedOK
    BY Zenon DEF Base
  <1>1. ASSUME Alone(p), PrepMoves(p), UNCHANGED <<subs, queue, finished, txn>>,
               prep'[p].step # "advance"
        PROVE  Serial'
    BY Zenon, <1>1, AloneIdle, SerialRound
  <1>2. CASE RoundFloor(p)
    BY Zenon, <1>1, <1>2, RoundFloorFacts DEF RoundFloor
  <1>3. CASE RoundMax(p)
    BY Zenon, <1>1, <1>3, RoundMaxFacts DEF RoundMax
  <1>4. CASE RoundList(p)
    BY Zenon, <1>1, <1>4, RoundListFacts, NoPrepFacts DEF RoundList
  <1>5. CASE PrepareRead(p)
    BY Zenon, <1>1, <1>5, PrepareReadFacts DEF PrepareRead
  <1>6. ASSUME InTxn(p) PROVE OthersIdle(p)
    BY Zenon, <1>6, OnlyOne
  <1>7. CASE PrepareFloor(p)
    <2>1. InTxn(p) /\ UNCHANGED <<feed, finished, born, txn>> /\ prep[p].row.position \in Nat
      BY Zenon, <1>7, RoundSub DEF PrepareFloor, InTxn
    <2>2. CASE Behind(p)
      <3>1. Advance(p, prep[p].row.position, "history_lost", {})
        BY Zenon, <1>7, <2>2 DEF PrepareFloor
      <3>2. IsFiniteSet({}) /\ "history_lost" \in States /\ \A d \in {} : d[1] = prep[p].sub
        BY Zenon, NoneIsFinite DEF States
      <3> QED
        BY Zenon, <2>1, <3>1, <3>2, AdvanceSerial
    <2>3. CASE ~Behind(p)
      <3>1. prep' = [prep EXCEPT ![p].step = "count"] /\ UNCHANGED <<subs, queue>>
        BY Zenon, <1>7, <2>3 DEF PrepareFloor
      <3> QED
        BY Zenon, <1>6, <2>1, <3>1, CountsNext, SerialRound
    <2> QED
      BY Zenon, <2>2, <2>3
  <1>8. CASE PrepareCount(p)
    <2>1. InTxn(p) /\ UNCHANGED <<subs, queue, finished, txn>>
      BY Zenon, <1>8 DEF PrepareCount, InTxn
    <2>2. /\ PrepMoves(p) /\ prep'[p].sub = prep[p].sub /\ prep'[p].queued = Cardinality(queue)
          /\ prep'[p].own = Cardinality({d \in queue : d[1] = prep[p].sub})
      BY Zenon, <1>8, PrepareCountFacts
    <2>3. Counted(p)'
      BY Zenon, <2>1, <2>2 DEF Counted, Own
    <2> QED
      BY Zenon, <1>6, <2>1, <2>2, <2>3, SerialRound
  <1>9. CASE PrepareAdvance(p)
    <2> DEFINE state == IF Blocked(p) = {} THEN "ready" ELSE "backpressure"
    <2>1. /\ prep[p].step = "advance" /\ InTxn(p) /\ UNCHANGED <<feed, finished, born, txn>>
          /\ Advance(p, Checkpoint(p), state, Insertions(p))
      BY Zenon, <1>9 DEF PrepareAdvance, InTxn
    <2>2. state \in States /\ Checkpoint(p) \in Nat
      BY Zenon, <2>1, RoundSub, CheckpointFacts DEF States
    <2>3. prep[p].queued = Cardinality(queue) /\ prep[p].own = Cardinality(Own(prep[p].sub))
      BY Zenon, <2>1 DEF Serial, Counted
    <2>4. /\ IsFiniteSet(Insertions(p)) /\ \A d \in Insertions(p) : d[1] = prep[p].sub
          /\ Insertions(p) # {} =>
                /\ Cardinality(queue) + Cardinality(Insertions(p)) <= QueueCapacity
                /\ Cardinality(Own(prep[p].sub)) + Cardinality(Insertions(p)) <= OwnCapacity
      BY Zenon, <2>1, <2>3, InsertionFacts
    <2> HIDE DEF state
    <2> QED
      BY Zenon, <2>1, <2>2, <2>4, AdvanceSerial
  <1>10. CASE RoundFails(p)
    <2>1. /\ Leaves(p) /\ PrepMoves(p) /\ UNCHANGED <<feed, queue, finished>>
          /\ UNCHANGED <<subs, queue, finished, txn>>
      BY Zenon, <1>10, RoundFailsFacts DEF RoundFails, Leaves
    <2>2. prep'[p].step \notin {"floor", "count", "advance"}
      BY Zenon, <2>1, NoPrepFacts DEF Leaves
    <2>3. PICK x \in Agents \cup Preparers \cup {"other"} : OthersIdle(x)
      BY Zenon DEF Serial
    <2>4. OthersIdle(x)'
      BY Zenon, <2>1, <2>2, <2>3 DEF OthersIdle, InTxn, PrepMoves
    <2>5. \A a \in Agents : txn'[a] # NoTxn => StillTrue(a)'
      BY Zenon, <2>1, SameReads DEF Serial, StillTrue
    <2>6. ASSUME NEW q \in Preparers, prep'[q].step = "advance" PROVE Counted(q)'
      <3>1. q # p /\ prep'[q] = prep[q]
        BY Zenon, <2>1, <2>2, <2>6 DEF PrepMoves
      <3>2. Counted(q)
        BY Zenon, <2>6, <3>1 DEF Serial
      <3> QED
        BY Zenon, <2>1, <3>1, <3>2 DEF Counted, Own
    <2>7. NoOrphans' /\ QueueCapacityHolds' /\ OwnCapacityHolds'
      BY Zenon, <2>1 DEF Serial, NoOrphans, Exists, QueueCapacityHolds, OwnCapacityHolds
    <2> QED
      BY Zenon, <2>3, <2>4, <2>5, <2>6, <2>7 DEF Serial
  <1> QED
    BY Zenon, <1>2, <1>3, <1>4, <1>5, <1>7, <1>8, <1>9, <1>10 DEF Round

(* Every step keeps Serial on SQLite. *)
LEMMA NextSerial ==
    ASSUME FiniteSetLaws, ~Postgres, Base, Serial, [Next]_vars
    PROVE  Serial'
  <1> Typed
    BY Zenon DEF Base
  <1>1. ASSUME Alone("other"), UNCHANGED <<subs, prep, txn>>,
               queue' \subseteq queue, finished' \subseteq queue \cup finished
        PROVE  Serial'
    BY Zenon, <1>1, AloneIdle, SerialQuiet
  <1>2. ASSUME NEW k \in Kinds, Publish(k) PROVE Serial'
    BY Zenon, <1>1, <1>2 DEF Publish
  <1>3. CASE Purge
    BY Zenon, <1>1, <1>3 DEF Purge
  <1>4. ASSUME NEW t \in Tenants, Switch(t) PROVE Serial'
    BY Zenon, <1>1, <1>4 DEF Switch
  <1>5. ASSUME NEW d \in queue, Finish(d) PROVE Serial'
    BY Zenon, <1>1, <1>5 DEF Finish
  <1>6. ASSUME NEW d \in finished, Forget(d) PROVE Serial'
    BY Zenon, <1>1, <1>6 DEF Forget
  <1>7. CASE UNCHANGED vars
    BY Zenon, <1>7 DEF vars, Serial, OthersIdle, InTxn, StillTrue, End, Of, Counted, Own, NoOrphans,
       Exists, QueueCapacityHolds, OwnCapacityHolds
  <1> QED
    BY Zenon, <1>2, <1>3, <1>4, <1>5, <1>6, <1>7, RequestSerial, RoundSerial DEF Next

(* Serial holds at the start. *)
LEMMA InitSerial == ASSUME FiniteSetLaws, Init PROVE Serial
  <1>1. /\ \A a \in Agents : txn[a] = NoTxn
        /\ \A p \in Preparers : prep[p].step = "idle"
    BY Zenon, NoPrepFacts DEF Init
  <1>2. OthersIdle("other")
    BY Zenon, <1>1 DEF OthersIdle, InTxn
  <1>3. queue = {} /\ finished = {} /\ \A s : Own(s) = {}
    BY Zenon DEF Init, Own
  <1>4. QueueCapacityHolds /\ OwnCapacityHolds
    BY <1>3, NoneIsFinite, CapacityAssumption DEF QueueCapacityHolds, OwnCapacityHolds, Own
  <1> QED
    BY Zenon, <1>1, <1>2, <1>3, <1>4 DEF Serial, NoOrphans
(* The steps that end the transaction of a: its own. *)
LEMMA EndsItself ==
    ASSUME Base, [Next]_vars, NEW a \in Agents, txn[a] # NoTxn, txn'[a] = NoTxn, subs' # subs
    PROVE  PutCreate(a) \/ PutUpdate(a) \/ ResetWrite(a) \/ DeleteWrite(a)
  <1> Typed /\ FeedOK
    BY Zenon DEF Base
  <1>1. txn' # txn
    BY Zenon
  <1>2. PICK b \in Agents : Request(b)
    BY Zenon, <1>1 DEF Next, vars, Publish, Purge, Switch, Finish, Forget, Round, RoundFloor, RoundMax,
       RoundList, PrepareRead, PrepareFloor, PrepareCount, PrepareAdvance, RoundFails
  <1>3. PutCreate(b) \/ PutUpdate(b) \/ ResetWrite(b) \/ DeleteWrite(b)
    BY Zenon, <1>2 DEF Request, ResetBegin, DeleteBegin, PutBegin, HorizonFloor, HorizonMax, Drop, Abort
  <1>4. Moves(b)
    BY Zenon, <1>3, EndTxnFacts DEF PutCreate, PutUpdate, ResetWrite, DeleteWrite
  <1> QED
    BY Zenon, <1>3, <1>4 DEF Moves

(* No step gives a created or reset subscription a position before the end. *)
LEMMA StartsStep ==
    ASSUME FiniteSetLaws, Base, Serial, [Next]_vars, NEW a \in Agents
    PROVE  StartsNoEarlier(a)
  <1> SUFFICES ASSUME txn[a].step = "write", txn'[a] = NoTxn, subs' # subs,
                      txn[a].op = "reset" \/ txn[a].row = NoRow
               PROVE  subs'[txn[a].sub].position >= txn[a].began
    BY Zenon DEF StartsNoEarlier
  <1> Typed /\ FeedOK
    BY Zenon DEF Base
  <1>1. txn[a] \in Txn /\ txn[a] # NoTxn
    BY Zenon, TxnKinds, TxnFields
  <1>2. StillTrue(a)
    BY Zenon, <1>1 DEF Serial
  <1>3. txn[a].horizon = txn[a].began /\ txn[a].began \in Nat /\ subs[txn[a].sub] = txn[a].row
    BY Zenon, <1>1, <1>2, TxnFields DEF StillTrue
  <1>4. ASSUME subs'[txn[a].sub].position = txn[a].horizon
        PROVE  subs'[txn[a].sub].position >= txn[a].began
    BY <1>3, <1>4
  <1>5. CASE PutCreate(a)
    BY Zenon, <1>4, <1>5, PutCreateFacts
  <1>6. CASE ResetWrite(a)
    BY Zenon, <1>4, <1>6, ResetWriteFacts
  <1>7. CASE PutUpdate(a)
    BY Zenon, <1>7 DEF PutUpdate
  <1>8. CASE DeleteWrite(a)
    <2>1. PICK s \in Subscriptions : s = txn[a].sub
      BY Zenon, <1>1, TxnFields
    <2>2. /\ OnlyRow(s) /\ txn[a].op = "delete"
          /\ subs'[s] = NoRow \/ subs'[s] = subs[s]
      BY Zenon, <1>8, <2>1, DeleteWriteFacts
    <2>3. subs[s] = NoRow
      BY Zenon, <1>3, <2>1, <2>2
    <2>4. \A u \in Subscriptions : subs'[u] = subs[u]
      BY Zenon, <2>2, <2>3 DEF OnlyRow
    <2>5. subs' = subs
      BY <2>2, <2>4 DEF OnlyRow, Typed
    <2> QED
      BY Zenon, <2>5
  <1> QED
    BY Zenon, <1>1, <1>5, <1>6, <1>7, <1>8, EndsItself
-----------------------------------------------------------------------------
(* Both databases, as long as no identifier is created a second time. *)

(* No identifier that was used is created again. *)
NewIdentifiers == \A s \in Subscriptions : ~Exists(s) /\ Exists(s)' => s \notin born

FreshIdentifiers == [][NewIdentifiers]_vars

(* The row of s was read as r: it is the row if it has its revision. *)
WasRead(s, r) ==
    Exists(s) => /\ r.revision <= subs[s].revision
                 /\ r.revision = subs[s].revision => subs[s] = r

FreshRequest(a) ==
    txn[a].op \in {"put", "reset"} /\ txn[a].row # NoRow =>
        txn[a].sub \in born /\ WasRead(txn[a].sub, txn[a].row)

(* A round whose subscription was not written since has not counted too few. *)
FreshRound(p) ==
    /\ \A i \in prep[p].todo : WasRead(i.sub, i.row)
    /\ InTxn(p) => WasRead(prep[p].sub, prep[p].row)
    /\ prep[p].step = "advance" /\ Current(prep[p].sub, prep[p].row)
          => Cardinality(Own(prep[p].sub)) <= prep[p].own

Fresh == /\ \A a \in Agents : FreshRequest(a)
         /\ \A p \in Preparers : FreshRound(p)
         /\ OwnCapacityHolds

(* Every row is kept, deleted, written under the next revision, or new; only  *)
(* the round that writes a row inserts deliveries for it.                     *)
RowsMove ==
    \A u \in Subscriptions :
        /\ \/ subs'[u] = subs[u]
           \/ ~Exists(u)'
           \/ Exists(u) /\ subs'[u].revision = subs[u].revision + 1
           \/ u \notin born
        /\ subs'[u] = subs[u] => Own(u)' \subseteq Own(u)

(* What was read of a row stays comparable while rows only move. *)
LEMMA ReadKept ==
    ASSUME Typed, RowsMove, NEW u \in Subscriptions, u \in born, NEW r \in Row, WasRead(u, r)
    PROVE  /\ WasRead(u, r)'
           /\ Exists(u)' /\ subs'[u].revision = r.revision => subs'[u] = subs[u]
  <1>1. subs[u].revision \in Nat /\ r.revision \in Nat
    BY Zenon, RowFields DEF Typed
  <1>2. CASE subs'[u] = subs[u]
    BY Zenon, <1>2 DEF WasRead, Exists
  <1>3. CASE ~Exists(u)'
    BY Zenon, <1>3 DEF WasRead
  <1>4. CASE Exists(u) /\ subs'[u].revision = subs[u].revision + 1
    <2>1. r.revision <= subs[u].revision
      BY Zenon, <1>4 DEF WasRead
    <2>2. r.revision <= subs'[u].revision /\ r.revision # subs'[u].revision
      BY <1>1, <1>4, <2>1
    <2> QED
      BY Zenon, <2>2 DEF WasRead
  <1> QED
    BY Zenon, <1>2, <1>3, <1>4 DEF RowsMove

(* A row that was just read. *)
LEMMA JustRead ==
    ASSUME Typed, NEW s \in Subscriptions, UNCHANGED subs
    PROVE  WasRead(s, subs[s]) /\ WasRead(s, subs[s])'
  <1>1. subs[s].revision \in Nat
    BY Zenon, RowFields DEF Typed
  <1>2. subs[s].revision <= subs[s].revision
    BY <1>1
  <1> QED
    BY Zenon, <1>2 DEF WasRead

(* A request that goes on with what it read stays fresh. *)
LEMMA RequestKept ==
    ASSUME Typed, RowsMove, born \subseteq born', NEW a \in Agents, FreshRequest(a),
           txn'[a].op = txn[a].op, txn'[a].sub = txn[a].sub, txn'[a].row = txn[a].row
    PROVE  FreshRequest(a)'
  <1> SUFFICES ASSUME txn[a].op \in {"put", "reset"}, txn[a].row # NoRow
               PROVE  txn'[a].sub \in born' /\ WasRead(txn[a].sub, txn[a].row)'
    BY Zenon DEF FreshRequest
  <1>1. PICK u \in Subscriptions, r \in Row : u = txn[a].sub /\ r = txn[a].row
    BY Zenon, TxnKinds, TxnFields
  <1>2. u \in born /\ WasRead(u, r)
    BY Zenon, <1>1 DEF FreshRequest
  <1>3. WasRead(u, r)'
    BY Zenon, <1>1, <1>2, ReadKept
  <1> QED
    BY Zenon, <1>1, <1>2, <1>3

(* What a round still has to prepare. *)
LEMMA TodoKept ==
    ASSUME Base, RowsMove, NEW p \in Preparers, FreshRound(p), NEW i \in prep[p].todo
    PROVE  WasRead(i.sub, i.row)'
  <1>1. PICK u \in Subscriptions, r \in Row : u = i.sub /\ r = i.row /\ u \in born
    BY Zenon DEF Base, RoundPlace, Listed
  <1>2. WasRead(u, r)'
    BY Zenon, <1>1, ReadKept DEF FreshRound, Base
  <1> QED
    BY Zenon, <1>1, <1>2

(* A round between two subscriptions stays fresh. *)
LEMMA BetweenFresh ==
    ASSUME Base, RowsMove, NEW p \in Preparers, FreshRound(p),
           prep'[p].todo \subseteq prep[p].todo, ~InTxn(p)'
    PROVE  FreshRound(p)'
  <1>1. \A i \in prep'[p].todo : WasRead(i.sub, i.row)'
    BY Zenon, TodoKept
  <1> QED
    BY Zenon, <1>1 DEF FreshRound, InTxn

(* A round that another step does not touch stays fresh. *)
LEMMA RoundFreshKept ==
    ASSUME FiniteSetLaws, Base, RowsMove, queue' \in SUBSET Deliveries, IsFiniteSet(queue'),
           NEW p \in Preparers, FreshRound(p), prep'[p] = prep[p]
    PROVE  FreshRound(p)'
  <1>1. CASE ~InTxn(p)
    BY Zenon, <1>1, BetweenFresh DEF InTxn
  <1>2. CASE InTxn(p)
    <2>1. PICK u \in Subscriptions, r \in Row : u = prep[p].sub /\ r = prep[p].row /\ u \in born
      BY Zenon, <1>2, RoundSub
    <2>2. /\ WasRead(u, r)'
          /\ Exists(u)' /\ subs'[u].revision = r.revision => subs'[u] = subs[u]
      BY Zenon, <1>2, <2>1, ReadKept DEF FreshRound, Base
    <2>3. ASSUME prep[p].step = "advance", Current(u, r)'
          PROVE  Cardinality(Own(u)') <= prep[p].own
      <3>1. subs'[u] = subs[u]
        BY Zenon, <2>2, <2>3 DEF Current
      <3>2. Current(u, r)
        BY Zenon, <2>3, <3>1 DEF Current, Exists
      <3>3. Cardinality(Own(u)) <= prep[p].own
        BY Zenon, <2>1, <2>3, <3>2 DEF FreshRound
      <3>4. IsFiniteSet(Own(u)) /\ IsFiniteSet(Own(u)') /\ Own(u)' \subseteq Own(u)
        BY Zenon, <3>1, PartIsFinite DEF Own, RowsMove, Base, Typed
      <3>5. /\ Cardinality(Own(u)') <= Cardinality(Own(u)) /\ Cardinality(Own(u)) \in Nat
            /\ Cardinality(Own(u)') \in Nat /\ prep[p].own \in Nat
        BY Zenon, <3>4, PartIsFinite, SizeIsNatural, PrepFields DEF Base
      <3> QED
        BY <3>3, <3>5
    <2>4. \A i \in prep'[p].todo : WasRead(i.sub, i.row)'
      BY Zenon, TodoKept
    <2> QED
      BY Zenon, <2>1, <2>2, <2>3, <2>4 DEF FreshRound
  <1> QED
    BY Zenon, <1>1, <1>2

(* What a step leaves to show. *)
LEMMA FreshParts ==
    ASSUME FiniteSetLaws, Base, Base', Fresh, RowsMove, born \subseteq born', OwnCapacityHolds',
           \A b \in Agents : txn'[b] = txn[b] \/ FreshRequest(b)',
           \A q \in Preparers : prep'[q] = prep[q] \/ FreshRound(q)'
    PROVE  Fresh'
  <1>1. queue' \in SUBSET Deliveries /\ IsFiniteSet(queue')
    BY Zenon DEF Base, Typed
  <1>2. ASSUME NEW b \in Agents PROVE FreshRequest(b)'
    <2>1. CASE txn'[b] = txn[b]
      BY Zenon, <2>1, RequestKept DEF Fresh, Base
    <2> QED
      BY Zenon, <2>1
  <1>3. ASSUME NEW q \in Preparers PROVE FreshRound(q)'
    <2>1. CASE prep'[q] = prep[q]
      BY Zenon, <1>1, <2>1, RoundFreshKept DEF Fresh
    <2> QED
      BY Zenon, <2>1
  <1> QED
    BY Zenon, <1>2, <1>3 DEF Fresh
(* Every step moves the rows that way. *)
LEMMA RewritesMove ==
    ASSUME NEW s, Rewrites(s), Typed, \A u : u # s => Own(u)' \subseteq Own(u)
    PROVE  RowsMove
  <1>1. subs'[s] # subs[s] /\ s \in Subscriptions
    <2>1. subs'[s].revision = subs[s].revision + 1 /\ s \in Subscriptions /\ subs[s].revision \in Nat
      BY Zenon, RowFields DEF Rewrites, OnlyRow, Typed
    <2> QED
      BY <2>1
  <1> QED
    BY Zenon, <1>1 DEF RowsMove, Rewrites, OnlyRow

(* Deliveries that leave the queue leave that of their subscription. *)
LEMMA QueueShrinks ==
    ASSUME queue' \subseteq queue
    PROVE  \A u : Own(u)' \subseteq Own(u)
  BY Zenon DEF Own

(* Rows that stay and a queue that shrinks are a move. *)
LEMMA StillMove ==
    ASSUME UNCHANGED subs, queue' \subseteq queue
    PROVE  RowsMove
  BY Zenon, QueueShrinks DEF RowsMove

(* An advance writes its subscription at a higher revision, or nothing. *)
LEMMA AdvanceMoves ==
    ASSUME Base, NEW p \in Preparers, InTxn(p), NEW position \in Nat, NEW state \in States,
           NEW ds, \A d \in ds : d[1] = prep[p].sub, Advance(p, position, state, ds)
    PROVE  RowsMove /\ Leaves(p) /\ (Advances(p, position, state, ds) \/ UNCHANGED <<subs, queue>>)
  <1>1. prep[p].sub \in Subscriptions /\ Typed
    BY Zenon, RoundSub DEF Base
  <1>2. Leaves(p) /\ (Advances(p, position, state, ds) \/ UNCHANGED <<subs, queue>>)
    BY Zenon, <1>1, AdvanceFacts
  <1>3. CASE UNCHANGED <<subs, queue>>
    BY Zenon, <1>2, <1>3, StillMove
  <1>4. CASE Advances(p, position, state, ds)
    <2>1. PICK s : s = prep[p].sub
      BY Zenon
    <2>2. Rewrites(s) /\ queue' = queue \cup ds
      BY Zenon, <1>4, <2>1 DEF Advances
    <2>3. \A u : u # s => Own(u)' \subseteq Own(u)
      BY Zenon, <2>1, <2>2 DEF Own
    <2> QED
      BY Zenon, <1>1, <1>2, <2>2, <2>3, RewritesMove
  <1> QED
    BY Zenon, <1>2, <1>3, <1>4

(* The round that advances a subscription. *)
AdvanceStep(p, position, state, ds) ==
    /\ InTxn(p) /\ position \in Nat /\ state \in States
    /\ ds \subseteq Deliveries /\ IsFiniteSet(ds) /\ \A d \in ds : d[1] = prep[p].sub
    /\ Advance(p, position, state, ds)
    /\ UNCHANGED <<feed, finished, born, txn>>

(* The round finds the floor past its position. *)
LEMMA FloorStep ==
    ASSUME FiniteSetLaws, Base, NEW p \in Preparers, PrepareFloor(p), Behind(p)
    PROVE  AdvanceStep(p, prep[p].row.position, "history_lost", {})
  <1>1. InTxn(p) /\ UNCHANGED <<feed, finished, born, txn>>
    BY Zenon DEF PrepareFloor, InTxn
  <1>2. Advance(p, prep[p].row.position, "history_lost", {})
    BY Zenon DEF PrepareFloor
  <1>3. prep[p].row.position \in Nat /\ "history_lost" \in States
    BY Zenon, <1>1, RoundSub DEF States
  <1>4. /\ {} \subseteq Deliveries /\ IsFiniteSet({}) /\ \A d \in {} : d[1] = prep[p].sub
    BY Zenon, NoneIsFinite
  <1> QED
    BY Zenon, <1>1, <1>2, <1>3, <1>4 DEF AdvanceStep

(* The state that PrepareAdvance writes. *)
NewState(p) == IF Blocked(p) = {} THEN "ready" ELSE "backpressure"

(* PrepareAdvance is an advance to the checkpoint with the insertions. *)
LEMMA LastStep ==
    ASSUME FiniteSetLaws, Base, NEW p \in Preparers, PrepareAdvance(p)
    PROVE  AdvanceStep(p, Checkpoint(p), NewState(p), Insertions(p))
  <1>1. /\ InTxn(p) /\ UNCHANGED <<feed, finished, born, txn>>
        /\ Advance(p, Checkpoint(p), NewState(p), Insertions(p))
    BY Zenon DEF PrepareAdvance, InTxn, NewState
  <1>2. NewState(p) \in States /\ Checkpoint(p) \in Nat
    BY Zenon, <1>1, RoundSub, CheckpointFacts DEF States, NewState, Base
  <1>3. /\ Insertions(p) \subseteq Deliveries /\ IsFiniteSet(Insertions(p))
        /\ \A d \in Insertions(p) : d[1] = prep[p].sub
    BY Zenon, <1>1, InsertionFacts
  <1> QED
    BY Zenon, <1>1, <1>2, <1>3 DEF AdvanceStep

(* Every advance of a round is a move that leaves its subscription. *)
LEMMA StepMoves ==
    ASSUME FiniteSetLaws, Base, NEW p \in Preparers, NEW position, NEW state, NEW ds,
           AdvanceStep(p, position, state, ds)
    PROVE  RowsMove /\ Leaves(p) /\ (Advances(p, position, state, ds) \/ UNCHANGED <<subs, queue>>)
  <1>1. position \in Nat /\ state \in States
    BY Zenon DEF AdvanceStep
  <1> QED
    BY Zenon, <1>1, AdvanceMoves DEF AdvanceStep
(* A request that begins, goes on or ends without a write. *)
LEMMA FreshTxn ==
    ASSUME FiniteSetLaws, Base, Base', Fresh, NEW a \in Agents, Moves(a), FreshRequest(a)',
           UNCHANGED <<subs, queue, born, prep>>
    PROVE  Fresh'
  <1>1. RowsMove /\ OwnCapacityHolds'
    BY Zenon, StillMove DEF Fresh, OwnCapacityHolds
  <1>2. \A b \in Agents : txn'[b] = txn[b] \/ FreshRequest(b)'
    BY Zenon DEF Moves
  <1> QED
    BY Zenon, <1>1, <1>2, FreshParts

(* A request ends with its write. *)
LEMMA FreshWrite ==
    ASSUME FiniteSetLaws, Base, Base', Fresh, NEW a \in Agents, Writes(a), RowsMove,
           queue' \subseteq queue, born \subseteq born', UNCHANGED prep
    PROVE  Fresh'
  <1>1. OwnCapacityHolds'
    BY Zenon, CapacityKept DEF Fresh, Base
  <1>2. FreshRequest(a)'
    BY Zenon, NoTxnFacts DEF FreshRequest, Writes
  <1>3. \A b \in Agents : txn'[b] = txn[b] \/ FreshRequest(b)'
    BY Zenon, <1>2 DEF Writes, Moves
  <1> QED
    BY Zenon, <1>1, <1>3, FreshParts

(* A round goes on without a write. *)
LEMMA FreshPrep ==
    ASSUME FiniteSetLaws, Base, Base', Fresh, NEW p \in Preparers, PrepMoves(p), FreshRound(p)',
           UNCHANGED <<subs, queue, born, txn>>
    PROVE  Fresh'
  <1>1. RowsMove /\ OwnCapacityHolds'
    BY Zenon, StillMove DEF Fresh, OwnCapacityHolds
  <1>2. \A q \in Preparers : prep'[q] = prep[q] \/ FreshRound(q)'
    BY Zenon DEF PrepMoves
  <1> QED
    BY Zenon, <1>1, <1>2, FreshParts

(* Every step of a request keeps Fresh. *)
LEMMA RequestFresh ==
    ASSUME FiniteSetLaws, Base, Base', Fresh, NewIdentifiers, NEW a \in Agents, Request(a)
    PROVE  Fresh'
  <1> Typed /\ FeedOK
    BY Zenon DEF Base
  <1>1. ASSUME NEW s \in Subscriptions, Moves(a), txn'[a].sub = s, txn'[a].row = subs[s],
               UNCHANGED <<subs, queue, born, prep>>
        PROVE  Fresh'
    <2>1. subs[s] # NoRow => s \in born
      BY Zenon DEF Base, RowsOK
    <2>2. WasRead(s, subs[s])'
      BY Zenon, <1>1, JustRead
    <2>3. FreshRequest(a)'
      BY Zenon, <1>1, <2>1, <2>2 DEF FreshRequest, WasRead, Exists
    <2> QED
      BY Zenon, <1>1, <2>3, FreshTxn
  <1>2. ASSUME NEW s \in Subscriptions, ResetBegin(a, s) PROVE Fresh'
    BY Zenon, <1>1, <1>2, ResetBeginFacts DEF ResetBegin
  <1>3. ASSUME NEW s \in Subscriptions, DeleteBegin(a, s) PROVE Fresh'
    BY Zenon, <1>1, <1>3, DeleteBeginFacts DEF DeleteBegin
  <1>4. ASSUME NEW s \in Subscriptions, NEW t \in Tenants, NEW types \in Filters,
               NEW enabled \in BOOLEAN, PutBegin(a, s, t, types, enabled)
        PROVE  Fresh'
    <2>1. Moves(a) /\ txn'[a].sub = s /\ txn'[a].row = subs[s]
      BY <1>4, PutBeginFacts
    <2> QED
      BY Zenon, <1>1, <1>4, <2>1 DEF PutBegin
  <1>5. ASSUME GoesOn(a), UNCHANGED <<subs, queue, born, prep>> PROVE Fresh'
    <2>1. RowsMove
      BY Zenon, <1>5, StillMove
    <2>2. FreshRequest(a)'
      BY Zenon, <1>5, <2>1, RequestKept DEF GoesOn, Fresh
    <2> QED
      BY Zenon, <1>5, <2>2, FreshTxn DEF GoesOn
  <1>6. CASE HorizonFloor(a)
    BY Zenon, <1>5, <1>6, HorizonFloorFacts DEF HorizonFloor
  <1>7. CASE HorizonMax(a)
    BY Zenon, <1>5, <1>7, HorizonMaxFacts DEF HorizonMax
  <1>8. CASE Drop(a)
    BY Zenon, <1>5, <1>8, DropFacts DEF Drop
  <1>9. CASE Abort(a)
    <2>1. Moves(a) /\ FreshRequest(a)'
      BY Zenon, <1>9, EndTxnFacts, NoTxnFacts DEF Abort, FreshRequest
    <2> QED
      BY Zenon, <1>9, <2>1, FreshTxn DEF Abort
  <1>10. PICK s : s = txn[a].sub
    BY Zenon
  <1>11. CASE PutCreate(a)
    <2>1. /\ Writes(a) /\ OnlyRow(s) /\ ~Exists(s) /\ subs'[s].revision = 1
          /\ born' = born \cup {s} /\ UNCHANGED <<prep, queue>>
      BY Zenon, <1>10, <1>11, PutCreateFacts DEF PutCreate
    <2>2. Exists(s)'
      BY <2>1 DEF Exists
    <2>3. s \notin born
      BY Zenon, <2>1, <2>2 DEF NewIdentifiers, OnlyRow
    <2>4. RowsMove
      BY Zenon, <2>1, <2>3, QueueShrinks DEF RowsMove, OnlyRow
    <2> QED
      BY Zenon, <2>1, <2>4, FreshWrite
  <1>12. CASE PutUpdate(a)
    <2>1. Writes(a) /\ Rewrites(s) /\ UNCHANGED <<prep, queue, born>>
      BY Zenon, <1>10, <1>12, PutUpdateFacts DEF PutUpdate
    <2>2. RowsMove
      BY Zenon, <2>1, QueueShrinks, RewritesMove
    <2> QED
      BY Zenon, <2>1, <2>2, FreshWrite
  <1>13. CASE ResetWrite(a)
    <2>1. Writes(a) /\ Rewrites(s) /\ UNCHANGED <<prep, born>> /\ queue' \subseteq queue
      BY Zenon, <1>10, <1>13, ResetWriteFacts DEF ResetWrite
    <2>2. RowsMove
      BY Zenon, <2>1, QueueShrinks, RewritesMove
    <2> QED
      BY Zenon, <2>1, <2>2, FreshWrite
  <1>14. CASE DeleteWrite(a)
    <2>1. /\ Writes(a) /\ OnlyRow(s) /\ (subs'[s] = NoRow \/ subs'[s] = subs[s])
          /\ UNCHANGED <<prep, born>> /\ queue' \subseteq queue
      BY Zenon, <1>10, <1>14, DeleteWriteFacts DEF DeleteWrite
    <2>2. ~(NoRow.revision > 0)
      BY NoRowFacts
    <2>3. RowsMove
      BY Zenon, <2>1, <2>2, QueueShrinks DEF RowsMove, OnlyRow, Exists
    <2> QED
      BY Zenon, <2>1, <2>3, FreshWrite
  <1> QED
    BY Zenon, <1>2, <1>3, <1>4, <1>6, <1>7, <1>8, <1>9, <1>11, <1>12, <1>13, <1>14 DEF Request

(* The round that advances a subscription counted its deliveries since the    *)
(* last write: what it inserts fits.                                          *)
LEMMA AdvanceFresh ==
    ASSUME FiniteSetLaws, Base, Base', Fresh, NEW p \in Preparers, NEW position, NEW state, NEW ds,
           AdvanceStep(p, position, state, ds),
           ds # {} => /\ prep[p].step = "advance"
                      /\ prep[p].own + Cardinality(ds) <= OwnCapacity
    PROVE  Fresh'
  <1>1. /\ RowsMove /\ Leaves(p) /\ UNCHANGED <<born, txn>> /\ Typed
        /\ Advances(p, position, state, ds) \/ UNCHANGED <<subs, queue>>
    BY Zenon, StepMoves DEF AdvanceStep, Base
  <1>2. prep'[p].todo \subseteq prep[p].todo /\ ~InTxn(p)' /\ PrepMoves(p)
    BY Zenon, <1>1, NoPrepFacts DEF Leaves, InTxn
  <1>3. FreshRound(p)'
    BY Zenon, <1>1, <1>2, BetweenFresh DEF Fresh
  <1>4. OwnCapacityHolds'
    <2>1. CASE ds = {} \/ UNCHANGED <<subs, queue>>
      BY Zenon, <1>1, <2>1 DEF Advances, Fresh, OwnCapacityHolds
    <2>2. CASE ds # {} /\ Advances(p, position, state, ds)
      <3>1. PICK s : s = prep[p].sub
        BY Zenon
      <3>2. Current(s, prep[p].row) /\ queue' = queue \cup ds /\ \A d \in ds : d[1] = s
        BY Zenon, <2>2, <3>1 DEF Advances, AdvanceStep
      <3>3. Cardinality(Own(s)) <= prep[p].own
        BY Zenon, <2>2, <3>1, <3>2 DEF Fresh, FreshRound
      <3>4. Own(s)' = Own(s) \cup ds /\ \A u : u # s => Own(u)' = Own(u)
        BY Zenon, <3>2 DEF Own
      <3>5. IsFiniteSet(Own(s)) /\ IsFiniteSet(ds)
        BY Zenon, <1>1, PartIsFinite DEF Own, Typed, AdvanceStep
      <3>6. /\ Cardinality(Own(s)') <= Cardinality(Own(s)) + Cardinality(ds)
            /\ Cardinality(Own(s)') \in Nat /\ Cardinality(Own(s)) \in Nat
            /\ Cardinality(ds) \in Nat /\ prep[p].own \in Nat /\ OwnCapacity \in Nat
        BY Zenon, <1>1, <3>4, <3>5, UnionIsFinite, SizeIsNatural, PrepFields, CapacityAssumption
      <3>7. Cardinality(Own(s)') <= OwnCapacity
        BY <2>2, <3>3, <3>6
      <3> QED
        BY Zenon, <3>4, <3>7 DEF Fresh, OwnCapacityHolds, Own
    <2> QED
      BY Zenon, <1>1, <2>1, <2>2
  <1>5. /\ \A b \in Agents : txn'[b] = txn[b] \/ FreshRequest(b)'
        /\ \A q \in Preparers : prep'[q] = prep[q] \/ FreshRound(q)'
    BY Zenon, <1>1, <1>2, <1>3 DEF PrepMoves
  <1> QED
    BY Zenon, <1>1, <1>4, <1>5, FreshParts
(* Every step of a round keeps Fresh. *)
LEMMA RoundFresh ==
    ASSUME FiniteSetLaws, Base, Base', Fresh, NEW p \in Preparers, Round(p)
    PROVE  Fresh'
  <1> Typed /\ FeedOK /\ FreshRound(p)
    BY Zenon DEF Base, Fresh
  <1>1. ASSUME PrepMoves(p), UNCHANGED <<subs, queue, born, txn>>,
               prep'[p].todo \subseteq prep[p].todo, ~InTxn(p)'
        PROVE  Fresh'
    BY Zenon, <1>1, StillMove, BetweenFresh, FreshPrep
  <1>2. ASSUME PrepMoves(p), UNCHANGED <<subs, queue, born, txn>>, prep'[p].step # "advance",
               \A i \in prep'[p].todo : WasRead(i.sub, i.row),
               InTxn(p)' => WasRead(prep'[p].sub, prep'[p].row)
        PROVE  Fresh'
    <2>1. FreshRound(p)'
      BY Zenon, <1>2 DEF FreshRound, WasRead, Exists
    <2> QED
      BY Zenon, <1>2, <2>1, FreshPrep
  <1>3. CASE RoundFloor(p)
    BY Zenon, <1>1, <1>3, RoundFloorFacts DEF RoundFloor, InTxn
  <1>4. CASE RoundMax(p)
    BY Zenon, <1>1, <1>4, RoundMaxFacts DEF RoundMax, InTxn
  <1>5. CASE RoundList(p)
    <2>1. /\ PrepMoves(p) /\ UNCHANGED <<subs, queue, born, txn>>
          /\ prep'[p].step # "advance" /\ ~InTxn(p)'
      BY Zenon, <1>5, RoundListFacts, NoPrepFacts DEF RoundList, InTxn
    <2>2. \A i \in prep'[p].todo : i.sub \in Subscriptions /\ i.row = subs[i.sub]
      BY Zenon, <1>5, RoundListFacts, NoPrepFacts
    <2>3. \A i \in prep'[p].todo : WasRead(i.sub, i.row)
      BY Zenon, <2>1, <2>2, JustRead
    <2> QED
      BY Zenon, <1>2, <2>1, <2>3
  <1>6. CASE PrepareRead(p)
    <2>1. /\ PrepMoves(p) /\ UNCHANGED <<subs, queue, born, txn>>
          /\ prep'[p].step # "advance" /\ prep'[p].todo \subseteq prep[p].todo
          /\ \E i \in prep[p].todo : prep'[p].sub = i.sub /\ prep'[p].row = i.row
      BY Zenon, <1>6, PrepareReadFacts DEF PrepareRead
    <2>2. /\ \A i \in prep'[p].todo : WasRead(i.sub, i.row)
          /\ WasRead(prep'[p].sub, prep'[p].row)
      BY Zenon, <2>1 DEF FreshRound
    <2> QED
      BY Zenon, <1>2, <2>1, <2>2
  <1>7. CASE PrepareFloor(p)
    <2>1. CASE Behind(p)
      <3>1. PICK ds : ds = {}
        BY Zenon
      <3>2. AdvanceStep(p, prep[p].row.position, "history_lost", ds)
        BY Zenon, <1>7, <2>1, <3>1, FloorStep
      <3> QED
        BY Zenon, <3>1, <3>2, AdvanceFresh
    <2>2. CASE ~Behind(p)
      <3>1. /\ prep' = [prep EXCEPT ![p].step = "count"] /\ UNCHANGED <<subs, queue, born, txn>>
            /\ InTxn(p)
        BY Zenon, <1>7, <2>2 DEF PrepareFloor, InTxn
      <3>2. /\ PrepMoves(p) /\ prep'[p].step = "count" /\ prep'[p].todo = prep[p].todo
            /\ prep'[p].sub = prep[p].sub /\ prep'[p].row = prep[p].row
        BY Zenon, <3>1, CountsNext
      <3>3. /\ \A i \in prep'[p].todo : WasRead(i.sub, i.row)
            /\ WasRead(prep'[p].sub, prep'[p].row)
        BY Zenon, <3>1, <3>2 DEF FreshRound
      <3> QED
        BY Zenon, <1>2, <3>1, <3>2, <3>3
    <2> QED
      BY Zenon, <2>1, <2>2
  <1>8. CASE PrepareCount(p)
    <2>1. UNCHANGED <<subs, queue, born, txn>> /\ InTxn(p)
      BY Zenon, <1>8 DEF PrepareCount, InTxn
    <2>2. /\ PrepMoves(p) /\ prep'[p].todo = prep[p].todo /\ prep'[p].sub = prep[p].sub
          /\ prep'[p].row = prep[p].row
          /\ prep'[p].own = Cardinality({d \in queue : d[1] = prep[p].sub})
      BY Zenon, <1>8, PrepareCountFacts
    <2>3. Own(prep[p].sub) \subseteq queue
      BY Zenon DEF Own
    <2>4. Cardinality(Own(prep[p].sub)) \in Nat
      BY Zenon, <2>3, PartIsFinite, SizeIsNatural DEF Typed
    <2>5. Cardinality(Own(prep[p].sub)) <= Cardinality(Own(prep[p].sub))
      BY <2>4
    <2>6. FreshRound(p)'
      BY Zenon, <2>1, <2>2, <2>5 DEF FreshRound, WasRead, Exists, Own
    <2> QED
      BY Zenon, <2>1, <2>2, <2>6, FreshPrep
  <1>9. CASE PrepareAdvance(p)
    <2>1. prep[p].step = "advance" /\ InTxn(p)
      BY Zenon, <1>9 DEF PrepareAdvance, InTxn
    <2> QED
      BY Zenon, <1>9, <2>1, LastStep, InsertionFacts, AdvanceFresh
  <1>10. CASE RoundFails(p)
    <2>1. Leaves(p) /\ UNCHANGED <<subs, queue, born, txn>>
      BY Zenon, <1>10, RoundFailsFacts DEF RoundFails
    <2> QED
      BY Zenon, <1>1, <2>1, NoPrepFacts DEF Leaves, InTxn
  <1> QED
    BY Zenon, <1>3, <1>4, <1>5, <1>6, <1>7, <1>8, <1>9, <1>10 DEF Round

(* Every step keeps Fresh while it creates new identifiers only. *)
LEMMA NextFresh ==
    ASSUME FiniteSetLaws, Base, Base', Fresh, [Next]_vars, [NewIdentifiers]_vars
    PROVE  Fresh'
  <1>1. ASSUME UNCHANGED <<subs, born, prep, txn>>, queue' \subseteq queue
        PROVE  Fresh'
    BY Zenon, <1>1, StillMove, CapacityKept, FreshParts DEF Fresh, Base
  <1>2. ASSUME NEW k \in Kinds, Publish(k) PROVE Fresh'
    BY Zenon, <1>1, <1>2 DEF Publish
  <1>3. CASE Purge
    BY Zenon, <1>1, <1>3 DEF Purge
  <1>4. ASSUME NEW t \in Tenants, Switch(t) PROVE Fresh'
    BY Zenon, <1>1, <1>4 DEF Switch
  <1>5. ASSUME NEW d \in queue, Finish(d) PROVE Fresh'
    BY Zenon, <1>1, <1>5 DEF Finish
  <1>6. ASSUME NEW d \in finished, Forget(d) PROVE Fresh'
    BY Zenon, <1>1, <1>6 DEF Forget
  <1>7. CASE UNCHANGED vars
    BY Zenon, <1>1, <1>7 DEF vars
  <1>8. CASE NewIdentifiers
    BY Zenon, <1>2, <1>3, <1>4, <1>5, <1>6, <1>7, <1>8, RequestFresh, RoundFresh DEF Next
  <1> QED
    BY Zenon, <1>7, <1>8

(* Fresh holds at the start. *)
LEMMA InitFresh == ASSUME FiniteSetLaws, Init PROVE Fresh
  <1>1. /\ \A a \in Agents : txn[a] = NoTxn
        /\ \A p \in Preparers : prep[p] = NoPrep
    BY Zenon DEF Init
  <1>2. OwnCapacityHolds
    BY Zenon, InitSerial DEF Serial
  <1> QED
    BY Zenon, <1>1, <1>2, NoTxnFacts, NoPrepFacts DEF Fresh, FreshRequest, FreshRound, InTxn
(* Who writes a subscription. *)
LEMMA Writers ==
    ASSUME [Next]_vars, subs' # subs
    PROVE  \/ \E a \in Agents :
                 PutCreate(a) \/ PutUpdate(a) \/ ResetWrite(a) \/ DeleteWrite(a)
           \/ \E p \in Preparers : (PrepareFloor(p) /\ Behind(p)) \/ PrepareAdvance(p)
  <1>1. (\E a \in Agents : Request(a)) \/ (\E p \in Preparers : Round(p))
    BY Zenon DEF Next, vars, Publish, Purge, Switch, Finish, Forget
  <1>2. ASSUME NEW a \in Agents, Request(a)
        PROVE  PutCreate(a) \/ PutUpdate(a) \/ ResetWrite(a) \/ DeleteWrite(a)
    BY Zenon, <1>2 DEF Request, ResetBegin, DeleteBegin, PutBegin, HorizonFloor, HorizonMax, Drop, Abort
  <1>3. ASSUME NEW p \in Preparers, Round(p)
        PROVE  (PrepareFloor(p) /\ Behind(p)) \/ PrepareAdvance(p)
    BY Zenon, <1>3 DEF Round, RoundFloor, RoundMax, RoundList, PrepareRead, PrepareFloor, PrepareCount,
       RoundFails
  <1> QED
    BY Zenon, <1>1, <1>2, <1>3

(* The row a round or a request writes is the one it read. *)
LEMMA RequestRead ==
    ASSUME Base, Fresh, NEW a \in Agents, PutUpdate(a) \/ ResetWrite(a)
    PROVE  subs[txn[a].sub] = txn[a].row
  <1>1. /\ txn[a].op \in {"put", "reset"} /\ Current(txn[a].sub, txn[a].row)
    BY Zenon DEF PutUpdate, ResetWrite
  <1>2. txn[a].row # NoRow
    <2>1. CASE PutUpdate(a)
      BY Zenon, <2>1 DEF PutUpdate
    <2>2. CASE txn[a].row = NoRow
      <3>1. subs[txn[a].sub].revision = 0 /\ subs[txn[a].sub].revision > 0
        BY Zenon, <1>1, <2>2, NoRowFacts DEF Current, Exists
      <3> QED
        BY <3>1
    <2> QED
      BY Zenon, <2>2
  <1> QED
    BY Zenon, <1>1, <1>2 DEF Fresh, FreshRequest, WasRead, Current

(* A row whose revision a round finds unchanged is the row it listed. *)
LEMMA RoundRead ==
    ASSUME Fresh, NEW p \in Preparers, InTxn(p), Current(prep[p].sub, prep[p].row)
    PROVE  subs[prep[p].sub] = prep[p].row
  BY Zenon DEF Fresh, FreshRound, WasRead, Current

(* No step writes a row that changed since it was read. *)
LEMMA DetectStep ==
    ASSUME FiniteSetLaws, Base, Fresh, [Next]_vars
    PROVE  /\ \A p \in Preparers : RoundWroteWhatItRead(p)
           /\ \A a \in Agents : RequestWroteWhatItRead(a)
  <1> SUFFICES ASSUME subs' # subs
               PROVE  /\ \A p \in Preparers : RoundWroteWhatItRead(p)
                      /\ \A a \in Agents : RequestWroteWhatItRead(a)
    BY Zenon DEF RoundWroteWhatItRead, RequestWroteWhatItRead
  <1> Typed
    BY Zenon DEF Base
  <1>1. ASSUME NEW b \in Agents, PutCreate(b) \/ PutUpdate(b) \/ ResetWrite(b) \/ DeleteWrite(b)
        PROVE  /\ \A p \in Preparers : RoundWroteWhatItRead(p)
               /\ \A a \in Agents : RequestWroteWhatItRead(a)
    <2>1. UNCHANGED prep /\ Moves(b)
      BY Zenon, <1>1, EndTxnFacts DEF PutCreate, PutUpdate, ResetWrite, DeleteWrite
    <2>2. txn[b].op # "delete" => subs[txn[b].sub] = txn[b].row
      <3>1. CASE PutCreate(b)
        BY Zenon, <3>1, PutCreateFacts DEF Base, RowsOK, OnlyRow
      <3> QED
        BY Zenon, <1>1, <3>1, RequestRead DEF DeleteWrite
    <2> QED
      BY Zenon, <2>1, <2>2 DEF RoundWroteWhatItRead, RequestWroteWhatItRead, Moves
  <1>2. ASSUME NEW q \in Preparers, NEW position, NEW state, NEW ds,
               AdvanceStep(q, position, state, ds)
        PROVE  /\ \A p \in Preparers : RoundWroteWhatItRead(p)
               /\ \A a \in Agents : RequestWroteWhatItRead(a)
    <2>1. Leaves(q) /\ Advances(q, position, state, ds)
      BY Zenon, <1>2, StepMoves
    <2>2. subs[prep[q].sub] = prep[q].row
      BY Zenon, <1>2, <2>1, RoundRead DEF Advances, AdvanceStep
    <2> QED
      BY Zenon, <1>2, <2>1, <2>2
      DEF RoundWroteWhatItRead, RequestWroteWhatItRead, Leaves, PrepMoves, AdvanceStep
  <1> QED
    BY Zenon, <1>1, <1>2, Writers, FloorStep, LastStep

(* How the row of a subscription changes that stays: an update keeps its      *)
(* position and its state; a round advances it from the row it has read.      *)
LEMMA RowHistory ==
    ASSUME FiniteSetLaws, Base, Fresh, [Next]_vars, NEW s \in Subscriptions, Stays(s)
    PROVE  \/ subs'[s].position = subs[s].position /\ subs'[s].state = subs[s].state
           \/ \E p \in Preparers :
                 /\ InTxn(p) /\ prep[p].sub = s /\ prep[p].row = subs[s]
                 /\ \/ /\ subs'[s].position = subs[s].position
                       /\ subs'[s].state = "history_lost"
                    \/ /\ prep[p].step = "advance" /\ subs'[s].position = Checkpoint(p)
                       /\ queue' = queue \cup Insertions(p) /\ finished' = finished
  <1> Typed
    BY Zenon DEF Base
  <1> SUFFICES ASSUME subs'[s] # subs[s]
               PROVE  \/ subs'[s].position = subs[s].position /\ subs'[s].state = subs[s].state
                      \/ \E p \in Preparers :
                            /\ InTxn(p) /\ prep[p].sub = s /\ prep[p].row = subs[s]
                            /\ \/ /\ subs'[s].position = subs[s].position
                                  /\ subs'[s].state = "history_lost"
                               \/ /\ prep[p].step = "advance" /\ subs'[s].position = Checkpoint(p)
                                  /\ queue' = queue \cup Insertions(p) /\ finished' = finished
    BY Zenon
  <1>1. subs' # subs /\ Exists(s) /\ Exists(s)' /\ ~Resets(s)
    BY Zenon DEF Stays, Exists
  <1>2. ASSUME NEW a \in Agents, PutCreate(a) PROVE FALSE
    BY Zenon, <1>1, <1>2, PutCreateFacts DEF OnlyRow
  <1>3. ASSUME NEW a \in Agents, PutUpdate(a)
        PROVE  subs'[s].position = subs[s].position /\ subs'[s].state = subs[s].state
    <2>1. /\ Rewrites(txn[a].sub) /\ subs'[txn[a].sub].position = txn[a].row.position
          /\ subs'[txn[a].sub].state = txn[a].row.state
      BY Zenon, <1>3, PutUpdateFacts
    <2>2. txn[a].sub = s
      BY Zenon, <2>1 DEF Rewrites, OnlyRow
    <2> QED
      BY Zenon, <1>3, <2>1, <2>2, RequestRead
  <1>4. ASSUME NEW a \in Agents, ResetWrite(a) PROVE FALSE
    <2>1. Rewrites(txn[a].sub) /\ Writes(a) /\ txn[a].op = "reset"
      BY Zenon, <1>4, ResetWriteFacts
    <2>2. txn[a].sub = s
      BY Zenon, <2>1 DEF Rewrites, OnlyRow
    <2> QED
      BY Zenon, <1>1, <2>1, <2>2 DEF Resets, Writes
  <1>5. ASSUME NEW a \in Agents, DeleteWrite(a) PROVE FALSE
    <2>1. /\ OnlyRow(txn[a].sub)
          /\ subs'[txn[a].sub] = NoRow \/ subs'[txn[a].sub] = subs[txn[a].sub]
      BY Zenon, <1>5, DeleteWriteFacts
    <2>2. subs'[s] = NoRow
      BY Zenon, <2>1 DEF OnlyRow
    <2> QED
      BY <1>1, <2>2, NoRowFacts DEF Exists
  <1>6. ASSUME NEW p \in Preparers, NEW position, NEW state, NEW ds,
               AdvanceStep(p, position, state, ds)
        PROVE  /\ InTxn(p) /\ prep[p].sub = s /\ prep[p].row = subs[s]
               /\ subs'[s].position = position /\ subs'[s].state = state
               /\ queue' = queue \cup ds
    <2>1. Advances(p, position, state, ds) /\ InTxn(p)
      BY Zenon, <1>1, <1>6, StepMoves DEF AdvanceStep
    <2>2. prep[p].sub = s
      BY Zenon, <2>1 DEF Advances, Rewrites, OnlyRow
    <2> QED
      BY Zenon, <2>1, <2>2, RoundRead DEF Advances
  <1>7. ASSUME NEW p \in Preparers, PrepareFloor(p), Behind(p)
        PROVE  /\ InTxn(p) /\ prep[p].sub = s /\ prep[p].row = subs[s]
               /\ subs'[s].position = subs[s].position /\ subs'[s].state = "history_lost"
    BY Zenon, <1>6, <1>7, FloorStep
  <1>8. ASSUME NEW p \in Preparers, PrepareAdvance(p)
        PROVE  /\ InTxn(p) /\ prep[p].sub = s /\ prep[p].row = subs[s]
               /\ prep[p].step = "advance" /\ subs'[s].position = Checkpoint(p)
               /\ queue' = queue \cup Insertions(p) /\ finished' = finished
    BY Zenon, <1>6, <1>8, LastStep DEF PrepareAdvance
  <1> QED
    BY Zenon, <1>1, <1>2, <1>3, <1>4, <1>5, <1>7, <1>8, Writers
(* No step moves the position of a subscription back. *)
LEMMA PositionStep ==
    ASSUME FiniteSetLaws, Base, Fresh, [Next]_vars, NEW s \in Subscriptions, Stays(s)
    PROVE  subs[s].position <= subs'[s].position
  <1>1. subs[s].position \in Nat
    BY Zenon, RowFields DEF Base, Typed
  <1>2. CASE subs'[s].position = subs[s].position
    BY <1>1, <1>2
  <1>3. ASSUME NEW p \in Preparers, InTxn(p), prep[p].row = subs[s], subs'[s].position = Checkpoint(p)
        PROVE  subs[s].position <= subs'[s].position
    BY Zenon, <1>3, RoundSub, CheckpointFacts DEF Base
  <1> QED
    BY Zenon, <1>2, <1>3, RowHistory

(* No step but a reset forgets that history was lost. *)
LEMMA LossStep ==
    ASSUME FiniteSetLaws, Base, Fresh, [Next]_vars, NEW s \in Subscriptions, Stays(s),
           subs[s].state = "history_lost"
    PROVE  subs'[s].state = "history_lost"
  <1>1. ASSUME NEW p \in Preparers, InTxn(p) PROVE prep[p].row # subs[s]
    BY Zenon, <1>1, RoundSub
  <1> QED
    BY Zenon, <1>1, RowHistory

(* The events of its tenant up to the new position of a round: it has         *)
(* processed them all.                                                        *)
LEMMA ProcessedUpTo ==
    ASSUME FiniteSetLaws, Base, NEW p \in Preparers, prep[p].step = "advance", NEW e \in log,
           e.tenant = prep[p].row.tenant, prep[p].row.position < e.seq, e.seq <= Checkpoint(p)
    PROVE  e \in Processed(p)
  <1>1. InTxn(p) /\ Covers(p)
    BY Zenon DEF InTxn, Base, RoundPlace
  <1>2. /\ prep[p].rows \subseteq log /\ prep[p].row.position \in Nat /\ prep[p].horizon \in Nat
        /\ \A x \in prep[p].rows : x.seq <= prep[p].horizon
        /\ \A x \in log : x.seq \in Nat
    BY Zenon, <1>1, RoundSub, PrepFields, EndFacts DEF Base
  <1>3. CASE Blocked(p) = {} /\ Cardinality(prep[p].rows) < Budget
    <2>1. e.seq <= prep[p].horizon
      BY Zenon, <1>3 DEF Checkpoint
    <2>2. ~(Budget <= Cardinality(prep[p].rows))
      <3>1. Cardinality(prep[p].rows) \in Nat
        BY Zenon, <1>2, PartIsFinite, SizeIsNatural DEF Base, Typed
      <3> QED
        BY <1>3, <3>1, CapacityAssumption
    <2> QED
      BY Zenon, <1>1, <1>3, <2>1, <2>2 DEF Covers, Processed
  <1>4. CASE ~(Blocked(p) = {} /\ Cardinality(prep[p].rows) < Budget)
    <2> DEFINE h == Highest(Sequences(Processed(p)))
    <2>1. /\ h \in Nat
          /\ h # 0 => \E x \in Processed(p) : x.seq = h
      BY Zenon, <1>1, RoundSub, CheckpointFacts DEF Base
    <2>2. Checkpoint(p) = Higher(h, prep[p].row.position)
      BY Zenon, <1>4 DEF Checkpoint
    <2> HIDE DEF h
    <2>3. e.seq <= h /\ h # 0
      BY <1>2, <2>1, <2>2 DEF Higher
    <2>4. PICK x \in Processed(p) : x.seq = h
      BY Zenon, <2>1, <2>3
    <2>5. x \in prep[p].rows /\ \A b \in Blocked(p) : x.seq < b.seq
      BY Zenon DEF Processed
    <2>6. e.seq <= prep[p].horizon /\ ~(x.seq < e.seq)
      BY <1>2, <2>3, <2>4, <2>5
    <2>7. e \in prep[p].rows
      BY Zenon, <1>1, <2>5, <2>6 DEF Covers
    <2>8. ASSUME NEW b \in Blocked(p) PROVE e.seq < b.seq
      <3>1. x.seq < b.seq /\ b \in log
        BY Zenon, <1>2, <2>5 DEF Blocked
      <3>2. b.seq \in Nat /\ e.seq \in Nat
        BY Zenon, <1>2, <3>1
      <3> QED
        BY <2>1, <2>3, <2>4, <3>1, <3>2
    <2> QED
      BY Zenon, <2>7, <2>8 DEF Processed
  <1> QED
    BY Zenon, <1>3, <1>4

(* No step passes an event without its delivery. *)
LEMMA SkipStep ==
    ASSUME FiniteSetLaws, Base, Fresh, [Next]_vars, NEW s \in Subscriptions
    PROVE  SkipsNothing(s)
  <1> SUFFICES ASSUME Stays(s), NEW e \in log, subs[s].position < e.seq,
                      e.seq <= subs'[s].position, e.tenant = subs[s].tenant, Selects(subs[s], e)
               PROVE  <<s, e.seq>> \in queue' \cup finished'
    BY Zenon DEF SkipsNothing
  <1>1. subs'[s].position # subs[s].position
    <2>1. subs[s].position \in Nat /\ e.seq \in Nat
      BY Zenon, RowFields, EndFacts DEF Base, Typed
    <2> QED
      BY <2>1
  <1>2. PICK p \in Preparers :
           /\ prep[p].step = "advance" /\ prep[p].sub = s /\ prep[p].row = subs[s]
           /\ subs'[s].position = Checkpoint(p)
           /\ queue' = queue \cup Insertions(p) /\ finished' = finished
    BY Zenon, <1>1, RowHistory
  <1>3. e \in Processed(p) /\ e \in prep[p].rows
    BY Zenon, <1>2, ProcessedUpTo DEF Processed
  <1>4. CASE <<s, e.seq>> \in queue \cup finished
    BY Zenon, <1>2, <1>4
  <1>5. CASE <<s, e.seq>> \notin queue \cup finished
    BY Zenon, <1>2, <1>3, <1>5 DEF Missing, Insertions
  <1> QED
    BY Zenon, <1>4, <1>5
-----------------------------------------------------------------------------
(* Where no identifier is created a second time.                             *)

(* The identifier of a creation under way was never used. *)
Unused(a) ==
    txn[a].op = "put" =>
        /\ txn[a].tenant \in Tenants
        /\ txn[a].row = NoRow => txn[a].sub \notin born

(* One creation at a time: the database has one connection, or there is one   *)
(* tenant to lock.                                                            *)
OneCreation == ~Postgres \/ \A t, u \in Tenants : t = u

(* A request that moves leaves the identifiers of the others unused. *)
LEMMA UnusedMoves ==
    ASSUME NEW a \in Agents, Moves(a), UNCHANGED born, \A b \in Agents : Unused(b), Unused(a)'
    PROVE  \A b \in Agents : Unused(b)'
  BY Zenon DEF Unused, Moves

(* Every step keeps the identifiers of the creations under way unused. *)
LEMMA NextUnused ==
    ASSUME FiniteSetLaws, ~ReuseIds, OneCreation, Base, ~Postgres => Serial,
           \A a \in Agents : Unused(a), [Next]_vars
    PROVE  \A a \in Agents : Unused(a)'
  <1> Typed /\ FeedOK
    BY Zenon DEF Base
  <1>1. CASE UNCHANGED <<txn, born>>
    BY Zenon, <1>1 DEF Unused
  <1>2. ASSUME NEW a \in Agents, NEW s \in Subscriptions, NEW t \in Tenants,
               NEW types \in Filters, NEW enabled \in BOOLEAN, PutBegin(a, s, t, types, enabled)
        PROVE  \A b \in Agents : Unused(b)'
    <2>0. UNCHANGED born
      BY Zenon, <1>2 DEF PutBegin
    <2>1. Moves(a) /\ txn'[a].sub = s /\ txn'[a].tenant = t /\ txn'[a].row = subs[s]
      BY <1>2, PutBeginFacts
    <2>2. subs[s] = NoRow => s \notin born
      <3>1. subs[s] = NoRow => ~Exists(s)
        BY NoRowFacts DEF Exists
      <3> QED
        BY Zenon, <1>2, <3>1 DEF PutBegin
    <2> QED
      BY Zenon, <2>0, <2>1, <2>2, UnusedMoves DEF Unused
  <1>3. ASSUME NEW a \in Agents, NEW s \in Subscriptions, ResetBegin(a, s) \/ DeleteBegin(a, s)
        PROVE  \A b \in Agents : Unused(b)'
    <2>1. Moves(a) /\ txn'[a].op # "put" /\ UNCHANGED born
      BY Zenon, <1>3, ResetBeginFacts, DeleteBeginFacts DEF ResetBegin, DeleteBegin
    <2> QED
      BY Zenon, <2>1, UnusedMoves DEF Unused
  <1>4. ASSUME NEW a \in Agents, HorizonFloor(a) \/ HorizonMax(a) \/ Drop(a)
        PROVE  \A b \in Agents : Unused(b)'
    <2>1. GoesOn(a) /\ UNCHANGED born
      BY Zenon, <1>4, HorizonFloorFacts, HorizonMaxFacts, DropFacts DEF HorizonFloor, HorizonMax, Drop
    <2> QED
      BY Zenon, <2>1, UnusedMoves DEF Unused, GoesOn
  <1>5. ASSUME NEW a \in Agents, PutUpdate(a) \/ ResetWrite(a) \/ DeleteWrite(a) \/ Abort(a)
        PROVE  \A b \in Agents : Unused(b)'
    <2>1. Moves(a) /\ txn'[a] = NoTxn /\ UNCHANGED born
      BY Zenon, <1>5, EndTxnFacts DEF PutUpdate, ResetWrite, DeleteWrite, Abort
    <2> QED
      BY Zenon, <2>1, UnusedMoves, NoTxnFacts DEF Unused
  <1>6. ASSUME NEW a \in Agents, PutCreate(a)
        PROVE  \A b \in Agents : Unused(b)'
    <2>1. /\ Moves(a) /\ txn'[a] = NoTxn /\ txn[a].op = "put" /\ txn[a] # NoTxn
          /\ born' = born \cup {txn[a].sub} /\ txn[a].tenant \in Tenants
      BY Zenon, <1>6, PutCreateFacts, NoTxnFacts DEF Writes, Unused
    <2>2. ASSUME NEW b \in Agents \ {a} PROVE txn[b].op # "put"
      <3>1. CASE ~Postgres
        BY Zenon, <2>1, <3>1, OnlyOne, NoTxnFacts DEF OthersIdle
      <3>2. CASE \A t, u \in Tenants : t = u
        BY Zenon, <2>1, <3>2 DEF Base, CapOK, PutPlace, TenantLocked, Unused
      <3> QED
        BY Zenon, <3>1, <3>2 DEF OneCreation
    <2>3. Unused(a)'
      BY Zenon, <2>1, NoTxnFacts DEF Unused
    <2>4. ASSUME NEW b \in Agents \ {a} PROVE Unused(b)'
      <3>1. txn'[b] = txn[b] /\ txn[b].op # "put" /\ Unused(b)
        BY Zenon, <2>1, <2>2 DEF Moves
      <3> QED
        BY Zenon, <3>1 DEF Unused
    <2> QED
      BY Zenon, <2>3, <2>4
  <1> QED
    BY Zenon, <1>1, <1>2, <1>3, <1>4, <1>5, <1>6 DEF Next, vars, Publish, Purge, Switch, Finish, Forget,
       Request, Round, RoundFloor, RoundMax, RoundList, PrepareRead, PrepareFloor, PrepareCount,
       PrepareAdvance, RoundFails

(* A step from unused identifiers creates new ones only. *)
LEMMA UnusedStep ==
    ASSUME FiniteSetLaws, Base, \A a \in Agents : Unused(a), [Next]_vars
    PROVE  NewIdentifiers
  <1> SUFFICES ASSUME NEW s \in Subscriptions, ~Exists(s), Exists(s)', s \in born
               PROVE  FALSE
    BY Zenon DEF NewIdentifiers
  <1> Typed
    BY Zenon DEF Base
  <1>1. subs'[s] # subs[s] /\ subs' # subs
    BY Zenon DEF Exists
  <1>2. ASSUME NEW a \in Agents, PutCreate(a) PROVE FALSE
    BY Zenon, <1>1, <1>2, PutCreateFacts DEF OnlyRow, Unused
  <1>3. ASSUME NEW a \in Agents, PutUpdate(a) \/ ResetWrite(a) PROVE FALSE
    BY Zenon, <1>1, <1>3, PutUpdateFacts, ResetWriteFacts DEF Rewrites, OnlyRow
  <1>4. ASSUME NEW a \in Agents, DeleteWrite(a) PROVE FALSE
    <2>1. subs'[s] = NoRow
      BY Zenon, <1>1, <1>4, DeleteWriteFacts DEF OnlyRow
    <2> QED
      BY <2>1, NoRowFacts DEF Exists
  <1>5. ASSUME NEW p \in Preparers, NEW position, NEW state, NEW ds,
               AdvanceStep(p, position, state, ds)
        PROVE  FALSE
    BY Zenon, <1>1, <1>5, StepMoves DEF Advances, Rewrites, OnlyRow
  <1> QED
    BY Zenon, <1>1, <1>2, <1>3, <1>4, <1>5, Writers, FloorStep, LastStep
-----------------------------------------------------------------------------
(* The library of finite sets. *)
INSTANCE FiniteSetTheorems

(* A nonempty set of naturals has a least element. *)
LEMMA NaturalsHaveLeast ==
    ASSUME NEW S, S \subseteq Nat, S # {}
    PROVE  \E m \in S : \A y \in S : m <= y
  <1> DEFINE R == OpToRel(<, Nat)
  <1>1. IsWellFoundedOn(R, Nat)
    BY ZenonT(30), NatLessThanWellFounded
  <1> HIDE DEF R
  <1>2. PICK m \in S : \A y \in S : ~(<<y, m>> \in R)
    BY ZenonT(30), <1>1, WFMin
  <1>3. \A y \in S : ~(y < m)
    BY ZenonT(30), <1>2 DEF R, OpToRel
  <1> QED
    BY <1>3

(* The laws of finite sets that the steps use. *)
LEMMA LawsHold == FiniteSetLaws
  <1>1. IsFiniteSet({}) /\ Cardinality({}) = 0
    BY Zenon, FS_EmptySet
  <1>2. \A S : IsFiniteSet(S) => Cardinality(S) \in Nat
    BY Zenon, FS_CardinalityType
  <1>3. \A S : \A T \in SUBSET S :
           IsFiniteSet(S) => IsFiniteSet(T) /\ Cardinality(T) <= Cardinality(S)
    BY Zenon, FS_Subset
  <1>4. \A S, x : IsFiniteSet(S) =>
           /\ IsFiniteSet(S \cup {x})
           /\ x \notin S => Cardinality(S \cup {x}) = Cardinality(S) + 1
           /\ x \in S => Cardinality(S \ {x}) = Cardinality(S) - 1
    BY Zenon, FS_AddElement, FS_RemoveElement
  <1>5. ASSUME NEW S, NEW T, IsFiniteSet(S), IsFiniteSet(T)
        PROVE  IsFiniteSet(S \cup T) /\ Cardinality(S \cup T) <= Cardinality(S) + Cardinality(T)
    <2>1. /\ IsFiniteSet(S \cup T)
          /\ Cardinality(S \cup T) = Cardinality(S) + Cardinality(T) - Cardinality(S \cap T)
      BY Zenon, <1>5, FS_Union
    <2>2. S \cap T \subseteq S
      BY Zenon
    <2>3. Cardinality(S) \in Nat /\ Cardinality(T) \in Nat /\ Cardinality(S \cap T) \in Nat
      BY Zenon, <1>2, <1>3, <1>5, <2>2
    <2> QED
      BY <2>1, <2>3
  <1>6. ASSUME NEW S, NEW T, NEW f \in [S -> T], IsFiniteSet(S),
               \A y \in T : \E x \in S : f[x] = y
        PROVE  IsFiniteSet(T) /\ Cardinality(T) <= Cardinality(S)
    <2>1. f \in Surjection(S, T)
      BY Zenon, <1>6 DEF Surjection
    <2> QED
      BY Zenon, <1>6, <2>1, FS_Surjection
  <1>7. \A S \in SUBSET Nat : S # {} => \E m \in S : \A y \in S : m <= y
    BY Zenon, NaturalsHaveLeast
  <1> QED
    BY Zenon, <1>1, <1>2, <1>3, <1>4, <1>5, <1>6, <1>7 DEF FiniteSetLaws

(* Base holds in every reachable state. *)
LEMMA AlwaysBase == Spec => []Base
  <1>1. Init => Base
    BY Zenon, LawsHold, InitBase
  <1>2. Base /\ [Next]_vars => Base'
    BY Zenon, LawsHold, NextBase
  <1> QED
    BY <1>1, <1>2, PTL DEF Spec

(* No tenant has more subscriptions than the cap, however many requests       *)
(* create subscriptions at once: lockWebhookTenant makes the count and the    *)
(* insertion of one PutWebhook exclude those of the others.                   *)
THEOREM SubscriptionCap == Spec => []SubscriptionCapHolds
  <1>1. Base => SubscriptionCapHolds
    BY Zenon DEF Base, CapOK
  <1> QED
    BY <1>1, AlwaysBase, PTL

(* On SQLite Serial holds in every reachable state. *)
LEMMA AlwaysSerial == ASSUME ~Postgres PROVE Spec => []Serial
  <1>1. Init => Serial
    BY Zenon, LawsHold, InitSerial
  <1>2. Base /\ Serial /\ [Next]_vars => Serial'
    BY Zenon, LawsHold, NextSerial
  <1> QED
    BY <1>1, <1>2, AlwaysBase, PTL DEF Spec

(* On SQLite no delivery outlives its subscription: DeleteWebhook has the     *)
(* connection for itself from the deliveries it sees to the row it deletes.   *)
THEOREM SQLiteNoOrphans == ASSUME ~Postgres PROVE Spec => []NoOrphans
  <1>1. Serial => NoOrphans
    BY Zenon DEF Serial
  <1> QED
    BY <1>1, AlwaysSerial, PTL

(* On SQLite the deliveries waiting or in flight never exceed the capacity of *)
(* the instance, nor that of a subscription: the counts that prepareWebhook   *)
(* reads are exact when it inserts.                                           *)
THEOREM SQLiteQueueCapacity == ASSUME ~Postgres PROVE Spec => []QueueCapacityHolds
  <1>1. Serial => QueueCapacityHolds
    BY Zenon DEF Serial
  <1> QED
    BY <1>1, AlwaysSerial, PTL

(* On SQLite the capacity of a subscription holds even if clients create an   *)
(* identifier again.                                                          *)
THEOREM SQLiteOwnCapacity == ASSUME ~Postgres PROVE Spec => []OwnCapacityHolds
  <1>1. Serial => OwnCapacityHolds
    BY Zenon DEF Serial
  <1> QED
    BY <1>1, AlwaysSerial, PTL

(* On SQLite a subscription that is created or reset starts at the end of the *)
(* feed: the two statements of webhookHorizon see the same feed.              *)
THEOREM SQLiteStartsAtEnd == ASSUME ~Postgres PROVE Spec => StartsAtEnd
  <1>1. Base /\ Serial /\ [Next]_vars => [\A a \in Agents : StartsNoEarlier(a)]_vars
    BY Zenon, LawsHold, StartsStep
  <1> QED
    BY <1>1, AlwaysBase, AlwaysSerial, PTL DEF Spec, StartsAtEnd

(* While no identifier is created again, Fresh holds. *)
LEMMA AlwaysFresh == Spec /\ FreshIdentifiers => []Fresh
  <1>1. Init => Fresh
    BY Zenon, LawsHold, InitFresh
  <1>2. Base /\ Base' /\ Fresh /\ [Next]_vars /\ [NewIdentifiers]_vars => Fresh'
    BY Zenon, LawsHold, NextFresh
  <1> QED
    BY <1>1, <1>2, AlwaysBase, PTL DEF Spec, FreshIdentifiers

(* A subscription never has more deliveries waiting or in flight than its     *)
(* capacity, on both databases: two replicas that prepare the same            *)
(* subscription both count its deliveries, and the second to advance it finds *)
(* its revision changed.                                                      *)
THEOREM OwnCapacityKept == Spec /\ FreshIdentifiers => []OwnCapacityHolds
  <1>1. Fresh => OwnCapacityHolds
    BY Zenon DEF Fresh
  <1> QED
    BY <1>1, AlwaysFresh, PTL

(* Except for a deletion, a round or a request that writes a subscription     *)
(* writes over the row it read: the comparison of the revision is enough,     *)
(* without any lock.                                                          *)
THEOREM WritersDetect == Spec /\ FreshIdentifiers => WritersDetectEachOther
  <1>1. Base /\ Fresh /\ [Next]_vars =>
            [/\ \A p \in Preparers : RoundWroteWhatItRead(p)
             /\ \A a \in Agents : RequestWroteWhatItRead(a)]_vars
    BY Zenon, LawsHold, DetectStep
  <1> QED
    BY <1>1, AlwaysBase, AlwaysFresh, PTL DEF Spec, WritersDetectEachOther

(* The position of a subscription never moves back but by a reset, whichever  *)
(* of the concurrent rounds and updates writes last.                          *)
THEOREM PositionKept == Spec /\ FreshIdentifiers => PositionNeverFalls
  <1>1. Base /\ Fresh /\ [Next]_vars =>
            [\A s \in Subscriptions : Stays(s) => subs[s].position <= subs'[s].position]_vars
    BY Zenon, LawsHold, PositionStep
  <1> QED
    BY <1>1, AlwaysBase, AlwaysFresh, PTL DEF Spec, PositionNeverFalls

(* A subscription that lost history says so until it is reset or deleted.     *)
THEOREM LossKept == Spec /\ FreshIdentifiers => LossIsReported
  <1>1. Base /\ Fresh /\ [Next]_vars =>
            [\A s \in Subscriptions :
                Stays(s) /\ subs[s].state = "history_lost" => subs'[s].state = "history_lost"]_vars
    BY Zenon, LawsHold, LossStep
  <1> QED
    BY <1>1, AlwaysBase, AlwaysFresh, PTL DEF Spec, LossIsReported

(* No event is skipped: when the position of a subscription passes an event   *)
(* of its tenant that it selects, other than by a reset, the delivery exists, *)
(* whatever was published, purged, delivered or written while the round ran.  *)
THEOREM NoEventSkipped == Spec /\ FreshIdentifiers => NothingSkipped
  <1>1. Base /\ Fresh /\ [Next]_vars => [\A s \in Subscriptions : SkipsNothing(s)]_vars
    BY Zenon, LawsHold, SkipStep
  <1> QED
    BY <1>1, AlwaysBase, AlwaysFresh, PTL DEF Spec, NothingSkipped

(* The hypothesis of the last five theorems holds where clients do not choose *)
(* an identifier again that they deleted, on SQLite and for a single tenant:  *)
(* lockWebhookTenant lets no two creations of a tenant overlap.  Only on      *)
(* PostgreSQL can two tenants choose the same new identifier, the first       *)
(* create it and delete it, and the second create it again.                   *)
THEOREM NoReuseIsFresh ==
    ASSUME ~ReuseIds, OneCreation
    PROVE  Spec => FreshIdentifiers
  <1> DEFINE U == \A a \in Agents : Unused(a)
  <1>1. Init => U
    BY Zenon, NoTxnFacts DEF Init, Unused
  <1>2. Base /\ (~Postgres => Serial) /\ U /\ [Next]_vars => U'
    BY Zenon, LawsHold, NextUnused
  <1>3. Base /\ U /\ [Next]_vars => [NewIdentifiers]_vars
    BY Zenon, LawsHold, UnusedStep
  <1>4. Spec => [](~Postgres => Serial)
    <2>1. CASE ~Postgres
      BY <2>1, AlwaysSerial, PTL
    <2>2. CASE Postgres
      <3>1. ~Postgres => Serial
        BY Zenon, <2>2
      <3> QED
        BY <3>1, PTL
    <2> QED
      BY Zenon, <2>1, <2>2
  <1> HIDE DEF U
  <1> QED
    BY <1>1, <1>2, <1>3, <1>4, AlwaysBase, PTL DEF Spec, FreshIdentifiers
=============================================================================
