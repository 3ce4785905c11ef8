----------------------- MODULE WebhookPreparationSteps -----------------------
(***************************************************************************)
(* The steps of WebhookPreparation one by one: what each does to the       *)
(* transaction of a request, to a round and to the row it writes, and the  *)
(* invariant Base, which they keep on both databases.                      *)
(* WebhookPreparationProofs draws the theorems from it.                    *)
(***************************************************************************)
EXTENDS WebhookPreparation, TLAPS

(* The rows of the tables, and what a transaction or a round remembers. *)
States == {"ready", "backpressure", "history_lost"}
Row == [tenant : Tenants \cup {"none"}, types : SUBSET Types, enabled : BOOLEAN,
        state : States, position : Nat, revision : Nat]
Event == [seq : Nat, tenant : Tenants, type : Types \cup {Unreadable}]
Deliveries == Subscriptions \X Nat
Txn == [op : {"put", "reset", "delete"}, step : {"floor", "max", "drop", "write"},
        sub : Subscriptions, tenant : Tenants \cup {"none"}, row : Row, types : SUBSET Types,
        enabled : BOOLEAN, floor : Nat, horizon : Nat, doomed : SUBSET Deliveries, began : Nat]
Item == [sub : Subscriptions, row : Row]
Prep == [step : {"idle", "max", "list", "next", "floor", "count", "advance"}, floor : Nat,
         horizon : Nat, todo : SUBSET Item, sub : Subscriptions \cup {"none"}, row : Row,
         rows : SUBSET Event, queued : Nat, own : Nat]

Typed ==
    /\ log \subseteq Event /\ IsFiniteSet(log) /\ floor \in Nat
    /\ subs \in [Subscriptions -> Row]
    /\ queue \subseteq Deliveries /\ finished \subseteq Deliveries /\ IsFiniteSet(queue)
    /\ born \subseteq Subscriptions
    /\ prep \in [Preparers -> Prep] /\ txn \in [Agents -> {NoTxn} \cup Txn]

(* The feed holds what was published after the floor, numbered from one. *)
FeedOK ==
    /\ \A e \in log : 1 <= e.seq /\ e.seq <= Cardinality(log)
    /\ \A e, x \in log : e.seq = x.seq => e = x
    /\ events = {e \in log : e.seq > floor} /\ floor <= Cardinality(log)

(* The rows that exist have an identifier that was used. *)
RowsOK == \A s \in Subscriptions : IF Exists(s) THEN s \in born ELSE subs[s] = NoRow
-----------------------------------------------------------------------------
(* Sets of numbers and of events. *)

(* What the proofs use of the theory of finite sets and of the naturals.  It  *)
(* is derived from the library in LawsHold, near the end of the module, where *)
(* the library enters; until then it is a hypothesis.                         *)
FiniteSetLaws ==
    /\ IsFiniteSet({}) /\ Cardinality({}) = 0
    /\ \A S : IsFiniteSet(S) => Cardinality(S) \in Nat
    /\ \A S : \A T \in SUBSET S :
          IsFiniteSet(S) => IsFiniteSet(T) /\ Cardinality(T) <= Cardinality(S)
    /\ \A S, x : IsFiniteSet(S) =>
          /\ IsFiniteSet(S \cup {x})
          /\ x \notin S => Cardinality(S \cup {x}) = Cardinality(S) + 1
          /\ x \in S => Cardinality(S \ {x}) = Cardinality(S) - 1
    /\ \A S, T : IsFiniteSet(S) /\ IsFiniteSet(T) =>
          /\ IsFiniteSet(S \cup T)
          /\ Cardinality(S \cup T) <= Cardinality(S) + Cardinality(T)
    /\ \A S, T : \A f \in [S -> T] :
          IsFiniteSet(S) /\ (\A y \in T : \E x \in S : f[x] = y) =>
              IsFiniteSet(T) /\ Cardinality(T) <= Cardinality(S)
    /\ \A S \in SUBSET Nat : S # {} => \E m \in S : \A y \in S : m <= y

(* The empty set. *)
LEMMA NoneIsFinite == ASSUME FiniteSetLaws PROVE IsFiniteSet({}) /\ Cardinality({}) = 0
  BY Zenon DEF FiniteSetLaws

(* The size of a finite set. *)
LEMMA SizeIsNatural ==
    ASSUME FiniteSetLaws, NEW S, IsFiniteSet(S)
    PROVE  Cardinality(S) \in Nat
  BY Zenon DEF FiniteSetLaws

(* A part of a finite set. *)
LEMMA PartIsFinite ==
    ASSUME FiniteSetLaws, NEW S, IsFiniteSet(S), NEW T \in SUBSET S
    PROVE  IsFiniteSet(T) /\ Cardinality(T) <= Cardinality(S)
  BY Zenon DEF FiniteSetLaws

(* An element added to a finite set. *)
LEMMA OneMore ==
    ASSUME FiniteSetLaws, NEW S, IsFiniteSet(S), NEW x
    PROVE  /\ IsFiniteSet(S \cup {x})
           /\ x \notin S => Cardinality(S \cup {x}) = Cardinality(S) + 1
  BY Zenon DEF FiniteSetLaws

(* An element taken from a finite set. *)
LEMMA OneLess ==
    ASSUME FiniteSetLaws, NEW S, IsFiniteSet(S), NEW x \in S
    PROVE  Cardinality(S \ {x}) = Cardinality(S) - 1
  BY Zenon DEF FiniteSetLaws

(* The union of two finite sets. *)
LEMMA UnionIsFinite ==
    ASSUME FiniteSetLaws, NEW S, IsFiniteSet(S), NEW T, IsFiniteSet(T)
    PROVE  IsFiniteSet(S \cup T) /\ Cardinality(S \cup T) <= Cardinality(S) + Cardinality(T)
  BY Zenon DEF FiniteSetLaws

(* The image of a finite set. *)
LEMMA ImageIsFinite ==
    ASSUME FiniteSetLaws, NEW S, IsFiniteSet(S), NEW T, NEW f \in [S -> T],
           \A y \in T : \E x \in S : f[x] = y
    PROVE  IsFiniteSet(T) /\ Cardinality(T) <= Cardinality(S)
  BY Zenon DEF FiniteSetLaws

(* The least element of a set of naturals. *)
LEMMA LeastExists ==
    ASSUME FiniteSetLaws, NEW S, S \subseteq Nat, S # {}
    PROVE  \E m \in S : \A y \in S : m <= y
  BY Zenon DEF FiniteSetLaws

(* A nonempty bounded set of naturals has a greatest one. *)
LEMMA GreatestExists ==
    ASSUME FiniteSetLaws, NEW S, S \subseteq Nat, S # {}, NEW b \in Nat, \A x \in S : x <= b
    PROVE  \E m \in S : \A y \in S : y <= m
  <1> DEFINE T == {n \in Nat : n <= b /\ b - n \in S}
  <1>1. \A x \in S : b - x \in T /\ b - (b - x) = x
    OBVIOUS
  <1>2. T \subseteq Nat /\ T # {}
    BY Zenon, <1>1
  <1>3. PICK m \in T : \A y \in T : m <= y
    BY Zenon, <1>2, LeastExists
  <1>4. b - m \in S /\ m \in Nat /\ m <= b
    OBVIOUS
  <1>5. ASSUME NEW y \in S PROVE y <= b - m
    <2>1. m <= b - y /\ y \in Nat
      BY Zenon, <1>1, <1>3
    <2> QED
      BY <1>4, <2>1
  <1> QED
    BY Zenon, <1>4, <1>5

(* Highest is the greatest of its numbers, or zero. *)
LEMMA HighestFacts ==
    ASSUME FiniteSetLaws, NEW S, S \subseteq Nat, NEW b \in Nat, \A x \in S : x <= b
    PROVE  /\ Highest(S) \in Nat /\ Highest(S) <= b
           /\ \A x \in S : x <= Highest(S)
           /\ Highest(S) # 0 => Highest(S) \in S
  <1>1. CASE S = {}
    BY <1>1 DEF Highest
  <1>2. CASE S # {}
    <2>1. \E m \in S : \A y \in S : y <= m
      BY Zenon, <1>2, GreatestExists
    <2> DEFINE m == CHOOSE x \in S : \A y \in S : y <= x
    <2>2. m \in S /\ \A y \in S : y <= m
      BY Zenon, <2>1
    <2>3. Highest(S) = m
      BY Zenon, <1>2 DEF Highest
    <2> HIDE DEF m
    <2> QED
      BY Zenon, <1>2, <2>2, <2>3
  <1> QED
    BY Zenon, <1>1, <1>2

(* FirstEvents leaves out an event only if it took as many as it may, all of  *)
(* them earlier.                                                              *)
LEMMA FirstEventsFacts ==
    ASSUME FiniteSetLaws, NEW es, IsFiniteSet(es), \A x \in es : x.seq \in Nat, NEW n \in Nat,
           NEW e \in es, e \notin FirstEvents(es, n)
    PROVE  /\ n <= Cardinality(FirstEvents(es, n))
           /\ \A x \in FirstEvents(es, n) : x.seq < e.seq
  <1> DEFINE Before(x) == {y \in es : y.seq < x.seq}
             F == FirstEvents(es, n)
  <1>1. \A x \in es : IsFiniteSet(Before(x)) /\ Cardinality(Before(x)) \in Nat
    BY Zenon, PartIsFinite, SizeIsNatural
  <1>2. F = {x \in es : Cardinality(Before(x)) < n}
    BY Zenon DEF FirstEvents
  <1>3. /\ IsFiniteSet(F) /\ Cardinality(F) \in Nat /\ F \subseteq es /\ e \notin F
        /\ \A x \in es : x \in F <=> Cardinality(Before(x)) < n
    BY Zenon, <1>2, PartIsFinite, SizeIsNatural
  <1> HIDE DEF F, Before
  <1>4. ASSUME NEW x \in F PROVE x.seq < e.seq
    <2>1. CASE ~(x.seq < e.seq)
      <3>1. x \in es /\ Cardinality(Before(x)) < n /\ ~(Cardinality(Before(e)) < n)
        BY Zenon, <1>3, <1>4
      <3>2. Before(e) \subseteq Before(x)
        BY <2>1, <3>1 DEF Before
      <3>3. Cardinality(Before(e)) <= Cardinality(Before(x))
        BY Zenon, <1>1, <3>1, <3>2, PartIsFinite
      <3> QED
        BY <1>1, <3>1, <3>3
    <2> QED
      BY <2>1
  <1>5. PICK m \in es \ F : \A y \in es \ F : m.seq <= y.seq
    <2> DEFINE S == {y.seq : y \in es \ F}
    <2>1. S \subseteq Nat /\ S # {}
      BY Zenon, <1>3
    <2>2. \E k \in S : \A y \in S : k <= y
      BY Zenon, <2>1, LeastExists
    <2> QED
      BY Zenon, <2>2
  <1>6. Before(m) \subseteq F
    BY <1>5 DEF Before
  <1>7. Cardinality(Before(m)) <= Cardinality(F) /\ ~(Cardinality(Before(m)) < n)
    BY Zenon, <1>3, <1>6, PartIsFinite
  <1>8. n <= Cardinality(F)
    BY <1>1, <1>3, <1>7
  <1> QED
    BY Zenon, <1>4, <1>8 DEF F

(* What a round inserts fits into what was free when it counted: the loop     *)
(* stops at the first selected event that finds no room.                      *)
LEMMA InsertionsFit ==
    ASSUME FiniteSetLaws, NEW p \in Preparers, prep[p] \in Prep, IsFiniteSet(prep[p].rows),
           NEW b \in Nat, \A e \in prep[p].rows : e.seq <= b,
           \A e, x \in prep[p].rows : e.seq = x.seq => e = x
    PROVE  /\ IsFiniteSet(Insertions(p)) /\ Cardinality(Insertions(p)) \in Nat
           /\ Insertions(p) # {} =>
                 /\ prep[p].queued + Cardinality(Insertions(p)) <= QueueCapacity
                 /\ prep[p].own + Cardinality(Insertions(p)) <= OwnCapacity
  <1> DEFINE I == Missing(p) \cap Processed(p)
             S == {e.seq : e \in I}
  <1>0. /\ prep[p].queued \in Nat /\ prep[p].own \in Nat
        /\ \A e \in prep[p].rows : e.seq \in Nat
    BY Zenon DEF Prep, Event
  <1>1. /\ Missing(p) \subseteq prep[p].rows /\ I \subseteq prep[p].rows
        /\ IsFiniteSet(Missing(p)) /\ IsFiniteSet(I) /\ Cardinality(I) \in Nat
    BY Zenon, PartIsFinite, SizeIsNatural DEF Missing
  <1>2. IsFiniteSet(Insertions(p)) /\ Cardinality(Insertions(p)) <= Cardinality(I)
    <2> DEFINE f == [e \in I |-> <<prep[p].sub, e.seq>>]
    <2>1. f \in [I -> Insertions(p)] /\ \A d \in Insertions(p) : \E e \in I : f[e] = d
      BY Zenon DEF Insertions
    <2> QED
      BY Zenon, <1>1, <2>1, ImageIsFinite
  <1>3. Cardinality(Insertions(p)) \in Nat
    BY Zenon, <1>2, SizeIsNatural
  <1>4. ASSUME Insertions(p) # {}
        PROVE  /\ prep[p].queued + Cardinality(Insertions(p)) <= QueueCapacity
               /\ prep[p].own + Cardinality(Insertions(p)) <= OwnCapacity
    <2>1. S # {} /\ S \subseteq Nat /\ \A x \in S : x <= b
      BY Zenon, <1>0, <1>1, <1>4 DEF Insertions
    <2>2. PICK k \in S : \A y \in S : y <= k
      BY Zenon, <2>1, GreatestExists
    <2>3. PICK m \in I : \A x \in I : x.seq <= m.seq
      BY Zenon, <2>2
    <2> DEFINE Earlier == {x \in Missing(p) : x.seq < m.seq}
    <2>4. m \in prep[p].rows /\ Selects(prep[p].row, m) /\ m \notin Blocked(p)
      <3>1. m.seq \in Nat /\ ~(m.seq < m.seq)
        BY <1>0, <1>1
      <3> QED
        BY Zenon, <1>1, <3>1 DEF Processed, Missing
    <2>5. ~NoRoom(p, Cardinality(Earlier))
      BY Zenon, <2>4 DEF Blocked
    <2>6. I \ {m} \subseteq Earlier
      BY <1>0, <1>1, <2>3
    <2>7. IsFiniteSet(Earlier) /\ Cardinality(Earlier) \in Nat
      BY Zenon, <1>1, PartIsFinite, SizeIsNatural
    <2>8. Cardinality(I \ {m}) = Cardinality(I) - 1 /\ Cardinality(I \ {m}) <= Cardinality(Earlier)
      BY Zenon, <1>1, <2>6, <2>7, PartIsFinite, OneLess
    <2>9. /\ ~(prep[p].queued + Cardinality(Earlier) >= QueueCapacity)
          /\ ~(prep[p].own + Cardinality(Earlier) >= OwnCapacity)
      BY Zenon, <2>5 DEF NoRoom
    <2> HIDE DEF Earlier, I
    <2> QED
      BY <1>0, <1>1, <1>2, <1>3, <2>7, <2>8, <2>9, CapacityAssumption
  <1> QED
    BY Zenon, <1>2, <1>3, <1>4
-----------------------------------------------------------------------------
(* The invariant that holds on both databases. *)

Existing == {s \in Subscriptions : Exists(s)}
OfTenant(t) == {s \in Subscriptions : Exists(s) /\ subs[s].tenant = t}

(* A PutWebhook has its tenant for itself, and finds room for its row in it. *)
PutPlace(a) ==
    txn[a].op = "put" =>
        /\ txn[a].row # NoRow => txn[a].row.tenant = txn[a].tenant
        /\ Cardinality(OfTenant(txn[a].tenant) \ {txn[a].sub}) < MaxSubscriptions
        /\ TenantLocked(a, txn[a].tenant)

CapOK == IsFiniteSet(Existing) /\ (\A a \in Agents : PutPlace(a)) /\ SubscriptionCapHolds

(* A subscription listed by a round was to be prepared. *)
Listed(s, row, horizon) ==
    /\ s \in Subscriptions /\ row \in Row /\ s \in born
    /\ row.revision > 0 /\ row.position < horizon /\ row.state # "history_lost"

InTxn(p) == prep[p].step \in {"floor", "count", "advance"}

(* The events read are those of the tenant up to the horizon, or the first    *)
(* ones if there are more than the budget.                                    *)
Covers(p) ==
    \A e \in log :
        /\ e.tenant = prep[p].row.tenant
        /\ prep[p].row.position < e.seq /\ e.seq <= prep[p].horizon
        => \/ e \in prep[p].rows
           \/ Budget <= Cardinality(prep[p].rows) /\ \A x \in prep[p].rows : x.seq < e.seq

RoundPlace(p) ==
    /\ prep[p].horizon <= Cardinality(log) /\ prep[p].floor <= Cardinality(log)
    /\ \A i \in prep[p].todo : Listed(i.sub, i.row, prep[p].horizon)
    /\ prep[p].step \in {"idle", "max", "list"} => prep[p].todo = {}
    /\ InTxn(p) => /\ Listed(prep[p].sub, prep[p].row, prep[p].horizon)
                   /\ prep[p].rows \subseteq log
                   /\ \A e \in prep[p].rows : e.seq <= prep[p].horizon
                   /\ prep[p].step # "floor" \/ floor <= prep[p].row.position => Covers(p)

Base == Typed /\ FeedOK /\ RowsOK /\ CapOK /\ \A p \in Preparers : RoundPlace(p)
-----------------------------------------------------------------------------
(* What the steps of a request do to its transaction. *)

(* Only the transaction of a changes. *)
Moves(a) ==
    /\ txn' \in [Agents -> {NoTxn} \cup Txn]
    /\ \A b \in Agents \ {a} : txn'[b] = txn[b]

(* Setting the transaction of one request. *)
LEMMA TxnMoves ==
    ASSUME Typed, NEW a \in Agents, NEW z \in {NoTxn} \cup Txn, txn' = [txn EXCEPT ![a] = z]
    PROVE  Moves(a) /\ txn'[a] = z
  BY DEF Typed, Moves

(* The record of a request that is not in a transaction. *)
LEMMA NoTxnFacts ==
    /\ NoTxn.op = "none" /\ NoTxn.step = "idle" /\ NoTxn.doomed = {} /\ NoTxn.row = NoRow
    /\ NoTxn \notin Txn
  BY Zenon DEF NoTxn, Txn

(* The absent row. *)
LEMMA NoRowFacts == NoRow \in Row /\ NoRow.revision = 0 /\ NoRow.state = "ready"
  BY Zenon DEF NoRow, Row, States

(* Where a request is in a transaction. *)
LEMMA TxnKinds ==
    ASSUME Typed, NEW a \in Agents
    PROVE  /\ txn[a] = NoTxn \/ txn[a] \in Txn
           /\ txn[a].op \in {"put", "reset", "delete"} => txn[a] \in Txn
           /\ txn[a].step \in {"floor", "max", "drop", "write"} => txn[a] \in Txn
  BY Zenon, NoTxnFacts DEF Typed

(* The fields of a transaction. *)
LEMMA TxnFields ==
    ASSUME NEW z \in Txn
    PROVE  /\ z.sub \in Subscriptions /\ z.row \in Row /\ z.horizon \in Nat /\ z.floor \in Nat
           /\ z.began \in Nat /\ z.doomed \subseteq Deliveries /\ z # NoTxn
           /\ z.op \in {"put", "reset", "delete"} /\ z.step \in {"floor", "max", "drop", "write"}
           /\ z.types \in SUBSET Types /\ z.enabled \in BOOLEAN
           /\ z.tenant \in Tenants \cup {"none"}
  BY DEF Txn, NoTxn

(* The fields of a row. *)
LEMMA RowFields ==
    ASSUME NEW r \in Row
    PROVE  /\ r.position \in Nat /\ r.revision \in Nat
           /\ r.tenant \in Tenants \cup {"none"} /\ r.types \in SUBSET Types
           /\ r.state \in States /\ r.enabled \in BOOLEAN
  BY DEF Row

(* The end of the feed is the last position published or purged. *)
LEMMA EndFacts ==
    ASSUME FiniteSetLaws, Typed, FeedOK
    PROVE  /\ Cardinality(log) \in Nat
           /\ Highest(Sequences(events)) \in Nat /\ Highest(Sequences(events)) <= Cardinality(log)
           /\ End \in Nat
           /\ \A e \in log : e.seq \in Nat /\ e.seq <= Cardinality(log)
           /\ \A n \in Nat : /\ Higher(Highest(Sequences(events)), n) \in Nat
                             /\ n <= Cardinality(log)
                                => Higher(Highest(Sequences(events)), n) <= Cardinality(log)
  <1>1. Cardinality(log) \in Nat
    BY Zenon, SizeIsNatural DEF Typed
  <1>2. \A e \in log : e.seq \in Nat /\ e.seq <= Cardinality(log)
    BY DEF Typed, FeedOK, Event
  <1>3. events \subseteq log
    BY Zenon DEF FeedOK
  <1>4. Sequences(events) \subseteq Nat /\ \A x \in Sequences(events) : x <= Cardinality(log)
    BY Zenon, <1>2, <1>3 DEF Sequences
  <1>5. /\ Highest(Sequences(events)) \in Nat
        /\ Highest(Sequences(events)) <= Cardinality(log)
    BY Zenon, <1>1, <1>4, HighestFacts
  <1>6. floor \in Nat
    BY Zenon DEF Typed
  <1> QED
    BY <1>1, <1>2, <1>5, <1>6 DEF End, Higher

(* A request starts: it has read the row of its subscription. *)
LEMMA PutBeginFacts ==
    ASSUME FiniteSetLaws,
           Typed, FeedOK, NEW a \in Agents, NEW s \in Subscriptions, NEW t \in Tenants,
           NEW types \in Filters, NEW enabled \in BOOLEAN, PutBegin(a, s, t, types, enabled)
    PROVE  /\ Moves(a) /\ txn'[a] \in Txn /\ txn[a] = NoTxn
           /\ txn'[a].op = "put" /\ txn'[a].sub = s /\ txn'[a].tenant = t /\ txn'[a].row = subs[s]
           /\ txn'[a].doomed = {}
           /\ txn'[a].step = (IF Exists(s) THEN "write" ELSE "floor")
           /\ ~Exists(s) => txn'[a].began = End
  <1> DEFINE z == [NoTxn EXCEPT
          !.op = "put", !.step = IF Exists(s) THEN "write" ELSE "floor", !.sub = s, !.tenant = t,
          !.row = subs[s], !.types = types, !.enabled = enabled,
          !.began = IF Exists(s) THEN 0 ELSE End]
  <1>1. txn' = [txn EXCEPT ![a] = z] /\ txn[a] = NoTxn
    BY Zenon DEF PutBegin
  <1>2. subs[s] \in Row /\ types \in SUBSET Types /\ End \in Nat
    BY Zenon, TypesAssumption, EndFacts DEF Typed
  <1>3. /\ z \in Txn /\ z.op = "put" /\ z.sub = s /\ z.tenant = t /\ z.row = subs[s]
        /\ z.doomed = {} /\ z.step = (IF Exists(s) THEN "write" ELSE "floor")
        /\ ~Exists(s) => z.began = End
    BY Zenon, <1>2 DEF Txn, NoTxn
  <1> HIDE DEF z
  <1> QED
    BY Zenon, <1>1, <1>3, TxnMoves

(* What the begin of a reset does. *)
LEMMA ResetBeginFacts ==
    ASSUME FiniteSetLaws, Typed, FeedOK, NEW a \in Agents, NEW s \in Subscriptions, ResetBegin(a, s)
    PROVE  /\ Moves(a) /\ txn'[a] \in Txn /\ txn[a] = NoTxn /\ Exists(s)
           /\ txn'[a].op = "reset" /\ txn'[a].step = "floor" /\ txn'[a].sub = s
           /\ txn'[a].row = subs[s] /\ txn'[a].tenant = subs[s].tenant
           /\ txn'[a].doomed = {} /\ txn'[a].began = End
  <1> DEFINE z == [NoTxn EXCEPT
          !.op = "reset", !.step = "floor", !.sub = s, !.tenant = subs[s].tenant,
          !.row = subs[s], !.began = End]
  <1>1. txn' = [txn EXCEPT ![a] = z] /\ txn[a] = NoTxn /\ Exists(s)
    BY Zenon DEF ResetBegin
  <1>2. subs[s] \in Row /\ subs[s].tenant \in Tenants \cup {"none"} /\ End \in Nat
    BY Zenon, EndFacts, RowFields DEF Typed
  <1>3. /\ z \in Txn /\ z.op = "reset" /\ z.step = "floor" /\ z.sub = s
        /\ z.row = subs[s] /\ z.tenant = subs[s].tenant /\ z.doomed = {} /\ z.began = End
    BY Zenon, <1>2 DEF Txn, NoTxn
  <1> HIDE DEF z
  <1> QED
    BY Zenon, <1>1, <1>3, TxnMoves

(* What the begin of a deletion does. *)
LEMMA DeleteBeginFacts ==
    ASSUME Typed, NEW a \in Agents, NEW s \in Subscriptions, DeleteBegin(a, s)
    PROVE  /\ Moves(a) /\ txn'[a] \in Txn /\ txn[a] = NoTxn /\ Exists(s)
           /\ txn'[a].op = "delete" /\ txn'[a].step = "drop" /\ txn'[a].sub = s
           /\ txn'[a].row = subs[s] /\ txn'[a].tenant = subs[s].tenant /\ txn'[a].doomed = {}
  <1> DEFINE z == [NoTxn EXCEPT
          !.op = "delete", !.step = "drop", !.sub = s, !.tenant = subs[s].tenant,
          !.row = subs[s]]
  <1>1. txn' = [txn EXCEPT ![a] = z] /\ txn[a] = NoTxn /\ Exists(s)
    BY Zenon DEF DeleteBegin
  <1>2. subs[s] \in Row /\ subs[s].tenant \in Tenants \cup {"none"}
    BY Zenon, RowFields DEF Typed
  <1>3. /\ z \in Txn /\ z.op = "delete" /\ z.step = "drop" /\ z.sub = s
        /\ z.row = subs[s] /\ z.tenant = subs[s].tenant /\ z.doomed = {}
    BY Zenon, <1>2 DEF Txn, NoTxn
  <1> HIDE DEF z
  <1> QED
    BY Zenon, <1>1, <1>3, TxnMoves

(* The transaction of a goes on: it is still about the same row. *)
GoesOn(a) ==
    /\ Moves(a) /\ txn[a] \in Txn /\ txn'[a] \in Txn
    /\ txn'[a].op = txn[a].op /\ txn'[a].sub = txn[a].sub /\ txn'[a].tenant = txn[a].tenant
    /\ txn'[a].row = txn[a].row /\ txn'[a].began = txn[a].began

(* What reading the floor does. *)
LEMMA HorizonFloorFacts ==
    ASSUME Typed, NEW a \in Agents, HorizonFloor(a)
    PROVE  /\ GoesOn(a) /\ txn[a].step = "floor" /\ txn'[a].step = "max"
           /\ txn'[a].floor = floor /\ txn'[a].doomed = txn[a].doomed
  <1>1. txn[a] \in Txn /\ txn[a].step = "floor" /\ floor \in Nat
    BY Zenon, TxnKinds DEF HorizonFloor, Typed
  <1> DEFINE z == [txn[a] EXCEPT !.step = "max", !.floor = floor]
  <1>2. txn' = [txn EXCEPT ![a] = z]
    BY Zenon DEF HorizonFloor, Typed
  <1>3. /\ z \in Txn /\ z.step = "max" /\ z.floor = floor /\ z.doomed = txn[a].doomed
        /\ z.op = txn[a].op /\ z.sub = txn[a].sub /\ z.tenant = txn[a].tenant
        /\ z.row = txn[a].row /\ z.began = txn[a].began
    BY Zenon, <1>1 DEF Txn
  <1> HIDE DEF z
  <1> QED
    BY Zenon, <1>1, <1>2, <1>3, TxnMoves DEF GoesOn

(* What reading the last position does. *)
LEMMA HorizonMaxFacts ==
    ASSUME FiniteSetLaws, Typed, FeedOK, NEW a \in Agents, HorizonMax(a)
    PROVE  /\ GoesOn(a) /\ txn[a].step = "max" /\ txn'[a].doomed = txn[a].doomed
           /\ txn'[a].step = (IF txn[a].op = "put" THEN "write" ELSE "drop")
           /\ txn'[a].horizon = Higher(Highest(Sequences(events)), txn[a].floor)
  <1> DEFINE h == Higher(Highest(Sequences(events)), txn[a].floor)
  <1>1. txn[a] \in Txn /\ txn[a].step = "max" /\ txn[a].floor \in Nat
    BY Zenon, TxnKinds, TxnFields DEF HorizonMax
  <1>2. h \in Nat
    BY Zenon, <1>1, EndFacts
  <1> DEFINE z == [txn[a] EXCEPT !.step = IF txn[a].op = "put" THEN "write" ELSE "drop",
                                 !.horizon = h, !.floor = 0]
  <1> HIDE DEF h
  <1>3. txn' = [txn EXCEPT ![a] = z]
    BY Zenon DEF HorizonMax, Typed, h
  <1>4. /\ z \in Txn /\ z.step = (IF txn[a].op = "put" THEN "write" ELSE "drop")
        /\ z.horizon = h /\ z.doomed = txn[a].doomed
        /\ z.op = txn[a].op /\ z.sub = txn[a].sub /\ z.tenant = txn[a].tenant
        /\ z.row = txn[a].row /\ z.began = txn[a].began
    BY Zenon, <1>1, <1>2 DEF Txn
  <1> HIDE DEF z
  <1> QED
    BY Zenon, <1>1, <1>3, <1>4, TxnMoves DEF GoesOn, h

(* What selecting the deliveries to delete does. *)
LEMMA DropFacts ==
    ASSUME Typed, NEW a \in Agents, Drop(a)
    PROVE  /\ GoesOn(a) /\ txn[a].step = "drop" /\ txn'[a].step = "write"
           /\ txn'[a].doomed = Of(txn[a].sub) /\ txn'[a].horizon = txn[a].horizon
  <1>1. txn[a] \in Txn /\ txn[a].step = "drop" /\ Of(txn[a].sub) \subseteq Deliveries
    BY Zenon, TxnKinds DEF Drop, Of, Typed
  <1> DEFINE z == [txn[a] EXCEPT !.step = "write", !.doomed = Of(txn[a].sub)]
  <1>2. txn' = [txn EXCEPT ![a] = z]
    BY Zenon DEF Drop, Typed
  <1>3. /\ z \in Txn /\ z.step = "write" /\ z.doomed = Of(txn[a].sub)
        /\ z.horizon = txn[a].horizon
        /\ z.op = txn[a].op /\ z.sub = txn[a].sub /\ z.tenant = txn[a].tenant
        /\ z.row = txn[a].row /\ z.began = txn[a].began
    BY Zenon, <1>1 DEF Txn
  <1> HIDE DEF z
  <1> QED
    BY Zenon, <1>1, <1>2, <1>3, TxnMoves DEF GoesOn

(* Only the row of s changes. *)
OnlyRow(s) ==
    /\ s \in Subscriptions /\ subs' \in [Subscriptions -> Row]
    /\ \A u \in Subscriptions \ {s} : subs'[u] = subs[u]

(* The row of s is written under the next revision. *)
Rewrites(s) ==
    /\ OnlyRow(s) /\ Exists(s) /\ subs'[s].revision = subs[s].revision + 1

(* The transaction ends with the write of its row. *)
Writes(a) ==
    /\ Moves(a) /\ txn'[a] = NoTxn /\ txn[a] \in Txn /\ txn[a].step = "write"

(* Setting one row. *)
LEMMA RowChange ==
    ASSUME Typed, NEW s \in Subscriptions, NEW r \in Row, subs' = [subs EXCEPT ![s] = r]
    PROVE  OnlyRow(s) /\ subs'[s] = r
  BY Zenon DEF Typed, OnlyRow

(* A row with new settings, and one with a new position. *)
WithSettings(row, types, enabled) ==
    [row EXCEPT !.types = types, !.enabled = enabled, !.revision = @ + 1]
WithPosition(row, position, state, revision) ==
    [row EXCEPT !.position = position, !.state = state, !.revision = revision]

(* The row with new settings. *)
LEMMA NewSettings ==
    ASSUME NEW row \in Row, NEW types \in SUBSET Types, NEW enabled \in BOOLEAN
    PROVE  LET r == WithSettings(row, types, enabled) IN
           /\ r \in Row /\ r.revision = row.revision + 1 /\ r.tenant = row.tenant
           /\ r.position = row.position /\ r.state = row.state
  <1> SUFFICES ASSUME NEW r, r = WithSettings(row, types, enabled)
               PROVE  /\ r \in Row /\ r.revision = row.revision + 1 /\ r.tenant = row.tenant
                      /\ r.position = row.position /\ r.state = row.state
    BY Zenon
  <1>1. r = [tenant |-> row.tenant, types |-> types, enabled |-> enabled, state |-> row.state,
             position |-> row.position, revision |-> row.revision + 1]
    BY Zenon DEF Row, WithSettings
  <1>2. /\ row.tenant \in Tenants \cup {"none"} /\ row.position \in Nat
        /\ row.revision + 1 \in Nat /\ row.state \in States
    BY DEF Row
  <1> QED
    BY <1>1, <1>2 DEF Row

(* The row with a new position. *)
LEMMA NewPosition ==
    ASSUME NEW row \in Row, NEW position \in Nat, NEW revision \in Nat,
           NEW state \in States
    PROVE  LET r == WithPosition(row, position, state, revision) IN
           /\ r \in Row /\ r.revision = revision /\ r.tenant = row.tenant
           /\ r.position = position /\ r.state = state
  <1> SUFFICES ASSUME NEW r, r = WithPosition(row, position, state, revision)
               PROVE  /\ r \in Row /\ r.revision = revision /\ r.tenant = row.tenant
                      /\ r.position = position /\ r.state = state
    BY Zenon
  <1>1. r = [tenant |-> row.tenant, types |-> row.types, enabled |-> row.enabled,
             state |-> state, position |-> position, revision |-> revision]
    BY Zenon DEF Row, WithPosition
  <1> QED
    BY <1>1, RowFields DEF Row

(* The row of s is written with a new position. *)
Repositions(s, position, state, revision) ==
    subs' = [subs EXCEPT ![s].position = position, ![s].state = state, ![s].revision = revision]

(* Writing a new position. *)
LEMMA PositionWritten ==
    ASSUME Typed, NEW s \in Subscriptions, NEW position \in Nat, NEW revision \in Nat,
           NEW state \in States, Repositions(s, position, state, revision)
    PROVE  /\ OnlyRow(s) /\ subs'[s].tenant = subs[s].tenant
           /\ subs'[s].revision = revision /\ subs'[s].position = position
           /\ subs'[s].state = state
  <1> DEFINE r == WithPosition(subs[s], position, state, revision)
  <1>0. subs \in [Subscriptions -> Row]
    BY Zenon DEF Typed
  <1>1. subs' = [subs EXCEPT ![s] = r]
    <2>1. subs' = [subs EXCEPT ![s] =
              [subs[s] EXCEPT !.position = position, !.state = state, !.revision = revision]]
      BY Zenon, <1>0 DEF Repositions
    <2> QED
      BY Zenon, <2>1 DEF WithPosition
  <1>2. subs[s] \in Row
    BY Zenon, <1>0
  <1>3. /\ r \in Row /\ r.tenant = subs[s].tenant /\ r.revision = revision
        /\ r.position = position /\ r.state = state
    BY <1>2, NewPosition
  <1> HIDE DEF r
  <1>4. OnlyRow(s) /\ subs'[s] = r
    BY Zenon, <1>1, <1>3, RowChange
  <1> QED
    BY Zenon, <1>3, <1>4

(* The end of a request. *)
LEMMA EndTxnFacts ==
    ASSUME Typed, NEW a \in Agents, EndTxn(a)
    PROVE  Moves(a) /\ txn'[a] = NoTxn
  BY Zenon, TxnMoves DEF EndTxn

(* What the creation of a subscription does. *)
LEMMA PutCreateFacts ==
    ASSUME Typed, NEW a \in Agents, PutCreate(a)
    PROVE  /\ Writes(a) /\ txn[a].op = "put" /\ txn[a].row = NoRow
           /\ OnlyRow(txn[a].sub) /\ ~Exists(txn[a].sub)
           /\ subs'[txn[a].sub].revision = 1 /\ subs'[txn[a].sub].tenant = txn[a].tenant
           /\ subs'[txn[a].sub].position = txn[a].horizon
           /\ born' = born \cup {txn[a].sub}
  <1> DEFINE r == [tenant |-> txn[a].tenant, types |-> txn[a].types, enabled |-> txn[a].enabled,
                   state |-> "ready", position |-> txn[a].horizon, revision |-> 1]
  <1>1. /\ txn[a].op = "put" /\ txn[a].step = "write" /\ txn[a].row = NoRow
        /\ ~Exists(txn[a].sub) /\ subs' = [subs EXCEPT ![txn[a].sub] = r]
        /\ born' = born \cup {txn[a].sub} /\ EndTxn(a)
    BY Zenon DEF PutCreate
  <1>2. txn[a] \in Txn
    BY Zenon, <1>1, TxnKinds
  <1>3. r \in Row /\ txn[a].sub \in Subscriptions
    BY Zenon, <1>2, TxnFields DEF Row, States
  <1>4. r.revision = 1 /\ r.tenant = txn[a].tenant /\ r.position = txn[a].horizon
    BY Zenon
  <1> HIDE DEF r
  <1>5. OnlyRow(txn[a].sub) /\ subs'[txn[a].sub] = r
    BY Zenon, <1>1, <1>3, RowChange
  <1> QED
    BY Zenon, <1>1, <1>2, <1>4, <1>5, EndTxnFacts DEF Writes

(* What the update of a subscription does. *)
LEMMA PutUpdateFacts ==
    ASSUME Typed, NEW a \in Agents, PutUpdate(a)
    PROVE  /\ Writes(a) /\ txn[a].op = "put" /\ txn[a].row # NoRow
           /\ Current(txn[a].sub, txn[a].row) /\ Rewrites(txn[a].sub)
           /\ subs'[txn[a].sub].tenant = txn[a].row.tenant
           /\ subs'[txn[a].sub].position = txn[a].row.position
           /\ subs'[txn[a].sub].state = txn[a].row.state
  <1> DEFINE r == WithSettings(txn[a].row, txn[a].types, txn[a].enabled)
  <1>1. /\ txn[a].op = "put" /\ txn[a].step = "write" /\ txn[a].row # NoRow
        /\ Current(txn[a].sub, txn[a].row) /\ subs' = [subs EXCEPT ![txn[a].sub] = r]
        /\ EndTxn(a)
    BY Zenon DEF PutUpdate, WithSettings
  <1>2. txn[a] \in Txn
    BY Zenon, <1>1, TxnKinds
  <1>3. txn[a].row \in Row /\ txn[a].sub \in Subscriptions
    BY Zenon, <1>2, TxnFields
  <1>4. /\ r \in Row /\ r.revision = txn[a].row.revision + 1 /\ r.tenant = txn[a].row.tenant
        /\ r.position = txn[a].row.position /\ r.state = txn[a].row.state
    <2>1. txn[a].types \in SUBSET Types /\ txn[a].enabled \in BOOLEAN
      BY Zenon, <1>2, TxnFields
    <2> QED
      BY Zenon, <1>3, <2>1, NewSettings
  <1> HIDE DEF r
  <1>5. OnlyRow(txn[a].sub) /\ subs'[txn[a].sub] = r
    BY Zenon, <1>1, <1>3, <1>4, RowChange
  <1>6. Rewrites(txn[a].sub)
    BY Zenon, <1>1, <1>4, <1>5 DEF Rewrites, Current
  <1> QED
    BY Zenon, <1>1, <1>2, <1>4, <1>5, <1>6, EndTxnFacts DEF Writes

(* What the write of a reset does. *)
LEMMA ResetWriteFacts ==
    ASSUME Typed, NEW a \in Agents, ResetWrite(a)
    PROVE  /\ Writes(a) /\ txn[a].op = "reset"
           /\ Current(txn[a].sub, txn[a].row) /\ Rewrites(txn[a].sub)
           /\ subs'[txn[a].sub].tenant = subs[txn[a].sub].tenant
           /\ subs'[txn[a].sub].position = txn[a].horizon
           /\ queue' = queue \ txn[a].doomed /\ finished' = finished \ txn[a].doomed
  <1>1. /\ txn[a].op = "reset" /\ txn[a].step = "write"
        /\ Current(txn[a].sub, txn[a].row) /\ EndTxn(a)
        /\ queue' = queue \ txn[a].doomed /\ finished' = finished \ txn[a].doomed
    BY Zenon DEF ResetWrite, RemoveDoomed
  <1>2. txn[a] \in Txn
    BY Zenon, <1>1, TxnKinds
  <1>3. /\ txn[a].row \in Row /\ txn[a].sub \in Subscriptions /\ txn[a].horizon \in Nat
        /\ txn[a].row.revision \in Nat /\ subs[txn[a].sub] \in Row
    BY Zenon, <1>2, TxnFields, RowFields DEF Typed
  <1>4. txn[a].row.revision + 1 \in Nat /\ "ready" \in States
    BY <1>3 DEF States
  <1>5. Repositions(txn[a].sub, txn[a].horizon, "ready", txn[a].row.revision + 1)
    BY Zenon DEF ResetWrite, Repositions
  <1>6. /\ OnlyRow(txn[a].sub) /\ subs'[txn[a].sub].tenant = subs[txn[a].sub].tenant
        /\ subs'[txn[a].sub].revision = txn[a].row.revision + 1
        /\ subs'[txn[a].sub].position = txn[a].horizon
    BY <1>3, <1>4, <1>5, PositionWritten
  <1>7. Rewrites(txn[a].sub)
    BY Zenon, <1>1, <1>6 DEF Rewrites, Current
  <1> QED
    BY Zenon, <1>1, <1>2, <1>6, <1>7, EndTxnFacts DEF Writes

(* What the write of a deletion does. *)
LEMMA DeleteWriteFacts ==
    ASSUME Typed, NEW a \in Agents, DeleteWrite(a)
    PROVE  /\ Writes(a) /\ txn[a].op = "delete" /\ OnlyRow(txn[a].sub)
           /\ subs'[txn[a].sub] = IF subs[txn[a].sub].tenant = txn[a].tenant THEN NoRow
                                  ELSE subs[txn[a].sub]
           /\ queue' = queue \ txn[a].doomed /\ finished' = finished \ txn[a].doomed
  <1> DEFINE r == IF subs[txn[a].sub].tenant = txn[a].tenant THEN NoRow ELSE subs[txn[a].sub]
  <1>1. /\ txn[a].op = "delete" /\ txn[a].step = "write" /\ EndTxn(a)
        /\ queue' = queue \ txn[a].doomed /\ finished' = finished \ txn[a].doomed
    BY Zenon DEF DeleteWrite, RemoveDoomed
  <1>2. txn[a] \in Txn
    BY Zenon, <1>1, TxnKinds
  <1>3. txn[a].sub \in Subscriptions /\ r \in Row
    BY Zenon, <1>2, TxnFields, NoRowFacts DEF Typed
  <1>4. subs' = [subs EXCEPT ![txn[a].sub] = r]
    BY Zenon DEF DeleteWrite
  <1>5. OnlyRow(txn[a].sub) /\ subs'[txn[a].sub] = r
    BY Zenon, <1>3, <1>4, RowChange
  <1> QED
    BY Zenon, <1>1, <1>2, <1>5, EndTxnFacts DEF Writes
-----------------------------------------------------------------------------
(* What the steps of a round do to it. *)

(* Only the round of p changes. *)
PrepMoves(p) ==
    /\ prep' \in [Preparers -> Prep]
    /\ \A q \in Preparers \ {p} : prep'[q] = prep[q]

(* Setting the state of one round. *)
LEMMA PrepChange ==
    ASSUME Typed, NEW p \in Preparers, NEW z \in Prep, prep' = [prep EXCEPT ![p] = z]
    PROVE  PrepMoves(p) /\ prep'[p] = z
  BY Zenon DEF Typed, PrepMoves

(* The round that is not running. *)
LEMMA NoPrepFacts ==
    /\ NoPrep \in Prep /\ NoPrep.step = "idle" /\ NoPrep.todo = {}
    /\ NoPrep.horizon = 0 /\ NoPrep.floor = 0
  BY Zenon, NoRowFacts DEF NoPrep, Prep

(* The fields of a round. *)
LEMMA PrepFields ==
    ASSUME Typed, NEW p \in Preparers
    PROVE  /\ prep[p] \in Prep /\ prep[p].horizon \in Nat /\ prep[p].floor \in Nat
           /\ prep[p].row \in Row /\ prep[p].rows \subseteq Event /\ prep[p].todo \subseteq Item
           /\ prep[p].queued \in Nat /\ prep[p].own \in Nat
           /\ prep[p].sub \in Subscriptions \cup {"none"}
  <1>1. prep[p] \in Prep
    BY Zenon DEF Typed
  <1> QED
    BY Zenon, <1>1 DEF Prep

(* What reading the floor at the start of a round does. *)
LEMMA RoundFloorFacts ==
    ASSUME Typed, NEW p \in Preparers, RoundFloor(p)
    PROVE  /\ PrepMoves(p) /\ prep[p].step = "idle" /\ prep'[p].step = "max"
           /\ prep'[p].floor = floor /\ prep'[p].horizon = prep[p].horizon
           /\ prep'[p].todo = prep[p].todo
  <1> DEFINE z == [prep[p] EXCEPT !.step = "max", !.floor = floor]
  <1>1. prep[p] \in Prep /\ floor \in Nat
    BY Zenon DEF Typed
  <1>2. prep' = [prep EXCEPT ![p] = z] /\ prep[p].step = "idle"
    BY Zenon DEF RoundFloor, Typed
  <1>3. /\ z \in Prep /\ z.step = "max" /\ z.floor = floor
        /\ z.horizon = prep[p].horizon /\ z.todo = prep[p].todo
    BY Zenon, <1>1 DEF Prep
  <1> HIDE DEF z
  <1> QED
    BY Zenon, <1>2, <1>3, PrepChange

(* What reading the last position at the start of a round does. *)
LEMMA RoundMaxFacts ==
    ASSUME FiniteSetLaws, Typed, FeedOK, NEW p \in Preparers, RoundMax(p)
    PROVE  /\ PrepMoves(p) /\ prep[p].step = "max" /\ prep'[p].step = "list"
           /\ prep'[p].floor = 0 /\ prep'[p].todo = prep[p].todo
           /\ prep'[p].horizon = Higher(Highest(Sequences(events)), prep[p].floor)
  <1> DEFINE h == Higher(Highest(Sequences(events)), prep[p].floor)
  <1>1. prep[p] \in Prep /\ h \in Nat
    BY Zenon, PrepFields, EndFacts
  <1> HIDE DEF h
  <1> DEFINE z == [prep[p] EXCEPT !.step = "list", !.horizon = h, !.floor = 0]
  <1>2. prep' = [prep EXCEPT ![p] = z] /\ prep[p].step = "max"
    BY Zenon DEF RoundMax, Typed, h
  <1>3. /\ z \in Prep /\ z.step = "list" /\ z.floor = 0 /\ z.horizon = h
        /\ z.todo = prep[p].todo
    BY Zenon, <1>1 DEF Prep
  <1> HIDE DEF z
  <1> QED
    BY Zenon, <1>2, <1>3, PrepChange DEF h

(* What listing the subscriptions does. *)
LEMMA RoundListFacts ==
    ASSUME Typed, NEW p \in Preparers, RoundList(p)
    PROVE  /\ PrepMoves(p) /\ prep[p].step = "list"
           /\ \/ prep'[p] = NoPrep
              \/ /\ prep'[p].step = "next" /\ prep'[p].horizon = prep[p].horizon
                 /\ prep'[p].floor = prep[p].floor
                 /\ \A i \in prep'[p].todo : /\ i.sub \in Subscriptions /\ i.row = subs[i.sub]
                                             /\ Eligible(i.sub, prep[p].horizon)
  <1> DEFINE todo == {s \in Subscriptions : Eligible(s, prep[p].horizon) /\ Writable(s)}
             items == {[sub |-> s, row |-> subs[s]] : s \in todo}
  <1>1. prep[p] \in Prep /\ prep[p].step = "list"
    BY Zenon DEF Typed, RoundList
  <1>2. prep' = [prep EXCEPT ![p] = IF todo = {} THEN NoPrep
                                    ELSE [prep[p] EXCEPT !.step = "next", !.todo = items]]
    BY Zenon DEF RoundList, Typed
  <1>3. /\ items \subseteq Item
        /\ \A i \in items : i.sub \in todo /\ i.row = subs[i.sub]
    BY DEF Item, Typed
  <1>4. CASE todo = {}
    BY Zenon, <1>1, <1>2, <1>4, NoPrepFacts, PrepChange
  <1>5. CASE todo # {}
    <2> DEFINE z == [prep[p] EXCEPT !.step = "next", !.todo = items]
    <2>1. \A s \in todo : s \in Subscriptions /\ Eligible(s, prep[p].horizon)
      BY Zenon
    <2> HIDE DEF items, todo
    <2>2. /\ z \in Prep /\ z.step = "next" /\ z.todo = items
          /\ z.horizon = prep[p].horizon /\ z.floor = prep[p].floor
      BY Zenon, <1>1, <1>3 DEF Prep
    <2>3. prep' = [prep EXCEPT ![p] = z]
      BY Zenon, <1>2, <1>5
    <2> HIDE DEF z
    <2> QED
      BY Zenon, <1>1, <1>3, <2>1, <2>2, <2>3, PrepChange
  <1> QED
    BY Zenon, <1>4, <1>5

(* The events of the tenant of row after its position and up to the horizon. *)
Due(row, horizon) ==
    {e \in events : e.tenant = row.tenant /\ row.position < e.seq /\ e.seq <= horizon}

(* What reading the events of a subscription does. *)
LEMMA PrepareReadFacts ==
    ASSUME Typed, FeedOK, NEW p \in Preparers, PrepareRead(p)
    PROVE  /\ PrepMoves(p) /\ prep[p].step = "next" /\ prep'[p].step = "floor"
           /\ prep'[p].horizon = prep[p].horizon /\ prep'[p].floor = prep[p].floor
           /\ prep'[p].todo \subseteq prep[p].todo
           /\ \E i \in prep[p].todo :
                 /\ prep'[p].sub = i.sub /\ prep'[p].row = i.row
                 /\ prep'[p].rows = FirstEvents(Due(i.row, prep[p].horizon), Budget)
  <1>1. /\ prep[p] \in Prep /\ prep[p].step = "next" /\ prep[p].todo \subseteq Item
    BY Zenon, PrepFields DEF PrepareRead
  <1>2. PICK i \in prep[p].todo : prep' = [prep EXCEPT ![p].step = "floor", ![p].todo = @ \ {i},
                ![p].sub = i.sub, ![p].row = i.row,
                ![p].rows = FirstEvents(Due(i.row, prep[p].horizon), Budget)]
    BY Zenon DEF PrepareRead, Due
  <1> DEFINE rows == FirstEvents(Due(i.row, prep[p].horizon), Budget)
             z == [prep[p] EXCEPT !.step = "floor", !.todo = prep[p].todo \ {i},
                                  !.sub = i.sub, !.row = i.row, !.rows = rows]
  <1>3. i.sub \in Subscriptions /\ i.row \in Row
    BY Zenon, <1>1 DEF Item
  <1>4. rows \subseteq Event
    BY Zenon DEF FirstEvents, Due, FeedOK, Typed
  <1> HIDE DEF rows
  <1>5. prep' = [prep EXCEPT ![p] = z]
    BY Zenon, <1>2 DEF Typed, rows
  <1>6. /\ z \in Prep /\ z.step = "floor" /\ z.horizon = prep[p].horizon
        /\ z.floor = prep[p].floor /\ z.todo = prep[p].todo \ {i}
        /\ z.sub = i.sub /\ z.row = i.row /\ z.rows = rows
    BY Zenon, <1>1, <1>3, <1>4 DEF Prep
  <1> HIDE DEF z
  <1>7. PrepMoves(p) /\ prep'[p] = z
    BY Zenon, <1>5, <1>6, PrepChange
  <1> QED
    BY Zenon, <1>1, <1>6, <1>7 DEF rows

(* What counting the deliveries does. *)
LEMMA PrepareCountFacts ==
    ASSUME FiniteSetLaws, Typed, NEW p \in Preparers, PrepareCount(p)
    PROVE  /\ PrepMoves(p) /\ prep[p].step = "count" /\ prep'[p].step = "advance"
           /\ prep'[p].horizon = prep[p].horizon /\ prep'[p].floor = prep[p].floor
           /\ prep'[p].todo = prep[p].todo /\ prep'[p].sub = prep[p].sub
           /\ prep'[p].row = prep[p].row /\ prep'[p].rows = prep[p].rows
           /\ prep'[p].queued = Cardinality(queue)
           /\ prep'[p].own = Cardinality({d \in queue : d[1] = prep[p].sub})
  <1> DEFINE own == Cardinality({d \in queue : d[1] = prep[p].sub})
  <1>1. prep[p] \in Prep /\ prep[p].step = "count" /\ IsFiniteSet(queue)
    BY Zenon DEF Typed, PrepareCount
  <1>2. Cardinality(queue) \in Nat /\ own \in Nat
    BY Zenon, <1>1, PartIsFinite, SizeIsNatural
  <1> HIDE DEF own
  <1> DEFINE z == [prep[p] EXCEPT !.step = "advance", !.queued = Cardinality(queue), !.own = own]
  <1>3. prep' = [prep EXCEPT ![p] = z]
    BY Zenon DEF PrepareCount, Typed, own
  <1>4. /\ z \in Prep /\ z.step = "advance" /\ z.horizon = prep[p].horizon
        /\ z.floor = prep[p].floor /\ z.todo = prep[p].todo /\ z.sub = prep[p].sub
        /\ z.row = prep[p].row /\ z.rows = prep[p].rows
        /\ z.queued = Cardinality(queue) /\ z.own = own
    BY Zenon, <1>1, <1>2 DEF Prep
  <1> HIDE DEF z
  <1> QED
    BY Zenon, <1>1, <1>3, <1>4, PrepChange DEF own

(* The floor is not behind: the round goes on to count. *)
LEMMA CountsNext ==
    ASSUME Typed, NEW p \in Preparers, prep' = [prep EXCEPT ![p].step = "count"]
    PROVE  /\ PrepMoves(p) /\ prep'[p].step = "count"
           /\ prep'[p].horizon = prep[p].horizon /\ prep'[p].floor = prep[p].floor
           /\ prep'[p].todo = prep[p].todo /\ prep'[p].sub = prep[p].sub
           /\ prep'[p].row = prep[p].row /\ prep'[p].rows = prep[p].rows
  <1> DEFINE z == [prep[p] EXCEPT !.step = "count"]
  <1>1. prep[p] \in Prep
    BY Zenon DEF Typed
  <1>2. prep' = [prep EXCEPT ![p] = z]
    BY Zenon DEF Typed
  <1>3. /\ z \in Prep /\ z.step = "count" /\ z.horizon = prep[p].horizon
        /\ z.floor = prep[p].floor /\ z.todo = prep[p].todo /\ z.sub = prep[p].sub
        /\ z.row = prep[p].row /\ z.rows = prep[p].rows
    BY Zenon, <1>1 DEF Prep
  <1> HIDE DEF z
  <1> QED
    BY Zenon, <1>2, <1>3, PrepChange

(* The round ends, or goes on with the next subscription. *)
Leaves(p) ==
    /\ PrepMoves(p)
    /\ \/ prep'[p] = NoPrep
       \/ /\ prep'[p].step = "next" /\ prep'[p].todo = prep[p].todo
          /\ prep'[p].horizon = prep[p].horizon /\ prep'[p].floor = 0

(* A round that fails leaves its subscription. *)
LEMMA RoundFailsFacts ==
    ASSUME Typed, NEW p \in Preparers, prep' = [prep EXCEPT ![p] = NoPrep]
    PROVE  Leaves(p)
  BY Zenon, NoPrepFacts, PrepChange DEF Leaves

(* A round that is done with a subscription leaves it. *)
LEMMA DoneFacts ==
    ASSUME Typed, NEW p \in Preparers, Done(p)
    PROVE  Leaves(p)
  <1> DEFINE z == [NoPrep EXCEPT !.step = "next", !.todo = prep[p].todo,
                                 !.horizon = prep[p].horizon]
  <1>1. prep' = [prep EXCEPT ![p] = IF prep[p].todo = {} THEN NoPrep ELSE z]
    BY Zenon DEF Done, Typed
  <1>2. prep[p].todo \subseteq Item /\ prep[p].horizon \in Nat
    BY Zenon, PrepFields
  <1>3. /\ z \in Prep /\ z.step = "next" /\ z.todo = prep[p].todo
        /\ z.horizon = prep[p].horizon /\ z.floor = 0
    BY Zenon, <1>2, NoRowFacts DEF Prep, NoPrep
  <1> HIDE DEF z
  <1>4. CASE prep[p].todo = {}
    BY Zenon, <1>1, <1>4, RoundFailsFacts
  <1>5. CASE prep[p].todo # {}
    BY Zenon, <1>1, <1>3, <1>5, PrepChange DEF Leaves
  <1> QED
    BY Zenon, <1>4, <1>5

(* The subscription advances under the revision that was listed, or not at all. *)
Advances(p, position, state, deliveries) ==
    /\ Current(prep[p].sub, prep[p].row) /\ Rewrites(prep[p].sub)
    /\ subs'[prep[p].sub].tenant = subs[prep[p].sub].tenant
    /\ subs'[prep[p].sub].position = position /\ subs'[prep[p].sub].state = state
    /\ queue' = queue \cup deliveries

(* An advance writes its row and deliveries, or nothing. *)
LEMMA AdvanceFacts ==
    ASSUME Typed, NEW p \in Preparers, prep[p].sub \in Subscriptions, NEW position \in Nat,
           NEW state \in States, NEW deliveries, Advance(p, position, state, deliveries)
    PROVE  /\ Leaves(p)
           /\ Advances(p, position, state, deliveries) \/ UNCHANGED <<subs, queue>>
  <1> DEFINE s == prep[p].sub
             v == prep[p].row.revision + 1
  <1>1. prep[p].row \in Row /\ v \in Nat
    <2>1. prep[p].row.revision \in Nat
      BY Zenon, PrepFields, RowFields
    <2>2. v \in Nat
      BY <2>1
    <2> QED
      BY Zenon, <2>2, PrepFields
  <1>2. Leaves(p)
    BY Zenon, DoneFacts DEF Advance
  <1>3. CASE Current(s, prep[p].row)
    <2>1. Repositions(s, position, state, v) /\ queue' = queue \cup deliveries
      BY Zenon, <1>3 DEF Advance, Repositions
    <2>2. /\ OnlyRow(s) /\ subs'[s].tenant = subs[s].tenant
          /\ subs'[s].revision = v /\ subs'[s].position = position /\ subs'[s].state = state
      BY <1>1, <2>1, PositionWritten
    <2>3. Rewrites(s)
      BY Zenon, <1>3, <2>2 DEF Rewrites, Current
    <2> QED
      BY Zenon, <1>2, <1>3, <2>1, <2>2, <2>3 DEF Advances
  <1>4. CASE ~Current(s, prep[p].row)
    BY Zenon, <1>2, <1>4 DEF Advance
  <1> QED
    BY Zenon, <1>3, <1>4

(* The new position lies between the old one and the horizon. *)
LEMMA CheckpointFacts ==
    ASSUME FiniteSetLaws, Typed, FeedOK, NEW p \in Preparers, prep[p].rows \subseteq log,
           prep[p].row.position < prep[p].horizon
    PROVE  /\ Checkpoint(p) \in Nat /\ prep[p].row.position <= Checkpoint(p)
           /\ Highest(Sequences(Processed(p))) \in Nat
           /\ \A e \in Processed(p) : e.seq <= Highest(Sequences(Processed(p)))
           /\ Highest(Sequences(Processed(p))) # 0
                 => \E e \in Processed(p) : e.seq = Highest(Sequences(Processed(p)))
  <1> DEFINE S == Sequences(Processed(p))
  <1>1. prep[p].row.position \in Nat /\ prep[p].horizon \in Nat
    BY Zenon, PrepFields, RowFields
  <1>2. Processed(p) \subseteq log
    BY Zenon DEF Processed
  <1>3. S \subseteq Nat /\ \A x \in S : x <= Cardinality(log)
    BY Zenon, <1>2, EndFacts DEF Sequences
  <1>4. /\ Highest(S) \in Nat /\ \A x \in S : x <= Highest(S)
        /\ Highest(S) # 0 => Highest(S) \in S
    BY Zenon, <1>3, EndFacts, HighestFacts
  <1>5. \A x : x \in S <=> \E e \in Processed(p) : e.seq = x
    BY Zenon DEF Sequences
  <1> HIDE DEF S
  <1>6. Checkpoint(p) = prep[p].horizon \/ Checkpoint(p) = Higher(Highest(S), prep[p].row.position)
    BY Zenon DEF Checkpoint, S
  <1>7. Checkpoint(p) \in Nat /\ prep[p].row.position <= Checkpoint(p)
    BY <1>1, <1>4, <1>6 DEF Higher
  <1> QED
    BY Zenon, <1>4, <1>5, <1>7 DEF S
-----------------------------------------------------------------------------
(* Every step keeps the invariant of both databases. *)

(* What is published after a round began lies after its horizon, and what is  *)
(* purged behind it raises the floor.                                         *)
LEMMA RoundKept ==
    ASSUME FiniteSetLaws, Typed, FeedOK, NEW p \in Preparers, RoundPlace(p), prep'[p] = prep[p],
           log \subseteq log', Cardinality(log') \in Nat, Cardinality(log) <= Cardinality(log'),
           \A e \in log' \ log : e.seq \in Nat /\ Cardinality(log) < e.seq,
           floor' \in Nat, floor <= floor', born \subseteq born'
    PROVE  RoundPlace(p)'
  <1>1. /\ prep[p].horizon \in Nat /\ prep[p].floor \in Nat /\ prep[p].row.position \in Nat
        /\ Cardinality(log) \in Nat /\ floor \in Nat
    BY Zenon, PrepFields, RowFields, EndFacts DEF Typed
  <1>2. prep'[p].horizon <= Cardinality(log') /\ prep'[p].floor <= Cardinality(log')
    BY <1>1 DEF RoundPlace
  <1>3. /\ \A s, row, h : Listed(s, row, h) => Listed(s, row, h)'
        /\ InTxn(p)' <=> InTxn(p)
    BY Zenon DEF Listed, InTxn
  <1>4. ASSUME Covers(p) PROVE Covers(p)'
    <2>1. \A e \in log' : e.seq <= prep[p].horizon => e \in log
      BY <1>1 DEF RoundPlace
    <2> QED
      BY Zenon, <1>4, <2>1 DEF Covers
  <1>5. floor' <= prep[p].row.position => floor <= prep[p].row.position
    BY <1>1
  <1> QED
    BY Zenon, <1>2, <1>3, <1>4, <1>5 DEF RoundPlace

(* A round that another step does not touch keeps its place. *)
LEMMA RoundStays ==
    ASSUME FiniteSetLaws, Typed, FeedOK, NEW p \in Preparers, RoundPlace(p), prep'[p] = prep[p],
           UNCHANGED <<log, floor>>, born \subseteq born'
    PROVE  RoundPlace(p)'
  <1>1. /\ Cardinality(log) \in Nat /\ floor \in Nat
    BY Zenon, EndFacts DEF Typed
  <1>2. Cardinality(log) <= Cardinality(log) /\ floor <= floor
    BY <1>1
  <1> QED
    BY Zenon, <1>1, <1>2, RoundKept

(* The PutWebhook of b, if there is one, is the same as before. *)
SamePut(b) ==
    txn'[b].op = "put" => /\ txn[b].op = "put" /\ txn'[b].tenant = txn[b].tenant
                          /\ txn'[b].sub = txn[b].sub /\ txn'[b].row = txn[b].row

(* The subscriptions of a tenant are finitely many. *)
LEMMA OfTenantFinite ==
    ASSUME FiniteSetLaws, IsFiniteSet(Existing)
    PROVE  \A t : /\ IsFiniteSet(OfTenant(t)) /\ Cardinality(OfTenant(t)) \in Nat
                  /\ CountOf(t) = Cardinality(OfTenant(t))
  <1>1. \A t : OfTenant(t) \subseteq Existing
    BY Zenon DEF OfTenant, Existing
  <1>2. \A t : CountOf(t) = Cardinality(OfTenant(t))
    BY Zenon DEF CountOf, OfTenant
  <1> QED
    BY Zenon, <1>1, <1>2, PartIsFinite, SizeIsNatural

(* A tenant that gained no subscription still has room for the row of its     *)
(* PutWebhook.                                                                *)
LEMMA PutPlaceKept ==
    ASSUME FiniteSetLaws,
           IsFiniteSet(Existing), NEW a \in Agents, PutPlace(a), \A b \in Agents : SamePut(b),
           NEW t, t = txn[a].tenant, OfTenant(t)' \subseteq OfTenant(t)
    PROVE  PutPlace(a)'
  <1> SUFFICES ASSUME txn'[a].op = "put"
               PROVE  /\ txn'[a].row # NoRow => txn'[a].row.tenant = txn'[a].tenant
                      /\ Cardinality(OfTenant(t)' \ {txn'[a].sub}) < MaxSubscriptions
                      /\ TenantLocked(a, t)' /\ txn'[a].tenant = t
    BY Zenon DEF PutPlace, OfTenant, Exists, TenantLocked
  <1> DEFINE s == txn[a].sub
             A == OfTenant(t) \ {s}
             B == OfTenant(t)' \ {s}
  <1>1. /\ txn[a].op = "put" /\ txn'[a].tenant = t /\ txn'[a].sub = s
        /\ txn'[a].row = txn[a].row
    BY Zenon DEF SamePut
  <1>2. TenantLocked(a, t)'
    BY Zenon, <1>1 DEF PutPlace, TenantLocked, SamePut
  <1>3. Cardinality(A) < MaxSubscriptions
    BY Zenon, <1>1 DEF PutPlace
  <1>4. IsFiniteSet(A) /\ Cardinality(A) \in Nat
    BY Zenon, OfTenantFinite, PartIsFinite, SizeIsNatural
  <1>5. B \in SUBSET A
    BY Zenon
  <1> HIDE DEF A, B
  <1>6. Cardinality(B) <= Cardinality(A) /\ Cardinality(B) \in Nat
    BY Zenon, <1>4, <1>5, PartIsFinite, SizeIsNatural
  <1>7. Cardinality(B) < MaxSubscriptions
    BY <1>3, <1>4, <1>6, CapacityAssumption
  <1> QED
    BY Zenon, <1>1, <1>2, <1>7 DEF PutPlace, B

(* The steps that create nothing. *)
LEMMA CapKept ==
    ASSUME FiniteSetLaws, CapOK, \A b \in Agents : SamePut(b), Existing' \subseteq Existing,
           \A t : OfTenant(t)' \subseteq OfTenant(t)
    PROVE  CapOK'
  <1>1. IsFiniteSet(Existing) /\ IsFiniteSet(Existing')
    BY Zenon, PartIsFinite DEF CapOK
  <1>2. \A a \in Agents : PutPlace(a)'
    BY Zenon, <1>1, PutPlaceKept DEF CapOK
  <1>3. ASSUME NEW t \in Tenants PROVE CountOf(t)' <= MaxSubscriptions
    <2>1. CountOf(t) <= MaxSubscriptions
      BY Zenon DEF CapOK, SubscriptionCapHolds
    <2>2. /\ CountOf(t) \in Nat /\ CountOf(t) = Cardinality(OfTenant(t))
          /\ IsFiniteSet(OfTenant(t))
      BY Zenon, <1>1, OfTenantFinite
    <2>3. CountOf(t)' = Cardinality(OfTenant(t)')
      BY Zenon DEF CountOf, OfTenant
    <2>4. Cardinality(OfTenant(t)') <= Cardinality(OfTenant(t)) /\ Cardinality(OfTenant(t)') \in Nat
      BY Zenon, <2>2, PartIsFinite, SizeIsNatural
    <2> QED
      BY <2>1, <2>2, <2>3, <2>4, CapacityAssumption
  <1> QED
    BY Zenon, <1>1, <1>2, <1>3 DEF CapOK, SubscriptionCapHolds

(* The steps that leave the subscriptions alone, and those that keep their    *)
(* tenants.                                                                   *)
LEMMA CapStays ==
    ASSUME FiniteSetLaws, CapOK, \A b \in Agents : SamePut(b), UNCHANGED subs
    PROVE  CapOK'
  <1>1. Existing' = Existing /\ \A t : OfTenant(t)' = OfTenant(t)
    BY Zenon DEF Existing, OfTenant, Exists
  <1> QED
    BY Zenon, <1>1, CapKept

(* A rewritten row counts for its tenant as before. *)
LEMMA CapRewrites ==
    ASSUME FiniteSetLaws, CapOK, Typed, \A b \in Agents : SamePut(b), NEW s, Rewrites(s),
           subs'[s].tenant = subs[s].tenant
    PROVE  CapOK'
  <1>1. ASSUME NEW u \in Subscriptions
        PROVE  (Exists(u)' => Exists(u)) /\ subs'[u].tenant = subs[u].tenant
    BY Zenon, <1>1 DEF Rewrites, OnlyRow, Exists
  <1>2. Existing' \subseteq Existing /\ \A t : OfTenant(t)' \subseteq OfTenant(t)
    BY Zenon, <1>1 DEF Existing, OfTenant
  <1> QED
    BY Zenon, <1>2, CapKept

(* A PutWebhook writes its row into the room it had. *)
LEMMA CapPut ==
    ASSUME FiniteSetLaws, CapOK, Typed, NEW a \in Agents, txn[a].op = "put", Writes(a),
           OnlyRow(txn[a].sub), subs'[txn[a].sub].tenant = txn[a].tenant
    PROVE  CapOK'
  <1>1. PICK s, t0 : s = txn[a].sub /\ t0 = txn[a].tenant
    BY Zenon
  <1>2. /\ Existing' \subseteq Existing \cup {s}
        /\ OfTenant(t0)' \subseteq (OfTenant(t0) \ {s}) \cup {s}
    BY Zenon, <1>1 DEF OnlyRow, Existing, OfTenant, Exists
  <1>3. ASSUME NEW t, t # t0 PROVE OfTenant(t)' \subseteq OfTenant(t)
    BY Zenon, <1>1, <1>3 DEF OnlyRow, OfTenant, Exists
  <1>4. IsFiniteSet(Existing) /\ IsFiniteSet(Existing')
    <2>1. IsFiniteSet(Existing)
      BY Zenon DEF CapOK
    <2>2. IsFiniteSet(Existing \cup {s})
      BY Zenon, <2>1, OneMore
    <2> QED
      BY Zenon, <1>2, <2>1, <2>2, PartIsFinite
  <1>5. /\ \A b \in Agents : SamePut(b) /\ PutPlace(b)
        /\ txn'[a].op = "none" /\ \A b \in Agents \ {a} : txn'[b] = txn[b]
    BY Zenon, NoTxnFacts DEF Writes, Moves, SamePut, CapOK
  <1>6. ASSUME NEW b \in Agents PROVE PutPlace(b)'
    <2>1. CASE b = a \/ txn[b].op # "put"
      <3>1. txn'[b].op # "put"
        BY Zenon, <1>5, <2>1
      <3> QED
        BY Zenon, <3>1 DEF PutPlace
    <2>2. CASE b # a /\ txn[b].op = "put"
      <3>1. txn[b].tenant # t0
        BY Zenon, <1>1, <1>5, <2>2 DEF PutPlace, TenantLocked
      <3>2. PICK t : t = txn[b].tenant
        BY Zenon
      <3>3. OfTenant(t)' \subseteq OfTenant(t)
        BY Zenon, <1>3, <3>1, <3>2
      <3> QED
        BY Zenon, <1>4, <1>5, <3>2, <3>3, PutPlaceKept
    <2> QED
      BY Zenon, <2>1, <2>2
  <1>7. ASSUME NEW t \in Tenants PROVE CountOf(t)' <= MaxSubscriptions
    <2>1. /\ CountOf(t) <= MaxSubscriptions /\ CountOf(t) = Cardinality(OfTenant(t))
          /\ CountOf(t) \in Nat /\ IsFiniteSet(OfTenant(t)) /\ IsFiniteSet(OfTenant(t0))
      BY Zenon, <1>4, OfTenantFinite DEF CapOK, SubscriptionCapHolds
    <2>2. CountOf(t)' = Cardinality(OfTenant(t)')
      BY Zenon DEF CountOf, OfTenant
    <2>3. CASE t # t0
      <3>1. /\ Cardinality(OfTenant(t)') <= Cardinality(OfTenant(t))
            /\ Cardinality(OfTenant(t)') \in Nat
        BY Zenon, <1>3, <2>1, <2>3, PartIsFinite, SizeIsNatural
      <3> QED
        BY <2>1, <2>2, <3>1, CapacityAssumption
    <2>4. CASE t = t0
      <3> DEFINE A == OfTenant(t0) \ {s}
      <3>1. Cardinality(A) < MaxSubscriptions
        BY Zenon, <1>1, <1>5 DEF PutPlace
      <3>2. IsFiniteSet(A) /\ Cardinality(A) \in Nat
        BY Zenon, <2>1, PartIsFinite, SizeIsNatural
      <3>3. s \notin A
        BY Zenon
      <3> HIDE DEF A
      <3>4. IsFiniteSet(A \cup {s}) /\ Cardinality(A \cup {s}) = Cardinality(A) + 1
        BY Zenon, <3>2, <3>3, OneMore
      <3>5. OfTenant(t0)' \subseteq A \cup {s}
        BY Zenon, <1>2 DEF A
      <3>6. /\ Cardinality(OfTenant(t0)') <= Cardinality(A \cup {s})
            /\ Cardinality(OfTenant(t0)') \in Nat
        BY Zenon, <3>4, <3>5, PartIsFinite, SizeIsNatural
      <3> QED
        BY <2>2, <2>4, <3>1, <3>2, <3>4, <3>6, CapacityAssumption
    <2> QED
      BY Zenon, <2>3, <2>4
  <1> QED
    BY Zenon, <1>4, <1>6, <1>7 DEF CapOK, SubscriptionCapHolds

(* The steps that leave the feed alone. *)
LEMMA BaseParts ==
    ASSUME FiniteSetLaws, Base, UNCHANGED feed, born \subseteq born', born' \subseteq Subscriptions,
           subs' \in [Subscriptions -> Row], queue' \subseteq Deliveries, IsFiniteSet(queue'),
           finished' \subseteq Deliveries, prep' \in [Preparers -> Prep],
           txn' \in [Agents -> {NoTxn} \cup Txn], RowsOK', CapOK',
           \A p \in Preparers : prep'[p] = prep[p] \/ RoundPlace(p)'
    PROVE  Base'
  <1>1. Typed' /\ FeedOK'
    BY Zenon DEF Base, Typed, FeedOK, feed
  <1>2. ASSUME NEW p \in Preparers PROVE RoundPlace(p)'
    <2>1. CASE prep'[p] = prep[p]
      BY Zenon, <2>1, RoundStays DEF Base, feed
    <2> QED
      BY Zenon, <2>1
  <1> QED
    BY Zenon, <1>1, <1>2 DEF Base

(* Publish appends after the end of the feed. *)
LEMMA PublishKeeps == ASSUME FiniteSetLaws, Base, NEW k \in Kinds, Publish(k) PROVE Base'
  <1> DEFINE e == [seq |-> Cardinality(log) + 1, tenant |-> k[1], type |-> k[2]]
  <1>1. /\ events' = events \cup {e} /\ log' = log \cup {e}
        /\ UNCHANGED <<floor, active, subs, queue, finished, born, prep, txn>>
    BY Zenon DEF Publish
  <1>2. Typed /\ FeedOK /\ RowsOK /\ CapOK /\ \A p \in Preparers : RoundPlace(p)
    BY Zenon DEF Base
  <1>3. /\ Cardinality(log) \in Nat /\ \A x \in log : x.seq \in Nat /\ x.seq <= Cardinality(log)
        /\ floor \in Nat /\ floor <= Cardinality(log)
    BY Zenon, <1>2, EndFacts DEF Typed, FeedOK
  <1>4. e \in Event /\ e.seq = Cardinality(log) + 1
    BY <1>3, KindsAssumption DEF Event
  <1> HIDE DEF e
  <1>5. e \notin log /\ floor < e.seq /\ Cardinality(log) < e.seq /\ e.seq \in Nat
    BY <1>3, <1>4
  <1>6. IsFiniteSet(log') /\ Cardinality(log') = Cardinality(log) + 1
    BY Zenon, <1>1, <1>2, <1>5, OneMore DEF Typed
  <1>7. Typed'
    BY Zenon, <1>1, <1>2, <1>4, <1>6 DEF Typed
  <1>8. FeedOK'
    <2>1. \A x \in log' : 1 <= x.seq /\ x.seq <= Cardinality(log')
      BY <1>1, <1>2, <1>3, <1>4, <1>6 DEF FeedOK
    <2>2. \A x, y \in log' : x.seq = y.seq => x = y
      BY <1>1, <1>2, <1>3, <1>5 DEF FeedOK
    <2>3. events' = {x \in log' : x.seq > floor'} /\ floor' <= Cardinality(log')
      BY <1>1, <1>2, <1>3, <1>5, <1>6 DEF FeedOK
    <2> QED
      BY Zenon, <2>1, <2>2, <2>3 DEF FeedOK
  <1>9. RowsOK'
    BY Zenon, <1>1, <1>2 DEF RowsOK, Exists
  <1>10. CapOK'
    BY Zenon, <1>1, <1>2, CapStays DEF SamePut
  <1>11. /\ \A x \in log' \ log : x.seq \in Nat /\ Cardinality(log) < x.seq
         /\ Cardinality(log') \in Nat /\ Cardinality(log) <= Cardinality(log') /\ floor <= floor'
    BY <1>1, <1>3, <1>5, <1>6
  <1>12. \A p \in Preparers : RoundPlace(p)'
    BY Zenon, <1>1, <1>2, <1>3, <1>11, RoundKept
  <1> QED
    BY Zenon, <1>7, <1>8, <1>9, <1>10, <1>12 DEF Base

(* Purge deletes a prefix and raises the floor to its end. *)
LEMMA PurgeKeeps == ASSUME FiniteSetLaws, Base, Purge PROVE Base'
  <1>1. PICK x \in events : floor' = x.seq /\ events' = {e \in events : e.seq > x.seq}
    BY Zenon DEF Purge, Sequences
  <1>2. UNCHANGED <<log, active, subs, queue, finished, born, prep, txn>>
    BY Zenon DEF Purge
  <1>3. Typed /\ FeedOK /\ RowsOK /\ CapOK /\ \A p \in Preparers : RoundPlace(p)
    BY Zenon DEF Base
  <1>4. /\ Cardinality(log) \in Nat /\ \A e \in log : e.seq \in Nat /\ e.seq <= Cardinality(log)
        /\ floor \in Nat /\ events = {e \in log : e.seq > floor}
    BY Zenon, <1>3, EndFacts DEF Typed, FeedOK
  <1>5. /\ floor' \in Nat /\ floor <= floor' /\ floor' <= Cardinality(log)
        /\ Cardinality(log) <= Cardinality(log)
    BY <1>1, <1>4
  <1>6. Typed'
    BY Zenon, <1>2, <1>3, <1>5 DEF Typed
  <1>7. events' = {e \in log' : e.seq > floor'}
    BY <1>1, <1>2, <1>4
  <1>8. FeedOK'
    BY Zenon, <1>2, <1>3, <1>5, <1>7 DEF FeedOK
  <1>9. RowsOK'
    BY Zenon, <1>2, <1>3 DEF RowsOK, Exists
  <1>10. CapOK'
    BY Zenon, <1>2, <1>3, CapStays DEF SamePut
  <1>11. \A p \in Preparers : RoundPlace(p)'
    BY Zenon, <1>2, <1>3, <1>4, <1>5, RoundKept
  <1> QED
    BY Zenon, <1>6, <1>8, <1>9, <1>10, <1>11 DEF Base

(* The tenants and the deliveries that are finished or forgotten. *)
LEMMA QuietKeeps ==
    ASSUME FiniteSetLaws, Base, UNCHANGED <<feed, subs, born, prep, txn>>, queue' \subseteq queue,
           finished' \subseteq queue \cup finished
    PROVE  Base'
  <1>1. /\ born \subseteq born' /\ born' \subseteq Subscriptions
        /\ subs' \in [Subscriptions -> Row] /\ queue' \subseteq Deliveries /\ IsFiniteSet(queue')
        /\ finished' \subseteq Deliveries /\ prep' \in [Preparers -> Prep]
        /\ txn' \in [Agents -> {NoTxn} \cup Txn]
    BY Zenon, PartIsFinite DEF Base, Typed
  <1>2. RowsOK'
    BY Zenon DEF Base, RowsOK, Exists
  <1>3. CapOK'
    BY Zenon, CapStays DEF Base, SamePut
  <1> QED
    BY Zenon, <1>1, <1>2, <1>3, BaseParts

(* The steps that only move a request on. *)
LEMMA TxnKeeps ==
    ASSUME FiniteSetLaws, Base, NEW a \in Agents, Moves(a), SamePut(a),
           UNCHANGED <<feed, subs, queue, finished, born, prep>>
    PROVE  Base'
  <1>1. \A b \in Agents : SamePut(b)
    BY Zenon DEF Moves, SamePut
  <1>2. CapOK' /\ RowsOK'
    BY Zenon, <1>1, CapStays DEF Base, RowsOK, Exists
  <1> QED
    BY Zenon, <1>2, BaseParts DEF Base, Typed, Moves

(* PutBegin finds room for its row, or the row it replaces. *)
LEMMA PutBeginKeeps ==
    ASSUME FiniteSetLaws, Base, NEW a \in Agents, NEW s \in Subscriptions, NEW t \in Tenants,
           NEW types \in Filters, NEW enabled \in BOOLEAN, PutBegin(a, s, t, types, enabled)
    PROVE  Base'
  <1>1. /\ Moves(a) /\ txn'[a].op = "put" /\ txn'[a].sub = s /\ txn'[a].tenant = t
        /\ txn'[a].row = subs[s]
    BY PutBeginFacts DEF Base
  <1>2. /\ TenantLocked(a, t)
        /\ IF Exists(s) THEN subs[s].tenant = t ELSE CountOf(t) < MaxSubscriptions
        /\ UNCHANGED <<feed, subs, queue, finished, born, prep>>
    BY Zenon DEF PutBegin
  <1>3. /\ IsFiniteSet(OfTenant(t)) /\ CountOf(t) = Cardinality(OfTenant(t))
        /\ Cardinality(OfTenant(t)) \in Nat /\ Cardinality(OfTenant(t)) <= MaxSubscriptions
        /\ MaxSubscriptions \in Nat
    BY Zenon, OfTenantFinite, CapacityAssumption DEF Base, CapOK, SubscriptionCapHolds
  <1>4. Cardinality(OfTenant(t) \ {s}) < MaxSubscriptions
    <2>1. CASE Exists(s)
      <3>1. s \in OfTenant(t)
        BY Zenon, <2>1, <1>2 DEF OfTenant
      <3>2. Cardinality(OfTenant(t) \ {s}) = Cardinality(OfTenant(t)) - 1
        BY Zenon, <3>1, <1>3, OneLess
      <3> QED
        BY <3>2, <1>3
    <2>2. CASE ~Exists(s)
      <3>1. OfTenant(t) \ {s} = OfTenant(t)
        BY Zenon, <2>2 DEF OfTenant
      <3> QED
        BY Zenon, <3>1, <2>2, <1>2, <1>3
    <2> QED
      BY Zenon, <2>1, <2>2
  <1>5. \A u : OfTenant(u)' = OfTenant(u)
    BY Zenon, <1>2 DEF OfTenant, Exists
  <1>6. txn'[a].row # NoRow => txn'[a].row.tenant = t
    BY Zenon, <1>1, <1>2 DEF Base, RowsOK
  <1>7. TenantLocked(a, t)'
    BY Zenon, <1>1, <1>2 DEF TenantLocked, Moves
  <1>8. PutPlace(a)'
    BY Zenon, <1>1, <1>4, <1>5, <1>6, <1>7 DEF PutPlace
  <1>9. ASSUME NEW b \in Agents \ {a} PROVE PutPlace(b)'
    <2>1. txn'[b] = txn[b] /\ PutPlace(b)
      BY Zenon, <1>1 DEF Moves, Base, CapOK
    <2>2. txn[b].op = "put" => txn[b].tenant # t
      BY Zenon, <1>2 DEF TenantLocked
    <2>3. PICK u : u = txn[b].tenant
      BY Zenon
    <2>4. txn[b].op = "put" => TenantLocked(b, u)'
      BY Zenon, <1>1, <2>1, <2>2, <2>3 DEF TenantLocked, Moves, PutPlace
    <2> QED
      BY Zenon, <2>1, <2>3, <2>4, <1>5 DEF PutPlace
  <1>10. CapOK'
    BY Zenon, <1>2, <1>5, <1>8, <1>9
    DEF Base, CapOK, Existing, Exists, SubscriptionCapHolds, CountOf
  <1>11. RowsOK'
    BY Zenon, <1>2 DEF Base, RowsOK, Exists
  <1> QED
    BY Zenon, <1>1, <1>2, <1>10, <1>11, BaseParts DEF Base, Typed, Moves

(* The steps that write a row: what they leave to show. *)
LEMMA WriteKeeps ==
    ASSUME FiniteSetLaws, Base, NEW s, OnlyRow(s), UNCHANGED feed,
           born \subseteq born', born' \subseteq Subscriptions,
           IF subs'[s].revision > 0 THEN s \in born' ELSE subs'[s] = NoRow,
           queue' \subseteq Deliveries, IsFiniteSet(queue'), finished' \subseteq Deliveries,
           prep' \in [Preparers -> Prep], txn' \in [Agents -> {NoTxn} \cup Txn], CapOK',
           \A p \in Preparers : prep'[p] = prep[p] \/ RoundPlace(p)'
    PROVE  Base'
  <1>1. RowsOK'
    BY Zenon DEF Base, RowsOK, Exists, OnlyRow
  <1> QED
    BY Zenon, <1>1, BaseParts DEF OnlyRow

(* The creation of a subscription keeps Base. *)
LEMMA PutCreateKeeps ==
    ASSUME FiniteSetLaws, Base, NEW a \in Agents, PutCreate(a)
    PROVE  Base'
  <1>1. /\ Writes(a) /\ txn[a].op = "put" /\ OnlyRow(txn[a].sub)
        /\ subs'[txn[a].sub].revision = 1 /\ subs'[txn[a].sub].tenant = txn[a].tenant
        /\ born' = born \cup {txn[a].sub}
    BY Zenon, PutCreateFacts DEF Base
  <1>2. UNCHANGED <<feed, active, queue, finished, prep>>
    BY Zenon DEF PutCreate
  <1>3. CapOK'
    BY Zenon, <1>1, CapPut DEF Base
  <1>4. born \subseteq born' /\ txn[a].sub \in born' /\ born' \subseteq Subscriptions
    BY Zenon, <1>1 DEF Base, Typed, OnlyRow
  <1>5. PICK s : s = txn[a].sub
    BY Zenon
  <1>6. subs'[s].revision > 0
    BY <1>1, <1>5
  <1> QED
    BY Zenon, <1>1, <1>2, <1>3, <1>4, <1>5, <1>6, WriteKeeps DEF Base, Typed, Writes, Moves

(* A row that exists and is written under the next revision still exists. *)
LEMMA Survives ==
    ASSUME Base, NEW s, Rewrites(s), UNCHANGED born
    PROVE  OnlyRow(s) /\ subs'[s].revision > 0 /\ s \in born'
  <1>1. OnlyRow(s) /\ s \in Subscriptions /\ Exists(s) /\ subs'[s].revision = subs[s].revision + 1
    BY Zenon DEF Rewrites, OnlyRow
  <1>2. subs[s].revision \in Nat /\ s \in born
    BY Zenon, <1>1, RowFields DEF Base, Typed, RowsOK
  <1> QED
    BY <1>1, <1>2

(* The update of a subscription keeps Base. *)
LEMMA PutUpdateKeeps ==
    ASSUME FiniteSetLaws, Base, NEW a \in Agents, PutUpdate(a)
    PROVE  Base'
  <1>1. /\ Writes(a) /\ txn[a].op = "put" /\ Rewrites(txn[a].sub) /\ txn[a].row # NoRow
        /\ subs'[txn[a].sub].tenant = txn[a].row.tenant
    BY Zenon, PutUpdateFacts DEF Base
  <1>2. UNCHANGED <<feed, active, queue, finished, born, prep>>
    BY Zenon DEF PutUpdate
  <1>3. txn[a].row.tenant = txn[a].tenant
    BY Zenon, <1>1 DEF Base, CapOK, PutPlace
  <1>4. CapOK'
    BY Zenon, <1>1, <1>3, CapPut DEF Base, Rewrites
  <1>5. PICK s : s = txn[a].sub
    OBVIOUS
  <1>6. OnlyRow(s) /\ subs'[s].revision > 0 /\ s \in born'
    BY Zenon, <1>1, <1>2, <1>5, Survives
  <1> QED
    BY Zenon, <1>1, <1>2, <1>4, <1>6, WriteKeeps DEF Base, Typed, Writes, Moves

(* A request that ends is no PutWebhook any more. *)
LEMMA WriteEnds == ASSUME NEW a \in Agents, Writes(a) PROVE \A b \in Agents : SamePut(b)
  BY Zenon, NoTxnFacts DEF Writes, Moves, SamePut

(* The write of a reset keeps Base. *)
LEMMA ResetWriteKeeps ==
    ASSUME FiniteSetLaws, Base, NEW a \in Agents, ResetWrite(a)
    PROVE  Base'
  <1>1. /\ Writes(a) /\ Rewrites(txn[a].sub)
        /\ subs'[txn[a].sub].tenant = subs[txn[a].sub].tenant
        /\ queue' \subseteq queue /\ finished' \subseteq finished
    BY Zenon, ResetWriteFacts DEF Base
  <1>2. UNCHANGED <<feed, active, born, prep>>
    BY Zenon DEF ResetWrite
  <1>3. PICK s : s = txn[a].sub
    OBVIOUS
  <1>4. CapOK'
    BY Zenon, <1>1, <1>3, WriteEnds, CapRewrites DEF Base
  <1>5. OnlyRow(s) /\ subs'[s].revision > 0 /\ s \in born'
    BY Zenon, <1>1, <1>2, <1>3, Survives
  <1>6. queue' \subseteq Deliveries /\ finished' \subseteq Deliveries /\ IsFiniteSet(queue')
    BY Zenon, <1>1, PartIsFinite DEF Base, Typed
  <1> QED
    BY Zenon, <1>1, <1>2, <1>4, <1>5, <1>6, WriteKeeps DEF Base, Typed, Writes, Moves

(* The write of a deletion keeps Base. *)
LEMMA DeleteWriteKeeps ==
    ASSUME FiniteSetLaws, Base, NEW a \in Agents, DeleteWrite(a)
    PROVE  Base'
  <1>1. PICK s : s = txn[a].sub
    OBVIOUS
  <1>2. /\ Writes(a) /\ OnlyRow(s) /\ (subs'[s] = NoRow \/ subs'[s] = subs[s])
        /\ queue' \subseteq queue /\ finished' \subseteq finished
    BY Zenon, <1>1, DeleteWriteFacts DEF Base
  <1>3. UNCHANGED <<feed, active, born, prep>>
    BY Zenon DEF DeleteWrite
  <1>4. ~(NoRow.revision > 0)
    BY NoRowFacts
  <1>5. Existing' \subseteq Existing /\ \A t : OfTenant(t)' \subseteq OfTenant(t)
    BY Zenon, <1>2, <1>4 DEF Existing, OfTenant, Exists, OnlyRow
  <1>6. CapOK'
    BY Zenon, <1>2, <1>5, WriteEnds, CapKept DEF Base
  <1>7. IF subs'[s].revision > 0 THEN s \in born' ELSE subs'[s] = NoRow
    BY Zenon, <1>2, <1>3, <1>4 DEF Base, RowsOK, Exists, OnlyRow
  <1>8. queue' \subseteq Deliveries /\ finished' \subseteq Deliveries /\ IsFiniteSet(queue')
    BY Zenon, <1>2, PartIsFinite DEF Base, Typed
  <1> QED
    BY Zenon, <1>2, <1>3, <1>6, <1>7, <1>8, WriteKeeps DEF Base, Typed, Writes, Moves

(* The steps of a round that write nothing. *)
LEMMA PrepKeeps ==
    ASSUME FiniteSetLaws, Base, NEW p \in Preparers, PrepMoves(p), RoundPlace(p)',
           UNCHANGED <<feed, subs, queue, finished, born, txn>>
    PROVE  Base'
  <1>1. \A b \in Agents : SamePut(b)
    BY Zenon DEF SamePut
  <1>2. CapOK' /\ RowsOK'
    BY Zenon, <1>1, CapStays DEF Base, RowsOK, Exists
  <1> QED
    BY Zenon, <1>2, BaseParts DEF Base, Typed, PrepMoves

(* A round between two subscriptions has only its list. *)
LEMMA BetweenPlace ==
    ASSUME Base, NEW p \in Preparers, ~InTxn(p)', UNCHANGED <<log, born>>,
           prep'[p].horizon \in Nat, prep'[p].horizon <= Cardinality(log),
           prep'[p].floor \in Nat, prep'[p].floor <= Cardinality(log),
           \A i \in prep'[p].todo : Listed(i.sub, i.row, prep'[p].horizon),
           prep'[p].step = "next" \/ prep'[p].todo = {}
    PROVE  RoundPlace(p)'
  <1>1. ASSUME NEW i \in prep'[p].todo PROVE Listed(i.sub, i.row, prep[p].horizon)'
    BY Zenon DEF Listed
  <1>2. prep'[p].step \in {"idle", "max", "list"} => prep'[p].todo = {}
    BY Zenon
  <1> QED
    BY Zenon, <1>1, <1>2 DEF RoundPlace

(* The length of the log and the floor are numbers. *)
LEMMA NothingIsLess ==
    ASSUME FiniteSetLaws, Base
    PROVE  /\ Cardinality(log) \in Nat /\ 0 <= Cardinality(log)
           /\ floor \in Nat /\ floor <= Cardinality(log)
  <1>1. Cardinality(log) \in Nat /\ floor <= Cardinality(log) /\ floor \in Nat
    BY Zenon, EndFacts DEF Base, FeedOK, Typed
  <1> QED
    BY <1>1

(* A round that leaves its subscription is in its place. *)
LEMMA LeavesPlace ==
    ASSUME FiniteSetLaws, Base, NEW p \in Preparers, Leaves(p), UNCHANGED <<log, born>>
    PROVE  RoundPlace(p)'
  <1>1. Cardinality(log) \in Nat /\ 0 <= Cardinality(log) /\ 0 \in Nat
    BY Zenon, NothingIsLess
  <1>2. CASE prep'[p] = NoPrep
    BY Zenon, <1>1, <1>2, NoPrepFacts, BetweenPlace DEF InTxn
  <1>3. CASE prep'[p] # NoPrep
    <2>1. /\ prep'[p].step = "next" /\ prep'[p].todo = prep[p].todo
          /\ prep'[p].horizon = prep[p].horizon /\ prep'[p].floor = 0
      BY Zenon, <1>3 DEF Leaves
    <2>2. /\ prep[p].horizon \in Nat /\ prep[p].horizon <= Cardinality(log)
          /\ \A i \in prep[p].todo : Listed(i.sub, i.row, prep[p].horizon)
      BY Zenon, PrepFields DEF Base, RoundPlace
    <2> QED
      BY Zenon, <1>1, <2>1, <2>2, BetweenPlace DEF InTxn
  <1> QED
    BY Zenon, <1>2, <1>3

(* Reading the floor keeps Base. *)
LEMMA RoundFloorKeeps ==
    ASSUME FiniteSetLaws, Base, NEW p \in Preparers, RoundFloor(p)
    PROVE  Base'
  <1>1. /\ PrepMoves(p) /\ prep[p].step = "idle" /\ prep'[p].step = "max"
        /\ prep'[p].floor = floor /\ prep'[p].horizon = prep[p].horizon
        /\ prep'[p].todo = prep[p].todo
    BY Zenon, RoundFloorFacts DEF Base
  <1>2. UNCHANGED <<feed, subs, queue, finished, born, txn>> /\ UNCHANGED log
    BY Zenon DEF RoundFloor, feed
  <1>3. /\ prep[p].horizon \in Nat /\ prep[p].horizon <= Cardinality(log) /\ prep[p].todo = {}
        /\ floor <= Cardinality(log) /\ floor \in Nat
    BY Zenon, <1>1, PrepFields, NothingIsLess DEF Base, RoundPlace
  <1>4. RoundPlace(p)'
    BY Zenon, <1>1, <1>2, <1>3, BetweenPlace DEF InTxn
  <1> QED
    BY Zenon, <1>1, <1>2, <1>4, PrepKeeps

(* Reading the last position keeps Base. *)
LEMMA RoundMaxKeeps ==
    ASSUME FiniteSetLaws, Base, NEW p \in Preparers, RoundMax(p)
    PROVE  Base'
  <1>1. /\ PrepMoves(p) /\ prep[p].step = "max" /\ prep'[p].step = "list"
        /\ prep'[p].floor = 0 /\ prep'[p].todo = prep[p].todo
        /\ prep'[p].horizon = Higher(Highest(Sequences(events)), prep[p].floor)
    BY Zenon, RoundMaxFacts DEF Base
  <1>2. UNCHANGED <<feed, subs, queue, finished, born, txn>> /\ UNCHANGED log
    BY Zenon DEF RoundMax, feed
  <1>3. /\ prep[p].floor \in Nat /\ prep[p].floor <= Cardinality(log) /\ prep[p].todo = {}
    BY Zenon, <1>1, PrepFields DEF Base, RoundPlace
  <1>4. prep'[p].horizon \in Nat /\ prep'[p].horizon <= Cardinality(log)
    BY Zenon, <1>1, <1>3, EndFacts DEF Base
  <1>5. 0 \in Nat /\ 0 <= Cardinality(log)
    BY Zenon, NothingIsLess
  <1>6. RoundPlace(p)'
    BY Zenon, <1>1, <1>2, <1>3, <1>4, <1>5, BetweenPlace DEF InTxn
  <1> QED
    BY Zenon, <1>1, <1>2, <1>6, PrepKeeps

(* Listing the subscriptions keeps Base. *)
LEMMA RoundListKeeps ==
    ASSUME FiniteSetLaws, Base, NEW p \in Preparers, RoundList(p)
    PROVE  Base'
  <1>1. PrepMoves(p)
    BY Zenon, RoundListFacts DEF Base
  <1>2. UNCHANGED <<feed, subs, queue, finished, born, txn>> /\ UNCHANGED log
    BY Zenon DEF RoundList, feed
  <1>3. CASE prep'[p] = NoPrep
    <2>1. Leaves(p)
      BY Zenon, <1>1, <1>3 DEF Leaves
    <2> QED
      BY Zenon, <1>1, <1>2, <2>1, LeavesPlace, PrepKeeps
  <1>4. CASE prep'[p] # NoPrep
    <2>1. /\ prep'[p].step = "next" /\ prep'[p].horizon = prep[p].horizon
          /\ prep'[p].floor = prep[p].floor
          /\ \A i \in prep'[p].todo : /\ i.sub \in Subscriptions /\ i.row = subs[i.sub]
                                      /\ Eligible(i.sub, prep[p].horizon)
      BY Zenon, <1>4, RoundListFacts DEF Base
    <2>2. ASSUME NEW i \in prep'[p].todo PROVE Listed(i.sub, i.row, prep'[p].horizon)
      BY Zenon, <2>1 DEF Listed, Eligible, Exists, Base, Typed, RowsOK
    <2>3. /\ prep[p].floor \in Nat /\ prep[p].floor <= Cardinality(log)
          /\ prep[p].horizon \in Nat /\ prep[p].horizon <= Cardinality(log)
      BY Zenon, PrepFields DEF Base, RoundPlace
    <2>4. RoundPlace(p)'
      BY Zenon, <1>2, <2>1, <2>2, <2>3, BetweenPlace DEF InTxn
    <2> QED
      BY Zenon, <1>1, <1>2, <2>4, PrepKeeps
  <1> QED
    BY Zenon, <1>3, <1>4

(* What is read covers the events up to the horizon, unless the floor has     *)
(* passed the position: the feed still has everything after it.               *)
LEMMA PrepareReadKeeps ==
    ASSUME FiniteSetLaws, Base, NEW p \in Preparers, PrepareRead(p)
    PROVE  Base'
  <1>1. /\ PrepMoves(p) /\ prep[p].step = "next" /\ prep'[p].step = "floor"
        /\ prep'[p].horizon = prep[p].horizon /\ prep'[p].floor = prep[p].floor
        /\ prep'[p].todo \subseteq prep[p].todo
    BY Zenon, PrepareReadFacts DEF Base
  <1>2. PICK i \in prep[p].todo : /\ prep'[p].sub = i.sub /\ prep'[p].row = i.row
                                  /\ prep'[p].rows = FirstEvents(Due(i.row, prep[p].horizon), Budget)
    BY Zenon, PrepareReadFacts DEF Base
  <1>3. UNCHANGED <<feed, subs, queue, finished, born, txn>> /\ UNCHANGED <<log, floor>>
    BY Zenon DEF PrepareRead, feed
  <1>4. /\ prep[p].horizon <= Cardinality(log) /\ prep[p].floor <= Cardinality(log)
        /\ \A j \in prep[p].todo : Listed(j.sub, j.row, prep[p].horizon)
    BY Zenon DEF Base, RoundPlace
  <1> DEFINE es == Due(i.row, prep[p].horizon)
  <1>5. /\ es \subseteq log /\ IsFiniteSet(es) /\ \A x \in es : x.seq \in Nat
        /\ FirstEvents(es, Budget) \subseteq es /\ Budget \in Nat
    <2>1. es \subseteq log /\ FirstEvents(es, Budget) \subseteq es
      BY Zenon DEF Due, FirstEvents, Base, FeedOK
    <2> QED
      BY Zenon, <2>1, PartIsFinite, EndFacts, CapacityAssumption DEF Base, Typed
  <1>6. ASSUME floor <= i.row.position, NEW e \in log, e.tenant = i.row.tenant,
               i.row.position < e.seq, e.seq <= prep[p].horizon
        PROVE  \/ e \in FirstEvents(es, Budget)
               \/ /\ Budget <= Cardinality(FirstEvents(es, Budget))
                  /\ \A x \in FirstEvents(es, Budget) : x.seq < e.seq
    <2>1. i.row.position \in Nat /\ floor \in Nat /\ e.seq \in Nat
      BY Zenon, <1>4, RowFields, EndFacts DEF Listed, Base, Typed
    <2>2. e.seq > floor
      BY <2>1, <1>6
    <2>3. e \in es
      BY Zenon, <1>6, <2>2 DEF Due, Base, FeedOK
    <2> HIDE DEF es
    <2> QED
      BY Zenon, <2>3, <1>5, FirstEventsFacts
  <1> HIDE DEF es
  <1>7. floor' <= prep'[p].row.position => Covers(p)'
    BY Zenon, <1>1, <1>2, <1>3, <1>6 DEF Covers, es
  <1>8. \A j \in prep[p].todo : Listed(j.sub, j.row, prep[p].horizon)'
    BY Zenon, <1>1, <1>3, <1>4 DEF Listed
  <1>9. prep'[p].rows \subseteq log' /\ \A e \in prep'[p].rows : e.seq <= prep'[p].horizon
    BY Zenon, <1>1, <1>2, <1>3, <1>5 DEF es, Due
  <1>10. RoundPlace(p)'
    BY Zenon, <1>1, <1>2, <1>3, <1>4, <1>7, <1>8, <1>9 DEF RoundPlace, InTxn
  <1> QED
    BY Zenon, <1>1, <1>3, <1>10, PrepKeeps

(* The transaction of the round goes on, with the events it has read. *)
LEMMA SameRound ==
    ASSUME FiniteSetLaws, Base, NEW p \in Preparers, PrepMoves(p), InTxn(p), InTxn(p)',
           prep'[p].horizon = prep[p].horizon, prep'[p].floor = prep[p].floor,
           prep'[p].todo = prep[p].todo, prep'[p].sub = prep[p].sub,
           prep'[p].row = prep[p].row, prep'[p].rows = prep[p].rows, Covers(p),
           UNCHANGED <<feed, subs, queue, finished, born, txn>>
    PROVE  Base'
  <1>1. UNCHANGED <<log, floor>>
    BY Zenon DEF feed
  <1>2. Covers(p)'
    BY Zenon, <1>1 DEF Covers
  <1>3. RoundPlace(p)
    BY Zenon DEF Base
  <1>4. /\ \A i \in prep[p].todo : Listed(i.sub, i.row, prep[p].horizon)'
        /\ Listed(prep[p].sub, prep[p].row, prep[p].horizon)'
    BY Zenon, <1>3 DEF RoundPlace, Listed
  <1>5. prep'[p].step \notin {"idle", "max", "list"}
    BY Zenon DEF InTxn
  <1>6. RoundPlace(p)'
    BY Zenon, <1>1, <1>2, <1>3, <1>4, <1>5 DEF RoundPlace
  <1> QED
    BY Zenon, <1>6, PrepKeeps

(* Counting the deliveries keeps Base. *)
LEMMA PrepareCountKeeps ==
    ASSUME FiniteSetLaws, Base, NEW p \in Preparers, PrepareCount(p)
    PROVE  Base'
  <1>1. /\ PrepMoves(p) /\ prep[p].step = "count" /\ prep'[p].step = "advance"
        /\ prep'[p].horizon = prep[p].horizon /\ prep'[p].floor = prep[p].floor
        /\ prep'[p].todo = prep[p].todo /\ prep'[p].sub = prep[p].sub
        /\ prep'[p].row = prep[p].row /\ prep'[p].rows = prep[p].rows
    BY Zenon, PrepareCountFacts DEF Base
  <1>2. InTxn(p) /\ InTxn(p)' /\ Covers(p)
    BY Zenon, <1>1 DEF InTxn, Base, RoundPlace
  <1>3. UNCHANGED <<feed, subs, queue, finished, born, txn>>
    BY Zenon DEF PrepareCount
  <1> QED
    BY Zenon, <1>1, <1>2, <1>3, SameRound

(* The subscription of a round in its transaction. *)
LEMMA RoundSub ==
    ASSUME Base, NEW p \in Preparers, InTxn(p)
    PROVE  /\ prep[p].sub \in Subscriptions /\ prep[p].row \in Row /\ prep[p].row.revision > 0
           /\ prep[p].row.position \in Nat /\ prep[p].row.position < prep[p].horizon
           /\ prep[p].row.state # "history_lost" /\ prep[p].rows \subseteq log
           /\ \A e \in prep[p].rows : e.seq <= prep[p].horizon
           /\ prep[p].sub \in born
  BY Zenon, RowFields DEF Base, RoundPlace, Listed

(* The round advances its subscription, or finds it changed. *)
LEMMA AdvanceKeeps ==
    ASSUME FiniteSetLaws,
           Base, NEW p \in Preparers, InTxn(p), NEW position \in Nat, NEW state \in States,
           NEW ds \in SUBSET Deliveries, IsFiniteSet(ds), Advance(p, position, state, ds),
           UNCHANGED <<feed, finished, born, txn>>
    PROVE  Base'
  <1>1. prep[p].sub \in Subscriptions
    BY Zenon, RoundSub
  <1>2. Leaves(p) /\ (Advances(p, position, state, ds) \/ UNCHANGED <<subs, queue>>)
    BY Zenon, <1>1, AdvanceFacts DEF Base
  <1>3. PrepMoves(p) /\ RoundPlace(p)' /\ UNCHANGED log
    BY Zenon, <1>2, LeavesPlace DEF Leaves, feed
  <1>4. \A b \in Agents : SamePut(b)
    BY Zenon DEF SamePut
  <1>5. CASE UNCHANGED <<subs, queue>>
    BY Zenon, <1>3, <1>5, PrepKeeps
  <1>6. CASE Advances(p, position, state, ds)
    <2>1. PICK s : s = prep[p].sub
      BY Zenon
    <2>2. /\ Rewrites(s) /\ subs'[s].tenant = subs[s].tenant /\ queue' = queue \cup ds
      BY Zenon, <1>6, <2>1 DEF Advances
    <2>3. CapOK'
      BY Zenon, <1>4, <2>2, CapRewrites DEF Base
    <2>4. OnlyRow(s) /\ subs'[s].revision > 0 /\ s \in born'
      BY Zenon, <2>2, Survives
    <2>5. queue' \subseteq Deliveries /\ IsFiniteSet(queue') /\ finished' \subseteq Deliveries
      BY Zenon, <2>2, UnionIsFinite DEF Base, Typed
    <2>6. \A q \in Preparers : prep'[q] = prep[q] \/ RoundPlace(q)'
      BY Zenon, <1>3 DEF PrepMoves
    <2> QED
      BY Zenon, <1>3, <2>3, <2>4, <2>5, <2>6, WriteKeeps DEF Base, Typed, PrepMoves
  <1> QED
    BY Zenon, <1>2, <1>5, <1>6

(* Comparing with the floor keeps Base. *)
LEMMA PrepareFloorKeeps ==
    ASSUME FiniteSetLaws, Base, NEW p \in Preparers, PrepareFloor(p)
    PROVE  Base'
  <1>1. /\ prep[p].step = "floor" /\ InTxn(p) /\ UNCHANGED <<feed, finished, born, txn>>
        /\ UNCHANGED feed
    BY Zenon DEF PrepareFloor, InTxn
  <1>2. prep[p].row.position \in Nat /\ "history_lost" \in States
    BY Zenon, <1>1, RoundSub DEF States
  <1>3. CASE Behind(p)
    <2>1. Advance(p, prep[p].row.position, "history_lost", {})
      BY Zenon, <1>3 DEF PrepareFloor
    <2> QED
      BY Zenon, <1>1, <1>2, <2>1, AdvanceKeeps, NoneIsFinite
  <1>4. CASE ~Behind(p)
    <2>1. prep' = [prep EXCEPT ![p].step = "count"] /\ UNCHANGED <<subs, queue>>
      BY Zenon, <1>4 DEF PrepareFloor
    <2>2. /\ PrepMoves(p) /\ prep'[p].step = "count"
          /\ prep'[p].horizon = prep[p].horizon /\ prep'[p].floor = prep[p].floor
          /\ prep'[p].todo = prep[p].todo /\ prep'[p].sub = prep[p].sub
          /\ prep'[p].row = prep[p].row /\ prep'[p].rows = prep[p].rows
      BY Zenon, <2>1, CountsNext DEF Base
    <2>3. floor \in Nat /\ prep[p].row.position \in Nat
      BY Zenon, <1>2 DEF Base, Typed
    <2>4. floor <= prep[p].row.position
      BY <2>3, <1>4 DEF Behind
    <2>5. Covers(p) /\ InTxn(p)'
      BY Zenon, <1>1, <2>2, <2>4 DEF Base, RoundPlace, InTxn
    <2> QED
      BY Zenon, <1>1, <2>1, <2>2, <2>5, SameRound
  <1> QED
    BY Zenon, <1>3, <1>4

(* What a round inserts are deliveries of its subscription, finitely many. *)
LEMMA InsertionFacts ==
    ASSUME FiniteSetLaws, Base, NEW p \in Preparers, InTxn(p)
    PROVE  /\ Insertions(p) \subseteq Deliveries /\ IsFiniteSet(Insertions(p))
           /\ Cardinality(Insertions(p)) \in Nat
           /\ \A d \in Insertions(p) : d[1] = prep[p].sub
           /\ Insertions(p) # {} =>
                 /\ prep[p].queued + Cardinality(Insertions(p)) <= QueueCapacity
                 /\ prep[p].own + Cardinality(Insertions(p)) <= OwnCapacity
  <1>1. prep[p].rows \subseteq log /\ prep[p].sub \in Subscriptions /\ prep[p] \in Prep
    BY Zenon, RoundSub, PrepFields DEF Base
  <1>2. /\ IsFiniteSet(prep[p].rows) /\ Cardinality(log) \in Nat
        /\ \A e \in prep[p].rows : e.seq \in Nat /\ e.seq <= Cardinality(log)
        /\ \A e, x \in prep[p].rows : e.seq = x.seq => e = x
    BY Zenon, <1>1, PartIsFinite, EndFacts DEF Base, Typed, FeedOK
  <1>3. /\ IsFiniteSet(Insertions(p)) /\ Cardinality(Insertions(p)) \in Nat
        /\ Insertions(p) # {} =>
              /\ prep[p].queued + Cardinality(Insertions(p)) <= QueueCapacity
              /\ prep[p].own + Cardinality(Insertions(p)) <= OwnCapacity
    BY Zenon, <1>1, <1>2, InsertionsFit
  <1>4. ASSUME NEW d \in Insertions(p) PROVE d \in Deliveries /\ d[1] = prep[p].sub
    <2>1. PICK e \in Missing(p) : d = <<prep[p].sub, e.seq>>
      BY Zenon DEF Insertions
    <2>2. e.seq \in Nat
      BY Zenon, <1>2, <2>1 DEF Missing
    <2> QED
      BY Zenon, <1>1, <2>1, <2>2 DEF Deliveries
  <1> QED
    BY Zenon, <1>3, <1>4

(* The advance of a round keeps Base. *)
LEMMA PrepareAdvanceKeeps ==
    ASSUME FiniteSetLaws, Base, NEW p \in Preparers, PrepareAdvance(p)
    PROVE  Base'
  <1> DEFINE state == IF Blocked(p) = {} THEN "ready" ELSE "backpressure"
  <1>1. /\ prep[p].step = "advance" /\ InTxn(p) /\ UNCHANGED <<feed, finished, born, txn>>
        /\ UNCHANGED feed /\ Advance(p, Checkpoint(p), state, Insertions(p))
    BY Zenon DEF PrepareAdvance, InTxn
  <1>2. state \in States
    BY Zenon DEF States
  <1>3. Checkpoint(p) \in Nat
    BY Zenon, <1>1, RoundSub, CheckpointFacts DEF Base
  <1>4. Insertions(p) \subseteq Deliveries /\ IsFiniteSet(Insertions(p))
    BY Zenon, <1>1, InsertionFacts
  <1> HIDE DEF state
  <1> QED
    BY Zenon, <1>1, <1>2, <1>3, <1>4, AdvanceKeeps

(* A failing round keeps Base. *)
LEMMA RoundFailsKeeps ==
    ASSUME FiniteSetLaws, Base, NEW p \in Preparers, RoundFails(p)
    PROVE  Base'
  <1>1. Leaves(p) /\ PrepMoves(p)
    BY Zenon, RoundFailsFacts DEF RoundFails, Base, Leaves
  <1>2. UNCHANGED <<feed, subs, queue, finished, born, txn>> /\ UNCHANGED log
    BY Zenon DEF RoundFails, feed
  <1> QED
    BY Zenon, <1>1, <1>2, LeavesPlace, PrepKeeps

(* Every step of a request keeps Base. *)
LEMMA RequestKeeps == ASSUME FiniteSetLaws, Base, NEW a \in Agents, Request(a) PROVE Base'
  <1>1. ASSUME NEW s \in Subscriptions, ResetBegin(a, s) PROVE Base'
    <2>1. Moves(a) /\ txn'[a].op = "reset"
      BY Zenon, <1>1, ResetBeginFacts DEF Base
    <2> QED
      BY Zenon, <1>1, <2>1, TxnKeeps DEF ResetBegin, SamePut
  <1>2. ASSUME NEW s \in Subscriptions, DeleteBegin(a, s) PROVE Base'
    <2>1. Moves(a) /\ txn'[a].op = "delete"
      BY Zenon, <1>2, DeleteBeginFacts DEF Base
    <2> QED
      BY Zenon, <1>2, <2>1, TxnKeeps DEF DeleteBegin, SamePut
  <1>3. ASSUME GoesOn(a), UNCHANGED <<feed, subs, queue, finished, born, prep>> PROVE Base'
    BY Zenon, <1>3, TxnKeeps DEF GoesOn, SamePut
  <1>4. CASE HorizonFloor(a)
    BY Zenon, <1>3, <1>4, HorizonFloorFacts DEF HorizonFloor, Base
  <1>5. CASE HorizonMax(a)
    BY Zenon, <1>3, <1>5, HorizonMaxFacts DEF HorizonMax, Base
  <1>6. CASE Drop(a)
    BY Zenon, <1>3, <1>6, DropFacts DEF Drop, Base
  <1>7. CASE Abort(a)
    <2>1. Moves(a) /\ txn'[a] = NoTxn
      BY Zenon, <1>7, EndTxnFacts DEF Abort, Base
    <2> QED
      BY Zenon, <1>7, <2>1, NoTxnFacts, TxnKeeps DEF Abort, SamePut
  <1> QED
    BY Zenon, <1>1, <1>2, <1>4, <1>5, <1>6, <1>7, PutBeginKeeps, PutCreateKeeps, PutUpdateKeeps,
       ResetWriteKeeps, DeleteWriteKeeps DEF Request

(* Every step of a round keeps Base. *)
LEMMA RoundKeeps == ASSUME FiniteSetLaws, Base, NEW p \in Preparers, Round(p) PROVE Base'
  BY Zenon, RoundFloorKeeps, RoundMaxKeeps, RoundListKeeps, PrepareReadKeeps, PrepareFloorKeeps,
     PrepareCountKeeps, PrepareAdvanceKeeps, RoundFailsKeeps DEF Round

(* Every step keeps Base. *)
LEMMA NextBase == ASSUME FiniteSetLaws, Base, [Next]_vars PROVE Base'
  <1>1. ASSUME NEW t \in Tenants, Switch(t) PROVE Base'
    BY Zenon, <1>1, QuietKeeps DEF Switch
  <1>2. ASSUME NEW d \in queue, Finish(d) PROVE Base'
    <2>1. finished' \subseteq queue \cup finished /\ queue' \subseteq queue
      BY Zenon, <1>2 DEF Finish
    <2> QED
      BY Zenon, <1>2, <2>1, QuietKeeps DEF Finish
  <1>3. ASSUME NEW d \in finished, Forget(d) PROVE Base'
    <2>1. finished' \subseteq queue \cup finished /\ queue' \subseteq queue
      BY Zenon, <1>3 DEF Forget
    <2> QED
      BY Zenon, <1>3, <2>1, QuietKeeps DEF Forget
  <1>4. CASE UNCHANGED vars
    BY Zenon, <1>4, QuietKeeps DEF vars, feed
  <1> QED
    BY Zenon, <1>1, <1>2, <1>3, <1>4, PublishKeeps, PurgeKeeps, RequestKeeps, RoundKeeps DEF Next

(* Base holds at the start. *)
LEMMA InitBase == ASSUME FiniteSetLaws, Init PROVE Base
  <1>1. /\ \A s \in Subscriptions : subs[s] = NoRow /\ ~Exists(s)
        /\ \A p \in Preparers : prep[p] = NoPrep
        /\ \A a \in Agents : txn[a] = NoTxn
    BY NoRowFacts DEF Init, Exists
  <1>2. IsFiniteSet(log) /\ Cardinality(log) = 0 /\ IsFiniteSet(queue)
    BY Zenon, NoneIsFinite DEF Init
  <1>3. Typed
    <2>1. /\ log \subseteq Event /\ queue \subseteq Deliveries /\ finished \subseteq Deliveries
          /\ born \subseteq Subscriptions /\ floor \in Nat
      BY Zenon DEF Init
    <2>2. subs \in [Subscriptions -> Row]
      BY Zenon, NoRowFacts DEF Init
    <2>3. prep \in [Preparers -> Prep] /\ txn \in [Agents -> {NoTxn} \cup Txn]
      BY Zenon, NoPrepFacts DEF Init
    <2> QED
      BY Zenon, <1>2, <2>1, <2>2, <2>3 DEF Typed
  <1>4. FeedOK
    <2>1. log = {} /\ events = {} /\ floor = 0
      BY Zenon DEF Init
    <2> QED
      BY <2>1, <1>2 DEF FeedOK
  <1>5. RowsOK
    BY Zenon, <1>1 DEF RowsOK
  <1>6. CapOK
    <2>1. Existing = {} /\ \A t : OfTenant(t) = {}
      BY Zenon, <1>1 DEF Existing, OfTenant
    <2>2. IsFiniteSet(Existing) /\ Cardinality({}) = 0
      BY Zenon, <2>1, NoneIsFinite
    <2>3. \A t : CountOf(t) = 0
      BY Zenon, <2>1, <2>2 DEF CountOf, OfTenant
    <2>4. SubscriptionCapHolds
      BY <2>3, CapacityAssumption DEF SubscriptionCapHolds
    <2>5. \A a \in Agents : PutPlace(a)
      BY Zenon, <1>1, NoTxnFacts DEF PutPlace
    <2> QED
      BY Zenon, <2>2, <2>4, <2>5 DEF CapOK
  <1>7. ASSUME NEW p \in Preparers PROVE RoundPlace(p)
    <2>1. 0 <= Cardinality(log)
      BY <1>2
    <2> QED
      BY Zenon, <1>1, <2>1, NoPrepFacts DEF RoundPlace, InTxn
  <1> QED
    BY Zenon, <1>3, <1>4, <1>5, <1>6, <1>7 DEF Base

=============================================================================
