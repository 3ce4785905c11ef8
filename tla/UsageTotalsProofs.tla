------------------------- MODULE UsageTotalsProofs --------------------------
(***************************************************************************)
(* Proofs about UsageTotals, for any number of requests, callers, quotas   *)
(* and days: the cache of budget totals misses no record of its replica    *)
(* and counts none more than twice, and a request that begins once a       *)
(* budget is spent is refused.                                             *)
(*                                                                         *)
(* First come lemmas about its operators: the starts of a budget's         *)
(* windows, the counters of a caller, the keys of a record, the checks of  *)
(* a request.  Then the inductive invariants: what totals hold at least,   *)
(* what they hold at most, what they are worth, and which check a request  *)
(* has still to fail.                                                      *)
(***************************************************************************)
EXTENDS UsageTotals, Integers, FiniteSetTheorems, TLAPS

(* A budget window starts on a day that is not after the day it is for.       *)
LEMMA StartFacts ==
    ASSUME NEW d \in Days, NEW p \in {"day", "month", "year"}
    PROVE  StartOf(p, d) \in Days /\ StartOf(p, d) <= d
  <1>1. ASSUME NEW m \in Nat \ {0} PROVE d % m \in 0..d
    <2>1. d \in Nat
      BY BoundsAssumption DEF Days
    <2>2. d % m \in 0..(m - 1)
      BY <2>1
    <2>3. CASE d < m
      <3>1. d % m = d
        BY <2>1, <2>3
      <3> QED
        BY <3>1, <2>1
    <2>4. CASE d >= m
      BY <2>1, <2>2, <2>4
    <2> QED
      BY <2>1, <2>3, <2>4
  <1> QED
    BY <1>1, CalendarAssumption, BoundsAssumption DEF StartOf, Days

(* The two coordinates of a place in a table of l rows and m columns.         *)
LEMMA DivBelow ==
    ASSUME NEW a \in Nat, NEW m \in 1..4, NEW l \in 1..3, a < l * m
    PROVE  a \div m \in 0..(l - 1) /\ a % m \in 0..(m - 1)
  <1>1. CASE m = 1 BY <1>1
  <1>2. CASE m = 2 BY <1>2
  <1>3. CASE m = 3 BY <1>3
  <1>4. CASE m = 4 BY <1>4
  <1> QED BY <1>1, <1>2, <1>3, <1>4

(* Starts lists one to three days, none after d.                              *)
LEMMA StartsFacts ==
    ASSUME NEW d \in Days
    PROVE  /\ Starts(d) \in Seq(Days) /\ Len(Starts(d)) \in 1..3
           /\ \A i \in DOMAIN Starts(d) : Starts(d)[i] <= d
  <1> DEFINE a == StartOf("day", d)
             b == StartOf("month", d)
             c == StartOf("year", d)
  <1>1. /\ a \in Days /\ b \in Days /\ c \in Days
        /\ a <= d /\ b <= d /\ c <= d
    BY Zenon, StartFacts
  <1>2. Starts(d) = <<a>> \o (IF b = a THEN <<>> ELSE <<b>>) \o (IF c = b THEN <<>> ELSE <<c>>)
    BY DEF Starts, Periods
  <1> HIDE DEF a, b, c
  <1> QED
    BY <1>1, <1>2

(* Concatenation, as far as what it holds is concerned.                       *)
LEMMA Joined ==
    ASSUME NEW T, NEW s \in Seq(T), NEW t \in Seq(T)
    PROVE  /\ s \o t \in Seq(T) /\ Len(s \o t) = Len(s) + Len(t)
           /\ RangeOf(s \o t) = RangeOf(s) \cup RangeOf(t)
  <1>1. /\ s \o t \in Seq(T) /\ Len(s \o t) = Len(s) + Len(t)
        /\ Len(s) \in Nat /\ Len(t) \in Nat
        /\ DOMAIN s = 1..Len(s) /\ DOMAIN t = 1..Len(t)
        /\ DOMAIN (s \o t) = 1..(Len(s) + Len(t))
    OBVIOUS
  <1>2. \A i \in 1..Len(s) : (s \o t)[i] = s[i]
    OBVIOUS
  <1>3. \A i \in 1..Len(t) : Len(s) + i \in DOMAIN (s \o t) /\ (s \o t)[Len(s) + i] = t[i]
    OBVIOUS
  <1>4. \A i \in DOMAIN (s \o t) : (s \o t)[i] \in RangeOf(s) \cup RangeOf(t)
    BY <1>1 DEF RangeOf
  <1>5. \A i \in DOMAIN s : s[i] \in RangeOf(s \o t)
    BY <1>1, <1>2 DEF RangeOf
  <1>6. \A i \in DOMAIN t : t[i] \in RangeOf(s \o t)
    BY ZenonT(30), <1>1, <1>3 DEF RangeOf
  <1> QED
    BY ZenonT(30), <1>1, <1>4, <1>5, <1>6 DEF RangeOf

(* A sequence whose elements are in U is a sequence over U.                   *)
LEMMA Retyped ==
    ASSUME NEW T, NEW U, NEW s \in Seq(T), \A i \in DOMAIN s : s[i] \in U
    PROVE  s \in Seq(U)
  OBVIOUS

(* QuotaCounters lists one to four scopes, those that PreRequest checks among *)
(* them.                                                                      *)
LEMMA CountersFacts ==
    ASSUME NEW who \in Callers
    PROVE  /\ QuotaCounters(who) \in Seq(Scopes)
           /\ Len(QuotaCounters(who)) \in 1..4
           /\ <<"org">> \in Scopes /\ Principal(who) \in Scopes
           /\ (who.team # None => <<"team", who.team>> \in Scopes)
           /\ (who.team # None /\ who.app = None =>
                  <<"team_member", who.team, who.user>> \in Scopes)
  <1> DEFINE a == <<"org">>
             b == Principal(who)
             c == <<"team", who.team>>
             e == <<"team_member", who.team, who.user>>
             ab == <<a, b>>
             member == IF who.app # None THEN <<>> ELSE <<e>>
             one == <<c>>
             team == IF who.team = None THEN <<>> ELSE one \o member
             T == {a, b, c, e}
  <1>1. QuotaCounters(who) = ab \o team
    BY Zenon DEF QuotaCounters
  <1>2. RangeOf(QuotaCounters(who)) \subseteq Scopes
    BY Zenon DEF Scopes
  <1> HIDE DEF a, b, c, e
  <1>3. /\ ab \in Seq(T) /\ Len(ab) = 2 /\ {a, b} \subseteq RangeOf(ab)
        /\ one \in Seq(T) /\ Len(one) = 1 /\ c \in RangeOf(one)
    <2>1. ab \in Seq(T) /\ Len(ab) = 2 /\ one \in Seq(T) /\ Len(one) = 1
      OBVIOUS
    <2>2. 1 \in DOMAIN ab /\ 2 \in DOMAIN ab /\ ab[1] = a /\ ab[2] = b
      OBVIOUS
    <2>3. 1 \in DOMAIN one /\ one[1] = c
      OBVIOUS
    <2> HIDE DEF ab, one, T
    <2> QED
      BY Zenon, <2>1, <2>2, <2>3 DEF RangeOf
  <1>4. /\ member \in Seq(T) /\ Len(member) \in 0..1
        /\ (who.app = None => e \in RangeOf(member))
    <2>1. CASE who.app = None
      <3>1. member = <<e>> /\ 1 \in DOMAIN member /\ member[1] = e
        BY <2>1
      <3>2. <<e>> \in Seq(T) /\ Len(<<e>>) = 1
        OBVIOUS
      <3> HIDE DEF member, T
      <3> QED
        BY <3>1, <3>2 DEF RangeOf
    <2>2. CASE who.app # None
      BY <2>2
    <2> QED
      BY Zenon, <2>1, <2>2
  <1> HIDE DEF ab, one, member, T
  <1>5. /\ one \o member \in Seq(T) /\ Len(one \o member) = 1 + Len(member)
        /\ RangeOf(one \o member) = RangeOf(one) \cup RangeOf(member)
    BY ZenonT(30), <1>3, <1>4, Joined
  <1>6. /\ team \in Seq(T) /\ Len(team) \in 0..2
        /\ (who.team # None => c \in RangeOf(team))
        /\ (who.team # None /\ who.app = None => e \in RangeOf(team))
    <2>1. CASE who.team = None
      BY <2>1
    <2>2. CASE who.team # None
      <3>1. team = one \o member
        BY Zenon, <2>2
      <3> HIDE DEF team
      <3> QED
        BY <2>2, <3>1, <1>3, <1>4, <1>5
    <2> QED
      BY Zenon, <2>1, <2>2
  <1> HIDE DEF team
  <1>7. /\ QuotaCounters(who) \in Seq(T) /\ Len(QuotaCounters(who)) = 2 + Len(team)
        /\ RangeOf(QuotaCounters(who)) = RangeOf(ab) \cup RangeOf(team)
    <2>1. ab \in Seq(T) /\ team \in Seq(T) /\ Len(ab) = 2
      BY Zenon, <1>3, <1>6
    <2>2. /\ ab \o team \in Seq(T) /\ Len(ab \o team) = Len(ab) + Len(team)
          /\ RangeOf(ab \o team) = RangeOf(ab) \cup RangeOf(team)
      BY ZenonT(30), <2>1, Joined
    <2> QED
      BY ZenonT(30), <1>1, <2>1, <2>2
  <1>8. a \in Scopes /\ b \in Scopes
        /\ (who.team # None => c \in Scopes)
        /\ (who.team # None /\ who.app = None => e \in Scopes)
    BY Zenon, <1>2, <1>3, <1>6, <1>7
  <1>9. QuotaCounters(who) \in Seq(Scopes) /\ Len(QuotaCounters(who)) \in 1..4
    <2> DEFINE s == QuotaCounters(who)
    <2>1. \A i \in DOMAIN s : s[i] \in Scopes
      BY Zenon, <1>2 DEF RangeOf
    <2>2. s \in Seq(T) /\ Len(s) = 2 + Len(team)
      BY Zenon, <1>7
    <2> HIDE DEF s
    <2>3. Len(s) \in 1..4
      <3>1. Len(team) \in 0..2
        BY ZenonT(30), <1>6
      <3>2. \A x \in 0..2 : 2 + x \in 1..4
        OBVIOUS
      <3> QED
        BY ZenonT(30), <3>1, <3>2, <2>2
    <2>4. s \in Seq(Scopes)
      BY Zenon, <2>1, <2>2, Retyped
    <2> QED
      BY Zenon, <2>3, <2>4 DEF s
  <1> QED
    BY Zenon, <1>8, <1>9 DEF a, b, c, e

(* quotaSumCacheKeysFor lists keys of counters the record feeds, in windows   *)
(* that started by its day.                                                   *)
LEMMA KeysFacts ==
    ASSUME NEW who \in Callers, NEW d \in Days
    PROVE  /\ KeysFor(who, d) \in Seq(Keys) /\ KeysFor(who, d) # <<>>
           /\ \A key \in RangeOf(KeysFor(who, d)) :
                  key[1] \in RangeOf(QuotaCounters(who)) /\ key[2] <= d
  <1> DEFINE starts == Starts(d)
             counters == QuotaCounters(who)
             m == Len(counters)
             l == Len(starts)
             At(i) == <<counters[1 + ((i - 1) % m)], starts[1 + ((i - 1) \div m)]>>
  <1>1. KeysFor(who, d) = [i \in 1..(l * m) |-> At(i)]
    BY Zenon DEF KeysFor
  <1>2. /\ starts \in Seq(Days) /\ l \in 1..3
        /\ \A i \in 1..l : starts[i] \in Days /\ starts[i] <= d
    BY StartsFacts
  <1>3. /\ counters \in Seq(Scopes) /\ m \in 1..4
        /\ \A i \in 1..m : counters[i] \in Scopes /\ counters[i] \in RangeOf(counters)
    <2>1. counters \in Seq(Scopes) /\ m \in 1..4
      BY ZenonT(30), CountersFacts
    <2> HIDE DEF counters
    <2> QED
      BY <2>1 DEF RangeOf
  <1>4. l * m \in Nat \ {0}
    <2>1. \A x \in 1..3, y \in 1..4 : x * y \in Nat \ {0}
      OBVIOUS
    <2> QED
      BY ZenonT(30), <2>1, <1>2, <1>3
  <1>5. ASSUME NEW i \in 1..(l * m)
        PROVE  /\ 1 + ((i - 1) % m) \in 1..m /\ 1 + ((i - 1) \div m) \in 1..l
    <2>1. i - 1 \in Nat /\ i - 1 < l * m
      BY <1>4
    <2>2. (i - 1) \div m \in 0..(l - 1) /\ (i - 1) % m \in 0..(m - 1)
      BY ZenonT(30), <2>1, <1>2, <1>3, DivBelow
    <2> HIDE DEF m, l
    <2> QED
      BY <2>2, <1>2, <1>3
  <1> HIDE DEF starts, counters, m, l
  <1>6. ASSUME NEW i \in 1..(l * m)
        PROVE  At(i) \in Keys /\ At(i)[1] \in RangeOf(counters) /\ At(i)[2] <= d
    <2> DEFINE x == counters[1 + ((i - 1) % m)]
               y == starts[1 + ((i - 1) \div m)]
    <2>1. x \in Scopes /\ x \in RangeOf(counters) /\ y \in Days /\ y <= d
      BY Zenon, <1>5, <1>2, <1>3
    <2> HIDE DEF x, y
    <2>2. <<x, y>> \in Keys /\ <<x, y>>[1] = x /\ <<x, y>>[2] = y
      BY Zenon, <2>1 DEF Keys
    <2> QED
      BY Zenon, <2>1, <2>2 DEF x, y
  <1> HIDE DEF At
  <1> QED
    BY <1>1, <1>4, <1>6 DEF RangeOf, counters

(* A sequence of checks, each on the total of a key. *)
KeySeq(s) == \E S : s \in Seq(S) /\ \A c \in S : c.key \in Keys

(* How KeySeq is shown.                                                       *)
LEMMA IntroKeys ==
    ASSUME NEW s, NEW S, s \in Seq(S), \A c \in S : c.key \in Keys PROVE KeySeq(s)
  BY Zenon DEF KeySeq

(* Checks after checks are checks.                                            *)
LEMMA ConcatKeys == ASSUME NEW s, NEW t, KeySeq(s), KeySeq(t) PROVE KeySeq(s \o t)
  <1>1. PICK S : s \in Seq(S) /\ \A c \in S : c.key \in Keys
    BY Zenon DEF KeySeq
  <1>2. PICK T : t \in Seq(T) /\ \A c \in T : c.key \in Keys
    BY Zenon DEF KeySeq
  <1>3. s \o t \in Seq(S \cup T) /\ \A c \in S \cup T : c.key \in Keys
    BY <1>1, <1>2
  <1> QED
    BY Zenon, <1>3 DEF KeySeq

(* No check at all.                                                           *)
LEMMA EmptyKeys == KeySeq(<<>>)
  <1> DEFINE S == {}
  <1>1. <<>> \in Seq(S) /\ \A c \in S : c.key \in Keys
    OBVIOUS
  <1> HIDE DEF S
  <1> QED
    BY ZenonT(30), <1>1, IntroKeys

(* checkScope compares totals of known scopes and windows.                    *)
LEMMA ScopeKeys ==
    ASSUME NEW scope \in Scopes, NEW quota, NEW d \in Days
    PROVE  KeySeq(checkScope(scope, quota, d))
  <1> DEFINE check(i) == IF quota[Periods[i]] = Unlimited THEN <<>>
                         ELSE <<[key    |-> <<scope, StartOf(Periods[i], d)>>,
                                 budget |-> quota[Periods[i]]]>>
  <1>1. ASSUME NEW i \in 1..3 PROVE KeySeq(check(i))
    <2> DEFINE c == [key |-> <<scope, StartOf(Periods[i], d)>>, budget |-> quota[Periods[i]]]
               S == {c}
               one == <<c>>
    <2>1. Periods[i] \in {"day", "month", "year"}
      BY DEF Periods
    <2>2. c.key \in Keys
      <3>1. StartOf(Periods[i], d) \in Days
        BY Zenon, <2>1, StartFacts
      <3> QED
        BY Zenon, <3>1 DEF Keys
    <2> HIDE DEF c
    <2>3. one \in Seq(S) /\ \A x \in S : x.key \in Keys
      BY <2>2
    <2>4. KeySeq(one)
      <3> HIDE DEF one, S
      <3> QED
        BY Zenon, <2>3, IntroKeys
    <2> QED
      BY Zenon, <2>4, EmptyKeys DEF c
  <1>2. checkScope(scope, quota, d) = check(1) \o check(2) \o check(3)
    BY Zenon DEF checkScope
  <1>3. KeySeq(check(1)) /\ KeySeq(check(2)) /\ KeySeq(check(3))
    BY <1>1
  <1> HIDE DEF check
  <1> QED
    BY Zenon, <1>2, <1>3, ConcatKeys

(* Every total a request compares has a key of the cache.                     *)
LEMMA ChecksFacts ==
    ASSUME NEW who \in Callers, NEW d \in Days
    PROVE  /\ DOMAIN Checks(who, d) = 1..Len(Checks(who, d)) /\ Len(Checks(who, d)) \in Nat
           /\ (Checks(who, d) # <<>> => Len(Checks(who, d)) # 0)
           /\ \A i \in DOMAIN Checks(who, d) : Checks(who, d)[i].key \in Keys
  <1>1. /\ <<"org">> \in Scopes /\ Principal(who) \in Scopes
        /\ (who.team # None => <<"team", who.team>> \in Scopes)
        /\ (who.team # None /\ who.app = None =>
                  <<"team_member", who.team, who.user>> \in Scopes)
    BY Zenon, CountersFacts
  <1>2. KeySeq(Checks(who, d))
    <2> DEFINE own == IF who.app # None THEN ResolveEffectiveQuotaForApplication(who.app)
                      ELSE ResolveEffectiveQuota(who.user)
               A == checkScope(Principal(who), own, d)
               B == checkOrgWide(d)
               C == checkScope(<<"team", who.team>>, GetQuota(<<"team", who.team>>), d)
               E == checkScope(<<"team_member", who.team, who.user>>,
                               ResolveMemberQuota(who), d)
               F == IF who.app # None THEN <<>> ELSE E
               G == IF who.team = None THEN <<>> ELSE C \o F
    <2>1. Checks(who, d) = A \o B \o G
      BY Zenon DEF Checks
    <2>2. KeySeq(A)
      BY Zenon, <1>1, ScopeKeys
    <2>3. KeySeq(B)
      BY Zenon, <1>1, ScopeKeys DEF checkOrgWide
    <2>4. who.team # None => KeySeq(C)
      BY Zenon, <1>1, ScopeKeys
    <2>5. who.team # None => KeySeq(F)
      BY Zenon, <1>1, ScopeKeys, EmptyKeys
    <2> HIDE DEF A, B, C, F
    <2>6. KeySeq(G)
      BY Zenon, <2>4, <2>5, EmptyKeys, ConcatKeys
    <2> HIDE DEF G
    <2> QED
      BY Zenon, <2>1, <2>2, <2>3, <2>6, ConcatKeys
  <1>3. PICK S : Checks(who, d) \in Seq(S) /\ \A c \in S : c.key \in Keys
    BY Zenon, <1>2 DEF KeySeq
  <1> QED
    BY <1>3

(* Tail, as far as what it holds is concerned. *)
LEMMA TailFacts ==
    ASSUME NEW S, NEW s \in Seq(S), s # <<>>
    PROVE  /\ Head(s) \in S /\ Tail(s) \in Seq(S) /\ Len(s) \in Nat \ {0}
           /\ (Len(s) # 1 => Tail(s) # <<>>)
           /\ (Len(s) = 1 => RangeOf(s) = {Head(s)})
           /\ RangeOf(s) \subseteq {Head(s)} \cup RangeOf(Tail(s))
  <1>1. Len(s) \in Nat \ {0} /\ DOMAIN s = 1..Len(s) /\ Head(s) = s[1]
    OBVIOUS
  <1>2. /\ Tail(s) \in Seq(S) /\ Len(Tail(s)) = Len(s) - 1 /\ Head(s) \in S
        /\ DOMAIN Tail(s) = 1..(Len(s) - 1)
        /\ \A i \in 1..(Len(s) - 1) : Tail(s)[i] = s[i + 1]
    OBVIOUS
  <1>3. Len(s) # 1 => Tail(s) # <<>>
    <2>1. Len(<<>>) = 0
      BY Zenon
    <2>2. Len(s) # 1 => Len(Tail(s)) # 0
      BY <1>1, <1>2
    <2> QED
      BY ZenonT(30), <2>1, <2>2
  <1>4. Len(s) = 1 => RangeOf(s) = {Head(s)}
    BY <1>1 DEF RangeOf
  <1>5. ASSUME NEW i \in DOMAIN s, i # 1 PROVE s[i] \in RangeOf(Tail(s))
    <2>1. i - 1 \in DOMAIN Tail(s) /\ Tail(s)[i - 1] = s[i]
      BY <1>1, <1>2, <1>5
    <2> QED
      BY Zenon, <2>1 DEF RangeOf
  <1>6. RangeOf(s) \subseteq {Head(s)} \cup RangeOf(Tail(s))
    BY Zenon, <1>1, <1>5 DEF RangeOf
  <1> QED
    BY Zenon, <1>1, <1>2, <1>3, <1>4, <1>6

-----------------------------------------------------------------------------
(* The inductive invariant, and the steps outside loads and records. *)

(* The key of the total a request is checking. *)
Key(q) == Check(q).key

States == {"idle", "check", "missed", "loading", "loaded", "upstream", "responded", "recording"}
Checking == {"check", "missed", "loading", "loaded"}

(* Types of the replica's state, and of the requests. *)
Shared ==
    /\ day \in Days /\ db \in Seq(Record) /\ Len(db) <= MaxRecords
    /\ cached \subseteq Keys /\ counted \in [Keys -> [Ids -> Nat]]
    /\ loading \in [Keys -> [readers : Nat, stale : BOOLEAN]]

Locals ==
    /\ pc \in [Requests -> States]
    /\ caller \in [Requests -> Callers \cup {None}]
    /\ now \in [Requests -> Days] /\ step \in [Requests -> Nat]
    /\ got \in [Requests -> [Ids -> Nat]]
    /\ rec \in [Requests -> Record \cup {NoRecord}] /\ id \in [Requests -> 0..MaxRecords]
    /\ left \in [Requests -> Seq(Keys)]
    /\ exhausted \in [Requests -> BOOLEAN]

Types == Shared /\ Locals

(* readers counts the requests that load a key. *)
ReadersExact ==
    \A key \in Keys : /\ loading[key].readers = Cardinality(Loads(key))
                      /\ loading[key].stale => loading[key].readers > 0

(* Where a request is, it has what its next step uses. *)
Ready(q) ==
    /\ pc[q] \in Checking => /\ caller[q] \in Callers
                             /\ step[q] \in DOMAIN ChecksOf[caller[q]][now[q]]
    /\ pc[q] = "upstream" => caller[q] \in Callers
    /\ pc[q] = "responded" => rec[q] \in Record
    /\ pc[q] = "recording" => id[q] \in DOMAIN db /\ left[q] # <<>>

(* RecordUsage has passed key for record n. *)
Passed(key, n) ==
    /\ db[n].local /\ key \in RangeOf(KeysOf(db[n]))
    /\ \A q \in Requests : pc[q] = "recording" /\ id[q] = n => key \notin RangeOf(left[q])

(* A total read from the backend counts every record passed since, unless its *)
(* key is marked stale.                                                       *)
LoadsFresh ==
    \A q \in Requests : pc[q] = "loaded" /\ ~loading[Key(q)].stale =>
        \A n \in DOMAIN db : Passed(Key(q), n) => got[q][n] >= 1

(* The inductive invariant. *)
UsageInv ==
    /\ Types /\ ReadersExact /\ (\A q \in Requests : Ready(q))
    /\ LoadsFresh /\ NoUndercount

(* A request at a check reads the total of a key of the cache.                *)
LEMMA KeyIn ==
    ASSUME NEW q \in Requests, Types, Ready(q), pc[q] \in Checking
    PROVE  Key(q) \in Keys /\ step[q] \in 1..Len(ChecksOf[caller[q]][now[q]])
           /\ Len(ChecksOf[caller[q]][now[q]]) \in Nat
  <1>1. caller[q] \in Callers /\ now[q] \in Days
    BY Zenon DEF Types, Locals, Ready
  <1>2. ChecksOf[caller[q]][now[q]] = Checks(caller[q], now[q])
    BY Zenon, <1>1 DEF ChecksOf
  <1>3. step[q] \in DOMAIN Checks(caller[q], now[q])
    BY Zenon, <1>2 DEF Ready
  <1> QED
    BY ZenonT(30), <1>1, <1>2, <1>3, ChecksFacts DEF Key, Check

(* The typing of the invariant is the one the runs check.                     *)
LEMMA TypesOK == Types /\ ReadersExact => TypeOK
  BY Zenon DEF Types, Shared, Locals, ReadersExact, TypeOK, States

(* Nothing is cached, loaded or recorded at first.                            *)
LEMMA InitInv == Init => UsageInv
  <1> SUFFICES ASSUME Init PROVE UsageInv
    BY Zenon
  <1> USE DEF Init
  <1>1. Types
    <2>1. Nothing \in [Ids -> Nat] /\ NoLoad \in [readers : Nat, stale : BOOLEAN]
      BY Zenon DEF Nothing, NoLoad
    <2>2. <<>> \in Seq(Record) /\ Len(<<>>) = 0 /\ <<>> \in Seq(Keys)
      OBVIOUS
    <2> QED
      BY <2>1, <2>2, BoundsAssumption DEF Types, Shared, Locals, States, Days
  <1>2. ReadersExact
    <2>1. ASSUME NEW key \in Keys PROVE Loads(key) = {}
      BY Zenon DEF Loads
    <2> QED
      BY ZenonT(30), <2>1, FS_EmptySet DEF ReadersExact, NoLoad
  <1>3. (\A q \in Requests : Ready(q)) /\ LoadsFresh /\ NoUndercount
    BY Zenon DEF Ready, Checking, LoadsFresh, NoUndercount
  <1> QED
    BY Zenon, <1>1, <1>2, <1>3 DEF UsageInv

(* All requests but q are left alone. *)
Frame(q) ==
    \A r \in Requests \ {q} :
        /\ pc'[r] = pc[r] /\ caller'[r] = caller[r] /\ now'[r] = now[r] /\ step'[r] = step[r]
        /\ got'[r] = got[r] /\ rec'[r] = rec[r] /\ id'[r] = id[r] /\ left'[r] = left[r]

(* A step of q leaves the key another request reads alone.                    *)
LEMMA KeyKept ==
    ASSUME NEW q \in Requests, NEW r \in Requests \ {q}, Frame(q) PROVE Key(r)' = Key(r)
  BY Zenon DEF Frame, Key, Check

(* A step of q leaves what another request needs alone.                       *)
LEMMA ReadyKept ==
    ASSUME UsageInv, NEW q \in Requests, NEW r \in Requests \ {q}, Frame(q),
           DOMAIN db \subseteq DOMAIN db'
    PROVE  Ready(r)'
  BY Zenon DEF Frame, UsageInv, Ready

(* A step outside loads and records. *)
Quiet(q) ==
    /\ Frame(q) /\ UNCHANGED <<db, cached, counted, loading>>
    /\ pc[q] \notin {"loading", "loaded", "recording"}
    /\ pc'[q] \notin {"loading", "loaded", "recording"}

(* Steps outside loads and records keep the invariant.                        *)
LEMMA QuietKeeps ==
    ASSUME UsageInv, NEW q \in Requests, Quiet(q), Types', Ready(q)' PROVE UsageInv'
  <1>1. \A r \in Requests : Ready(r)'
    BY Zenon, ReadyKept DEF Quiet
  <1>2. ASSUME NEW key \in Keys PROVE Loads(key)' = Loads(key)
    BY ZenonT(30), KeyKept DEF Quiet, Frame, Loads, Key
  <1>3. ReadersExact'
    BY Zenon, <1>2 DEF Quiet, UsageInv, ReadersExact
  <1>4. ASSUME NEW key, NEW n PROVE Passed(key, n)' <=> Passed(key, n)
    BY DEF Quiet, Frame, Passed
  <1>5. LoadsFresh'
    BY <1>4, KeyKept DEF Quiet, Frame, LoadsFresh, UsageInv
  <1>6. NoUndercount'
    BY <1>4 DEF Quiet, NoUndercount, UsageInv, Passed
  <1> QED
    BY Zenon, <1>1, <1>3, <1>5, <1>6 DEF UsageInv

(* The total of no record.                                                    *)
LEMMA NothingCounted == Nothing \in [Ids -> Nat]
  BY Zenon DEF Nothing

(* A request that ends is idle, and nothing else happens to requests.         *)
LEMMA IdleFacts ==
    ASSUME NEW q \in Requests, Locals, Idle(q)
    PROVE  Locals' /\ Frame(q) /\ pc'[q] = "idle" /\ Ready(q)'
  <1>1. Locals'
    <2>1. <<>> \in Seq(Keys) /\ 0 \in Days /\ 0 \in 0..MaxRecords
      BY BoundsAssumption DEF Days
    <2> QED
      BY Zenon, <2>1, NothingCounted DEF Idle, Locals, States
  <1>2. Frame(q) /\ pc'[q] = "idle"
    BY Zenon DEF Idle, Frame, Locals
  <1> QED
    BY Zenon, <1>1, <1>2 DEF Ready, Checking

(* After a check a request is refused, let through, or at its next check.     *)
LEMMA CompareFacts ==
    ASSUME NEW q \in Requests, NEW total, Types, Ready(q), pc[q] \in Checking, Compare(q, total)
    PROVE  Locals' /\ Frame(q) /\ pc'[q] \in {"idle", "upstream", "check"} /\ Ready(q)'
  <1>1. CASE Idle(q)
    BY Zenon, <1>1, IdleFacts DEF Types
  <1> DEFINE checks == ChecksOf[caller[q]][now[q]]
             to == IF step[q] = Len(checks) THEN "upstream" ELSE "check"
  <1>2. CASE /\ pc' = [pc EXCEPT ![q] = to]
             /\ step' = [step EXCEPT ![q] = @ + 1]
             /\ got' = [got EXCEPT ![q] = Nothing]
             /\ UNCHANGED <<caller, now, rec, id, left, exhausted>>
    <2>1. /\ caller[q] \in Callers /\ now[q] \in Days /\ step[q] \in 1..Len(checks)
          /\ Len(checks) \in Nat
      BY ZenonT(30), KeyIn DEF Ready, Types, Locals
    <2>2. DOMAIN checks = 1..Len(checks)
      BY Zenon, <2>1, ChecksFacts DEF ChecksOf
    <2> HIDE DEF checks
    <2>3. Locals' /\ Frame(q)
      BY <1>2, NothingCounted DEF Types, Locals, Frame, States
    <2>4. pc'[q] = to /\ step'[q] = step[q] + 1 /\ caller'[q] = caller[q] /\ now'[q] = now[q]
      BY Zenon, <1>2 DEF Types, Locals
    <2>5. ChecksOf[caller'[q]][now'[q]] = checks
      BY Zenon, <2>4 DEF checks
    <2>6. CASE step[q] = Len(checks)
      BY Zenon, <2>1, <2>3, <2>4, <2>6 DEF Ready, Checking
    <2>7. CASE step[q] # Len(checks)
      <3>1. pc'[q] = "check" /\ step'[q] \in DOMAIN checks
        BY <2>1, <2>2, <2>4, <2>7
      <3>2. ChecksOf' = ChecksOf
        BY Zenon DEF ChecksOf
      <3> QED
        BY Zenon, <3>1, <3>2, <2>1, <2>3, <2>4, <2>5 DEF Ready, Checking
    <2> QED
      BY Zenon, <2>6, <2>7
  <1> QED
    BY ZenonT(30), <1>1, <1>2 DEF Compare

(* PreRequest resolves the checks of a request.                               *)
LEMMA BeginKeeps ==
    ASSUME UsageInv, NEW q \in Requests, NEW who \in Callers, Begin(q, who) PROVE UsageInv'
  <1>1. day \in Days /\ Types /\ Shared' /\ DOMAIN db' = DOMAIN db
    BY Zenon DEF Begin, UsageInv, Types, Shared
  <1>2. Locals' /\ Frame(q)
    <2>1. Exhausted(who) \in BOOLEAN
      BY Zenon DEF Exhausted
    <2>2. exhausted' \in [Requests -> BOOLEAN]
      BY ZenonT(30), <2>1, <1>1 DEF Begin, Types, Locals
    <2> HIDE DEF Exhausted
    <2> QED
      BY Zenon, <1>1, <2>2 DEF Begin, Types, Locals, Frame, States
  <1>3. /\ pc'[q] = (IF ChecksOf[who][day] = <<>> THEN "upstream" ELSE "check")
        /\ caller'[q] = who /\ now'[q] = day /\ step'[q] = 1
    BY Zenon, <1>1 DEF Begin, Types, Locals
  <1>4. Ready(q)'
    <2>1. ChecksOf[who][day] # <<>> => 1 \in DOMAIN ChecksOf[who][day]
      <3>1. ChecksOf[who][day] = Checks(who, day)
        BY Zenon, <1>1 DEF ChecksOf
      <3> QED
        BY <3>1, <1>1, ChecksFacts
    <2>2. ChecksOf' = ChecksOf
      BY Zenon DEF ChecksOf
    <2> QED
      BY Zenon, <2>1, <2>2, <1>3 DEF Ready, Checking
  <1>5. Quiet(q)
    BY <1>2, <1>3 DEF Begin, Quiet
  <1> QED
    BY Zenon, <1>1, <1>2, <1>4, <1>5, QuietKeeps DEF Types

(* A cached total is compared.                                                *)
LEMMA HitKeeps == ASSUME UsageInv, NEW q \in Requests, Hit(q) PROVE UsageInv'
  <1>1. Types /\ Ready(q) /\ pc[q] = "check" /\ pc[q] \in Checking /\ Shared'
    BY Zenon DEF Hit, UsageInv, Types, Shared, Checking
  <1>2. Locals' /\ Frame(q) /\ pc'[q] \in {"idle", "upstream", "check"} /\ Ready(q)'
    BY ZenonT(30), <1>1, CompareFacts DEF Hit
  <1>3. Quiet(q)
    BY Zenon, <1>1, <1>2 DEF Hit, Quiet
  <1> QED
    BY Zenon, <1>1, <1>2, <1>3, QuietKeeps DEF Types

(* A total is not cached.                                                     *)
LEMMA MissKeeps == ASSUME UsageInv, NEW q \in Requests, Miss(q) PROVE UsageInv'
  <1>1. /\ pc' \in [Requests -> States] /\ pc'[q] = "missed" /\ pc[q] = "check"
        /\ \A r \in Requests \ {q} : pc'[r] = pc[r]
    BY Zenon DEF Miss, UsageInv, Types, Locals, States
  <1>2. Ready(q)'
    BY ZenonT(30), <1>1 DEF Miss, UsageInv, Ready, Checking, request, ChecksOf
  <1>3. Types'
    BY Zenon, <1>1 DEF Miss, UsageInv, Types, Shared, Locals, request
  <1>4. Quiet(q)
    BY Zenon, <1>1 DEF Miss, Quiet, Frame, request
  <1> QED
    BY Zenon, <1>1, <1>2, <1>3, <1>4, QuietKeeps

(* PostResponse makes the record.                                             *)
LEMMA RespondKeeps == ASSUME UsageInv, NEW q \in Requests, Respond(q) PROVE UsageInv'
  <1>1. PICK cost \in Costs :
            rec' = [rec EXCEPT ![q] = [local |-> TRUE, who |-> caller[q], day |-> day,
                                       cost |-> cost]]
    BY ZenonT(30) DEF Respond
  <1>2. [local |-> TRUE, who |-> caller[q], day |-> day, cost |-> cost] \in Record
    BY ZenonT(30) DEF Respond, UsageInv, Ready, Types, Shared, Record
  <1>3. rec' \in [Requests -> Record \cup {NoRecord}] /\ rec'[q] \in Record
    <2>1. rec \in [Requests -> Record \cup {NoRecord}]
      BY Zenon DEF UsageInv, Types, Locals
    <2> DEFINE made == [local |-> TRUE, who |-> caller[q], day |-> day, cost |-> cost]
    <2>2. made \in Record /\ rec' = [rec EXCEPT ![q] = made]
      BY Zenon, <1>1, <1>2
    <2> HIDE DEF made
    <2> QED
      BY Zenon, <2>1, <2>2
  <1>4. Types' /\ pc'[q] = "responded"
    BY ZenonT(30), <1>3 DEF Respond, UsageInv, Types, Shared, Locals, States
  <1>5. Quiet(q)
    BY Zenon, <1>1, <1>4 DEF Respond, UsageInv, Types, Locals, Quiet, Frame
  <1>6. Ready(q)'
    BY Zenon, <1>3, <1>4 DEF Ready, Checking
  <1> QED
    BY Zenon, <1>4, <1>5, <1>6, QuietKeeps

(* An answer is not recorded.                                                 *)
LEMMA UnrecordedKeeps == ASSUME UsageInv, NEW q \in Requests, Unrecorded(q) PROVE UsageInv'
  <1>1. Locals' /\ Frame(q) /\ pc'[q] = "idle" /\ Ready(q)'
    BY Zenon, IdleFacts DEF UsageInv, Types, Unrecorded
  <1>2. Shared' /\ Quiet(q)
    BY Zenon, <1>1 DEF Unrecorded, UsageInv, Types, Shared, Quiet
  <1> QED
    BY Zenon, <1>1, <1>2, QuietKeeps DEF Types
-----------------------------------------------------------------------------

(* A step of a request that records nothing passes no record.                 *)
LEMMA PassedKept ==
    ASSUME NEW q \in Requests, NEW key, NEW n, Frame(q), UNCHANGED db,
           pc[q] # "recording", pc'[q] # "recording"
    PROVE  Passed(key, n)' <=> Passed(key, n)
  BY Zenon DEF Frame, Passed

(* Only requests load keys.                                                   *)
LEMMA LoadsFinite == ASSUME NEW key PROVE IsFiniteSet(Loads(key))
  <1>1. Loads(key) \subseteq Requests
    BY Zenon DEF Loads
  <1> QED
    BY Zenon, <1>1, FS_Subset, RequestsAssumption

(* One more reader of an entry of loading.                                    *)
LEMMA EntryPlus ==
    \A e \in [readers : Nat, stale : BOOLEAN] :
        [e EXCEPT !.readers = e.readers + 1] \in [readers : Nat, stale : BOOLEAN]
  OBVIOUS

(* One reader less, when others remain.                                       *)
LEMMA EntryMinus ==
    \A e \in [readers : Nat, stale : BOOLEAN] :
        e.readers > 0 /\ e.readers # 1 =>
            LET f == [e EXCEPT !.readers = e.readers - 1]
            IN  /\ f \in [readers : Nat, stale : BOOLEAN]
                /\ f.readers = e.readers - 1 /\ f.readers > 0 /\ f.stale = e.stale
  OBVIOUS

(* A step that touches the entry of one key only, and keeps its count exact.  *)
LEMMA ReadersStep ==
    ASSUME UsageInv, NEW k \in Keys,
           \A key \in Keys \ {k} : loading'[key] = loading[key] /\ Loads(key)' = Loads(key),
           loading'[k].readers = Cardinality(Loads(k)'),
           loading'[k].stale => loading'[k].readers > 0
    PROVE  ReadersExact'
  BY ZenonT(30) DEF UsageInv, ReadersExact

(* beginLoad: one more request loads the key, and the entry counts it.        *)
LEMMA beginLoadKeeps == ASSUME UsageInv, NEW q \in Requests, beginLoad(q) PROVE UsageInv'
  <1>1. Types /\ Ready(q) /\ pc[q] = "missed" /\ pc[q] \in Checking
    BY Zenon DEF beginLoad, UsageInv, Checking
  <1>2. PICK k \in Keys : k = Key(q)
    BY Zenon, <1>1, KeyIn
  <1>3. loading' = [loading EXCEPT ![k].readers = @ + 1]
    BY Zenon, <1>2 DEF beginLoad, Key
  <1>4. /\ Frame(q) /\ pc'[q] = "loading" /\ Key(q)' = k
        /\ UNCHANGED <<day, db, cached, counted, request>>
    BY ZenonT(30), <1>1, <1>2 DEF beginLoad, Types, Locals, Frame, request, Key, Check
  <1>5. Types'
    <2> DEFINE entry == [loading[k] EXCEPT !.readers = loading[k].readers + 1]
    <2>1. loading' \in [Keys -> [readers : Nat, stale : BOOLEAN]]
      <3>1. loading' = [loading EXCEPT ![k] = entry]
        BY Zenon, <1>3
      <3>2. entry \in [readers : Nat, stale : BOOLEAN]
        BY Zenon, <1>1, <1>2, EntryPlus DEF Types, Shared
      <3> HIDE DEF entry
      <3> QED
        BY Zenon, <1>1, <3>1, <3>2 DEF Types, Shared
    <2>2. pc' \in [Requests -> States]
      BY Zenon, <1>1 DEF beginLoad, Types, Locals, States
    <2> QED
      BY Zenon, <1>1, <1>4, <2>1, <2>2 DEF Types, Shared, Locals, request
  <1>6. /\ loading'[k].readers = loading[k].readers + 1 /\ loading'[k].stale = loading[k].stale
        /\ \A key \in Keys \ {k} : loading'[key] = loading[key]
    BY Zenon, <1>1, <1>2, <1>3 DEF Types, Shared
  <1>7. Loads(k)' = Loads(k) \cup {q} /\ q \notin Loads(k)
    BY ZenonT(30), <1>1, <1>2, <1>4, KeyKept DEF Loads, Frame, Key
  <1>8. \A key \in Keys \ {k} : Loads(key)' = Loads(key)
    BY Zenon, <1>1, <1>2, <1>4, KeyKept DEF Loads, Frame, Key
  <1>9. ReadersExact'
    <2>1. Cardinality(Loads(k)') = Cardinality(Loads(k)) + 1
      BY ZenonT(30), <1>7, LoadsFinite, FS_AddElement
    <2>2. loading[k].readers \in Nat
      BY Zenon, <1>1, <1>2 DEF Types, Shared
    <2>3. loading[k].readers = Cardinality(Loads(k))
      BY Zenon, <1>2 DEF UsageInv, ReadersExact
    <2>4. /\ loading'[k].readers = Cardinality(Loads(k)')
          /\ loading'[k].stale => loading'[k].readers > 0
      BY <1>6, <2>1, <2>2, <2>3
    <2>5. \A key \in Keys \ {k} : loading'[key] = loading[key] /\ Loads(key)' = Loads(key)
      BY ZenonT(30), <1>6, <1>8
    <2> QED
      BY ZenonT(30), <1>2, <2>4, <2>5, ReadersStep
  <1>10. \A r \in Requests : Ready(r)'
    <2>1. Ready(q)'
      BY Zenon, <1>1, <1>4 DEF Ready, Checking, request, ChecksOf
    <2> QED
      BY Zenon, <2>1, <1>4, ReadyKept
  <1>11. ASSUME NEW key, NEW n PROVE Passed(key, n)' <=> Passed(key, n)
    BY Zenon, <1>1, <1>4, PassedKept
  <1>12. LoadsFresh'
    <2> SUFFICES ASSUME NEW r \in Requests, pc'[r] = "loaded", ~loading'[Key(r)'].stale,
                        NEW n \in DOMAIN db', Passed(Key(r), n)'
                 PROVE  got'[r][n] >= 1
      BY Zenon DEF LoadsFresh
    <2>1. r # q /\ Key(r)' = Key(r) /\ pc[r] = "loaded" /\ got'[r] = got[r]
      BY Zenon, <1>4, KeyKept DEF Frame
    <2>2. Key(r) \in Keys
      BY Zenon, <2>1, KeyIn DEF UsageInv, Checking
    <2>3. ~loading[Key(r)].stale
      BY Zenon, <2>1, <2>2, <1>6
    <2> QED
      BY Zenon, <2>1, <2>3, <1>4, <1>11 DEF UsageInv, LoadsFresh
  <1>13. NoUndercount'
    BY <1>4, <1>11 DEF NoUndercount, UsageInv, Passed
  <1> QED
    BY Zenon, <1>5, <1>9, <1>10, <1>12, <1>13 DEF UsageInv

(* What the backend returns counts the records passed so far. *)
LEMMA BackendCounts ==
    ASSUME Types, NEW key, NEW n \in DOMAIN db, Passed(key, n)
    PROVE  Backend(key) \in [Ids -> Nat] /\ Backend(key)[n] = 1
  <1>1. db[n] \in Record /\ n \in Ids
    BY BoundsAssumption DEF Types, Shared, Ids
  <1>2. KeysOf(db[n]) = KeysFor(db[n].who, db[n].day)
    BY Zenon, <1>1 DEF KeysOf, quotaSumCacheKeysFor, Record
  <1>3. key[1] \in RangeOf(QuotaCounters(db[n].who)) /\ key[2] <= db[n].day
    BY Zenon, <1>1, <1>2, KeysFacts DEF Passed, Record
  <1>4. Feeds(db[n], key)
    BY Zenon, <1>3 DEF Feeds
  <1> QED
    BY Zenon, <1>1, <1>4 DEF Backend

(* The backend is read: whatever was passed by then is in the total.          *)
LEMMA ReadBackendKeeps == ASSUME UsageInv, NEW q \in Requests, ReadBackend(q) PROVE UsageInv'
  <1>1. Types /\ pc[q] = "loading" /\ Backend(Key(q)) \in [Ids -> Nat]
    BY Zenon DEF ReadBackend, UsageInv, Backend
  <1>2. /\ Frame(q) /\ pc'[q] = "loaded" /\ got'[q] = Backend(Key(q)) /\ Key(q)' = Key(q)
        /\ UNCHANGED <<db, cached, counted, loading, caller, now, step, id, left>>
    BY ZenonT(30), <1>1 DEF ReadBackend, Types, Locals, Frame, Key, Check
  <1>3. Types'
    BY Zenon, <1>1 DEF ReadBackend, Types, Shared, Locals, States, Key
  <1>4. \A key \in Keys : Loads(key)' = Loads(key)
    BY <1>1, <1>2, KeyKept DEF Loads, Frame, Key
  <1>5. ReadersExact'
    BY Zenon, <1>2, <1>4 DEF UsageInv, ReadersExact
  <1>6. \A r \in Requests : Ready(r)'
    <2>1. Ready(q)'
      BY ZenonT(30), <1>1, <1>2 DEF UsageInv, Ready, Checking, ChecksOf
    <2> QED
      BY Zenon, <2>1, <1>2, ReadyKept
  <1>7. ASSUME NEW key, NEW n PROVE Passed(key, n)' <=> Passed(key, n)
    BY Zenon, <1>1, <1>2, PassedKept
  <1>8. LoadsFresh'
    <2> SUFFICES ASSUME NEW r \in Requests, pc'[r] = "loaded", ~loading'[Key(r)'].stale,
                        NEW n \in DOMAIN db', Passed(Key(r), n)'
                 PROVE  got'[r][n] >= 1
      BY Zenon DEF LoadsFresh
    <2>1. CASE r = q
      BY <2>1, <1>1, <1>2, <1>7, BackendCounts
    <2>2. CASE r # q
      <3>1. Key(r)' = Key(r) /\ pc[r] = "loaded" /\ got'[r] = got[r]
        BY ZenonT(30), <2>2, <1>2, KeyKept DEF Frame
      <3> QED
        BY Zenon, <3>1, <1>2, <1>7 DEF UsageInv, LoadsFresh
    <2> QED
      BY Zenon, <2>1, <2>2
  <1>9. NoUndercount'
    <2> SUFFICES ASSUME NEW key \in cached', NEW n \in DOMAIN db', Passed(key, n)'
                 PROVE  counted'[key][n] >= 1
      BY Zenon DEF NoUndercount, Passed
    <2>1. Passed(key, n)
      BY Zenon, <1>7
    <2>2. counted[key][n] >= 1
      BY Zenon, <1>2, <2>1 DEF UsageInv, NoUndercount, Passed
    <2> QED
      BY Zenon, <1>2, <2>2
  <1> QED
    BY Zenon, <1>3, <1>5, <1>6, <1>8, <1>9 DEF UsageInv

(* A load ends: its total is stored unless the key is stale. *)
Leaves(q) ==
    /\ pc[q] \in {"loading", "loaded"} /\ pc'[q] \in {"idle", "upstream", "check"}
    /\ Frame(q) /\ LeaveLoad(Key(q)) /\ UNCHANGED <<day, db>>
    /\ \/ UNCHANGED <<cached, counted>>
       \/ pc[q] = "loaded" /\ ~loading[Key(q)].stale /\ SetInt64(Key(q), got[q])

(* The end of a load. The stale mark only goes with the last reader, so that  *)
(* no other total read from the backend loses it; and a total is stored only  *)
(* if no record passed the key since it was read.                             *)
LEMMA LeavesKeeps ==
    ASSUME UsageInv, NEW q \in Requests, Leaves(q), Locals', Ready(q)' PROVE UsageInv'
  <1>1. Types /\ Ready(q) /\ pc[q] \in {"loading", "loaded"} /\ pc[q] \in Checking /\ Frame(q)
    BY Zenon DEF Leaves, UsageInv, Checking
  <1>2. PICK k \in Keys : k = Key(q)
    BY Zenon, <1>1, KeyIn
  <1> DEFINE readers == loading[k].readers
  <1>3. loading[k] \in [readers : Nat, stale : BOOLEAN]
    BY Zenon, <1>1, <1>2 DEF Types, Shared
  <1>4. q \in Loads(k) /\ readers = Cardinality(Loads(k)) /\ readers \in Nat
    BY Zenon, <1>1, <1>2, <1>3 DEF Loads, Key, UsageInv, ReadersExact
  <1> DEFINE entry == IF loading[k].readers = 1 THEN NoLoad
                      ELSE [loading[k] EXCEPT !.readers = loading[k].readers - 1]
  <1>5. loading' = [loading EXCEPT ![k] = entry]
    <2>1. LeaveLoad(k)
      BY ZenonT(30), <1>2 DEF Leaves
    <2> QED
      BY ZenonT(30), <2>1 DEF LeaveLoad
  <1>6. Cardinality(Loads(k) \ {q}) = readers - 1 /\ readers > 0
    <2>1. /\ Cardinality(Loads(k) \ {q}) = Cardinality(Loads(k)) - 1
          /\ Cardinality(Loads(k) \ {q}) \in Nat
      BY Zenon, <1>4, LoadsFinite, FS_RemoveElement, FS_CardinalityType
    <2> QED
      BY <2>1, <1>4
  <1>7. /\ entry \in [readers : Nat, stale : BOOLEAN] /\ entry.readers = readers - 1
        /\ (entry.stale => entry.readers > 0)
        /\ (readers # 1 => entry.stale = loading[k].stale)
    <2>1. CASE readers = 1
      BY <2>1 DEF NoLoad
    <2>2. CASE readers # 1
      <3>1. entry = [loading[k] EXCEPT !.readers = loading[k].readers - 1]
        BY Zenon, <2>2
      <3> HIDE DEF entry
      <3> QED
        BY Zenon, <3>1, <2>2, <1>3, <1>6, EntryMinus
    <2> QED
      BY Zenon, <2>1, <2>2
  <1> HIDE DEF entry
  <1>8. /\ loading' \in [Keys -> [readers : Nat, stale : BOOLEAN]] /\ loading'[k] = entry
        /\ \A key \in Keys \ {k} : loading'[key] = loading[key]
    BY Zenon, <1>1, <1>2, <1>5, <1>7 DEF Types, Shared
  <1>9. Types'
    <2>1. cached' \subseteq Keys /\ counted' \in [Keys -> [Ids -> Nat]]
      <3>1. got[q] \in [Ids -> Nat]
        BY Zenon, <1>1 DEF Types, Locals
      <3> QED
        BY ZenonT(30), <3>1, <1>1, <1>2 DEF Leaves, SetInt64, Types, Shared
    <2> QED
      BY ZenonT(30), <2>1, <1>1, <1>8 DEF Leaves, Types, Shared
  <1>10. Loads(k)' = Loads(k) \ {q} /\ \A key \in Keys \ {k} : Loads(key)' = Loads(key)
    BY <1>1, <1>2, KeyKept DEF Leaves, Loads, Frame, Key
  <1>11. ReadersExact'
    <2>1. \A key \in Keys \ {k} : loading'[key] = loading[key] /\ Loads(key)' = Loads(key)
      BY ZenonT(30), <1>8, <1>10
    <2>2. /\ loading'[k].readers = Cardinality(Loads(k)')
          /\ loading'[k].stale => loading'[k].readers > 0
      BY ZenonT(30), <1>6, <1>7, <1>8, <1>10
    <2> QED
      BY ZenonT(30), <1>2, <2>1, <2>2, ReadersStep
  <1>12. \A r \in Requests : Ready(r)'
    BY ZenonT(30), <1>1, ReadyKept DEF Leaves
  <1>13. ASSUME NEW key, NEW n PROVE Passed(key, n)' <=> Passed(key, n)
    BY Zenon, <1>1, PassedKept DEF Leaves
  <1>14. LoadsFresh'
    <2> SUFFICES ASSUME NEW r \in Requests, pc'[r] = "loaded", ~loading'[Key(r)'].stale,
                        NEW n \in DOMAIN db', Passed(Key(r), n)'
                 PROVE  got'[r][n] >= 1
      BY Zenon DEF LoadsFresh
    <2>1. r # q /\ Key(r)' = Key(r) /\ pc[r] = "loaded" /\ got'[r] = got[r]
      BY ZenonT(30), <1>1, KeyKept DEF Leaves, Frame
    <2>2. Key(r) \in Keys
      BY ZenonT(30), <2>1, KeyIn DEF UsageInv, Checking
    <2>3. ~loading[Key(r)].stale
      <3>1. CASE Key(r) # k
        BY Zenon, <3>1, <2>1, <2>2, <1>8
      <3>2. CASE Key(r) = k
        <4>1. r \in Loads(k) \ {q}
          BY Zenon, <3>2, <2>1 DEF Loads, Key
        <4>2. readers # 1
          <5>1. IsFiniteSet(Loads(k) \ {q})
            BY Zenon, LoadsFinite, FS_Subset
          <5>2. Cardinality(Loads(k) \ {q}) # 0
            BY Zenon, <4>1, <5>1, FS_EmptySet
          <5> QED
            BY <5>2, <1>4, <1>6
        <4> QED
          BY Zenon, <4>2, <3>2, <2>1, <1>7, <1>8
      <3> QED
        BY Zenon, <3>1, <3>2
    <2>4. Passed(Key(r), n)
      BY Zenon, <2>1, <1>13
    <2> QED
      BY ZenonT(30), <2>1, <2>3, <2>4 DEF UsageInv, LoadsFresh, Leaves
  <1>15. NoUndercount'
    <2> SUFFICES ASSUME NEW key \in cached', NEW n \in DOMAIN db', Passed(key, n)'
                 PROVE  counted'[key][n] >= 1
      BY Zenon DEF NoUndercount, Passed
    <2>1. Passed(key, n) /\ n \in DOMAIN db
      BY Zenon, <1>13 DEF Leaves
    <2>2. CASE UNCHANGED <<cached, counted>>
      BY Zenon, <2>1, <2>2 DEF UsageInv, NoUndercount, Passed
    <2>3. CASE pc[q] = "loaded" /\ ~loading[k].stale /\ SetInt64(k, got[q])
      <3>1. CASE key = k
        <4>1. got[q][n] >= 1
          BY Zenon, <1>2, <2>1, <2>3, <3>1 DEF UsageInv, LoadsFresh
        <4> QED
          BY Zenon, <4>1, <3>1, <2>3, <1>1, <1>2 DEF SetInt64, Types, Shared
      <3>2. CASE key # k
        <4>1. key \in cached /\ counted'[key] = counted[key]
          BY ZenonT(30), <2>3, <3>2, <1>1 DEF SetInt64, Types, Shared
        <4> QED
          BY ZenonT(30), <4>1, <2>1 DEF UsageInv, NoUndercount, Passed
      <3> QED
        BY Zenon, <3>1, <3>2
    <2> QED
      BY Zenon, <1>2, <2>2, <2>3 DEF Leaves
  <1> QED
    BY Zenon, <1>9, <1>11, <1>12, <1>14, <1>15 DEF UsageInv

(* finishLoad ends a load, with a total.                                      *)
LEMMA finishLoadKeeps == ASSUME UsageInv, NEW q \in Requests, finishLoad(q) PROVE UsageInv'
  <1>1. Types /\ Ready(q) /\ pc[q] = "loaded" /\ pc[q] \in Checking
    BY Zenon DEF finishLoad, UsageInv, Checking
  <1>2. Locals' /\ Frame(q) /\ pc'[q] \in {"idle", "upstream", "check"} /\ Ready(q)'
    BY ZenonT(30), <1>1, CompareFacts DEF finishLoad
  <1>3. Leaves(q)
    BY ZenonT(30), <1>1, <1>2 DEF finishLoad, Leaves, Stores, Key
  <1> QED
    BY ZenonT(30), <1>2, <1>3, LeavesKeeps

(* A failed read ends a load, without one.                                    *)
LEMMA LoadFailsKeeps == ASSUME UsageInv, NEW q \in Requests, LoadFails(q) PROVE UsageInv'
  <1>1. Locals' /\ Frame(q) /\ pc'[q] = "idle" /\ Ready(q)'
    BY ZenonT(30), IdleFacts DEF UsageInv, Types, LoadFails
  <1>2. Leaves(q)
    BY ZenonT(30), <1>1 DEF LoadFails, Leaves, Key
  <1> QED
    BY ZenonT(30), <1>1, <1>2, LeavesKeeps

(* applyRecordedCost passes a key: a cached total is incremented, and a total *)
(* that is being loaded is marked stale. One of the two holds the record.     *)
LEMMA applyRecordedCostKeeps ==
    ASSUME UsageInv, NEW q \in Requests, applyRecordedCost(q) PROVE UsageInv'
  <1>1. Types /\ Ready(q) /\ pc[q] = "recording" /\ left[q] \in Seq(Keys) /\ left[q] # <<>>
    BY Zenon DEF applyRecordedCost, UsageInv, Types, Locals, Ready
  <1>2. PICK k \in Keys : k = Head(left[q])
    BY Zenon, <1>1, TailFacts
  <1>3. PICK m \in Ids : m = id[q] /\ m \in DOMAIN db
    <2>1. id[q] \in DOMAIN db /\ db \in Seq(Record) /\ Len(db) <= MaxRecords
      BY Zenon, <1>1 DEF Ready, Types, Shared
    <2>2. id[q] \in Ids
      BY <2>1, BoundsAssumption DEF Ids
    <2> QED
      BY Zenon, <2>1, <2>2
  <1>4. /\ loading' = [loading EXCEPT ![k].stale = @ \/ loading[k].readers > 0]
        /\ counted' = IF k \in cached THEN [counted EXCEPT ![k][m] = @ + 1] ELSE counted
        /\ UNCHANGED <<day, db, cached>>
    BY Zenon, <1>2, <1>3 DEF applyRecordedCost, AddInt64
  <1>5. /\ Locals' /\ Frame(q) /\ Ready(q)' /\ pc'[q] \in {"idle", "recording"}
        /\ \A key, n : (pc'[q] = "recording" /\ id'[q] = n => key \notin RangeOf(left'[q])) =>
                         \/ key = k /\ n = m
                         \/ pc[q] = "recording" /\ id[q] = n => key \notin RangeOf(left[q])
    <2>1. CASE Len(left[q]) = 1
      <3>1. Locals' /\ Frame(q) /\ pc'[q] = "idle" /\ Ready(q)'
        BY Zenon, <1>1, <2>1, IdleFacts DEF applyRecordedCost, Types
      <3>2. RangeOf(left[q]) = {k}
        BY Zenon, <1>1, <1>2, <2>1, TailFacts
      <3> QED
        BY ZenonT(30), <3>1, <3>2, <1>3
    <2>2. CASE Len(left[q]) # 1
      <3>1. /\ left' = [left EXCEPT ![q] = Tail(left[q])]
            /\ UNCHANGED <<pc, caller, now, step, got, rec, id, exhausted>>
        BY Zenon, <2>2 DEF applyRecordedCost
      <3>2. /\ Tail(left[q]) \in Seq(Keys) /\ Tail(left[q]) # <<>>
            /\ RangeOf(left[q]) \subseteq {k} \cup RangeOf(Tail(left[q]))
        BY Zenon, <1>1, <1>2, <2>2, TailFacts
      <3>3. Locals' /\ Frame(q) /\ left'[q] = Tail(left[q])
        BY Zenon, <1>1, <3>1, <3>2 DEF Types, Locals, Frame
      <3>4. Ready(q)'
        BY Zenon, <1>1, <1>4, <3>1, <3>2, <3>3 DEF Ready, Checking
      <3> QED
        BY ZenonT(30), <1>1, <1>3, <3>1, <3>2, <3>3, <3>4
    <2> QED
      BY Zenon, <2>1, <2>2
  <1>6. /\ loading' \in [Keys -> [readers : Nat, stale : BOOLEAN]]
        /\ loading'[k].readers = loading[k].readers
        /\ loading'[k].stale = (loading[k].stale \/ loading[k].readers > 0)
        /\ \A key \in Keys \ {k} : loading'[key] = loading[key]
    <2>1. ASSUME NEW e \in [readers : Nat, stale : BOOLEAN]
          PROVE  LET f == [e EXCEPT !.stale = e.stale \/ e.readers > 0]
                 IN  /\ f \in [readers : Nat, stale : BOOLEAN] /\ f.readers = e.readers
                     /\ f.stale = (e.stale \/ e.readers > 0)
      BY ZenonT(30)
    <2> DEFINE entry == [loading[k] EXCEPT !.stale = loading[k].stale \/ loading[k].readers > 0]
    <2>2. loading' = [loading EXCEPT ![k] = entry]
      BY Zenon, <1>4
    <2>3. /\ entry \in [readers : Nat, stale : BOOLEAN] /\ entry.readers = loading[k].readers
          /\ entry.stale = (loading[k].stale \/ loading[k].readers > 0)
      BY Zenon, <1>1, <2>1 DEF Types, Shared
    <2> HIDE DEF entry
    <2> QED
      BY Zenon, <1>1, <2>2, <2>3 DEF Types, Shared
  <1>7. /\ counted' \in [Keys -> [Ids -> Nat]]
        /\ \A key \in Keys, n \in Ids : counted'[key][n] >= counted[key][n]
        /\ k \in cached => counted'[k][m] >= 1
    BY <1>1, <1>3, <1>4 DEF Types, Shared
  <1>8. Types'
    BY Zenon, <1>1, <1>4, <1>5, <1>6, <1>7 DEF Types, Shared
  <1>9. \A key \in Keys : Loads(key)' = Loads(key)
    BY ZenonT(30), <1>1, <1>5, KeyKept DEF Loads, Frame, Key
  <1>10. ReadersExact'
    <2>1. \A key \in Keys \ {k} : loading'[key] = loading[key] /\ Loads(key)' = Loads(key)
      BY ZenonT(30), <1>6, <1>9
    <2>2. /\ loading'[k].readers = Cardinality(Loads(k)')
          /\ loading'[k].stale => loading'[k].readers > 0
      BY ZenonT(30), <1>2, <1>6, <1>9 DEF UsageInv, ReadersExact
    <2> QED
      BY ZenonT(30), <1>2, <2>1, <2>2, ReadersStep
  <1>11. \A r \in Requests : Ready(r)'
    BY Zenon, <1>4, <1>5, ReadyKept
  <1>12. ASSUME NEW key, NEW n, Passed(key, n)' PROVE (key = k /\ n = m) \/ Passed(key, n)
    <2>1. db' = db
      BY Zenon, <1>4
    <2>2. \A r \in Requests \ {q} : pc'[r] = pc[r] /\ id'[r] = id[r] /\ left'[r] = left[r]
      BY ZenonT(30), <1>5 DEF Frame
    <2>3. /\ db[n].local /\ key \in RangeOf(KeysOf(db[n]))
          /\ \A r \in Requests :
                 pc'[r] = "recording" /\ id'[r] = n => key \notin RangeOf(left'[r])
      BY Zenon, <1>12, <2>1 DEF Passed
    <2>4. CASE key = k /\ n = m
      BY Zenon, <2>4
    <2>5. CASE ~(key = k /\ n = m)
      <3>1. pc[q] = "recording" /\ id[q] = n => key \notin RangeOf(left[q])
        BY ZenonT(30), <1>5, <2>3, <2>5
      <3>2. \A r \in Requests : pc[r] = "recording" /\ id[r] = n => key \notin RangeOf(left[r])
        BY ZenonT(30), <2>2, <2>3, <3>1
      <3> QED
        BY ZenonT(30), <2>3, <3>2 DEF Passed
    <2> QED
      BY Zenon, <2>4, <2>5
  <1>13. LoadsFresh'
    <2> SUFFICES ASSUME NEW r \in Requests, pc'[r] = "loaded", ~loading'[Key(r)'].stale,
                        NEW n \in DOMAIN db', Passed(Key(r), n)'
                 PROVE  got'[r][n] >= 1
      BY Zenon DEF LoadsFresh
    <2>1. r # q /\ Key(r)' = Key(r) /\ pc[r] = "loaded" /\ got'[r] = got[r]
      BY ZenonT(30), <1>5, KeyKept DEF Frame
    <2>2. PICK key \in Keys : key = Key(r)
      BY Zenon, <2>1, KeyIn DEF UsageInv, Checking
    <2>3. loading[key].readers > 0
      <3>1. r \in Loads(key)
        BY Zenon, <2>1, <2>2 DEF Loads, Key
      <3>2. /\ IsFiniteSet(Loads(key)) /\ Cardinality(Loads(key)) \in Nat
            /\ Cardinality(Loads(key)) # 0
        BY Zenon, <3>1, LoadsFinite, FS_EmptySet, FS_CardinalityType
      <3> QED
        BY <3>2 DEF UsageInv, ReadersExact
    <2>4. key # k /\ ~loading[key].stale
      BY Zenon, <2>1, <2>2, <2>3, <1>6
    <2>5. Passed(key, n)'
      BY ZenonT(30), <2>1, <2>2
    <2>6. Passed(key, n)
      BY Zenon, <2>4, <2>5, <1>12
    <2> QED
      BY Zenon, <2>1, <2>2, <2>4, <2>6, <1>4 DEF UsageInv, LoadsFresh
  <1>14. NoUndercount'
    <2> SUFFICES ASSUME NEW key \in cached', NEW n \in DOMAIN db', Passed(key, n)'
                 PROVE  counted'[key][n] >= 1
      BY Zenon DEF NoUndercount, Passed
    <2>1. key \in cached /\ key \in Keys /\ n \in DOMAIN db /\ n \in Ids
      <3>1. key \in cached /\ n \in DOMAIN db
        BY Zenon, <1>4
      <3>2. cached \subseteq Keys /\ db \in Seq(Record) /\ Len(db) <= MaxRecords
        BY Zenon, <1>1 DEF Types, Shared
      <3>3. n \in Ids
        BY <3>1, <3>2, BoundsAssumption DEF Ids
      <3> QED
        BY Zenon, <3>1, <3>2, <3>3
    <2>2. CASE key = k /\ n = m
      BY Zenon, <2>1, <2>2, <1>7
    <2>3. CASE Passed(key, n)
      <3>1. counted[key][n] >= 1 /\ counted[key][n] \in Nat
        BY Zenon, <1>1, <2>1, <2>3 DEF UsageInv, NoUndercount, Passed, Types, Shared
      <3>2. counted'[key][n] >= counted[key][n] /\ counted'[key][n] \in Nat
        BY Zenon, <2>1, <1>7
      <3> QED
        BY ONLY <3>1, <3>2
    <2> QED
      BY Zenon, <2>2, <2>3, <1>12
  <1> QED
    BY Zenon, <1>8, <1>10, <1>11, <1>13, <1>14 DEF UsageInv

(* A step that passes no record, and leaves loads and cached totals alone. *)
LEMMA NothingPassed ==
    ASSUME UsageInv, Types', \A r \in Requests : Ready(r)', loading' = loading,
           \A key \in Keys : Loads(key)' = Loads(key),
           \A r \in Requests : pc'[r] = "loaded" =>
               pc[r] = "loaded" /\ got'[r] = got[r] /\ Key(r)' = Key(r),
           cached' \subseteq cached, \A key \in cached' : counted'[key] = counted[key],
           \A key, n : n \in DOMAIN db' /\ Passed(key, n)' => n \in DOMAIN db /\ Passed(key, n)
    PROVE  UsageInv'
  <1>1. ReadersExact'
    BY ZenonT(30) DEF UsageInv, ReadersExact
  <1>2. LoadsFresh'
    <2> SUFFICES ASSUME NEW r \in Requests, pc'[r] = "loaded", ~loading'[Key(r)'].stale,
                        NEW n \in DOMAIN db', Passed(Key(r), n)'
                 PROVE  got'[r][n] >= 1
      BY Zenon DEF LoadsFresh
    <2>1. PICK key : key = Key(r)
      BY Zenon
    <2>2. Passed(key, n)' /\ pc[r] = "loaded" /\ got'[r] = got[r] /\ ~loading[Key(r)].stale
      BY ZenonT(30), <2>1
    <2> QED
      BY ZenonT(30), <2>1, <2>2 DEF UsageInv, LoadsFresh
  <1>3. NoUndercount'
    <2> SUFFICES ASSUME NEW key \in cached', NEW n \in DOMAIN db', Passed(key, n)'
                 PROVE  counted'[key][n] >= 1
      BY ZenonT(30) DEF NoUndercount, Passed
    <2>1. key \in cached /\ n \in DOMAIN db /\ Passed(key, n)
      BY Zenon
    <2> QED
      BY ZenonT(30), <2>1 DEF UsageInv, NoUndercount, Passed
  <1> QED
    BY Zenon, <1>1, <1>2, <1>3 DEF UsageInv

(* A record is written at the end of the database.                            *)
LEMMA Appended ==
    ASSUME NEW r \in Record, db \in Seq(Record), db' = Append(db, r), Len(db) < MaxRecords
    PROVE  /\ db' \in Seq(Record) /\ Len(db') <= MaxRecords
           /\ Len(db) + 1 \notin DOMAIN db /\ DOMAIN db' = DOMAIN db \cup {Len(db) + 1}
           /\ db'[Len(db) + 1] = r /\ \A n \in DOMAIN db : db'[n] = db[n]
           /\ Len(db) + 1 \in 0..MaxRecords
  BY BoundsAssumption

(* RecordUsage writes the record: it has passed no key yet.                   *)
LEMMA PersistKeeps == ASSUME UsageInv, NEW q \in Requests, Persist(q) PROVE UsageInv'
  <1>1. Types /\ Ready(q) /\ pc[q] = "responded" /\ rec[q] \in Record
    BY Zenon DEF Persist, UsageInv, Ready
  <1>2. PICK m : m = Len(db) + 1
    BY Zenon
  <1>3. /\ db' \in Seq(Record) /\ Len(db') <= MaxRecords
        /\ m \notin DOMAIN db /\ DOMAIN db' = DOMAIN db \cup {m}
        /\ db'[m] = rec[q] /\ \A n \in DOMAIN db : db'[n] = db[n]
        /\ m \in 0..MaxRecords
    BY ZenonT(30), <1>1, <1>2, Appended DEF Persist, Types, Shared
  <1>4. KeysOf(rec[q]) \in Seq(Keys) /\ KeysOf(rec[q]) # <<>>
    <2>1. KeysOf(rec[q]) = KeysFor(rec[q].who, rec[q].day)
      BY Zenon, <1>1 DEF KeysOf, quotaSumCacheKeysFor, Record
    <2>2. rec[q].who \in Callers /\ rec[q].day \in Days
      BY Zenon, <1>1 DEF Record
    <2> QED
      BY ZenonT(30), <2>1, <2>2, KeysFacts
  <1>5. /\ Frame(q) /\ pc'[q] = "recording" /\ id'[q] = m /\ left'[q] = KeysOf(rec[q])
        /\ UNCHANGED <<day, cached, counted, loading>>
    BY Zenon, <1>1, <1>2 DEF Persist, Types, Locals, Frame
  <1>6. Types'
    BY ZenonT(30), <1>1, <1>2, <1>3, <1>4 DEF Persist, Types, Shared, Locals, States
  <1>7. \A r \in Requests : Ready(r)'
    <2>1. Ready(q)'
      BY ZenonT(30), <1>3, <1>4, <1>5 DEF Ready, Checking
    <2> QED
      BY ZenonT(30), <2>1, <1>3, <1>5, ReadyKept
  <1>8. \A key \in Keys : Loads(key)' = Loads(key)
    BY ZenonT(30), <1>1, <1>5, KeyKept DEF Loads, Frame, Key
  <1>9. \A r \in Requests : pc'[r] = "loaded" =>
            pc[r] = "loaded" /\ got'[r] = got[r] /\ Key(r)' = Key(r)
    BY ZenonT(30), <1>5, KeyKept DEF Frame
  <1>10. ASSUME NEW key, NEW n, n \in DOMAIN db' /\ Passed(key, n)'
         PROVE  n \in DOMAIN db /\ Passed(key, n)
    <2>1. /\ db'[n].local /\ key \in RangeOf(KeysOf(db'[n]))
          /\ \A r \in Requests :
                 pc'[r] = "recording" /\ id'[r] = n => key \notin RangeOf(left'[r])
      BY Zenon, <1>10 DEF Passed
    <2>2. n # m
      BY ZenonT(30), <2>1, <1>3, <1>5
    <2>3. n \in DOMAIN db /\ db'[n] = db[n]
      BY Zenon, <2>2, <1>3, <1>10
    <2>4. \A r \in Requests : pc[r] = "recording" /\ id[r] = n => key \notin RangeOf(left[r])
      BY ZenonT(30), <2>1, <1>1, <1>5 DEF Frame
    <2> QED
      BY ZenonT(30), <2>1, <2>3, <2>4 DEF Passed
  <1> QED
    BY ZenonT(30), <1>5, <1>6, <1>7, <1>8, <1>9, <1>10, NothingPassed

(* A record of another replica is not one the totals here must count.         *)
LEMMA RecordElsewhereKeeps ==
    ASSUME UsageInv, NEW who \in Elsewhere, NEW cost \in Costs, RecordElsewhere(who, cost)
    PROVE  UsageInv'
  <1>1. PICK r \in Record : r = [local |-> FALSE, who |-> who, day |-> day, cost |-> cost]
    BY ZenonT(30), RequestsAssumption DEF UsageInv, Types, Shared, Record
  <1>2. PICK m : m = Len(db) + 1
    BY Zenon
  <1>3. /\ db' \in Seq(Record) /\ Len(db') <= MaxRecords
        /\ DOMAIN db' = DOMAIN db \cup {m}
        /\ db'[m] = r /\ \A n \in DOMAIN db : db'[n] = db[n]
    BY ZenonT(30), <1>1, <1>2, Appended DEF RecordElsewhere, UsageInv, Types, Shared
  <1>4. UNCHANGED <<day, cached, counted, loading, pc, caller, now, step, got, rec, id, left,
                    exhausted>>
    BY Zenon DEF RecordElsewhere, request
  <1>5. Types'
    BY ZenonT(30), <1>3, <1>4 DEF UsageInv, Types, Shared, Locals
  <1>6. \A q \in Requests : Ready(q)'
    BY Zenon, <1>3, <1>4 DEF UsageInv, Ready, ChecksOf
  <1>7. /\ \A key \in Keys : Loads(key)' = Loads(key)
        /\ \A q \in Requests : Key(q)' = Key(q)
    BY Zenon, <1>4 DEF Loads, Key, Check
  <1>8. ASSUME NEW key, NEW n, n \in DOMAIN db' /\ Passed(key, n)'
        PROVE  n \in DOMAIN db /\ Passed(key, n)
    <2>1. db'[n].local
      BY Zenon, <1>8 DEF Passed
    <2>2. ~r.local
      BY Zenon, <1>1
    <2>3. n \in DOMAIN db /\ db'[n] = db[n]
      BY ZenonT(30), <2>1, <2>2, <1>3, <1>8
    <2> QED
      BY ZenonT(30), <2>3, <1>4, <1>8 DEF Passed
  <1> QED
    BY ZenonT(30), <1>4, <1>5, <1>6, <1>7, <1>8, NothingPassed

(* A total expires, or the day ends. *)
LEMMA OutsideKeeps ==
    ASSUME UsageInv, (\E key \in Keys : Expire(key)) \/ NextDay \/ UNCHANGED vars
    PROVE  UsageInv'
  <1>1. UNCHANGED <<db, loading, pc, caller, now, step, got, rec, id, left, exhausted>>
    BY Zenon DEF Expire, NextDay, request, vars
  <1>2. day' \in Days
    BY BoundsAssumption DEF UsageInv, Types, Shared, Expire, NextDay, vars, Days
  <1>3. /\ cached' \subseteq cached /\ \A key \in cached' : counted'[key] = counted[key]
        /\ counted' \in [Keys -> [Ids -> Nat]]
    BY ZenonT(30), NothingCounted DEF UsageInv, Types, Shared, Expire, NextDay, vars
  <1>4. Types'
    BY Zenon, <1>1, <1>2, <1>3 DEF UsageInv, Types, Shared, Locals
  <1>5. \A q \in Requests : Ready(q)'
    BY Zenon, <1>1 DEF UsageInv, Ready, ChecksOf
  <1>6. /\ \A key \in Keys : Loads(key)' = Loads(key)
        /\ \A q \in Requests : Key(q)' = Key(q)
    BY Zenon, <1>1 DEF Loads, Key, Check
  <1>7. \A key, n : Passed(key, n)' <=> Passed(key, n)
    BY ZenonT(30), <1>1 DEF Passed
  <1> QED
    BY ZenonT(30), <1>1, <1>3, <1>4, <1>5, <1>6, <1>7, NothingPassed

(* Every step keeps the invariant.                                            *)
LEMMA UsageInvStep == UsageInv /\ [Next]_vars => UsageInv'
  <1> SUFFICES ASSUME UsageInv, [Next]_vars PROVE UsageInv'
    BY Zenon
  <1>1. ASSUME NEW q \in Requests, Request(q) PROVE UsageInv'
    BY ZenonT(30), <1>1, BeginKeeps, HitKeeps, MissKeeps, beginLoadKeeps, ReadBackendKeeps,
       finishLoadKeeps, LoadFailsKeeps, RespondKeeps, PersistKeeps, UnrecordedKeeps,
       applyRecordedCostKeeps DEF Request
  <1> QED
    BY ZenonT(30), <1>1, RecordElsewhereKeeps, OutsideKeeps DEF Next

(* No cached total misses a record of this replica, whatever the number of    *)
(* requests, callers, quotas and days, and however the loads of a total       *)
(* (beginLoad, finishLoad) overlap with the records (applyRecordedCost).      *)
THEOREM NoRecordMissed == Spec => []NoUndercount
  <1>1. UsageInv => NoUndercount
    BY Zenon DEF UsageInv
  <1> QED
    BY InitInv, UsageInvStep, <1>1, PTL DEF Spec

(* The variables keep their types; UsageStore.loading counts exactly the      *)
(* requests between beginLoad and finishLoad, and drops its stale marks with  *)
(* them.                                                                      *)
THEOREM TotalsTypeCorrect == Spec => []TypeOK
  <1>1. UsageInv => TypeOK
    BY Zenon, TypesOK DEF UsageInv, Types
  <1> QED
    BY InitInv, UsageInvStep, <1>1, PTL DEF Spec

-----------------------------------------------------------------------------
(* How often a total counts a record. *)

(* Between 0 and m, both excluded, there is no multiple of m.                 *)
LEMMA NoMultiple ==
    ASSUME NEW m \in Nat \ {0}, NEW t \in Int PROVE ~(0 < m * t /\ m * t < m)
  <1>1. CASE t <= 0
    BY <1>1
  <1>2. CASE t >= 1
    BY <1>2
  <1> QED
    BY <1>1, <1>2

(* If y is a multiple of m, the last multiple of y is one of m.               *)
LEMMA NestedMultiples ==
    ASSUME NEW d \in Nat, NEW m \in Nat \ {0}, NEW y \in Nat \ {0}, y % m = 0
    PROVE  d % m <= d % y
  <1> DEFINE k == y \div m
             q == d \div y
             p == d \div m
             r == d % y
             s == d % m
  <1>1. k \in Int /\ q \in Int /\ p \in Int /\ r \in 0..(y - 1) /\ s \in 0..(m - 1)
    OBVIOUS
  <1>2. y = m * k /\ d = y * q + r /\ d = m * p + s
    OBVIOUS
  <1> HIDE DEF k, q, p, r, s
  <1>3. k * q - p \in Int
    BY <1>1
  <1>4. m * (k * q - p) = s - r
    <2>1. (m * k) * q = m * (k * q)
      BY <1>1
    <2>2. m * (k * q - p) = m * (k * q) - m * p
      BY <1>1
    <2> QED
      BY <1>1, <1>2, <2>1, <2>2
  <1>5. ~(0 < s - r /\ s - r < m)
    BY Zenon, <1>3, <1>4, NoMultiple
  <1>6. s <= r
    BY <1>1, <1>5
  <1> QED
    BY Zenon, <1>6 DEF r, s

(* A sequence that lists nothing twice. *)
Distinct(s) == \A i, j \in DOMAIN s : s[i] = s[j] => i = j

(* The year of a day starts by its month, the month by the day: Starts lists  *)
(* no window twice, although it only compares neighbours.                     *)
LEMMA StartsDistinct == ASSUME NEW d \in Days PROVE Distinct(Starts(d))
  <1> DEFINE a == StartOf("day", d)
             b == StartOf("month", d)
             c == StartOf("year", d)
  <1>1. /\ a \in Nat /\ b \in Nat /\ c \in Nat /\ b <= a /\ c <= b
    <2>1. d \in Nat
      BY BoundsAssumption DEF Days
    <2>2. a \in Days /\ b \in Days /\ c \in Days /\ b <= d
      BY Zenon, StartFacts
    <2>3. a = d /\ b = d - (d % DaysPerMonth) /\ c = d - (d % DaysPerYear)
      BY Zenon DEF StartOf
    <2>4. d % DaysPerMonth <= d % DaysPerYear
      BY Zenon, <2>1, NestedMultiples, CalendarAssumption
    <2>5. d % DaysPerMonth \in Nat /\ d % DaysPerYear \in Nat
      BY <2>1, CalendarAssumption
    <2> HIDE DEF a, b, c
    <2> QED
      BY <2>1, <2>2, <2>3, <2>4, <2>5, BoundsAssumption DEF Days
  <1>2. Starts(d) = <<a>> \o (IF b = a THEN <<>> ELSE <<b>>) \o (IF c = b THEN <<>> ELSE <<c>>)
    BY DEF Starts, Periods
  <1> HIDE DEF a, b, c
  <1> QED
    BY <1>1, <1>2 DEF Distinct

(* Two sequences without repetitions, and without a common element.           *)
LEMMA JoinedDistinct ==
    ASSUME NEW T, NEW s \in Seq(T), NEW t \in Seq(T), Distinct(s), Distinct(t),
           \A i \in DOMAIN s, j \in DOMAIN t : s[i] # t[j]
    PROVE  Distinct(s \o t)
  <1>1. /\ s \o t \in Seq(T) /\ Len(s) \in Nat /\ Len(t) \in Nat
        /\ DOMAIN s = 1..Len(s) /\ DOMAIN t = 1..Len(t)
        /\ DOMAIN (s \o t) = 1..(Len(s) + Len(t))
    OBVIOUS
  <1>2. \A i \in 1..Len(s) : (s \o t)[i] = s[i]
    OBVIOUS
  <1>3. \A i \in (Len(s) + 1)..(Len(s) + Len(t)) :
            (s \o t)[i] = t[i - Len(s)] /\ i - Len(s) \in 1..Len(t)
    OBVIOUS
  <1> QED
    BY <1>1, <1>2, <1>3 DEF Distinct

(* QuotaCounters lists no scope twice.                                        *)
LEMMA CountersDistinct == ASSUME NEW who \in Callers PROVE Distinct(QuotaCounters(who))
  <1> DEFINE a == <<"org">>
             b == Principal(who)
             c == <<"team", who.team>>
             e == <<"team_member", who.team, who.user>>
             member == IF who.app # None THEN <<>> ELSE <<e>>
             team == IF who.team = None THEN <<>> ELSE <<c>> \o member
  <1>1. QuotaCounters(who) = <<a, b>> \o team
    BY Zenon DEF QuotaCounters
  <1>2. a[1] = "org" /\ b[1] \in {"application", "user"} /\ c[1] = "team" /\ e[1] = "team_member"
    BY Zenon DEF Principal
  <1>3. a # b /\ a # c /\ a # e /\ b # c /\ b # e /\ c # e
    <2> HIDE DEF a, b, c, e
    <2> QED
      BY Zenon, <1>2
  <1> HIDE DEF a, b, c, e
  <1>4. CASE who.team = None
    BY <1>1, <1>3, <1>4 DEF Distinct
  <1>5. CASE who.team # None /\ who.app # None
    BY <1>1, <1>3, <1>5 DEF Distinct
  <1>6. CASE who.team # None /\ who.app = None
    <2> DEFINE U == {a, b, c, e}
               ab == <<a, b>>
               one == <<c>>
               last == <<e>>
    <2>1. QuotaCounters(who) = ab \o (one \o last)
      BY Zenon, <1>1, <1>6
    <2>2. /\ ab \in Seq(U) /\ Distinct(ab) /\ DOMAIN ab = {1, 2} /\ ab[1] = a /\ ab[2] = b
          /\ one \in Seq(U) /\ Distinct(one) /\ DOMAIN one = {1} /\ one[1] = c
          /\ last \in Seq(U) /\ Distinct(last) /\ DOMAIN last = {1} /\ last[1] = e
      BY <1>3 DEF Distinct
    <2> HIDE DEF U, ab, one, last
    <2>3. Distinct(one \o last)
      BY Zenon, <2>2, <1>3, JoinedDistinct
    <2>4. one \o last \in Seq(U) /\ RangeOf(one \o last) = RangeOf(one) \cup RangeOf(last)
      BY Zenon, <2>2, Joined
    <2>5. \A i \in DOMAIN ab, j \in DOMAIN (one \o last) : ab[i] # (one \o last)[j]
      <3>1. RangeOf(one) = {c} /\ RangeOf(last) = {e} /\ RangeOf(ab) = {a, b}
        BY Zenon, <2>2 DEF RangeOf
      <3>2. \A i \in DOMAIN ab : ab[i] \in {a, b}
        BY Zenon, <3>1 DEF RangeOf
      <3>3. \A j \in DOMAIN (one \o last) : (one \o last)[j] \in {c, e}
        BY Zenon, <3>1, <2>4 DEF RangeOf
      <3> QED
        BY ZenonT(30), <3>2, <3>3, <1>3
    <2>6. ab \in Seq(U) /\ Distinct(ab)
      BY Zenon, <2>2
    <2>7. Distinct(ab \o (one \o last))
      BY ZenonT(30), <2>3, <2>4, <2>5, <2>6, JoinedDistinct
    <2> QED
      BY Zenon, <2>1, <2>7
  <1> QED
    BY Zenon, <1>4, <1>5, <1>6

(* A place in a table is known by its coordinates.                            *)
LEMMA PlaceKnown ==
    ASSUME NEW m \in 1..4, NEW x \in Nat, NEW y \in Nat, x % m = y % m, x \div m = y \div m
    PROVE  x = y
  <1>1. CASE m = 1 BY <1>1
  <1>2. CASE m = 2 BY <1>2
  <1>3. CASE m = 3 BY <1>3
  <1>4. CASE m = 4 BY <1>4
  <1> QED BY <1>1, <1>2, <1>3, <1>4

(* quotaSumCacheKeysFor lists no key twice.                                   *)
LEMMA KeysDistinct ==
    ASSUME NEW who \in Callers, NEW d \in Days PROVE Distinct(KeysFor(who, d))
  <1> DEFINE starts == Starts(d)
             counters == QuotaCounters(who)
             m == Len(counters)
             l == Len(starts)
             At(i) == <<counters[1 + ((i - 1) % m)], starts[1 + ((i - 1) \div m)]>>
  <1>1. KeysFor(who, d) = [i \in 1..(l * m) |-> At(i)]
    BY Zenon DEF KeysFor
  <1>2. /\ starts \in Seq(Days) /\ l \in 1..3 /\ Distinct(starts)
    BY Zenon, StartsFacts, StartsDistinct
  <1>3. /\ counters \in Seq(Scopes) /\ m \in 1..4 /\ Distinct(counters)
    BY ZenonT(30), CountersFacts, CountersDistinct
  <1>4. DOMAIN starts = 1..l /\ DOMAIN counters = 1..m
    <2> HIDE DEF starts, counters
    <2> QED
      BY <1>2, <1>3
  <1> HIDE DEF starts, counters
  <1>5. l * m \in Nat
    <2>1. \A x \in 1..3, y \in 1..4 : x * y \in Nat
      OBVIOUS
    <2> QED
      BY ZenonT(30), <2>1, <1>2, <1>3
  <1> HIDE DEF m, l
  <1>6. ASSUME NEW i \in 1..(l * m)
        PROVE  /\ i - 1 \in Nat
               /\ 1 + ((i - 1) % m) \in DOMAIN counters
               /\ 1 + ((i - 1) \div m) \in DOMAIN starts
    <2>1. i - 1 \in Nat /\ i - 1 < l * m
      BY <1>5
    <2>2. (i - 1) \div m \in 0..(l - 1) /\ (i - 1) % m \in 0..(m - 1)
      BY ZenonT(30), <2>1, <1>2, <1>3, DivBelow
    <2> QED
      BY <2>1, <2>2, <1>2, <1>3, <1>4
  <1>7. ASSUME NEW i \in 1..(l * m), NEW j \in 1..(l * m), At(i) = At(j) PROVE i = j
    <2> DEFINE x == (i - 1) % m
               y == (j - 1) % m
               v == (i - 1) \div m
               w == (j - 1) \div m
    <2>1. counters[1 + x] = counters[1 + y] /\ starts[1 + v] = starts[1 + w]
      BY ZenonT(30), <1>7
    <2>2. /\ 1 + x \in DOMAIN counters /\ 1 + y \in DOMAIN counters
          /\ 1 + v \in DOMAIN starts /\ 1 + w \in DOMAIN starts
      BY ZenonT(30), <1>6
    <2>3. 1 + x = 1 + y /\ 1 + v = 1 + w
      BY ZenonT(30), <2>1, <2>2, <1>2, <1>3 DEF Distinct
    <2>4. x \in Int /\ y \in Int /\ v \in Int /\ w \in Int /\ i - 1 \in Nat /\ j - 1 \in Nat
      <3>1. i - 1 \in Nat /\ j - 1 \in Nat
        BY Zenon, <1>6
      <3> QED
        BY <3>1, <1>3
    <2>5. x = y /\ v = w
      <3> HIDE DEF x, y, v, w
      <3> QED
        BY <2>3, <2>4
    <2>6. i - 1 = j - 1
      BY ZenonT(30), <2>4, <2>5, <1>3, PlaceKnown
    <2> QED
      BY <2>6, <1>5
  <1> HIDE DEF At
  <1> QED
    BY <1>1, <1>7 DEF Distinct

(* A sequence without repetitions lists its head no second time.              *)
LEMMA TailDistinct ==
    ASSUME NEW S, NEW s \in Seq(S), s # <<>>, Distinct(s)
    PROVE  /\ Distinct(Tail(s)) /\ Head(s) \notin RangeOf(Tail(s))
           /\ RangeOf(Tail(s)) \subseteq RangeOf(s) /\ Head(s) \in RangeOf(s)
  <1>1. Len(s) \in Nat \ {0} /\ DOMAIN s = 1..Len(s) /\ Head(s) = s[1] /\ 1 \in DOMAIN s
    OBVIOUS
  <1>2. /\ DOMAIN Tail(s) = 1..(Len(s) - 1)
        /\ \A i \in 1..(Len(s) - 1) : Tail(s)[i] = s[i + 1] /\ i + 1 \in DOMAIN s /\ i + 1 # 1
    OBVIOUS
  <1>3. Distinct(Tail(s))
    BY <1>1, <1>2 DEF Distinct
  <1>4. ASSUME NEW x \in RangeOf(Tail(s)) PROVE x \in RangeOf(s) /\ x # Head(s)
    <2>1. PICK i \in DOMAIN Tail(s) : x = Tail(s)[i]
      BY Zenon DEF RangeOf
    <2>2. x = s[i + 1] /\ i + 1 \in DOMAIN s /\ i + 1 # 1
      BY Zenon, <2>1, <1>2
    <2> QED
      BY Zenon, <2>2, <1>1 DEF Distinct, RangeOf
  <1>5. Head(s) \in RangeOf(s)
    BY Zenon, <1>1 DEF RangeOf
  <1> QED
    BY Zenon, <1>3, <1>4, <1>5

(* A total that holds a record at most once, and none that is not written. *)
AtMostOnce(total) ==
    \A n \in Ids : total[n] <= 1 /\ (n \notin DOMAIN db => total[n] = 0)

(* Each record is recorded by one request, that has not counted it in the     *)
(* totals it still has to increment; these hold it at most once, and so do    *)
(* totals read from the backend.                                              *)
CountInv ==
    /\ \A key \in Keys, n \in Ids :
           counted[key][n] <= 2 /\ (n \notin DOMAIN db => counted[key][n] = 0)
    /\ \A q \in Requests : AtMostOnce(got[q])
    /\ \A q \in Requests : pc[q] = "recording" =>
           Distinct(left[q]) /\ \A key \in RangeOf(left[q]) : counted[key][id[q]] <= 1
    /\ \A q, r \in Requests :
           pc[q] = "recording" /\ pc[r] = "recording" /\ id[q] = id[r] => q = r

(* Nothing is counted at first.                                               *)
LEMMA CountInit == Init => CountInv
  <1> SUFFICES ASSUME Init PROVE CountInv
    BY Zenon
  <1>1. ASSUME NEW n \in Ids PROVE Nothing[n] = 0 /\ Nothing[n] <= 1 /\ Nothing[n] <= 2
    BY DEF Nothing
  <1>2. \A key \in Keys : counted[key] = Nothing
    BY Zenon DEF Init
  <1>3. \A q \in Requests : got[q] = Nothing /\ pc[q] = "idle"
    BY Zenon DEF Init
  <1> QED
    BY Zenon, <1>1, <1>2, <1>3 DEF CountInv, AtMostOnce

(* No request starts to record, and a total changes to one read from the      *)
(* backend.                                                                   *)
Steady ==
    /\ DOMAIN db \subseteq DOMAIN db'
    /\ \A r \in Requests : pc'[r] = "recording" =>
           pc[r] = "recording" /\ id'[r] = id[r] /\ left'[r] = left[r]
    /\ \A r \in Requests : got'[r] = got[r] \/ AtMostOnce(got'[r])
    /\ \A key \in Keys : counted'[key] = counted[key] \/ AtMostOnce(counted'[key])

(* Such a step keeps the counts.                                              *)
LEMMA SteadyKeeps == ASSUME UsageInv, UsageInv', CountInv, Steady PROVE CountInv'
  <1>1. \A n \in Ids : n \notin DOMAIN db' => n \notin DOMAIN db
    BY Zenon DEF Steady
  <1>2. ASSUME NEW key \in Keys, NEW n \in Ids
        PROVE  counted'[key][n] <= 2 /\ (n \notin DOMAIN db' => counted'[key][n] = 0)
    <2>1. CASE counted'[key] = counted[key]
      BY Zenon, <1>1, <2>1 DEF CountInv
    <2>2. CASE AtMostOnce(counted'[key])
      <3>1. counted'[key][n] <= 1 /\ (n \notin DOMAIN db => counted'[key][n] = 0)
        BY Zenon, <2>2 DEF AtMostOnce
      <3>2. counted'[key][n] \in Nat
        <4>1. counted' \in [Keys -> [Ids -> Nat]]
          BY Zenon DEF UsageInv, Types, Shared
        <4> QED
          BY Zenon, <4>1
      <3>3. counted'[key][n] <= 2
        BY ONLY <3>1, <3>2
      <3> QED
        BY Zenon, <1>1, <3>1, <3>3
    <2> QED
      BY Zenon, <2>1, <2>2 DEF Steady
  <1>3. ASSUME NEW q \in Requests PROVE AtMostOnce(got[q])'
    <2>1. AtMostOnce(got'[q])
      BY Zenon DEF Steady, CountInv
    <2> QED
      BY Zenon, <2>1, <1>1 DEF AtMostOnce
  <1>4. ASSUME NEW q \in Requests, pc'[q] = "recording"
        PROVE  Distinct(left'[q]) /\ \A key \in RangeOf(left'[q]) : counted'[key][id'[q]] <= 1
    <2>1. pc[q] = "recording" /\ id'[q] = id[q] /\ left'[q] = left[q]
      BY Zenon, <1>4 DEF Steady
    <2>2. Distinct(left[q]) /\ \A key \in RangeOf(left[q]) : counted[key][id[q]] <= 1
      BY Zenon, <2>1 DEF CountInv
    <2>3. id[q] \in DOMAIN db /\ RangeOf(left[q]) \subseteq Keys
      <3>1. left[q] \in Seq(Keys) /\ id[q] \in DOMAIN db
        BY Zenon, <2>1 DEF UsageInv, Types, Locals, Ready
      <3>2. ASSUME NEW s \in Seq(Keys) PROVE \A i \in DOMAIN s : s[i] \in Keys
        OBVIOUS
      <3> QED
        BY Zenon, <3>1, <3>2 DEF RangeOf
    <2>4. id[q] \in Ids
      <3>1. db \in Seq(Record) /\ Len(db) <= MaxRecords
        BY Zenon DEF UsageInv, Types, Shared
      <3> QED
        BY <3>1, <2>3, BoundsAssumption DEF Ids
    <2>5. ASSUME NEW key \in RangeOf(left[q]) PROVE counted'[key][id[q]] <= 1
      BY Zenon, <2>2, <2>3, <2>4 DEF Steady, AtMostOnce
    <2> QED
      BY Zenon, <2>1, <2>2, <2>5
  <1>5. ASSUME NEW q \in Requests, NEW r \in Requests, pc'[q] = "recording", pc'[r] = "recording",
               id'[q] = id'[r]
        PROVE  q = r
    BY Zenon, <1>5 DEF Steady, CountInv
  <1> QED
    BY ZenonT(30), <1>2, <1>3, <1>4, <1>5 DEF CountInv

(* A total read from the backend holds each record once, or not at all.       *)
LEMMA BackendOnce == ASSUME NEW key PROVE AtMostOnce(Backend(key)) /\ AtMostOnce(Nothing)
  BY DEF AtMostOnce, Backend, Nothing

(* A request that ends, or makes its next check, records nothing.             *)
LEMMA CompareSteady ==
    ASSUME NEW q \in Requests, Locals, Idle(q) \/ \E total : Compare(q, total)
    PROVE  \A r \in Requests :
               /\ (pc'[r] = "recording" =>
                      pc[r] = "recording" /\ id'[r] = id[r] /\ left'[r] = left[r])
               /\ got'[r] = got[r] \/ AtMostOnce(got'[r])
  <1>1. CASE Idle(q)
    <2>1. pc'[q] = "idle" /\ got'[q] = Nothing
      BY Zenon, <1>1 DEF Idle, Locals
    <2>2. \A r \in Requests \ {q} :
              pc'[r] = pc[r] /\ id'[r] = id[r] /\ left'[r] = left[r] /\ got'[r] = got[r]
      BY Zenon, <1>1 DEF Idle, Locals
    <2> QED
      BY Zenon, <2>1, <2>2, BackendOnce
  <1>2. ASSUME NEW total, Compare(q, total), ~Idle(q)
        PROVE  /\ pc'[q] \in {"upstream", "check"} /\ got'[q] = Nothing
               /\ \A r \in Requests \ {q} :
                      pc'[r] = pc[r] /\ id'[r] = id[r] /\ left'[r] = left[r] /\ got'[r] = got[r]
    <2> DEFINE to == IF step[q] = Len(ChecksOf[caller[q]][now[q]]) THEN "upstream" ELSE "check"
    <2>1. /\ pc' = [pc EXCEPT ![q] = to] /\ got' = [got EXCEPT ![q] = Nothing]
          /\ UNCHANGED <<id, left>>
      BY ZenonT(30), <1>2 DEF Compare
    <2>2. to \in {"upstream", "check"}
      BY Zenon
    <2> HIDE DEF to
    <2> QED
      BY Zenon, <2>1, <2>2 DEF Locals
  <1> QED
    BY ZenonT(30), <1>1, <1>2, BackendOnce

(* Steps other than Persist and applyRecordedCost record nothing.             *)
LEMMA OthersSteady ==
    ASSUME UsageInv, CountInv, NEW q \in Requests,
           Request(q), ~Persist(q), ~applyRecordedCost(q)
    PROVE  Steady
  <1>1. Locals /\ counted \in [Keys -> [Ids -> Nat]]
    BY Zenon DEF UsageInv, Types, Shared
  <1>2. ASSUME NEW who \in Callers, Begin(q, who) PROVE Steady
    <2> DEFINE to == IF ChecksOf[who][day] = <<>> THEN "upstream" ELSE "check"
    <2>1. pc' = [pc EXCEPT ![q] = to] /\ UNCHANGED <<db, counted, got, id, left>>
      BY ZenonT(30), <1>2 DEF Begin
    <2>2. to # "recording"
      BY Zenon
    <2> HIDE DEF to
    <2> QED
      BY Zenon, <2>1, <2>2, <1>1 DEF Locals, Steady
  <1>3. ASSUME Hit(q) PROVE Steady
    <2>1. UNCHANGED <<db, counted>> /\ \E total : Compare(q, total)
      BY Zenon, <1>3 DEF Hit
    <2> QED
      BY Zenon, <2>1, <1>1, CompareSteady DEF Steady
  <1>4. ASSUME Miss(q) \/ beginLoad(q) \/ Respond(q) PROVE Steady
    <2>1. /\ UNCHANGED <<db, counted, got, id, left>>
          /\ \E to \in {"missed", "loading", "responded"} : pc' = [pc EXCEPT ![q] = to]
      BY ZenonT(30), <1>4 DEF Miss, beginLoad, Respond, request
    <2> QED
      BY Zenon, <2>1, <1>1 DEF Locals, Steady
  <1>5. ASSUME ReadBackend(q) PROVE Steady
    <2>1. /\ UNCHANGED <<db, counted, id, left>> /\ pc' = [pc EXCEPT ![q] = "loaded"]
          /\ got' = [got EXCEPT ![q] = Backend(Check(q).key)]
      BY Zenon, <1>5 DEF ReadBackend
    <2>2. \A r \in Requests : got'[r] = got[r] \/ got'[r] = Backend(Check(q).key)
      BY Zenon, <2>1, <1>1 DEF Locals
    <2> QED
      BY Zenon, <2>1, <2>2, <1>1, BackendOnce DEF Locals, Steady
  <1>6. ASSUME finishLoad(q) PROVE Steady
    <2>1. UNCHANGED db /\ \E total : Compare(q, total)
      BY Zenon, <1>6 DEF finishLoad
    <2>2. \A key \in Keys : counted'[key] = counted[key] \/ counted'[key] = got[q]
      BY ZenonT(30), <1>6, <1>1 DEF finishLoad, SetInt64
    <2>3. AtMostOnce(got[q])
      BY Zenon DEF CountInv
    <2>4. \A key \in Keys : counted'[key] = counted[key] \/ AtMostOnce(counted'[key])
      BY Zenon, <2>2, <2>3
    <2> QED
      BY Zenon, <2>1, <2>4, <1>1, CompareSteady DEF Steady
  <1>7. ASSUME LoadFails(q) \/ Unrecorded(q) PROVE Steady
    <2>1. UNCHANGED <<db, counted>> /\ Idle(q)
      BY Zenon, <1>7 DEF LoadFails, Unrecorded
    <2> QED
      BY Zenon, <2>1, <1>1, CompareSteady DEF Steady
  <1> QED
    BY ZenonT(30), <1>2, <1>3, <1>4, <1>5, <1>6, <1>7 DEF Request

(* A record that is written is counted in no total.                           *)
LEMMA PersistCounts ==
    ASSUME UsageInv, UsageInv', CountInv, NEW q \in Requests, Persist(q) PROVE CountInv'
  <1>1. Types /\ rec[q] \in Record /\ pc[q] = "responded"
    BY Zenon DEF Persist, UsageInv, Ready
  <1>2. PICK m : m = Len(db) + 1
    BY Zenon
  <1>3. m \notin DOMAIN db /\ DOMAIN db' = DOMAIN db \cup {m} /\ m \in Ids
    <2>1. db \in Seq(Record) /\ Len(db) < MaxRecords /\ db' = Append(db, rec[q])
      BY Zenon, <1>1 DEF Persist, Types, Shared
    <2> QED
      BY <1>1, <1>2, <2>1, BoundsAssumption DEF Ids
  <1>4. /\ pc'[q] = "recording" /\ id'[q] = m /\ left'[q] = KeysOf(rec[q])
        /\ \A r \in Requests \ {q} : pc'[r] = pc[r] /\ id'[r] = id[r] /\ left'[r] = left[r]
        /\ got' = got /\ counted' = counted
    BY Zenon, <1>1, <1>2 DEF Persist, Types, Locals
  <1>5. \A r \in Requests : pc[r] = "recording" => id[r] # m
    BY Zenon, <1>3 DEF UsageInv, Ready
  <1>6. Distinct(KeysOf(rec[q])) /\ RangeOf(KeysOf(rec[q])) \subseteq Keys
    <2>1. KeysOf(rec[q]) = KeysFor(rec[q].who, rec[q].day)
      BY Zenon, <1>1 DEF KeysOf, quotaSumCacheKeysFor, Record
    <2>2. rec[q].who \in Callers /\ rec[q].day \in Days
      BY Zenon, <1>1 DEF Record
    <2>3. KeysOf(rec[q]) \in Seq(Keys) /\ Distinct(KeysOf(rec[q]))
      BY ZenonT(30), <2>1, <2>2, KeysFacts, KeysDistinct
    <2>4. ASSUME NEW s \in Seq(Keys) PROVE \A i \in DOMAIN s : s[i] \in Keys
      OBVIOUS
    <2> QED
      BY Zenon, <2>3, <2>4 DEF RangeOf
  <1>7. \A key \in Keys : counted[key][m] <= 1
    <2>1. \A key \in Keys : counted[key][m] = 0
      BY Zenon, <1>3 DEF CountInv
    <2>2. 0 <= 1
      OBVIOUS
    <2> QED
      BY Zenon, <2>1, <2>2
  <1>8. \A key \in Keys, n \in Ids :
            counted'[key][n] <= 2 /\ (n \notin DOMAIN db' => counted'[key][n] = 0)
    BY Zenon, <1>3, <1>4 DEF CountInv
  <1>9. \A r \in Requests : AtMostOnce(got[r])'
    BY Zenon, <1>3, <1>4 DEF CountInv, AtMostOnce
  <1>10. ASSUME NEW r \in Requests, pc'[r] = "recording"
         PROVE  Distinct(left'[r]) /\ \A key \in RangeOf(left'[r]) : counted'[key][id'[r]] <= 1
    <2>1. CASE r = q
      BY Zenon, <2>1, <1>4, <1>6, <1>7
    <2>2. CASE r # q
      BY Zenon, <2>2, <1>4, <1>10 DEF CountInv
    <2> QED
      BY Zenon, <2>1, <2>2
  <1>11. \A r, p \in Requests :
             pc'[p] = "recording" /\ pc'[r] = "recording" /\ id'[p] = id'[r] => p = r
    BY Zenon, <1>4, <1>5 DEF CountInv
  <1> QED
    BY ZenonT(30), <1>8, <1>9, <1>10, <1>11 DEF CountInv

(* applyRecordedCost adds the record to a total that counts it at most once,  *)
(* and does not come back to it.                                              *)
LEMMA applyRecordedCostCounts ==
    ASSUME UsageInv, UsageInv', CountInv, NEW q \in Requests, applyRecordedCost(q)
    PROVE  CountInv'
  <1>1. Types /\ Ready(q) /\ pc[q] = "recording" /\ left[q] \in Seq(Keys) /\ left[q] # <<>>
    BY Zenon DEF applyRecordedCost, UsageInv, Types, Locals, Ready
  <1>2. PICK k \in Keys : k = Head(left[q])
    BY Zenon, <1>1, TailFacts
  <1>3. PICK m \in Ids : m = id[q] /\ m \in DOMAIN db
    <2>1. id[q] \in DOMAIN db /\ db \in Seq(Record) /\ Len(db) <= MaxRecords
      BY Zenon, <1>1 DEF Ready, Types, Shared
    <2>2. id[q] \in Ids
      BY <2>1, BoundsAssumption DEF Ids
    <2> QED
      BY Zenon, <2>1, <2>2
  <1>4. Distinct(left[q]) /\ \A key \in RangeOf(left[q]) : counted[key][m] <= 1
    BY Zenon, <1>1, <1>3 DEF CountInv
  <1>5. /\ Distinct(Tail(left[q])) /\ k \notin RangeOf(Tail(left[q]))
        /\ RangeOf(Tail(left[q])) \subseteq RangeOf(left[q]) /\ k \in RangeOf(left[q])
    BY Zenon, <1>1, <1>2, <1>4, TailDistinct
  <1>6. /\ counted' = IF k \in cached THEN [counted EXCEPT ![k][m] = @ + 1] ELSE counted
        /\ db' = db
    BY Zenon, <1>2, <1>3 DEF applyRecordedCost, AddInt64
  <1>7. /\ counted'[k][m] <= 2
        /\ \A key \in Keys, n \in Ids : key # k \/ n # m => counted'[key][n] = counted[key][n]
    <2>1. counted \in [Keys -> [Ids -> Nat]] /\ counted[k][m] <= 1
      BY Zenon, <1>1, <1>4, <1>5 DEF Types, Shared
    <2> QED
      BY <2>1, <1>3, <1>6
  <1>8. /\ \A r \in Requests \ {q} : /\ pc'[r] = pc[r] /\ id'[r] = id[r]
                                     /\ left'[r] = left[r] /\ got'[r] = got[r]
        /\ got'[q] = got[q] \/ got'[q] = Nothing
        /\ pc'[q] = "recording" => id'[q] = m /\ left'[q] = Tail(left[q])
    <2>1. CASE Len(left[q]) = 1
      <3>1. Idle(q)
        BY Zenon, <2>1 DEF applyRecordedCost
      <3> QED
        BY Zenon, <3>1, <1>1 DEF Idle, Types, Locals
    <2>2. CASE Len(left[q]) # 1
      <3>1. left' = [left EXCEPT ![q] = Tail(left[q])] /\ UNCHANGED <<pc, got, id>>
        BY Zenon, <2>2 DEF applyRecordedCost
      <3> QED
        BY Zenon, <3>1, <1>1, <1>3 DEF Types, Locals
    <2> QED
      BY Zenon, <2>1, <2>2
  <1>9. ASSUME NEW key \in Keys, NEW n \in Ids
        PROVE  counted'[key][n] <= 2 /\ (n \notin DOMAIN db' => counted'[key][n] = 0)
    <2>1. CASE key = k /\ n = m
      BY Zenon, <2>1, <1>3, <1>6, <1>7
    <2>2. CASE key # k \/ n # m
      <3>1. counted'[key][n] = counted[key][n] /\ db' = db
        BY Zenon, <2>2, <1>6, <1>7
      <3>2. counted[key][n] <= 2 /\ (n \notin DOMAIN db => counted[key][n] = 0)
        BY Zenon DEF CountInv
      <3> QED
        BY Zenon, <3>1, <3>2
    <2> QED
      BY Zenon, <2>1, <2>2
  <1>10. ASSUME NEW r \in Requests PROVE AtMostOnce(got[r])'
    <2>1. got'[r] = got[r] \/ got'[r] = Nothing
      BY Zenon, <1>8
    <2>2. AtMostOnce(got'[r])
      BY Zenon, <2>1, BackendOnce DEF CountInv
    <2> QED
      BY Zenon, <2>2, <1>6 DEF AtMostOnce
  <1>11. ASSUME NEW r \in Requests, pc'[r] = "recording"
         PROVE  Distinct(left'[r]) /\ \A key \in RangeOf(left'[r]) : counted'[key][id'[r]] <= 1
    <2>1. ASSUME NEW s \in Seq(Keys) PROVE \A i \in DOMAIN s : s[i] \in Keys
      OBVIOUS
    <2>2. ASSUME NEW p \in Requests PROVE RangeOf(left[p]) \subseteq Keys
      <3>1. left[p] \in Seq(Keys)
        BY Zenon, <1>1 DEF Types, Locals
      <3> QED
        BY Zenon, <3>1, <2>1 DEF RangeOf
    <2>3. CASE r = q
      <3>1. id'[q] = m /\ left'[q] = Tail(left[q])
        BY Zenon, <2>3, <1>8, <1>11
      <3>2. ASSUME NEW key \in RangeOf(Tail(left[q])) PROVE counted'[key][m] <= 1
        <4>1. key # k /\ key \in Keys /\ counted[key][m] <= 1
          BY Zenon, <2>2, <1>4, <1>5
        <4> QED
          BY Zenon, <4>1, <1>7
      <3> QED
        BY Zenon, <2>3, <3>1, <3>2, <1>5
    <2>4. CASE r # q
      <3>1. pc[r] = "recording" /\ id'[r] = id[r] /\ left'[r] = left[r]
        BY Zenon, <2>4, <1>8, <1>11
      <3>2. id[r] # m /\ id[r] \in DOMAIN db
        BY Zenon, <2>4, <3>1, <1>1, <1>3 DEF CountInv, UsageInv, Ready
      <3>3. id[r] \in Ids
        <4>1. db \in Seq(Record) /\ Len(db) <= MaxRecords
          BY Zenon, <1>1 DEF Types, Shared
        <4> QED
          BY <4>1, <3>2, BoundsAssumption DEF Ids
      <3>4. Distinct(left[r]) /\ \A key \in RangeOf(left[r]) : counted[key][id[r]] <= 1
        BY Zenon, <3>1 DEF CountInv
      <3>5. \A key \in RangeOf(left[r]) : counted'[key][id[r]] = counted[key][id[r]]
        BY Zenon, <2>2, <3>2, <3>3, <1>7
      <3> QED
        BY Zenon, <3>1, <3>4, <3>5
    <2> QED
      BY Zenon, <2>3, <2>4
  <1>12. \A r, p \in Requests :
             pc'[p] = "recording" /\ pc'[r] = "recording" /\ id'[p] = id'[r] => p = r
    <2>1. \A r \in Requests : pc'[r] = "recording" => pc[r] = "recording" /\ id'[r] = id[r]
      BY Zenon, <1>1, <1>3, <1>8
    <2> QED
      BY Zenon, <2>1 DEF CountInv
  <1> QED
    BY ZenonT(30), <1>9, <1>10, <1>11, <1>12 DEF CountInv

(* Other replicas, the cache and the calendar count nothing twice.            *)
LEMMA OutsideSteady ==
    ASSUME UsageInv,
           \/ \E who \in Elsewhere, cost \in Costs : RecordElsewhere(who, cost)
           \/ (\E key \in Keys : Expire(key)) \/ NextDay \/ UNCHANGED vars
    PROVE  Steady
  <1>1. counted \in [Keys -> [Ids -> Nat]] /\ db \in Seq(Record)
    BY Zenon DEF UsageInv, Types, Shared
  <1>2. UNCHANGED <<pc, got, id, left>>
    BY Zenon DEF RecordElsewhere, Expire, NextDay, request, vars
  <1>3. \A key \in Keys : counted'[key] = counted[key] \/ counted'[key] = Nothing
    BY ZenonT(30), <1>1 DEF RecordElsewhere, Expire, NextDay, vars
  <1>4. DOMAIN db \subseteq DOMAIN db'
    <2>1. db' = db \/ \E r : db' = Append(db, r)
      BY ZenonT(30) DEF RecordElsewhere, Expire, NextDay, vars
    <2> QED
      BY <1>1, <2>1
  <1> QED
    BY Zenon, <1>2, <1>3, <1>4, BackendOnce DEF Steady

(* Every step keeps the counts.                                               *)
LEMMA CountStep == UsageInv /\ UsageInv' /\ CountInv /\ [Next]_vars => CountInv'
  <1> SUFFICES ASSUME UsageInv, UsageInv', CountInv, [Next]_vars PROVE CountInv'
    BY Zenon
  <1>1. ASSUME NEW q \in Requests, Request(q) PROVE CountInv'
    BY Zenon, <1>1, OthersSteady, SteadyKeeps, PersistCounts, applyRecordedCostCounts
  <1> QED
    BY ZenonT(30), <1>1, OutsideSteady, SteadyKeeps DEF Next

(* No cached total counts a record more than twice: once in the total that    *)
(* was read from the database, once by applyRecordedCost. A record's keys     *)
(* differ, so that it is added to a total only once.                          *)
THEOREM NoRecordTwiceAdded == Spec => []CountedAtMostTwice
  <1>1. UsageInv /\ CountInv => CountedAtMostTwice
    <2> SUFFICES ASSUME UsageInv, CountInv, NEW key \in cached, NEW n \in DOMAIN db
                 PROVE  counted[key][n] <= 2
      BY Zenon DEF CountedAtMostTwice
    <2>1. cached \subseteq Keys /\ db \in Seq(Record) /\ Len(db) <= MaxRecords
      BY Zenon DEF UsageInv, Types, Shared
    <2>2. n \in Ids
      BY <2>1, BoundsAssumption DEF Ids
    <2> QED
      BY Zenon, <2>1, <2>2 DEF CountInv
  <1> QED
    BY InitInv, UsageInvStep, CountInit, CountStep, <1>1, PTL DEF Spec

-----------------------------------------------------------------------------
(* The sum a total stands for (Amount), by induction over the records. *)

(* Induction over the naturals, for sets: the least counterexample is found   *)
(* among the finite sets 0..x.                                                *)
LEMMA SetInduction ==
    ASSUME NEW S, 0 \in S, \A n \in Nat : n \in S => n + 1 \in S PROVE \A n \in Nat : n \in S
  <1> SUFFICES ASSUME NEW k \in Nat, k \notin S PROVE FALSE
    BY Zenon
  <1> DEFINE B == 0..k
             R == StrictSubsetOrdering(B)
             T == {0..x : x \in B \ S}
  <1>1. IsWellFoundedOn(R, FiniteSubsetsOf(B))
    BY Zenon, FS_StrictSubsetOrderingWellFounded
  <1>2. T \subseteq FiniteSubsetsOf(B) /\ T # {}
    <2>1. k \in B \ S
      OBVIOUS
    <2>2. ASSUME NEW x \in B PROVE 0..x \in SUBSET B /\ IsFiniteSet(0..x)
      <3>1. x \in Int /\ 0..x \in SUBSET B
        OBVIOUS
      <3> QED
        BY <3>1, FS_Interval
    <2> QED
      BY Zenon, <2>1, <2>2 DEF FiniteSubsetsOf
  <1>3. PICK X \in T : \A Y \in T : <<Y, X>> \notin R
    <2> HIDE DEF T, R, B
    <2> QED
      BY Zenon, <1>1, <1>2, WFMin
  <1>4. PICK x \in B \ S : X = 0..x
    BY Zenon, <1>3
  <1>5. x # 0 /\ x - 1 \in B /\ x \in Nat /\ x - 1 \in Nat /\ (x - 1) + 1 = x
    BY <1>4
  <1>6. x - 1 \in S
    <2> SUFFICES ASSUME x - 1 \notin S PROVE FALSE
      BY Zenon
    <2>1. 0..(x - 1) \in T
      BY Zenon, <1>5
    <2>2. 0..(x - 1) \subseteq 0..x /\ 0..x # 0..(x - 1) /\ 0..x \subseteq B
      BY <1>4, <1>5
    <2>3. <<0..(x - 1), 0..x>> \in R
      BY Zenon, <2>2 DEF StrictSubsetOrdering
    <2> QED
      BY Zenon, <1>3, <1>4, <2>1, <2>3
  <1> QED
    BY Zenon, <1>4, <1>5, <1>6

(* What record n adds to the sum a total stands for. *)
Weight(records, total, n) == IF n <= Len(records) THEN total[n] * records[n].cost ELSE 0

(* f has the sums over the first records, up to k. *)
Sums(f, records, total, k) ==
    /\ f \in [0..k -> Nat]
    /\ \A n \in 0..k : f[n] = IF n = 0 THEN 0 ELSE f[n - 1] + Weight(records, total, n)

(* There are such sums.                                                       *)
LEMMA SumsExist ==
    ASSUME NEW records, NEW total, \A n \in Nat \ {0} : Weight(records, total, n) \in Nat
    PROVE  \A k \in Nat : \E f : Sums(f, records, total, k)
  <1> DEFINE S == {k \in Nat : \E f : Sums(f, records, total, k)}
             w(n) == Weight(records, total, n)
  <1>1. 0 \in S
    <2> DEFINE f == [n \in 0..0 |-> 0]
    <2>1. Sums(f, records, total, 0)
      BY DEF Sums
    <2> QED
      BY Zenon, <2>1
  <1>2. ASSUME NEW k \in Nat, k \in S PROVE k + 1 \in S
    <2>1. PICK f : Sums(f, records, total, k)
      BY Zenon, <1>2
    <2> DEFINE g == [n \in 0..(k + 1) |-> IF n = k + 1 THEN f[k] + w(k + 1) ELSE f[n]]
    <2>2. w(k + 1) \in Nat /\ f[k] \in Nat /\ f \in [0..k -> Nat]
      BY <2>1 DEF Sums
    <2>3. g \in [0..(k + 1) -> Nat]
      <3> HIDE DEF w
      <3> QED
        BY <2>2
    <2>4. ASSUME NEW n \in 0..(k + 1)
          PROVE  g[n] = IF n = 0 THEN 0 ELSE g[n - 1] + w(n)
      <3>1. CASE n = k + 1
        <4> HIDE DEF w
        <4> QED
          BY <3>1, <2>2
      <3>2. CASE n # k + 1
        <4>1. n \in 0..k
          BY <3>2
        <4>2. f[n] = IF n = 0 THEN 0 ELSE f[n - 1] + w(n)
          BY Zenon, <4>1, <2>1 DEF Sums
        <4>3. g[n] = f[n] /\ (n # 0 => g[n - 1] = f[n - 1])
          <5> HIDE DEF w
          <5> QED
            BY <4>1, <2>2
        <4> HIDE DEF w, g
        <4> QED
          BY Zenon, <4>2, <4>3
      <3> QED
        BY Zenon, <3>1, <3>2
    <2>5. Sums(g, records, total, k + 1)
      <3> HIDE DEF g
      <3> QED
        BY Zenon, <2>3, <2>4 DEF Sums
    <2> QED
      BY <2>5
  <1> HIDE DEF S
  <1>3. \A k \in Nat : k \in S
    BY Zenon, <1>1, <1>2, SetInduction
  <1> QED
    BY Zenon, <1>3 DEF S

(* Amount, over given records. *)
CostOf(records, total) ==
    LET upto[n \in 0..MaxRecords] ==
            IF n = 0 THEN 0
            ELSE upto[n - 1] + (IF n <= Len(records) THEN total[n] * records[n].cost ELSE 0)
    IN  upto[MaxRecords]

(* Amount is taken over the database.                                         *)
LEMMA AmountIs == ASSUME NEW total PROVE Amount(total) = CostOf(db, total)
  BY Zenon DEF Amount, CostOf

(* Its recursive definition has a value: the last of the sums.                *)
LEMMA CostIsSum ==
    ASSUME NEW records, NEW total, \A n \in Nat \ {0} : Weight(records, total, n) \in Nat
    PROVE  \E f : Sums(f, records, total, MaxRecords) /\ CostOf(records, total) = f[MaxRecords]
  <1> DEFINE IsSum(f) == f = [n \in 0..MaxRecords |->
                             IF n = 0 THEN 0
                             ELSE f[n - 1] + (IF n <= Len(records)
                                              THEN total[n] * records[n].cost ELSE 0)]
             u == CHOOSE f : IsSum(f)
  <1>1. CostOf(records, total) = u[MaxRecords]
    BY Zenon DEF CostOf
  <1>2. PICK g : Sums(g, records, total, MaxRecords)
    BY Zenon, SumsExist, BoundsAssumption
  <1>3. IsSum(g)
    BY Zenon, <1>2 DEF Sums, Weight
  <1>4. IsSum(u)
    <2> HIDE DEF IsSum
    <2> QED
      BY Zenon, <1>3
  <1> HIDE DEF u
  <1>5. \A n \in 0..MaxRecords : u[n] = IF n = 0 THEN 0 ELSE u[n - 1] + Weight(records, total, n)
    BY Zenon, <1>4 DEF Weight
  <1>6. u \in [0..MaxRecords -> Nat]
    <2> DEFINE S == {n \in Nat : n \in 0..MaxRecords => u[n] \in Nat}
    <2>1. 0 \in S
      BY <1>5, BoundsAssumption
    <2>2. ASSUME NEW n \in Nat, n \in S PROVE n + 1 \in S
      BY <1>5, <2>2, BoundsAssumption
    <2> HIDE DEF S
    <2>3. \A n \in Nat : n \in S
      BY Zenon, <2>1, <2>2, SetInduction
    <2>4. \A n \in 0..MaxRecords : u[n] \in Nat
      BY <2>3, BoundsAssumption DEF S
    <2>5. u = [n \in 0..MaxRecords |-> u[n]]
      BY Zenon, <1>4
    <2> QED
      BY <2>4, <2>5
  <1> QED
    BY Zenon, <1>1, <1>5, <1>6 DEF Sums
(* A product grows with its first factor.                                     *)
LEMMA ProductGrows ==
    ASSUME NEW a \in Nat, NEW b \in Nat, NEW c \in Nat, a <= b
    PROVE  a * c \in Nat /\ b * c \in Nat /\ a * c <= b * c
  <1>1. PICK k \in Nat : b = a + k
    <2>1. b - a \in Nat /\ b = a + (b - a)
      OBVIOUS
    <2> QED
      BY Zenon, <2>1
  <1>2. b * c = a * c + k * c
    BY <1>1
  <1>3. a * c \in Nat /\ k * c \in Nat
    OBVIOUS
  <1> QED
    BY <1>2, <1>3

(* A total that counts more, over more records, stands for a larger sum.      *)
LEMMA CostGrows ==
    ASSUME NEW a \in Seq(Record), NEW b \in Seq(Record),
           NEW s \in [Ids -> Nat], NEW t \in [Ids -> Nat],
           Len(a) <= Len(b), Len(b) <= MaxRecords,
           \A n \in DOMAIN a : b[n] = a[n] /\ s[n] <= t[n]
    PROVE  CostOf(a, s) \in Nat /\ CostOf(b, t) \in Nat /\ CostOf(a, s) <= CostOf(b, t)
  <1>1. ASSUME NEW n \in Nat \ {0}
        PROVE  /\ Weight(a, s, n) \in Nat /\ Weight(b, t, n) \in Nat
               /\ Weight(a, s, n) <= Weight(b, t, n)
    <2>1. CASE n > Len(b)
      BY <2>1 DEF Weight
    <2>2. CASE n <= Len(b)
      <3>1. n \in Ids /\ n \in DOMAIN b /\ s[n] \in Nat /\ t[n] \in Nat
        BY <2>2, BoundsAssumption DEF Ids
      <3>2. b[n].cost \in Nat
        <4>1. b[n] \in Record
          BY <3>1
        <4> QED
          BY Zenon, <4>1, BoundsAssumption DEF Record
      <3>3. CASE n <= Len(a)
        <4>1. n \in DOMAIN a /\ b[n] = a[n] /\ s[n] <= t[n]
          BY <3>3
        <4>2. /\ s[n] * b[n].cost \in Nat /\ t[n] * b[n].cost \in Nat
              /\ s[n] * b[n].cost <= t[n] * b[n].cost
          BY <3>1, <3>2, <4>1, ProductGrows
        <4> QED
          BY Zenon, <2>2, <3>3, <4>1, <4>2 DEF Weight
      <3>4. CASE n > Len(a)
        <4>1. Weight(a, s, n) = 0
          BY <3>4 DEF Weight
        <4>2. t[n] * b[n].cost \in Nat
          BY <3>1, <3>2
        <4>3. Weight(b, t, n) = t[n] * b[n].cost
          BY Zenon, <2>2 DEF Weight
        <4> QED
          BY ONLY <4>1, <4>2, <4>3
      <3> QED
        BY <3>3, <3>4
    <2> QED
      BY <2>1, <2>2
  <1>2. PICK f : Sums(f, a, s, MaxRecords) /\ CostOf(a, s) = f[MaxRecords]
    BY Zenon, <1>1, CostIsSum
  <1>3. PICK g : Sums(g, b, t, MaxRecords) /\ CostOf(b, t) = g[MaxRecords]
    BY Zenon, <1>1, CostIsSum
  <1>4. f \in [0..MaxRecords -> Nat] /\ g \in [0..MaxRecords -> Nat]
    BY Zenon, <1>2, <1>3 DEF Sums
  <1> DEFINE S == {n \in Nat : n \in 0..MaxRecords => f[n] <= g[n]}
  <1>5. 0 \in S
    <2>1. f[0] = 0 /\ g[0] = 0
      BY <1>2, <1>3, BoundsAssumption DEF Sums
    <2> QED
      BY <2>1
  <1>6. ASSUME NEW n \in Nat, n \in S PROVE n + 1 \in S
    <2> SUFFICES ASSUME n + 1 \in 0..MaxRecords PROVE f[n + 1] <= g[n + 1]
      OBVIOUS
    <2>1. n \in 0..MaxRecords /\ f[n] <= g[n] /\ f[n] \in Nat /\ g[n] \in Nat
      BY <1>4, <1>6, BoundsAssumption
    <2>2. n + 1 \in Nat \ {0} /\ n + 1 # 0 /\ (n + 1) - 1 = n
      OBVIOUS
    <2>3. /\ f[n + 1] = f[n] + Weight(a, s, n + 1)
          /\ g[n + 1] = g[n] + Weight(b, t, n + 1)
      BY Zenon, <1>2, <1>3, <2>2 DEF Sums
    <2>4. /\ Weight(a, s, n + 1) \in Nat /\ Weight(b, t, n + 1) \in Nat
          /\ Weight(a, s, n + 1) <= Weight(b, t, n + 1)
      BY Zenon, <1>1, <2>2
    <2> QED
      BY ONLY <2>1, <2>3, <2>4
  <1> HIDE DEF S
  <1>7. \A n \in Nat : n \in S
    BY Zenon, <1>5, <1>6, SetInduction
  <1>8. MaxRecords \in 0..MaxRecords /\ MaxRecords \in Nat
    BY BoundsAssumption
  <1> QED
    BY Zenon, <1>2, <1>3, <1>4, <1>7, <1>8 DEF S

-----------------------------------------------------------------------------
(* What the keys of a record, and the checks of a request, cover. *)

(* Sequences of one element and of none.                                      *)
LEMMA Single ==
    ASSUME NEW T, NEW x \in T
    PROVE  /\ <<x>> \in Seq(T) /\ RangeOf(<<x>>) = {x}
           /\ <<>> \in Seq(T) /\ RangeOf(<<>>) = {}
  <1>1. <<x>> \in Seq(T) /\ DOMAIN <<x>> = {1} /\ <<x>>[1] = x
    OBVIOUS
  <1>2. <<>> \in Seq(T) /\ DOMAIN <<>> = {}
    OBVIOUS
  <1> QED
    BY ZenonT(30), <1>1, <1>2 DEF RangeOf

(* What two sequences list together.                                          *)
LEMMA JoinedRange ==
    ASSUME NEW T, NEW s \in Seq(T), NEW t \in Seq(T)
    PROVE  s \o t \in Seq(T) /\ RangeOf(s \o t) = RangeOf(s) \cup RangeOf(t)
  BY ZenonT(30), Joined

(* Starts lists the start of each window of a day.                            *)
LEMMA StartsCover ==
    ASSUME NEW d \in Days, NEW p \in {"day", "month", "year"}
    PROVE  \E i \in DOMAIN Starts(d) : Starts(d)[i] = StartOf(p, d)
  <1> DEFINE a == StartOf("day", d)
             b == StartOf("month", d)
             c == StartOf("year", d)
             one == <<a>>
             two == IF b = a THEN <<>> ELSE <<b>>
             three == IF c = b THEN <<>> ELSE <<c>>
             T == {a, b, c}
  <1>1. Starts(d) = (one \o two) \o three
    BY DEF Starts, Periods
  <1> HIDE DEF a, b, c
  <1>2. /\ one \in Seq(T) /\ two \in Seq(T) /\ three \in Seq(T)
        /\ a \in RangeOf(one) /\ (b = a \/ b \in RangeOf(two)) /\ (c = b \/ c \in RangeOf(three))
    <2>1. a \in T /\ b \in T /\ c \in T
      BY Zenon
    <2> HIDE DEF T
    <2>2. one \in Seq(T) /\ a \in RangeOf(one)
      BY Zenon, <2>1, Single
    <2>3. two \in Seq(T) /\ (b = a \/ b \in RangeOf(two))
      BY Zenon, <2>1, Single
    <2>4. three \in Seq(T) /\ (c = b \/ c \in RangeOf(three))
      BY Zenon, <2>1, Single
    <2> QED
      BY Zenon, <2>2, <2>3, <2>4
  <1> HIDE DEF one, two, three, T
  <1>3. one \o two \in Seq(T) /\ RangeOf(one \o two) = RangeOf(one) \cup RangeOf(two)
    BY ZenonT(30), <1>2, JoinedRange
  <1>4. a \in RangeOf(Starts(d)) /\ b \in RangeOf(Starts(d)) /\ c \in RangeOf(Starts(d))
    <2>1. RangeOf((one \o two) \o three) = RangeOf(one \o two) \cup RangeOf(three)
      <3>1. PICK u : u = one \o two
        BY Zenon
      <3>2. u \in Seq(T) /\ three \in Seq(T)
        BY Zenon, <3>1, <1>2, <1>3
      <3>3. RangeOf(u \o three) = RangeOf(u) \cup RangeOf(three)
        BY <3>2, JoinedRange
      <3> QED
        BY Zenon, <3>1, <3>3
    <2> QED
      BY Zenon, <2>1, <1>1, <1>2, <1>3
  <1>5. StartOf(p, d) \in RangeOf(Starts(d))
    BY Zenon, <1>4 DEF a, b, c
  <1> QED
    BY Zenon, <1>5 DEF RangeOf

(* Row y and column x have a place in a table of l rows and m columns. *)
HasPlace(x, y, m, l) == \E i \in 1..(l * m) : 1 + ((i - 1) % m) = x /\ 1 + ((i - 1) \div m) = y

(* Each place of a table is listed.                                           *)
LEMMA PlaceListed ==
    ASSUME NEW m \in 1..4, NEW l \in 1..3, NEW x \in 1..m, NEW y \in 1..l
    PROVE  HasPlace(x, y, m, l)
  <1> DEFINE i == (y - 1) * m + x
             Listed == i \in 1..(l * m) /\ 1 + ((i - 1) % m) = x /\ 1 + ((i - 1) \div m) = y
  <1>1. CASE m = 1
    <2>1. Listed BY <1>1
    <2> QED BY Zenon, <2>1 DEF HasPlace
  <1>2. CASE m = 2
    <2>1. Listed BY <1>2
    <2> QED BY Zenon, <2>1 DEF HasPlace
  <1>3. CASE m = 3
    <2>1. Listed BY <1>3
    <2> QED BY Zenon, <2>1 DEF HasPlace
  <1>4. CASE m = 4
    <2>1. Listed BY <1>4
    <2> QED BY Zenon, <2>1 DEF HasPlace
  <1> QED BY <1>1, <1>2, <1>3, <1>4

(* quotaSumCacheKeysFor lists the key of every counter of the caller, in      *)
(* every window of the day.                                                   *)
LEMMA KeysCover ==
    ASSUME NEW who \in Callers, NEW d \in Days, NEW p \in {"day", "month", "year"},
           NEW scope \in RangeOf(QuotaCounters(who))
    PROVE  <<scope, StartOf(p, d)>> \in RangeOf(KeysFor(who, d))
  <1> DEFINE starts == Starts(d)
             counters == QuotaCounters(who)
             m == Len(counters)
             l == Len(starts)
             At(i) == <<counters[1 + ((i - 1) % m)], starts[1 + ((i - 1) \div m)]>>
  <1>1. KeysFor(who, d) = [i \in 1..(l * m) |-> At(i)]
    BY Zenon DEF KeysFor
  <1>2. starts \in Seq(Days) /\ l \in 1..3
    BY StartsFacts
  <1>3. counters \in Seq(Scopes) /\ m \in 1..4
    BY ZenonT(30), CountersFacts
  <1>4. PICK x \in DOMAIN counters : counters[x] = scope
    BY Zenon DEF RangeOf
  <1>5. PICK y \in DOMAIN starts : starts[y] = StartOf(p, d)
    BY Zenon, StartsCover
  <1>6. x \in 1..m /\ y \in 1..l
    <2> HIDE DEF starts, counters
    <2> QED
      BY <1>2, <1>3, <1>4, <1>5
  <1> HIDE DEF starts, counters, m, l
  <1>7. PICK i \in 1..(l * m) : 1 + ((i - 1) % m) = x /\ 1 + ((i - 1) \div m) = y
    <2>1. m \in 1..4 /\ l \in 1..3
      BY Zenon, <1>2, <1>3
    <2>2. HasPlace(x, y, m, l)
      BY Zenon, <2>1, <1>6, PlaceListed
    <2> QED
      BY Zenon, <2>2 DEF HasPlace
  <1>8. At(i) = <<scope, StartOf(p, d)>>
    BY Zenon, <1>4, <1>5, <1>7
  <1> HIDE DEF At
  <1>9. i \in DOMAIN KeysFor(who, d) /\ KeysFor(who, d)[i] = At(i)
    BY Zenon, <1>1
  <1> QED
    BY Zenon, <1>8, <1>9 DEF RangeOf

(* The counters of a caller.                                                  *)
LEMMA CountersAre ==
    ASSUME NEW who \in Callers, NEW scope \in RangeOf(QuotaCounters(who))
    PROVE  \/ scope = <<"org">> \/ scope = Principal(who)
           \/ who.team # None /\ scope = <<"team", who.team>>
           \/ /\ who.team # None /\ who.app = None
              /\ scope = <<"team_member", who.team, who.user>>
  <1> DEFINE a == <<"org">>
             b == Principal(who)
             c == <<"team", who.team>>
             e == <<"team_member", who.team, who.user>>
             T == {a, b, c, e}
             ab == <<a, b>>
             one == <<c>>
             last == <<e>>
             none == <<>>
  <1>1. /\ (who.team = None => QuotaCounters(who) = ab \o none)
        /\ (who.team # None /\ who.app # None => QuotaCounters(who) = ab \o (one \o none))
        /\ (who.team # None /\ who.app = None => QuotaCounters(who) = ab \o (one \o last))
    BY Zenon DEF QuotaCounters
  <1> HIDE DEF a, b, c, e
  <1>2. /\ ab \in Seq(T) /\ RangeOf(ab) = {a, b} /\ one \in Seq(T) /\ RangeOf(one) = {c}
        /\ last \in Seq(T) /\ RangeOf(last) = {e} /\ none \in Seq(T) /\ RangeOf(none) = {}
    <2>1. a \in T /\ b \in T /\ c \in T /\ e \in T
      BY Zenon
    <2>2. ab \in Seq(T) /\ DOMAIN ab = {1, 2} /\ ab[1] = a /\ ab[2] = b
      OBVIOUS
    <2> HIDE DEF T, ab
    <2>3. one \in Seq(T) /\ RangeOf(one) = {c}
      BY Zenon, <2>1, Single
    <2>4. last \in Seq(T) /\ RangeOf(last) = {e} /\ none \in Seq(T) /\ RangeOf(none) = {}
      BY Zenon, <2>1, Single
    <2>5. RangeOf(ab) = {a, b}
      BY Zenon, <2>2 DEF RangeOf
    <2> QED
      BY Zenon, <2>2, <2>3, <2>4, <2>5
  <1> HIDE DEF T, ab, one, last, none
  <1>3. one \o none \in Seq(T) /\ RangeOf(one \o none) = RangeOf(one) \cup RangeOf(none)
    BY <1>2, JoinedRange
  <1>4. one \o last \in Seq(T) /\ RangeOf(one \o last) = RangeOf(one) \cup RangeOf(last)
    BY <1>2, JoinedRange
  <1>5. RangeOf(ab \o none) = RangeOf(ab) \cup RangeOf(none)
    BY <1>2, JoinedRange
  <1>6. RangeOf(ab \o (one \o none)) = RangeOf(ab) \cup RangeOf(one \o none)
    <2>1. PICK u : u = one \o none
      BY Zenon
    <2>2. ab \in Seq(T) /\ u \in Seq(T)
      BY Zenon, <2>1, <1>2, <1>3
    <2>3. RangeOf(ab \o u) = RangeOf(ab) \cup RangeOf(u)
      BY <2>2, JoinedRange
    <2> QED
      BY Zenon, <2>1, <2>3
  <1>7. RangeOf(ab \o (one \o last)) = RangeOf(ab) \cup RangeOf(one \o last)
    <2>1. PICK u : u = one \o last
      BY Zenon
    <2>2. ab \in Seq(T) /\ u \in Seq(T)
      BY Zenon, <2>1, <1>2, <1>4
    <2>3. RangeOf(ab \o u) = RangeOf(ab) \cup RangeOf(u)
      BY <2>2, JoinedRange
    <2> QED
      BY Zenon, <2>1, <2>3
  <1>8. \/ who.team = None /\ scope \in {a, b}
        \/ who.team # None /\ who.app # None /\ scope \in {a, b, c}
        \/ who.team # None /\ who.app = None /\ scope \in {a, b, c, e}
    <2>1. CASE who.team = None
      BY Zenon, <2>1, <1>1, <1>2, <1>5
    <2>2. CASE who.team # None /\ who.app # None
      BY Zenon, <2>2, <1>1, <1>2, <1>3, <1>6
    <2>3. CASE who.team # None /\ who.app = None
      BY Zenon, <2>3, <1>1, <1>2, <1>4, <1>7
    <2> QED
      BY Zenon, <2>1, <2>2, <2>3
  <1> QED
    BY Zenon, <1>8 DEF a, b, c, e

(* The checks of two parts are those of either.                               *)
LEMMA JoinedKeys ==
    ASSUME NEW s, NEW t, KeySeq(s), KeySeq(t)
    PROVE  RangeOf(s \o t) = RangeOf(s) \cup RangeOf(t)
  <1>1. PICK S : s \in Seq(S)
    BY Zenon DEF KeySeq
  <1>2. PICK T : t \in Seq(T)
    BY Zenon DEF KeySeq
  <1>3. s \in Seq(S \cup T) /\ t \in Seq(S \cup T)
    BY <1>1, <1>2
  <1> QED
    BY <1>3, JoinedRange

(* checkScope makes a check for every budget of the quota.                    *)
LEMMA ScopeCover ==
    ASSUME NEW scope \in Scopes, NEW quota, NEW d \in Days,
           NEW p \in {"day", "month", "year"}, quota[p] # Unlimited
    PROVE  \E c \in RangeOf(checkScope(scope, quota, d)) :
               c.key = <<scope, StartOf(p, d)>> /\ c.budget = quota[p]
  <1> DEFINE entry(i) == [key    |-> <<scope, StartOf(Periods[i], d)>>,
                          budget |-> quota[Periods[i]]]
             check(i) == IF quota[Periods[i]] = Unlimited THEN <<>> ELSE <<entry(i)>>
  <1>1. PICK i \in 1..3 : p = Periods[i]
    BY DEF Periods
  <1>2. entry(i).key = <<scope, StartOf(p, d)>> /\ entry(i).budget = quota[p]
    BY Zenon, <1>1
  <1>3. checkScope(scope, quota, d) = (check(1) \o check(2)) \o check(3)
    BY Zenon DEF checkScope
  <1>4. ASSUME NEW j \in 1..3 PROVE KeySeq(check(j))
    <2> DEFINE c == entry(j)
               S == {c}
               one == <<c>>
    <2>1. Periods[j] \in {"day", "month", "year"}
      BY DEF Periods
    <2>2. c.key \in Keys
      <3>1. StartOf(Periods[j], d) \in Days
        BY <2>1, StartFacts
      <3> QED
        BY <3>1 DEF Keys
    <2> HIDE DEF c
    <2>3. one \in Seq(S) /\ \A x \in S : x.key \in Keys
      BY <2>2
    <2>4. KeySeq(one)
      <3> HIDE DEF one, S
      <3> QED
        BY Zenon, <2>3, IntroKeys
    <2> QED
      BY Zenon, <2>4, EmptyKeys DEF c
  <1>5. entry(i) \in RangeOf(check(i))
    <2>1. check(i) = <<entry(i)>>
      BY Zenon, <1>1
    <2> HIDE DEF entry, check
    <2> QED
      BY <2>1 DEF RangeOf
  <1>6. KeySeq(check(1)) /\ KeySeq(check(2)) /\ KeySeq(check(3))
    BY <1>4
  <1> HIDE DEF check, entry
  <1>7. RangeOf(checkScope(scope, quota, d)) =
            (RangeOf(check(1)) \cup RangeOf(check(2))) \cup RangeOf(check(3))
    <2>1. KeySeq(check(1) \o check(2))
      BY Zenon, <1>6, ConcatKeys
    <2>2. RangeOf(check(1) \o check(2)) = RangeOf(check(1)) \cup RangeOf(check(2))
      BY Zenon, <1>6, JoinedKeys
    <2>3. RangeOf((check(1) \o check(2)) \o check(3)) =
              RangeOf(check(1) \o check(2)) \cup RangeOf(check(3))
      BY Zenon, <2>1, <1>6, JoinedKeys
    <2> QED
      BY Zenon, <1>3, <2>2, <2>3
  <1>8. i = 1 \/ i = 2 \/ i = 3
    OBVIOUS
  <1>9. entry(i) \in RangeOf(checkScope(scope, quota, d))
    BY Zenon, <1>5, <1>7, <1>8
  <1> QED
    BY Zenon, <1>2, <1>9

(* A quota on file has a budget, or none, for each period.                    *)
LEMMA QuotaFacts ==
    ASSUME NEW scope, NEW p \in {"day", "month", "year"}
    PROVE  GetQuota(scope)[p] \in Nat \cup {Unlimited}
  <1>1. RangeOf(Periods) = {"day", "month", "year"}
    BY DEF RangeOf, Periods
  <1> QED
    BY Zenon, <1>1, QuotasAssumption DEF GetQuota

(* The stricter of two budgets is a budget, and not above the first.          *)
LEMMA StricterFacts ==
    ASSUME NEW a, NEW b, NEW p \in {"day", "month", "year"},
           a[p] \in Nat, a[p] # Unlimited, b[p] \in Nat \cup {Unlimited}
    PROVE  /\ Stricter(a, b)[p] # Unlimited /\ Stricter(a, b)[p] \in Nat
           /\ Stricter(a, b)[p] <= a[p]
  <1>1. RangeOf(Periods) = {"day", "month", "year"}
    BY DEF RangeOf, Periods
  <1>2. Stricter(a, b)[p] = minPtrSvc(a[p], b[p])
    BY Zenon, <1>1 DEF Stricter
  <1> QED
    BY <1>2 DEF minPtrSvc

(* The budgets of a scope on the path of a caller are all checked, under its  *)
(* own key and against a limit that is not above them.                        *)
Covered(checks, key, budget) ==
    \E i \in DOMAIN checks :
        checks[i].key = key /\ checks[i].budget \in Nat /\ checks[i].budget <= budget

(* PreRequest makes a check for every budget on the path of the caller,       *)
(* although ResolveEffectiveQuota merges some of them.                        *)
LEMMA ChecksCover ==
    ASSUME NEW who \in Callers, NEW d \in Days, NEW p \in {"day", "month", "year"},
           NEW scope \in RangeOf(QuotaCounters(who)), GetQuota(scope)[p] # Unlimited
    PROVE  GetQuota(scope)[p] \in Nat /\ Covered(Checks(who, d), <<scope, StartOf(p, d)>>,
                                                 GetQuota(scope)[p])
  <1>1. /\ <<"org">> \in Scopes /\ Principal(who) \in Scopes
        /\ (who.team # None => <<"team", who.team>> \in Scopes)
        /\ (who.team # None /\ who.app = None =>
                  <<"team_member", who.team, who.user>> \in Scopes)
    BY Zenon, CountersFacts
  <1>2. GetQuota(scope)[p] \in Nat
    BY Zenon, QuotaFacts
  <1> DEFINE own == IF who.app # None THEN ResolveEffectiveQuotaForApplication(who.app)
                    ELSE ResolveEffectiveQuota(who.user)
             member == <<"team_member", who.team, who.user>>
             A == checkScope(Principal(who), own, d)
             B == checkOrgWide(d)
             C == checkScope(<<"team", who.team>>, GetQuota(<<"team", who.team>>), d)
             E == checkScope(member, ResolveMemberQuota(who), d)
             F == IF who.app # None THEN <<>> ELSE E
             G == IF who.team = None THEN <<>> ELSE C \o F
             budget == GetQuota(scope)[p]
             key == <<scope, StartOf(p, d)>>
  <1>3. Checks(who, d) = (A \o B) \o G
    BY Zenon DEF Checks
  <1>4. /\ KeySeq(A) /\ KeySeq(B) /\ KeySeq(G)
        /\ (who.team # None => KeySeq(C) /\ KeySeq(F))
    <2>1. KeySeq(A)
      BY Zenon, <1>1, ScopeKeys
    <2>2. KeySeq(B)
      BY <1>1, ScopeKeys DEF checkOrgWide
    <2>3. who.team # None => KeySeq(C)
      BY Zenon, <1>1, ScopeKeys
    <2>4. who.team # None => KeySeq(F)
      BY Zenon, <1>1, ScopeKeys, EmptyKeys
    <2> HIDE DEF A, B, C, F
    <2>5. KeySeq(G)
      BY <2>3, <2>4, EmptyKeys, ConcatKeys
    <2> QED
      BY Zenon, <2>1, <2>2, <2>3, <2>4, <2>5
  <1>5. RangeOf(Checks(who, d)) = (RangeOf(A) \cup RangeOf(B)) \cup RangeOf(G)
    <2> HIDE DEF A, B, G
    <2>1. PICK u : u = A \o B
      BY Zenon
    <2>2. RangeOf(u) = RangeOf(A) \cup RangeOf(B) /\ KeySeq(u)
      BY Zenon, <2>1, <1>4, JoinedKeys, ConcatKeys
    <2>3. RangeOf(u \o G) = RangeOf(u) \cup RangeOf(G)
      BY Zenon, <2>2, <1>4, JoinedKeys
    <2> QED
      BY Zenon, <1>3, <2>1, <2>2, <2>3
  <1>6. who.team # None => RangeOf(G) = RangeOf(C) \cup RangeOf(F)
    <2> HIDE DEF C, F
    <2> QED
      BY Zenon, <1>4, JoinedKeys
  <1>7. budget <= budget
    BY <1>2
  <1>8. ASSUME NEW quota, quota[p] # Unlimited, quota[p] \in Nat, quota[p] <= budget,
               scope \in Scopes,
               RangeOf(checkScope(scope, quota, d)) \subseteq RangeOf(Checks(who, d))
        PROVE  Covered(Checks(who, d), key, budget)
    <2>1. PICK c \in RangeOf(checkScope(scope, quota, d)) : c.key = key /\ c.budget = quota[p]
      BY Zenon, <1>8, ScopeCover
    <2>2. PICK i \in DOMAIN Checks(who, d) : Checks(who, d)[i] = c
      BY Zenon, <2>1, <1>8 DEF RangeOf
    <2> HIDE DEF key, budget
    <2> QED
      BY Zenon, <2>1, <2>2, <1>8 DEF Covered
  <1>9. CASE scope = <<"org">>
    <2>1. scope \in Scopes /\ B = checkScope(scope, GetQuota(scope), d)
      BY Zenon, <1>1, <1>9 DEF checkOrgWide
    <2>2. RangeOf(B) \subseteq RangeOf(Checks(who, d))
      BY Zenon, <1>5
    <2> HIDE DEF A, B, G
    <2> QED
      BY Zenon, <2>1, <2>2, <1>2, <1>7, <1>8
  <1>10. CASE scope = Principal(who)
    <2>1. own[p] # Unlimited /\ own[p] \in Nat /\ own[p] <= budget
      <3>1. GetQuota(<<"org">>)[p] \in Nat \cup {Unlimited}
        BY Zenon, QuotaFacts
      <3>2. CASE who.app # None
        <4>1. own = Stricter(GetQuota(scope), GetQuota(<<"org">>))
          BY Zenon, <1>10, <3>2 DEF ResolveEffectiveQuotaForApplication, Principal
        <4> QED
          BY Zenon, <4>1, <3>1, <1>2, StricterFacts
      <3>3. CASE who.app = None
        <4>1. scope = <<"user", who.user>>
          BY Zenon, <1>10, <3>3 DEF Principal
        <4>2. hasBudget(GetQuota(scope))
          <5>1. RangeOf(Periods) = {"day", "month", "year"}
            BY DEF RangeOf, Periods
          <5> QED
            BY Zenon, <5>1 DEF hasBudget
        <4>3. own = Stricter(GetQuota(scope), GetQuota(<<"org">>))
          BY Zenon, <3>3, <4>1, <4>2 DEF ResolveEffectiveQuota
        <4> QED
          BY Zenon, <4>3, <3>1, <1>2, StricterFacts
      <3> QED
        BY Zenon, <3>2, <3>3
    <2> HIDE DEF own
    <2>2. scope \in Scopes /\ A = checkScope(scope, own, d)
      BY Zenon, <1>1, <1>10
    <2>3. RangeOf(A) \subseteq RangeOf(Checks(who, d))
      BY Zenon, <1>5
    <2> HIDE DEF A, B, G
    <2> QED
      BY Zenon, <2>1, <2>2, <2>3, <1>2, <1>8
  <1>11. CASE who.team # None /\ scope = <<"team", who.team>>
    <2>1. scope \in Scopes /\ C = checkScope(scope, GetQuota(scope), d)
      BY Zenon, <1>1, <1>11
    <2> HIDE DEF A, B, C, F, G
    <2>2. RangeOf(C) \subseteq RangeOf(Checks(who, d))
      BY Zenon, <1>5, <1>6, <1>11
    <2> QED
      BY Zenon, <2>1, <2>2, <1>2, <1>7, <1>8
  <1>12. CASE who.team # None /\ who.app = None /\ scope = member
    <2>1. ResolveMemberQuota(who) = GetQuota(scope)
      <3>1. scope \in DOMAIN Quotas
        <4>1. RangeOf(Periods) = {"day", "month", "year"}
          BY DEF RangeOf, Periods
        <4> QED
          BY Zenon, <4>1 DEF GetQuota
      <3> QED
        BY Zenon, <3>1, <1>12 DEF ResolveMemberQuota, GetQuota
    <2>2. scope \in Scopes /\ F = checkScope(scope, GetQuota(scope), d)
      BY Zenon, <2>1, <1>1, <1>12
    <2> HIDE DEF A, B, C, F, G
    <2>3. RangeOf(F) \subseteq RangeOf(Checks(who, d))
      BY Zenon, <1>5, <1>6, <1>12
    <2> QED
      BY Zenon, <2>2, <2>3, <1>2, <1>7, <1>8
  <1> QED
    BY Zenon, <1>2, <1>9, <1>10, <1>11, <1>12, CountersAre

-----------------------------------------------------------------------------
(* A request that begins once a budget is spent is refused. *)

(* The records RecordUsage has returned for, that a total of key counts. *)
Settled ==
    [key \in Keys |->
        [n \in Ids |-> IF n \in DOMAIN db /\ Returned(n) /\ key \in RangeOf(KeysOf(db[n]))
                       THEN 1 ELSE 0]]

(* A check that q has still to make will find its budget spent. *)
DoomedAt(q, i) ==
    LET c == ChecksOf[caller[q]][now[q]][i]
    IN  /\ i \in step[q]..Len(ChecksOf[caller[q]][now[q]])
        /\ c.key \in Keys /\ c.budget \in Nat /\ c.budget <= CostOf(db, Settled[c.key])
        /\ pc[q] = "loaded" /\ i = step[q] => c.budget <= CostOf(db, got[q])

(* A request that began once a budget was spent is at its checks, and has the *)
(* one that refuses it before it.                                             *)
Refused(q) ==
    exhausted[q] => /\ pc[q] \notin {"upstream", "responded", "recording"}
                    /\ pc[q] \in Checking => \E i \in Nat : DoomedAt(q, i)

(* The database grows, and what RecordUsage has returned for stays so. *)
Grown ==
    /\ Len(db) <= Len(db') /\ \A n \in DOMAIN db : db'[n] = db[n]
    /\ \A r \in Requests : pc'[r] = "recording" =>
           (pc[r] = "recording" /\ id'[r] = id[r]) \/ id'[r] \notin DOMAIN db

(* <= is transitive.                                                          *)
LEMMA AtMost == ASSUME NEW x \in Nat, NEW y \in Nat, NEW z \in Nat, x <= y, y <= z PROVE x <= z
  OBVIOUS

(* The database holds records.                                                *)
LEMMA DatabaseFacts ==
    ASSUME UsageInv
    PROVE  /\ db \in Seq(Record) /\ Len(db) <= MaxRecords /\ DOMAIN db \subseteq Ids
           /\ \A n \in DOMAIN db : /\ db[n] \in Record /\ db[n].who \in Callers
                                   /\ db[n].day \in Days
                                   /\ KeysOf(db[n]) = KeysFor(db[n].who, db[n].day)
  <1>1. db \in Seq(Record) /\ Len(db) <= MaxRecords
    BY Zenon DEF UsageInv, Types, Shared
  <1>2. DOMAIN db \subseteq Ids /\ \A n \in DOMAIN db : db[n] \in Record
    BY <1>1, BoundsAssumption DEF Ids
  <1>3. ASSUME NEW n \in DOMAIN db
        PROVE  /\ db[n] \in Record /\ db[n].who \in Callers /\ db[n].day \in Days
               /\ KeysOf(db[n]) = KeysFor(db[n].who, db[n].day)
    <2>1. db[n] \in Record
      BY Zenon, <1>2
    <2>2. db[n].who \in Callers /\ db[n].day \in Days
      BY Zenon, <2>1 DEF Record
    <2> QED
      BY Zenon, <2>1, <2>2 DEF KeysOf, quotaSumCacheKeysFor
  <1> QED
    BY Zenon, <1>1, <1>2, <1>3

(* A total that counts what is settled is worth as much, and more later.      *)
LEMMA SettledCost ==
    ASSUME UsageInv, NEW key \in Keys, NEW total \in [Ids -> Nat],
           \A n \in DOMAIN db : Returned(n) /\ key \in RangeOf(KeysOf(db[n])) => total[n] >= 1
    PROVE  /\ CostOf(db, Settled[key]) \in Nat /\ CostOf(db, total) \in Nat
           /\ CostOf(db, Settled[key]) <= CostOf(db, total)
  <1>1. db \in Seq(Record) /\ Len(db) <= MaxRecords /\ DOMAIN db \subseteq Ids /\ Len(db) <= Len(db)
    <2>1. db \in Seq(Record) /\ Len(db) <= MaxRecords /\ DOMAIN db \subseteq Ids
      BY Zenon, DatabaseFacts
    <2> QED
      BY <2>1
  <1>2. Settled[key] \in [Ids -> Nat]
    BY Zenon DEF Settled
  <1>3. ASSUME NEW n \in DOMAIN db PROVE Settled[key][n] <= total[n]
    <2>1. n \in Ids /\ total[n] \in Nat
      BY Zenon, <1>1
    <2>2. CASE Returned(n) /\ key \in RangeOf(KeysOf(db[n]))
      <3>1. Settled[key][n] = 1 /\ total[n] >= 1
        BY Zenon, <2>1, <2>2 DEF Settled
      <3> QED
        BY <3>1, <2>1
    <2>3. CASE ~(Returned(n) /\ key \in RangeOf(KeysOf(db[n])))
      <3>1. Settled[key][n] = 0
        BY Zenon, <2>1, <2>3 DEF Settled
      <3> QED
        BY <3>1, <2>1
    <2> QED
      BY Zenon, <2>2, <2>3
  <1> QED
    BY Zenon, <1>1, <1>2, <1>3, CostGrows

(* Costs do not shrink as the database grows.                                 *)
LEMMA GrownCost ==
    ASSUME UsageInv, UsageInv', Grown, NEW key \in Keys, NEW total \in [Ids -> Nat]
    PROVE  /\ CostOf(db, Settled[key]) \in Nat /\ CostOf(db', Settled'[key]) \in Nat
           /\ CostOf(db, Settled[key]) <= CostOf(db', Settled'[key])
           /\ CostOf(db, total) \in Nat /\ CostOf(db', total) \in Nat
           /\ CostOf(db, total) <= CostOf(db', total)
  <1>1. db \in Seq(Record) /\ DOMAIN db \subseteq Ids
    BY Zenon, DatabaseFacts
  <1>2. db' \in Seq(Record) /\ Len(db') <= MaxRecords
    BY Zenon DEF UsageInv, Types, Shared
  <1>3. Len(db) <= Len(db') /\ \A n \in DOMAIN db : db'[n] = db[n] /\ n \in DOMAIN db'
    BY <1>1, <1>2 DEF Grown
  <1>4. Settled[key] \in [Ids -> Nat] /\ Settled'[key] \in [Ids -> Nat]
    BY Zenon DEF Settled
  <1>5. ASSUME NEW n \in DOMAIN db PROVE Settled[key][n] <= Settled'[key][n]
    <2>1. n \in Ids /\ n \in DOMAIN db' /\ db'[n] = db[n]
      BY Zenon, <1>1, <1>3
    <2>2. Returned(n) => Returned(n)'
      BY Zenon, <2>1 DEF Returned, Grown
    <2>3. CASE Returned(n) /\ key \in RangeOf(KeysOf(db[n]))
      <3>1. Settled[key][n] = 1 /\ Settled'[key][n] = 1
        BY Zenon, <2>1, <2>2, <2>3 DEF Settled
      <3> QED
        BY <3>1
    <2>4. CASE ~(Returned(n) /\ key \in RangeOf(KeysOf(db[n])))
      <3>1. Settled[key][n] = 0 /\ Settled'[key][n] \in Nat
        BY Zenon, <2>1, <2>4, <1>4 DEF Settled
      <3> QED
        BY <3>1
    <2> QED
      BY Zenon, <2>3, <2>4
  <1>6. \A n \in DOMAIN db : total[n] <= total[n]
    BY <1>1
  <1>7. /\ CostOf(db, Settled[key]) \in Nat /\ CostOf(db', Settled'[key]) \in Nat
        /\ CostOf(db, Settled[key]) <= CostOf(db', Settled'[key])
    BY Zenon, <1>1, <1>2, <1>3, <1>4, <1>5, CostGrows
  <1>8. /\ CostOf(db, total) \in Nat /\ CostOf(db', total) \in Nat
        /\ CostOf(db, total) <= CostOf(db', total)
    BY Zenon, <1>1, <1>2, <1>3, <1>6, CostGrows
  <1> QED
    BY Zenon, <1>7, <1>8

(* A request that a step leaves alone.                                        *)
LEMMA RefusedKept ==
    ASSUME UsageInv, UsageInv', Grown, NEW r \in Requests, Refused(r),
           pc'[r] = pc[r] \/ (pc[r] = "check" /\ pc'[r] = "missed")
                          \/ (pc[r] = "missed" /\ pc'[r] = "loading"),
           caller'[r] = caller[r], now'[r] = now[r], step'[r] = step[r], got'[r] = got[r],
           exhausted'[r] = exhausted[r]
    PROVE  Refused(r)'
  <1>1. /\ pc'[r] \in {"upstream", "responded", "recording"} <=>
               pc[r] \in {"upstream", "responded", "recording"}
        /\ pc'[r] \in Checking => pc[r] \in Checking
        /\ pc'[r] = "loaded" => pc[r] = "loaded"
    BY Zenon DEF Checking
  <1>2. ChecksOf' = ChecksOf
    BY Zenon DEF ChecksOf
  <1>3. ASSUME NEW i \in Nat, DoomedAt(r, i) PROVE DoomedAt(r, i)'
    <2> DEFINE c == ChecksOf[caller[r]][now[r]][i]
    <2>1. PICK total \in [Ids -> Nat] : total = got[r]
      BY Zenon DEF UsageInv, Types, Locals
    <2>2. c.key \in Keys
      BY Zenon, <1>3 DEF DoomedAt
    <2>7. /\ CostOf(db, Settled[c.key]) \in Nat /\ CostOf(db', Settled'[c.key]) \in Nat
          /\ CostOf(db, Settled[c.key]) <= CostOf(db', Settled'[c.key])
          /\ CostOf(db, total) \in Nat /\ CostOf(db', total) \in Nat
          /\ CostOf(db, total) <= CostOf(db', total)
      BY Zenon, <2>2, GrownCost
    <2>3. /\ i \in step[r]..Len(ChecksOf[caller[r]][now[r]])
          /\ c.budget \in Nat /\ c.budget <= CostOf(db, Settled[c.key])
          /\ pc[r] = "loaded" /\ i = step[r] => c.budget <= CostOf(db, total)
      BY Zenon, <1>3, <2>1 DEF DoomedAt
    <2>4. c.budget <= CostOf(db', Settled'[c.key])
      BY Zenon, <2>7, <2>3, AtMost
    <2>5. pc[r] = "loaded" /\ i = step[r] => c.budget <= CostOf(db', total)
      BY Zenon, <2>7, <2>3, AtMost
    <2>6. c' = c
      BY Zenon, <1>2
    <2> QED
      BY Zenon, <2>1, <2>2, <2>3, <2>4, <2>5, <2>6, <1>1, <1>2 DEF DoomedAt
  <1> QED
    BY Zenon, <1>1, <1>3 DEF Refused

(* PreRequest begins once a budget is spent: the check of that budget is      *)
(* among those it makes.                                                      *)
LEMMA BeginRefused ==
    ASSUME UsageInv, UsageInv', Grown, NEW q \in Requests, NEW who \in Callers, Begin(q, who)
    PROVE  Refused(q)'
  <1>1. day \in Days /\ Types
    BY Zenon DEF UsageInv, Types, Shared
  <1>2. /\ pc'[q] = (IF ChecksOf[who][day] = <<>> THEN "upstream" ELSE "check")
        /\ caller'[q] = who /\ now'[q] = day /\ step'[q] = 1
        /\ exhausted'[q] = Exhausted(who)
    BY Zenon, <1>1 DEF Begin, Types, Locals
  <1> SUFFICES ASSUME Exhausted(who)
               PROVE  pc'[q] = "check" /\ \E i \in Nat : DoomedAt(q, i)'
    <2>1. "check" \notin {"upstream", "responded", "recording"}
      BY Zenon
    <2> QED
      BY Zenon, <1>2, <2>1 DEF Refused
  <1>3. PICK scope \in RangeOf(QuotaCounters(who)), p \in {"day", "month", "year"} :
            GetQuota(scope)[p] # Unlimited /\ Spent(scope, p) >= GetQuota(scope)[p]
    <2>1. RangeOf(Periods) = {"day", "month", "year"}
      BY DEF RangeOf, Periods
    <2> QED
      BY Zenon, <2>1 DEF Exhausted
  <1>11. PICK key \in Keys : key = <<scope, StartOf(p, day)>>
    <2>1. StartOf(p, day) \in Days /\ scope \in Scopes
      BY Zenon, <1>1, StartFacts DEF Scopes
    <2> QED
      BY Zenon, <2>1 DEF Keys
  <1> DEFINE budget == GetQuota(scope)[p]
             X == [n \in Ids |-> IF /\ n \in DOMAIN db /\ Returned(n)
                                    /\ scope \in RangeOf(QuotaCounters(db[n].who))
                                    /\ StartOf(p, db[n].day) = StartOf(p, day)
                                 THEN 1 ELSE 0]
  <1>4. budget \in Nat /\ Covered(ChecksOf[who][day], key, budget)
    <2>1. ChecksOf[who][day] = Checks(who, day)
      BY Zenon, <1>1 DEF ChecksOf
    <2> QED
      BY Zenon, <2>1, <1>1, <1>3, <1>11, ChecksCover
  <1>5. budget <= CostOf(db, Settled[key]) /\ CostOf(db, Settled[key]) \in Nat
    <2>1. Spent(scope, p) = CostOf(db, X)
      <3>1. Spent(scope, p) = Amount(X)
        BY Zenon DEF Spent
      <3> HIDE DEF X
      <3> QED
        BY Zenon, <3>1, AmountIs
    <2>2. ASSUME NEW n \in DOMAIN db PROVE X[n] <= Settled[key][n] /\ X[n] \in Nat
      <3>1. n \in Ids /\ db[n].who \in Callers /\ db[n].day \in Days
            /\ KeysOf(db[n]) = KeysFor(db[n].who, db[n].day)
        BY Zenon, DatabaseFacts
      <3>2. CASE /\ Returned(n) /\ scope \in RangeOf(QuotaCounters(db[n].who))
                 /\ StartOf(p, db[n].day) = StartOf(p, day)
        <4>1. key \in RangeOf(KeysOf(db[n]))
          BY Zenon, <3>1, <3>2, <1>11, KeysCover
        <4>2. X[n] = 1 /\ Settled[key][n] = 1
          BY Zenon, <3>1, <3>2, <4>1 DEF Settled
        <4> QED
          BY <4>2
      <3>3. CASE ~(/\ Returned(n) /\ scope \in RangeOf(QuotaCounters(db[n].who))
                   /\ StartOf(p, db[n].day) = StartOf(p, day))
        <4>1. X[n] = 0
          BY Zenon, <3>1, <3>3
        <4>2. Settled[key][n] \in {0, 1}
          BY Zenon, <3>1 DEF Settled
        <4> QED
          BY <4>1, <4>2
      <3> QED
        BY Zenon, <3>2, <3>3
    <2>3. db \in Seq(Record) /\ Len(db) <= MaxRecords /\ Len(db) <= Len(db)
      <3>1. db \in Seq(Record) /\ Len(db) <= MaxRecords
        BY Zenon, DatabaseFacts
      <3> QED
        BY <3>1
    <2>4. X \in [Ids -> Nat] /\ Settled[key] \in [Ids -> Nat]
      BY Zenon DEF Settled
    <2> HIDE DEF X
    <2>5. /\ CostOf(db, X) \in Nat /\ CostOf(db, Settled[key]) \in Nat
          /\ CostOf(db, X) <= CostOf(db, Settled[key])
      BY Zenon, <2>2, <2>3, <2>4, CostGrows
    <2>6. budget <= CostOf(db, X)
      <3>1. CostOf(db, X) >= budget
        BY Zenon, <1>3, <2>1
      <3> HIDE DEF budget
      <3> QED
        BY <3>1, <2>5, <1>4
    <2> QED
      BY Zenon, <2>5, <2>6, <1>4, AtMost
  <1>6. PICK i \in DOMAIN ChecksOf[who][day] :
            /\ ChecksOf[who][day][i].key = key /\ ChecksOf[who][day][i].budget \in Nat
            /\ ChecksOf[who][day][i].budget <= budget
    BY Zenon, <1>4 DEF Covered
  <1>7. /\ DOMAIN ChecksOf[who][day] = 1..Len(ChecksOf[who][day])
        /\ ChecksOf[who][day] # <<>> /\ i \in Nat
    <2>1. ChecksOf[who][day] = Checks(who, day)
      BY Zenon, <1>1 DEF ChecksOf
    <2>2. /\ DOMAIN ChecksOf[who][day] = 1..Len(ChecksOf[who][day])
          /\ Len(ChecksOf[who][day]) \in Nat
      BY Zenon, <2>1, <1>1, ChecksFacts
    <2>3. DOMAIN <<>> = {}
      OBVIOUS
    <2>4. i \in Nat
      BY <2>2, <1>6
    <2> QED
      BY Zenon, <2>2, <2>3, <2>4, <1>6
  <1>8. CostOf(db', Settled'[key]) \in Nat /\ CostOf(db, Settled[key]) <= CostOf(db', Settled'[key])
    BY Zenon, GrownCost, NothingCounted
  <1>9. ChecksOf' = ChecksOf
    BY Zenon DEF ChecksOf
  <1>10. DoomedAt(q, i)'
    <2> DEFINE c == ChecksOf[who][day][i]
    <2>1. ChecksOf'[caller'[q]][now'[q]][i] = c /\ ChecksOf'[caller'[q]][now'[q]] = ChecksOf[who][day]
      BY Zenon, <1>2, <1>9
    <2>2. pc'[q] # "loaded"
      BY Zenon, <1>2
    <2>3. c.budget \in Nat /\ c.key = key /\ c.budget <= CostOf(db', Settled'[key])
      <3> HIDE DEF budget
      <3>1. c.budget \in Nat /\ c.key = key /\ c.budget <= budget
        BY Zenon, <1>6
      <3>2. budget <= CostOf(db', Settled'[key])
        BY Zenon, <1>4, <1>5, <1>8, AtMost
      <3> QED
        BY Zenon, <3>1, <3>2, <1>4, <1>8, AtMost
    <2>4. i \in step'[q]..Len(ChecksOf[who][day])
      BY Zenon, <1>2, <1>6, <1>7
    <2> HIDE DEF c
    <2> QED
      BY Zenon, <2>1, <2>2, <2>3, <2>4 DEF DoomedAt
  <1> QED
    BY Zenon, <1>2, <1>7, <1>10

(* A check that reads a total worth its budget refuses the request, and the   *)
(* check that q is doomed at is still to come after another one.              *)
LEMMA CompareRefused ==
    ASSUME UsageInv, UsageInv', Grown, NEW q \in Requests, Refused(q), pc[q] \in Checking,
           NEW total \in [Ids -> Nat], Compare(q, total),
           exhausted[q] /\ DoomedAt(q, step[q]) => Check(q).budget <= CostOf(db, total)
    PROVE  Refused(q)'
  <1>1. Types /\ Ready(q)
    BY Zenon DEF UsageInv
  <1>2. CASE Idle(q)
    <2>1. ~exhausted'[q]
      BY Zenon, <1>1, <1>2 DEF Idle, Types, Locals
    <2> QED
      BY Zenon, <2>1 DEF Refused
  <1> DEFINE checks == ChecksOf[caller[q]][now[q]]
             to == IF step[q] = Len(checks) THEN "upstream" ELSE "check"
  <1>3. CASE ~Idle(q)
    <2>1. /\ ~Reached(Amount(total), Check(q).budget)
          /\ pc' = [pc EXCEPT ![q] = to] /\ step' = [step EXCEPT ![q] = @ + 1]
          /\ UNCHANGED <<caller, now, exhausted>>
      BY ZenonT(30), <1>3 DEF Compare
    <2>2. /\ pc'[q] = to /\ step'[q] = step[q] + 1 /\ caller'[q] = caller[q] /\ now'[q] = now[q]
          /\ exhausted'[q] = exhausted[q]
      BY Zenon, <2>1, <1>1 DEF Types, Locals
    <2> SUFFICES ASSUME exhausted[q]
                 PROVE  pc'[q] = "check" /\ \E i \in Nat : DoomedAt(q, i)'
      <3>1. "check" \notin {"upstream", "responded", "recording"}
        BY Zenon
      <3> HIDE DEF to
      <3> QED
        BY Zenon, <2>2, <3>1 DEF Refused
    <2>3. PICK i \in Nat : DoomedAt(q, i)
      BY Zenon DEF Refused
    <2> DEFINE c == checks[i]
    <2>4. /\ i \in step[q]..Len(checks) /\ c.key \in Keys /\ c.budget \in Nat
          /\ c.budget <= CostOf(db, Settled[c.key])
      BY Zenon, <2>3 DEF DoomedAt
    <2>5. step[q] \in 1..Len(checks) /\ Len(checks) \in Nat
      BY Zenon, <1>1, KeyIn
    <2>6. /\ CostOf(db, Settled[c.key]) \in Nat /\ CostOf(db', Settled'[c.key]) \in Nat
          /\ CostOf(db, Settled[c.key]) <= CostOf(db', Settled'[c.key])
          /\ CostOf(db, total) \in Nat
      BY Zenon, <2>4, GrownCost
    <2>7. i # step[q]
      <3> SUFFICES ASSUME i = step[q] PROVE FALSE
        BY Zenon
      <3>1. Check(q) = c /\ Check(q).budget <= CostOf(db, total)
        BY Zenon, <2>3 DEF Check
      <3>2. Amount(total) = CostOf(db, total)
        BY Zenon, AmountIs
      <3>3. ~(CostOf(db, total) >= c.budget)
        BY Zenon, <2>1, <3>1, <3>2 DEF Reached
      <3>4. c.budget <= CostOf(db, total)
        BY Zenon, <3>1
      <3> HIDE DEF c
      <3> QED
        BY <3>3, <3>4, <2>4, <2>6
    <2>8. i \in step'[q]..Len(checks) /\ step[q] # Len(checks)
      <3> DEFINE n == Len(checks)
                 m == step[q]
      <3>1. i \in m..n /\ i # m /\ m \in 1..n /\ n \in Nat
        BY Zenon, <2>4, <2>5, <2>7
      <3>2. step'[q] = m + 1
        BY Zenon, <2>2
      <3> HIDE DEF n, m
      <3>3. i \in (m + 1)..n /\ m # n
        BY <3>1
      <3> QED
        BY Zenon, <3>2, <3>3 DEF n, m
    <2>9. pc'[q] = "check"
      BY Zenon, <2>2, <2>8
    <2>10. ChecksOf'[caller'[q]][now'[q]] = checks
      <3>1. ChecksOf' = ChecksOf
        BY Zenon DEF ChecksOf
      <3> QED
        BY Zenon, <3>1, <2>2
    <2>11. c.budget <= CostOf(db', Settled'[c.key])
      BY Zenon, <2>4, <2>6, AtMost
    <2> HIDE DEF checks
    <2>12. DoomedAt(q, i)'
      BY Zenon, <2>4, <2>8, <2>9, <2>10, <2>11 DEF DoomedAt
    <2> QED
      BY Zenon, <2>9, <2>12
  <1> QED
    BY Zenon, <1>2, <1>3

(* A cached total, and one that is read, count what is settled.               *)
LEMMA HitRefused ==
    ASSUME UsageInv, UsageInv', Grown, NEW q \in Requests, Refused(q), Hit(q) PROVE Refused(q)'
  <1>1. Types /\ Ready(q) /\ pc[q] = "check" /\ pc[q] \in Checking /\ Check(q).key \in cached
    BY Zenon DEF UsageInv, Hit, Checking
  <1>2. PICK k \in Keys : k = Check(q).key
    BY Zenon, <1>1, KeyIn DEF Key
  <1>3. PICK total \in [Ids -> Nat] : total = counted[k]
    BY Zenon, <1>1 DEF Types, Shared
  <1>4. Compare(q, total)
    BY Zenon, <1>2, <1>3 DEF Hit
  <1>5. ASSUME NEW n \in DOMAIN db, Returned(n), k \in RangeOf(KeysOf(db[n])) PROVE total[n] >= 1
    BY Zenon, <1>1, <1>2, <1>3, <1>5 DEF UsageInv, NoUndercount, Returned
  <1>6. /\ CostOf(db, Settled[k]) \in Nat /\ CostOf(db, total) \in Nat
        /\ CostOf(db, Settled[k]) <= CostOf(db, total)
    BY Zenon, <1>5, SettledCost
  <1>7. ASSUME DoomedAt(q, step[q]) PROVE Check(q).budget <= CostOf(db, total)
    <2>1. Check(q).budget \in Nat /\ Check(q).budget <= CostOf(db, Settled[k])
      BY Zenon, <1>2, <1>7 DEF DoomedAt, Check
    <2> QED
      BY Zenon, <2>1, <1>6, AtMost
  <1> QED
    BY Zenon, <1>1, <1>4, <1>7, CompareRefused

(* So does a total that was read from the backend.                            *)
LEMMA finishLoadRefused ==
    ASSUME UsageInv, UsageInv', Grown, NEW q \in Requests, Refused(q), finishLoad(q)
    PROVE  Refused(q)'
  <1>1. Types /\ pc[q] = "loaded" /\ pc[q] \in Checking
    BY Zenon DEF UsageInv, finishLoad, Checking
  <1>2. PICK total \in [Ids -> Nat] : total = got[q]
    BY Zenon, <1>1 DEF Types, Locals
  <1>3. Compare(q, total)
    BY Zenon, <1>2 DEF finishLoad
  <1>4. ASSUME DoomedAt(q, step[q]) PROVE Check(q).budget <= CostOf(db, total)
    BY Zenon, <1>1, <1>2, <1>4 DEF DoomedAt, Check
  <1> QED
    BY Zenon, <1>1, <1>3, <1>4, CompareRefused

(* The backend counts a settled record in every window it is in.              *)
LEMMA ReadBackendRefused ==
    ASSUME UsageInv, UsageInv', Grown, NEW q \in Requests, Refused(q), ReadBackend(q)
    PROVE  Refused(q)'
  <1>1. Types /\ pc[q] = "loading" /\ pc[q] \in Checking
    BY Zenon DEF UsageInv, ReadBackend, Checking
  <1>2. /\ pc'[q] = "loaded" /\ got'[q] = Backend(Check(q).key) /\ db' = db
        /\ caller'[q] = caller[q] /\ now'[q] = now[q] /\ step'[q] = step[q]
        /\ exhausted'[q] = exhausted[q]
    BY Zenon, <1>1 DEF ReadBackend, Types, Locals
  <1> SUFFICES ASSUME exhausted[q] PROVE \E i \in Nat : DoomedAt(q, i)'
    BY Zenon, <1>2 DEF Refused
  <1>3. PICK i \in Nat : DoomedAt(q, i)
    BY Zenon, <1>1 DEF Refused
  <1> DEFINE checks == ChecksOf[caller[q]][now[q]]
             c == checks[i]
  <1>4. /\ i \in step[q]..Len(checks) /\ c.key \in Keys /\ c.budget \in Nat
        /\ c.budget <= CostOf(db, Settled[c.key])
    BY Zenon, <1>3 DEF DoomedAt
  <1>5. PICK k \in Keys : k = c.key
    BY Zenon, <1>4
  <1>6. PICK total \in [Ids -> Nat] : total = Backend(k)
    <2>1. Backend(k) \in [Ids -> Nat]
      BY Zenon DEF Backend
    <2> QED
      BY Zenon, <2>1
  <1>7. ASSUME NEW n \in DOMAIN db, Returned(n), k \in RangeOf(KeysOf(db[n])) PROVE total[n] >= 1
    <2>1. /\ n \in Ids /\ db[n].who \in Callers /\ db[n].day \in Days
          /\ KeysOf(db[n]) = KeysFor(db[n].who, db[n].day)
      BY Zenon, DatabaseFacts
    <2>2. k[1] \in RangeOf(QuotaCounters(db[n].who)) /\ k[2] <= db[n].day
      BY Zenon, <1>7, <2>1, KeysFacts
    <2>3. k[2] \in Nat /\ db[n].day \in Nat
      <3>1. k[2] \in Days
        BY Zenon DEF Keys
      <3> QED
        BY <3>1, <2>1, BoundsAssumption DEF Days
    <2>4. Feeds(db[n], k)
      <3>1. db[n].day >= k[2]
        BY Zenon, <2>2, <2>3
      <3> QED
        BY Zenon, <3>1, <2>2 DEF Feeds
    <2>5. total[n] = 1
      BY Zenon, <1>6, <2>1, <2>4 DEF Backend
    <2> QED
      BY <2>5
  <1>8. /\ CostOf(db, Settled[k]) \in Nat /\ CostOf(db, total) \in Nat
        /\ CostOf(db, Settled[k]) <= CostOf(db, total)
    BY Zenon, <1>7, SettledCost
  <1>9. c.budget <= CostOf(db, total)
    BY Zenon, <1>4, <1>5, <1>8, AtMost
  <1>10. CostOf(db', Settled'[k]) \in Nat /\ CostOf(db, Settled[k]) <= CostOf(db', Settled'[k])
    BY Zenon, GrownCost, NothingCounted
  <1>11. c.budget <= CostOf(db', Settled'[k])
    BY Zenon, <1>4, <1>5, <1>8, <1>10, AtMost
  <1>12. ChecksOf'[caller'[q]][now'[q]] = checks
    <2>1. ChecksOf' = ChecksOf
      BY Zenon DEF ChecksOf
    <2> QED
      BY Zenon, <2>1, <1>2
  <1>13. i = step[q] => got'[q] = total
    BY Zenon, <1>2, <1>5, <1>6 DEF Check
  <1> HIDE DEF checks
  <1>14. DoomedAt(q, i)'
    BY Zenon, <1>2, <1>4, <1>5, <1>9, <1>11, <1>12, <1>13 DEF DoomedAt
  <1> QED
    BY Zenon, <1>14

(* A step of q leaves the other requests alone.                               *)
LEMMA OthersAlone ==
    ASSUME Locals, NEW q \in Requests, Request(q), NEW r \in Requests \ {q}
    PROVE  /\ pc'[r] = pc[r] /\ caller'[r] = caller[r] /\ now'[r] = now[r] /\ step'[r] = step[r]
           /\ got'[r] = got[r] /\ id'[r] = id[r] /\ exhausted'[r] = exhausted[r]
  <1> DEFINE Alone == /\ pc'[r] = pc[r] /\ caller'[r] = caller[r] /\ now'[r] = now[r]
                      /\ step'[r] = step[r] /\ got'[r] = got[r] /\ id'[r] = id[r]
                      /\ exhausted'[r] = exhausted[r]
  <1>1. ASSUME Idle(q) PROVE Alone
    BY Zenon, <1>1 DEF Idle, Locals
  <1>2. ASSUME NEW total, Compare(q, total) PROVE Alone
    <2> SUFFICES ASSUME ~Idle(q) PROVE Alone
      BY Zenon, <1>1
    <2> DEFINE to == IF step[q] = Len(ChecksOf[caller[q]][now[q]]) THEN "upstream" ELSE "check"
    <2>1. /\ pc' = [pc EXCEPT ![q] = to] /\ step' = [step EXCEPT ![q] = @ + 1]
          /\ got' = [got EXCEPT ![q] = Nothing] /\ UNCHANGED <<caller, now, id, exhausted>>
      BY ZenonT(30), <1>2 DEF Compare
    <2> HIDE DEF to
    <2> QED
      BY Zenon, <2>1 DEF Locals
  <1>3. ASSUME NEW who \in Callers, Begin(q, who) PROVE Alone
    <2> DEFINE to == IF ChecksOf[who][day] = <<>> THEN "upstream" ELSE "check"
    <2>1. /\ pc' = [pc EXCEPT ![q] = to] /\ caller' = [caller EXCEPT ![q] = who]
          /\ now' = [now EXCEPT ![q] = day] /\ step' = [step EXCEPT ![q] = 1]
          /\ exhausted' = [exhausted EXCEPT ![q] = Exhausted(who)] /\ UNCHANGED <<got, id>>
      BY ZenonT(30), <1>3 DEF Begin
    <2> HIDE DEF to
    <2> QED
      BY Zenon, <2>1 DEF Locals
  <1>4. ASSUME Hit(q) \/ finishLoad(q) \/ LoadFails(q) \/ Unrecorded(q) PROVE Alone
    BY Zenon, <1>1, <1>2, <1>4 DEF Hit, finishLoad, LoadFails, Unrecorded
  <1>5. ASSUME Miss(q) \/ beginLoad(q) \/ Respond(q) PROVE Alone
    <2>1. /\ UNCHANGED <<caller, now, step, got, id, exhausted>>
          /\ \E to \in {"missed", "loading", "responded"} : pc' = [pc EXCEPT ![q] = to]
      BY ZenonT(30), <1>5 DEF Miss, beginLoad, Respond, request
    <2> QED
      BY Zenon, <2>1 DEF Locals
  <1>6. ASSUME ReadBackend(q) PROVE Alone
    <2>1. /\ UNCHANGED <<caller, now, step, id, exhausted>> /\ pc' = [pc EXCEPT ![q] = "loaded"]
          /\ got' = [got EXCEPT ![q] = Backend(Check(q).key)]
      BY Zenon, <1>6 DEF ReadBackend
    <2> QED
      BY Zenon, <2>1 DEF Locals
  <1>7. ASSUME Persist(q) PROVE Alone
    <2>1. /\ UNCHANGED <<caller, now, step, got, exhausted>> /\ pc' = [pc EXCEPT ![q] = "recording"]
          /\ id' = [id EXCEPT ![q] = Len(db) + 1]
      BY Zenon, <1>7 DEF Persist
    <2> QED
      BY Zenon, <2>1 DEF Locals
  <1>8. ASSUME applyRecordedCost(q) PROVE Alone
    <2>1. Idle(q) \/ UNCHANGED <<pc, caller, now, step, got, id, exhausted>>
      BY Zenon, <1>8 DEF applyRecordedCost
    <2> QED
      BY Zenon, <1>1, <2>1
  <1> QED
    BY ZenonT(30), <1>3, <1>4, <1>5, <1>6, <1>7, <1>8 DEF Request

(* Records are only added, by a request that has still to return or by        *)
(* another replica.                                                           *)
LEMMA NextGrown == ASSUME UsageInv, CountInv, [Next]_vars PROVE Grown
  <1>1. Locals /\ db \in Seq(Record)
    BY Zenon DEF UsageInv, Types, Shared
  <1>2. ASSUME db' = db \/ \E record : db' = Append(db, record)
        PROVE  Len(db) <= Len(db') /\ \A n \in DOMAIN db : db'[n] = db[n]
    BY <1>1, <1>2
  <1>3. ASSUME NEW q \in Requests, Request(q), ~Persist(q), ~applyRecordedCost(q) PROVE Grown
    <2>1. db' = db
      BY ZenonT(30), <1>3 DEF Request, Begin, Hit, Miss, beginLoad, ReadBackend, finishLoad,
            LoadFails, Respond, Unrecorded
    <2>2. Steady
      BY Zenon, <1>3, OthersSteady
    <2> QED
      BY Zenon, <2>1, <2>2, <1>2 DEF Steady, Grown
  <1>4. ASSUME NEW q \in Requests, Persist(q) PROVE Grown
    <2>1. id'[q] = Len(db) + 1 /\ \E record : db' = Append(db, record)
      BY Zenon, <1>1, <1>4 DEF Persist, Locals
    <2>2. id'[q] \notin DOMAIN db
      BY <2>1, <1>1
    <2>3. \A r \in Requests \ {q} : pc'[r] = pc[r] /\ id'[r] = id[r]
      BY Zenon, <1>1, <1>4, OthersAlone DEF Request
    <2> QED
      BY Zenon, <2>1, <2>2, <2>3, <1>2 DEF Grown
  <1>5. ASSUME NEW q \in Requests, applyRecordedCost(q) PROVE Grown
    <2>1. db' = db /\ (Idle(q) \/ UNCHANGED <<pc, id>>)
      BY Zenon, <1>5 DEF applyRecordedCost
    <2>2. pc'[q] = "recording" => pc[q] = "recording" /\ id'[q] = id[q]
      BY Zenon, <2>1, <1>1 DEF Idle, Locals
    <2>3. \A r \in Requests \ {q} : pc'[r] = pc[r] /\ id'[r] = id[r]
      BY Zenon, <1>1, <1>5, OthersAlone DEF Request
    <2> QED
      BY Zenon, <2>1, <2>2, <2>3, <1>2 DEF Grown
  <1>6. ASSUME \/ \E who \in Elsewhere, cost \in Costs : RecordElsewhere(who, cost)
               \/ (\E key \in Keys : Expire(key)) \/ NextDay \/ UNCHANGED vars
        PROVE  Grown
    <2>1. UNCHANGED <<pc, id>>
      BY Zenon, <1>6 DEF RecordElsewhere, Expire, NextDay, request, vars
    <2>2. db' = db \/ \E record : db' = Append(db, record)
      BY ZenonT(30), <1>6 DEF RecordElsewhere, Expire, NextDay, vars
    <2> QED
      BY Zenon, <2>1, <2>2, <1>2 DEF Grown
  <1> QED
    BY ZenonT(30), <1>3, <1>4, <1>5, <1>6 DEF Next

(* A step of q: it is refused, or does not come nearer to going upstream.     *)
LEMMA RequestRefused ==
    ASSUME UsageInv, UsageInv', Grown, NEW q \in Requests, Refused(q), Request(q)
    PROVE  Refused(q)'
  <1>1. Locals
    BY Zenon DEF UsageInv, Types
  <1>2. ASSUME Idle(q) PROVE Refused(q)'
    BY Zenon, <1>1, <1>2 DEF Idle, Locals, Refused
  <1>3. ASSUME Miss(q) \/ beginLoad(q) PROVE Refused(q)'
    <2>1. /\ UNCHANGED <<caller, now, step, got, exhausted>>
          /\ \/ pc[q] = "check" /\ pc' = [pc EXCEPT ![q] = "missed"]
             \/ pc[q] = "missed" /\ pc' = [pc EXCEPT ![q] = "loading"]
      BY ZenonT(30), <1>3 DEF Miss, beginLoad, request
    <2>2. (pc[q] = "check" /\ pc'[q] = "missed") \/ (pc[q] = "missed" /\ pc'[q] = "loading")
      BY Zenon, <2>1, <1>1 DEF Locals
    <2> QED
      BY Zenon, <2>1, <2>2, RefusedKept
  <1>4. ASSUME Respond(q) \/ Persist(q) \/ applyRecordedCost(q) PROVE Refused(q)'
    <2>1. ~exhausted[q]
      BY Zenon, <1>4 DEF Refused, Respond, Persist, applyRecordedCost
    <2>2. Idle(q) \/ exhausted' = exhausted
      BY ZenonT(30), <1>4 DEF Respond, Persist, applyRecordedCost
    <2> QED
      BY Zenon, <2>1, <2>2, <1>2 DEF Refused
  <1>5. ASSUME LoadFails(q) \/ Unrecorded(q) PROVE Refused(q)'
    BY Zenon, <1>2, <1>5 DEF LoadFails, Unrecorded
  <1> QED
    BY Zenon, <1>3, <1>4, <1>5, BeginRefused, HitRefused, finishLoadRefused, ReadBackendRefused
       DEF Request

(* Every step keeps the refusals to come.                                     *)
LEMMA RefusedStep ==
    UsageInv /\ UsageInv' /\ CountInv /\ (\A q \in Requests : Refused(q)) /\ [Next]_vars
    => (\A q \in Requests : Refused(q))'
  <1> SUFFICES ASSUME UsageInv, UsageInv', CountInv, \A q \in Requests : Refused(q), [Next]_vars,
                      NEW r \in Requests
               PROVE  Refused(r)'
    BY Zenon
  <1>1. Grown /\ Locals
    BY Zenon, NextGrown DEF UsageInv, Types
  <1>2. ASSUME NEW q \in Requests, Request(q) PROVE Refused(r)'
    <2>1. CASE r = q
      BY Zenon, <1>1, <1>2, <2>1, RequestRefused
    <2>2. CASE r # q
      BY Zenon, <1>1, <1>2, <2>2, OthersAlone, RefusedKept
    <2> QED
      BY Zenon, <2>1, <2>2
  <1>3. ASSUME \/ \E who \in Elsewhere, cost \in Costs : RecordElsewhere(who, cost)
               \/ (\E key \in Keys : Expire(key)) \/ NextDay \/ UNCHANGED vars
        PROVE  Refused(r)'
    <2>1. UNCHANGED <<pc, caller, now, step, got, exhausted>>
      BY Zenon, <1>3 DEF RecordElsewhere, Expire, NextDay, request, vars
    <2> QED
      BY Zenon, <2>1, <1>1, RefusedKept
  <1> QED
    BY ZenonT(30), <1>2, <1>3 DEF Next

(* A request whose checks begin once the records this replica has finished    *)
(* spend a budget on its path is refused: among its checks is one against at  *)
(* most that budget, and every total that check can read - cached, or loaded  *)
(* while records land - is worth at least what those records cost.            *)
THEOREM SpentIsRefused == Spec => []RefusedOnceSpent
  <1>1. Init => \A q \in Requests : Refused(q)
    BY Zenon DEF Init, Refused
  <1>2. (\A q \in Requests : Refused(q)) => RefusedOnceSpent
    BY Zenon DEF Refused, RefusedOnceSpent
  <1> QED
    BY InitInv, UsageInvStep, CountInit, CountStep, RefusedStep, <1>1, <1>2, PTL DEF Spec

=============================================================================
