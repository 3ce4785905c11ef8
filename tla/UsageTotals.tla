----------------------------- MODULE UsageTotals -----------------------------
(***************************************************************************)
(* Monetary budgets on the proxy path of one replica: the budget checks of *)
(* XoloQuotaEnforcer, the usage records of XoloUsageTracker, and between   *)
(* them the cache of budget totals (cache.UsageStore over a MemoryCache).  *)
(*                                                                         *)
(* A request reads, for every budget on its path, the total spent in the   *)
(* current day, month or year; it is refused when a total has reached its  *)
(* budget.  When the answer arrives its cost is recorded, and added to the *)
(* totals that happen to be cached.  Records of other replicas only reach  *)
(* the database.                                                           *)
(*                                                                         *)
(* A total is a sum of costs.  It is represented by what it sums: how many *)
(* times each record of the database is counted in it.  The requests here  *)
(* are those the budgets apply to (a model with a price, billed per use).  *)
(***************************************************************************)
EXTENDS Naturals, Sequences, FiniteSets

CONSTANTS
    Requests,       \* request slots of this replica
    Callers,        \* who makes requests: application, user and team
    Elsewhere,      \* those whose requests other replicas also serve
    None,           \* no application, no team
    Quotas,         \* the quotas on file: scope -> period -> budget
    Unlimited,      \* a nil budget
    OrgShare,       \* org.ShareQuotaEqually
    OrgMembers,     \* number of members of the organization
    TeamShare,      \* team.ShareQuotaEqually
    TeamMembers,    \* number of active members of the team
    DaysPerMonth,
    DaysPerYear,
    Costs,          \* bound of the exploration: costs of a record
    MaxRecords,     \* bound of the exploration: usage records
    MaxDay,         \* bound of the exploration: days
    NoRecord        \* a request that has not made its record

Periods == <<"day", "month", "year">>
Ids     == 1..MaxRecords
Days    == 0..MaxDay

ASSUME CalendarAssumption == /\ DaysPerMonth \in Nat \ {0} /\ DaysPerYear \in Nat \ {0}
                             /\ DaysPerYear % DaysPerMonth = 0
ASSUME QuotasAssumption   ==
    \A scope \in DOMAIN Quotas :
        Quotas[scope] \in [{"day", "month", "year"} -> Nat \cup {Unlimited}]
ASSUME RequestsAssumption == IsFiniteSet(Requests) /\ Elsewhere \subseteq Callers
ASSUME BoundsAssumption   == MaxRecords \in Nat /\ MaxDay \in Nat /\ Costs \subseteq Nat \ {0}

VARIABLES
    day,        \* today
    db,         \* usage records written, in order
    cached,     \* keys the cache holds
    counted,    \* how often a cached total counts each record
    loading,    \* UsageStore.loading
    pc,         \* where each request is
    caller,     \* who makes it
    now,        \* the day its checks are made for
    step,       \* the check it is making
    got,        \* the total it read from the backend
    rec,        \* the record it makes
    id,         \* the place of that record in db
    left,       \* cached totals it still has to increment
    exhausted   \* history: a budget on its path was spent when its checks began

vars == <<day, db, cached, counted, loading, pc, caller, now, step, got, rec, id, left,
          exhausted>>

request == <<caller, now, step, got, rec, id, left, exhausted>>

-----------------------------------------------------------------------------
(* Counters and budget windows. *)

StartOf(period, d) ==
    CASE period = "day"   -> d
      [] period = "month" -> d - (d % DaysPerMonth)
      [] period = "year"  -> d - (d % DaysPerYear)

(* The principal of a request: its application, else its user. *)
Principal(who) == IF who.app # None THEN <<"application", who.app>> ELSE <<"user", who.user>>

QuotaCounters(who) ==
    <<<<"org">>, Principal(who)>> \o
    (IF who.team = None THEN <<>>
     ELSE <<<<"team", who.team>>>> \o
          (IF who.app # None THEN <<>> ELSE <<<<"team_member", who.team, who.user>>>>))

RangeOf(s) == {s[i] : i \in DOMAIN s}

(* Mutant: a window is listed once per name it goes by. *)
StartsAll(d) == [i \in 1..3 |-> StartOf(Periods[i], d)]

(* The starts of the day, month and year of d, each once: on the first of a   *)
(* month two of these windows are one entry.                                  *)
Starts(d) ==
    LET start == [i \in 1..3 |-> StartOf(Periods[i], d)]
    IN  <<start[1]>> \o (IF start[2] = start[1] THEN <<>> ELSE <<start[2]>>)
                     \o (IF start[3] = start[2] THEN <<>> ELSE <<start[3]>>)

KeysFor(who, d) ==
    LET starts   == Starts(d)
        counters == QuotaCounters(who)
        m        == Len(counters)
    IN  [i \in 1..(Len(starts) * m) |->
            <<counters[1 + ((i - 1) % m)],
              starts[1 + ((i - 1) \div m)]>>]

(* The cached totals of a record made by who on day d. *)
quotaSumCacheKeysFor == [who \in Callers |-> [d \in Days |-> KeysFor(who, d)]]
KeysOf(record) == quotaSumCacheKeysFor[record.who][record.day]

Scopes == UNION {RangeOf(QuotaCounters(who)) : who \in Callers}
Keys   == Scopes \X Days

-----------------------------------------------------------------------------
(* Budgets (QuotaService) and the checks of a request (PreRequest). *)

minPtrSvc(a, b) == IF a = Unlimited THEN b ELSE IF b = Unlimited THEN a
                   ELSE IF a < b THEN a ELSE b
divPtr(v, n)    == IF v = Unlimited THEN Unlimited ELSE v \div n
GetQuota(scope) == IF scope \in DOMAIN Quotas THEN Quotas[scope]
                   ELSE [p \in RangeOf(Periods) |-> Unlimited]
hasBudget(q)    == \E p \in RangeOf(Periods) : q[p] # Unlimited

Stricter(a, b) == [p \in RangeOf(Periods) |-> minPtrSvc(a[p], b[p])]

(* What the counter of a user is checked against: the stricter of its budget  *)
(* and the organization's, or its share of the latter.                        *)
ResolveEffectiveQuota(user) ==
    LET own == GetQuota(<<"user", user>>)
        org == GetQuota(<<"org">>)
    IN  IF ~hasBudget(own) /\ OrgShare
        THEN [p \in RangeOf(Periods) |->
                  IF OrgMembers > 0 THEN divPtr(org[p], OrgMembers) ELSE Unlimited]
        ELSE Stricter(own, org)

ResolveEffectiveQuotaForApplication(app) ==
    Stricter(GetQuota(<<"application", app>>), GetQuota(<<"org">>))

(* The member budget of a team: the member's own, else its share. *)
ResolveMemberQuota(who) ==
    LET member == <<"team_member", who.team, who.user>>
        team   == GetQuota(<<"team", who.team>>)
    IN  IF member \in DOMAIN Quotas THEN Quotas[member]
        ELSE [p \in RangeOf(Periods) |->
                  IF TeamShare /\ TeamMembers > 0 THEN divPtr(team[p], TeamMembers)
                  ELSE Unlimited]

checkScope(scope, quota, d) ==
    LET check(i) == IF quota[Periods[i]] = Unlimited THEN <<>>
                    ELSE <<[key    |-> <<scope, StartOf(Periods[i], d)>>,
                            budget |-> quota[Periods[i]]]>>
    IN  check(1) \o check(2) \o check(3)

checkOrgWide(d) == checkScope(<<"org">>, GetQuota(<<"org">>), d)

(* The totals a request compares with budgets, in this order. *)
Checks(who, d) ==
    checkScope(Principal(who),
               IF who.app # None THEN ResolveEffectiveQuotaForApplication(who.app)
               ELSE ResolveEffectiveQuota(who.user), d) \o
    checkOrgWide(d) \o
    (IF who.team = None THEN <<>>
     ELSE checkScope(<<"team", who.team>>, GetQuota(<<"team", who.team>>), d) \o
          (IF who.app # None THEN <<>>
           ELSE checkScope(<<"team_member", who.team, who.user>>, ResolveMemberQuota(who), d)))

ChecksOf == [who \in Callers |-> [d \in Days |-> Checks(who, d)]]
Check(q) == ChecksOf[caller[q]][now[q]][step[q]]

(* The sum a total stands for. *)
Amount(total) ==
    LET upto[n \in 0..MaxRecords] ==
            IF n = 0 THEN 0
            ELSE upto[n - 1] + (IF n <= Len(db) THEN total[n] * db[n].cost ELSE 0)
    IN  upto[MaxRecords]

Nothing == [n \in Ids |-> 0]
NoLoad  == [readers |-> 0, stale |-> FALSE]

-----------------------------------------------------------------------------
(* The database: counters are written with the record, in its transaction. *)

(* SumQuotaCostSince of the gorm store. *)
Feeds(record, key) == key[1] \in RangeOf(QuotaCounters(record.who)) /\ record.day >= key[2]
Backend(key) == [n \in Ids |-> IF n \in DOMAIN db /\ Feeds(db[n], key) THEN 1 ELSE 0]

(* What RecordUsage has returned for: written and added to the cached totals. *)
Returned(n) == db[n].local /\ \A q \in Requests : pc[q] = "recording" => id[q] # n

(* A budget on the path of who is spent by the records this replica has       *)
(* finished in the current window.                                            *)
Spent(scope, p) ==
    Amount([n \in Ids |-> IF /\ n \in DOMAIN db /\ Returned(n)
                             /\ scope \in RangeOf(QuotaCounters(db[n].who))
                             /\ StartOf(p, db[n].day) = StartOf(p, day)
                          THEN 1 ELSE 0])
Exhausted(who) ==
    \E scope \in RangeOf(QuotaCounters(who)), p \in RangeOf(Periods) :
        GetQuota(scope)[p] # Unlimited /\ Spent(scope, p) >= GetQuota(scope)[p]

-----------------------------------------------------------------------------
(* The memory cache. *)

SetInt64(key, total) ==
    /\ cached' = cached \cup {key}
    /\ counted' = [counted EXCEPT ![key] = total]

(* Adds the cost of record n, if there is a total to add it to. *)
AddInt64(key, n) ==
    /\ counted' = IF key \in cached THEN [counted EXCEPT ![key][n] = @ + 1] ELSE counted
    /\ UNCHANGED cached

(* An entry reaches its deadline, or the LRU evicts it. *)
Expire(key) ==
    /\ key \in cached
    /\ cached' = cached \ {key}
    /\ counted' = [counted EXCEPT ![key] = Nothing]
    /\ UNCHANGED <<day, db, loading, pc, request>>

-----------------------------------------------------------------------------
(* A request. *)

Idle(q) ==
    /\ pc' = [pc EXCEPT ![q] = "idle"]
    /\ caller' = [caller EXCEPT ![q] = None]
    /\ now' = [now EXCEPT ![q] = 0]
    /\ step' = [step EXCEPT ![q] = 0]
    /\ got' = [got EXCEPT ![q] = Nothing]
    /\ rec' = [rec EXCEPT ![q] = NoRecord]
    /\ id' = [id EXCEPT ![q] = 0]
    /\ left' = [left EXCEPT ![q] = <<>>]
    /\ exhausted' = [exhausted EXCEPT ![q] = FALSE]

(* PreRequest resolves the budgets and takes the time of the checks. *)
Begin(q, who) ==
    /\ pc[q] = "idle"
    /\ pc' = [pc EXCEPT ![q] = IF ChecksOf[who][day] = <<>> THEN "upstream" ELSE "check"]
    /\ caller' = [caller EXCEPT ![q] = who]
    /\ now' = [now EXCEPT ![q] = day]
    /\ step' = [step EXCEPT ![q] = 1]
    /\ exhausted' = [exhausted EXCEPT ![q] = Exhausted(who)]
    /\ UNCHANGED <<day, db, cached, counted, loading, got, rec, id, left>>

(* Mutant: a budget that is just spent lets requests through. *)
Exceeded(spent, budget) == spent > budget

Reached(spent, budget) == spent >= budget

(* A budget that is reached refuses the request; after the last check it goes *)
(* upstream.                                                                  *)
Compare(q, total) ==
    IF Reached(Amount(total), Check(q).budget)
    THEN Idle(q)
    ELSE /\ pc' = [pc EXCEPT ![q] =
                      IF step[q] = Len(ChecksOf[caller[q]][now[q]]) THEN "upstream" ELSE "check"]
         /\ step' = [step EXCEPT ![q] = @ + 1]
         /\ got' = [got EXCEPT ![q] = Nothing]
         /\ UNCHANGED <<caller, now, rec, id, left, exhausted>>

(* SumQuotaCostSince of the cache: a hit ... *)
Hit(q) ==
    /\ pc[q] = "check" /\ Check(q).key \in cached
    /\ Compare(q, counted[Check(q).key])
    /\ UNCHANGED <<day, db, cached, counted, loading>>

(* ... or a miss ... *)
Miss(q) ==
    /\ pc[q] = "check" /\ Check(q).key \notin cached
    /\ pc' = [pc EXCEPT ![q] = "missed"]
    /\ UNCHANGED <<day, db, cached, counted, loading, request>>

beginLoad(q) ==
    /\ pc[q] = "missed"
    /\ loading' = [loading EXCEPT ![Check(q).key].readers = @ + 1]
    /\ pc' = [pc EXCEPT ![q] = "loading"]
    /\ UNCHANGED <<day, db, cached, counted, request>>

ReadBackend(q) ==
    /\ pc[q] = "loading"
    /\ got' = [got EXCEPT ![q] = Backend(Check(q).key)]
    /\ pc' = [pc EXCEPT ![q] = "loaded"]
    /\ UNCHANGED <<day, db, cached, counted, loading, caller, now, step, rec, id, left,
                   exhausted>>

(* Mutant: the entry outlives its readers, and its stale mark with it. *)
LeaveLoadOpen(key) == loading' = [loading EXCEPT ![key].readers = @ - 1]

(* The last reader of a key deletes its entry, the stale mark with it. *)
LeaveLoad(key) ==
    loading' = IF loading[key].readers = 1 THEN [loading EXCEPT ![key] = NoLoad]
               ELSE [loading EXCEPT ![key].readers = @ - 1]

(* Mutant: a total is stored although a record landed while it was read. *)
StoresAny(key) == TRUE

Stores(key) == ~loading[key].stale

finishLoad(q) ==
    LET key == Check(q).key IN
    /\ pc[q] = "loaded"
    /\ LeaveLoad(key)
    /\ IF Stores(key)
       THEN SetInt64(key, got[q])
       ELSE UNCHANGED <<cached, counted>>
    /\ Compare(q, got[q])
    /\ UNCHANGED <<day, db>>

(* The backend read fails: nothing is stored, the request ends in an error. *)
LoadFails(q) ==
    /\ pc[q] = "loading"
    /\ LeaveLoad(Check(q).key)
    /\ Idle(q)
    /\ UNCHANGED <<day, db, cached, counted>>

(* PostResponse of the usage tracker makes the record, dated today ... *)
Respond(q) ==
    /\ pc[q] = "upstream"
    /\ \E cost \in Costs :
           rec' = [rec EXCEPT ![q] = [local |-> TRUE, who |-> caller[q], day |-> day,
                                      cost |-> cost]]
    /\ pc' = [pc EXCEPT ![q] = "responded"]
    /\ UNCHANGED <<day, db, cached, counted, loading, caller, now, step, got, id, left,
                   exhausted>>

(* ... and RecordUsage writes it, with the counters it feeds ... *)
Persist(q) ==
    /\ pc[q] = "responded" /\ Len(db) < MaxRecords
    /\ db' = Append(db, rec[q])
    /\ id' = [id EXCEPT ![q] = Len(db) + 1]
    /\ left' = [left EXCEPT ![q] = KeysOf(rec[q])]
    /\ pc' = [pc EXCEPT ![q] = "recording"]
    /\ UNCHANGED <<day, cached, counted, loading, caller, now, step, got, rec, exhausted>>

(* ... unless the answer has no usage to record, or the write fails. *)
Unrecorded(q) ==
    /\ pc[q] \in {"upstream", "responded"}
    /\ Idle(q)
    /\ UNCHANGED <<day, db, cached, counted, loading>>

(* One cached total after the other: the readers of the key are told, and the *)
(* total is incremented if it is cached.                                      *)
applyRecordedCost(q) ==
    LET key == Head(left[q]) IN
    /\ pc[q] = "recording"
    /\ loading' = [loading EXCEPT ![key].stale = @ \/ loading[key].readers > 0]
    /\ AddInt64(key, id[q])
    /\ IF Len(left[q]) = 1
       THEN Idle(q)
       ELSE /\ left' = [left EXCEPT ![q] = Tail(@)]
            /\ UNCHANGED <<pc, caller, now, step, got, rec, id, exhausted>>
    /\ UNCHANGED <<day, db>>

(* Another replica records a request. *)
RecordElsewhere(who, cost) ==
    /\ Len(db) < MaxRecords
    /\ db' = Append(db, [local |-> FALSE, who |-> who, day |-> day, cost |-> cost])
    /\ UNCHANGED <<day, cached, counted, loading, pc, request>>

NextDay ==
    /\ day < MaxDay
    /\ day' = day + 1
    /\ UNCHANGED <<db, cached, counted, loading, pc, request>>

-----------------------------------------------------------------------------
Init ==
    /\ day = 0 /\ db = <<>>
    /\ cached = {} /\ counted = [key \in Keys |-> Nothing]
    /\ loading = [key \in Keys |-> NoLoad]
    /\ pc = [q \in Requests |-> "idle"]
    /\ caller = [q \in Requests |-> None]
    /\ now = [q \in Requests |-> 0] /\ step = [q \in Requests |-> 0]
    /\ got = [q \in Requests |-> Nothing]
    /\ rec = [q \in Requests |-> NoRecord] /\ id = [q \in Requests |-> 0]
    /\ left = [q \in Requests |-> <<>>]
    /\ exhausted = [q \in Requests |-> FALSE]

Request(q) ==
    \/ \E who \in Callers : Begin(q, who)
    \/ Hit(q) \/ Miss(q) \/ beginLoad(q) \/ ReadBackend(q) \/ finishLoad(q)
    \/ LoadFails(q) \/ Respond(q) \/ Persist(q) \/ Unrecorded(q)
    \/ applyRecordedCost(q)

Next ==
    \/ \E q \in Requests : Request(q)
    \/ \E who \in Elsewhere, cost \in Costs : RecordElsewhere(who, cost)
    \/ \E key \in Keys : Expire(key)
    \/ NextDay

Spec == Init /\ [][Next]_vars

-----------------------------------------------------------------------------
Record == [local : BOOLEAN, who : Callers, day : Days, cost : Costs]

Loads(key) == {q \in Requests : pc[q] \in {"loading", "loaded"} /\ Check(q).key = key}

(* Types of the variables; readers counts the requests between beginLoad and  *)
(* finishLoad, and a key nobody loads carries no stale mark.                  *)
TypeOK ==
    /\ day \in Days /\ db \in Seq(Record) /\ Len(db) <= MaxRecords
    /\ cached \subseteq Keys /\ counted \in [Keys -> [Ids -> Nat]]
    /\ loading \in [Keys -> [readers : Nat, stale : BOOLEAN]]
    /\ pc \in [Requests -> {"idle", "check", "missed", "loading", "loaded", "upstream",
                            "responded", "recording"}]
    /\ caller \in [Requests -> Callers \cup {None}]
    /\ now \in [Requests -> Days] /\ step \in [Requests -> Nat]
    /\ got \in [Requests -> [Ids -> Nat]]
    /\ rec \in [Requests -> Record \cup {NoRecord}] /\ id \in [Requests -> 0..MaxRecords]
    /\ left \in [Requests -> Seq(Keys)]
    /\ exhausted \in [Requests -> BOOLEAN]
    /\ \A key \in Keys : /\ loading[key].readers = Cardinality(Loads(key))
                         /\ loading[key].stale => loading[key].readers > 0

(* No cached total misses a record of this replica: once RecordUsage has      *)
(* passed a key, every total cached under it counts the record, whichever     *)
(* load stored it and however loads and records overlapped.                   *)
NoUndercount ==
    \A key \in cached, n \in DOMAIN db :
        /\ db[n].local /\ key \in RangeOf(KeysOf(db[n]))
        /\ \A q \in Requests : pc[q] = "recording" /\ id[q] = n => key \notin RangeOf(left[q])
        => counted[key][n] >= 1

(* A request whose checks begin once a budget on its path is spent - by the   *)
(* records this replica has finished in the current day, month or year - is   *)
(* never let through: not by a stale total, not by a check that is skipped    *)
(* because a stricter one was merged into it.                                 *)
RefusedOnceSpent ==
    \A q \in Requests : pc[q] \in {"upstream", "responded", "recording"} => ~exhausted[q]

(* No cached total counts a record more than twice.                           *)
CountedAtMostTwice ==
    \A key \in cached, n \in DOMAIN db : counted[key][n] <= 2

(* "whatever the interleaving, the cached total never exceeds what was        *)
(* actually spent": no cached total exceeds the one the database would give.  *)
NeverOvercounts ==
    \A key \in cached : Amount(counted[key]) <= Amount(Backend(key))

=============================================================================
