---------------------------- MODULE PlanAdmission ----------------------------
(***************************************************************************)
(* Admission of requests to a provider billed by subscription, on one      *)
(* replica: XoloSubscriptionEnforcer and its evaluators over the in-memory *)
(* SubscriptionStateDetailed, the client that moves a request from one API *)
(* key of the provider to the next, and the release of what a request      *)
(* holds when it ends.                                                     *)
(*                                                                         *)
(* A request acquires the constraints of the plan in order.  A concurrency *)
(* limit increments shared counters and takes the increment back when it   *)
(* went over; a rolling window compares recorded usage with its budget.    *)
(* With several keys the request then picks the keys that have room.  An   *)
(* upstream 429 puts the key it came from in cooldown.                     *)
(*                                                                         *)
(* One organization and one provider, whose plan and keys do not change.   *)
(* Usage counts requests: the weight of each is data.  The hook runner and *)
(* the upstream provider are external: PostResponse or OnError runs once   *)
(* for a request, in any state it ended in.                                *)
(***************************************************************************)
EXTENDS Integers, Sequences, FiniteSets

CONSTANTS
    Requests,
    Users,
    NoUser,         \* a request without a user
    UserOf,         \* the user of each request
    Models,
    ModelOf,        \* the upstream model each request asks for
    AnyModel,       \* the empty model of a provider-wide cooldown
    Members,        \* members of the organization
    Providers       \* the cases explored: keys, constraints, requests made

(* A constraint is a concurrency limit (max) or a rolling window (budget of   *)
(* one key, counted per model or not).                                        *)
Constraint ==
    [kind : {"concurrency"}, max : Nat \ {0}] \cup
    [kind : {"rolling_window"}, budget : Nat, perModel : BOOLEAN]

ASSUME RequestsAssumption == IsFiniteSet(Requests)
ASSUME UsersAssumption    == UserOf \in [Requests -> Users \cup {NoUser}] /\ NoUser \notin Users
ASSUME ModelsAssumption   == ModelOf \in [Requests -> Models] /\ AnyModel \notin Models
ASSUME MembersAssumption  == Members \in Nat
ASSUME ProvidersAssumption ==
    \A p \in Providers : /\ p.plan \in Seq(Constraint) /\ p.requests \subseteq Requests
                         /\ IsFiniteSet(p.keys) /\ p.primary \in p.keys

AllKeys == UNION {p.keys : p \in Providers}
Indices == UNION {DOMAIN p.plan : p \in Providers}

VARIABLES
    provider,       \* the provider: its plan and its keys
    inFlight,       \* SubscriptionStateDetailed.inFlight
    userInFlight,   \* SubscriptionStateDetailed.userInFlight
    exhausted,      \* exhaustedUntil: the cooldowns that have not ended
    used,           \* requests on record in the current window, with their key
    pc,             \* where each request is
    at,             \* the constraint it is at, then the client it is at
    members,        \* scope.MemberCount
    held,           \* increments it has to give back
    closed,         \* keys found without room
    clients,        \* the keys its client goes through
    refusals        \* keys that refused it: their plan is exhausted upstream

vars == <<provider, inFlight, userInFlight, exhausted, used, pc, at, members, held, closed,
          clients, refusals>>

Plan   == provider.plan
Keys   == provider.keys
Pooled == Cardinality(Keys) > 1

PerModel(c) == c.kind = "rolling_window" /\ c.perModel
HasPerModelConstraint == \E i \in DOMAIN Plan : PerModel(Plan[i])

(* The empty key is the provider's own. *)
UsedKey(r) == clients[r][at[r]]

Init ==
    /\ provider \in Providers
    /\ inFlight = 0
    /\ userInFlight = [u \in Users |-> 0]
    /\ exhausted = {}
    /\ used = {}
    /\ pc = [r \in Requests |-> IF r \in provider.requests THEN "arriving" ELSE "done"]
    /\ at = [r \in Requests |-> 1]
    /\ members = [r \in Requests |-> 0]
    /\ held = [r \in Requests |-> {}]
    /\ closed = [r \in Requests |-> {}]
    /\ clients = [r \in Requests |-> <<>>]
    /\ refusals = [r \in Requests |-> {}]

Goto(r, label) == pc' = [pc EXCEPT ![r] = label]

(* The request is answered.  What it carried goes with it. *)
Leave(r) ==
    /\ Goto(r, "done")
    /\ at' = [at EXCEPT ![r] = 1]
    /\ members' = [members EXCEPT ![r] = 0]
    /\ closed' = [closed EXCEPT ![r] = {}]
    /\ clients' = [clients EXCEPT ![r] = <<>>]
    /\ refusals' = [refusals EXCEPT ![r] = {}]

shared == <<inFlight, userInFlight, exhausted, used>>

-----------------------------------------------------------------------------
(* PreRequest: cooldowns of a single key. *)

cooldownModel(c, r) == IF PerModel(c) THEN ModelOf[r] ELSE AnyModel

IsKeyExhausted(key, i, r) == <<key, i, cooldownModel(Plan[i], r)>> \in exhausted

(* The member count is left at 0 when there is no user, or when listing the   *)
(* members fails.                                                             *)
PreRequest(r) ==
    /\ pc[r] = "arriving"
    /\ IF ~Pooled /\ \E i \in DOMAIN Plan : IsKeyExhausted(provider.primary, i, r)
       THEN Leave(r)
       ELSE /\ \E n \in IF UserOf[r] = NoUser THEN {0} ELSE {0, Members} :
                   members' = [members EXCEPT ![r] = n]
            /\ Goto(r, "acquiring")
            /\ UNCHANGED <<at, closed, clients, refusals>>
    /\ UNCHANGED <<provider, shared, held>>

-----------------------------------------------------------------------------
(* Acquire: one constraint after another. *)

Current(r) == Plan[at[r]]
Acquiring(r, kind) == /\ pc[r] = "acquiring" /\ at[r] \in DOMAIN Plan
                      /\ Current(r).kind = kind

(* The request goes on to the next constraint.  What it holds is kept. *)
Granted(r) == at' = [at EXCEPT ![r] = @ + 1] /\ Goto(r, "acquiring")

(* A denial or an error: the request gives back what it holds and leaves. *)
Refuse(r) == Goto(r, "refused")

(* Usage on record on some keys, of the model of r alone when the window is   *)
(* counted per model.                                                         *)
Usage(keys, c, r) ==
    Cardinality({u \in used : u[2] \in keys /\ (c.perModel => ModelOf[u[1]] = ModelOf[r])})

(* The pool holds the budget of every key.  The user's share of the window    *)
(* and the failure of a read refuse the request too: they are a choice here.  *)
AcquireWindow(r) ==
    /\ Acquiring(r, "rolling_window")
    /\ \/ Usage(Keys, Current(r), r) < Current(r).budget * Cardinality(Keys) /\ Granted(r)
       \/ Refuse(r) /\ UNCHANGED at
    /\ UNCHANGED <<provider, shared, members, held, closed, clients, refusals>>

MaxConcurrent(i) == Plan[i].max * Cardinality(Keys)

Larger(a, b) == IF a < b THEN b ELSE a
FairShare(i, n) == Larger(MaxConcurrent(i) \div n, 1)

Shares(r) == UserOf[r] # NoUser /\ members[r] > 0

Org(i)  == <<i, "org">>
User(i) == <<i, "user">>

(* Mutant: a request over the limit is refused without its increment. *)
IncrementInFlightLost(r) ==
    /\ Acquiring(r, "concurrency")
    /\ inFlight' = inFlight + 1
    /\ IF inFlight + 1 > MaxConcurrent(at[r])
       THEN Refuse(r) /\ UNCHANGED <<at, held>>
       ELSE /\ held' = [held EXCEPT ![r] = @ \cup {Org(at[r])}]
            /\ IF Shares(r) THEN Goto(r, "sharing") /\ UNCHANGED at ELSE Granted(r)
    /\ UNCHANGED <<provider, userInFlight, exhausted, used, members, closed, clients, refusals>>

(* Mutant: the limit is off by one. *)
IncrementInFlightLate(r) ==
    /\ Acquiring(r, "concurrency")
    /\ inFlight' = inFlight + 1
    /\ held' = [held EXCEPT ![r] = @ \cup {Org(at[r])}]
    /\ IF inFlight > MaxConcurrent(at[r])
       THEN Refuse(r) /\ UNCHANGED at
       ELSE IF Shares(r) THEN Goto(r, "sharing") /\ UNCHANGED at ELSE Granted(r)
    /\ UNCHANGED <<provider, userInFlight, exhausted, used, members, closed, clients, refusals>>

(* Increment, then look at the value returned. *)
IncrementInFlight(r) ==
    /\ Acquiring(r, "concurrency")
    /\ inFlight' = inFlight + 1
    /\ held' = [held EXCEPT ![r] = @ \cup {Org(at[r])}]
    /\ IF inFlight + 1 > MaxConcurrent(at[r])
       THEN Refuse(r) /\ UNCHANGED at
       ELSE IF Shares(r) THEN Goto(r, "sharing") /\ UNCHANGED at ELSE Granted(r)
    /\ UNCHANGED <<provider, userInFlight, exhausted, used, members, closed, clients, refusals>>

IncrementUserInFlight(r) ==
    LET u == UserOf[r]
    IN  /\ pc[r] = "sharing"
        /\ userInFlight' = [userInFlight EXCEPT ![u] = @ + 1]
        /\ held' = [held EXCEPT ![r] = @ \cup {User(at[r])}]
        /\ IF userInFlight[u] + 1 > FairShare(at[r], members[r])
           THEN Refuse(r) /\ UNCHANGED at
           ELSE Granted(r)
        /\ UNCHANGED <<provider, inFlight, exhausted, used, members, closed, clients, refusals>>

(* The counters never go below zero. *)
Less(n) == IF n > 0 THEN n - 1 ELSE 0

(* Mutant: what was released stays on the request. *)
ReleaseKept(r, h) ==
    /\ UNCHANGED held
    /\ inFlight' = IF h[2] = "org" THEN Less(inFlight) ELSE inFlight
    /\ userInFlight' = IF h[2] = "user" THEN [userInFlight EXCEPT ![UserOf[r]] = Less(@)]
                       ELSE userInFlight

Release(r, h) ==
    /\ held' = [held EXCEPT ![r] = @ \ {h}]
    /\ inFlight' = IF h[2] = "org" THEN Less(inFlight) ELSE inFlight
    /\ userInFlight' = IF h[2] = "user" THEN [userInFlight EXCEPT ![UserOf[r]] = Less(@)]
                       ELSE userInFlight

(* releaseAll, one decrement at a time.  The order of the decrements of one   *)
(* request is not kept.                                                       *)
releaseAll(r) ==
    /\ pc[r] \in {"refused", "served", "failed", "turned away", "cut"}
    /\ \E h \in held[r] : Release(r, h)
    /\ UNCHANGED <<provider, exhausted, used, pc, at, members, closed, clients, refusals>>

(* A refused request is answered with the gateway's own 429, which marks      *)
(* nothing.                                                                   *)
Refused(r) ==
    /\ pc[r] = "refused" /\ held[r] = {}
    /\ Leave(r)
    /\ UNCHANGED <<provider, shared, held>>

-----------------------------------------------------------------------------
(* pickKey and the router. *)

Acquired(r) == pc[r] = "acquiring" /\ at[r] \notin DOMAIN Plan

StartPicking(r) ==
    /\ Acquired(r)
    /\ IF Pooled
       THEN Goto(r, "picking") /\ at' = [at EXCEPT ![r] = 1] /\ UNCHANGED clients
       ELSE /\ Goto(r, "routing") /\ clients' = [clients EXCEPT ![r] = <<provider.primary>>]
            /\ at' = [at EXCEPT ![r] = 1]
    /\ UNCHANGED <<provider, shared, members, held, closed, refusals>>

OverBudget(key, c, r) == c.kind = "rolling_window" /\ Usage({key}, c, r) >= c.budget

(* One constraint of the keys' own plans, for every key not yet closed. *)
keyStates(r) ==
    /\ pc[r] = "picking" /\ at[r] \in DOMAIN Plan
    /\ \/ /\ closed' = [closed EXCEPT ![r] = @ \cup
                           {key \in Keys : \/ IsKeyExhausted(key, at[r], r)
                                           \/ OverBudget(key, Current(r), r)}]
          /\ at' = [at EXCEPT ![r] = @ + 1]
          /\ UNCHANGED pc
       \/ Refuse(r) /\ UNCHANGED <<closed, at>>
    /\ UNCHANGED <<provider, shared, members, held, clients, refusals>>

(* The open keys, in an order: how they rank is a matter of prompt caches. *)
Orders(S) == {s \in [1..Cardinality(S) -> S] : \A i, j \in DOMAIN s : s[i] = s[j] => i = j}

pickKey(r) ==
    LET open == Keys \ closed[r]
    IN  /\ pc[r] = "picking" /\ at[r] \notin DOMAIN Plan
        /\ IF open = {}
           THEN Refuse(r) /\ UNCHANGED <<at, clients>>
           ELSE /\ \E s \in Orders(open) : clients' = [clients EXCEPT ![r] = s]
                /\ Goto(r, "routing") /\ at' = [at EXCEPT ![r] = 1]
        /\ UNCHANGED <<provider, shared, members, held, closed, refusals>>

(* The keys that are left, in the same order. *)
Without(keys, skipped) ==
    LET kept == {i \in DOMAIN keys : keys[i] \notin skipped}
    IN  [n \in 1..Cardinality(kept) |->
            keys[CHOOSE i \in kept : Cardinality({j \in kept : j < i}) = n - 1]]

(* The request is sent through the clients of its keys.  A fallback whose     *)
(* client cannot be built is skipped; the chosen key's is an error, as is a   *)
(* model the caller may not use.                                              *)
Route(r) ==
    /\ pc[r] = "routing"
    /\ \/ /\ \E skipped \in SUBSET (Keys \ {clients[r][1]}) :
                 clients' = [clients EXCEPT ![r] = Without(@, skipped)]
          /\ Goto(r, "calling")
       \/ Goto(r, "failed") /\ UNCHANGED clients
    /\ UNCHANGED <<provider, shared, at, members, held, closed, refusals>>

-----------------------------------------------------------------------------
(* The upstream answers. *)

Served(r) ==
    /\ pc[r] = "calling"
    /\ Goto(r, "served")
    /\ UNCHANGED <<provider, shared, at, members, held, closed, clients, refusals>>

(* An error, a timeout, a 429 about the provider's own capacity, a client     *)
(* that hung up.                                                              *)
Failed(r) ==
    /\ pc[r] = "calling"
    /\ Goto(r, "failed")
    /\ UNCHANGED <<provider, shared, at, members, held, closed, clients, refusals>>

(* Mutant: the last client but one is not moved away from. *)
MovesOnEarly(r) == at[r] + 1 < Len(clients[r])

MovesOn(r) == at[r] < Len(clients[r])

(* A 429 about the plan, before the first chunk. *)
Exhausted(r) ==
    /\ pc[r] = "calling"
    /\ refusals' = [refusals EXCEPT ![r] = @ \cup {UsedKey(r)}]
    /\ Goto(r, IF MovesOn(r) THEN "moving" ELSE "turned away")
    /\ UNCHANGED <<provider, shared, at, members, held, closed, clients>>

(* The same 429 carried by the stream, or relayed as the response. *)
Cut(r) ==
    /\ pc[r] = "calling"
    /\ refusals' = [refusals EXCEPT ![r] = @ \cup {UsedKey(r)}]
    /\ Goto(r, "cut")
    /\ UNCHANGED <<provider, shared, at, members, held, closed, clients>>

(* Mutant: the cooldown goes to the key the request may move to. *)
MarksOfLast(r) ==
    {<<clients[r][Len(clients[r])], i, IF HasPerModelConstraint THEN ModelOf[r] ELSE AnyModel>> :
        i \in {j \in DOMAIN Plan : HasPerModelConstraint => PerModel(Plan[j])}}

(* The cooldowns of a 429 on the key in use: those of the requested model     *)
(* when the plan meters models, all of the plan otherwise.                    *)
MarksOf(r) ==
    {<<UsedKey(r), i, IF HasPerModelConstraint THEN ModelOf[r] ELSE AnyModel>> :
        i \in {j \in DOMAIN Plan : HasPerModelConstraint => PerModel(Plan[j])}}

(* Nothing is marked when the model or the provider cannot be read again. *)
markExhausted(r) == \/ exhausted' = exhausted \cup MarksOf(r)
                    \/ UNCHANGED exhausted

MoveOn(r) ==
    /\ pc[r] = "moving"
    /\ markExhausted(r)
    /\ at' = [at EXCEPT ![r] = @ + 1]
    /\ Goto(r, "calling")
    /\ UNCHANGED <<provider, inFlight, userInFlight, used, members, held, closed, clients,
                   refusals>>

-----------------------------------------------------------------------------
(* PostResponse and OnError, once the reservations are released. *)

OnExhaustion(r) ==
    /\ pc[r] \in {"turned away", "cut"} /\ held[r] = {}
    /\ markExhausted(r)
    /\ Leave(r)
    /\ UNCHANGED <<provider, inFlight, userInFlight, used, held>>

OnOtherError(r) ==
    /\ pc[r] = "failed" /\ held[r] = {}
    /\ Leave(r)
    /\ UNCHANGED <<provider, shared, held>>

(* The usage tracker runs after the enforcer: the record comes after the      *)
(* release.  It is lost when the store fails, and a request without a user    *)
(* makes none.                                                                *)
RecordUsage(r) ==
    /\ pc[r] = "served" /\ held[r] = {}
    /\ \/ UserOf[r] # NoUser /\ used' = used \cup {<<r, UsedKey(r)>>}
       \/ UNCHANGED used
    /\ Leave(r)
    /\ UNCHANGED <<provider, inFlight, userInFlight, exhausted, held>>

-----------------------------------------------------------------------------
(* Time. *)

(* The cooldowns of one 429 end together: they are dropped when they are next *)
(* looked up or swept.                                                        *)
CooldownEnds(key, model) ==
    /\ exhausted' = {mark \in exhausted : mark[1] # key \/ mark[3] # model}
    /\ UNCHANGED <<provider, inFlight, userInFlight, used, pc, at, members, held, closed,
                   clients, refusals>>

(* The next window of the plan begins. *)
WindowEnds ==
    /\ used # {}
    /\ used' = {}
    /\ UNCHANGED <<provider, inFlight, userInFlight, exhausted, pc, at, members, held, closed,
                   clients, refusals>>

Admission(r) == \/ PreRequest(r) \/ AcquireWindow(r) \/ IncrementInFlight(r)
                \/ IncrementUserInFlight(r) \/ releaseAll(r) \/ Refused(r)
                \/ StartPicking(r) \/ keyStates(r) \/ pickKey(r)

Service(r) == \/ Route(r) \/ Served(r) \/ Failed(r) \/ Exhausted(r) \/ Cut(r) \/ MoveOn(r)
              \/ OnExhaustion(r) \/ OnOtherError(r) \/ RecordUsage(r)

Step(r) == Admission(r) \/ Service(r)

(* Every request was answered. *)
Rest == (\A r \in Requests : pc[r] = "done") /\ UNCHANGED vars

Next == \/ \E r \in Requests : Step(r)
        \/ \E mark \in exhausted : CooldownEnds(mark[1], mark[3])
        \/ WindowEnds
        \/ Rest

Spec == Init /\ [][Next]_vars

(* A request goroutine goes on: every wait of it, the upstream call included, *)
(* has a timeout.                                                             *)
FairSpec == Spec /\ \A r \in Requests : WF_vars(Step(r))

-----------------------------------------------------------------------------
(* Properties. *)

OrgHeld     == {x \in Requests \X Indices : <<x[2], "org">> \in held[x[1]]}
UserHeld(u) == {x \in Requests \X Indices : UserOf[x[1]] = u /\ <<x[2], "user">> \in held[x[1]]}

(* The in-flight counters are exactly the increments that requests have still *)
(* to give back, whatever refusals, errors and key changes interleave: none   *)
(* is leaked, which would close the plan for good, and none is given back     *)
(* twice, which would open it too wide.                                       *)
CountersExact == /\ inFlight = Cardinality(OrgHeld)
                 /\ \A u \in Users : userInFlight[u] = Cardinality(UserHeld(u))

(* Requests let through by constraint i. *)
Through(i) == {r \in Requests : <<i, "org">> \in held[r] /\ pc[r] # "refused"}
SharesOf(u, i) == {r \in Through(i) : UserOf[r] = u /\ <<i, "user">> \in held[r]}

(* Although the counters are incremented before they are looked at, no        *)
(* interleaving lets more requests through a concurrency limit than the plan  *)
(* allows on its keys, nor more of one user's than their share of it.         *)
WithinLimits ==
    \A i \in DOMAIN Plan : Plan[i].kind = "concurrency" =>
        /\ Cardinality(Through(i)) <= MaxConcurrent(i)
        /\ \A u \in Users :
               Cardinality(SharesOf(u, i)) <= FairShare(i, Larger(Members, 1))

(* What a step marks was refused. *)
EarnedStep ==
    \A mark \in exhausted' \ exhausted :
        \E r \in Requests : mark[1] \in refusals[r] /\ mark[3] \in {AnyModel, ModelOf[r]}

(* A cooldown begins only on a key whose plan the upstream said is exhausted, *)
(* to a request for the very model it closes: a request that went through     *)
(* several keys never closes one that did not refuse it, nor the window of    *)
(* another model (markExhausted, usedKey).                                    *)
CooldownsEarned == [][EarnedStep]_vars

(* A request is answered that the plan is exhausted, before any chunk, only   *)
(* when every key it was given refused it (try in keyFailoverClient).         *)
EveryKeyTried ==
    \A r \in Requests :
        pc[r] = "turned away" => \A j \in DOMAIN clients[r] : clients[r][j] \in refusals[r]

(* Every request is answered, and the counters go back to zero for good.      *)
Drains == <>[](/\ \A r \in Requests : pc[r] = "done"
               /\ inFlight = 0 /\ \A u \in Users : userInFlight[u] = 0)
=============================================================================
