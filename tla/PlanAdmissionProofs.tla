------------------------ MODULE PlanAdmissionProofs -------------------------
(***************************************************************************)
(* Proofs about PlanAdmission: the in-flight counters are exact, the       *)
(* concurrency limits hold, a cooldown begins on a key that refused the    *)
(* request, and a request is turned away once every key refused it, for    *)
(* any number of requests, users, keys and constraints.                    *)
(*                                                                         *)
(* First the inductive invariant and facts about what requests hold (it is *)
(* finite, it bounds what is let through, a slot taken or given back       *)
(* changes it by one); then what the steps do to the invariant, by their   *)
(* shape: those that leave what is held alone, those that give a slot      *)
(* back, those that take one.                                              *)
(***************************************************************************)
EXTENDS PlanAdmission, FiniteSetTheorems, TLAPS

Labels == {"arriving", "acquiring", "sharing", "refused", "picking", "routing", "calling",
           "moving", "served", "failed", "turned away", "cut", "done"}

(* The constraints of the plan. *)
Positions == DOMAIN Plan

(* The part of the state the counters depend on. *)
Typed ==
    /\ provider \in Providers
    /\ inFlight \in Nat
    /\ userInFlight \in [Users -> Nat]
    /\ pc \in [Requests -> Labels]
    /\ at \in [Requests -> Nat \ {0}]
    /\ members \in [Requests -> {0, Members}]
    /\ held \in [Requests -> SUBSET (Positions \X {"org", "user"})]

(* What a request holds comes from the constraints it went through, so that   *)
(* the increment it is about to make is not one it holds already.             *)
Place(r) ==
    /\ pc[r] \in {"arriving", "done"} => held[r] = {}
    /\ pc[r] = "acquiring" => \A h \in held[r] : h[1] < at[r]
    /\ pc[r] = "sharing" => /\ at[r] \in Positions /\ Plan[at[r]].kind = "concurrency"
                            /\ UserOf[r] \in Users /\ members[r] > 0
                            /\ \A h \in held[r] : h[1] < at[r] \/ h = Org(at[r])
    /\ \A h \in held[r] : h[2] = "user" => UserOf[r] \in Users

Places == \A r \in Requests : Place(r)

(* The inductive invariant. *)
AdmissionInv == Typed /\ Places /\ CountersExact /\ WithinLimits

-----------------------------------------------------------------------------
(* Facts about the constants and about what is held. *)

(* The plan of a provider is a sequence of constraints. *)
LEMMA PlanIsSequence ==
    ASSUME provider \in Providers
    PROVE  /\ Plan \in Seq(Constraint) /\ Len(Plan) \in Nat /\ Positions = 1 .. Len(Plan)
           /\ IsFiniteSet(Keys) /\ Cardinality(Keys) \in Nat
  <1>1. Plan \in Seq(Constraint) /\ IsFiniteSet(Keys)
    BY ProvidersAssumption DEF Plan, Keys
  <1> QED
    BY <1>1, FS_CardinalityType DEF Positions

(* Requests hold finitely many slots. *)
LEMMA HeldIsFinite ==
    ASSUME Typed
    PROVE  /\ IsFiniteSet(OrgHeld) /\ Cardinality(OrgHeld) \in Nat
           /\ \A u \in Users : IsFiniteSet(UserHeld(u)) /\ Cardinality(UserHeld(u)) \in Nat
  <1>1. IsFiniteSet(Positions)
    <2>1. Len(Plan) \in Int /\ 1 \in Int /\ Positions = 1 .. Len(Plan)
      BY PlanIsSequence DEF Typed
    <2> QED
      BY ONLY <2>1, FS_Interval
  <1>2. IsFiniteSet(Requests \X Positions)
    BY <1>1, RequestsAssumption, FS_Product
  <1>3. \A r \in Requests : \A i, k : <<i, k>> \in held[r] => i \in Positions
    BY DEF Typed
  <1>4. OrgHeld \subseteq Requests \X Positions
    BY <1>3 DEF OrgHeld
  <1>5. ASSUME NEW u \in Users PROVE UserHeld(u) \subseteq Requests \X Positions
    BY <1>3 DEF UserHeld
  <1> QED
    BY <1>2, <1>4, <1>5, FS_Subset, FS_CardinalityType

(* Requests that hold the slot of one constraint are at most the slots held.  *)
LEMMA ThroughIsHeld ==
    ASSUME Typed, NEW i \in Positions
    PROVE  /\ IsFiniteSet(Through(i)) /\ Cardinality(Through(i)) \in Nat
           /\ Cardinality(Through(i)) <= Cardinality(OrgHeld)
           /\ \A u \in Users : /\ IsFiniteSet(SharesOf(u, i)) /\ Cardinality(SharesOf(u, i)) \in Nat
                               /\ Cardinality(SharesOf(u, i)) <= Cardinality(UserHeld(u))
  <1>1. i \in Indices
    BY DEF Typed, Indices, Positions, Plan
  <1>2. IsFiniteSet(OrgHeld) /\ \A u \in Users : IsFiniteSet(UserHeld(u))
    BY HeldIsFinite
  <1>3. IsFiniteSet(Through(i)) /\ Cardinality(Through(i)) <= Cardinality(OrgHeld)
    <2> DEFINE f == [r \in Through(i) |-> <<r, i>>]
    <2>1. \A r \in Through(i) : <<r, i>> \in OrgHeld
      BY <1>1 DEF Through, OrgHeld
    <2>2. f \in Injection(Through(i), OrgHeld)
      BY <2>1 DEF Injection, IsInjective
    <2> QED
      BY <2>2, <1>2, FS_Injection
  <1>4. ASSUME NEW u \in Users
        PROVE  /\ IsFiniteSet(SharesOf(u, i))
               /\ Cardinality(SharesOf(u, i)) <= Cardinality(UserHeld(u))
    <2> DEFINE f == [r \in SharesOf(u, i) |-> <<r, i>>]
    <2>1. \A r \in SharesOf(u, i) : <<r, i>> \in UserHeld(u)
      BY <1>1 DEF Through, SharesOf, UserHeld
    <2>2. f \in Injection(SharesOf(u, i), UserHeld(u))
      BY <2>1 DEF Injection, IsInjective
    <2> QED
      BY <2>2, <1>2, FS_Injection
  <1> QED
    BY <1>3, <1>4, FS_CardinalityType

(* Bounds are numbers. *)
LEMMA BoundsAreNumbers ==
    ASSUME provider \in Providers, NEW i \in Positions, Plan[i].kind = "concurrency"
    PROVE  MaxConcurrent(i) \in Nat /\ FairShare(i, Larger(Members, 1)) \in Nat
  <1>1. Plan[i] \in Constraint
    BY PlanIsSequence DEF Positions
  <1>2. Plan[i].max \in Nat
    BY <1>1 DEF Constraint
  <1>3. MaxConcurrent(i) \in Nat
    BY <1>2, PlanIsSequence DEF MaxConcurrent
  <1>4. Larger(Members, 1) \in Nat \ {0}
    BY MembersAssumption DEF Larger
  <1>5. MaxConcurrent(i) \div Larger(Members, 1) \in Nat
    BY <1>3, <1>4
  <1> QED
    BY <1>3, <1>5 DEF FairShare, Larger

(* Fewer requests stay within the limits. *)
LEMMA FewerThrough ==
    ASSUME Typed, WithinLimits, NEW i \in DOMAIN Plan, Plan[i].kind = "concurrency"
    PROVE  /\ \A S : S \subseteq Through(i) => Cardinality(S) <= MaxConcurrent(i)
           /\ \A u \in Users : \A S : S \subseteq SharesOf(u, i) =>
                  Cardinality(S) <= FairShare(i, Larger(Members, 1))
  <1>1. /\ Cardinality(Through(i)) <= MaxConcurrent(i)
        /\ \A u \in Users : Cardinality(SharesOf(u, i)) <= FairShare(i, Larger(Members, 1))
    BY DEF WithinLimits
  <1>2. MaxConcurrent(i) \in Nat /\ FairShare(i, Larger(Members, 1)) \in Nat
    BY BoundsAreNumbers DEF Typed, Positions
  <1>3. ASSUME NEW S, S \subseteq Through(i) PROVE Cardinality(S) <= MaxConcurrent(i)
    <2>1. IsFiniteSet(Through(i)) /\ Cardinality(Through(i)) \in Nat
      BY ThroughIsHeld DEF Positions
    <2>2. IsFiniteSet(S) /\ Cardinality(S) <= Cardinality(Through(i))
      BY <2>1, <1>3, FS_Subset
    <2>3. Cardinality(S) \in Nat
      BY <2>2, FS_CardinalityType
    <2> QED
      BY <1>1, <1>2, <2>1, <2>2, <2>3
  <1>4. ASSUME NEW u \in Users, NEW S, S \subseteq SharesOf(u, i)
        PROVE  Cardinality(S) <= FairShare(i, Larger(Members, 1))
    <2>1. IsFiniteSet(SharesOf(u, i)) /\ Cardinality(SharesOf(u, i)) \in Nat
      BY ThroughIsHeld DEF Positions
    <2>2. IsFiniteSet(S) /\ Cardinality(S) <= Cardinality(SharesOf(u, i))
      BY <2>1, <1>4, FS_Subset
    <2>3. Cardinality(S) \in Nat
      BY <2>2, FS_CardinalityType
    <2> QED
      BY <1>1, <1>2, <2>1, <2>2, <2>3
  <1> QED
    BY <1>3, <1>4

-----------------------------------------------------------------------------
(* Slots taken and given back. *)

(* What is held bounds what is let through. *)
ThroughBound ==
    \A i \in Positions :
        /\ Cardinality(Through(i)) \in Nat /\ Cardinality(Through(i)) <= Cardinality(OrgHeld)
        /\ \A u \in Users : /\ Cardinality(SharesOf(u, i)) \in Nat
                            /\ Cardinality(SharesOf(u, i)) <= Cardinality(UserHeld(u))

(* The bound holds after a step as it does before. *)
LEMMA ThroughBoundNext == Typed' => ThroughBound'
  <1>1. Typed => ThroughBound
    BY ThroughIsHeld DEF ThroughBound
  <1> QED
    BY <1>1, PTL

(* Request r holds slot h more. *)
Takes(r, h) == held' = [held EXCEPT ![r] = @ \cup {h}]

(* A slot the request did not hold adds one to what is held of its kind. *)
LEMMA TakesOne ==
    ASSUME Typed, NEW r \in Requests, NEW i \in Positions, NEW kind \in {"org", "user"},
           <<i, kind>> \notin held[r], Takes(r, <<i, kind>>)
    PROVE  /\ held' \in [Requests -> SUBSET (Positions \X {"org", "user"})]
           /\ Cardinality(OrgHeld') = Cardinality(OrgHeld) + IF kind = "org" THEN 1 ELSE 0
           /\ \A u \in Users : Cardinality(UserHeld(u)') =
                  Cardinality(UserHeld(u)) + IF kind = "user" /\ UserOf[r] = u THEN 1 ELSE 0
  <1>1. /\ held' \in [Requests -> SUBSET (Positions \X {"org", "user"})]
        /\ \A q \in Requests : held'[q] = IF q = r THEN held[r] \cup {<<i, kind>>} ELSE held[q]
    BY DEF Typed, Takes
  <1>2. i \in Indices
    BY DEF Typed, Indices, Positions, Plan
  <1>3. /\ IsFiniteSet(OrgHeld) /\ Cardinality(OrgHeld) \in Nat
        /\ \A u \in Users : IsFiniteSet(UserHeld(u)) /\ Cardinality(UserHeld(u)) \in Nat
    BY HeldIsFinite
  <1>4. CASE kind = "org"
    <2>1. OrgHeld' = OrgHeld \cup {<<r, i>>} /\ <<r, i>> \notin OrgHeld
      BY <1>1, <1>2, <1>4 DEF OrgHeld
    <2>2. \A u \in Users : UserHeld(u)' = UserHeld(u)
      BY <1>1, <1>4 DEF UserHeld
    <2>3. Cardinality(OrgHeld \cup {<<r, i>>}) = Cardinality(OrgHeld) + 1
      BY ZenonT(30), <2>1, <1>3, FS_AddElement
    <2> QED
      BY <1>1, <1>3, <1>4, <2>1, <2>2, <2>3
  <1>5. CASE kind = "user"
    <2>1. OrgHeld' = OrgHeld
      BY <1>1, <1>5 DEF OrgHeld
    <2>2. ASSUME NEW u \in Users
          PROVE  Cardinality(UserHeld(u)') =
                     Cardinality(UserHeld(u)) + IF UserOf[r] = u THEN 1 ELSE 0
      <3>1. CASE UserOf[r] = u
        <4>1. UserHeld(u)' = UserHeld(u) \cup {<<r, i>>} /\ <<r, i>> \notin UserHeld(u)
          BY <1>1, <1>2, <1>5, <3>1 DEF UserHeld
        <4>2. Cardinality(UserHeld(u) \cup {<<r, i>>}) = Cardinality(UserHeld(u)) + 1
          BY ZenonT(30), <4>1, <1>3, FS_AddElement
        <4> QED
          BY <3>1, <4>1, <4>2
      <3>2. CASE UserOf[r] # u
        <4>1. UserHeld(u)' = UserHeld(u)
          BY <1>1, <1>5, <3>2 DEF UserHeld
        <4> QED
          BY <3>2, <4>1, <1>3
      <3> QED
        BY <3>1, <3>2
    <2> QED
      BY <1>1, <1>3, <1>5, <2>1, <2>2
  <1> QED
    BY <1>4, <1>5

(* Request r gives slot h back. *)
GivesBack(r, h) == held' = [held EXCEPT ![r] = @ \ {h}]

(* A slot the request held takes one from what is held of its kind. *)
LEMMA GivesBackOne ==
    ASSUME Typed, NEW r \in Requests, NEW i \in Positions, NEW kind \in {"org", "user"},
           <<i, kind>> \in held[r], GivesBack(r, <<i, kind>>)
    PROVE  /\ held' \in [Requests -> SUBSET (Positions \X {"org", "user"})]
           /\ Cardinality(OrgHeld') = Cardinality(OrgHeld) - IF kind = "org" THEN 1 ELSE 0
           /\ \A u \in Users : Cardinality(UserHeld(u)') =
                  Cardinality(UserHeld(u)) - IF kind = "user" /\ UserOf[r] = u THEN 1 ELSE 0
           /\ Cardinality(OrgHeld') \in Nat
           /\ \A u \in Users : Cardinality(UserHeld(u)') \in Nat
  <1>1. /\ held' \in [Requests -> SUBSET (Positions \X {"org", "user"})]
        /\ \A q \in Requests : held'[q] = IF q = r THEN held[r] \ {<<i, kind>>} ELSE held[q]
    BY DEF Typed, GivesBack
  <1>2. i \in Indices
    BY DEF Typed, Indices, Positions, Plan
  <1>3. /\ IsFiniteSet(OrgHeld) /\ Cardinality(OrgHeld) \in Nat
        /\ \A u \in Users : IsFiniteSet(UserHeld(u)) /\ Cardinality(UserHeld(u)) \in Nat
    BY HeldIsFinite
  <1>4. CASE kind = "org"
    <2>1. OrgHeld' = OrgHeld \ {<<r, i>>} /\ <<r, i>> \in OrgHeld
      BY <1>1, <1>2, <1>4 DEF OrgHeld
    <2>2. \A u \in Users : UserHeld(u)' = UserHeld(u)
      BY <1>1, <1>4 DEF UserHeld
    <2>3. /\ IsFiniteSet(OrgHeld \ {<<r, i>>})
          /\ Cardinality(OrgHeld \ {<<r, i>>}) = Cardinality(OrgHeld) - 1
      BY <2>1, <1>3, FS_RemoveElement
    <2>4. Cardinality(OrgHeld \ {<<r, i>>}) \in Nat
      BY <2>3, FS_CardinalityType
    <2> QED
      BY <1>1, <1>3, <1>4, <2>1, <2>2, <2>3, <2>4
  <1>5. CASE kind = "user"
    <2>1. OrgHeld' = OrgHeld
      BY <1>1, <1>5 DEF OrgHeld
    <2>2. ASSUME NEW u \in Users
          PROVE  /\ Cardinality(UserHeld(u)') =
                        Cardinality(UserHeld(u)) - IF UserOf[r] = u THEN 1 ELSE 0
                 /\ Cardinality(UserHeld(u)') \in Nat
      <3>1. CASE UserOf[r] = u
        <4>1. UserHeld(u)' = UserHeld(u) \ {<<r, i>>} /\ <<r, i>> \in UserHeld(u)
          BY <1>1, <1>2, <1>5, <3>1 DEF UserHeld
        <4>2. /\ IsFiniteSet(UserHeld(u) \ {<<r, i>>})
              /\ Cardinality(UserHeld(u) \ {<<r, i>>}) = Cardinality(UserHeld(u)) - 1
          BY ZenonT(30), <4>1, <1>3, FS_RemoveElement
        <4>3. Cardinality(UserHeld(u) \ {<<r, i>>}) \in Nat
          BY <4>2, FS_CardinalityType
        <4> QED
          BY <3>1, <4>1, <4>2, <4>3
      <3>2. CASE UserOf[r] # u
        <4>1. UserHeld(u)' = UserHeld(u)
          BY <1>1, <1>5, <3>2 DEF UserHeld
        <4> QED
          BY <3>2, <4>1, <1>3
      <3> QED
        BY <3>1, <3>2
    <2> QED
      BY <1>1, <1>3, <1>5, <2>1, <2>2
  <1> QED
    BY <1>4, <1>5

-----------------------------------------------------------------------------
(* Steps that leave the counters and what is held alone. *)

(* A step of request r that neither increments nor gives back. *)
Quiet(r) ==
    /\ UNCHANGED <<provider, inFlight, userInFlight, held>>
    /\ pc' \in [Requests -> Labels] /\ at' \in [Requests -> Nat \ {0}]
    /\ members' \in [Requests -> {0, Members}]
    /\ \A q \in Requests \ {r} : pc'[q] = pc[q] /\ at'[q] = at[q] /\ members'[q] = members[q]
    /\ pc[r] = "refused" => pc'[r] = "refused" \/ held[r] = {}
    /\ pc'[r] \in {"arriving", "sharing"} => FALSE
    /\ pc'[r] = "done" => held[r] = {}
    /\ pc'[r] = "acquiring" => \A h \in held[r] : h[1] < at'[r]

(* A quiet step keeps the invariant: no request is let through. *)
LEMMA QuietKeeps ==
    ASSUME AdmissionInv, NEW r \in Requests, Quiet(r)
    PROVE  AdmissionInv'
  <1>1. Typed' /\ Positions' = Positions /\ Plan' = Plan
    BY DEF AdmissionInv, Typed, Quiet, Positions, Plan
  <1>2. Places'
    <2> SUFFICES ASSUME NEW q \in Requests PROVE Place(q)'
      BY DEF Places
    <2>1. Place(q)
      BY DEF AdmissionInv, Places
    <2>2. CASE q = r
      BY Zenon, <2>1, <2>2, <1>1 DEF Place, Quiet
    <2>3. CASE q # r
      BY Zenon, <2>1, <2>3, <1>1 DEF Place, Quiet, Org
    <2> QED
      BY <2>2, <2>3
  <1>3. CountersExact'
    BY DEF AdmissionInv, Quiet, CountersExact, OrgHeld, UserHeld
  <1>4. WithinLimits'
    <2> SUFFICES ASSUME NEW i \in DOMAIN Plan, Plan[i].kind = "concurrency"
                 PROVE  /\ Cardinality(Through(i)') <= MaxConcurrent(i)
                        /\ \A u \in Users :
                               Cardinality(SharesOf(u, i)') <= FairShare(i, Larger(Members, 1))
      BY Zenon DEF WithinLimits, Quiet, Plan, MaxConcurrent, FairShare, Keys
    <2>1. /\ Through(i)' \subseteq Through(i)
          /\ \A u \in Users : SharesOf(u, i)' \subseteq SharesOf(u, i)
      BY Zenon DEF Quiet, Through, SharesOf
    <2> QED
      BY <2>1, FewerThrough DEF AdmissionInv
  <1> QED
    BY <1>1, <1>2, <1>3, <1>4 DEF AdmissionInv

(* The shape of a quiet step. *)
LEMMA QuietForm ==
    ASSUME Typed, NEW r \in Requests,
           NEW label \in Labels \ {"arriving", "sharing"}, NEW n \in Nat \ {0},
           NEW m \in {0, Members},
           pc' = [pc EXCEPT ![r] = label], at' = [at EXCEPT ![r] = n],
           members' = [members EXCEPT ![r] = m],
           UNCHANGED <<provider, inFlight, userInFlight, held>>,
           pc[r] = "refused" => label = "refused" \/ held[r] = {},
           label = "done" => held[r] = {},
           label = "acquiring" => \A h \in held[r] : h[1] < n
    PROVE  Quiet(r)
  <1>1. /\ pc' \in [Requests -> Labels] /\ pc'[r] = label
        /\ \A q \in Requests \ {r} : pc'[q] = pc[q]
    BY DEF Typed
  <1>2. /\ at' \in [Requests -> Nat \ {0}] /\ at'[r] = n
        /\ \A q \in Requests \ {r} : at'[q] = at[q]
    BY DEF Typed
  <1>3. /\ members' \in [Requests -> {0, Members}]
        /\ \A q \in Requests \ {r} : members'[q] = members[q]
    BY DEF Typed
  <1> QED
    BY Zenon, <1>1, <1>2, <1>3 DEF Quiet

(* Every action but the increments and their release is quiet. *)
LEMMA QuietSteps ==
    ASSUME AdmissionInv, NEW r \in Requests,
           \/ PreRequest(r) \/ AcquireWindow(r) \/ Refused(r) \/ StartPicking(r)
           \/ keyStates(r) \/ pickKey(r) \/ Service(r)
    PROVE  Quiet(r)
  <1>1. /\ Typed
        /\ pc[r] \in Labels /\ at[r] \in Nat \ {0} /\ members[r] \in {0, Members}
        /\ at[r] + 1 \in Nat \ {0} /\ 1 \in Nat \ {0}
    BY DEF AdmissionInv, Typed
  <1>2. /\ at = [at EXCEPT ![r] = at[r]] /\ members = [members EXCEPT ![r] = members[r]]
    BY <1>1 DEF Typed
  <1>3. /\ \A h \in held[r] : h[1] \in Nat
        /\ pc[r] \in {"arriving", "done"} => held[r] = {}
        /\ pc[r] = "acquiring" => \A h \in held[r] : h[1] < at[r]
    <2>1. Positions \subseteq Nat /\ held[r] \subseteq Positions \X {"org", "user"}
      BY PlanIsSequence DEF AdmissionInv, Typed
    <2> QED
      BY ZenonT(30), <2>1 DEF AdmissionInv, Places, Place
  <1>4. pc[r] = "acquiring" => \A h \in held[r] : h[1] < at[r] + 1
    BY <1>1, <1>3
  <1> DEFINE M(label, n, m) ==
             /\ pc' = [pc EXCEPT ![r] = label] /\ at' = [at EXCEPT ![r] = n]
             /\ members' = [members EXCEPT ![r] = m]
             /\ UNCHANGED <<provider, inFlight, userInFlight, held>>
  <1>5. CASE PreRequest(r)
    <2>1. CASE Leave(r)
      <3>1. M("done", 1, 0) /\ held[r] = {}
        BY Zenon, <2>1, <1>5, <1>3 DEF PreRequest, Leave, Goto, shared
      <3> QED
        BY ZenonT(30), <3>1, <1>1, QuietForm DEF Labels
    <2>2. CASE ~Leave(r)
      <3>1. PICK m \in {0, Members} : M("acquiring", at[r], m) /\ held[r] = {}
        BY Zenon, <2>2, <1>2, <1>3, <1>5 DEF PreRequest, Goto, shared
      <3> QED
        BY ZenonT(30), <3>1, <1>1, QuietForm DEF Labels
    <2> QED
      BY <2>1, <2>2
  <1>6. CASE AcquireWindow(r)
    <2>1. \/ M("acquiring", at[r] + 1, members[r])
          \/ M("refused", at[r], members[r])
      BY Zenon, <1>6, <1>2 DEF AcquireWindow, Granted, Refuse, Goto, shared
    <2>2. pc[r] = "acquiring"
      BY Zenon, <1>6 DEF AcquireWindow, Acquiring
    <2> QED
      BY ZenonT(30), <2>1, <2>2, <1>1, <1>4, QuietForm DEF Labels
  <1>7. CASE Refused(r)
    <2>1. M("done", 1, 0) /\ held[r] = {}
      BY <1>7 DEF Refused, Leave, Goto, shared
    <2> QED
      BY ZenonT(30), <2>1, <1>1, QuietForm DEF Labels
  <1>8. CASE StartPicking(r)
    <2>1. M("picking", 1, members[r]) \/ M("routing", 1, members[r])
      BY Zenon, <1>8, <1>2 DEF StartPicking, Goto, shared
    <2>2. pc[r] # "refused"
      BY <1>8 DEF StartPicking, Acquired
    <2> QED
      BY ZenonT(30), <2>1, <2>2, <1>1, QuietForm DEF Labels
  <1>9. CASE keyStates(r)
    <2>1. M(pc[r], at[r] + 1, members[r]) \/ M("refused", at[r], members[r])
      BY <1>9, <1>1, <1>2 DEF keyStates, Refuse, Goto, shared, Typed
    <2>2. pc[r] = "picking"
      BY Zenon, <1>9 DEF keyStates
    <2> QED
      BY ZenonT(30), <2>1, <2>2, <1>1, QuietForm DEF Labels
  <1>10. CASE pickKey(r)
    <2>1. M("routing", 1, members[r]) \/ M("refused", at[r], members[r])
      BY <1>10, <1>2 DEF pickKey, Refuse, Goto, shared
    <2>2. pc[r] = "picking"
      BY Zenon, <1>10 DEF pickKey
    <2> QED
      BY ZenonT(30), <2>1, <2>2, <1>1, QuietForm DEF Labels
  <1>11. CASE Route(r) \/ Served(r) \/ Failed(r) \/ Exhausted(r) \/ Cut(r)
    <2>1. PICK label \in {"calling", "served", "failed", "moving", "turned away", "cut"} :
              M(label, at[r], members[r])
      BY ZenonT(30), <1>11, <1>2 DEF Route, Served, Failed, Exhausted, Cut, Goto, shared
    <2>2. pc[r] # "refused"
      BY ZenonT(30), <1>11 DEF Route, Served, Failed, Exhausted, Cut
    <2> QED
      BY ZenonT(30), <2>1, <2>2, <1>1, QuietForm DEF Labels
  <1>12. CASE MoveOn(r)
    <2>1. M("calling", at[r] + 1, members[r]) /\ pc[r] # "refused"
      BY <1>12, <1>2 DEF MoveOn, Goto
    <2> QED
      BY ZenonT(30), <2>1, <1>1, QuietForm DEF Labels
  <1>13. CASE OnExhaustion(r) \/ OnOtherError(r) \/ RecordUsage(r)
    <2>1. M("done", 1, 0) /\ held[r] = {}
      BY ZenonT(30), <1>13 DEF OnExhaustion, OnOtherError, RecordUsage, Leave, Goto, shared
    <2> QED
      BY ZenonT(30), <2>1, <1>1, QuietForm DEF Labels
  <1> QED
    BY <1>5, <1>6, <1>7, <1>8, <1>9, <1>10, <1>11, <1>12, <1>13 DEF Service

-----------------------------------------------------------------------------
(* Steps that give a slot back, or take one. *)

(* releaseAll: every decrement takes back one increment, and no counter is at *)
(* zero while something is held.                                              *)
LEMMA ReleaseKeeps ==
    ASSUME AdmissionInv, NEW r \in Requests, releaseAll(r)
    PROVE  AdmissionInv'
  <1>1. PICK h \in held[r] : Release(r, h)
    BY ZenonT(30) DEF releaseAll
  <1>2. UNCHANGED <<provider, pc, at, members>>
    BY ZenonT(30) DEF releaseAll
  <1>3. h \in Positions \X {"org", "user"} /\ (h[2] = "user" => UserOf[r] \in Users)
    <2>1. held[r] \subseteq Positions \X {"org", "user"}
      BY DEF AdmissionInv, Typed
    <2> QED
      BY <1>1, <2>1 DEF AdmissionInv, Places, Place
  <1>4. PICK i \in Positions, kind \in {"org", "user"} : h = <<i, kind>>
    BY <1>3
  <1>5. GivesBack(r, <<i, kind>>) /\ <<i, kind>> \in held[r] /\ h[2] = kind
    BY <1>1, <1>4 DEF Release, GivesBack
  <1>6. /\ held' \in [Requests -> SUBSET (Positions \X {"org", "user"})]
        /\ Cardinality(OrgHeld') = Cardinality(OrgHeld) - IF kind = "org" THEN 1 ELSE 0
        /\ \A u \in Users : Cardinality(UserHeld(u)') =
               Cardinality(UserHeld(u)) - IF kind = "user" /\ UserOf[r] = u THEN 1 ELSE 0
        /\ Cardinality(OrgHeld') \in Nat
        /\ \A u \in Users : Cardinality(UserHeld(u)') \in Nat
    BY ZenonT(30), <1>5, GivesBackOne DEF AdmissionInv
  <1>7. Cardinality(OrgHeld) \in Nat /\ \A u \in Users : Cardinality(UserHeld(u)) \in Nat
    BY HeldIsFinite DEF AdmissionInv
  <1>8. inFlight' = Cardinality(OrgHeld')
    BY <1>1, <1>5, <1>6, <1>7 DEF Release, Less, AdmissionInv, CountersExact
  <1>9. /\ userInFlight' \in [Users -> Nat]
        /\ \A u \in Users : userInFlight'[u] = Cardinality(UserHeld(u)')
    <2>1. CASE kind = "org"
      BY <2>1, <1>1, <1>5, <1>6, <1>7 DEF Release, AdmissionInv, CountersExact, Typed
    <2>2. CASE kind = "user"
      <3>1. UserOf[r] \in Users /\ userInFlight' = [userInFlight EXCEPT ![UserOf[r]] = Less(@)]
        BY <2>2, <1>1, <1>3, <1>5 DEF Release
      <3>2. userInFlight[UserOf[r]] > 0 /\ userInFlight[UserOf[r]] \in Nat
        BY <3>1, <2>2, <1>6, <1>7 DEF AdmissionInv, CountersExact
      <3>3. userInFlight' = [userInFlight EXCEPT ![UserOf[r]] = userInFlight[UserOf[r]] - 1]
        BY ZenonT(30), <3>1, <3>2 DEF Less
      <3> QED
        BY <2>2, <3>1, <3>2, <3>3, <1>6, <1>7 DEF AdmissionInv, CountersExact, Typed
    <2> QED
      BY <2>1, <2>2
  <1>10. Typed' /\ Positions' = Positions /\ Plan' = Plan
    BY Zenon, <1>2, <1>6, <1>8, <1>9 DEF AdmissionInv, Typed, Positions, Plan
  <1>11. \A q \in Requests : held'[q] \subseteq held[q]
    BY <1>5 DEF GivesBack, AdmissionInv, Typed
  <1>12. Places'
    <2> SUFFICES ASSUME NEW q \in Requests PROVE Place(q)'
      BY DEF Places
    <2>1. Place(q) /\ held'[q] \subseteq held[q]
      BY Zenon, <1>11 DEF AdmissionInv, Places
    <2> QED
      BY ZenonT(30), <2>1, <1>2, <1>10 DEF Place, Org
  <1>13. WithinLimits'
    <2> SUFFICES ASSUME NEW j \in DOMAIN Plan, Plan[j].kind = "concurrency"
                 PROVE  /\ Cardinality(Through(j)') <= MaxConcurrent(j)
                        /\ \A u \in Users :
                               Cardinality(SharesOf(u, j)') <= FairShare(j, Larger(Members, 1))
      BY Zenon, <1>2 DEF WithinLimits, Plan, MaxConcurrent, FairShare, Keys
    <2>1. /\ Through(j)' \subseteq Through(j)
          /\ \A u \in Users : SharesOf(u, j)' \subseteq SharesOf(u, j)
      BY Zenon, <1>2, <1>11 DEF Through, SharesOf
    <2> QED
      BY Zenon, <2>1, FewerThrough DEF AdmissionInv
  <1> QED
    BY Zenon, <1>8, <1>9, <1>10, <1>12, <1>13 DEF AdmissionInv, CountersExact

(* A request at constraint i that did not hold its slot of this kind takes    *)
(* it.  Whoever is let through saw the counter within the limit.              *)
Taking(r, i, kind, label, n) ==
    /\ <<i, kind>> \notin held[r] /\ Takes(r, <<i, kind>>)
    /\ UNCHANGED <<provider, members>>
    /\ inFlight' = inFlight + IF kind = "org" THEN 1 ELSE 0
    /\ userInFlight' \in [Users -> Nat]
    /\ \A u \in Users : userInFlight'[u] =
           userInFlight[u] + IF kind = "user" /\ UserOf[r] = u THEN 1 ELSE 0
    /\ pc' = [pc EXCEPT ![r] = label] /\ at' = [at EXCEPT ![r] = n]
    /\ pc[r] # "refused" /\ Place(r)'
    /\ label # "refused" =>
           IF kind = "org" THEN <<i, "user">> \notin held[r] /\ inFlight' <= MaxConcurrent(i)
           ELSE userInFlight'[UserOf[r]] <= FairShare(i, Larger(Members, 1))

(* It keeps the invariant: the counter bounds the requests let through. *)
LEMMA TakingKeeps ==
    ASSUME AdmissionInv, NEW r \in Requests, NEW i \in Positions, NEW kind \in {"org", "user"},
           NEW label \in {"acquiring", "sharing", "refused"}, NEW n \in Nat \ {0},
           Taking(r, i, kind, label, n), Plan[i].kind = "concurrency"
    PROVE  AdmissionInv'
  <1>1. /\ held' \in [Requests -> SUBSET (Positions \X {"org", "user"})]
        /\ Cardinality(OrgHeld') = Cardinality(OrgHeld) + IF kind = "org" THEN 1 ELSE 0
        /\ \A u \in Users : Cardinality(UserHeld(u)') =
               Cardinality(UserHeld(u)) + IF kind = "user" /\ UserOf[r] = u THEN 1 ELSE 0
    BY ZenonT(30), TakesOne DEF AdmissionInv, Taking
  <1>2. /\ pc' \in [Requests -> Labels] /\ pc'[r] = label
        /\ \A q \in Requests \ {r} : pc'[q] = pc[q]
    BY ZenonT(30) DEF AdmissionInv, Typed, Labels, Taking
  <1>3. at' \in [Requests -> Nat \ {0}] /\ \A q \in Requests \ {r} : at'[q] = at[q]
    BY Zenon DEF AdmissionInv, Typed, Taking
  <1>4. /\ held'[r] = held[r] \cup {<<i, kind>>}
        /\ \A q \in Requests \ {r} : held'[q] = held[q]
    BY DEF AdmissionInv, Typed, Takes, Taking
  <1>5. inFlight' \in Nat
    BY DEF AdmissionInv, Typed, Taking
  <1>6. Typed' /\ Positions' = Positions /\ Plan' = Plan
    BY Zenon, <1>1, <1>2, <1>3, <1>5 DEF AdmissionInv, Typed, Positions, Plan, Taking
  <1>7. UNCHANGED <<provider, members>> /\ pc[r] # "refused"
    BY Zenon DEF Taking
  <1>8. Places'
    <2> SUFFICES ASSUME NEW q \in Requests, q # r PROVE Place(q)'
      BY Zenon DEF Places, Taking
    <2>1. Place(q)
      BY DEF AdmissionInv, Places
    <2> QED
      BY Zenon, <2>1, <1>2, <1>3, <1>4, <1>6, <1>7 DEF Place, Org
  <1>9. CountersExact'
    BY <1>1 DEF AdmissionInv, CountersExact, Taking
  <1>10. WithinLimits'
    <2> SUFFICES ASSUME NEW j \in DOMAIN Plan, Plan[j].kind = "concurrency"
                 PROVE  /\ Cardinality(Through(j)') <= MaxConcurrent(j)
                        /\ \A u \in Users :
                               Cardinality(SharesOf(u, j)') <= FairShare(j, Larger(Members, 1))
      BY Zenon, <1>7 DEF WithinLimits, Plan, MaxConcurrent, FairShare, Keys
    <2>1. /\ \A S : S \subseteq Through(j) => Cardinality(S) <= MaxConcurrent(j)
          /\ \A u \in Users : \A S : S \subseteq SharesOf(u, j) =>
                 Cardinality(S) <= FairShare(j, Larger(Members, 1))
      BY Zenon, FewerThrough DEF AdmissionInv
    <2>2. CASE j # i \/ label = "refused"
      <3>1. /\ Through(j)' \subseteq Through(j)
            /\ \A u \in Users : SharesOf(u, j)' \subseteq SharesOf(u, j)
        BY <2>2, <1>2, <1>4, <1>7 DEF Through, SharesOf
      <3> QED
        BY Zenon, <2>1, <3>1
    <2>3. CASE j = i /\ label # "refused"
      <3>1. /\ Cardinality(Through(j)') \in Nat
            /\ Cardinality(Through(j)') <= inFlight'
            /\ \A u \in Users : /\ Cardinality(SharesOf(u, j)') \in Nat
                                /\ Cardinality(SharesOf(u, j)') <= userInFlight'[u]
        BY Zenon, <1>6, <1>9, ThroughBoundNext DEF ThroughBound, CountersExact, Positions
      <3>2. MaxConcurrent(j) \in Nat /\ FairShare(j, Larger(Members, 1)) \in Nat
        BY Zenon, BoundsAreNumbers DEF AdmissionInv, Typed, Positions
      <3>3. CASE kind = "org"
        <4>1. \A u \in Users : SharesOf(u, j)' \subseteq SharesOf(u, j)
          BY <2>3, <3>3, <1>2, <1>4, <1>7 DEF Through, SharesOf, Taking
        <4>2. inFlight' <= MaxConcurrent(j)
          BY Zenon, <2>3, <3>3 DEF Taking
        <4>3. Cardinality(Through(j)') <= MaxConcurrent(j)
          BY ONLY <4>2, <3>1, <3>2, <1>5, SMTT(30)
        <4> QED
          BY ZenonT(30), <4>1, <4>3, <2>1
      <3>4. CASE kind = "user"
        <4>1. Through(j)' \subseteq Through(j)
          BY <2>3, <3>4, <1>2, <1>4, <1>7 DEF Through
        <4>2. ASSUME NEW u \in Users
              PROVE  Cardinality(SharesOf(u, j)') <= FairShare(j, Larger(Members, 1))
          <5>1. CASE u = UserOf[r]
            <6>1. userInFlight'[u] \in Nat /\ userInFlight'[u] <= FairShare(j, Larger(Members, 1))
              BY Zenon, <2>3, <3>4, <5>1 DEF Taking
            <6> QED
              BY <6>1, <3>1, <3>2
          <5>2. CASE u # UserOf[r]
            <6>1. SharesOf(u, j)' \subseteq SharesOf(u, j)
              BY Zenon, <5>2, <1>2, <1>4, <1>7 DEF Through, SharesOf
            <6> QED
              BY Zenon, <6>1, <2>1
          <5> QED
            BY Zenon, <5>1, <5>2
        <4> QED
          BY Zenon, <4>1, <4>2, <2>1
      <3> QED
        BY Zenon, <3>3, <3>4
    <2> QED
      BY Zenon, <2>2, <2>3
  <1> QED
    BY <1>6, <1>8, <1>9, <1>10 DEF AdmissionInv

-----------------------------------------------------------------------------
(* IncrementInFlight: a request at a concurrency limit. *)
LEMMA OrgIncrementKeeps ==
    ASSUME AdmissionInv, NEW r \in Requests, IncrementInFlight(r)
    PROVE  AdmissionInv'
  <1> DEFINE i == at[r]
  <1>1. /\ pc[r] = "acquiring" /\ i \in Positions /\ Plan[i].kind = "concurrency"
        /\ inFlight' = inFlight + 1 /\ Takes(r, <<i, "org">>)
        /\ UNCHANGED <<provider, userInFlight, members>>
    BY Zenon DEF IncrementInFlight, Acquiring, Current, Positions, Takes, Org
  <1>2. i \in Nat \ {0} /\ i + 1 \in Nat \ {0} /\ at = [at EXCEPT ![r] = i]
    BY DEF AdmissionInv, Typed
  <1>3. \A h \in held[r] : h \in Positions \X {"org", "user"} /\ h[1] < i /\ h[1] \in Nat
    <2>1. Positions \subseteq Nat /\ held[r] \subseteq Positions \X {"org", "user"}
      BY PlanIsSequence DEF AdmissionInv, Typed
    <2> QED
      BY ZenonT(30), <1>1, <2>1 DEF AdmissionInv, Places, Place
  <1>4. <<i, "org">> \notin held[r] /\ <<i, "user">> \notin held[r]
    BY <1>2, <1>3
  <1>5. /\ userInFlight' \in [Users -> Nat]
        /\ \A u \in Users : userInFlight'[u] =
               userInFlight[u] + IF "org" = "user" /\ UserOf[r] = u THEN 1 ELSE 0
    BY <1>1 DEF AdmissionInv, Typed
  <1>6. held'[r] = held[r] \cup {<<i, "org">>} /\ members'[r] = members[r]
    BY <1>1 DEF AdmissionInv, Typed, Takes
  <1>7. Positions' = Positions /\ Plan' = Plan
    BY <1>1 DEF Positions, Plan
  <1>8. \A h \in held[r] : h[2] = "user" => UserOf[r] \in Users
    BY Zenon DEF AdmissionInv, Places, Place
  <1>9. MaxConcurrent(i) \in Nat /\ inFlight \in Nat
    BY Zenon, <1>1, BoundsAreNumbers DEF AdmissionInv, Typed
  <1> HIDE DEF i
  <1>10. CASE inFlight + 1 > MaxConcurrent(i)
    <2>1. pc' = [pc EXCEPT ![r] = "refused"] /\ at' = [at EXCEPT ![r] = i]
      BY Zenon, <1>10, <1>2 DEF IncrementInFlight, Refuse, Goto, i
    <2>2. pc'[r] = "refused"
      BY <2>1 DEF AdmissionInv, Typed
    <2>3. Place(r)'
      BY <2>2, <1>6, <1>8 DEF Place
    <2>4. Taking(r, i, "org", "refused", i)
      BY ZenonT(30), <2>1, <2>3, <1>1, <1>4, <1>5 DEF Taking
    <2> QED
      BY <2>4, <1>1, <1>2, TakingKeeps
  <1>11. CASE ~(inFlight + 1 > MaxConcurrent(i)) /\ Shares(r)
    <2>1. pc' = [pc EXCEPT ![r] = "sharing"] /\ at' = [at EXCEPT ![r] = i]
      BY <1>11, <1>2 DEF IncrementInFlight, Goto, i
    <2>2. pc'[r] = "sharing" /\ at'[r] = i
      BY <2>1 DEF AdmissionInv, Typed
    <2>3. UserOf[r] \in Users /\ members[r] > 0
      BY <1>11, UsersAssumption DEF Shares
    <2>4. Place(r)'
      BY Zenon, <2>2, <2>3, <1>1, <1>3, <1>6, <1>7, <1>8 DEF Place, Org
    <2>5. inFlight' <= MaxConcurrent(i)
      BY <1>1, <1>9, <1>11
    <2>6. Taking(r, i, "org", "sharing", i)
      BY Zenon, <2>1, <2>4, <2>5, <1>1, <1>4, <1>5 DEF Taking
    <2> QED
      BY Zenon, <2>6, <1>1, <1>2, TakingKeeps
  <1>12. CASE ~(inFlight + 1 > MaxConcurrent(i)) /\ ~Shares(r)
    <2>1. pc' = [pc EXCEPT ![r] = "acquiring"] /\ at' = [at EXCEPT ![r] = i + 1]
      BY Zenon, <1>12 DEF IncrementInFlight, Granted, Goto, i
    <2>2. pc'[r] = "acquiring" /\ at'[r] = i + 1
      BY <2>1 DEF AdmissionInv, Typed
    <2>3. \A h \in held'[r] : h[1] < i + 1
      BY <1>2, <1>3, <1>6
    <2>4. Place(r)'
      BY <2>2, <2>3, <1>6, <1>8 DEF Place
    <2>5. inFlight' <= MaxConcurrent(i)
      BY <1>1, <1>9, <1>12
    <2>6. Taking(r, i, "org", "acquiring", i + 1)
      BY ZenonT(30), <2>1, <2>4, <2>5, <1>1, <1>4, <1>5 DEF Taking
    <2> QED
      BY Zenon, <2>6, <1>1, <1>2, TakingKeeps
  <1> QED
    BY <1>10, <1>11, <1>12

(* IncrementUserInFlight: the same for the share of the user. *)
LEMMA UserIncrementKeeps ==
    ASSUME AdmissionInv, NEW r \in Requests, IncrementUserInFlight(r)
    PROVE  AdmissionInv'
  <1> DEFINE i == at[r]
             u == UserOf[r]
  <1>1. /\ pc[r] = "sharing" /\ Takes(r, <<i, "user">>)
        /\ userInFlight' = [userInFlight EXCEPT ![u] = @ + 1]
        /\ UNCHANGED <<provider, inFlight, members>>
    BY Zenon DEF IncrementUserInFlight, Takes, User
  <1>2. i \in Nat \ {0} /\ i + 1 \in Nat \ {0} /\ at = [at EXCEPT ![r] = i]
    BY DEF AdmissionInv, Typed
  <1>3. /\ i \in Positions /\ Plan[i].kind = "concurrency" /\ u \in Users /\ members[r] > 0
        /\ \A h \in held[r] : h[1] < i \/ h = <<i, "org">>
    BY Zenon, <1>1 DEF AdmissionInv, Places, Place, Org
  <1>4. \A h \in held[r] : h \in Positions \X {"org", "user"} /\ h[1] \in Nat
    <2>1. Positions \subseteq Nat /\ held[r] \subseteq Positions \X {"org", "user"}
      BY PlanIsSequence DEF AdmissionInv, Typed
    <2> QED
      BY ZenonT(30), <2>1
  <1>5. <<i, "user">> \notin held[r]
    BY <1>2, <1>3, <1>4
  <1>6. /\ userInFlight' \in [Users -> Nat] /\ userInFlight'[u] = userInFlight[u] + 1
        /\ \A v \in Users : userInFlight'[v] =
               userInFlight[v] + IF "user" = "user" /\ UserOf[r] = v THEN 1 ELSE 0
    BY <1>1, <1>3 DEF AdmissionInv, Typed
  <1>7. held'[r] = held[r] \cup {<<i, "user">>}
    BY Zenon, <1>1 DEF AdmissionInv, Typed, Takes
  <1>8. FairShare(i, members[r]) = FairShare(i, Larger(Members, 1))
    <2>1. members[r] = Members /\ Larger(Members, 1) = Members
      BY <1>3, MembersAssumption DEF AdmissionInv, Typed, Larger
    <2> QED
      BY <2>1
  <1>9. FairShare(i, Larger(Members, 1)) \in Nat /\ userInFlight[u] \in Nat
    BY Zenon, <1>3, BoundsAreNumbers DEF AdmissionInv, Typed
  <1>10. inFlight' = inFlight + IF "user" = "org" THEN 1 ELSE 0
    BY <1>1 DEF AdmissionInv, Typed
  <1> HIDE DEF i
  <1>11. CASE userInFlight[u] + 1 > FairShare(i, members[r])
    <2>1. pc' = [pc EXCEPT ![r] = "refused"] /\ at' = [at EXCEPT ![r] = i]
      BY <1>11, <1>2 DEF IncrementUserInFlight, Refuse, Goto, i
    <2>2. pc'[r] = "refused"
      BY <2>1 DEF AdmissionInv, Typed
    <2>3. Place(r)'
      BY Zenon, <2>2, <1>3 DEF Place
    <2>4. Taking(r, i, "user", "refused", i)
      BY ZenonT(30), <2>1, <2>3, <1>1, <1>5, <1>6, <1>10 DEF Taking
    <2> QED
      BY <2>4, <1>2, <1>3, TakingKeeps
  <1>12. CASE ~(userInFlight[u] + 1 > FairShare(i, members[r]))
    <2>1. pc' = [pc EXCEPT ![r] = "acquiring"] /\ at' = [at EXCEPT ![r] = i + 1]
      BY Zenon, <1>12 DEF IncrementUserInFlight, Granted, Goto, i
    <2>2. pc'[r] = "acquiring" /\ at'[r] = i + 1
      BY <2>1 DEF AdmissionInv, Typed
    <2>3. \A h \in held'[r] : h[1] < i + 1
      BY <1>2, <1>3, <1>4, <1>7
    <2>4. Place(r)'
      BY Zenon, <2>2, <2>3, <1>3 DEF Place
    <2>5. userInFlight'[UserOf[r]] <= FairShare(i, Larger(Members, 1))
      BY <1>6, <1>8, <1>9, <1>12
    <2>6. Taking(r, i, "user", "acquiring", i + 1)
      BY Zenon, <2>1, <2>4, <2>5, <1>1, <1>5, <1>6, <1>10 DEF Taking
    <2> QED
      BY Zenon, <2>6, <1>2, <1>3, TakingKeeps
  <1> QED
    BY Zenon, <1>11, <1>12

-----------------------------------------------------------------------------
(* Every action keeps the invariant. *)
LEMMA AdmissionStep == AdmissionInv /\ [Next]_vars => AdmissionInv'
  <1> SUFFICES ASSUME AdmissionInv, [Next]_vars PROVE AdmissionInv'
    OBVIOUS
  <1>1. ASSUME NEW r \in Requests, Step(r) PROVE AdmissionInv'
    BY <1>1, QuietSteps, QuietKeeps, OrgIncrementKeeps, UserIncrementKeeps, ReleaseKeeps
       DEF Step, Admission
  <1>2. ASSUME UNCHANGED <<provider, inFlight, userInFlight, pc, at, members, held>>
        PROVE  AdmissionInv'
    <2>1. /\ Typed' /\ Positions' = Positions /\ Plan' = Plan
      BY Zenon, <1>2 DEF AdmissionInv, Typed, Positions, Plan
    <2>2. Places'
      BY Zenon, <1>2, <2>1 DEF AdmissionInv, Places, Place, Org
    <2>3. CountersExact'
      BY Zenon, <1>2 DEF AdmissionInv, CountersExact, OrgHeld, UserHeld
    <2>4. WithinLimits'
      BY Zenon, <1>2 DEF AdmissionInv, WithinLimits, Through, SharesOf, Plan, Keys, MaxConcurrent,
                  FairShare
    <2> QED
      BY <2>1, <2>2, <2>3, <2>4 DEF AdmissionInv
  <1>3. ASSUME NEW mark \in exhausted, CooldownEnds(mark[1], mark[3]) PROVE AdmissionInv'
    BY <1>2, <1>3 DEF CooldownEnds
  <1>4. CASE WindowEnds
    BY <1>2, <1>4 DEF WindowEnds
  <1>5. CASE Rest \/ UNCHANGED vars
    BY <1>2, <1>5 DEF Rest, vars
  <1> QED
    BY <1>1, <1>3, <1>4, <1>5 DEF Next

(* Initially nothing is held. *)
LEMMA AdmissionInit == Init => AdmissionInv
  <1> SUFFICES ASSUME Init PROVE AdmissionInv
    OBVIOUS
  <1>1. Typed
    BY MembersAssumption DEF Init, Typed, Labels
  <1>2. Places
    BY Zenon DEF Init, Places, Place
  <1>3. OrgHeld = {} /\ \A u \in Users : UserHeld(u) = {}
    BY DEF Init, OrgHeld, UserHeld
  <1>4. CountersExact
    BY ZenonT(30), <1>3, FS_EmptySet DEF Init, CountersExact
  <1>5. WithinLimits
    <2> SUFFICES ASSUME NEW i \in DOMAIN Plan, Plan[i].kind = "concurrency"
                 PROVE  /\ Cardinality(Through(i)) <= MaxConcurrent(i)
                        /\ \A u \in Users :
                               Cardinality(SharesOf(u, i)) <= FairShare(i, Larger(Members, 1))
      BY Zenon DEF WithinLimits
    <2>1. Through(i) = {} /\ \A u \in Users : SharesOf(u, i) = {}
      BY Zenon DEF Init, Through, SharesOf
    <2>2. MaxConcurrent(i) \in Nat /\ FairShare(i, Larger(Members, 1)) \in Nat
      BY Zenon, BoundsAreNumbers DEF Init, Positions
    <2> QED
      BY <2>1, <2>2, FS_EmptySet
  <1> QED
    BY <1>1, <1>2, <1>4, <1>5 DEF AdmissionInv

(* CountersExact holds for any requests, users, plans and keys: the in-flight *)
(* counters of SubscriptionStateDetailed neither leak nor drop an increment.  *)
THEOREM CountersStayExact == Spec => []CountersExact
  <1>1. AdmissionInv => CountersExact
    BY DEF AdmissionInv
  <1> QED
    BY <1>1, AdmissionInit, AdmissionStep, PTL DEF Spec

(* WithinLimits holds for any requests, users, plans and keys: although       *)
(* Acquire increments before it compares, no interleaving admits more than    *)
(* the limit.                                                                 *)
THEOREM LimitsHold == Spec => []WithinLimits
  <1>1. AdmissionInv => WithinLimits
    BY DEF AdmissionInv
  <1> QED
    BY <1>1, AdmissionInit, AdmissionStep, PTL DEF Spec

-----------------------------------------------------------------------------
(* Cooldowns. *)

(* f is a function on the requests. *)
IsFunction(f) == f = [r \in Requests |-> f[r]]

(* A request about to mark a key was refused by the key it used last. *)
RefusedByUsedKey ==
    /\ IsFunction(pc) /\ IsFunction(at) /\ IsFunction(clients) /\ IsFunction(refusals)
    /\ \A r \in Requests :
           pc[r] \in {"moving", "turned away", "cut"} => UsedKey(r) \in refusals[r]

(* Every action keeps it: the key in use only changes once the mark is made.  *)
LEMMA RefusedByUsedKeyStep == RefusedByUsedKey /\ [Next]_vars => RefusedByUsedKey'
  <1> SUFFICES ASSUME RefusedByUsedKey, [Next]_vars PROVE RefusedByUsedKey'
    OBVIOUS
  <1> USE DEF RefusedByUsedKey, IsFunction
  <1>1. ASSUME NEW r \in Requests, Leave(r) PROVE RefusedByUsedKey'
    BY ZenonT(30), <1>1 DEF Leave, Goto, UsedKey
  <1>2. ASSUME NEW r \in Requests, NEW label, label \notin {"moving", "turned away", "cut"},
               Goto(r, label), IsFunction(at'), IsFunction(clients'), UNCHANGED refusals,
               \A q \in Requests \ {r} : at'[q] = at[q] /\ clients'[q] = clients[q]
        PROVE  RefusedByUsedKey'
    BY ZenonT(30), <1>2 DEF Goto, UsedKey
  <1>3. ASSUME NEW r \in Requests, PreRequest(r) PROVE RefusedByUsedKey'
    BY ZenonT(30), <1>1, <1>2, <1>3 DEF PreRequest
  <1>4. ASSUME NEW r \in Requests,
               AcquireWindow(r) \/ IncrementInFlight(r) \/ IncrementUserInFlight(r)
        PROVE  RefusedByUsedKey'
    <2>1. UNCHANGED <<clients, refusals>> /\ (UNCHANGED at \/ at' = [at EXCEPT ![r] = @ + 1])
      BY ZenonT(30), <1>4 DEF AcquireWindow, IncrementInFlight, IncrementUserInFlight, Granted
    <2>2. Goto(r, "refused") \/ Goto(r, "sharing") \/ Goto(r, "acquiring")
      BY ZenonT(30), <1>4
         DEF AcquireWindow, IncrementInFlight, IncrementUserInFlight, Granted, Refuse
    <2> QED
      BY ZenonT(30), <2>1, <2>2, <1>2
  <1>5. ASSUME NEW r \in Requests, StartPicking(r) \/ keyStates(r) \/ pickKey(r) \/ Route(r)
        PROVE  RefusedByUsedKey'
    <2>1. CASE StartPicking(r)
      <3>1. Goto(r, "picking") \/ Goto(r, "routing")
        BY ZenonT(30), <2>1 DEF StartPicking
      <3> QED
        BY ZenonT(30), <1>2, <2>1, <3>1 DEF StartPicking
    <2>2. CASE keyStates(r)
      <3>1. /\ UNCHANGED <<clients, refusals>> /\ IsFunction(at')
            /\ \A q \in Requests \ {r} : at'[q] = at[q]
            /\ pc[r] = "picking" /\ (UNCHANGED pc \/ Goto(r, "refused"))
        BY ZenonT(30), <2>2 DEF keyStates, Refuse
      <3>2. CASE UNCHANGED pc
        BY ZenonT(30), <3>1, <3>2 DEF UsedKey
      <3> QED
        BY ZenonT(30), <1>2, <3>1, <3>2
    <2>3. CASE pickKey(r)
      <3>1. Goto(r, "refused") \/ Goto(r, "routing")
        BY ZenonT(30), <2>3 DEF pickKey, Refuse
      <3> QED
        BY ZenonT(30), <1>2, <2>3, <3>1 DEF pickKey
    <2>4. CASE Route(r)
      <3>1. Goto(r, "calling") \/ Goto(r, "failed")
        BY ZenonT(30), <2>4 DEF Route
      <3> QED
        BY ZenonT(30), <1>2, <2>4, <3>1 DEF Route
    <2> QED
      BY ZenonT(30), <1>5, <2>1, <2>2, <2>3, <2>4
  <1>6. ASSUME NEW r \in Requests, Served(r) \/ Failed(r) PROVE RefusedByUsedKey'
    BY ZenonT(30), <1>2, <1>6 DEF Served, Failed
  <1>7. ASSUME NEW r \in Requests, Exhausted(r) \/ Cut(r) PROVE RefusedByUsedKey'
    <2>1. /\ UNCHANGED <<at, clients>>
          /\ refusals' = [refusals EXCEPT ![r] = @ \cup {UsedKey(r)}]
          /\ \E label : Goto(r, label)
      BY ZenonT(30), <1>7 DEF Exhausted, Cut
    <2> QED
      BY ZenonT(30), <2>1 DEF Goto, UsedKey
  <1>8. ASSUME NEW r \in Requests, MoveOn(r) PROVE RefusedByUsedKey'
    BY ZenonT(30), <1>2, <1>8 DEF MoveOn
  <1>9. ASSUME NEW r \in Requests,
               Refused(r) \/ OnExhaustion(r) \/ OnOtherError(r) \/ RecordUsage(r)
        PROVE  RefusedByUsedKey'
    BY ZenonT(30), <1>1, <1>9 DEF Refused, OnExhaustion, OnOtherError, RecordUsage
  <1>10. ASSUME UNCHANGED <<pc, at, clients, refusals>> PROVE RefusedByUsedKey'
    BY ZenonT(30), <1>10 DEF UsedKey
  <1>11. ASSUME NEW r \in Requests, releaseAll(r) PROVE RefusedByUsedKey'
    BY ZenonT(30), <1>10, <1>11 DEF releaseAll
  <1>12. ASSUME NEW mark \in exhausted, CooldownEnds(mark[1], mark[3]) PROVE RefusedByUsedKey'
    BY ZenonT(30), <1>10, <1>12 DEF CooldownEnds
  <1>13. CASE WindowEnds \/ Rest \/ UNCHANGED vars
    BY ZenonT(30), <1>10, <1>13 DEF WindowEnds, Rest, vars
  <1> QED
    BY ZenonT(30), <1>3, <1>4, <1>5, <1>6, <1>7, <1>8, <1>9, <1>11, <1>12, <1>13
       DEF Next, Step, Admission, Service

(* Only a request on its way from a refusal marks, and it marks the key it    *)
(* used.                                                                      *)
LEMMA MarksAreEarned == RefusedByUsedKey /\ [Next]_vars => EarnedStep
  <1> SUFFICES ASSUME RefusedByUsedKey, [Next]_vars PROVE EarnedStep
    OBVIOUS
  <1>1. ASSUME NEW r \in Requests, MoveOn(r) \/ OnExhaustion(r) PROVE EarnedStep
    <2>1. markExhausted(r) /\ UsedKey(r) \in refusals[r]
      BY ZenonT(30), <1>1 DEF MoveOn, OnExhaustion, RefusedByUsedKey
    <2> SUFFICES ASSUME NEW mark \in exhausted' \ exhausted
                 PROVE  mark[1] \in refusals[r] /\ mark[3] \in {AnyModel, ModelOf[r]}
      BY DEF EarnedStep
    <2>2. mark \in MarksOf(r)
      BY <2>1 DEF markExhausted
    <2>3. mark[1] = UsedKey(r) /\ mark[3] \in {AnyModel, ModelOf[r]}
      BY <2>2 DEF MarksOf
    <2> QED
      BY <2>1, <2>3
  <1>2. ASSUME exhausted' \subseteq exhausted PROVE EarnedStep
    BY <1>2 DEF EarnedStep
  <1>3. ASSUME NEW r \in Requests, Admission(r) PROVE UNCHANGED exhausted
    BY ZenonT(30), <1>3
       DEF Admission, PreRequest, AcquireWindow, IncrementInFlight, IncrementUserInFlight,
                releaseAll, Refused, StartPicking, keyStates, pickKey, shared
  <1>4. ASSUME NEW r \in Requests, Service(r), ~MoveOn(r), ~OnExhaustion(r)
        PROVE  UNCHANGED exhausted
    BY ZenonT(30), <1>4
       DEF Service, Route, Served, Failed, Exhausted, Cut, OnOtherError, RecordUsage, shared
  <1>5. ASSUME NEW mark \in exhausted, CooldownEnds(mark[1], mark[3])
        PROVE  exhausted' \subseteq exhausted
    BY <1>5 DEF CooldownEnds
  <1>6. CASE WindowEnds \/ Rest \/ UNCHANGED vars
    BY <1>2, <1>6 DEF WindowEnds, Rest, vars
  <1> QED
    BY <1>1, <1>2, <1>3, <1>4, <1>5, <1>6 DEF Next, Step

(* CooldownsEarned holds for any requests, keys and plans: markExhausted only *)
(* closes the key that refused the request, for the model it asked for.       *)
THEOREM CooldownsAreEarned == Spec => CooldownsEarned
  <1>1. Init => RefusedByUsedKey
    BY Zenon DEF Init, RefusedByUsedKey, IsFunction
  <1>2. RefusedByUsedKey /\ [Next]_vars => [EarnedStep]_vars
    BY MarksAreEarned
  <1> QED
    BY <1>1, <1>2, RefusedByUsedKeyStep, PTL DEF Spec, CooldownsEarned

-----------------------------------------------------------------------------
(* The keys a refused request went through. *)

(* s is a sequence. *)
IsSeq(s) == Len(s) \in Nat /\ DOMAIN s = 1 .. Len(s)

(* The clients before the n-th have refused the request. *)
TriedBefore(r, n) == \A j \in DOMAIN clients[r] : j < n => clients[r][j] \in refusals[r]

(* The clients are gone through one after the other, from the first one.      *)
Tried(r) ==
    /\ IsSeq(clients[r]) /\ at[r] \in Nat
    /\ pc[r] = "routing" => at[r] = 1
    /\ pc[r] = "calling" => TriedBefore(r, at[r])
    /\ pc[r] = "moving" => TriedBefore(r, at[r] + 1)
    /\ pc[r] = "turned away" => \A j \in DOMAIN clients[r] : clients[r][j] \in refusals[r]

TriedInOrder ==
    /\ IsFunction(pc) /\ IsFunction(at) /\ IsFunction(clients) /\ IsFunction(refusals)
    /\ \A r \in Requests : Tried(r)

(* A step of r leaves the other requests where they are. *)
Moves(r) ==
    /\ IsFunction(pc') /\ IsFunction(at') /\ IsFunction(clients') /\ IsFunction(refusals')
    /\ \A q \in Requests \ {r} : /\ pc'[q] = pc[q] /\ at'[q] = at[q]
                                 /\ clients'[q] = clients[q] /\ refusals'[q] = refusals[q]

(* It is enough to look at the request that moves.                            *)
LEMMA TriedMove ==
    ASSUME TriedInOrder, NEW r \in Requests, Moves(r), Tried(r)'
    PROVE  TriedInOrder'
  <1>1. ASSUME NEW q \in Requests \ {r} PROVE Tried(q)'
    <2>1. Tried(q)
      BY Zenon DEF TriedInOrder
    <2> QED
      BY Zenon, <2>1 DEF Tried, Moves, TriedBefore
  <1> QED
    BY Zenon, <1>1 DEF TriedInOrder, Moves, IsFunction

(* The empty sequence.                                                        *)
LEMMA EmptyIsSeq == IsSeq(<<>>)
  BY DEF IsSeq

(* One key is a sequence.                                                     *)
LEMMA OneIsSeq == ASSUME NEW key PROVE IsSeq(<<key>>)
  BY DEF IsSeq

(* A function on 1 .. n is a sequence.                                        *)
LEMMA ListIsSeq ==
    ASSUME NEW n \in Nat, NEW f, f = [i \in 1 .. n |-> f[i]]
    PROVE  IsSeq(f)
  <1> DEFINE S == {f[i] : i \in 1 .. n}
  <1>1. f \in [1 .. n -> S]
    BY Zenon
  <1>2. f \in Seq(S)
    BY <1>1
  <1> QED
    BY <1>2 DEF IsSeq

(* An order of finitely many keys is a sequence.                              *)
LEMMA OrderIsSeq ==
    ASSUME NEW S, IsFiniteSet(S), NEW s \in Orders(S)
    PROVE  IsSeq(s)
  <1>1. Cardinality(S) \in Nat /\ s \in [1 .. Cardinality(S) -> S]
    BY Zenon, FS_CardinalityType DEF Orders
  <1> QED
    BY Zenon, <1>1, ListIsSeq

(* What is left of a sequence of keys is a sequence.                          *)
LEMMA WithoutIsSeq ==
    ASSUME NEW s, IsSeq(s), NEW skipped
    PROVE  IsSeq(Without(s, skipped))
  <1> DEFINE kept == {i \in DOMAIN s : s[i] \notin skipped}
             t == Without(s, skipped)
  <1>1. IsFiniteSet(kept)
    <2>1. DOMAIN s = 1 .. Len(s) /\ 1 \in Int /\ Len(s) \in Int
      BY DEF IsSeq
    <2>2. IsFiniteSet(1 .. Len(s))
      BY Zenon, <2>1, FS_Interval
    <2>3. kept \subseteq 1 .. Len(s)
      BY Zenon, <2>1
    <2> QED
      BY Zenon, <2>2, <2>3, FS_Subset
  <1>2. Cardinality(kept) \in Nat
    BY Zenon, <1>1, FS_CardinalityType
  <1>3. t = [n \in 1 .. Cardinality(kept) |-> t[n]]
    BY SMT DEF Without
  <1> QED
    BY Zenon, <1>2, <1>3, ListIsSeq

(* Every action keeps it: a client is left behind when it has refused.        *)
LEMMA TriedStep == TriedInOrder /\ provider \in Providers /\ [Next]_vars => TriedInOrder'
  <1> SUFFICES ASSUME TriedInOrder, provider \in Providers, [Next]_vars PROVE TriedInOrder'
    OBVIOUS
  <1>0. ASSUME NEW r \in Requests PROVE Tried(r) /\ at[r] \in Nat /\ IsSeq(clients[r])
    BY Zenon, <1>0 DEF TriedInOrder, Tried
  <1>1. ASSUME NEW r \in Requests, Leave(r) PROVE TriedInOrder'
    <2>1. Moves(r) /\ pc'[r] = "done" /\ at'[r] = 1 /\ clients'[r] = <<>>
      BY Zenon, <1>1 DEF Leave, Goto, Moves, TriedInOrder, IsFunction
    <2>2. Tried(r)'
      <3>1. 1 \in Nat
        OBVIOUS
      <3> QED
        BY Zenon, <2>1, <3>1, EmptyIsSeq DEF Tried
    <2> QED
      BY Zenon, <2>1, <2>2, TriedMove
  <1>2. ASSUME NEW r \in Requests, NEW label,
               label \notin {"routing", "calling", "moving", "turned away"}, Goto(r, label),
               UNCHANGED at \/ (\E n \in Nat : at' = [at EXCEPT ![r] = n]),
               UNCHANGED clients,
               UNCHANGED refusals \/ (\E keys : refusals' = [refusals EXCEPT ![r] = keys])
        PROVE  TriedInOrder'
    <2>1. Moves(r) /\ pc'[r] = label /\ at'[r] \in Nat /\ clients'[r] = clients[r]
      BY Zenon, <1>0, <1>2 DEF Goto, Moves, TriedInOrder, IsFunction
    <2> QED
      BY Zenon, <1>0, <1>2, <2>1, TriedMove DEF Tried
  <1>3. ASSUME NEW r \in Requests PROVE at[r] + 1 \in Nat /\ 1 \in Nat
    BY <1>0
  <1>4. ASSUME NEW r \in Requests, PreRequest(r) PROVE TriedInOrder'
    BY Zenon, <1>1, <1>2, <1>4 DEF PreRequest
  <1>5. ASSUME NEW r \in Requests,
               AcquireWindow(r) \/ IncrementInFlight(r) \/ IncrementUserInFlight(r)
        PROVE  TriedInOrder'
    <2>1. UNCHANGED <<clients, refusals>> /\ (UNCHANGED at \/ at' = [at EXCEPT ![r] = @ + 1])
      BY ZenonT(30), <1>5 DEF AcquireWindow, IncrementInFlight, IncrementUserInFlight, Granted
    <2>2. Goto(r, "refused") \/ Goto(r, "sharing") \/ Goto(r, "acquiring")
      BY ZenonT(30), <1>5
         DEF AcquireWindow, IncrementInFlight, IncrementUserInFlight, Granted, Refuse
    <2> QED
      BY Zenon, <1>2, <1>3, <2>1, <2>2
  <1>6. ASSUME NEW r \in Requests, NEW keys, IsSeq(keys), Goto(r, "routing"),
               at' = [at EXCEPT ![r] = 1], clients' = [clients EXCEPT ![r] = keys],
               UNCHANGED refusals
        PROVE  TriedInOrder'
    <2>1. Moves(r) /\ pc'[r] = "routing" /\ at'[r] = 1 /\ clients'[r] = keys
      BY Zenon, <1>6 DEF Goto, Moves, TriedInOrder, IsFunction
    <2> QED
      BY Zenon, <1>3, <1>6, <2>1, TriedMove DEF Tried
  <1>7. ASSUME NEW r \in Requests, StartPicking(r) PROVE TriedInOrder'
    <2>1. CASE Pooled
      BY Zenon, <1>2, <1>3, <1>7, <2>1 DEF StartPicking
    <2>2. CASE ~Pooled
      BY Zenon, <1>6, <1>7, <2>2, OneIsSeq DEF StartPicking
    <2> QED
      BY Zenon, <2>1, <2>2
  <1>8. ASSUME NEW r \in Requests, keyStates(r) PROVE TriedInOrder'
    <2>1. /\ pc[r] = "picking" /\ UNCHANGED <<clients, refusals>>
          /\ UNCHANGED at \/ at' = [at EXCEPT ![r] = at[r] + 1]
          /\ UNCHANGED pc \/ Goto(r, "refused")
      BY Zenon, <1>8 DEF keyStates, Refuse
    <2>2. CASE UNCHANGED pc
      <3>1. Goto(r, "picking")
        BY <2>1, <2>2 DEF Goto, TriedInOrder, IsFunction
      <3> QED
        BY Zenon, <1>2, <1>3, <2>1, <3>1
    <2> QED
      BY Zenon, <1>2, <1>3, <2>1, <2>2
  <1>9. ASSUME NEW r \in Requests, pickKey(r) PROVE TriedInOrder'
    <2> DEFINE open == Keys \ closed[r]
    <2>1. CASE open = {}
      BY Zenon, <1>2, <1>9, <2>1 DEF pickKey, Refuse
    <2>2. CASE open # {}
      <3>1. IsFiniteSet(open)
        BY Zenon, PlanIsSequence, FS_Difference
      <3> QED
        BY Zenon, <1>6, <1>9, <2>2, <3>1, OrderIsSeq DEF pickKey
    <2> QED
      BY Zenon, <2>1, <2>2
  <1>10. ASSUME NEW r \in Requests, Route(r) PROVE TriedInOrder'
    <2>1. CASE Goto(r, "failed") /\ UNCHANGED clients
      BY Zenon, <1>2, <1>10, <2>1 DEF Route
    <2>2. ASSUME NEW skipped, clients' = [clients EXCEPT ![r] = Without(@, skipped)],
                 Goto(r, "calling")
          PROVE  TriedInOrder'
      <3>1. pc[r] = "routing" /\ UNCHANGED <<at, refusals>>
        BY Zenon, <1>10 DEF Route
      <3>2. /\ Moves(r) /\ pc'[r] = "calling" /\ clients'[r] = Without(clients[r], skipped)
            /\ at'[r] = at[r]
        BY Zenon, <2>2, <3>1 DEF Goto, Moves, TriedInOrder, IsFunction
      <3>3. IsSeq(clients'[r]) /\ at[r] = 1
        BY Zenon, <1>0, <3>1, <3>2, WithoutIsSeq DEF Tried
      <3>4. \A j \in DOMAIN clients'[r] : ~(j < 1)
        BY <3>3 DEF IsSeq
      <3>5. Tried(r)'
        BY Zenon, <1>3, <3>2, <3>3, <3>4 DEF Tried, TriedBefore
      <3> QED
        BY Zenon, <3>2, <3>5, TriedMove
    <2> QED
      BY Zenon, <1>10, <2>1, <2>2 DEF Route
  <1>11. ASSUME NEW r \in Requests, Served(r) \/ Failed(r) \/ Cut(r) PROVE TriedInOrder'
    BY Zenon, <1>2, <1>11 DEF Served, Failed, Cut
  <1>12. ASSUME NEW r \in Requests, Exhausted(r) PROVE TriedInOrder'
    <2>1. /\ pc[r] = "calling" /\ UNCHANGED <<at, clients>>
          /\ refusals' = [refusals EXCEPT ![r] = @ \cup {UsedKey(r)}]
          /\ Goto(r, IF MovesOn(r) THEN "moving" ELSE "turned away")
      BY Zenon, <1>12 DEF Exhausted
    <2>2. /\ Moves(r) /\ pc'[r] = IF MovesOn(r) THEN "moving" ELSE "turned away"
          /\ refusals'[r] = refusals[r] \cup {UsedKey(r)}
      BY Zenon, <2>1 DEF Goto, Moves, TriedInOrder, IsFunction
    <2>3. TriedBefore(r, at[r] + 1)'
      <3> SUFFICES ASSUME NEW j \in DOMAIN clients[r], j < at[r] + 1
                   PROVE  clients[r][j] \in refusals'[r]
        BY Zenon, <2>1 DEF TriedBefore
      <3>1. j < at[r] \/ j = at[r]
        BY <1>0 DEF IsSeq
      <3>2. j < at[r] => clients[r][j] \in refusals[r]
        BY Zenon, <1>0, <2>1 DEF Tried, TriedBefore
      <3> QED
        BY Zenon, <2>2, <3>1, <3>2 DEF UsedKey
    <2>4. ~MovesOn(r) => \A j \in DOMAIN clients[r] : j < at[r] + 1
      BY <1>0 DEF MovesOn, IsSeq
    <2>5. Tried(r)'
      BY Zenon, <1>0, <2>1, <2>2, <2>3, <2>4 DEF Tried, TriedBefore
    <2> QED
      BY Zenon, <2>2, <2>5, TriedMove
  <1>13. ASSUME NEW r \in Requests, MoveOn(r) PROVE TriedInOrder'
    <2>1. /\ pc[r] = "moving" /\ UNCHANGED <<clients, refusals>> /\ Goto(r, "calling")
          /\ at' = [at EXCEPT ![r] = @ + 1]
      BY Zenon, <1>13 DEF MoveOn
    <2>2. /\ Moves(r) /\ pc'[r] = "calling" /\ at'[r] = at[r] + 1
      BY Zenon, <2>1 DEF Goto, Moves, TriedInOrder, IsFunction
    <2>3. Tried(r)'
      BY Zenon, <1>0, <1>3, <2>1, <2>2 DEF Tried, TriedBefore
    <2> QED
      BY Zenon, <2>2, <2>3, TriedMove
  <1>14. ASSUME NEW r \in Requests,
                Refused(r) \/ OnExhaustion(r) \/ OnOtherError(r) \/ RecordUsage(r)
         PROVE  TriedInOrder'
    BY Zenon, <1>1, <1>14 DEF Refused, OnExhaustion, OnOtherError, RecordUsage
  <1>15. ASSUME UNCHANGED <<pc, at, clients, refusals>> PROVE TriedInOrder'
    BY Zenon, <1>15 DEF TriedInOrder, Tried, TriedBefore, IsFunction
  <1>16. ASSUME NEW r \in Requests, releaseAll(r) PROVE TriedInOrder'
    BY Zenon, <1>15, <1>16 DEF releaseAll
  <1>17. ASSUME NEW mark \in exhausted, CooldownEnds(mark[1], mark[3]) PROVE TriedInOrder'
    BY Zenon, <1>15, <1>17 DEF CooldownEnds
  <1>18. CASE WindowEnds \/ Rest \/ UNCHANGED vars
    BY Zenon, <1>15, <1>18 DEF WindowEnds, Rest, vars
  <1> QED
    BY Zenon, <1>4, <1>5, <1>7, <1>8, <1>9, <1>10, <1>11, <1>12, <1>13, <1>14, <1>16, <1>17, <1>18
       DEF Next, Step, Admission, Service

(* EveryKeyTried holds for any requests, keys and plans: a request is only    *)
(* told that the plan is exhausted once every key it was given, those that    *)
(* could not be used left out, has refused it.                                *)
THEOREM AllKeysTried == Spec => []EveryKeyTried
  <1>1. Init => TriedInOrder
    <2> SUFFICES ASSUME Init PROVE TriedInOrder
      OBVIOUS
    <2>1. /\ IsFunction(pc) /\ IsFunction(at) /\ IsFunction(clients) /\ IsFunction(refusals)
          /\ \A r \in Requests : /\ pc[r] \in {"arriving", "done"} /\ at[r] = 1
                                 /\ clients[r] = <<>>
      BY Zenon DEF Init, IsFunction
    <2>2. 1 \in Nat
      OBVIOUS
    <2> QED
      BY Zenon, <2>1, <2>2, EmptyIsSeq DEF TriedInOrder, Tried
  <1>2. TriedInOrder => EveryKeyTried
    BY Zenon DEF TriedInOrder, Tried, EveryKeyTried
  <1>3. AdmissionInv => provider \in Providers
    BY Zenon DEF AdmissionInv, Typed
  <1> QED
    BY <1>1, <1>2, <1>3, AdmissionInit, AdmissionStep, TriedStep, PTL DEF Spec
=============================================================================
