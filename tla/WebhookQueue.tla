---------------------------- MODULE WebhookQueue ----------------------------
(***************************************************************************)
(* The delivery queue of the webhooks: how the workers of every replica    *)
(* claim the rows of webhook_deliveries, attempt them, record the result,  *)
(* and how the sweep closes and removes them.                              *)
(*                                                                         *)
(* One step is one SQL statement.  Between two statements of a worker any  *)
(* other process may run, a lease may expire, the subscription may be      *)
(* paused, reset or deleted, and the worker itself may stop.               *)
(*                                                                         *)
(* Time is abstracted to the three comparisons the statements make with    *)
(* it: due (next_attempt <= now), expired (lease_until <= now) and aged    *)
(* (created_at <= now - WebhookMaxAge).  Each becomes true at an arbitrary *)
(* moment.                                                                 *)
(*                                                                         *)
(* The steps are those of PostgreSQL at READ COMMITTED.  SQLite has fewer  *)
(* interleavings: a statement there runs alone.                            *)
(***************************************************************************)
EXTENDS Naturals, FiniteSets

CONSTANTS
    Deliveries,   \* identities of the rows of webhook_deliveries (uuid: never reused)
    Workers,      \* the runWorker goroutines of every replica
    MaxAttempts,  \* model.WebhookMaxAttempts
    ClaimBatch    \* webhookClaimBatch: candidates read per claim

ASSUME MaxAttemptsAssumption == MaxAttempts \in Nat \ {0}
ASSUME ClaimBatchAssumption  == ClaimBatch \in Nat \ {0}

VARIABLES
    dstate,     \* state of each row; "absent" before its insertion, "removed" after its deletion
    attempts,   \* the attempts column
    lease,      \* the lease column, NoLease for ""
    due,        \* next_attempt <= now
    expired,    \* lease_until <= now
    aged,       \* created_at <= now - WebhookMaxAge
    paused,     \* the subscription is disabled, or its tenant suspended
    leases,     \* number of leases drawn so far: the next uuid is fresh
    pc,         \* where each worker is in runWorker
    cand,       \* the candidates of its current ClaimWebhook not yet tried
    job,        \* the attempt each worker leased last
    selected,   \* the rows the running sweep statement selected
    sends,      \* history: the attempts of each delivery whose request was sent
    acked       \* history: deliveries a receiver answered with a 2xx

rows    == <<dstate, attempts, lease, due, expired, aged>>
workers == <<pc, cand, job>>
history == <<sends, acked>>
vars    == <<dstate, attempts, lease, due, expired, aged, paused, leases,
             pc, cand, job, selected, sends, acked>>

NoLease   == 0
Queued    == {"pending", "leased"}
Finished  == {"delivered", "failed"}
RowStates == Queued \cup Finished

Job == [d : Deliveries, lease : Nat, attempts : Nat]
NoJob == [d |-> "none", lease |-> NoLease, attempts |-> 0]

(* What the candidate query of ClaimWebhook selects for each row. *)
Candidate == [d : Deliveries, state : Queued, lease : Nat, attempts : Nat]

Init ==
    /\ dstate   = [d \in Deliveries |-> "absent"]
    /\ attempts = [d \in Deliveries |-> 0]
    /\ lease    = [d \in Deliveries |-> NoLease]
    /\ due      = [d \in Deliveries |-> FALSE]
    /\ expired  = [d \in Deliveries |-> FALSE]
    /\ aged     = [d \in Deliveries |-> FALSE]
    /\ paused   = FALSE
    /\ leases   = 0
    /\ pc       = [w \in Workers |-> "idle"]
    /\ cand     = [w \in Workers |-> {}]
    /\ job      = [w \in Workers |-> NoJob]
    /\ selected = {}
    /\ sends    = [d \in Deliveries |-> {}]
    /\ acked    = {}

-----------------------------------------------------------------------------
(* Preparation, reset and deletion, as far as the queue sees them. *)

(* prepareWebhook inserts a delivery, due at once. *)
Enqueue(d) ==
    /\ dstate[d] = "absent"
    /\ dstate'  = [dstate EXCEPT ![d] = "pending"]
    /\ due'     = [due EXCEPT ![d] = TRUE]
    /\ expired' = [expired EXCEPT ![d] = TRUE]
    /\ UNCHANGED <<attempts, lease, aged, paused, leases, workers, selected, history>>

(* ResetWebhook and DeleteWebhook remove the rows of a subscription whatever  *)
(* their state.                                                               *)
Drop(d) ==
    /\ dstate[d] \in RowStates
    /\ dstate' = [dstate EXCEPT ![d] = "removed"]
    /\ UNCHANGED <<attempts, lease, due, expired, aged, paused, leases, workers,
                   selected, history>>

(* PutWebhook switches enabled; a tenant is suspended or reactivated. *)
SetPaused ==
    /\ paused' = ~paused
    /\ UNCHANGED <<rows, leases, workers, selected, history>>

-----------------------------------------------------------------------------
(* The passing of time. *)

BecomeDue(d) ==
    /\ dstate[d] = "pending" /\ ~due[d]
    /\ due' = [due EXCEPT ![d] = TRUE]
    /\ UNCHANGED <<dstate, attempts, lease, expired, aged, paused, leases, workers,
                   selected, history>>

LeaseExpires(d) ==
    /\ dstate[d] = "leased" /\ ~expired[d]
    /\ expired' = [expired EXCEPT ![d] = TRUE]
    /\ UNCHANGED <<dstate, attempts, lease, due, aged, paused, leases, workers,
                   selected, history>>

GrowOld(d) ==
    /\ dstate[d] \in Queued /\ ~aged[d]
    /\ aged' = [aged EXCEPT ![d] = TRUE]
    /\ UNCHANGED <<dstate, attempts, lease, due, expired, paused, leases, workers,
                   selected, history>>

-----------------------------------------------------------------------------
(* ClaimWebhook *)

(* Mutant: the candidate query forgets the attempts already spent. *)
ClaimableSpent(d) ==
    /\ ~paused
    /\ \/ dstate[d] = "pending" /\ due[d]
       \/ dstate[d] = "leased" /\ expired[d]
    /\ ~aged[d]

(* The WHERE clause of the candidate query. *)
Claimable(d) ==
    /\ ~paused
    /\ \/ dstate[d] = "pending" /\ due[d]
       \/ dstate[d] = "leased" /\ expired[d]
    /\ attempts[d] < MaxAttempts
    /\ ~aged[d]

CandidateOf(d) ==
    [d |-> d, state |-> dstate[d], lease |-> lease[d], attempts |-> attempts[d]]

(* At most ClaimBatch candidates are read, the earliest ones; which ones are  *)
(* earliest is left open.                                                     *)
ClaimRead(w) ==
    /\ pc[w] = "idle"
    /\ LET claimable == {d \in Deliveries : Claimable(d)} IN
       \E chosen \in SUBSET claimable :
          /\ chosen # {}
          /\ Cardinality(chosen) <= ClaimBatch
          /\ \/ chosen = claimable
             \/ Cardinality(chosen) = ClaimBatch
          /\ cand' = [cand EXCEPT ![w] = {CandidateOf(d) : d \in chosen}]
    /\ pc' = [pc EXCEPT ![w] = "claiming"]
    /\ UNCHANGED <<rows, paused, leases, job, selected, history>>

(* The worker starts its loop again, with nothing in hand. *)
Return(w) ==
    /\ pc'   = [pc EXCEPT ![w] = "idle"]
    /\ cand' = [cand EXCEPT ![w] = {}]
    /\ job'  = [job EXCEPT ![w] = NoJob]

(* Mutants: the conditional update compares the state, or the lease, only. *)
UnchangedState(c) == dstate[c.d] = c.state
UnchangedLease(c) == dstate[c.d] \in RowStates /\ lease[c.d] = c.lease

(* The row is still as the candidate query read it. *)
Unchanged(c) ==
    /\ dstate[c.d] = c.state
    /\ lease[c.d] = c.lease
    /\ attempts[c.d] = c.attempts

(* The conditional update of one candidate: it leases the row, or misses. *)
ClaimUpdate(w) ==
    /\ pc[w] = "claiming"
    /\ \E c \in cand[w] :
          /\ cand' = [cand EXCEPT ![w] = @ \ {c}]
          /\ IF Unchanged(c)
             THEN /\ leases'   = leases + 1
                  /\ dstate'   = [dstate EXCEPT ![c.d] = "leased"]
                  /\ lease'    = [lease EXCEPT ![c.d] = leases + 1]
                  /\ attempts' = [attempts EXCEPT ![c.d] = c.attempts + 1]
                  /\ expired'  = [expired EXCEPT ![c.d] = FALSE]
                  /\ job' = [job EXCEPT ![w] =
                               [d |-> c.d, lease |-> leases + 1, attempts |-> c.attempts + 1]]
                  /\ pc'  = [pc EXCEPT ![w] = "leased"]
             ELSE UNCHANGED <<leases, dstate, lease, attempts, expired, job, pc>>
    /\ UNCHANGED <<due, aged, paused, selected, history>>

(* The row a worker believes it leased still carries its lease. *)
HoldsLease(w) ==
    /\ dstate[job[w].d] \in RowStates
    /\ lease[job[w].d] = job[w].lease

(* The job is read back.  Gone - reset, deleted, or leased again - the next   *)
(* candidate is tried.                                                        *)
ClaimLoad(w) ==
    /\ pc[w] = "leased"
    /\ IF HoldsLease(w)
       THEN pc' = [pc EXCEPT ![w] = "sending"] /\ UNCHANGED job
       ELSE pc' = [pc EXCEPT ![w] = "claiming"] /\ job' = [job EXCEPT ![w] = NoJob]
    /\ UNCHANGED <<rows, paused, leases, cand, selected, history>>

(* No candidate left: ClaimWebhook returns nil and the worker sleeps. *)
ClaimNone(w) ==
    /\ pc[w] = "claiming"
    /\ cand[w] = {}
    /\ Return(w)
    /\ UNCHANGED <<rows, paused, leases, selected, history>>

-----------------------------------------------------------------------------
(* deliver and FinishWebhook *)

(* SendWebhook: the receiver gets the request and answers a 2xx, or the       *)
(* attempt ends in anything else.                                             *)
Send(w) ==
    /\ pc[w] = "sending"
    /\ sends' = [sends EXCEPT ![job[w].d] = @ \cup {job[w].attempts}]
    /\ \/ /\ pc' = [pc EXCEPT ![w] = "accepted"]
          /\ acked' = acked \cup {job[w].d}
       \/ /\ pc' = [pc EXCEPT ![w] = "rejected"]
          /\ acked' = acked
    /\ UNCHANGED <<rows, paused, leases, cand, job, selected>>

(* The secrets cannot be read, or the destination is refused: nothing leaves. *)
SendNothing(w) ==
    /\ pc[w] = "sending"
    /\ pc' = [pc EXCEPT ![w] = "rejected"]
    /\ UNCHANGED <<rows, paused, leases, cand, job, selected, history>>

(* Mutant: the attempts are counted from zero. *)
OutcomeOffByOne(w) ==
    IF pc[w] = "accepted" THEN "delivered"
    ELSE IF job[w].attempts + 1 >= MaxAttempts \/ aged[job[w].d] THEN "failed"
    ELSE "pending"

(* The state FinishWebhook gives the row. *)
Outcome(w) ==
    IF pc[w] = "accepted" THEN "delivered"
    ELSE IF job[w].attempts >= MaxAttempts \/ aged[job[w].d] THEN "failed"
    ELSE "pending"

(* Mutant: a result is recorded on any leased row. *)
MayRecordAnyLease(w) == dstate[job[w].d] = "leased"

(* The WHERE clause of FinishWebhook. *)
MayRecord(w) ==
    /\ dstate[job[w].d] = "leased"
    /\ lease[job[w].d] = job[w].lease

(* The result is recorded under the lease of the attempt, otherwise it is     *)
(* refused with ErrWebhookLeaseLost.                                          *)
Finish(w) ==
    /\ pc[w] \in {"accepted", "rejected"}
    /\ IF MayRecord(w)
       THEN /\ dstate' = [dstate EXCEPT ![job[w].d] = Outcome(w)]
            /\ lease'  = [lease EXCEPT ![job[w].d] = NoLease]
            /\ due'    = [due EXCEPT ![job[w].d] = FALSE]
       ELSE UNCHANGED <<dstate, lease, due>>
    /\ Return(w)
    /\ UNCHANGED <<attempts, expired, aged, paused, leases, selected, history>>

(* The process stops, the context is cancelled or the database fails: nothing *)
(* more of this attempt is recorded, and its lease is left to expire.         *)
Abandon(w) ==
    /\ pc[w] # "idle"
    /\ Return(w)
    /\ UNCHANGED <<rows, paused, leases, selected, history>>

-----------------------------------------------------------------------------
(* SweepWebhooks *)

(* Mutant: the sweep forgets the deliveries left leased by a stopped worker. *)
ExhaustedPending(d) ==
    /\ dstate[d] = "pending"
    /\ aged[d] \/ attempts[d] >= MaxAttempts

(* The deliveries out of attempts or of time. *)
Exhausted(d) ==
    /\ dstate[d] = "pending" \/ (dstate[d] = "leased" /\ expired[d])
    /\ aged[d] \/ attempts[d] >= MaxAttempts

Close(ids) ==
    /\ dstate' = [d \in Deliveries |-> IF d \in ids THEN "failed" ELSE dstate[d]]
    /\ lease'  = [d \in Deliveries |-> IF d \in ids THEN NoLease ELSE lease[d]]
    /\ UNCHANGED <<attempts, due, expired, aged, paused, leases, workers, history>>

(* UPDATE ... WHERE id IN (SELECT ...): the subquery reads the snapshot of    *)
(* the statement ...                                                          *)
SweepSelect ==
    /\ selected = {}
    /\ selected' = {d \in Deliveries : Exhausted(d)}
    /\ selected' # {}
    /\ UNCHANGED <<rows, paused, leases, workers, history>>

(* ... and on PostgreSQL a row written meanwhile is checked again on          *)
(* id IN (...) only, which still holds: the latest version of every selected  *)
(* row that still exists is updated.  On SQLite nothing comes in between.     *)
SweepUpdate ==
    /\ selected # {}
    /\ Close({d \in selected : dstate[d] \in RowStates})
    /\ selected' = {}

(* The second step of the sweep removes a delivery finished long ago. *)
SweepRemove(d) ==
    /\ dstate[d] \in Finished
    /\ dstate' = [dstate EXCEPT ![d] = "removed"]
    /\ UNCHANGED <<attempts, lease, due, expired, aged, paused, leases, workers,
                   selected, history>>

-----------------------------------------------------------------------------
Worker(w) ==
    \/ ClaimRead(w) \/ ClaimUpdate(w) \/ ClaimLoad(w) \/ ClaimNone(w)
    \/ Send(w) \/ SendNothing(w) \/ Finish(w)

Time(d) == BecomeDue(d) \/ LeaseExpires(d) \/ GrowOld(d)

Sweep == SweepSelect \/ SweepUpdate

Next ==
    \/ \E d \in Deliveries : Enqueue(d) \/ Drop(d) \/ SweepRemove(d) \/ Time(d)
    \/ \E w \in Workers : Worker(w) \/ Abandon(w)
    \/ SetPaused
    \/ Sweep

Spec == Init /\ [][Next]_vars

(* The clock advances and the maintenance goroutine of some replica keeps     *)
(* sweeping.  No fairness is asked of the workers: they may all be stopped.   *)
FairSpec ==
    /\ Spec
    /\ \A d \in Deliveries : WF_vars(LeaseExpires(d)) /\ WF_vars(GrowOld(d))
    /\ WF_vars(Sweep)
-----------------------------------------------------------------------------
(* Properties *)

TypeOK ==
    /\ dstate   \in [Deliveries -> RowStates \cup {"absent", "removed"}]
    /\ attempts \in [Deliveries -> 0..MaxAttempts]
    /\ lease    \in [Deliveries -> Nat]
    /\ due      \in [Deliveries -> BOOLEAN]
    /\ expired  \in [Deliveries -> BOOLEAN]
    /\ aged     \in [Deliveries -> BOOLEAN]
    /\ paused   \in BOOLEAN
    /\ leases   \in Nat
    /\ pc       \in [Workers -> {"idle", "claiming", "leased", "sending", "accepted", "rejected"}]
    /\ cand     \in [Workers -> SUBSET Candidate]
    /\ job      \in [Workers -> Job \cup {NoJob}]
    /\ selected \in SUBSET Deliveries
    /\ sends    \in [Deliveries -> SUBSET Nat]
    /\ acked    \in SUBSET Deliveries

(* A worker between its claim and the end of its attempt. *)
Busy(w) == pc[w] \in {"leased", "sending", "accepted", "rejected"}

(* "Concurrent workers, on any replica, never lease the same attempt twice"   *)
(* (ClaimWebhook): two busy workers never carry the same attempt of one       *)
(* delivery, however stale the candidates they read.                          *)
AttemptIsExclusive ==
    \A v, w \in Workers :
        v # w /\ Busy(v) /\ Busy(w) /\ job[v].d = job[w].d
            => job[v].attempts # job[w].attempts

(* The attempts column counts every request that really left and no attempt   *)
(* is sent twice, so the cap of ClaimWebhook on it bounds the requests: no    *)
(* receiver ever gets a delivery more than MaxAttempts times.                 *)
SendsWithinAttempts ==
    /\ \A d \in Deliveries : sends[d] \subseteq 1..attempts[d] /\ attempts[d] <= MaxAttempts
    /\ \A w \in Workers :
          pc[w] \in {"leased", "sending"} => job[w].attempts \notin sends[job[w].d]

(* A delivery is recorded delivered only when a receiver answered a 2xx to    *)
(* it, and given up only when its attempts or its time are spent: an early    *)
(* failure of one attempt, a crash or a pause never fails it.                 *)
OutcomeIsTruthful ==
    \A d \in Deliveries :
        /\ dstate[d] = "delivered" => d \in acked
        /\ dstate[d] = "failed" => attempts[d] = MaxAttempts \/ aged[d]

(* A late result never overwrites a newer attempt (FinishWebhook): a worker   *)
(* changes a row only while its own attempt is the latest one of that row.    *)
LateResultHarmless ==
    [][\A w \in Workers :
        pc[w] \in {"accepted", "rejected"} /\ pc'[w] = "idle" /\ rows' # rows
            => attempts[job[w].d] = job[w].attempts]_vars

(* A finished delivery is never queued again, by however late a claim or a    *)
(* result: it stays finished until it is removed.                             *)
NeverReopened ==
    [][\A d \in Deliveries :
        dstate[d] \in Finished => dstate'[d] \in Finished \cup {"removed"}]_vars

(* "A 2xx acknowledges the delivery": once recorded, it is not reported       *)
(* failed by the sweep.                                                       *)
AcknowledgementIsFinal ==
    [][\A d \in Deliveries :
        dstate[d] = "delivered" => dstate'[d] \in {"delivered", "removed"}]_vars

(* Every queued delivery is closed in the end, even if every worker stopped   *)
(* in the middle of its attempt and the subscription stays paused: the lease  *)
(* expires, the delivery grows old and the sweep fails it.                    *)
ClosesEventually ==
    \A d \in Deliveries : dstate[d] \in Queued ~> dstate[d] \notin Queued
=============================================================================
