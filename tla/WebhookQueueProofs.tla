------------------------- MODULE WebhookQueueProofs -------------------------
(***************************************************************************)
(* Proofs about WebhookQueue, for any sets of deliveries and workers, any  *)
(* number of attempts and any claim batch.                                 *)
(***************************************************************************)
EXTENDS WebhookQueue, TLAPS

(* A candidate was read with an attempt left to spend. *)
CandidatesOK == \A w \in Workers : \A c \in cand[w] : c.attempts < MaxAttempts

(* A busy worker carries an attempt its row has counted and a lease that was  *)
(* drawn; while the row keeps that lease, no later attempt has begun.         *)
JobsOK ==
    \A w \in Workers : Busy(w) =>
        /\ job[w] \in Job
        /\ 1 <= job[w].lease /\ job[w].lease <= leases
        /\ 1 <= job[w].attempts /\ job[w].attempts <= attempts[job[w].d]
        /\ lease[job[w].d] = job[w].lease => attempts[job[w].d] = job[w].attempts

(* What the sweep selected stays out of attempts or of time. *)
SelectedOK == \A d \in selected : aged[d] \/ attempts[d] = MaxAttempts

(* A worker that believes in a 2xx got one. *)
AcceptedOK == \A w \in Workers : pc[w] = "accepted" => job[w].d \in acked

(* The inductive invariant. *)
IInv ==
    /\ TypeOK
    /\ CandidatesOK
    /\ JobsOK
    /\ AttemptIsExclusive
    /\ SendsWithinAttempts
    /\ SelectedOK
    /\ AcceptedOK
    /\ OutcomeIsTruthful

-----------------------------------------------------------------------------
(* An empty queue satisfies the invariant. *)
LEMMA InitIInv == Init => IInv
<1> SUFFICES ASSUME Init PROVE IInv
  OBVIOUS
<1>1. TypeOK
  <2>1. job \in [Workers -> Job \cup {NoJob}]
    BY DEF Init
  <2>2. /\ attempts \in [Deliveries -> 0..MaxAttempts] /\ lease \in [Deliveries -> Nat]
        /\ leases \in Nat
    BY MaxAttemptsAssumption DEF Init, NoLease
  <2>3. /\ due \in [Deliveries -> BOOLEAN] /\ expired \in [Deliveries -> BOOLEAN]
        /\ aged \in [Deliveries -> BOOLEAN] /\ paused \in BOOLEAN
    BY Zenon DEF Init
  <2>4. /\ dstate \in [Deliveries -> RowStates \cup {"absent", "removed"}]
        /\ pc \in [Workers -> {"idle", "claiming", "leased", "sending", "accepted", "rejected"}]
    BY DEF Init
  <2>5. /\ cand \in [Workers -> SUBSET Candidate] /\ selected \in SUBSET Deliveries
        /\ sends \in [Deliveries -> SUBSET Nat] /\ acked \in SUBSET Deliveries
    BY DEF Init
  <2> QED
    BY <2>1, <2>2, <2>3, <2>4, <2>5 DEF TypeOK
<1>2. CandidatesOK /\ JobsOK /\ AttemptIsExclusive /\ AcceptedOK
  BY DEF Init, CandidatesOK, JobsOK, AttemptIsExclusive, AcceptedOK, Busy
<1>3. SendsWithinAttempts /\ SelectedOK /\ OutcomeIsTruthful
  BY MaxAttemptsAssumption DEF Init, SendsWithinAttempts, SelectedOK, OutcomeIsTruthful
<1> QED
  BY <1>1, <1>2, <1>3 DEF IInv

(* Steps that leave the workers, their history and the attempts alone: the    *)
(* insertion, the removal and the clocks of a delivery, the pause.            *)
LEMMA EnvironmentIInv ==
    ASSUME IInv,
           UNCHANGED <<attempts, lease, leases, workers, selected, history>>,
           dstate' \in [Deliveries -> RowStates \cup {"absent", "removed"}],
           \A d \in Deliveries : dstate'[d] \in Finished => dstate[d] = dstate'[d],
           due' \in [Deliveries -> BOOLEAN],
           expired' \in [Deliveries -> BOOLEAN],
           aged' \in [Deliveries -> BOOLEAN],
           \A d \in Deliveries : aged[d] => aged'[d],
           paused' \in BOOLEAN
    PROVE  IInv'
<1>1. TypeOK'
  BY DEF IInv, TypeOK, workers, history
<1>2. CandidatesOK' /\ JobsOK' /\ AttemptIsExclusive' /\ SendsWithinAttempts' /\ AcceptedOK'
  BY DEF IInv, CandidatesOK, JobsOK, AttemptIsExclusive, SendsWithinAttempts, AcceptedOK, Busy,
         workers, history
<1>3. SelectedOK' /\ OutcomeIsTruthful'
  BY DEF IInv, TypeOK, SelectedOK, OutcomeIsTruthful, Finished, history
<1> QED
  BY <1>1, <1>2, <1>3 DEF IInv

(* A step after which a busy worker was busy before with the same job, no     *)
(* less far in its attempt.                                                   *)
NoNewWork ==
    \A v \in Workers : Busy(v)' =>
        /\ Busy(v) /\ job'[v] = job[v]
        /\ pc'[v] \in {"leased", "sending"} => pc[v] \in {"leased", "sending"}
        /\ pc'[v] = "accepted" => pc[v] = "accepted"

(* Such a step keeps what is known of the busy workers. *)
LEMMA NoNewWorkKeeps ==
    ASSUME IInv, NoNewWork, UNCHANGED <<attempts, history>>
    PROVE  /\ AttemptIsExclusive' /\ SendsWithinAttempts' /\ AcceptedOK'
           /\ UNCHANGED <<lease, leases>> => JobsOK'
<1>1. AttemptIsExclusive'
  BY DEF IInv, AttemptIsExclusive, NoNewWork
<1>2. SendsWithinAttempts'
  <2>1. ASSUME NEW v \in Workers, pc'[v] \in {"leased", "sending"}
        PROVE  pc[v] \in {"leased", "sending"} /\ job'[v] = job[v]
    BY <2>1 DEF NoNewWork, Busy
  <2>2. sends' = sends /\ attempts' = attempts
    BY DEF history
  <2> QED
    BY <2>1, <2>2 DEF IInv, SendsWithinAttempts
<1>3. AcceptedOK'
  <2>1. ASSUME NEW v \in Workers, pc'[v] = "accepted"
        PROVE  pc[v] = "accepted" /\ job'[v] = job[v]
    BY <2>1 DEF NoNewWork, Busy
  <2> QED
    BY <2>1 DEF IInv, AcceptedOK, history
<1>4. ASSUME UNCHANGED <<lease, leases>> PROVE JobsOK'
  BY <1>4 DEF IInv, JobsOK, NoNewWork
<1> QED
  BY <1>1, <1>2, <1>3, <1>4

(* A worker that goes idle, the rows unchanged. *)
LEMMA ReturnIInv ==
    ASSUME IInv, NEW w \in Workers, Return(w),
           UNCHANGED <<rows, paused, leases, selected, history>>
    PROVE  IInv'
<1>1. TypeOK'
  BY DEF IInv, TypeOK, Return, rows, history
<1>2. CandidatesOK' /\ NoNewWork
  <2>1. pc'[w] = "idle" /\ cand'[w] = {}
    BY DEF IInv, TypeOK, Return
  <2>2. \A v \in Workers \ {w} : pc'[v] = pc[v] /\ job'[v] = job[v] /\ cand'[v] = cand[v]
    BY DEF IInv, TypeOK, Return
  <2> QED
    BY <2>1, <2>2 DEF IInv, CandidatesOK, NoNewWork, Busy
<1>3. SelectedOK' /\ OutcomeIsTruthful'
  BY DEF IInv, SelectedOK, OutcomeIsTruthful, rows, history
<1> QED
  BY <1>1, <1>2, <1>3, NoNewWorkKeeps DEF IInv, rows

-----------------------------------------------------------------------------
(* The steps of ClaimWebhook. *)

(* Reading the candidates of a claim keeps the invariant. *)
LEMMA ClaimReadIInv ==
    ASSUME IInv, NEW w \in Workers, ClaimRead(w)
    PROVE  IInv'
<1>1. PICK chosen \in SUBSET {d \in Deliveries : Claimable(d)} :
         cand' = [cand EXCEPT ![w] = {CandidateOf(d) : d \in chosen}]
  BY ZenonT(30) DEF ClaimRead
<1>2. \A d \in chosen : CandidateOf(d) \in Candidate /\ CandidateOf(d).attempts < MaxAttempts
  BY DEF IInv, TypeOK, Claimable, CandidateOf, Candidate, Queued
<1> DEFINE read == {CandidateOf(d) : d \in chosen}
<1>3. read \in SUBSET Candidate /\ \A c \in read : c.attempts < MaxAttempts
  <2> HIDE DEF CandidateOf
  <2> QED
    BY <1>2
<1>4. cand' = [cand EXCEPT ![w] = read] /\ cand \in [Workers -> SUBSET Candidate]
  BY <1>1 DEF IInv, TypeOK
<1> HIDE DEF read
<1>5. TypeOK'
  BY <1>3, <1>4 DEF IInv, TypeOK, ClaimRead, rows, history
<1>6. CandidatesOK'
  BY <1>3, <1>4 DEF IInv, CandidatesOK
<1>7. NoNewWork
  BY DEF IInv, TypeOK, NoNewWork, Busy, ClaimRead
<1>8. SelectedOK' /\ OutcomeIsTruthful'
  BY DEF IInv, SelectedOK, OutcomeIsTruthful, ClaimRead, rows, history
<1> QED
  BY <1>5, <1>6, <1>7, <1>8, NoNewWorkKeeps DEF IInv, ClaimRead, rows

(* The conditional update: the attempt it leases is later than every attempt  *)
(* another worker carries, and not sent yet.                                  *)
LEMMA ClaimUpdateIInv ==
    ASSUME IInv, NEW w \in Workers, ClaimUpdate(w)
    PROVE  IInv'
<1>1. PICK c \in cand[w] :
         /\ cand' = [cand EXCEPT ![w] = @ \ {c}]
         /\ IF Unchanged(c)
            THEN /\ leases'   = leases + 1
                 /\ dstate'   = [dstate EXCEPT ![c.d] = "leased"]
                 /\ lease'    = [lease EXCEPT ![c.d] = leases + 1]
                 /\ attempts' = [attempts EXCEPT ![c.d] = c.attempts + 1]
                 /\ expired'  = [expired EXCEPT ![c.d] = FALSE]
                 /\ job' = [job EXCEPT ![w] =
                              [d |-> c.d, lease |-> leases + 1, attempts |-> c.attempts + 1]]
                 /\ pc'  = [pc EXCEPT ![w] = "leased"]
            ELSE UNCHANGED <<leases, dstate, lease, attempts, expired, job, pc>>
  BY ZenonT(30) DEF ClaimUpdate
<1>2. pc[w] = "claiming" /\ UNCHANGED <<due, aged, paused, selected, history>>
  BY DEF ClaimUpdate
<1>3. c \in Candidate /\ c.d \in Deliveries /\ c.attempts \in Nat /\ c.attempts < MaxAttempts
  BY DEF IInv, TypeOK, CandidatesOK, Candidate
<1>4. CandidatesOK'
  BY <1>1 DEF IInv, TypeOK, CandidatesOK
<1>5. CASE ~Unchanged(c)
  <2>1. UNCHANGED <<rows, paused, leases, pc, job, selected, sends, acked>>
    BY <1>1, <1>2, <1>5 DEF rows, history
  <2>2. TypeOK'
    BY <1>1, <2>1 DEF IInv, TypeOK, rows
  <2>3. JobsOK' /\ AttemptIsExclusive'
    BY <2>1 DEF IInv, JobsOK, AttemptIsExclusive, Busy, rows
  <2>4. SendsWithinAttempts' /\ AcceptedOK' /\ SelectedOK' /\ OutcomeIsTruthful'
    BY <2>1 DEF IInv, SendsWithinAttempts, AcceptedOK, SelectedOK, OutcomeIsTruthful, rows
  <2> QED
    BY <1>4, <2>2, <2>3, <2>4 DEF IInv
<1>6. CASE Unchanged(c)
  <2>1. attempts[c.d] = c.attempts
    BY <1>6 DEF Unchanged
  <2>2. TypeOK'
    <3>1. job' \in [Workers -> Job \cup {NoJob}]
      BY <1>1, <1>3, <1>6 DEF IInv, TypeOK, Job
    <3>2. attempts' \in [Deliveries -> 0..MaxAttempts] /\ lease' \in [Deliveries -> Nat] /\ leases' \in Nat
      BY <1>1, <1>3, <1>6, MaxAttemptsAssumption DEF IInv, TypeOK
    <3>3. dstate' \in [Deliveries -> RowStates \cup {"absent", "removed"}]
      BY <1>1, <1>3, <1>6 DEF IInv, TypeOK, RowStates, Queued
    <3>4. cand' \in [Workers -> SUBSET Candidate]
      BY <1>1 DEF IInv, TypeOK
    <3> QED
      BY ZenonT(30), <1>1, <1>2, <1>6, <3>1, <3>2, <3>3, <3>4 DEF IInv, TypeOK, history
  <2>3. /\ job'[w] = [d |-> c.d, lease |-> leases + 1, attempts |-> attempts[c.d] + 1]
        /\ pc'[w] = "leased"
        /\ \A v \in Workers \ {w} : job'[v] = job[v] /\ pc'[v] = pc[v]
    BY <1>1, <1>6, <2>1 DEF IInv, TypeOK
  <2>4. /\ attempts'[c.d] = attempts[c.d] + 1 /\ lease'[c.d] = leases + 1
        /\ \A d \in Deliveries \ {c.d} : attempts'[d] = attempts[d] /\ lease'[d] = lease[d]
    BY <1>1, <1>3, <1>6, <2>1 DEF IInv, TypeOK
  <2>5. JobsOK'
    <3> SUFFICES ASSUME NEW v \in Workers, Busy(v)'
                 PROVE  /\ job'[v] \in Job
                        /\ 1 <= job'[v].lease /\ job'[v].lease <= leases'
                        /\ 1 <= job'[v].attempts /\ job'[v].attempts <= attempts'[job'[v].d]
                        /\ lease'[job'[v].d] = job'[v].lease => attempts'[job'[v].d] = job'[v].attempts
      BY DEF JobsOK
    <3>1. CASE v = w
      <4>1. /\ leases \in Nat /\ leases' = leases + 1
            /\ attempts[c.d] \in Nat /\ attempts[c.d] + 1 <= MaxAttempts
        <5>1. leases \in Nat
          BY DEF IInv, TypeOK
        <5>2. leases' = leases + 1
          BY <1>1, <1>6
        <5> QED
          BY <1>3, <2>1, <5>1, <5>2, MaxAttemptsAssumption
      <4>2. job'[w] \in Job
        BY <1>3, <2>3, <4>1, MaxAttemptsAssumption DEF Job
      <4> QED
        BY <2>3, <2>4, <3>1, <4>1, <4>2
    <3>2. CASE v # w
      <4>1. job'[v] = job[v] /\ Busy(v)
        BY <2>3, <3>2 DEF Busy
      <4>2. /\ job[v] \in Job /\ job[v].d \in Deliveries
            /\ job[v].lease \in Nat /\ job[v].attempts \in Nat
            /\ 1 <= job[v].lease /\ job[v].lease <= leases
            /\ 1 <= job[v].attempts /\ job[v].attempts <= attempts[job[v].d]
            /\ lease[job[v].d] = job[v].lease => attempts[job[v].d] = job[v].attempts
        BY <4>1 DEF IInv, JobsOK, Job
      <4>3. attempts \in [Deliveries -> Nat] /\ leases \in Nat /\ leases' = leases + 1
        BY <1>1, <1>6, MaxAttemptsAssumption DEF IInv, TypeOK
      <4>4. CASE job[v].d = c.d
        <5>1. attempts[c.d] \in Nat /\ attempts'[c.d] = attempts[c.d] + 1 /\ lease'[c.d] = leases + 1
          BY <1>3, <2>4, <4>3
        <5>2. job[v].lease <= leases' /\ lease'[c.d] # job[v].lease
          BY <4>2, <4>3, <5>1
        <5>3. job[v].attempts <= attempts'[c.d]
          BY <4>2, <4>4, <5>1
        <5> QED
          BY <4>1, <4>2, <4>4, <5>2, <5>3
      <4>5. CASE job[v].d # c.d
        <5>1. attempts'[job[v].d] = attempts[job[v].d] /\ lease'[job[v].d] = lease[job[v].d]
          BY <2>4, <4>2, <4>5
        <5>2. job[v].lease <= leases'
          BY <4>2, <4>3
        <5> QED
          BY <4>1, <4>2, <5>1, <5>2
      <4> QED
        BY <4>4, <4>5
    <3> QED
      BY <3>1, <3>2
  <2>6. \A v \in Workers \ {w} : Busy(v) => job[v].attempts # job'[w].attempts \/ job[v].d # c.d
    <3>1. attempts[c.d] \in Nat /\ job'[w].attempts = attempts[c.d] + 1
      BY <1>3, <2>1, <2>3
    <3>2. ASSUME NEW v \in Workers, Busy(v), job[v].d = c.d
          PROVE  job[v].attempts \in Nat /\ job[v].attempts <= attempts[c.d]
      BY <3>2 DEF IInv, JobsOK, Job
    <3> QED
      BY <3>1, <3>2
  <2>7. AttemptIsExclusive'
    <3>1. \A v \in Workers \ {w} : (Busy(v)' <=> Busy(v)) /\ job'[v] = job[v]
      BY <2>3 DEF Busy
    <3>2. job'[w].d = c.d
      BY <2>3
    <3>3. ASSUME NEW u \in Workers, NEW v \in Workers, u # v, Busy(u)', Busy(v)',
                 job'[u].d = job'[v].d
          PROVE  job'[u].attempts # job'[v].attempts
      <4>1. CASE u = w
        BY <2>6, <3>1, <3>2, <3>3, <4>1
      <4>2. CASE v = w
        BY <2>6, <3>1, <3>2, <3>3, <4>2
      <4>3. CASE u # w /\ v # w
        BY <3>1, <3>3, <4>3 DEF IInv, AttemptIsExclusive
      <4> QED
        BY <4>1, <4>2, <4>3
    <3> QED
      BY <3>3 DEF AttemptIsExclusive
  <2>8. attempts'[c.d] \notin sends[c.d]
    <3>1. sends[c.d] \subseteq 1..attempts[c.d]
      BY <1>3 DEF IInv, SendsWithinAttempts
    <3>2. attempts[c.d] \in Nat /\ attempts'[c.d] = attempts[c.d] + 1
      BY <1>3, <2>1, <2>4
    <3> QED
      BY <3>1, <3>2
  <2>9. SendsWithinAttempts'
    <3>1. \A d \in Deliveries : attempts[d] <= attempts'[d] /\ attempts[d] \in Nat
                                /\ attempts'[d] \in Nat /\ attempts'[d] <= MaxAttempts
      <4>1. \A d \in Deliveries : attempts[d] \in Nat /\ attempts[d] <= MaxAttempts
        BY MaxAttemptsAssumption DEF IInv, TypeOK
      <4>2. attempts[c.d] < MaxAttempts
        BY <1>3, <2>1
      <4> QED
        BY <1>3, <2>4, <4>1, <4>2, MaxAttemptsAssumption
    <3>2. \A d \in Deliveries : sends'[d] \subseteq 1..attempts'[d]
      BY <1>2, <3>1 DEF IInv, SendsWithinAttempts, history
    <3>3. ASSUME NEW v \in Workers, pc'[v] \in {"leased", "sending"}
          PROVE  job'[v].attempts \notin sends'[job'[v].d]
      <4>1. sends' = sends
        BY <1>2 DEF history
      <4>2. CASE v = w
        BY <2>3, <2>4, <2>8, <4>1, <4>2
      <4>3. CASE v # w
        BY <2>3, <3>3, <4>1, <4>3 DEF IInv, SendsWithinAttempts
      <4> QED
        BY <4>2, <4>3
    <3> QED
      BY <3>1, <3>2, <3>3 DEF SendsWithinAttempts
  <2>10. AcceptedOK'
    BY <1>2, <2>3 DEF IInv, AcceptedOK, history
  <2>11. SelectedOK'
    <3>1. attempts[c.d] # MaxAttempts
      BY <1>3, <2>1, MaxAttemptsAssumption
    <3>2. \A d \in selected : d \in Deliveries
      BY DEF IInv, TypeOK
    <3>3. c.d \in selected => aged[c.d]
      BY <3>1 DEF IInv, SelectedOK
    <3> QED
      BY <1>2, <2>4, <3>2, <3>3 DEF IInv, SelectedOK
  <2>12. OutcomeIsTruthful'
    <3>1. /\ dstate'[c.d] = "leased"
          /\ \A d \in Deliveries \ {c.d} : dstate'[d] = dstate[d]
      <4>1. dstate' = [dstate EXCEPT ![c.d] = "leased"]
        BY <1>1, <1>6
      <4>2. dstate \in [Deliveries -> RowStates \cup {"absent", "removed"}]
        BY DEF IInv, TypeOK
      <4> QED
        BY <1>3, <4>1, <4>2
    <3> QED
      BY <1>2, <2>4, <3>1 DEF IInv, OutcomeIsTruthful, history
  <2> QED
    BY <1>4, <2>2, <2>5, <2>7, <2>9, <2>10, <2>11, <2>12 DEF IInv
<1> QED
  BY <1>5, <1>6

(* Reading the job back: the worker goes on with its attempt, or drops it. *)
LEMMA ClaimLoadIInv ==
    ASSUME IInv, NEW w \in Workers, ClaimLoad(w)
    PROVE  IInv'
<1>1. TypeOK' /\ CandidatesOK'
  BY DEF IInv, TypeOK, CandidatesOK, ClaimLoad, rows, history
<1>2. NoNewWork
  BY DEF IInv, TypeOK, NoNewWork, Busy, ClaimLoad
<1>3. SelectedOK' /\ OutcomeIsTruthful'
  BY DEF IInv, SelectedOK, OutcomeIsTruthful, ClaimLoad, rows, history
<1> QED
  BY <1>1, <1>2, <1>3, NoNewWorkKeeps DEF IInv, ClaimLoad, rows

-----------------------------------------------------------------------------
(* The steps of deliver and FinishWebhook. *)

(* A request leaves: its attempt is counted, and no other worker holds it. *)
LEMMA SendIInv ==
    ASSUME IInv, NEW w \in Workers, Send(w)
    PROVE  IInv'
<1>1. /\ pc[w] = "sending" /\ Busy(w) /\ job[w] \in Job
      /\ job[w].d \in Deliveries /\ job[w].attempts \in Nat
      /\ 1 <= job[w].attempts /\ job[w].attempts <= attempts[job[w].d]
  BY DEF IInv, JobsOK, Job, Busy, Send
<1>2. \E p \in {"accepted", "rejected"} :
         /\ pc' = [pc EXCEPT ![w] = p]
         /\ acked' = IF p = "accepted" THEN acked \cup {job[w].d} ELSE acked
  BY DEF Send
<1>3. /\ sends' = [sends EXCEPT ![job[w].d] = @ \cup {job[w].attempts}]
      /\ UNCHANGED <<rows, paused, leases, cand, job, selected>>
  BY DEF Send
<1>4. TypeOK' /\ CandidatesOK'
  <2>1. pc' \in [Workers -> {"idle", "claiming", "leased", "sending", "accepted", "rejected"}]
    BY <1>2 DEF IInv, TypeOK
  <2>2. sends' \in [Deliveries -> SUBSET Nat]
    BY <1>1, <1>3 DEF IInv, TypeOK
  <2>3. acked' \in SUBSET Deliveries
    BY <1>1, <1>2 DEF IInv, TypeOK
  <2> QED
    BY <1>3, <2>1, <2>2, <2>3 DEF IInv, TypeOK, CandidatesOK, rows
<1>5. JobsOK' /\ AttemptIsExclusive' /\ AcceptedOK'
  <2>1. /\ pc'[w] = "accepted" => job[w].d \in acked'
        /\ \A v \in Workers \ {w} : pc'[v] = pc[v]
        /\ acked \subseteq acked'
    BY <1>2 DEF IInv, TypeOK
  <2>2. \A v \in Workers : Busy(v)' => Busy(v)
    BY <1>1, <2>1 DEF Busy
  <2>3. JobsOK'
    BY <1>3, <2>2 DEF IInv, JobsOK, rows
  <2>4. AttemptIsExclusive'
    BY <1>3, <2>2 DEF IInv, AttemptIsExclusive
  <2>5. AcceptedOK'
    BY <1>3, <2>1 DEF IInv, AcceptedOK
  <2> QED
    BY <2>3, <2>4, <2>5
<1>6. SendsWithinAttempts'
  <2>1. \A d \in Deliveries : sends'[d] \subseteq 1..attempts'[d] /\ attempts'[d] <= MaxAttempts
    <3>1. attempts' = attempts
      BY <1>3 DEF rows
    <3>2. attempts[job[w].d] \in Nat
      BY <1>1, MaxAttemptsAssumption DEF IInv, TypeOK
    <3>3. job[w].attempts \in 1..attempts[job[w].d]
      BY <1>1, <3>2
    <3>4. \A d \in Deliveries :
             \/ sends'[d] = sends[d]
             \/ d = job[w].d /\ sends'[d] = sends[d] \cup {job[w].attempts}
      BY <1>1, <1>3 DEF IInv, TypeOK
    <3> QED
      BY <3>1, <3>3, <3>4 DEF IInv, SendsWithinAttempts
  <2>2. ASSUME NEW v \in Workers, pc'[v] \in {"leased", "sending"}
        PROVE  job'[v].attempts \notin sends'[job'[v].d]
    <3>1. v # w /\ pc[v] \in {"leased", "sending"} /\ Busy(v)
      BY <1>2, <2>2 DEF IInv, TypeOK, Busy
    <3>2. job[v].d = job[w].d => job[v].attempts # job[w].attempts
      BY <1>1, <3>1 DEF IInv, AttemptIsExclusive
    <3>3. job[v].attempts \notin sends[job[v].d] /\ job[v].d \in Deliveries
      BY <3>1 DEF IInv, SendsWithinAttempts, JobsOK, Job
    <3> QED
      BY <1>1, <1>3, <3>2, <3>3 DEF IInv, TypeOK
  <2> QED
    BY <2>1, <2>2 DEF SendsWithinAttempts
<1>7. SelectedOK' /\ OutcomeIsTruthful'
  BY <1>2, <1>3 DEF IInv, SelectedOK, OutcomeIsTruthful, rows
<1> QED
  BY <1>4, <1>5, <1>6, <1>7 DEF IInv

(* A send that is refused before anything leaves keeps the invariant. *)
LEMMA SendNothingIInv ==
    ASSUME IInv, NEW w \in Workers, SendNothing(w)
    PROVE  IInv'
<1>1. TypeOK' /\ CandidatesOK'
  BY DEF IInv, TypeOK, CandidatesOK, SendNothing, rows, history
<1>2. NoNewWork
  BY DEF IInv, TypeOK, NoNewWork, Busy, SendNothing
<1>3. SelectedOK' /\ OutcomeIsTruthful'
  BY DEF IInv, SelectedOK, OutcomeIsTruthful, SendNothing, rows, history
<1> QED
  BY <1>1, <1>2, <1>3, NoNewWorkKeeps DEF IInv, SendNothing, rows

(* The result is recorded, truthfully, or refused. *)
LEMMA FinishIInv ==
    ASSUME IInv, NEW w \in Workers, Finish(w)
    PROVE  IInv'
<1>1. CASE ~MayRecord(w)
  BY <1>1, ReturnIInv DEF Finish, rows
<1>2. CASE MayRecord(w)
  <2>1. /\ Busy(w) /\ job[w] \in Job /\ job[w].d \in Deliveries /\ job[w].attempts \in Nat
        /\ 1 <= job[w].attempts /\ job[w].attempts <= attempts[job[w].d]
        /\ pc[w] \in {"accepted", "rejected"}
    BY DEF IInv, JobsOK, Job, Busy, Finish
  <2>2. /\ dstate' = [dstate EXCEPT ![job[w].d] = Outcome(w)]
        /\ lease'  = [lease EXCEPT ![job[w].d] = NoLease]
        /\ due'    = [due EXCEPT ![job[w].d] = FALSE]
        /\ Return(w)
        /\ UNCHANGED <<attempts, expired, aged, paused, leases, selected, history>>
    BY <1>2 DEF Finish
  <2>3. /\ Outcome(w) \in {"delivered", "failed", "pending"}
        /\ Outcome(w) = "delivered" => job[w].d \in acked
        /\ Outcome(w) = "failed" => attempts[job[w].d] = MaxAttempts \/ aged[job[w].d]
    <3>1. attempts[job[w].d] \in Nat /\ attempts[job[w].d] <= MaxAttempts
      BY <2>1, MaxAttemptsAssumption DEF IInv, TypeOK
    <3>2. job[w].attempts >= MaxAttempts => attempts[job[w].d] = MaxAttempts
      BY <2>1, <3>1, MaxAttemptsAssumption
    <3>3. pc[w] = "accepted" => job[w].d \in acked
      BY DEF IInv, AcceptedOK
    <3> QED
      BY <3>2, <3>3 DEF Outcome
  <2>4. TypeOK'
    <3>1. dstate' \in [Deliveries -> RowStates \cup {"absent", "removed"}]
      BY <2>1, <2>2, <2>3 DEF IInv, TypeOK, RowStates, Queued, Finished
    <3>2. lease' \in [Deliveries -> Nat] /\ due' \in [Deliveries -> BOOLEAN]
      BY ZenonT(30), <2>2 DEF IInv, TypeOK, NoLease
    <3> QED
      BY <2>2, <3>1, <3>2 DEF IInv, TypeOK, Return, history
  <2>5. CandidatesOK'
    BY <2>2 DEF IInv, TypeOK, CandidatesOK, Return
  <2>6. \A v \in Workers : Busy(v)' => v # w /\ Busy(v) /\ job'[v] = job[v] /\ pc'[v] = pc[v]
    BY <2>2 DEF IInv, TypeOK, Return, Busy
  <2>7. JobsOK'
    <3> SUFFICES ASSUME NEW v \in Workers, Busy(v)'
                 PROVE  /\ job'[v] \in Job
                        /\ 1 <= job'[v].lease /\ job'[v].lease <= leases'
                        /\ 1 <= job'[v].attempts /\ job'[v].attempts <= attempts'[job'[v].d]
                        /\ lease'[job'[v].d] = job'[v].lease => attempts'[job'[v].d] = job'[v].attempts
      BY DEF JobsOK
    <3>1. Busy(v) /\ job'[v] = job[v] /\ attempts' = attempts /\ leases' = leases
      BY <2>2, <2>6
    <3>2. /\ job[v] \in Job /\ job[v].d \in Deliveries /\ job[v].lease \in Nat
          /\ 1 <= job[v].lease /\ job[v].lease <= leases
          /\ 1 <= job[v].attempts /\ job[v].attempts <= attempts[job[v].d]
          /\ lease[job[v].d] = job[v].lease => attempts[job[v].d] = job[v].attempts
      BY <3>1 DEF IInv, JobsOK, Job
    <3>3. lease'[job[v].d] = lease[job[v].d] \/ lease'[job[v].d] = 0
      BY <2>2, <3>2 DEF IInv, TypeOK, NoLease
    <3>4. job[v].lease # 0
      <4>1. job[v].lease \in Nat /\ 1 <= job[v].lease
        BY <3>2
      <4> QED
        BY ONLY <4>1
    <3> QED
      BY ZenonT(30), <3>1, <3>2, <3>3, <3>4
  <2>8. AttemptIsExclusive' /\ AcceptedOK' /\ SendsWithinAttempts'
    <3>1. NoNewWork
      BY <2>6 DEF NoNewWork
    <3> QED
      BY <2>2, <3>1, NoNewWorkKeeps
  <2>9. SelectedOK'
    BY <2>2 DEF IInv, SelectedOK
  <2>10. OutcomeIsTruthful'
    BY <2>1, <2>2, <2>3 DEF IInv, TypeOK, OutcomeIsTruthful, history
  <2> QED
    BY <2>4, <2>5, <2>7, <2>8, <2>9, <2>10 DEF IInv
<1> QED
  BY <1>1, <1>2

-----------------------------------------------------------------------------
(* The steps of SweepWebhooks. *)

(* The selection of a sweep keeps the invariant. *)
LEMMA SweepSelectIInv ==
    ASSUME IInv, SweepSelect
    PROVE  IInv'
<1>1. TypeOK' /\ CandidatesOK'
  BY DEF IInv, TypeOK, CandidatesOK, SweepSelect, rows, workers, history
<1>2. JobsOK' /\ AttemptIsExclusive' /\ SendsWithinAttempts' /\ AcceptedOK' /\ OutcomeIsTruthful'
  BY DEF IInv, JobsOK, AttemptIsExclusive, SendsWithinAttempts, AcceptedOK, OutcomeIsTruthful,
         Busy, SweepSelect, rows, workers, history
<1>3. SelectedOK'
  <2>1. \A d \in Deliveries : attempts[d] >= MaxAttempts => attempts[d] = MaxAttempts
    BY MaxAttemptsAssumption DEF IInv, TypeOK
  <2> QED
    BY <2>1 DEF SelectedOK, SweepSelect, Exhausted, rows
<1> QED
  BY <1>1, <1>2, <1>3 DEF IInv

(* Whatever happened to a selected row meanwhile, it is still out of attempts *)
(* or of time when it is failed.                                              *)
LEMMA SweepUpdateIInv ==
    ASSUME IInv, SweepUpdate
    PROVE  IInv'
<1> DEFINE closed == {d \in selected : dstate[d] \in RowStates}
<1>1. /\ dstate' = [d \in Deliveries |-> IF d \in closed THEN "failed" ELSE dstate[d]]
      /\ lease'  = [d \in Deliveries |-> IF d \in closed THEN NoLease ELSE lease[d]]
      /\ selected' = {}
      /\ UNCHANGED <<attempts, due, expired, aged, paused, leases, workers, history>>
  BY DEF SweepUpdate, Close
<1>2. TypeOK'
  <2>1. dstate' \in [Deliveries -> RowStates \cup {"absent", "removed"}]
    BY <1>1 DEF IInv, TypeOK, RowStates, Finished
  <2>2. lease' \in [Deliveries -> Nat]
    BY <1>1 DEF IInv, TypeOK, NoLease
  <2> QED
    BY <1>1, <2>1, <2>2 DEF IInv, TypeOK, workers, history
<1>3. CandidatesOK' /\ AttemptIsExclusive' /\ SendsWithinAttempts' /\ AcceptedOK' /\ SelectedOK'
  <2>1. UNCHANGED <<pc, cand, job>> /\ selected' = {}
    BY <1>1 DEF workers
  <2>2. NoNewWork
    BY <2>1 DEF NoNewWork, Busy
  <2>3. CandidatesOK' /\ SelectedOK'
    BY <2>1 DEF IInv, CandidatesOK, SelectedOK
  <2> QED
    BY <1>1, <2>2, <2>3, NoNewWorkKeeps
<1>4. JobsOK'
  <2> SUFFICES ASSUME NEW v \in Workers, Busy(v)
               PROVE  /\ job[v] \in Job
                      /\ 1 <= job[v].lease /\ job[v].lease <= leases
                      /\ 1 <= job[v].attempts /\ job[v].attempts <= attempts[job[v].d]
                      /\ lease'[job[v].d] = job[v].lease => attempts[job[v].d] = job[v].attempts
    <3>1. UNCHANGED <<attempts, leases, pc, job>>
      BY <1>1 DEF workers
    <3> QED
      BY <3>1 DEF JobsOK, Busy
  <2>1. /\ job[v] \in Job /\ job[v].d \in Deliveries /\ job[v].lease \in Nat
        /\ 1 <= job[v].lease /\ job[v].lease <= leases
        /\ 1 <= job[v].attempts /\ job[v].attempts <= attempts[job[v].d]
        /\ lease[job[v].d] = job[v].lease => attempts[job[v].d] = job[v].attempts
    BY DEF IInv, JobsOK, Job
  <2>2. lease'[job[v].d] = lease[job[v].d] \/ lease'[job[v].d] = 0
    BY <1>1, <2>1 DEF NoLease
  <2>3. job[v].lease # 0
    <3>1. job[v].lease \in Nat /\ 1 <= job[v].lease
      BY <2>1
    <3> QED
      BY ONLY <3>1
  <2> QED
    BY ZenonT(30), <2>1, <2>2, <2>3
<1>5. OutcomeIsTruthful'
  BY <1>1 DEF IInv, OutcomeIsTruthful, SelectedOK, history
<1> QED
  BY <1>2, <1>3, <1>4, <1>5 DEF IInv

-----------------------------------------------------------------------------
(* Every step keeps the invariant. *)
LEMMA NextIInv == IInv /\ [Next]_vars => IInv'
<1> SUFFICES ASSUME IInv, [Next]_vars PROVE IInv'
  OBVIOUS
<1> USE DEF rows, workers, history
<1>1. CASE UNCHANGED vars
  BY <1>1, EnvironmentIInv DEF vars, IInv, TypeOK
<1>2. ASSUME NEW d \in Deliveries, Enqueue(d) PROVE IInv'
  BY <1>2, EnvironmentIInv DEF Enqueue, IInv, TypeOK, RowStates, Queued, Finished
<1>3. ASSUME NEW d \in Deliveries, Drop(d) PROVE IInv'
  BY <1>3, EnvironmentIInv DEF Drop, IInv, TypeOK, Finished
<1>4. ASSUME NEW d \in Deliveries, SweepRemove(d) PROVE IInv'
  BY <1>4, EnvironmentIInv DEF SweepRemove, IInv, TypeOK, Finished
<1>5. ASSUME NEW d \in Deliveries, Time(d) PROVE IInv'
  BY ZenonT(30), <1>5, EnvironmentIInv DEF Time, BecomeDue, LeaseExpires, GrowOld, IInv, TypeOK
<1>6. CASE SetPaused
  BY <1>6, EnvironmentIInv DEF SetPaused, IInv, TypeOK
<1>7. ASSUME NEW w \in Workers, Worker(w) PROVE IInv'
  BY ZenonT(30), <1>7, ClaimReadIInv, ClaimUpdateIInv, ClaimLoadIInv, ReturnIInv, SendIInv,
     SendNothingIInv, FinishIInv DEF Worker, ClaimNone
<1>8. ASSUME NEW w \in Workers, Abandon(w) PROVE IInv'
  BY <1>8, ReturnIInv DEF Abandon
<1>9. CASE Sweep
  BY <1>9, SweepSelectIInv, SweepUpdateIInv DEF Sweep
<1> QED
  BY <1>1, <1>2, <1>3, <1>4, <1>5, <1>6, <1>7, <1>8, <1>9 DEF Next

(* The inductive invariant holds in every reachable state of the queue. *)
THEOREM Invariance == Spec => []IInv
BY InitIInv, NextIInv, PTL DEF Spec

-----------------------------------------------------------------------------
(* The columns of webhook_deliveries and the states of the workers keep their *)
(* types; the attempts column never exceeds WebhookMaxAttempts, since a       *)
(* candidate is read with an attempt left and leased only if unchanged.       *)
THEOREM TypeCorrect == Spec => []TypeOK
<1>1. IInv => TypeOK
  BY DEF IInv
<1> QED
  BY <1>1, Invariance, PTL

(* ClaimWebhook: concurrent workers on any number of replicas never hold the  *)
(* same attempt of one delivery.                                              *)
THEOREM ExclusiveAttempts == Spec => []AttemptIsExclusive
<1>1. IInv => AttemptIsExclusive
  BY DEF IInv
<1> QED
  BY <1>1, Invariance, PTL

(* No attempt is sent twice, and the requests sent for a delivery are bounded *)
(* by its attempts column and by WebhookMaxAttempts.                          *)
THEOREM BoundedSends == Spec => []SendsWithinAttempts
<1>1. IInv => SendsWithinAttempts
  BY DEF IInv
<1> QED
  BY <1>1, Invariance, PTL

(* FinishWebhook and SweepWebhooks: delivered means acknowledged by a 2xx,    *)
(* failed means out of attempts or of time.                                   *)
THEOREM TruthfulOutcomes == Spec => []OutcomeIsTruthful
<1>1. IInv => OutcomeIsTruthful
  BY DEF IInv
<1> QED
  BY <1>1, Invariance, PTL

(* FinishWebhook: a worker records a result only on its own, latest attempt.  *)
(* A step that takes a worker from an answer to its next loop is its Finish   *)
(* or its Abandon, and the lease that Finish compares names the attempt.      *)
THEOREM HarmlessLateResults == Spec => LateResultHarmless
<1>1. ASSUME IInv, [Next]_vars, NEW w \in Workers,
             pc[w] \in {"accepted", "rejected"}, pc'[w] = "idle", rows' # rows
      PROVE  attempts[job[w].d] = job[w].attempts
  <2>1. Finish(w) \/ Abandon(w)
    <3>1. pc' # pc
      BY <1>1
    <3>2. PICK v \in Workers : Worker(v) \/ Abandon(v)
      BY <1>1, <3>1 DEF Next, vars, Enqueue, Drop, SweepRemove, Time, BecomeDue, LeaseExpires,
         GrowOld, SetPaused, Sweep, SweepSelect, SweepUpdate, Close, workers
    <3>3. v = w
      BY ZenonT(30), <1>1, <3>2 DEF IInv, TypeOK, Worker, ClaimRead, ClaimUpdate, ClaimLoad,
         ClaimNone, Send, SendNothing, Finish, Abandon, Return
    <3> QED
      BY ZenonT(30), <1>1, <3>2, <3>3 DEF Worker, ClaimRead, ClaimUpdate, ClaimLoad, ClaimNone,
         Send, SendNothing
  <2>2. Finish(w) /\ MayRecord(w)
    BY ZenonT(30), <1>1, <2>1 DEF Finish, Abandon, rows
  <2> QED
    BY ZenonT(30), <1>1, <2>2 DEF MayRecord, IInv, JobsOK, Busy
<1>2. IInv /\ [Next]_vars =>
        \A w \in Workers :
            pc[w] \in {"accepted", "rejected"} /\ pc'[w] = "idle" /\ rows' # rows
                => attempts[job[w].d] = job[w].attempts
  BY <1>1
<1>3. IInv /\ [Next]_vars =>
        [\A w \in Workers :
            pc[w] \in {"accepted", "rejected"} /\ pc'[w] = "idle" /\ rows' # rows
                => attempts[job[w].d] = job[w].attempts]_vars
  BY <1>2
<1> QED
  BY <1>3, Invariance, PTL DEF Spec, LateResultHarmless

(* No claim, result, sweep or reset puts a finished delivery back in the      *)
(* queue: the conditional update requires the queued state that was read, and *)
(* a result is recorded on a leased row only.                                 *)
THEOREM FinishedStaysFinished == Spec => NeverReopened
<1>1. ASSUME IInv, [Next]_vars, NEW e \in Deliveries, dstate[e] \in Finished
      PROVE  dstate'[e] \in Finished \cup {"removed"}
  <2> USE DEF IInv, TypeOK, Finished, rows
  <2>1. CASE UNCHANGED vars
    BY <1>1, <2>1 DEF vars
  <2>2. ASSUME NEW d \in Deliveries, Enqueue(d) \/ Drop(d) \/ SweepRemove(d) \/ Time(d)
        PROVE  dstate'[e] \in Finished \cup {"removed"}
    BY <1>1, <2>2 DEF Enqueue, Drop, SweepRemove, Time, BecomeDue, LeaseExpires, GrowOld
  <2>3. ASSUME NEW w \in Workers, ClaimUpdate(w)
        PROVE  dstate'[e] \in Finished \cup {"removed"}
    <3>1. PICK c \in cand[w] :
             \/ dstate[c.d] = c.state /\ dstate' = [dstate EXCEPT ![c.d] = "leased"]
             \/ dstate' = dstate
      BY ZenonT(30), <2>3 DEF ClaimUpdate, Unchanged
    <3>2. c.state \in Queued
      BY <1>1 DEF Candidate
    <3> QED
      BY <1>1, <3>1, <3>2 DEF Queued
  <2>4. ASSUME NEW w \in Workers, Finish(w)
        PROVE  dstate'[e] \in Finished \cup {"removed"}
    BY <1>1, <2>4 DEF Finish, MayRecord
  <2>5. ASSUME NEW w \in Workers, Worker(w) \/ Abandon(w), ~ClaimUpdate(w), ~Finish(w)
        PROVE  dstate'[e] \in Finished \cup {"removed"}
    BY <1>1, <2>5 DEF Worker, ClaimRead, ClaimLoad, ClaimNone, Send, SendNothing, Abandon
  <2>6. CASE SetPaused \/ SweepSelect
    BY <1>1, <2>6 DEF SetPaused, SweepSelect
  <2>7. CASE SweepUpdate
    BY <1>1, <2>7 DEF SweepUpdate, Close
  <2> QED
    BY <1>1, <2>1, <2>2, <2>3, <2>4, <2>5, <2>6, <2>7 DEF Next, Worker, Sweep
<1>2. IInv /\ [Next]_vars =>
        [\A d \in Deliveries : dstate[d] \in Finished => dstate'[d] \in Finished \cup {"removed"}]_vars
  BY <1>1
<1> QED
  BY <1>2, Invariance, PTL DEF Spec, NeverReopened
=============================================================================
