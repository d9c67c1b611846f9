------------------------- MODULE WebhookJobs_proofs -------------------------
(***************************************************************************)
(* Proofs about WebhookJobs for any number of events, runs, requests and   *)
(* attempts.  What a run or a request has seen stays true until it writes: *)
(* an event once applied stays applied, and attempts are never taken back. *)
(***************************************************************************)
EXTENDS WebhookJobs, FiniteSetTheorems, TLAPS

LEMMA InitJobs == Init => JobsInv
<1> SUFFICES ASSUME Init PROVE JobsInv
  OBVIOUS
<1> USE JobsAssumption, AttemptsAssumption DEF Init
<1>1. TypeOK /\ SeenInv
  BY DEF TypeOK, SeenInv, Active, Finished
<1>2. SucceededIsJustified /\ DeadIsExhausted
  BY DEF SucceededIsJustified, DeadIsExhausted
<1>3. ClaimsInv
  <2>1. \A j \in Job : ~(attempts[j] >= MaxAttempts)
    OBVIOUS
  <2> QED
    BY <2>1 DEF ClaimsInv
<1> QED
  BY <1>1, <1>2, <1>3 DEF JobsInv

LEMMA TypeStep == TypeOK /\ [Next]_vars => TypeOK'
<1> SUFFICES ASSUME TypeOK, [Next]_vars PROVE TypeOK'
  OBVIOUS
<1> USE JobsAssumption DEF Active, Finished
<1>1. CASE UNCHANGED vars
  BY <1>1 DEF vars, tableVars, runVars, TypeOK
<1>2. CASE RecoverExpiredLeases
  BY <1>2 DEF RecoverExpiredLeases, runVars, TypeOK
<1>3. ASSUME NEW r \in Request, RequestStep(r) PROVE TypeOK'
  <2>1. JobOf[r] \in Job
    OBVIOUS
  <2>2. CASE EnqueueWebhook(r)
    BY <2>1, <2>2 DEF EnqueueWebhook, runVars, TypeOK
  <2>3. CASE ProcessInline(r)
    BY <2>1, <2>3 DEF ProcessInline, runVars, tableVars, TypeOK
  <2>4. CASE FinishInline(r)
    BY <2>1, <2>4 DEF FinishInline, Release, runVars, TypeOK
  <2>5. CASE StopRequest(r)
    BY <2>5 DEF StopRequest, runVars, tableVars, TypeOK
  <2> QED
    BY <1>3, <2>2, <2>3, <2>4, <2>5 DEF RequestStep
<1>4. ASSUME NEW w \in Worker, Work(w) PROVE TypeOK'
  <2>1. inHand[w] \in Job
    BY <1>4 DEF Work, ProcessJob, ProcessThrows, FinishJob, FinishThrows, ReadAttempts,
       RecordFailure, TypeOK
  <2>2. CASE ProcessJob(w)
    BY <2>1, <2>2 DEF ProcessJob, tableVars, TypeOK
  <2>3. CASE ProcessThrows(w) \/ FinishThrows(w)
    BY <2>3 DEF ProcessThrows, FinishThrows, tableVars, TypeOK
  <2>4. CASE ReadAttempts(w)
    BY <2>4 DEF ReadAttempts, tableVars, TypeOK
  <2>5. CASE FinishJob(w)
    BY <2>1, <2>5 DEF FinishJob, Release, TypeOK
  <2>6. CASE RecordFailure(w)
    BY <2>1, <2>6 DEF RecordFailure, Release, TypeOK
  <2> QED
    BY <1>4, <2>2, <2>3, <2>4, <2>5, <2>6 DEF Work
<1>5. ASSUME NEW w \in Worker, StopRun(w) PROVE TypeOK'
  <2>1. at' \in [Worker -> {"idle", "claimed", "applied", "failed", "retry", "give up"}]
    BY <1>5 DEF StopRun, TypeOK
  <2>2. \A v \in Worker : at'[v] # "idle" => at[v] # "idle"
    BY <1>5 DEF StopRun, TypeOK
  <2>3. stops' \in Nat
    <3>1. stops \in Nat
      BY DEF TypeOK
    <3> QED
      BY <1>5, <3>1 DEF StopRun
  <2> QED
    BY <1>5, <2>1, <2>2, <2>3 DEF StopRun, tableVars, TypeOK
<1>6. ASSUME NEW w \in Worker, NEW j \in Job, ClaimJob(w, j) PROVE TypeOK'
  <2>1. /\ at' \in [Worker -> {"idle", "claimed", "applied", "failed", "retry", "give up"}]
        /\ inHand' \in [Worker -> Job \cup {Nobody}]
    BY <1>6 DEF ClaimJob, TypeOK
  <2>2. \A v \in Worker : at'[v] # "idle" => inHand'[v] \in Job
    BY <1>6 DEF ClaimJob, TypeOK
  <2>3. attempts' \in [Job -> Nat]
    <3>1. attempts \in [Job -> Nat]
      BY DEF TypeOK
    <3>2. attempts' = [attempts EXCEPT ![j] = attempts[j] + 1]
      BY <1>6 DEF ClaimJob
    <3> QED
      BY <3>1, <3>2
  <2>4. /\ status' \in [Job -> {"none"} \cup Active \cup Finished]
        /\ lease' \in [Job -> {"free", "fresh", "stale"}]
        /\ owner' \in [Job -> Worker \cup {Nobody}]
    BY <1>6 DEF ClaimJob, TypeOK
  <2> QED
    BY <1>6, <2>1, <2>2, <2>3, <2>4 DEF ClaimJob, TypeOK
<1>7. ASSUME NEW j \in Job, SaveCharge(j) \/ LapseLease(j) \/ ElapseBackoff(j) PROVE TypeOK'
  BY <1>7 DEF SaveCharge, LapseLease, ElapseBackoff, tableVars, runVars, TypeOK
<1> QED
  BY <1>1, <1>2, <1>3, <1>4, <1>5, <1>6, <1>7 DEF Next, RunStep

(* No step takes back an attempt, the effect of an event or an             *)
(* acknowledgement.                                                        *)
LEMMA NothingUndone ==
  ASSUME TypeOK, [Next]_vars
  PROVE  /\ \A j \in Job : attempts'[j] >= attempts[j] /\ (applied[j] => applied'[j])
         /\ \A r \in Request : request[r] = "acknowledged" => request'[r] = "acknowledged"
<1>0. \A j \in Job : attempts[j] \in Nat
  BY DEF TypeOK
<1>1. CASE UNCHANGED <<attempts, applied, request>>
  BY <1>0, <1>1
<1>2. ASSUME NEW r \in Request, RequestStep(r)
      PROVE /\ UNCHANGED attempts
            /\ \A j \in Job : applied[j] => applied'[j]
            /\ \A q \in Request : request[q] = "acknowledged" => request'[q] = "acknowledged"
  <2>1. CASE ProcessInline(r)
    BY <2>1, JobsAssumption DEF ProcessInline, tableVars, TypeOK
  <2> QED
    BY <1>2, <2>1 DEF RequestStep, EnqueueWebhook, FinishInline, StopRequest, tableVars, TypeOK
<1>3. ASSUME NEW w \in Worker, ProcessJob(w)
      PROVE /\ UNCHANGED <<attempts, request>>
            /\ \A j \in Job : applied[j] => applied'[j]
  BY <1>3 DEF ProcessJob, tableVars, TypeOK
<1>4. ASSUME NEW w \in Worker, NEW j \in Job, ClaimJob(w, j)
      PROVE /\ UNCHANGED <<applied, request>>
            /\ \A i \in Job : attempts'[i] >= attempts[i]
  <2>1. attempts \in [Job -> Nat]
    BY DEF TypeOK
  <2>2. attempts' = [attempts EXCEPT ![j] = attempts[j] + 1] /\ UNCHANGED <<applied, request>>
    BY <1>4 DEF ClaimJob
  <2> QED
    BY <2>1, <2>2
<1>5. ASSUME [Next]_vars
      PROVE \/ UNCHANGED <<attempts, applied, request>>
            \/ \E r \in Request : RequestStep(r)
            \/ \E w \in Worker : ProcessJob(w) \/ \E j \in Job : ClaimJob(w, j)
  BY <1>5 DEF Next, RunStep, Work, RecoverExpiredLeases, SaveCharge, LapseLease, ElapseBackoff,
     ProcessThrows, FinishJob, FinishThrows, ReadAttempts, RecordFailure,
     StopRun, vars, tableVars
<1> QED
  BY <1>0, <1>1, <1>2, <1>3, <1>4, <1>5

LEMMA SeenStep == JobsInv /\ [Next]_vars => SeenInv'
<1> SUFFICES ASSUME JobsInv, [Next]_vars PROVE SeenInv'
  OBVIOUS
<1> USE JobsAssumption, AttemptsAssumption DEF JobsInv
<1>0. TypeOK'
  BY TypeStep
<1>7. \A j \in Job : attempts'[j] >= attempts[j]
  BY NothingUndone
<1>8. \A j \in Job : applied[j] => applied'[j]
  BY NothingUndone
<1>9. \A j \in Job : attempts[j] \in Nat /\ attempts'[j] \in Nat
  BY <1>0 DEF TypeOK
(* A run that does not move keeps its job, and what it saw still holds.    *)
<1>1. ASSUME NEW w \in Worker, at'[w] = at[w], inHand'[w] = inHand[w]
      PROVE /\ at'[w] = "applied" => applied'[inHand'[w]]
            /\ at'[w] = "give up" => attempts'[inHand'[w]] >= MaxAttempts
  <2>1. at[w] # "idle" => inHand[w] \in Job
    BY DEF TypeOK
  <2>2. CASE at[w] = "idle"
    BY <1>1, <2>2
  <2>3. CASE inHand[w] \in Job
    <3>1. /\ attempts[inHand[w]] \in Nat /\ attempts'[inHand[w]] \in Nat
          /\ attempts'[inHand[w]] >= attempts[inHand[w]]
      BY <1>7, <1>9, <2>3
    <3>7. applied[inHand[w]] => applied'[inHand[w]]
      BY <1>8, <2>3
    <3>2. at[w] = "applied" => applied[inHand[w]]
      BY DEF SeenInv
    <3>3. MaxAttempts \in Nat
      OBVIOUS
    <3>5. at'[w] = "applied" => applied'[inHand'[w]]
      BY <1>1, <3>2, <3>7
    <3>6. ASSUME at[w] = "give up" PROVE attempts'[inHand[w]] >= MaxAttempts
      <4>1. attempts[inHand[w]] >= MaxAttempts
        BY <3>6 DEF SeenInv
      <4> QED
        BY <3>1, <3>3, <4>1
    <3> QED
      BY <1>1, <3>5, <3>6, Zenon
  <2> QED
    BY <2>1, <2>2, <2>3
<1>2. ASSUME NEW r \in Request, request'[r] = request[r]
      PROVE request'[r] = "applied" => applied'[JobOf[r]]
  BY <1>8, <1>2 DEF SeenInv
<1>3. ASSUME NEW q \in Request, RequestStep(q)
      PROVE /\ UNCHANGED runVars
            /\ \A r \in Request : request'[r] = "applied" => applied'[JobOf[r]]
  <2>1. UNCHANGED runVars /\ \A r \in Request : r # q => request'[r] = request[r]
    BY <1>3 DEF TypeOK, RequestStep, EnqueueWebhook, ProcessInline, FinishInline, StopRequest
  <2>2. request'[q] = "applied" => ProcessInline(q)
    BY <1>3 DEF TypeOK, RequestStep, EnqueueWebhook, FinishInline, StopRequest
  <2>3. request'[q] = "applied" => applied'[JobOf[q]]
    BY <2>2 DEF ProcessInline, TypeOK
  <2> QED
    BY <1>2, <2>1, <2>3
<1>4. ASSUME NEW v \in Worker, RunStep(v)
      PROVE /\ UNCHANGED request
            /\ \A w \in Worker : /\ at'[w] = "applied" => applied'[inHand'[w]]
                                 /\ at'[w] = "give up" => attempts'[inHand'[w]] >= MaxAttempts
  <2>0. at \in [Worker -> {"idle", "claimed", "applied", "failed", "retry", "give up"}]
        /\ inHand \in [Worker -> Job \cup {Nobody}]
    BY DEF TypeOK
  <2>1. /\ UNCHANGED request
        /\ \A w \in Worker : w # v => at'[w] = at[w] /\ inHand'[w] = inHand[w]
    BY <1>4, <2>0 DEF RunStep, Work, ProcessJob, ProcessThrows, FinishJob, FinishThrows, ReadAttempts,
       RecordFailure, StopRun, ClaimJob
  <2>2. at'[v] = "applied" => ProcessJob(v)
    BY <1>4, <2>0 DEF RunStep, Work, ProcessThrows, FinishJob, FinishThrows, ReadAttempts,
       RecordFailure, StopRun, ClaimJob
  <2>3. at'[v] = "applied" => applied'[inHand'[v]]
    BY <2>2 DEF ProcessJob, TypeOK
  <2>4. at'[v] = "give up" => ReadAttempts(v)
    BY <1>4, <2>0 DEF RunStep, Work, ProcessJob, ProcessThrows, FinishJob,
       FinishThrows, RecordFailure, StopRun, ClaimJob
  <2>5. at'[v] = "give up" => attempts'[inHand'[v]] >= MaxAttempts
    BY <2>4 DEF ReadAttempts, TypeOK, tableVars
  <2> QED
    BY <1>1, <2>1, <2>3, <2>5
<1>5. CASE UNCHANGED <<runVars, request>>
  BY <1>1, <1>2, <1>5 DEF SeenInv, runVars
<1>6. \/ UNCHANGED <<runVars, request>>
      \/ \E r \in Request : RequestStep(r)
      \/ \E w \in Worker : RunStep(w)
  BY DEF Next, vars, RecoverExpiredLeases, SaveCharge, LapseLease, ElapseBackoff
<1> QED
  BY <1>1, <1>2, <1>3, <1>4, <1>5, <1>6 DEF SeenInv, runVars

(* Who may move a job to one of the two final states, and in what state of *)
(* its event.                                                              *)
LEMMA FinishStep ==
  ASSUME JobsInv, [Next]_vars, NEW j \in Job, status'[j] # status[j]
  PROVE  /\ status'[j] = "SUCCEEDED" =>
              \/ applied[j]
              \/ \E r \in Request : JobOf[r] = j /\ request'[r] = "acknowledged"
         /\ status'[j] = "DEAD_LETTER" => attempts[j] >= MaxAttempts
<1> USE JobsAssumption DEF JobsInv
<1>1. CASE UNCHANGED vars
  BY <1>1 DEF vars, tableVars
<1>2. CASE RecoverExpiredLeases
  BY <1>2 DEF RecoverExpiredLeases, TypeOK
<1>3. ASSUME NEW r \in Request, RequestStep(r)
      PROVE /\ status'[j] = "SUCCEEDED" =>
                 applied[j] \/ (JobOf[r] = j /\ request'[r] = "acknowledged")
            /\ status'[j] # "DEAD_LETTER"
  <2>1. CASE EnqueueWebhook(r)
    BY <2>1 DEF EnqueueWebhook, TypeOK
  <2>2. CASE FinishInline(r)
    <3>1. JobOf[r] = j
      BY <2>2 DEF FinishInline, TypeOK
    <3> QED
      BY <2>2, <3>1 DEF FinishInline, TypeOK, SeenInv
  <2>3. CASE ProcessInline(r) \/ StopRequest(r)
    BY <2>3 DEF ProcessInline, StopRequest, tableVars
  <2> QED
    BY <1>3, <2>1, <2>2, <2>3 DEF RequestStep
<1>4. ASSUME NEW w \in Worker, RunStep(w)
      PROVE /\ status'[j] = "SUCCEEDED" => applied[j]
            /\ status'[j] = "DEAD_LETTER" => attempts[j] >= MaxAttempts
  <2>1. CASE FinishJob(w) \/ RecordFailure(w)
    <3>1. inHand[w] = j
      BY <2>1 DEF FinishJob, RecordFailure, TypeOK
    <3> QED
      BY <2>1, <3>1 DEF FinishJob, RecordFailure, TypeOK, SeenInv
  <2>2. CASE \E i \in Job : ClaimJob(w, i)
    BY <2>2 DEF ClaimJob, TypeOK
  <2>3. CASE ProcessJob(w) \/ ProcessThrows(w) \/ FinishThrows(w) \/ ReadAttempts(w) \/ StopRun(w)
    BY <2>3 DEF ProcessJob, ProcessThrows, FinishThrows, ReadAttempts, StopRun, tableVars
  <2> QED
    BY <1>4, <2>1, <2>2, <2>3 DEF RunStep, Work
<1>5. ASSUME NEW i \in Job, SaveCharge(i) \/ LapseLease(i) \/ ElapseBackoff(i)
      PROVE UNCHANGED status
  BY <1>5 DEF SaveCharge, LapseLease, ElapseBackoff, tableVars
<1> QED
  BY <1>1, <1>2, <1>3, <1>4, <1>5 DEF Next

LEMMA FinishedStep == JobsInv /\ [Next]_vars => SucceededIsJustified' /\ DeadIsExhausted'
<1> SUFFICES ASSUME JobsInv, [Next]_vars, NEW j \in Job
             PROVE /\ status'[j] = "SUCCEEDED" =>
                        \/ applied'[j]
                        \/ \E r \in Request : JobOf[r] = j /\ request'[r] = "acknowledged"
                   /\ status'[j] = "DEAD_LETTER" => attempts'[j] >= MaxAttempts
  BY DEF SucceededIsJustified, DeadIsExhausted
<1>1. /\ attempts'[j] >= attempts[j] /\ (applied[j] => applied'[j])
      /\ \A r \in Request : request[r] = "acknowledged" => request'[r] = "acknowledged"
  BY NothingUndone DEF JobsInv
<1>2. attempts[j] \in Nat /\ attempts'[j] \in Nat /\ MaxAttempts \in Nat
  BY TypeStep, AttemptsAssumption DEF JobsInv, TypeOK
<1>3. CASE status'[j] = status[j]
  BY <1>1, <1>2, <1>3 DEF JobsInv, SucceededIsJustified, DeadIsExhausted
<1>4. CASE status'[j] # status[j]
  BY <1>1, <1>2, <1>4, FinishStep
<1> QED
  BY <1>3, <1>4

-----------------------------------------------------------------------------
(* How often a job is claimed                                              *)

LEMMA Multiples ==
  ASSUME NEW m \in Nat, NEW n \in Nat, NEW k \in Nat
  PROVE  /\ m * n \in Nat /\ m * (m - 1) \in Nat
         /\ n > 0 => m * (n - 1) = m * n - m
         /\ k =< n => m * k =< m * n
         /\ n + k + 1 =< m => n + m * k =< m * (m - 1)
<1>1. m * n \in Nat
  OBVIOUS
<1>2. m * (m - 1) \in Nat
  <2>1. CASE m = 0
    BY <2>1
  <2>2. CASE m > 0
    <3>1. m - 1 \in Nat
      BY <2>2
    <3> QED
      BY <3>1
  <2> QED
    BY <2>1, <2>2
<1>3. n > 0 => m * (n - 1) = m * n - m
  OBVIOUS
<1>4. ASSUME k =< n PROVE m * k =< m * n
  <2>1. n - k \in Nat
    BY <1>4
  <2>2. m * (n - k) \in Nat
    BY <2>1
  <2>3. m * (n - k) = m * n - m * k /\ m * k \in Nat
    OBVIOUS
  <2> QED
    BY <1>1, <2>2, <2>3
<1>5. ASSUME n + k + 1 =< m PROVE n + m * k =< m * (m - 1)
  <2>1. m - 1 - k - n \in Nat /\ m - 1 \in Nat
    BY <1>5
  <2>2. m * (m - 1 - k - n) \in Nat /\ (m - 1) * n \in Nat
    BY <2>1
  <2>3. m * (m - 1) - (n + m * k) = m * (m - 1 - k - n) + (m - 1) * n
    OBVIOUS
  <2>4. m * k \in Nat
    OBVIOUS
  <2> QED
    BY <1>2, <2>2, <2>3, <2>4
<1> QED
  BY <1>1, <1>2, <1>3, <1>4, <1>5

LEMMA Counted ==
  ASSUME NEW j \in Job
  PROVE  /\ Runs \in Nat /\ IsFiniteSet(Free(j)) /\ IsFiniteSet(Reopening(j))
         /\ Cardinality(Free(j)) \in Nat /\ Cardinality(Free(j)) =< Runs
         /\ Cardinality(Reopening(j)) \in Nat /\ Cardinality(Reopening(j)) =< Runs
<1>1. Free(j) \subseteq Worker /\ Reopening(j) \subseteq Worker
  BY DEF Free, Reopening
<1> QED
  BY <1>1, FiniteRunsAssumption, FS_Subset, FS_CardinalityType DEF Runs

LEMMA CountedNext ==
  ASSUME NEW j \in Job
  PROVE  /\ IsFiniteSet(Free(j)') /\ IsFiniteSet(Reopening(j)')
         /\ Cardinality(Free(j)') \in Nat /\ Cardinality(Free(j)') =< Runs
         /\ Cardinality(Reopening(j)') \in Nat /\ Cardinality(Reopening(j)') =< Runs
<1>1. Free(j)' \subseteq Worker /\ Reopening(j)' \subseteq Worker
  BY DEF Free, Reopening
<1> QED
  BY <1>1, FiniteRunsAssumption, FS_Subset, FS_CardinalityType DEF Runs

LEMMA ClaimsLeftNatural ==
  ASSUME NEW j \in Job
  PROVE  ClaimsLeft(j) \in Nat /\ ClaimsLeft(j)' \in Nat
<1>1. /\ Runs * Cardinality(Reopening(j)) \in Nat
      /\ Runs * Cardinality(Reopening(j)') \in Nat
  BY Counted, CountedNext, Multiples
<1>2. ClaimsLeft(j) \in Nat
  BY <1>1, Counted DEF ClaimsLeft
<1>3. ClaimsLeft(j)' \in Nat
  BY <1>1, CountedNext DEF ClaimsLeft, Runs
<1> QED
  BY <1>2, <1>3

(* What a step that is no claim of the job may do to it once the count is  *)
(* reached: leave the runs as they are or finish the job; write RETRY,     *)
(* with one run less to do so; or kill a run.                              *)
Kept(j) == status'[j] \in Finished
           \/ (status[j] \notin Finished /\ status'[j] \notin Finished /\ Free(j)' = Free(j))

LeavesOrFinishes(j) == Reopening(j)' = Reopening(j) /\ stops' = stops /\ Kept(j)
Reopens(j) == stops' = stops /\ \E w \in Reopening(j) : Reopening(j)' = Reopening(j) \ {w}
Dies(j) == /\ stops' = stops + 1 /\ status'[j] = status[j]
           /\ Reopening(j)' \subseteq Reopening(j)
           /\ \E w \in Worker : Free(j)' \subseteq Free(j) \cup {w}

LEMMA StepOfJob ==
  ASSUME JobsInv, [Next]_vars, NEW j \in Job, attempts'[j] >= MaxAttempts,
         \A w \in Worker : ~ClaimJob(w, j)
  PROVE  /\ attempts'[j] = attempts[j]
         /\ LeavesOrFinishes(j) \/ Reopens(j) \/ Dies(j)
<1> USE JobsAssumption, AttemptsAssumption DEF JobsInv
<1>0. /\ attempts[j] \in Nat /\ status[j] \in {"none"} \cup Active \cup Finished
      /\ at \in [Worker -> {"idle", "claimed", "applied", "failed", "retry", "give up"}]
      /\ inHand \in [Worker -> Job \cup {Nobody}]
  BY DEF TypeOK
<1>1. ASSUME UNCHANGED <<runVars, stops>>, attempts'[j] = attempts[j],
             status'[j] \in Finished \/ status[j] \notin Finished
      PROVE  LeavesOrFinishes(j)
  <2>1. Free(j)' = Free(j) /\ Reopening(j)' = Reopening(j)
    BY <1>1 DEF Free, Reopening, runVars
  <2> QED
    BY <1>1, <2>1 DEF LeavesOrFinishes, Kept
<1>2. ASSUME NEW w \in Worker, stops' = stops, attempts'[j] = attempts[j],
             inHand' = inHand, \A v \in Worker \ {w} : at'[v] = at[v],
             at[w] \notin {"idle", "retry"}, at'[w] \notin {"idle", "retry"} \/ inHand[w] # j,
             status'[j] = status[j],
             at'[w] = "idle" => inHand[w] # j
      PROVE  LeavesOrFinishes(j)
  <2>1. Free(j)' = Free(j)
    BY <1>2 DEF Free
  <2>2. Reopening(j)' = Reopening(j)
    BY <1>2 DEF Reopening
  <2> QED
    BY <1>2, <2>1, <2>2 DEF LeavesOrFinishes, Kept
<1>3. CASE UNCHANGED vars
  BY <1>1, <1>3 DEF vars, tableVars
<1>4. CASE RecoverExpiredLeases
  <2>1. status'[j] \in Finished \/ status[j] \notin Finished
    BY <1>0, <1>4 DEF RecoverExpiredLeases, Finished
  <2> QED
    BY <1>1, <1>4, <2>1 DEF RecoverExpiredLeases
<1>5. ASSUME NEW r \in Request, RequestStep(r)
      PROVE  attempts'[j] = attempts[j] /\ LeavesOrFinishes(j)
  <2>1. UNCHANGED <<runVars, stops, attempts>>
    BY <1>5 DEF RequestStep, EnqueueWebhook, ProcessInline, FinishInline, StopRequest, tableVars
  <2>2. status'[j] = status[j] \/ status'[j] \in Finished \/ status[j] = "none"
    BY <1>5 DEF RequestStep, EnqueueWebhook, ProcessInline, FinishInline, StopRequest,
       tableVars, TypeOK, Finished
  <2>3. /\ UNCHANGED <<runVars, stops>> /\ attempts'[j] = attempts[j]
        /\ status'[j] \in Finished \/ status[j] \notin Finished
    BY <2>1, <2>2 DEF Finished
  <2> QED
    BY <1>1, <2>3
<1>6. ASSUME NEW i \in Job, SaveCharge(i) \/ LapseLease(i) \/ ElapseBackoff(i)
      PROVE  attempts'[j] = attempts[j] /\ LeavesOrFinishes(j)
  <2>1. UNCHANGED <<status, attempts, runVars, stops>>
    BY <1>6 DEF SaveCharge, LapseLease, ElapseBackoff, tableVars
  <2>2. /\ UNCHANGED <<runVars, stops>> /\ attempts'[j] = attempts[j]
        /\ status'[j] \in Finished \/ status[j] \notin Finished
    BY <2>1
  <2> QED
    BY <1>1, <2>2
<1>7. ASSUME NEW w \in Worker, Work(w)
      PROVE  /\ attempts'[j] = attempts[j]
             /\ LeavesOrFinishes(j) \/ Reopens(j)
  <2>0. /\ UNCHANGED <<attempts, inHand, stops>> /\ at[w] # "idle"
        /\ \A v \in Worker \ {w} : at'[v] = at[v]
    BY <1>0, <1>7 DEF Work, ProcessJob, ProcessThrows, FinishJob, FinishThrows,
       ReadAttempts, RecordFailure, tableVars
  <2>1. CASE ProcessJob(w) \/ ProcessThrows(w) \/ FinishThrows(w)
    <3>1. /\ at[w] \in {"claimed", "applied"} /\ at'[w] \in {"applied", "failed"}
          /\ status' = status
      BY <1>0, <2>1 DEF ProcessJob, ProcessThrows, FinishThrows, tableVars
    <3> QED
      BY <1>2, <2>0, <3>1
  <2>2. CASE ReadAttempts(w)
    <3>1. /\ at[w] = "failed" /\ at'[w] \in {"retry", "give up"}
          /\ inHand[w] = j => at'[w] = "give up"
          /\ status' = status
      BY <1>0, <2>0, <2>2 DEF ReadAttempts, tableVars
    <3> QED
      BY <1>2, <2>0, <3>1
  <2>3. CASE FinishJob(w)
    <3>1. at[w] = "applied" /\ at'[w] = "idle"
      BY <1>0, <2>3 DEF FinishJob
    <3>2. CASE inHand[w] = j
      <4>1. status'[j] \in Finished
        BY <2>3, <3>2 DEF FinishJob, TypeOK, Finished
      <4>2. Reopening(j)' = Reopening(j)
        BY <2>0, <3>1 DEF Reopening
      <4> QED
        BY <2>0, <4>1, <4>2 DEF LeavesOrFinishes, Kept
    <3>3. CASE inHand[w] # j
      <4>1. status'[j] = status[j]
        BY <2>3, <3>3 DEF FinishJob, TypeOK
      <4> QED
        BY <1>2, <2>0, <3>1, <3>3, <4>1
    <3> QED
      BY <3>2, <3>3
  <2>4. CASE RecordFailure(w)
    <3>1. at[w] \in {"retry", "give up"} /\ at'[w] = "idle"
      BY <1>0, <2>4 DEF RecordFailure
    <3>2. CASE inHand[w] = j /\ at[w] = "give up"
      <4>1. status'[j] \in Finished
        BY <2>4, <3>2 DEF RecordFailure, TypeOK, Finished
      <4>2. Reopening(j)' = Reopening(j)
        BY <2>0, <3>1, <3>2 DEF Reopening
      <4> QED
        BY <2>0, <4>1, <4>2 DEF LeavesOrFinishes, Kept
    <3>3. CASE inHand[w] = j /\ at[w] = "retry"
      <4>1. w \in Reopening(j) /\ Reopening(j)' = Reopening(j) \ {w}
        BY <2>0, <3>1, <3>3 DEF Reopening
      <4> QED
        BY <2>0, <4>1 DEF Reopens
    <3>4. CASE inHand[w] # j
      <4>1. status'[j] = status[j]
        BY <2>4, <3>4 DEF RecordFailure, TypeOK
      <4>2. Free(j)' = Free(j) /\ Reopening(j)' = Reopening(j)
        BY <2>0, <3>1, <3>4 DEF Free, Reopening
      <4> QED
        BY <2>0, <4>1, <4>2 DEF LeavesOrFinishes, Kept
    <3> QED
      BY <3>1, <3>2, <3>3, <3>4
  <2> QED
    BY <1>7, <2>0, <2>1, <2>2, <2>3, <2>4 DEF Work
<1>8. ASSUME NEW w \in Worker, StopRun(w)
      PROVE  attempts'[j] = attempts[j] /\ Dies(j)
  <2>1. /\ UNCHANGED <<tableVars, inHand>> /\ stops' = stops + 1
        /\ at'[w] = "idle" /\ \A v \in Worker \ {w} : at'[v] = at[v]
    BY <1>0, <1>8 DEF StopRun
  <2>2. Reopening(j)' \subseteq Reopening(j) /\ Free(j)' \subseteq Free(j) \cup {w}
    BY <2>1 DEF Reopening, Free
  <2> QED
    BY <2>1, <2>2 DEF Dies, tableVars
<1>9. ASSUME NEW w \in Worker, NEW i \in Job, ClaimJob(w, i)
      PROVE  attempts'[j] = attempts[j] /\ LeavesOrFinishes(j)
  <2>1. i # j
    BY <1>9
  <2>2. /\ attempts'[j] = attempts[j] /\ status'[j] = status[j] /\ stops' = stops
    BY <1>9, <2>1 DEF ClaimJob, TypeOK
  <2>3. /\ at[w] = "idle" /\ at'[w] = "claimed" /\ inHand'[w] = i
        /\ \A v \in Worker \ {w} : at'[v] = at[v] /\ inHand'[v] = inHand[v]
    BY <1>0, <1>9 DEF ClaimJob
  <2>4. Free(j)' = Free(j) /\ Reopening(j)' = Reopening(j)
    BY <2>1, <2>3 DEF Free, Reopening
  <2> QED
    BY <2>2, <2>4 DEF LeavesOrFinishes, Kept
<1> QED
  BY <1>1, <1>3, <1>4, <1>5, <1>6, <1>7, <1>8, <1>9 DEF Next, RunStep

(* Such a step leaves no more claims than before, but for one more a death. *)
LEMMA NoMoreClaims ==
  ASSUME TypeOK, NEW j \in Job, LeavesOrFinishes(j) \/ Reopens(j) \/ Dies(j)
  PROVE  ClaimsLeft(j)' + stops =< ClaimsLeft(j) + stops'
<1> DEFINE m == Runs
           F == Cardinality(Free(j))
           G == Cardinality(Free(j)')
           R == Cardinality(Reopening(j))
           S == Cardinality(Reopening(j)')
<1>0. /\ m \in Nat /\ F \in Nat /\ G \in Nat /\ R \in Nat /\ S \in Nat
      /\ F =< m /\ G =< m /\ stops \in Nat
  BY Counted, CountedNext DEF TypeOK
<1>1. m * R \in Nat /\ m * S \in Nat
  BY <1>0, Multiples
<1>2. /\ ClaimsLeft(j) = (IF status[j] \in Finished THEN 0 ELSE F) + m * R
      /\ ClaimsLeft(j)' = (IF status'[j] \in Finished THEN 0 ELSE G) + m * S
  BY DEF ClaimsLeft, Runs
<1>3. CASE LeavesOrFinishes(j)
  <2>1. S = R /\ stops' = stops
    BY <1>3 DEF LeavesOrFinishes
  <2>2. status'[j] \in Finished \/ (status[j] \notin Finished /\ G = F)
    BY <1>3 DEF LeavesOrFinishes, Kept
  <2> HIDE DEF m, F, G, R, S
  <2> QED
    BY <1>0, <1>1, <1>2, <2>1, <2>2
<1>4. CASE Reopens(j)
  <2>1. stops' = stops /\ R > 0 /\ S = R - 1
    <3>1. PICK w \in Reopening(j) : Reopening(j)' = Reopening(j) \ {w}
      BY <1>4 DEF Reopens
    <3>2. S = R - 1
      BY <3>1, Counted, FS_RemoveElement
    <3> QED
      BY <1>0, <1>4, <3>2 DEF Reopens
  <2> HIDE DEF m, F, G, R, S
  <2>2. m * S = m * R - m
    BY <1>0, <2>1, Multiples
  <2> QED
    BY <1>0, <1>1, <1>2, <2>1, <2>2
<1>5. CASE Dies(j)
  <2>1. stops' = stops + 1 /\ status'[j] = status[j] /\ S =< R
    BY <1>5, Counted, FS_Subset DEF Dies
  <2>2. G =< F + 1
    <3>1. PICK w \in Worker : Free(j)' \subseteq Free(j) \cup {w}
      BY <1>5 DEF Dies
    <3> DEFINE C == Cardinality(Free(j) \cup {w})
    <3>2. /\ IsFiniteSet(Free(j) \cup {w})
          /\ C \in Nat /\ C =< F + 1
      <4>1. IsFiniteSet(Free(j) \cup {w}) /\ (C = F \/ C = F + 1)
        <5>1. IsFiniteSet(Free(j))
          BY Counted
        <5> QED
          BY <5>1, FS_AddElement
      <4> HIDE DEF C, F
      <4> QED
        BY <1>0, <4>1
    <3>3. G =< C
      BY <3>1, <3>2, FS_Subset
    <3> QED
      BY <1>0, <3>2, <3>3
  <2> HIDE DEF m, F, G, R, S
  <2>3. m * S =< m * R
    BY <1>0, <2>1, Multiples
  <2> QED
    BY <1>0, <1>1, <1>2, <2>1, <2>2, <2>3
<1> QED
  BY <1>3, <1>4, <1>5

LEMMA ClaimJobEffect ==
  ASSUME TypeOK, NEW w \in Worker, NEW j \in Job, ClaimJob(w, j)
  PROVE  /\ attempts'[j] = attempts[j] + 1 /\ stops' = stops
         /\ status[j] \notin Finished /\ status'[j] = "PROCESSING"
         /\ w \in Free(j) /\ Free(j)' = Free(j) \ {w}
         /\ Reopening(j)' = Reopening(j) /\ w \notin Reopening(j)
<1>1. /\ attempts'[j] = attempts[j] + 1 /\ stops' = stops /\ status'[j] = "PROCESSING"
  BY DEF ClaimJob, TypeOK
<1>2. status[j] \notin Finished
  BY DEF ClaimJob, Claimable, Finished
<1>3. /\ at[w] = "idle" /\ at'[w] = "claimed" /\ inHand'[w] = j
      /\ \A v \in Worker \ {w} : at'[v] = at[v] /\ inHand'[v] = inHand[v]
  BY DEF ClaimJob, TypeOK
<1>4. /\ w \in Free(j) /\ Free(j)' = Free(j) \ {w}
      /\ Reopening(j)' = Reopening(j) /\ w \notin Reopening(j)
  BY <1>3 DEF Free, Reopening
<1> QED
  BY <1>1, <1>2, <1>4

LEMMA ClaimStep ==
  ASSUME JobsInv, NEW w \in Worker, NEW j \in Job, ClaimJob(w, j), attempts'[j] >= MaxAttempts
  PROVE  attempts'[j] + ClaimsLeft(j)' =< MaxAttempts + Runs * (Runs - 1) + stops'
<1> DEFINE m == Runs
           F == Cardinality(Free(j))
           G == Cardinality(Free(j)')
           R == Cardinality(Reopening(j))
           S == Cardinality(Reopening(j)')
<1> USE JobsAssumption, AttemptsAssumption DEF JobsInv
<1>0. /\ m \in Nat /\ F \in Nat /\ G \in Nat /\ R \in Nat /\ S \in Nat
      /\ stops \in Nat /\ attempts[j] \in Nat
  BY Counted, CountedNext DEF TypeOK
<1>1. m * R \in Nat /\ m * S \in Nat /\ m * (m - 1) \in Nat
  BY <1>0, Multiples
<1>2. /\ attempts'[j] = attempts[j] + 1 /\ stops' = stops
      /\ status[j] \notin Finished /\ status'[j] = "PROCESSING"
  BY <1>0, ClaimJobEffect
<1>3. /\ w \in Free(j) /\ Free(j)' = Free(j) \ {w}
      /\ Reopening(j)' = Reopening(j) /\ w \notin Reopening(j)
  BY ClaimJobEffect
<1>4. ClaimsLeft(j) = F + m * R /\ ClaimsLeft(j)' = G + m * S
  BY <1>2 DEF ClaimsLeft, Runs, Finished
<1>5. CASE attempts[j] >= MaxAttempts
  <2>1. G = F - 1 /\ S = R
    BY <1>3, Counted, FS_RemoveElement
  <2>2. attempts[j] + ClaimsLeft(j) =< MaxAttempts + Runs * (Runs - 1) + stops
    BY <1>5 DEF ClaimsInv
  <2> HIDE DEF F, G, R, S
  <2> QED
    BY <1>0, <1>1, <1>2, <1>4, <2>1, <2>2
<1>6. CASE attempts[j] < MaxAttempts
  <2>1. G + S + 1 =< m
    <3>1. /\ Free(j)' \subseteq Worker \ {w} /\ Reopening(j)' \subseteq Worker \ {w}
          /\ Free(j)' \cap Reopening(j)' = {}
      BY <1>3 DEF Free, Reopening
    <3>2. IsFiniteSet(Worker \ {w}) /\ Cardinality(Worker \ {w}) = m - 1
      BY FiniteRunsAssumption, FS_RemoveElement DEF Runs
    <3>3. Cardinality(Free(j)' \cup Reopening(j)') = G + S
      <4>1. Cardinality(Free(j)' \cap Reopening(j)') = 0
        BY <3>1, FS_EmptySet
      <4>2. IsFiniteSet(Free(j)') /\ IsFiniteSet(Reopening(j)')
        BY CountedNext
      <4>3. Cardinality(Free(j)' \cup Reopening(j)') = G + S - Cardinality(Free(j)' \cap Reopening(j)')
        BY <4>2, FS_Union
      <4> QED
        BY <1>0, <4>1, <4>3
    <3>4. Cardinality(Free(j)' \cup Reopening(j)') =< m - 1
      BY <3>1, <3>2, FS_Subset
    <3> QED
      BY <1>0, <3>3, <3>4
  <2> HIDE DEF F, G, R, S
  <2>2. G + m * S =< m * (m - 1)
    BY <1>0, <2>1, Multiples
  <2> HIDE DEF m
  <2>3. attempts'[j] = MaxAttempts
    BY <1>0, <1>2, <1>6
  <2> QED
    BY <1>0, <1>1, <1>2, <1>4, <2>2, <2>3 DEF m
<1> QED
  BY <1>0, <1>5, <1>6

LEMMA ClaimsStep == JobsInv /\ [Next]_vars => ClaimsInv'
<1> SUFFICES ASSUME JobsInv, [Next]_vars, NEW j \in Job, attempts'[j] >= MaxAttempts
             PROVE  attempts'[j] + ClaimsLeft(j)' =< MaxAttempts + Runs * (Runs - 1) + stops'
  BY DEF ClaimsInv, Runs
<1>1. CASE \E w \in Worker : ClaimJob(w, j)
  BY <1>1, ClaimStep
<1>2. CASE \A w \in Worker : ~ClaimJob(w, j)
  <2>1. attempts'[j] = attempts[j] /\ (LeavesOrFinishes(j) \/ Reopens(j) \/ Dies(j))
    BY <1>2, StepOfJob
  <2>2. ClaimsLeft(j)' + stops =< ClaimsLeft(j) + stops'
    BY <2>1, NoMoreClaims DEF JobsInv
  <2>3. attempts[j] + ClaimsLeft(j) =< MaxAttempts + Runs * (Runs - 1) + stops
    BY <2>1 DEF JobsInv, ClaimsInv
  <2>4. /\ Runs * (Runs - 1) \in Nat /\ ClaimsLeft(j) \in Nat /\ ClaimsLeft(j)' \in Nat
        /\ stops \in Nat /\ stops' \in Nat /\ attempts[j] \in Nat /\ MaxAttempts \in Nat
    <3>1. Runs * (Runs - 1) \in Nat
      BY Counted, Multiples
    <3> QED
      BY <3>1, ClaimsLeftNatural, TypeStep, AttemptsAssumption DEF JobsInv, TypeOK
  <2> DEFINE most == MaxAttempts + Runs * (Runs - 1)
  <2>5. most \in Nat /\ attempts[j] + ClaimsLeft(j) =< most + stops
    BY <2>3, <2>4
  <2> HIDE DEF most
  <2>6. attempts'[j] + ClaimsLeft(j)' =< most + stops'
    BY <2>1, <2>2, <2>4, <2>5
  <2> QED
    BY <2>6 DEF most
<1> QED
  BY <1>1, <1>2


(* The inductive invariant of the job table.                               *)
THEOREM JobsInvariance == Spec => []JobsInv
<1>1. JobsInv /\ [Next]_vars => JobsInv'
  BY TypeStep, SeenStep, ClaimsStep, FinishedStep DEF JobsInv
<1> QED
  BY InitJobs, <1>1, PTL DEF Spec

(* processWebhookJobs and receivePaygateWebhook never mark an event done   *)
(* that neither took effect nor was acknowledged as unknown.               *)
THEOREM JobsJustified == Spec => []SucceededIsJustified
<1>1. JobsInv => SucceededIsJustified
  BY DEF JobsInv
<1> QED
  BY JobsInvariance, <1>1, PTL

(* A job is dead only after MaxAttempts claims, whoever claimed in between. *)
THEOREM JobsExhausted == Spec => []DeadIsExhausted
<1>1. JobsInv => DeadIsExhausted
  BY DEF JobsInv
<1> QED
  BY JobsInvariance, <1>1, PTL

(* However many runs of processWebhookJobs overlap, whatever leases lapse  *)
(* and whoever dies, a job is claimed a bounded number of times: with one  *)
(* run at a time, MAX_ATTEMPTS times and once more for each death.         *)
THEOREM ClaimsAreBounded == Spec => []ClaimsBounded
<1>1. JobsInv => ClaimsBounded
  <2> SUFFICES ASSUME JobsInv, NEW j \in Job
               PROVE  attempts[j] =< MaxAttempts + Runs * (Runs - 1) + stops
    BY DEF ClaimsBounded
  <2> DEFINE square == Runs * (Runs - 1)
  <2>1. square \in Nat /\ ClaimsLeft(j) \in Nat
    BY Counted, ClaimsLeftNatural, Multiples
  <2>2. attempts[j] \in Nat /\ stops \in Nat /\ MaxAttempts \in Nat
    BY AttemptsAssumption DEF JobsInv, TypeOK
  <2>3. attempts[j] >= MaxAttempts => attempts[j] + ClaimsLeft(j) =< MaxAttempts + square + stops
    BY DEF JobsInv, ClaimsInv
  <2> HIDE DEF square
  <2>4. attempts[j] =< MaxAttempts + square + stops
    BY <2>1, <2>2, <2>3
  <2> QED
    BY <2>4 DEF square
<1> QED
  BY JobsInvariance, <1>1, PTL
=============================================================================
