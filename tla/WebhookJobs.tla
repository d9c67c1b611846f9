----------------------------- MODULE WebhookJobs -----------------------------
(***************************************************************************)
(* The webhook_jobs table and those who write it: requests that received a *)
(* webhook and process it themselves, and the runs of processWebhookJobs,  *)
(* in the worker process and in the API replicas (where the timer does not *)
(* wait for the run before), which claim jobs under a lease of 30 seconds. *)
(*                                                                         *)
(* locked_by is written and never compared: a run whose lease has lapsed,  *)
(* and whose job another run or a request has taken over, writes its       *)
(* result like any other.  What an event does to the booking is in         *)
(* PaymentSettlement; here it is applied or not.                           *)
(***************************************************************************)
EXTENDS Naturals, FiniteSets

CONSTANTS
  Job,          \* stored events, one job each
  Worker,       \* concurrent runs of processWebhookJobs
  Request,      \* webhook requests
  JobOf,        \* the event each request delivers
  Nobody,
  MaxAttempts,  \* claims after which a failure is final (8 in the code)
  MaxStops      \* bound: runs that die with a job in hand

ASSUME JobsAssumption == JobOf \in [Request -> Job] /\ Nobody \notin Worker
ASSUME FiniteRunsAssumption == IsFiniteSet(Worker)
ASSUME AttemptsAssumption == MaxAttempts \in Nat \ {0} /\ MaxStops \in Nat

VARIABLES
  status,    \* webhook_jobs.status, "none" without a row
  attempts,  \* webhook_jobs.attempt_count
  due,       \* next_attempt_at has passed
  lease,     \* locked_at: "free" when null, "stale" when older than 30 seconds
  owner,     \* webhook_jobs.locked_by
  known,     \* a payment row carries the charge of the event
  applied,   \* the event has taken effect on its payment
  at,        \* progress of each run
  inHand,    \* the job it claimed last
  request,   \* progress of each request
  stops

tableVars == <<status, attempts, due, lease, owner>>
runVars == <<at, inHand>>
vars == <<tableVars, known, applied, runVars, request, stops>>

Active == {"PENDING", "PROCESSING", "RETRY"}
Finished == {"SUCCEEDED", "DEAD_LETTER"}

TypeOK ==
  /\ status \in [Job -> {"none"} \cup Active \cup Finished]
  /\ attempts \in [Job -> Nat] /\ due \in [Job -> BOOLEAN]
  /\ lease \in [Job -> {"free", "fresh", "stale"}]
  /\ owner \in [Job -> Worker \cup {Nobody}]
  /\ known \in [Job -> BOOLEAN] /\ applied \in [Job -> BOOLEAN]
  /\ at \in [Worker -> {"idle", "claimed", "applied", "failed", "retry", "give up"}]
  /\ inHand \in [Worker -> Job \cup {Nobody}]
  /\ \A w \in Worker : at[w] # "idle" => inHand[w] \in Job
  /\ request \in [Request -> {"waiting", "queued", "applied", "unknown",
                              "answered", "acknowledged", "stopped"}]
  /\ stops \in Nat

Init ==
  /\ status = [j \in Job |-> "none"] /\ attempts = [j \in Job |-> 0]
  /\ due = [j \in Job |-> FALSE]
  /\ lease = [j \in Job |-> "free"] /\ owner = [j \in Job |-> Nobody]
  /\ known = [j \in Job |-> FALSE] /\ applied = [j \in Job |-> FALSE]
  /\ at = [w \in Worker |-> "idle"] /\ inHand = [w \in Worker |-> Nobody]
  /\ request = [r \in Request |-> "waiting"]
  /\ stops = 0

(* What every write of a result does to the columns of the lease.          *)
Release(j) == /\ lease' = [lease EXCEPT ![j] = "free"]
              /\ owner' = [owner EXCEPT ![j] = Nobody]

-----------------------------------------------------------------------------
(* The request: event and job are inserted together, a delivery that was   *)
(* stored before is left as it is, and processed all the same.             *)

EnqueueWebhook(r) ==
  /\ request[r] = "waiting"
  /\ request' = [request EXCEPT ![r] = "queued"]
  /\ IF status[JobOf[r]] = "none"
       THEN /\ status' = [status EXCEPT ![JobOf[r]] = "PENDING"]
            /\ due' = [due EXCEPT ![JobOf[r]] = TRUE]
       ELSE UNCHANGED <<status, due>>
  /\ UNCHANGED <<attempts, lease, owner, known, applied, runVars, stops>>

ProcessInline(r) ==
  /\ request[r] = "queued"
  /\ \/ /\ known[JobOf[r]]
        /\ request' = [request EXCEPT ![r] = "applied"]
        /\ applied' = [applied EXCEPT ![JobOf[r]] = TRUE]
     \/ /\ ~known[JobOf[r]]
        /\ request' = [request EXCEPT ![r] = "unknown"]
        /\ UNCHANGED applied
  /\ UNCHANGED <<tableVars, known, runVars, stops>>

(* Whatever the result was, and whoever holds the job.                     *)
FinishInline(r) ==
  /\ request[r] \in {"applied", "unknown"}
  /\ request' = [request EXCEPT ![r] =
                   IF request[r] = "applied" THEN "answered" ELSE "acknowledged"]
  /\ status' = [status EXCEPT ![JobOf[r]] = "SUCCEEDED"]
  /\ Release(JobOf[r])
  /\ UNCHANGED <<attempts, due, known, applied, runVars, stops>>

StopRequest(r) ==
  /\ request[r] \in {"queued", "applied", "unknown"}
  /\ request' = [request EXCEPT ![r] = "stopped"]
  /\ UNCHANGED <<tableVars, known, applied, runVars, stops>>

-----------------------------------------------------------------------------
(* A run of processWebhookJobs                                             *)

RecoverExpiredLeases ==
  LET expired == {j \in Job : status[j] = "PROCESSING" /\ lease[j] = "stale"}
  IN /\ expired # {}
     /\ status' = [j \in Job |-> IF j \in expired THEN "RETRY" ELSE status[j]]
     /\ due' = [j \in Job |-> due[j] \/ j \in expired]
     /\ lease' = [j \in Job |-> IF j \in expired THEN "free" ELSE lease[j]]
     /\ owner' = [j \in Job |-> IF j \in expired THEN Nobody ELSE owner[j]]
     /\ UNCHANGED <<attempts, known, applied, runVars, request, stops>>

(* Mutant: failed jobs are never claimed again.                            *)
ClaimablePending(j) == \/ status[j] = "PENDING" /\ due[j]
                       \/ status[j] = "PROCESSING" /\ lease[j] = "stale"

Claimable(j) == \/ status[j] \in {"PENDING", "RETRY"} /\ due[j]
                \/ status[j] = "PROCESSING" /\ lease[j] = "stale"

(* The row is locked, with SKIP LOCKED, from the query to the update.      *)
ClaimJob(w, j) ==
  /\ at[w] = "idle" /\ Claimable(j)
  /\ at' = [at EXCEPT ![w] = "claimed"] /\ inHand' = [inHand EXCEPT ![w] = j]
  /\ status' = [status EXCEPT ![j] = "PROCESSING"]
  /\ attempts' = [attempts EXCEPT ![j] = attempts[j] + 1]
  /\ lease' = [lease EXCEPT ![j] = "fresh"] /\ owner' = [owner EXCEPT ![j] = w]
  /\ UNCHANGED <<due, known, applied, request, stops>>

(* Mutant: an unknown charge does not count as a failure.                  *)
ProcessJobUnknown(w) ==
  /\ at[w] = "claimed"
  /\ at' = [at EXCEPT ![w] = "applied"]
  /\ applied' = [applied EXCEPT ![inHand[w]] = applied[inHand[w]] \/ known[inHand[w]]]
  /\ UNCHANGED <<tableVars, inHand, known, request, stops>>

ProcessJob(w) ==
  /\ at[w] = "claimed"
  /\ \/ /\ known[inHand[w]]
        /\ at' = [at EXCEPT ![w] = "applied"]
        /\ applied' = [applied EXCEPT ![inHand[w]] = TRUE]
     \/ /\ ~known[inHand[w]]
        /\ at' = [at EXCEPT ![w] = "failed"]
        /\ UNCHANGED applied
  /\ UNCHANGED <<tableVars, inHand, known, request, stops>>

(* The transaction timed out or the database refused it.                   *)
ProcessThrows(w) ==
  /\ at[w] = "claimed"
  /\ at' = [at EXCEPT ![w] = "failed"]
  /\ UNCHANGED <<tableVars, inHand, known, applied, request, stops>>

FinishJob(w) ==
  /\ at[w] = "applied"
  /\ status' = [status EXCEPT ![inHand[w]] = "SUCCEEDED"]
  /\ Release(inHand[w])
  /\ at' = [at EXCEPT ![w] = "idle"]
  /\ UNCHANGED <<inHand, attempts, due, known, applied, request, stops>>

(* The update that marks the job done fails: inside the try, so the event  *)
(* has taken effect and the job counts as failed.                          *)
FinishThrows(w) ==
  /\ at[w] = "applied"
  /\ at' = [at EXCEPT ![w] = "failed"]
  /\ UNCHANGED <<tableVars, inHand, known, applied, request, stops>>

(* Mutant: off by one.                                                     *)
ReadAttemptsEarly(w) ==
  /\ at[w] = "failed"
  /\ at' = [at EXCEPT ![w] =
              IF attempts[inHand[w]] + 1 >= MaxAttempts THEN "give up" ELSE "retry"]
  /\ UNCHANGED <<tableVars, inHand, known, applied, request, stops>>

(* The count is read in one query and acted upon in another.               *)
ReadAttempts(w) ==
  /\ at[w] = "failed"
  /\ at' = [at EXCEPT ![w] =
              IF attempts[inHand[w]] >= MaxAttempts THEN "give up" ELSE "retry"]
  /\ UNCHANGED <<tableVars, inHand, known, applied, request, stops>>

(* Mutant: no job is given up.                                             *)
RecordFailureAgain(w) ==
  /\ at[w] \in {"retry", "give up"}
  /\ status' = [status EXCEPT ![inHand[w]] = "RETRY"]
  /\ due' = [due EXCEPT ![inHand[w]] = FALSE]
  /\ Release(inHand[w])
  /\ at' = [at EXCEPT ![w] = "idle"]
  /\ UNCHANGED <<inHand, attempts, known, applied, request, stops>>

RecordFailure(w) ==
  /\ at[w] \in {"retry", "give up"}
  /\ status' = [status EXCEPT ![inHand[w]] =
                  IF at[w] = "give up" THEN "DEAD_LETTER" ELSE "RETRY"]
  /\ due' = [due EXCEPT ![inHand[w]] = FALSE]
  /\ Release(inHand[w])
  /\ at' = [at EXCEPT ![w] = "idle"]
  /\ UNCHANGED <<inHand, attempts, known, applied, request, stops>>

(* The process dies, or the query that records the result throws: the job  *)
(* stays PROCESSING until its lease is over.                               *)
StopRun(w) ==
  /\ at[w] # "idle" /\ stops < MaxStops
  /\ at' = [at EXCEPT ![w] = "idle"]
  /\ stops' = stops + 1
  /\ UNCHANGED <<tableVars, inHand, known, applied, request>>

-----------------------------------------------------------------------------
(* startPayment saves the provider's charge id; time passes                *)

SaveCharge(j) ==
  /\ ~known[j] /\ known' = [known EXCEPT ![j] = TRUE]
  /\ UNCHANGED <<tableVars, applied, runVars, request, stops>>

LapseLease(j) ==
  /\ lease[j] = "fresh" /\ lease' = [lease EXCEPT ![j] = "stale"]
  /\ UNCHANGED <<status, attempts, due, owner, known, applied, runVars, request, stops>>

ElapseBackoff(j) ==
  /\ status[j] = "RETRY" /\ ~due[j] /\ due' = [due EXCEPT ![j] = TRUE]
  /\ UNCHANGED <<status, attempts, lease, owner, known, applied, runVars, request, stops>>

-----------------------------------------------------------------------------
RequestStep(r) == EnqueueWebhook(r) \/ ProcessInline(r) \/ FinishInline(r) \/ StopRequest(r)

(* What a run in hand of a job does next, short of dying.                  *)
Work(w) == ProcessJob(w) \/ ProcessThrows(w) \/ FinishJob(w) \/ FinishThrows(w)
           \/ ReadAttempts(w) \/ RecordFailure(w)

RunStep(w) == Work(w) \/ StopRun(w) \/ \E j \in Job : ClaimJob(w, j)

Next ==
  \/ RecoverExpiredLeases
  \/ \E r \in Request : RequestStep(r)
  \/ \E w \in Worker : RunStep(w)
  \/ \E j \in Job : SaveCharge(j) \/ LapseLease(j) \/ ElapseBackoff(j)

Spec == Init /\ [][Next]_vars

(* The loops poll for ever and a claimed job is worked on; time passes.    *)
(* Jobs are claimed in the order of next_attempt_at, so none is passed     *)
(* over for ever.                                                          *)
Fairness ==
  /\ \A w \in Worker : WF_vars(Work(w))
  /\ \A j \in Job : /\ SF_vars(\E w \in Worker : ClaimJob(w, j))
                    /\ WF_vars(LapseLease(j)) /\ WF_vars(ElapseBackoff(j))

FairSpec == Spec /\ Fairness
-----------------------------------------------------------------------------
(* Safety                                                                  *)

(* A job is marked done only for an event that took effect, or one that a  *)
(* request acknowledged as unknown: no overtaken run, lapsed lease or      *)
(* duplicate request marks an event that nobody processed.                 *)
SucceededIsJustified ==
  \A j \in Job : status[j] = "SUCCEEDED" =>
    applied[j] \/ \E r \in Request : JobOf[r] = j /\ request[r] = "acknowledged"

(* A job is given up only after MaxAttempts claims, although the count is  *)
(* read before the row is written and others claim in between.             *)
DeadIsExhausted ==
  \A j \in Job : status[j] = "DEAD_LETTER" => attempts[j] >= MaxAttempts

(* MaxAttempts bounds the failures that are tried again, not the claims: a *)
(* stale lease is claimed whatever the count.  Yet no job is claimed for   *)
(* ever, and one run at a time exceeds the count by its deaths only.       *)
Runs == Cardinality(Worker)
ClaimsBounded ==
  \A j \in Job : attempts[j] =< MaxAttempts + Runs * (Runs - 1) + stops

-----------------------------------------------------------------------------
(* The inductive invariant: what the runs and requests in progress have    *)
(* seen of the tables, which others write meanwhile, stays true until they *)
(* write themselves, so that no job is marked done or given up wrongly.    *)
SeenInv ==
  /\ \A w \in Worker :
       /\ at[w] = "applied" => applied[inHand[w]]
       /\ at[w] = "give up" => attempts[inHand[w]] >= MaxAttempts
  /\ \A r \in Request : request[r] = "applied" => applied[JobOf[r]]

(* Once the count is reached, every run about to write RETRY may reopen    *)
(* the job for all the runs, each of which, with the job in hand, can only *)
(* finish it or die.                                                       *)
Free(j) == {w \in Worker : at[w] = "idle" \/ inHand[w] # j}
Reopening(j) == {w \in Worker : at[w] = "retry" /\ inHand[w] = j}

ClaimsLeft(j) == (IF status[j] \in Finished THEN 0 ELSE Cardinality(Free(j)))
                 + Runs * Cardinality(Reopening(j))

ClaimsInv ==
  \A j \in Job : attempts[j] >= MaxAttempts =>
    attempts[j] + ClaimsLeft(j) =< MaxAttempts + Runs * (Runs - 1) + stops

JobsInv == TypeOK /\ SeenInv /\ ClaimsInv /\ SucceededIsJustified /\ DeadIsExhausted

-----------------------------------------------------------------------------
(* Liveness                                                                *)

(* Every stored event is finished in the end and stays so: the overtaken   *)
(* runs that reopen finished jobs die out.                                 *)
JobsRest == \A j \in Job : status[j] # "none" ~> [](status[j] \in Finished)
=============================================================================
