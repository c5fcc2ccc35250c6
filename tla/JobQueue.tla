------------------------------ MODULE JobQueue ------------------------------
(***************************************************************************)
(* What the automation runs promise their user, with daemons, heartbeats,  *)
(* repositories and phases forgotten: jobs in the order they were asked    *)
(* for, at most one of them live per task, each tried a bounded number of  *)
(* times, and once it is over, over for good.                              *)
(***************************************************************************)
EXTENDS Integers, Sequences

CONSTANTS Tasks, MaxAttempts

VARIABLE jobs    \* every job ever submitted, oldest first

Live == {"queued", "running"}
Over == {"pr_ready", "failed", "canceled"}

Job == [task : Tasks, status : Live \cup Over, attempts : 0..MaxAttempts]

Init == jobs = <<>>

Submit(t) ==
    /\ \A i \in DOMAIN jobs : jobs[i].task = t => jobs[i].status \in Over
    /\ jobs' = Append(jobs, [task |-> t, status |-> "queued", attempts |-> 0])

Start(i) ==
    /\ jobs[i].status = "queued"
    /\ jobs' = [jobs EXCEPT ![i].status = "running"]

\* A try ends without a result; it may or may not be charged for, and there is
\* another one as long as the ceiling is not reached.
Requeue(i) ==
    /\ jobs[i].status = "running"
    /\ \E spent \in {0, 1} :
         /\ jobs[i].attempts + spent < MaxAttempts
         /\ jobs' = [jobs EXCEPT ![i].status = "queued", ![i].attempts = @ + spent]

\* The last try that was allowed, or one that cannot succeed.
Fail(i) ==
    /\ jobs[i].status = "running"
    /\ \E spent \in {0, 1} :
         /\ spent = 1 => jobs[i].attempts + 1 = MaxAttempts
         /\ jobs' = [jobs EXCEPT ![i].status = "failed", ![i].attempts = @ + spent]

Succeed(i) ==
    /\ jobs[i].status = "running"
    /\ jobs' = [jobs EXCEPT ![i].status = "pr_ready"]

Cancel(i) ==
    /\ jobs[i].status \in Live
    /\ jobs' = [jobs EXCEPT ![i].status = "canceled"]

\* Several abandoned tries are ended together.
Abandon ==
    /\ DOMAIN jobs' = DOMAIN jobs
    /\ \A i \in DOMAIN jobs :
         \/ jobs'[i] = jobs[i]
         \/ /\ jobs[i].status = "running"
            /\ jobs'[i] =
                 [task |-> jobs[i].task,
                  status |-> IF jobs[i].attempts + 1 < MaxAttempts
                               THEN "queued" ELSE "failed",
                  attempts |-> jobs[i].attempts + 1]

Next ==
    \/ \E t \in Tasks : Submit(t)
    \/ \E i \in DOMAIN jobs :
         Start(i) \/ Requeue(i) \/ Fail(i) \/ Succeed(i) \/ Cancel(i)
    \/ Abandon

Spec == Init /\ [][Next]_jobs
=============================================================================
