--------------------------- MODULE AutomationRuns ---------------------------
(***************************************************************************)
(* Automation runs and the daemons that carry them out:                    *)
(* pkg/store/automations.go, pkg/store/daemons.go and the handlers of      *)
(* pkg/httpapi/automations.go and daemon.go.  A user queues a run for a    *)
(* task; a daemon polls, claims it, reports progress and ends it; a run    *)
(* whose daemon falls silent for ten minutes is requeued.                  *)
(*                                                                         *)
(* Every statement of the store runs on its own and is one step.  The      *)
(* requests of a daemon are authenticated first and take effect later, in  *)
(* any order, or never; the daemon may be restarted, or stop, meanwhile.   *)
(***************************************************************************)
EXTENDS Integers, Sequences, FiniteSets

CONSTANTS
    Users,
    Tasks,         \* a task on a page of some user
    TaskOwner,     \* the user each task belongs to
    Daemons,       \* paired daemons (daemon_tokens)
    DaemonOwner,   \* the user each daemon works for
    Repos,
    None,          \* no daemon, no run held
    MaxAttempts,   \* max_attempts
    LastPhase,     \* phases are 0 (queued), 1 (claimed) .. LastPhase (pr)
    MaxRuns,       \* bound: rows of automation_runs
    MaxClaims,     \* bound: times a run is claimed
    MaxCheckIns,   \* bound: check-ins of a daemon in progress at once
    MaxCalls       \* bound: reports of daemons in progress at once

ASSUME RunsAssumption ==
    /\ MaxAttempts \in Nat \ {0}
    /\ LastPhase \in Nat \ {0}
    /\ MaxRuns \in Nat
    /\ MaxClaims \in Nat
    /\ MaxCheckIns \in Nat
    /\ MaxCalls \in Nat
    /\ TaskOwner \in [Tasks -> Users]
    /\ DaemonOwner \in [Daemons -> Users]
    /\ None \notin Daemons \cup [run : Nat, claim : Nat]

VARIABLES
    runs,         \* rows of automation_runs, by created_at
    repos,        \* per daemon: rows of daemon_repos
    revoked,      \* daemons whose token is revoked
    queueing,     \* queue requests that have passed the repository check
    claiming,     \* daemons whose claim is between two of its statements
    registering,  \* per daemon: repository sets its check-ins are about to write
    calls,        \* reports of daemons in progress
    holds         \* per daemon: the claim it is working on, or None

serverVars == <<runs, repos, revoked>>
requestVars == <<queueing, claiming, registering, calls>>
vars == <<serverVars, requestVars, holds>>

-----------------------------------------------------------------------------

Live == {"queued", "running"}
Over == {"pr_ready", "failed", "canceled"}

\* heartbeat is heartbeat_at: NULL, or within the last ten minutes, or older;
\* claims counts the claims of a run, which the table does not.
Run == [task : Tasks, repo : Repos, status : Live \cup Over, phase : 0..LastPhase,
        attempts : 0..MaxAttempts, daemon : Daemons \cup {None},
        heartbeat : {"none", "fresh", "stale"}, parked : BOOLEAN,
        claims : 0..MaxClaims]

Report == {"progress", "complete", "fail", "park", "release"}

Call == [daemon : Daemons, run : 1..MaxRuns, claim : 1..MaxClaims,
         report : Report, phase : 0..LastPhase]

TypeOK ==
    /\ runs \in Seq(Run) /\ Len(runs) <= MaxRuns
    /\ repos \in [Daemons -> SUBSET Repos]
    /\ revoked \subseteq Daemons
    /\ queueing \subseteq Tasks \X Repos
    /\ claiming \subseteq Daemons
    /\ registering \in [Daemons -> SUBSET SUBSET Repos]
    /\ calls \subseteq Call
    /\ holds \in [Daemons -> [run : 1..MaxRuns, claim : 1..MaxClaims] \cup {None}]

Init ==
    /\ runs = <<>>
    /\ repos = [d \in Daemons |-> {}]
    /\ revoked = {}
    /\ queueing = {}
    /\ claiming = {}
    /\ registering = [d \in Daemons |-> {}]
    /\ calls = {}
    /\ holds = [d \in Daemons |-> None]

-----------------------------------------------------------------------------
(* The user.                                                               *)

\* RepoDefaultBranch: some live daemon of the user reports the repository.
CheckRepo(t, repo) ==
    /\ \E d \in Daemons \ revoked :
         DaemonOwner[d] = TaskOwner[t] /\ repo \in repos[d]
    /\ queueing' = queueing \cup {<<t, repo>>}
    /\ UNCHANGED <<serverVars, claiming, registering, calls, holds>>

\* The partial unique index uq_automation_runs_active.
NoLiveRun(t) == \A i \in DOMAIN runs : runs[i].task = t => runs[i].status \in Over

\* A new row with the defaults of the table.
InsertRun(t, repo) ==
    /\ Len(runs) < MaxRuns
    /\ runs' = Append(runs,
         [task |-> t, repo |-> repo, status |-> "queued", phase |-> 0,
          attempts |-> 0, daemon |-> None, heartbeat |-> "none",
          parked |-> FALSE, claims |-> 0])

\* CreateRun, or 409 run_active.
CreateRun(t, repo) ==
    /\ <<t, repo>> \in queueing
    /\ queueing' = queueing \ {<<t, repo>>}
    /\ IF NoLiveRun(t) THEN InsertRun(t, repo) ELSE UNCHANGED runs
    /\ UNCHANGED <<repos, revoked, claiming, registering, calls, holds>>

\* Mutant: the index covers queued runs only.
RetryBesideRunning(i) ==
    /\ \A j \in DOMAIN runs : runs[j].task = runs[i].task => runs[j].status # "queued"
    /\ InsertRun(runs[i].task, runs[i].repo)
    /\ UNCHANGED <<repos, revoked, requestVars, holds>>

\* RetryRun copies any run of the user; whether a daemon still covers the
\* repository is not looked at.
RetryRun(i) ==
    /\ NoLiveRun(runs[i].task)
    /\ InsertRun(runs[i].task, runs[i].repo)
    /\ UNCHANGED <<repos, revoked, requestVars, holds>>

\* Mutant: a run that is over is canceled as well.
CancelAny(i) ==
    /\ runs' = [runs EXCEPT ![i].status = "canceled"]
    /\ UNCHANGED <<repos, revoked, requestVars, holds>>

\* CancelRun keeps the daemon and the heartbeat of the row.
CancelRun(i) ==
    /\ runs[i].status \in Live
    /\ runs' = [runs EXCEPT ![i].status = "canceled"]
    /\ UNCHANGED <<repos, revoked, requestVars, holds>>

\* RevokeDaemon leaves the runs of the daemon alone.
RevokeDaemon(d) ==
    /\ d \notin revoked
    /\ revoked' = revoked \cup {d}
    /\ repos' = [repos EXCEPT ![d] = {}]
    /\ UNCHANGED <<runs, requestVars, holds>>

-----------------------------------------------------------------------------
(* A daemon checks in.                                                     *)

\* requireDaemon lets a check-in through ...
Register(d, reported) ==
    /\ d \notin revoked
    /\ Cardinality(registering[d]) < MaxCheckIns
    /\ registering' = [registering EXCEPT ![d] = @ \cup {reported}]
    /\ UNCHANGED <<serverVars, queueing, claiming, calls, holds>>

\* ... and ReplaceDaemonRepos swaps the set in, whatever happened meanwhile.
ReplaceDaemonRepos(d, reported) ==
    /\ reported \in registering[d]
    /\ repos' = [repos EXCEPT ![d] = reported]
    /\ registering' = [registering EXCEPT ![d] = @ \ {reported}]
    /\ UNCHANGED <<runs, revoked, queueing, claiming, calls, holds>>

-----------------------------------------------------------------------------
(* A daemon polls: ClaimRun, statement by statement.                       *)

\* Mutant: the attempts before this one are compared.
ChargeLate(run) == IF run.attempts > MaxAttempts THEN "failed" ELSE "queued"

\* The status after a try that is charged for, from the attempts before it.
Charge(run) == IF run.attempts + 1 >= MaxAttempts THEN "failed" ELSE "queued"

\* Mutant: the row keeps its daemon and its heartbeat.
RequeuedAsIs(run, spent) ==
    [run EXCEPT !.status = "queued", !.phase = 0, !.attempts = @ + spent]

\* What requeueing a run leaves of it, and what ending it does.
Requeued(run, spent) ==
    [run EXCEPT !.status = "queued", !.phase = 0, !.attempts = @ + spent,
                !.daemon = None, !.heartbeat = "none"]
Failed(run, spent) ==
    [run EXCEPT !.status = "failed", !.attempts = @ + spent, !.heartbeat = "none"]

Reclaimed(run) ==
    IF Charge(run) = "failed" THEN [Failed(run, 1) EXCEPT !.daemon = None]
                              ELSE Requeued(run, 1)

Zombie(run) == run.status = "running" /\ run.heartbeat = "stale"

\* Mutant: a daemon reclaims the runs of its own user only.
ReclaimOwn(d) ==
    /\ d \notin revoked
    /\ d \notin claiming
    /\ holds[d] = None
    /\ runs' = [i \in DOMAIN runs |->
         IF Zombie(runs[i]) /\ TaskOwner[runs[i].task] = DaemonOwner[d]
           THEN Reclaimed(runs[i]) ELSE runs[i]]
    /\ claiming' = claiming \cup {d}
    /\ UNCHANGED <<repos, revoked, queueing, registering, calls, holds>>

\* reclaimZombieRuns, on behalf of any daemon and for the runs of every user.
ReclaimZombieRuns(d) ==
    /\ d \notin revoked
    /\ d \notin claiming
    /\ holds[d] = None
    /\ runs' = [i \in DOMAIN runs |->
                  IF Zombie(runs[i]) THEN Reclaimed(runs[i]) ELSE runs[i]]
    /\ claiming' = claiming \cup {d}
    /\ UNCHANGED <<repos, revoked, queueing, registering, calls, holds>>

Eligible(d) ==
    {i \in DOMAIN runs : /\ runs[i].status = "queued"
                         /\ TaskOwner[runs[i].task] = DaemonOwner[d]
                         /\ runs[i].repo \in repos[d]}

\* claimNextRun takes the oldest run that no other statement has locked, so
\* any of those there are.  The daemon may not hear of it.
ClaimNextRun(d, i) ==
    /\ d \in claiming
    /\ i \in Eligible(d)
    /\ runs[i].claims < MaxClaims
    /\ runs' = [runs EXCEPT ![i].status = "running", ![i].phase = 1,
                  ![i].daemon = d, ![i].heartbeat = "fresh", ![i].claims = @ + 1]
    /\ claiming' = claiming \ {d}
    /\ holds' \in {holds, [holds EXCEPT ![d] = [run |-> i, claim |-> runs'[i].claims]]}
    /\ UNCHANGED <<repos, revoked, queueing, registering, calls>>

\* 204: nothing to claim; or the request was cut off after its first statement.
ClaimNothing(d) ==
    /\ d \in claiming
    /\ claiming' = claiming \ {d}
    /\ UNCHANGED <<serverVars, queueing, registering, calls, holds>>

-----------------------------------------------------------------------------
(* A daemon works.                                                         *)

\* Ten minutes pass without a report.
FallSilent(i) ==
    /\ runs[i].status = "running"
    /\ runs[i].heartbeat = "fresh"
    /\ runs' = [runs EXCEPT ![i].heartbeat = "stale"]
    /\ UNCHANGED <<repos, revoked, requestVars, holds>>

\* requireDaemon lets a report through.
Send(d, report, phase) ==
    /\ d \notin revoked
    /\ holds[d] # None
    /\ Cardinality(calls) < MaxCalls
    /\ report # "progress" => phase = 0
    /\ calls' = calls \cup
         {[daemon |-> d, run |-> holds[d].run, claim |-> holds[d].claim,
           report |-> report, phase |-> phase]}
    /\ UNCHANGED <<serverVars, queueing, claiming, registering, holds>>

\* Mutant: WHERE id = $1 AND status IN ('queued', 'running').
HeldByAnyone(call) == runs[call.run].status \in Live

\* WHERE id = $1 AND daemon_token_id = $2 AND status = 'running'.
Held(call) ==
    /\ runs[call.run].daemon = call.daemon
    /\ runs[call.run].status = "running"

\* SaveRunProgress, CompleteRun, FailRun (parking or not) and ReleaseRun.
Applied(call, run) ==
    CASE call.report = "progress" -> [run EXCEPT !.phase = call.phase, !.heartbeat = "fresh"]
      [] call.report = "complete" -> [run EXCEPT !.status = "pr_ready", !.phase = LastPhase,
                                                 !.heartbeat = "fresh"]
      [] call.report = "park" -> [Failed(run, 0) EXCEPT !.parked = TRUE]
      [] call.report = "fail" -> IF Charge(run) = "failed" THEN Failed(run, 1)
                                                           ELSE Requeued(run, 1)
      [] call.report = "release" -> Requeued(run, 0)

\* A report takes effect, or its guard matches nothing (accepted false, or 409).
\* A daemon that hears it has ended its run, or lost it, stops working on it.
Handle(call) ==
    /\ calls' = calls \ {call}
    /\ runs' = IF Held(call) THEN [runs EXCEPT ![call.run] = Applied(call, @)] ELSE runs
    /\ \/ UNCHANGED holds
       \/ /\ holds[call.daemon] = [run |-> call.run, claim |-> call.claim]
          /\ ~Held(call) \/ call.report # "progress"
          /\ holds' = [holds EXCEPT ![call.daemon] = None]
    /\ UNCHANGED <<repos, revoked, queueing, claiming, registering>>

\* The report never arrives.
Lose(call) ==
    /\ calls' = calls \ {call}
    /\ UNCHANGED <<serverVars, queueing, claiming, registering, holds>>

\* The daemon is restarted, or gives its run up.
Forget(d) ==
    /\ holds[d] # None
    /\ holds' = [holds EXCEPT ![d] = None]
    /\ UNCHANGED <<serverVars, requestVars>>

-----------------------------------------------------------------------------

QueueRun(t, repo) == CheckRepo(t, repo) \/ CreateRun(t, repo)

UserStep ==
    \/ \E t \in Tasks, repo \in Repos : QueueRun(t, repo)
    \/ \E i \in DOMAIN runs : RetryRun(i) \/ CancelRun(i)
    \/ \E d \in Daemons : RevokeDaemon(d)

DaemonStep(d) ==
    \/ \E reported \in SUBSET Repos :
         Register(d, reported) \/ ReplaceDaemonRepos(d, reported)
    \/ ReclaimZombieRuns(d)
    \/ \E i \in DOMAIN runs : ClaimNextRun(d, i)
    \/ ClaimNothing(d)
    \/ \E report \in Report, phase \in 0..LastPhase : Send(d, report, phase)
    \/ Forget(d)

Next ==
    \/ UserStep
    \/ \E d \in Daemons : DaemonStep(d)
    \/ \E i \in DOMAIN runs : FallSilent(i)
    \/ \E call \in calls : Handle(call) \/ Lose(call)

Spec == Init /\ [][Next]_vars

\* A daemon that is not working polls for as long as its token is good, every
\* claim request ends, and no daemon works on one claim for ever.  Time passes:
\* a daemon that can no longer authenticate has been silent for ten minutes once.
Fairness ==
    /\ \A d \in Daemons :
         /\ WF_vars(ReclaimZombieRuns(d))
         /\ WF_vars(ClaimNothing(d) \/ \E i \in DOMAIN runs : ClaimNextRun(d, i))
         /\ WF_vars(Forget(d))
    /\ WF_vars(\E i \in DOMAIN runs : runs[i].daemon \in revoked /\ FallSilent(i))

FairSpec == Spec /\ Fairness

-----------------------------------------------------------------------------
(* Properties.                                                             *)

\* A task has one run in flight, however requeues, retries and reclaims mix.
OneLiveRunPerTask ==
    \A i, j \in DOMAIN runs :
        (runs[i].task = runs[j].task /\ runs[i].status \in Live /\ runs[j].status \in Live)
            => i = j

\* The retry ceiling: a live run has a try left, and a run has failed only when
\* it has none left or was parked.
CeilingKept ==
    \A i \in DOMAIN runs :
        /\ runs[i].status \in Live => runs[i].attempts < MaxAttempts
        /\ runs[i].status = "failed" =>
             runs[i].parked \/ runs[i].attempts = MaxAttempts

\* An attempt is charged once per claim at most: late and repeated reports of a
\* try, or a report and a reclaim of the same try, never charge it twice.
ChargedOncePerClaim ==
    \A i \in DOMAIN runs :
        runs[i].attempts + (IF runs[i].status = "running" THEN 1 ELSE 0) <= runs[i].claims

\* A running run can always be reclaimed when its daemon falls silent, and a
\* queued one has nobody who could still report on it.
Reclaimable ==
    \A i \in DOMAIN runs :
        /\ runs[i].status = "running" =>
             runs[i].heartbeat # "none" /\ runs[i].daemon # None
        /\ runs[i].status = "queued" =>
             runs[i].heartbeat = "none" /\ runs[i].daemon = None

\* Users see a queue of jobs in which a job that is over stays over: a complete
\* that races a cancel, a retry of either, a reclaim that races both.
Jobs == INSTANCE JobQueue WITH
            jobs <- [i \in DOMAIN runs |->
                       [task |-> runs[i].task, status |-> runs[i].status,
                        attempts |-> runs[i].attempts]]

JobQueueSpec == Jobs!Spec

\* A run whose daemon is silent or revoked does not stay with it as long as any
\* daemon at all, be it of another user, is left to poll.
Abandoned(i) ==
    /\ i \in DOMAIN runs
    /\ runs[i].status = "running"
    /\ Zombie(runs[i]) \/ runs[i].daemon \in revoked

ZombiesReclaimed ==
    \A i \in 1..MaxRuns : Abandoned(i) ~> (~Abandoned(i) \/ revoked = Daemons)
=============================================================================
