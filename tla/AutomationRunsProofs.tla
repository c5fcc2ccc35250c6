------------------------- MODULE AutomationRunsProofs -------------------------
(***************************************************************************)
(* That AutomationRuns keeps its safety properties, and implements         *)
(* JobQueue, for any number of users, tasks, daemons, runs and claims.     *)
(* All of it is about the rows one at a time, except that a task has one   *)
(* live run; so the proofs first show what each statement of the store     *)
(* makes of a row, and then carry that over to the table.                  *)
(***************************************************************************)
EXTENDS AutomationRuns, SequenceTheorems, TLAPS

\* What the invariants say of one row.
Sound(run) ==
    /\ run \in Run
    /\ run.status \in Live => run.attempts < MaxAttempts
    /\ run.status = "failed" => run.parked \/ run.attempts = MaxAttempts
    /\ run.attempts <= run.claims
    /\ run.status = "running" =>
         run.attempts < run.claims /\ run.heartbeat # "none" /\ run.daemon # None
    /\ run.status = "queued" => run.heartbeat = "none" /\ run.daemon = None

\* What a step may make of a row: it belongs to its task, and is not revived.
Follows(run, new) ==
    /\ Sound(new)
    /\ new.task = run.task
    /\ new.status \in Live => run.status \in Live

\* The invariant of the table, and that of the requests about it.
TableOK ==
    /\ runs \in Seq(Run) /\ Len(runs) <= MaxRuns
    /\ OneLiveRunPerTask
    /\ CeilingKept
    /\ ChargedOncePerClaim
    /\ Reclaimable

RequestsOK ==
    /\ repos \in [Daemons -> SUBSET Repos]
    /\ revoked \subseteq Daemons
    /\ queueing \subseteq Tasks \X Repos
    /\ claiming \subseteq Daemons
    /\ registering \in [Daemons -> SUBSET SUBSET Repos]
    /\ calls \subseteq Call
    /\ holds \in [Daemons -> [run : 1..MaxRuns, claim : 1..MaxClaims] \cup {None}]

IInv == TableOK /\ RequestsOK

LEMMA RunFields ==
    ASSUME NEW run \in Run
    PROVE  /\ run.task \in Tasks /\ run.repo \in Repos
           /\ run.status \in {"queued", "running", "pr_ready", "failed", "canceled"}
           /\ run.phase \in 0..LastPhase /\ run.parked \in BOOLEAN
           /\ run.attempts \in 0..MaxAttempts /\ run.attempts \in Nat
           /\ run.daemon \in Daemons \cup {None}
           /\ run.heartbeat \in {"none", "fresh", "stale"}
           /\ run.claims \in 0..MaxClaims /\ run.claims \in Nat
<1>1. MaxAttempts \in Nat /\ MaxClaims \in Nat
  BY RunsAssumption
<1> QED
  BY <1>1 DEF Run, Live, Over

\* A row that ended for good, spent attempts later.
Ended(run, new, spent) ==
    /\ new \in Run /\ new.task = run.task /\ new.status = "failed"
    /\ new.attempts = run.attempts + spent /\ new.claims = run.claims

(* What ending a try changes in a row.                                     *)
LEMMA RequeuedFields ==
    ASSUME NEW run \in Run, NEW spent \in {0, 1}, run.attempts + spent <= MaxAttempts
    PROVE  LET new == Requeued(run, spent)
           IN  /\ new \in Run
               /\ new.task = run.task /\ new.status = "queued"
               /\ new.attempts = run.attempts + spent /\ new.claims = run.claims
               /\ new.daemon = None /\ new.heartbeat = "none"
<1>1. run.attempts + spent \in 0..MaxAttempts /\ 0 \in 0..LastPhase
  BY RunFields, RunsAssumption
<1>2. /\ None \in Daemons \cup {None} /\ "queued" \in Live \cup Over
      /\ "none" \in {"none", "fresh", "stale"}
  BY DEF Live
<1> QED
  BY <1>1, <1>2 DEF Requeued, Run

LEMMA FailedFields ==
    ASSUME NEW run \in Run, NEW spent \in {0, 1}, run.attempts + spent <= MaxAttempts
    PROVE  /\ Ended(run, Failed(run, spent), spent)
           /\ Ended(run, [Failed(run, spent) EXCEPT !.daemon = None], spent)
           /\ Ended(run, [Failed(run, spent) EXCEPT !.parked = TRUE], spent)
           /\ [Failed(run, spent) EXCEPT !.parked = TRUE].parked
<1>1. run.attempts + spent \in 0..MaxAttempts
  BY RunFields, RunsAssumption
<1>2. /\ None \in Daemons \cup {None} /\ "failed" \in Live \cup Over
      /\ "none" \in {"none", "fresh", "stale"} /\ TRUE \in BOOLEAN
  BY DEF Over
<1>3. Ended(run, Failed(run, spent), spent)
  BY <1>1, <1>2 DEF Failed, Run, Ended
<1>4. Ended(run, [Failed(run, spent) EXCEPT !.daemon = None], spent)
  BY <1>1, <1>2 DEF Failed, Run, Ended
<1>5. /\ Ended(run, [Failed(run, spent) EXCEPT !.parked = TRUE], spent)
      /\ [Failed(run, spent) EXCEPT !.parked = TRUE].parked
  BY <1>1, <1>2 DEF Failed, Run, Ended
<1> QED
  BY <1>3, <1>4, <1>5

(* The invariants on rows, taken together, are that every row is sound.    *)
LEMMA SoundRows ==
    ASSUME runs \in Seq(Run)
    PROVE  CeilingKept /\ ChargedOncePerClaim /\ Reclaimable
             <=> \A i \in DOMAIN runs : Sound(runs[i])
<1>0. \A i \in DOMAIN runs : runs[i] \in Run
  OBVIOUS
<1>1. \A i \in DOMAIN runs : /\ runs[i] \in Run
                             /\ runs[i].attempts \in Nat
                             /\ runs[i].claims \in Nat
  BY <1>0, RunFields
<1> QED
  BY <1>1 DEF CeilingKept, ChargedOncePerClaim, Reclaimable, Sound

-----------------------------------------------------------------------------
(* What the statements of the store make of a row.                         *)

(* A try that is charged for ends in a requeue or, at the ceiling, for     *)
(* good: reclaimZombieRuns and FailRun.                                    *)
LEMMA ChargedRow ==
    ASSUME NEW run, Sound(run), run.status = "running"
    PROVE  /\ Follows(run, Reclaimed(run))
           /\ Charge(run) = "failed" => Follows(run, Failed(run, 1))
           /\ Charge(run) # "failed" => Follows(run, Requeued(run, 1))
<1>1. /\ run \in Run
      /\ run.attempts \in Nat /\ run.claims \in Nat /\ MaxAttempts \in Nat
      /\ run.attempts < MaxAttempts /\ run.attempts < run.claims
  BY RunFields, RunsAssumption DEF Sound, Live
<1>2. CASE Charge(run) = "failed"
  <2>1. run.attempts + 1 = MaxAttempts
    BY <1>1, <1>2 DEF Charge
  <2> DEFINE new == Failed(run, 1)
             freed == [new EXCEPT !.daemon = None]
  <2>2. Ended(run, new, 1) /\ Ended(run, freed, 1)
    <3>1. 1 \in {0, 1} /\ run.attempts + 1 <= MaxAttempts
      BY <1>1, <2>1
    <3> QED
      BY <1>1, <3>1, FailedFields, Zenon
  <2> HIDE DEF new, freed
  <2>3. Follows(run, new) /\ Follows(run, freed)
    BY <1>1, <2>1, <2>2 DEF Follows, Sound, Live, Ended
  <2> QED
    BY <1>2, <2>3 DEF Reclaimed, new, freed
<1>3. CASE Charge(run) # "failed"
  <2>1. run.attempts + 1 < MaxAttempts
    BY <1>1, <1>3 DEF Charge
  <2> DEFINE new == Requeued(run, 1)
  <2>2. /\ new \in Run /\ new.task = run.task /\ new.status = "queued"
        /\ new.attempts < MaxAttempts /\ new.attempts <= new.claims
        /\ new.daemon = None /\ new.heartbeat = "none"
    BY <1>1, <2>1, RequeuedFields
  <2> HIDE DEF new
  <2>3. Follows(run, new)
    BY <2>2 DEF Follows, Sound, Live
  <2> QED
    BY <1>3, <2>3 DEF Reclaimed, new
<1> QED
  BY <1>2, <1>3

(* A report on a running row.                                              *)
LEMMA AppliedRow ==
    ASSUME NEW run, Sound(run), run.status = "running", NEW call \in Call
    PROVE  Follows(run, Applied(call, run))
<1>1. /\ run \in Run
      /\ run.attempts \in Nat /\ run.claims \in Nat /\ MaxAttempts \in Nat
      /\ run.attempts < MaxAttempts /\ run.attempts < run.claims
      /\ run.heartbeat # "none" /\ run.daemon # None
  BY RunFields, RunsAssumption DEF Sound, Live
<1>2. /\ call.report \in Report /\ call.phase \in 0..LastPhase
      /\ LastPhase \in 0..LastPhase
  BY RunsAssumption DEF Call
<1>3. CASE call.report = "progress"
  <2> DEFINE new == [run EXCEPT !.phase = call.phase, !.heartbeat = "fresh"]
  <2>1. new \in Run
    BY <1>1, <1>2 DEF Run
  <2>2. /\ new.task = run.task /\ new.status = "running"
        /\ new.attempts = run.attempts /\ new.claims = run.claims
        /\ new.daemon = run.daemon /\ new.heartbeat = "fresh"
    BY <1>1 DEF Run
  <2> HIDE DEF new
  <2>3. Follows(run, new)
    BY <1>1, <2>1, <2>2 DEF Follows, Sound, Live
  <2> QED
    BY <1>3, <2>3 DEF Applied, new
<1>4. CASE call.report = "complete"
  <2> DEFINE new == [run EXCEPT !.status = "pr_ready", !.phase = LastPhase,
                                !.heartbeat = "fresh"]
  <2>1. new \in Run
    BY <1>1, <1>2 DEF Run, Over
  <2>2. /\ new.task = run.task /\ new.status = "pr_ready"
        /\ new.attempts = run.attempts /\ new.claims = run.claims
    BY <1>1 DEF Run
  <2> HIDE DEF new
  <2>3. Follows(run, new)
    BY <1>1, <2>1, <2>2 DEF Follows, Sound, Live
  <2> QED
    BY <1>4, <2>3 DEF Applied, new
<1>5. CASE call.report = "park"
  <2> DEFINE new == [Failed(run, 0) EXCEPT !.parked = TRUE]
  <2>1. Ended(run, new, 0) /\ new.parked
    <3>1. 0 \in {0, 1} /\ run.attempts + 0 <= MaxAttempts
      BY <1>1
    <3> QED
      BY <1>1, <3>1, FailedFields, Zenon
  <2> HIDE DEF new
  <2>2. Follows(run, new)
    BY <1>1, <2>1 DEF Follows, Sound, Live, Ended
  <2> QED
    BY <1>5, <2>2 DEF Applied, new
<1>6. CASE call.report = "fail"
  BY <1>6, ChargedRow DEF Applied
<1>7. CASE call.report = "release"
  <2> DEFINE new == Requeued(run, 0)
  <2>1. /\ new \in Run /\ new.task = run.task /\ new.status = "queued"
        /\ new.attempts = run.attempts /\ new.claims = run.claims
        /\ new.daemon = None /\ new.heartbeat = "none"
    BY <1>1, RequeuedFields
  <2> HIDE DEF new
  <2>2. Follows(run, new)
    BY <1>1, <2>1 DEF Follows, Sound, Live
  <2> QED
    BY <1>7, <2>2 DEF Applied, new
<1> QED
  BY <1>2, <1>3, <1>4, <1>5, <1>6, <1>7 DEF Report

-----------------------------------------------------------------------------
(* From rows to the table.                                                 *)

(* A statement that updates rows in place.                                 *)
LEMMA UpdatedRows ==
    ASSUME TableOK,
           runs' = [i \in DOMAIN runs |-> runs'[i]],
           \A i \in DOMAIN runs : Follows(runs[i], runs'[i])
    PROVE  TableOK'
<1>1. runs \in Seq(Run) /\ Len(runs) \in Nat /\ DOMAIN runs = 1..Len(runs)
  BY DEF TableOK
<1>2. \A i \in DOMAIN runs : runs'[i] \in Run
  BY DEF Follows, Sound
<1>3. runs' \in [1..Len(runs) -> Run]
  BY <1>1, <1>2
<1>4. runs' \in Seq(Run) /\ Len(runs') = Len(runs) /\ DOMAIN runs' = DOMAIN runs
  BY <1>1, <1>3
<1>5. \A i \in DOMAIN runs' : Sound(runs'[i])
  BY <1>4 DEF Follows
<1>6. CeilingKept' /\ ChargedOncePerClaim' /\ Reclaimable'
  <2>1. \A i \in DOMAIN runs' : /\ runs'[i] \in Run
                                /\ runs'[i].attempts \in Nat
                                /\ runs'[i].claims \in Nat
    BY <1>5, RunFields DEF Sound
  <2> QED
    BY <1>5, <2>1 DEF CeilingKept, ChargedOncePerClaim, Reclaimable, Sound
<1>7. OneLiveRunPerTask'
  BY <1>4 DEF TableOK, OneLiveRunPerTask, Follows
<1> QED
  BY <1>1, <1>4, <1>6, <1>7 DEF TableOK

(* A statement that updates one row, if it is there.                       *)
LEMMA UpdatedRow ==
    ASSUME TableOK, NEW k, NEW new,
           runs' = [runs EXCEPT ![k] = new],
           k \in DOMAIN runs => Follows(runs[k], new)
    PROVE  TableOK'
<1>1. runs \in Seq(Run) /\ \A i \in DOMAIN runs : Sound(runs[i])
  BY SoundRows DEF TableOK
<1>2. /\ runs' = [i \in DOMAIN runs |-> IF i = k THEN new ELSE runs[i]]
      /\ runs' = [i \in DOMAIN runs |-> runs'[i]]
  OBVIOUS
<1>3. \A i \in DOMAIN runs : Follows(runs[i], runs'[i])
  BY <1>1, <1>2 DEF Follows
<1> QED
  BY <1>2, <1>3, UpdatedRows

(* CreateRun and RetryRun: the index lets a row in only when its task has  *)
(* none that is live.                                                      *)
LEMMA InsertedRow ==
    ASSUME TableOK, NEW t \in Tasks, NEW repo \in Repos, NoLiveRun(t), InsertRun(t, repo)
    PROVE  TableOK'
<1> DEFINE new == [task |-> t, repo |-> repo, status |-> "queued", phase |-> 0,
                   attempts |-> 0, daemon |-> None, heartbeat |-> "none",
                   parked |-> FALSE, claims |-> 0]
<1>1. new \in Run
  BY RunsAssumption DEF Run, Live, Over
<1>2. Sound(new)
  BY <1>1, RunsAssumption DEF Sound, Live
<1>3. runs \in Seq(Run) /\ (\A i \in DOMAIN runs : Sound(runs[i])) /\ Len(runs) < MaxRuns
  BY SoundRows DEF TableOK, InsertRun
<1> HIDE DEF new
<1>4. runs' = Append(runs, new)
  BY DEF InsertRun, new
<1>5. /\ runs' \in Seq(Run) /\ Len(runs') = Len(runs) + 1
      /\ runs'[Len(runs) + 1] = new
      /\ \A i \in DOMAIN runs : runs'[i] = runs[i]
      /\ DOMAIN runs' = DOMAIN runs \cup {Len(runs) + 1}
      /\ Len(runs) + 1 \notin DOMAIN runs
  BY <1>1, <1>3, <1>4
<1>6. \A i \in DOMAIN runs' : Sound(runs'[i])
  BY <1>2, <1>3, <1>5
<1>7. CeilingKept' /\ ChargedOncePerClaim' /\ Reclaimable'
  <2>1. \A i \in DOMAIN runs' : /\ runs'[i] \in Run
                                /\ runs'[i].attempts \in Nat
                                /\ runs'[i].claims \in Nat
    BY <1>6, RunFields DEF Sound
  <2> QED
    BY <1>6, <2>1 DEF CeilingKept, ChargedOncePerClaim, Reclaimable, Sound
<1>8. OneLiveRunPerTask'
  <2>1. new.task = t
    BY DEF new
  <2>2. \A i \in DOMAIN runs : runs[i].task = t => runs[i].status \notin Live
    BY DEF NoLiveRun, Live, Over
  <2> QED
    BY <1>5, <2>1, <2>2 DEF TableOK, OneLiveRunPerTask
<1>9. Len(runs') <= MaxRuns
  BY <1>3, <1>5, RunsAssumption
<1> QED
  BY <1>5, <1>7, <1>8, <1>9 DEF TableOK

(* Statements that leave the table alone.                                  *)
LEMMA SameRows == ASSUME TableOK, UNCHANGED runs PROVE TableOK'
BY DEF TableOK, OneLiveRunPerTask, CeilingKept, ChargedOncePerClaim, Reclaimable

-----------------------------------------------------------------------------
(* The actions.                                                            *)

LEMMA TypesOf == IInv => TypeOK
BY DEF IInv, TableOK, RequestsOK, TypeOK

LEMMA InitHolds == Init => IInv
<1> SUFFICES ASSUME Init PROVE IInv
  OBVIOUS
<1>1. runs = <<>> /\ runs \in Seq(Run) /\ Len(runs) <= MaxRuns /\ DOMAIN runs = {}
  BY RunsAssumption DEF Init
<1>2. TableOK
  BY <1>1 DEF TableOK, OneLiveRunPerTask, CeilingKept, ChargedOncePerClaim, Reclaimable
<1>3. RequestsOK
  BY DEF Init, RequestsOK
<1> QED
  BY <1>2, <1>3 DEF IInv

(* A row and what it says of its task, for the statements that read it.    *)
LEMMA RowAt ==
    ASSUME TableOK, NEW i \in DOMAIN runs
    PROVE  Sound(runs[i]) /\ runs[i] \in Run /\ i \in 1..Len(runs) /\ i \in 1..MaxRuns
<1>1. runs \in Seq(Run) /\ Len(runs) \in Nat /\ DOMAIN runs = 1..Len(runs)
  BY DEF TableOK
<1>2. Sound(runs[i])
  BY <1>1, SoundRows DEF TableOK
<1> QED
  BY <1>1, <1>2, RunsAssumption DEF TableOK, Sound

LEMMA UserHolds == ASSUME IInv, UserStep PROVE IInv'
<1> USE DEF IInv
<1>1. ASSUME NEW t \in Tasks, NEW repo \in Repos, CheckRepo(t, repo) PROVE IInv'
  <2>1. TableOK'
    BY <1>1, SameRows DEF CheckRepo, serverVars
  <2> QED
    BY <1>1, <2>1 DEF CheckRepo, serverVars, RequestsOK
<1>2. ASSUME NEW t \in Tasks, NEW repo \in Repos, CreateRun(t, repo) PROVE IInv'
  <2>1. TableOK'
    BY <1>2, SameRows, InsertedRow DEF CreateRun
  <2> QED
    BY <1>2, <2>1 DEF CreateRun, RequestsOK
<1>3. ASSUME NEW i \in DOMAIN runs, RetryRun(i) PROVE IInv'
  <2>1. runs[i].task \in Tasks /\ runs[i].repo \in Repos
    BY RowAt, RunFields
  <2>2. TableOK'
    BY <1>3, <2>1, InsertedRow DEF RetryRun
  <2> QED
    BY <1>3, <2>2 DEF RetryRun, requestVars, RequestsOK
<1>4. ASSUME NEW i \in DOMAIN runs, CancelRun(i) PROVE IInv'
  <2> DEFINE new == [runs[i] EXCEPT !.status = "canceled"]
  <2>1. new \in Run
    BY RowAt DEF Run, Over
  <2>2. /\ new.task = runs[i].task /\ new.status = "canceled"
        /\ new.attempts = runs[i].attempts /\ new.claims = runs[i].claims
    BY RowAt DEF Run
  <2>3. runs' = [runs EXCEPT ![i] = new]
    BY <1>4 DEF CancelRun
  <2> HIDE DEF new
  <2>4. Follows(runs[i], new)
    BY <1>4, <2>1, <2>2, RowAt DEF CancelRun, Follows, Sound, Live
  <2>5. TableOK'
    BY <2>3, <2>4, UpdatedRow
  <2> QED
    BY <1>4, <2>5 DEF CancelRun, requestVars, RequestsOK
<1>5. ASSUME NEW d \in Daemons, RevokeDaemon(d) PROVE IInv'
  <2>1. TableOK'
    BY <1>5, SameRows DEF RevokeDaemon
  <2> QED
    BY <1>5, <2>1 DEF RevokeDaemon, requestVars, RequestsOK
<1> QED
  BY <1>1, <1>2, <1>3, <1>4, <1>5 DEF UserStep, QueueRun

(* The reclaim: every row that it changes is charged for.                  *)
LEMMA ReclaimHolds == ASSUME IInv, NEW d \in Daemons, ReclaimZombieRuns(d) PROVE IInv'
<1>1. \A i \in DOMAIN runs : Follows(runs[i], runs'[i])
  <2> TAKE i \in DOMAIN runs
  <2>1. Sound(runs[i])
    BY RowAt DEF IInv
  <2>2. runs'[i] = IF Zombie(runs[i]) THEN Reclaimed(runs[i]) ELSE runs[i]
    BY DEF ReclaimZombieRuns
  <2>3. CASE Zombie(runs[i])
    BY <2>1, <2>2, <2>3, ChargedRow DEF Zombie
  <2>4. CASE ~Zombie(runs[i])
    BY <2>1, <2>2, <2>4 DEF Follows
  <2> QED
    BY <2>3, <2>4
<1>2. runs' = [i \in DOMAIN runs |-> runs'[i]]
  BY DEF ReclaimZombieRuns
<1>3. TableOK'
  BY <1>1, <1>2, UpdatedRows DEF IInv
<1> QED
  BY <1>3 DEF ReclaimZombieRuns, IInv, RequestsOK

(* The claim: an attempt that is not charged for yet.                      *)
LEMMA ClaimHolds ==
    ASSUME IInv, NEW d \in Daemons, NEW i \in DOMAIN runs, ClaimNextRun(d, i)
    PROVE  IInv'
<1> DEFINE new == [runs[i] EXCEPT !.status = "running", !.phase = 1, !.daemon = d,
                                  !.heartbeat = "fresh", !.claims = @ + 1]
<1>1. Sound(runs[i]) /\ runs[i] \in Run /\ i \in 1..MaxRuns
  BY RowAt DEF IInv
<1>2. runs[i].claims < MaxClaims /\ runs[i].status = "queued"
  BY DEF ClaimNextRun, Eligible
<1>3. runs[i].claims + 1 \in 1..MaxClaims /\ runs[i].claims + 1 \in 0..MaxClaims
  BY <1>1, <1>2, RunFields, RunsAssumption
<1>4. 1 \in 0..LastPhase /\ d # None
  BY RunsAssumption
<1>5. new \in Run
  BY <1>1, <1>3, <1>4 DEF Run, Live
<1>6. /\ new.task = runs[i].task /\ new.status = "running"
      /\ new.attempts = runs[i].attempts /\ new.claims = runs[i].claims + 1
      /\ new.daemon = d /\ new.heartbeat = "fresh"
  BY <1>1 DEF Run
<1>7. runs' = [runs EXCEPT ![i] = new]
  BY DEF ClaimNextRun
<1> HIDE DEF new
<1>8. Follows(runs[i], new)
  BY <1>1, <1>2, <1>4, <1>5, <1>6, RunFields DEF Follows, Sound, Live
<1>9. TableOK'
  BY <1>7, <1>8, UpdatedRow DEF IInv
<1>10. holds' \in [Daemons -> [run : 1..MaxRuns, claim : 1..MaxClaims] \cup {None}]
  <2>1. runs'[i].claims = runs[i].claims + 1
    BY <1>6, <1>7
  <2> DEFINE held == [run |-> i, claim |-> runs'[i].claims]
  <2>2. held \in [run : 1..MaxRuns, claim : 1..MaxClaims]
    BY <1>1, <1>3, <2>1
  <2>3. holds' \in {holds, [holds EXCEPT ![d] = held]}
    BY DEF ClaimNextRun
  <2> HIDE DEF held
  <2> QED
    BY <2>2, <2>3 DEF IInv, RequestsOK
<1> QED
  BY <1>9, <1>10 DEF ClaimNextRun, IInv, RequestsOK

LEMMA DaemonHolds == ASSUME IInv, NEW d \in Daemons, DaemonStep(d) PROVE IInv'
<1>1. ASSUME NEW reported \in SUBSET Repos, Register(d, reported) PROVE IInv'
  BY <1>1, SameRows DEF Register, serverVars, IInv, RequestsOK
<1>2. ASSUME NEW reported \in SUBSET Repos, ReplaceDaemonRepos(d, reported) PROVE IInv'
  BY <1>2, SameRows DEF ReplaceDaemonRepos, IInv, RequestsOK
<1>3. CASE ClaimNothing(d)
  BY <1>3, SameRows DEF ClaimNothing, serverVars, IInv, RequestsOK
<1>4. ASSUME NEW report \in Report, NEW phase \in 0..LastPhase, Send(d, report, phase)
      PROVE  IInv'
  <2> DEFINE call == [daemon |-> d, run |-> holds[d].run, claim |-> holds[d].claim,
                      report |-> report, phase |-> phase]
  <2>1. holds[d] \in [run : 1..MaxRuns, claim : 1..MaxClaims]
    BY <1>4 DEF Send, IInv, RequestsOK
  <2>2. call \in Call
    BY <2>1 DEF Call
  <2>3. calls' = calls \cup {call}
    BY <1>4 DEF Send
  <2>4. calls' \subseteq Call
    BY <2>2, <2>3 DEF IInv, RequestsOK
  <2> QED
    BY <1>4, <2>4, SameRows DEF Send, serverVars, IInv, RequestsOK
<1>5. CASE Forget(d)
  BY <1>5, SameRows DEF Forget, serverVars, requestVars, IInv, RequestsOK
<1> QED
  BY <1>1, <1>2, <1>3, <1>4, <1>5, ReclaimHolds, ClaimHolds DEF DaemonStep

(* Whatever a report finds of its run: the row it names, if it is held.    *)
LEMMA HandleHolds == ASSUME IInv, NEW call \in calls, Handle(call) PROVE IInv'
<1>1. call \in Call
  BY DEF IInv, RequestsOK
<1>2. TableOK'
  <2>1. CASE Held(call)
    <3>1. call.run \in DOMAIN runs => Follows(runs[call.run], Applied(call, runs[call.run]))
      BY <1>1, <2>1, RowAt, AppliedRow DEF Held, IInv
    <3>2. runs' = [runs EXCEPT ![call.run] = Applied(call, runs[call.run])]
      BY <2>1 DEF Handle
    <3> QED
      BY <3>1, <3>2, UpdatedRow DEF IInv
  <2>2. CASE ~Held(call)
    BY <2>2, SameRows DEF Handle, IInv
  <2> QED
    BY <2>1, <2>2
<1>3. holds' \in [Daemons -> [run : 1..MaxRuns, claim : 1..MaxClaims] \cup {None}]
  BY DEF Handle, IInv, RequestsOK
<1> QED
  BY <1>2, <1>3 DEF Handle, IInv, RequestsOK

LEMMA SilentHolds == ASSUME IInv, NEW i \in DOMAIN runs, FallSilent(i) PROVE IInv'
<1> DEFINE new == [runs[i] EXCEPT !.heartbeat = "stale"]
<1>1. Sound(runs[i]) /\ runs[i] \in Run /\ runs[i].status = "running"
  BY RowAt DEF IInv, FallSilent
<1>2. new \in Run
  BY <1>1 DEF Run
<1>3. /\ new.task = runs[i].task /\ new.status = "running"
      /\ new.attempts = runs[i].attempts /\ new.claims = runs[i].claims
      /\ new.daemon = runs[i].daemon /\ new.heartbeat = "stale"
  BY <1>1 DEF Run
<1>4. runs' = [runs EXCEPT ![i] = new]
  BY DEF FallSilent
<1> HIDE DEF new
<1>5. Follows(runs[i], new)
  BY <1>1, <1>2, <1>3 DEF Follows, Sound, Live
<1>6. TableOK'
  BY <1>4, <1>5, UpdatedRow DEF IInv
<1> QED
  BY <1>6 DEF FallSilent, requestVars, IInv, RequestsOK

LEMMA NextHolds == IInv /\ [Next]_vars => IInv'
<1> SUFFICES ASSUME IInv, [Next]_vars PROVE IInv'
  OBVIOUS
<1>1. ASSUME NEW call \in calls, Lose(call) PROVE IInv'
  BY <1>1, SameRows DEF Lose, serverVars, IInv, RequestsOK
<1>2. CASE UNCHANGED vars
  BY <1>2, SameRows DEF vars, serverVars, requestVars, IInv, RequestsOK
<1> QED
  BY <1>1, <1>2, UserHolds, DaemonHolds, SilentHolds, HandleHolds DEF Next

LEMMA InvariantHolds == Spec => []IInv
BY InitHolds, NextHolds, PTL DEF Spec

\* Every reachable state of the runs, the daemons and their requests is well
\* typed: attempts never pass max_attempts, in particular.
THEOREM TypeCorrect == Spec => []TypeOK
BY InvariantHolds, TypesOf, PTL

\* uq_automation_runs_active: however queueing, retrying, requeueing and
\* reclaiming mix, a task never has two live runs.
THEOREM OneLiveRunPerTaskHolds == Spec => []OneLiveRunPerTask
BY InvariantHolds, PTL DEF IInv, TableOK

\* FailRun and reclaimZombieRuns: the two statements that compare the attempts
\* agree, a live run has a try left and none fails before its last.
THEOREM CeilingKeptHolds == Spec => []CeilingKept
BY InvariantHolds, PTL DEF IInv, TableOK

\* Late and repeated reports, reports of an earlier claim and reclaims charge
\* at most one attempt per claim.
THEOREM ChargedOncePerClaimHolds == Spec => []ChargedOncePerClaim
BY InvariantHolds, PTL DEF IInv, TableOK

\* A running row always has the heartbeat that a reclaim compares, a queued row
\* never has a daemon that may report on it.
THEOREM ReclaimableHolds == Spec => []Reclaimable
BY InvariantHolds, PTL DEF IInv, TableOK

-----------------------------------------------------------------------------
(* The runs implement the job queue.                                       *)

JobOf(run) == [task |-> run.task, status |-> run.status, attempts |-> run.attempts]

JobsOf(rs) == [i \in DOMAIN rs |-> JobOf(rs[i])]

(* A change of one row is a change of one job.                             *)
LEMMA UpdatedJob ==
    ASSUME NEW k \in DOMAIN runs, NEW new, runs' = [runs EXCEPT ![k] = new]
    PROVE  JobsOf(runs') = [JobsOf(runs) EXCEPT ![k] = JobOf(new)]
BY DEF JobsOf

(* A row that changes its status only.                                     *)
LEMMA MovesJob ==
    ASSUME NEW k \in DOMAIN runs, NEW new, runs' = [runs EXCEPT ![k] = new],
           new.task = runs[k].task, new.attempts = runs[k].attempts
    PROVE  /\ new.status = runs[k].status => JobsOf(runs') = JobsOf(runs)
           /\ runs[k].status = "queued" /\ new.status = "running" => Jobs!Start(k)
           /\ runs[k].status = "running" /\ new.status = "pr_ready" => Jobs!Succeed(k)
           /\ runs[k].status \in Live /\ new.status = "canceled" => Jobs!Cancel(k)
<1>1. JobsOf(runs') = [JobsOf(runs) EXCEPT ![k] = JobOf(new)]
  BY UpdatedJob
<1>2. JobsOf(runs') = [JobsOf(runs) EXCEPT ![k].status = new.status]
  BY <1>1 DEF JobsOf, JobOf
<1>3. k \in DOMAIN JobsOf(runs) /\ JobsOf(runs)[k].status = runs[k].status
  BY DEF JobsOf, JobOf
<1>4. new.status = runs[k].status => JobsOf(runs') = JobsOf(runs)
  BY <1>2 DEF JobsOf, JobOf
<1> QED
  BY <1>2, <1>3, <1>4 DEF Jobs!Start, Jobs!Succeed, Jobs!Cancel, Jobs!Live, Live, JobsOf, JobOf

(* A try that ends without a result: there is another one, or there is not. *)
LEMMA EndsTry ==
    ASSUME NEW k \in DOMAIN runs, NEW new, NEW spent \in {0, 1},
           runs' = [runs EXCEPT ![k] = new],
           runs[k].status = "running",
           runs[k].attempts \in Nat,
           new.task = runs[k].task, new.attempts = runs[k].attempts + spent
    PROVE  /\ /\ new.status = "queued"
              /\ runs[k].attempts + spent < MaxAttempts
              => Jobs!Requeue(k)
           /\ /\ new.status = "failed"
              /\ spent = 1 => runs[k].attempts + 1 = MaxAttempts
              => Jobs!Fail(k)
<1>1. JobsOf(runs') = [JobsOf(runs) EXCEPT ![k] = JobOf(new)]
  BY UpdatedJob
<1>2. JobsOf(runs') = [JobsOf(runs) EXCEPT ![k].status = new.status, ![k].attempts = @ + spent]
  BY <1>1 DEF JobsOf, JobOf
<1>3. /\ JobsOf(runs)[k].status = "running"
      /\ JobsOf(runs)[k].attempts = runs[k].attempts
  BY DEF JobsOf, JobOf
<1>4. ASSUME new.status = "queued", runs[k].attempts + spent < MaxAttempts
      PROVE  Jobs!Requeue(k)
  BY <1>2, <1>3, <1>4 DEF Jobs!Requeue, JobsOf, JobOf
<1>5. ASSUME new.status = "failed", spent = 1 => runs[k].attempts + 1 = MaxAttempts
      PROVE  Jobs!Fail(k)
  BY <1>2, <1>3, <1>5 DEF Jobs!Fail, JobsOf, JobOf
<1> QED
  BY <1>4, <1>5

(* A sequence that is another one with one more element.                   *)
LEMMA IsAppend ==
    ASSUME NEW S, NEW q \in Seq(S), NEW e \in S, NEW s \in Seq(S),
           Len(s) = Len(q) + 1, s[Len(q) + 1] = e,
           \A i \in 1..Len(q) : s[i] = q[i]
    PROVE  s = Append(q, e)
<1> DEFINE t == Append(q, e)
<1>1. /\ t \in Seq(S) /\ Len(t) = Len(q) + 1 /\ t[Len(q) + 1] = e
      /\ \A i \in 1..Len(q) : t[i] = q[i]
  BY AppendProperties
<1> HIDE DEF t
<1>2. Len(q) \in Nat /\ \A i \in 1..Len(s) : s[i] = t[i]
  BY <1>1
<1>3. s = t
  BY <1>1, <1>2, SeqEqual
<1> QED
  BY <1>3 DEF t

(* An inserted row is a job submitted: the index is its guard.             *)
LEMMA SubmitsJob ==
    ASSUME TableOK, NEW t \in Tasks, NEW repo \in Repos, NoLiveRun(t), InsertRun(t, repo)
    PROVE  Jobs!Submit(t)
<1> DEFINE new == [task |-> t, repo |-> repo, status |-> "queued", phase |-> 0,
                   attempts |-> 0, daemon |-> None, heartbeat |-> "none",
                   parked |-> FALSE, claims |-> 0]
           job == [task |-> t, status |-> "queued", attempts |-> 0]
<1>1. JobOf(new) = job
  BY DEF JobOf
<1> HIDE DEF new
<1>2. runs \in Seq(Run) /\ runs' = Append(runs, new)
  BY DEF TableOK, InsertRun, new
<1>3. Len(runs) \in Nat /\ DOMAIN runs = 1..Len(runs)
  BY <1>2
<1>4. /\ DOMAIN runs' = 1..(Len(runs) + 1)
      /\ \A i \in DOMAIN runs' : runs'[i] = IF i = Len(runs) + 1 THEN new ELSE runs[i]
  BY <1>2, <1>3
<1>5. JobsOf(runs') = Append(JobsOf(runs), job)
  <2> DEFINE S == {JobOf(runs[i]) : i \in DOMAIN runs} \cup {job}
             q == JobsOf(runs)
             s == JobsOf(runs')
  <2>1. q \in [1..Len(runs) -> S]
    BY <1>3 DEF JobsOf
  <2>2. s \in [1..(Len(runs) + 1) -> S]
    BY <1>1, <1>3, <1>4 DEF JobsOf
  <2>3. /\ s[Len(runs) + 1] = job
        /\ \A i \in 1..Len(runs) : s[i] = q[i]
    BY <1>1, <1>3, <1>4 DEF JobsOf
  <2> HIDE DEF S, q, s, job
  <2>4. q \in Seq(S) /\ Len(q) = Len(runs) /\ s \in Seq(S) /\ Len(s) = Len(runs) + 1
    BY <1>3, <2>1, <2>2
  <2>5. job \in S
    BY DEF S
  <2>6. s = Append(q, job)
    BY <2>3, <2>4, <2>5, IsAppend
  <2> QED
    BY <2>6 DEF q, s
<1>6. \A i \in DOMAIN JobsOf(runs) : JobsOf(runs)[i].task = t => JobsOf(runs)[i].status \in Over
  BY DEF NoLiveRun, JobsOf, JobOf
<1> QED
  BY <1>5, <1>6 DEF Jobs!Submit, Jobs!Over, Over, JobsOf, JobOf

(* A reclaim ends tries that were abandoned, several at once.              *)
LEMMA ReclaimsJobs ==
    ASSUME TableOK, NEW d \in Daemons, ReclaimZombieRuns(d)
    PROVE  Jobs!Abandon
<1>1. /\ runs' = [i \in DOMAIN runs |-> IF Zombie(runs[i]) THEN Reclaimed(runs[i]) ELSE runs[i]]
      /\ DOMAIN runs' = DOMAIN runs
  BY DEF ReclaimZombieRuns
<1>2. ASSUME NEW i \in DOMAIN runs, Zombie(runs[i])
      PROVE  /\ runs[i].status = "running"
             /\ JobOf(runs'[i]) =
                  [task |-> runs[i].task,
                   status |-> IF runs[i].attempts + 1 < MaxAttempts THEN "queued" ELSE "failed",
                   attempts |-> runs[i].attempts + 1]
  <2>1. runs[i] \in Run /\ runs[i].attempts \in Nat /\ MaxAttempts \in Nat
    BY RowAt, RunFields, RunsAssumption
  <2>2. runs'[i] = Reclaimed(runs[i])
    BY <1>1, <1>2
  <2>3. /\ Reclaimed(runs[i]).task = runs[i].task
        /\ Reclaimed(runs[i]).attempts = runs[i].attempts + 1
        /\ Reclaimed(runs[i]).status = Charge(runs[i])
    BY <2>1 DEF Reclaimed, Requeued, Failed, Charge, Run
  <2>4. Charge(runs[i]) = IF runs[i].attempts + 1 < MaxAttempts THEN "queued" ELSE "failed"
    BY <2>1 DEF Charge
  <2> QED
    BY <1>2, <2>2, <2>3, <2>4 DEF JobOf, Zombie
<1>3. \A i \in DOMAIN runs : ~Zombie(runs[i]) => JobOf(runs'[i]) = JobOf(runs[i])
  BY <1>1
<1>4. /\ DOMAIN JobsOf(runs') = DOMAIN JobsOf(runs)
      /\ \A i \in DOMAIN runs : JobsOf(runs')[i] = JobOf(runs'[i]) /\ JobsOf(runs)[i] = JobOf(runs[i])
  BY <1>1 DEF JobsOf
<1>5. \A i \in DOMAIN JobsOf(runs) :
         LET old == JobsOf(runs)[i]
         IN  \/ JobsOf(runs')[i] = old
             \/ /\ old.status = "running"
                /\ JobsOf(runs')[i] =
                     [task |-> old.task,
                      status |-> IF old.attempts + 1 < MaxAttempts THEN "queued" ELSE "failed",
                      attempts |-> old.attempts + 1]
  <2> TAKE i \in DOMAIN JobsOf(runs)
  <2>1. i \in DOMAIN runs
    BY DEF JobsOf
  <2>2. /\ JobsOf(runs)[i].task = runs[i].task
        /\ JobsOf(runs)[i].status = runs[i].status
        /\ JobsOf(runs)[i].attempts = runs[i].attempts
    BY <2>1 DEF JobsOf, JobOf
  <2> QED
    BY <1>2, <1>3, <1>4, <2>1, <2>2
<1> QED
  BY <1>4, <1>5 DEF Jobs!Abandon, JobsOf, JobOf

(* What a report makes of the fields users see.                            *)
LEMMA ReportedFields ==
    ASSUME NEW run \in Run, run.attempts < MaxAttempts, NEW call \in Call
    PROVE  LET new == Applied(call, run)
           IN  /\ new.task = run.task
               /\ call.report \in {"progress", "complete", "park", "release"}
                    => new.attempts = run.attempts
               /\ call.report = "progress" => new.status = run.status
               /\ call.report = "complete" => new.status = "pr_ready"
               /\ call.report = "park" => new.status = "failed"
               /\ call.report = "release" => new.status = "queued"
               /\ call.report = "fail" => /\ new.status = Charge(run)
                                          /\ new.attempts = run.attempts + 1
<1>1. /\ run.attempts \in Nat /\ MaxAttempts \in Nat
      /\ run.attempts + 0 = run.attempts /\ call.report \in Report
  BY RunFields, RunsAssumption DEF Call
<1> DEFINE new == Applied(call, run)
<1>2. CASE call.report = "progress"
  <2>1. new = [run EXCEPT !.phase = call.phase, !.heartbeat = "fresh"]
    BY <1>2 DEF Applied
  <2> HIDE DEF new
  <2> QED
    BY <1>2, <2>1 DEF Run, new
<1>3. CASE call.report = "complete"
  <2>1. new = [run EXCEPT !.status = "pr_ready", !.phase = LastPhase, !.heartbeat = "fresh"]
    BY <1>3 DEF Applied
  <2> HIDE DEF new
  <2> QED
    BY <1>3, <2>1 DEF Run, new
<1>4. CASE call.report = "park"
  <2>1. new = [Failed(run, 0) EXCEPT !.parked = TRUE]
    BY <1>4 DEF Applied
  <2>2. 0 \in {0, 1} /\ run.attempts + 0 <= MaxAttempts
    BY <1>1
  <2>3. Ended(run, new, 0)
    BY <2>1, <2>2, FailedFields, Zenon
  <2> HIDE DEF new
  <2> QED
    BY <1>1, <1>4, <2>3 DEF Ended, new
<1>5. CASE call.report = "release"
  <2>1. new = Requeued(run, 0)
    BY <1>5 DEF Applied
  <2> HIDE DEF new
  <2> QED
    BY <1>1, <1>5, <2>1, RequeuedFields DEF new
<1>6. CASE call.report = "fail"
  <2>1. new = IF Charge(run) = "failed" THEN Failed(run, 1) ELSE Requeued(run, 1)
    BY <1>6 DEF Applied
  <2>2. 1 \in {0, 1} /\ run.attempts + 1 <= MaxAttempts /\ Charge(run) \in {"queued", "failed"}
    BY <1>1 DEF Charge
  <2>3. Ended(run, Failed(run, 1), 1)
    BY <2>2, FailedFields
  <2> HIDE DEF new
  <2> QED
    BY <1>1, <1>6, <2>1, <2>2, <2>3, RequeuedFields DEF Ended, new
<1> QED
  BY <1>1, <1>2, <1>3, <1>4, <1>5, <1>6 DEF Report

(* A report on a run that is held ends its job, its try, or neither.       *)
LEMMA ReportsJob ==
    ASSUME IInv, NEW call \in calls, Handle(call)
    PROVE  Jobs!Next \/ JobsOf(runs') = JobsOf(runs)
<1> DEFINE k == call.run
           new == Applied(call, runs[k])
<1>1. CASE ~(Held(call) /\ k \in DOMAIN runs)
  <2>1. runs' = runs
    BY <1>1 DEF Handle, IInv, TableOK
  <2> QED
    BY <2>1
<1>2. CASE Held(call) /\ k \in DOMAIN runs
  <2>1. runs' = [runs EXCEPT ![k] = new]
    BY <1>2 DEF Handle
  <2>2. /\ runs[k] \in Run /\ runs[k].status = "running" /\ call \in Call
        /\ runs[k].attempts \in Nat /\ runs[k].attempts < MaxAttempts /\ MaxAttempts \in Nat
    BY <1>2, RowAt, RunFields, RunsAssumption DEF Held, IInv, RequestsOK, Sound, Live
  <2>3. /\ new.task = runs[k].task
        /\ call.report \in {"progress", "complete", "park", "release"}
             => new.attempts = runs[k].attempts
        /\ call.report = "progress" => new.status = "running"
        /\ call.report = "complete" => new.status = "pr_ready"
        /\ call.report = "park" => new.status = "failed"
        /\ call.report = "release" => new.status = "queued"
        /\ call.report = "fail" => /\ new.status = Charge(runs[k])
                                   /\ new.attempts = runs[k].attempts + 1
    BY <2>2, ReportedFields
  <2> HIDE DEF new
  <2>4. CASE call.report = "progress"
    BY <1>2, <2>1, <2>2, <2>3, <2>4, MovesJob
  <2>5. CASE call.report = "complete"
    <3>1. Jobs!Succeed(k)
      BY <1>2, <2>1, <2>2, <2>3, <2>5, MovesJob
    <3> QED
      BY <1>2, <3>1 DEF Jobs!Next
  <2>6. CASE call.report \in {"park", "release"}
    <3>1. new.attempts = runs[k].attempts + 0 /\ runs[k].attempts + 0 < MaxAttempts
      BY <2>2, <2>3, <2>6
    <3>2. /\ 0 \in {0, 1} /\ new.status \in {"failed", "queued"}
          /\ 0 = 1 => runs[k].attempts + 1 = MaxAttempts
      BY <2>3, <2>6
    <3>3. CASE new.status = "failed"
      <4>1. Jobs!Fail(k)
        BY <1>2, <2>1, <2>2, <2>3, <3>1, <3>2, <3>3, EndsTry, Zenon
      <4> QED
        BY <1>2, <4>1 DEF Jobs!Next
    <3>4. CASE new.status = "queued"
      <4>1. Jobs!Requeue(k)
        BY <1>2, <2>1, <2>2, <2>3, <3>1, <3>2, <3>4, EndsTry, Zenon
      <4> QED
        BY <1>2, <4>1 DEF Jobs!Next
    <3> QED
      BY <3>2, <3>3, <3>4
  <2>7. CASE call.report = "fail"
    <3>1. \/ new.status = "failed" /\ runs[k].attempts + 1 = MaxAttempts
          \/ new.status = "queued" /\ runs[k].attempts + 1 < MaxAttempts
      BY <2>2, <2>3, <2>7 DEF Charge
    <3>2. Jobs!Fail(k) \/ Jobs!Requeue(k)
      BY <1>2, <2>1, <2>2, <2>3, <2>7, <3>1, EndsTry
    <3> QED
      BY <1>2, <3>2 DEF Jobs!Next
  <2> QED
    BY <2>2, <2>4, <2>5, <2>6, <2>7 DEF Report, Call
<1> QED
  BY <1>1, <1>2

LEMMA StepImplementsJobs ==
    ASSUME IInv, [Next]_vars
    PROVE  Jobs!Next \/ JobsOf(runs') = JobsOf(runs)
<1> USE DEF IInv
<1>1. ASSUME NEW t \in Tasks, NEW repo \in Repos, CreateRun(t, repo)
      PROVE  Jobs!Next \/ UNCHANGED runs
  BY <1>1, SubmitsJob DEF CreateRun, Jobs!Next
<1>2. ASSUME NEW i \in DOMAIN runs, RetryRun(i) PROVE Jobs!Next
  <2>1. runs[i].task \in Tasks /\ runs[i].repo \in Repos
    BY RowAt, RunFields
  <2> QED
    BY <1>2, <2>1, SubmitsJob DEF RetryRun, Jobs!Next
<1>3. ASSUME NEW i \in DOMAIN runs, CancelRun(i) PROVE Jobs!Next
  <2> DEFINE new == [runs[i] EXCEPT !.status = "canceled"]
  <2>1. /\ runs' = [runs EXCEPT ![i] = new] /\ runs[i].status \in Live
        /\ runs[i] \in Run
    BY <1>3, RowAt DEF CancelRun
  <2>2. new.task = runs[i].task /\ new.attempts = runs[i].attempts /\ new.status = "canceled"
    BY <2>1 DEF Run
  <2> HIDE DEF new
  <2>3. Jobs!Cancel(i)
    BY <2>1, <2>2, MovesJob
  <2> QED
    BY <2>3 DEF Jobs!Next
<1>4. ASSUME NEW d \in Daemons, ReclaimZombieRuns(d) PROVE Jobs!Next
  BY <1>4, ReclaimsJobs DEF Jobs!Next
<1>5. ASSUME NEW d \in Daemons, NEW i \in DOMAIN runs, ClaimNextRun(d, i) PROVE Jobs!Next
  <2> DEFINE new == [runs[i] EXCEPT !.status = "running", !.phase = 1, !.daemon = d,
                                    !.heartbeat = "fresh", !.claims = @ + 1]
  <2>1. /\ runs' = [runs EXCEPT ![i] = new] /\ runs[i].status = "queued"
        /\ runs[i] \in Run
    BY <1>5, RowAt DEF ClaimNextRun, Eligible
  <2>2. new.task = runs[i].task /\ new.attempts = runs[i].attempts /\ new.status = "running"
    BY <2>1 DEF Run
  <2> HIDE DEF new
  <2>3. Jobs!Start(i)
    BY <2>1, <2>2, MovesJob
  <2> QED
    BY <2>3 DEF Jobs!Next
<1>6. ASSUME NEW i \in DOMAIN runs, FallSilent(i) PROVE JobsOf(runs') = JobsOf(runs)
  <2> DEFINE new == [runs[i] EXCEPT !.heartbeat = "stale"]
  <2>1. runs' = [runs EXCEPT ![i] = new] /\ runs[i] \in Run
    BY <1>6, RowAt DEF FallSilent
  <2>2. new.task = runs[i].task /\ new.attempts = runs[i].attempts /\ new.status = runs[i].status
    BY <2>1 DEF Run
  <2> HIDE DEF new
  <2> QED
    BY <2>1, <2>2, MovesJob
<1>7. ASSUME NEW d \in Daemons, DaemonStep(d) PROVE Jobs!Next \/ UNCHANGED runs
  BY <1>4, <1>5, <1>7 DEF DaemonStep, Register, ReplaceDaemonRepos, ClaimNothing, Send,
     Forget, serverVars
<1>8. CASE UserStep
  BY <1>1, <1>2, <1>3, <1>8 DEF UserStep, QueueRun, CheckRepo, RevokeDaemon, serverVars
<1>9. ASSUME NEW call \in calls, Lose(call) PROVE UNCHANGED runs
  BY <1>9 DEF Lose, serverVars
<1>10. CASE UNCHANGED vars
  BY <1>10 DEF vars, serverVars
<1> QED
  BY <1>6, <1>7, <1>8, <1>9, <1>10, ReportsJob DEF Next

\* What users are promised, whatever daemons do: CreateRun, CancelRun, ClaimRun,
\* the four reports and the reclaim are steps of a queue in which a job that is
\* over stays over.
THEOREM ImplementsJobQueue == Spec => JobQueueSpec
<1>1. Init => Jobs!Init
  BY DEF Init, Jobs!Init
<1>2. IInv /\ [Next]_vars =>
        [Jobs!Next]_([i \in DOMAIN runs |->
                        [task |-> runs[i].task, status |-> runs[i].status,
                         attempts |-> runs[i].attempts]])
  BY StepImplementsJobs DEF JobsOf, JobOf
<1> QED
  BY <1>1, <1>2, InvariantHolds, PTL DEF Spec, JobQueueSpec, Jobs!Spec

(* What the queue's steps never do to a job: take it out, move it to another *)
(* task, give a try back, or touch it once it is over.                       *)
KeepsRun(run, new) ==
    /\ new.task = run.task
    /\ run.attempts <= new.attempts
    /\ run.status \in Over => new.status = run.status /\ new.attempts = run.attempts

LEMMA JobsKept ==
    ASSUME IInv, Jobs!Next \/ JobsOf(runs') = JobsOf(runs)
    PROVE  \A i \in DOMAIN runs : i \in DOMAIN runs' /\ KeepsRun(runs[i], runs'[i])
<1> DEFINE J == JobsOf(runs)
           K == JobsOf(runs')
           Kept == \A i \in DOMAIN J : i \in DOMAIN K /\ KeepsRun(J[i], K[i])
<1>1. /\ DOMAIN J = DOMAIN runs /\ DOMAIN K = DOMAIN runs'
      /\ \A i \in DOMAIN runs : /\ J[i].task = runs[i].task
                                 /\ J[i].status = runs[i].status
                                 /\ J[i].attempts = runs[i].attempts
      /\ \A i \in DOMAIN runs' : /\ K[i].task = runs'[i].task
                                  /\ K[i].status = runs'[i].status
                                  /\ K[i].attempts = runs'[i].attempts
  BY DEF JobsOf, JobOf
<1>2. /\ J = [i \in 1..Len(runs) |-> J[i]] /\ DOMAIN J = 1..Len(runs)
      /\ \A i \in DOMAIN J : J[i].attempts \in Nat /\ KeepsRun(J[i], J[i])
  <2>1. DOMAIN J = 1..Len(runs)
    BY <1>1 DEF IInv, TableOK
  <2>2. J = [i \in 1..Len(runs) |-> J[i]]
    BY <2>1 DEF JobsOf
  <2>3. ASSUME NEW i \in DOMAIN J PROVE J[i].attempts \in Nat
    BY <1>1, RowAt, RunFields DEF IInv
  <2>4. ASSUME NEW i \in DOMAIN J PROVE KeepsRun(J[i], J[i])
    BY <2>3 DEF KeepsRun
  <2> QED
    BY <2>1, <2>2, <2>3, <2>4
<1>3. J \in Seq({J[i] : i \in DOMAIN J}) /\ Len(J) = Len(runs)
  <2>1. Len(runs) \in Nat
    BY DEF IInv, TableOK
  <2> QED
    BY <1>2, <2>1
<1> SUFFICES Kept
  BY <1>1 DEF KeepsRun
<1>4. CASE J = K
  BY <1>2, <1>4
<1>5. ASSUME NEW k \in DOMAIN J,
             J[k].status \in {"queued", "running"},
             DOMAIN K = DOMAIN J,
             \A i \in DOMAIN J \ {k} : K[i] = J[i],
             K[k].task = J[k].task, J[k].attempts <= K[k].attempts
      PROVE  Kept
  <2> HIDE DEF J, K
  <2> QED
    BY <1>2, <1>5 DEF KeepsRun, Over
<1>6. ASSUME NEW t \in Tasks, Jobs!Submit(t) PROVE Kept
  <2>1. K = Append(J, [task |-> t, status |-> "queued", attempts |-> 0])
    BY <1>6 DEF Jobs!Submit, JobsOf, JobOf
  <2>2. \A i \in DOMAIN J : i \in DOMAIN K /\ K[i] = J[i]
    <3> HIDE DEF J, K
    <3> QED
      BY <1>2, <1>3, <2>1
  <2> QED
    BY <1>2, <2>2
<1>7. ASSUME NEW k \in DOMAIN runs, Jobs!Start(k) PROVE Kept
  <2>1. K = [J EXCEPT ![k].status = "running"] /\ J[k].status \in {"queued", "running"}
    BY <1>7 DEF Jobs!Start, Jobs!Live, JobsOf, JobOf
  <2>2. k \in DOMAIN J /\ J[k].attempts \in Nat
    BY <1>1, <1>2
  <2>3. J[k] = [task |-> J[k].task, status |-> J[k].status, attempts |-> J[k].attempts]
    BY DEF JobsOf, JobOf
  <2> HIDE DEF J, K, Kept
  <2>4. /\ DOMAIN K = DOMAIN J /\ \A i \in DOMAIN J \ {k} : K[i] = J[i]
        /\ K[k].task = J[k].task /\ J[k].attempts <= K[k].attempts
    BY <2>1, <2>2, <2>3
  <2> QED
    BY <1>5, <2>1, <2>2, <2>4
<1>8. ASSUME NEW k \in DOMAIN runs, Jobs!Requeue(k) PROVE Kept
  <2>1. /\ \E spent \in {0, 1} :
              K = [J EXCEPT ![k].status = "queued", ![k].attempts = @ + spent]
        /\ J[k].status = "running"
    BY <1>8 DEF Jobs!Requeue, JobsOf, JobOf
  <2>2. k \in DOMAIN J /\ J[k].attempts \in Nat
    BY <1>1, <1>2
  <2>3. J[k] = [task |-> J[k].task, status |-> J[k].status, attempts |-> J[k].attempts]
    BY DEF JobsOf, JobOf
  <2> HIDE DEF J, K, Kept
  <2>4. /\ DOMAIN K = DOMAIN J /\ \A i \in DOMAIN J \ {k} : K[i] = J[i]
        /\ K[k].task = J[k].task /\ J[k].attempts <= K[k].attempts
    BY <2>1, <2>2, <2>3
  <2> QED
    BY <1>5, <2>1, <2>2, <2>4
<1>9. ASSUME NEW k \in DOMAIN runs, Jobs!Fail(k) PROVE Kept
  <2>1. /\ \E spent \in {0, 1} :
              K = [J EXCEPT ![k].status = "failed", ![k].attempts = @ + spent]
        /\ J[k].status = "running"
    BY <1>9 DEF Jobs!Fail, JobsOf, JobOf
  <2>2. k \in DOMAIN J /\ J[k].attempts \in Nat
    BY <1>1, <1>2
  <2>3. J[k] = [task |-> J[k].task, status |-> J[k].status, attempts |-> J[k].attempts]
    BY DEF JobsOf, JobOf
  <2> HIDE DEF J, K, Kept
  <2>4. /\ DOMAIN K = DOMAIN J /\ \A i \in DOMAIN J \ {k} : K[i] = J[i]
        /\ K[k].task = J[k].task /\ J[k].attempts <= K[k].attempts
    BY <2>1, <2>2, <2>3
  <2> QED
    BY <1>5, <2>1, <2>2, <2>4
<1>10. ASSUME NEW k \in DOMAIN runs, Jobs!Succeed(k) PROVE Kept
  <2>1. K = [J EXCEPT ![k].status = "pr_ready"] /\ J[k].status \in {"queued", "running"}
    BY <1>10 DEF Jobs!Succeed, Jobs!Live, JobsOf, JobOf
  <2>2. k \in DOMAIN J /\ J[k].attempts \in Nat
    BY <1>1, <1>2
  <2>3. J[k] = [task |-> J[k].task, status |-> J[k].status, attempts |-> J[k].attempts]
    BY DEF JobsOf, JobOf
  <2> HIDE DEF J, K, Kept
  <2>4. /\ DOMAIN K = DOMAIN J /\ \A i \in DOMAIN J \ {k} : K[i] = J[i]
        /\ K[k].task = J[k].task /\ J[k].attempts <= K[k].attempts
    BY <2>1, <2>2, <2>3
  <2> QED
    BY <1>5, <2>1, <2>2, <2>4
<1>11. ASSUME NEW k \in DOMAIN runs, Jobs!Cancel(k) PROVE Kept
  <2>1. K = [J EXCEPT ![k].status = "canceled"] /\ J[k].status \in {"queued", "running"}
    BY <1>11 DEF Jobs!Cancel, Jobs!Live, JobsOf, JobOf
  <2>2. k \in DOMAIN J /\ J[k].attempts \in Nat
    BY <1>1, <1>2
  <2>3. J[k] = [task |-> J[k].task, status |-> J[k].status, attempts |-> J[k].attempts]
    BY DEF JobsOf, JobOf
  <2> HIDE DEF J, K, Kept
  <2>4. /\ DOMAIN K = DOMAIN J /\ \A i \in DOMAIN J \ {k} : K[i] = J[i]
        /\ K[k].task = J[k].task /\ J[k].attempts <= K[k].attempts
    BY <2>1, <2>2, <2>3
  <2> QED
    BY <1>5, <2>1, <2>2, <2>4
<1>12. CASE Jobs!Abandon
  <2>1. /\ DOMAIN K = DOMAIN J
        /\ \A i \in DOMAIN J :
             \/ K[i] = J[i]
             \/ /\ J[i].status = "running"
                /\ K[i].task = J[i].task /\ K[i].attempts = J[i].attempts + 1
    BY <1>12 DEF Jobs!Abandon, JobsOf, JobOf
  <2> HIDE DEF J, K
  <2>2. \A i \in DOMAIN J : KeepsRun(J[i], K[i])
    BY <1>2, <2>1 DEF KeepsRun, Over
  <2> QED
    BY <2>1, <2>2
<1> QED
  BY <1>1, <1>4, <1>6, <1>7, <1>8, <1>9, <1>10, <1>11, <1>12 DEF Jobs!Next, JobsOf, JobOf

\* A run that is over stays as it is, whatever reports, cancels, claims and reclaims
\* of it are still on their way; a run is never deleted or moved to another task, and
\* an attempt once charged is never given back (CompleteRun, FailRun, CancelRun,
\* ReclaimZombieRuns).
THEOREM OverForGood ==
    Spec => [][\A i \in DOMAIN runs :
                 i \in DOMAIN runs' /\ KeepsRun(runs[i], runs'[i])]_runs
<1>1. IInv /\ [Next]_vars =>
        [\A i \in DOMAIN runs : i \in DOMAIN runs' /\ KeepsRun(runs[i], runs'[i])]_runs
  BY StepImplementsJobs, JobsKept
<1> QED
  BY <1>1, InvariantHolds, PTL DEF Spec
=============================================================================
