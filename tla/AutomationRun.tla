---------------------------- MODULE AutomationRun ----------------------------
(***************************************************************************)
(* The execution engine of one automation run: AutomationService           *)
(* .execute_run, ._execute_step, ._finalize_run, ._mark_stalled_run and    *)
(* .resume_run, driven by Celery workers that claim the run under a lease. *)
(*                                                                         *)
(* PostgreSQL owns the run row, the step rows and the attempt rows.  Every *)
(* action below is one database transaction.  A worker keeps an ORM        *)
(* session for the whole run (expire_on_commit=False), so what it read of  *)
(* a step is what it believes until its session rolls back: cache.         *)
(*                                                                         *)
(* Lease columns hold a timestamp; here they hold the time left, in ticks: *)
(* lease > 0 is "expires after now", 0 is "expires exactly now", and       *)
(* Lapsed stands for "expired" and for NULL, which every guard treats      *)
(* alike.                                                                  *)
(***************************************************************************)
EXTENDS Integers, FiniteSets

CONSTANTS
    Workers,      \* execute_run invocations that may be alive at once
    StepCount,    \* steps of the run, numbered in (dependency_order, scope_key) order
    Stage,        \* dependency_order of each step
    AiSteps,      \* the steps whose step_key is "ai_research"
    LeaseTicks,   \* automation_lease_minutes
    Watchlist,    \* trigger_kind = "watchlist": the run may be marked stalled
    Timely,       \* a live worker never outlives its leases
    MaxClaims,    \* bound on deliveries of execute_run that claim the run
    MaxCrashes,   \* bound on worker crashes
    MaxResumes    \* bound on resume_run calls that are accepted

Steps == 1..StepCount

ASSUME StepCountAssumption == StepCount \in Nat
ASSUME StageAssumption == Stage \in [Steps -> Nat]
ASSUME AiStepsAssumption == AiSteps \subseteq Steps
ASSUME LeaseAssumption == LeaseTicks \in Nat \ {0}
ASSUME FlagAssumption == Watchlist \in BOOLEAN /\ Timely \in BOOLEAN
ASSUME BoundAssumption == MaxClaims \in Nat /\ MaxCrashes \in Nat /\ MaxResumes \in Nat

VARIABLES
    run,     \* the automation_runs row: status, lease, and age since created_at
    step,    \* the automation_run_steps rows: status, attempt_count, lease
    ledger,  \* the automation_step_attempts rows
    pc,      \* where each worker is in execute_run
    todo,    \* the steps of its list a worker has not started
    cache,   \* per worker and step: the status and attempt_count its session holds
    job,     \* the step and the attempt number a worker is executing
    stale,   \* a watchlist request has judged the run stalled and not yet said so
    spent    \* how much of each bound is used

vars == <<run, step, ledger, pc, todo, cache, job, stale, spent>>

Lapsed == -1
Leases == Lapsed..LeaseTicks
Ages == 0..LeaseTicks
StepStatus == {"pending", "running", "succeeded", "skipped", "failed"}
Settled == {"succeeded", "skipped", "failed"}
RunStatus == {"pending", "running", "succeeded", "succeeded_with_warnings", "partial", "failed"}
Terminal == RunStatus \ {"pending", "running"}

Unloaded == [status |-> "unloaded", attempts |-> 0]
NoJob == [step |-> 0, number |-> 0]

TypeOK ==
    /\ run \in [status : RunStatus, lease : Leases, age : Ages]
    /\ step \in [Steps -> [status : StepStatus, attempts : Nat, lease : Leases]]
    /\ ledger \subseteq [step : Steps, number : Nat, status : {"running"} \cup Settled]
    /\ pc \in [Workers -> {"idle", "claimed", "ready", "executing"}]
    /\ todo \in [Workers -> SUBSET Steps]
    /\ cache \in [Workers -> [Steps -> [status : StepStatus \cup {"unloaded"}, attempts : Nat]]]
    /\ job \in [Workers -> [step : Steps \cup {0}, number : Nat]]
    /\ stale \in BOOLEAN
    /\ spent \in [claims : Nat, crashes : Nat, resumes : Nat]

Init ==
    /\ run = [status |-> "pending", lease |-> Lapsed, age |-> 0]
    /\ step = [s \in Steps |-> [status |-> "pending", attempts |-> 0, lease |-> Lapsed]]
    /\ ledger = {}
    /\ pc = [w \in Workers |-> "idle"]
    /\ todo = [w \in Workers |-> {}]
    /\ cache = [w \in Workers |-> [s \in Steps |-> Unloaded]]
    /\ job = [w \in Workers |-> NoJob]
    /\ stale = FALSE
    /\ spent = [claims |-> 0, crashes |-> 0, resumes |-> 0]

-----------------------------------------------------------------------------
(* Leases, verdicts and what a session sees *)

\* Variants of the definitions below, each the way a plausible bug would have it.
LeaseInSeconds == 60 * LeaseTicks

\* now + timedelta(minutes=automation_lease_minutes), as time left.
FreshLease == LeaseTicks

\* The status _finalize_run computes from the statuses it sees.
StatusOf(seen) ==
    LET failed == {s \in Steps : seen[s] = "failed"}
    IN  CASE failed \ AiSteps # {} /\ (\E s \in Steps : seen[s] = "succeeded") -> "partial"
          [] failed \ AiSteps # {} /\ ~(\E s \in Steps : seen[s] = "succeeded") -> "failed"
          [] failed # {} /\ failed \subseteq AiSteps -> "succeeded_with_warnings"
          [] failed = {} -> "succeeded"

\* What _finalize_run reads through a worker's session: rows the session already
\* holds are not refreshed by the SELECT.
SeenBy(w) == [s \in Steps |-> IF cache[w][s] = Unloaded THEN step[s].status
                                                        ELSE cache[w][s].status]

Forget(w) ==
    /\ pc' = [pc EXCEPT ![w] = "idle"]
    /\ todo' = [todo EXCEPT ![w] = {}]
    /\ cache' = [cache EXCEPT ![w] = [s \in Steps |-> Unloaded]]
    /\ job' = [job EXCEPT ![w] = NoJob]

ClaimableIfPending == run.status = "pending"

Claimable == run.status = "pending" \/ (run.status = "running" /\ run.lease <= 0)

LooksStalled ==
    \/ run.status = "pending" /\ run.age = LeaseTicks
    \/ run.status = "running" /\ run.lease <= 0

-----------------------------------------------------------------------------
(* The worker *)

\* execute_run up to its first commit, under SELECT ... FOR UPDATE on the run.  A
\* delivery that finds the run terminal or leased returns without a write.
Claim(w) ==
    /\ pc[w] = "idle"
    /\ Claimable
    /\ spent.claims < MaxClaims
    /\ step' = [s \in Steps |->
                  IF step[s].status = "running" /\ step[s].lease < 0
                  THEN [step[s] EXCEPT !.status = "pending", !.lease = Lapsed]
                  ELSE step[s]]
    /\ run' = [run EXCEPT !.status = "running", !.lease = FreshLease]
    /\ pc' = [pc EXCEPT ![w] = "claimed"]
    /\ spent' = [spent EXCEPT !.claims = @ + 1]
    /\ UNCHANGED <<ledger, todo, cache, job, stale>>

\* The SELECT of the pending steps, in order, into the worker's session.
LoadSteps(w) ==
    /\ pc[w] = "claimed"
    /\ LET pending == {s \in Steps : step[s].status = "pending"}
       IN  /\ todo' = [todo EXCEPT ![w] = pending]
           /\ cache' = [cache EXCEPT ![w] = [s \in Steps |->
                          IF s \in pending
                          THEN [status |-> "pending", attempts |-> step[s].attempts]
                          ELSE Unloaded]]
    /\ pc' = [pc EXCEPT ![w] = "ready"]
    /\ UNCHANGED <<run, step, ledger, job, stale, spent>>

AttemptsNotUnique(s, n) == FALSE

\* uq_automation_step_attempt
AttemptExists(s, n) == \E a \in ledger : a.step = s /\ a.number = n

NextStep(w, s) == s \in todo[w] /\ \A t \in todo[w] : s <= t

\* _execute_step up to its first commit.  Neither the run nor the step is read again.
BeginStep(w) ==
    /\ pc[w] = "ready"
    /\ \E s \in Steps :
         LET n == cache[w][s].attempts + 1
         IN  /\ NextStep(w, s)
             /\ cache[w][s] # Unloaded
             /\ ~AttemptExists(s, n)
             /\ step' = [step EXCEPT ![s] = [status |-> "running", attempts |-> n,
                                             lease |-> FreshLease]]
             /\ ledger' = ledger \cup {[step |-> s, number |-> n, status |-> "running"]}
             /\ todo' = [todo EXCEPT ![w] = @ \ {s}]
             /\ cache' = [cache EXCEPT ![w][s] = [status |-> "running", attempts |-> n]]
             /\ job' = [job EXCEPT ![w] = [step |-> s, number |-> n]]
    /\ pc' = [pc EXCEPT ![w] = "executing"]
    /\ UNCHANGED <<run, stale, spent>>

\* The same call when it raises: another worker has inserted this attempt number,
\* or an earlier rollback expired the row and attempt_count cannot be read.
BeginStepRaises(w) ==
    /\ pc[w] = "ready"
    /\ \E s \in Steps :
         /\ NextStep(w, s)
         /\ cache[w][s] = Unloaded \/ AttemptExists(s, cache[w][s].attempts + 1)
    /\ Forget(w)
    /\ UNCHANGED <<run, step, ledger, stale, spent>>

\* The attempt row gets its outcome.
EndedUnlessSkipped(s, n, outcome) ==
    IF outcome = "skipped" THEN ledger
    ELSE {a \in ledger : ~(a.step = s /\ a.number = n)}
           \cup {[step |-> s, number |-> n, status |-> outcome]}

Ended(s, n, outcome) ==
    {a \in ledger : ~(a.step = s /\ a.number = n)}
      \cup {[step |-> s, number |-> n, status |-> outcome]}

\* The rest of _execute_step, to the commit of its finally clause: the step was
\* skipped, the service returned, or it raised.  expired says that a transaction was
\* rolled back on the way, here or inside the service, which expires every other row
\* of the session; _execute_step reloads only the rows of the step in hand.
FinishStep(w, outcome, expired) ==
    /\ pc[w] = "executing"
    /\ expired => outcome # "skipped"
    /\ LET s == job[w].step
           n == job[w].number
       IN  /\ step' = [step EXCEPT ![s].status = outcome, ![s].lease = Lapsed]
           /\ ledger' = Ended(s, n, outcome)
           /\ cache' = [cache EXCEPT ![w] = [t \in Steps |->
                          IF t = s THEN [status |-> outcome, attempts |-> n]
                          ELSE IF expired THEN Unloaded ELSE cache[w][t]]]
    /\ run' = [run EXCEPT !.lease = FreshLease]
    /\ pc' = [pc EXCEPT ![w] = "ready"]
    /\ job' = [job EXCEPT ![w] = NoJob]
    /\ UNCHANGED <<todo, stale, spent>>

\* _finalize_run at the end of execute_run.
Finalize(w) ==
    /\ pc[w] = "ready"
    /\ todo[w] = {}
    /\ run' = [run EXCEPT !.status = StatusOf(SeenBy(w)), !.lease = Lapsed]
    /\ Forget(w)
    /\ UNCHANGED <<step, ledger, stale, spent>>

\* The worker process is lost between two commits.
Crash(w) ==
    /\ pc[w] # "idle"
    /\ spent.crashes < MaxCrashes
    /\ spent' = [spent EXCEPT !.crashes = @ + 1]
    /\ Forget(w)
    /\ UNCHANGED <<run, step, ledger, stale>>

-----------------------------------------------------------------------------
(* The operator, a watchlist request, and time *)

DownstreamWhateverStatus(failed) ==
    {s \in Steps : \E f \in failed : Stage[f] < Stage[s]}

\* The skipped steps resume_run resets: those after the first failed dependency_order.
Downstream(failed) ==
    {s \in Steps : step[s].status = "skipped" /\ \E f \in failed : Stage[f] < Stage[s]}

\* resume_run, under SELECT ... FOR UPDATE on the run.
Resume ==
    /\ run.status \in {"failed", "partial", "succeeded_with_warnings"}
    /\ spent.resumes < MaxResumes
    /\ LET failed == {s \in Steps : step[s].status = "failed"}
       IN  step' = [s \in Steps |-> IF s \in failed \cup Downstream(failed)
                                    THEN [step[s] EXCEPT !.status = "pending"]
                                    ELSE step[s]]
    /\ run' = [run EXCEPT !.status = "pending"]
    /\ spent' = [spent EXCEPT !.resumes = @ + 1]
    /\ UNCHANGED <<ledger, pc, todo, cache, job, stale>>

\* request_watchlist_preparation reads the active run, without a lock, and finds it stale.
JudgeStalled ==
    /\ Watchlist
    /\ ~stale
    /\ LooksStalled
    /\ stale' = TRUE
    /\ UNCHANGED <<run, step, ledger, pc, todo, cache, job, spent>>

\* _mark_stalled_run: the UPDATE of the open steps and _finalize_run commit together.
MarkStalled ==
    /\ stale
    /\ stale' = FALSE
    /\ step' = [s \in Steps |-> IF step[s].status \in {"pending", "running"}
                                THEN [step[s] EXCEPT !.status = "failed", !.lease = Lapsed]
                                ELSE step[s]]
    /\ run' = [run EXCEPT !.status = StatusOf([s \in Steps |-> step'[s].status]),
                          !.lease = Lapsed]
    /\ UNCHANGED <<ledger, pc, todo, cache, job, spent>>

Older(age) == IF age < LeaseTicks THEN age + 1 ELSE age
Shorter(lease) == IF lease > Lapsed THEN lease - 1 ELSE Lapsed

Clock ==
    /\ Timely => \A w \in Workers :
                   /\ pc[w] # "idle" => run.lease > 1
                   /\ pc[w] = "executing" => step[job[w].step].lease > 1
    /\ run' = [run EXCEPT !.lease = Shorter(@), !.age = Older(@)]
    /\ step' = [s \in Steps |-> [step[s] EXCEPT !.lease = Shorter(@)]]
    /\ UNCHANGED <<ledger, pc, todo, cache, job, stale, spent>>

Work(w) ==
    \/ LoadSteps(w)
    \/ BeginStep(w)
    \/ BeginStepRaises(w)
    \/ \E outcome \in Settled, expired \in BOOLEAN : FinishStep(w, outcome, expired)
    \/ Finalize(w)

Next ==
    \/ \E w \in Workers : Claim(w) \/ Work(w) \/ Crash(w)
    \/ Resume
    \/ JudgeStalled
    \/ MarkStalled
    \/ Clock

Spec == Init /\ [][Next]_vars

\* Celery runs what it has taken, the Beat tick keeps delivering a claimable run, and
\* time passes.  Crashes, resumes and watchlist requests need not happen.
RunFairness ==
    /\ \A w \in Workers : WF_vars(Work(w))
    /\ WF_vars(\E w \in Workers : Claim(w))
    /\ WF_vars(Clock)

-----------------------------------------------------------------------------
(* Properties *)

\* The attempts of a step are numbered 1..attempt_count without a gap or a repeat,
\* whatever workers overlap: attempt_count is read long before it is written, and only
\* uq_automation_step_attempt stands between two sessions that read the same value.
AttemptLedger ==
    /\ \A s \in Steps :
         {a.number : a \in {b \in ledger : b.step = s}} = 1..step[s].attempts
    /\ \A a, b \in ledger : a.step = b.step /\ a.number = b.number => a = b

\* Two workers never execute the same attempt of the same step, so the outcome of an
\* attempt has one author.
AttemptHasOneAuthor ==
    \A v, w \in Workers :
        v # w /\ pc[v] = "executing" /\ pc[w] = "executing" => job[v] # job[w]

\* An attempt row is never lost, and once it has an outcome it keeps it, through
\* reclaims, resumes and stalled marks.
AttemptsAreHistory ==
    [][\A a \in ledger : \E b \in ledger' :
          /\ b.step = a.step /\ b.number = a.number
          /\ a.status # "running" => b.status = a.status]_ledger

\* While leases outlast the work, at most one worker is inside the run.
OneWorkerAtATime ==
    \A v, w \in Workers : pc[v] # "idle" /\ pc[w] # "idle" => v = w

\* A step's status is the outcome of its latest attempt, never that of an older one.
OutcomeOfLatestAttempt ==
    \A s \in Steps : step[s].status \in Settled =>
        [step |-> s, number |-> step[s].attempts, status |-> step[s].status] \in ledger

RunTellsSteps ==
    LET ended(st, S) == \E s \in S : step[s].status = st
        required == Steps \ AiSteps
    IN  run.status \in Terminal =>
          /\ ended("failed", required) <=> run.status \in {"failed", "partial"}
          /\ run.status = "partial" <=> ended("failed", required) /\ ended("succeeded", Steps)
          /\ run.status = "succeeded_with_warnings" <=>
               ended("failed", AiSteps) /\ ~ended("failed", required)
          /\ ~ended("pending", Steps)

\* A run that says how it ended says it of the steps the database holds, which say what became
\* of their latest attempts: a required failure is never hidden, an AI failure only warns, and
\* no step is left waiting.
VerdictMatchesSteps == OutcomeOfLatestAttempt /\ RunTellsSteps

\* Neither a reclaim nor a resume runs a step again that has succeeded.
SucceededStepIsNotRepeated ==
    [][\A s \in Steps : step[s].status = "succeeded" => step'[s].status = "succeeded"]_step

\* A terminal run has no step left open: the lease that let a worker reclaim the run
\* let it reclaim the step the dead worker was in.
TerminalRunHasNoOpenStep ==
    run.status \in Terminal => \A s \in Steps : step[s].status \in Settled

\* Every active run reaches a verdict, though workers crash in it.
RunSettles == run.status \in {"pending", "running"} ~> run.status \in Terminal
=============================================================================
