------------------------- MODULE AutomationRunProofs -------------------------
(*************************************************************************)
(* What holds of an automation run for every number of workers and steps, *)
(* however their leases lapse: the attempt ledger is gapless, an attempt *)
(* has one author and attempts are history.  The inductive invariant adds *)
(* to the ledger what the workers' stale sessions may still believe.     *)
(*                                                                       *)
(* The last part is about a run whose workers keep their leases and that *)
(* is no watchlist's: a session that is never refreshed is nevertheless  *)
(* current there, one worker is inside the run, and its verdict is true. *)
(*************************************************************************)
EXTENDS AutomationRun, TLAPS

\* The ledger, restated row by row.
Numbered ==
    \A s \in Steps, n \in Nat : AttemptExists(s, n) <=> 1 <= n /\ n <= step[s].attempts

OneRowPerAttempt ==
    \A a, b \in ledger : a.step = b.step /\ a.number = b.number => a = b

\* A session may believe an attempt_count that is too low, never one that is too high.
CacheIsBehind ==
    \A w \in Workers, s \in Steps : cache[w][s].attempts <= step[s].attempts

\* The attempt a worker executes is in the ledger and has no outcome yet.
JobIsOpen ==
    \A w \in Workers : pc[w] = "executing" =>
        /\ job[w].step \in Steps
        /\ job[w].number \in Nat
        /\ [step |-> job[w].step, number |-> job[w].number, status |-> "running"] \in ledger

IInv ==
    /\ TypeOK
    /\ Numbered
    /\ OneRowPerAttempt
    /\ CacheIsBehind
    /\ JobIsOpen
    /\ AttemptHasOneAuthor

-----------------------------------------------------------------------------
USE StepCountAssumption, StageAssumption, AiStepsAssumption, LeaseAssumption,
    FlagAssumption, BoundAssumption

\* Whatever a finalizer sees, it writes one of the five terminal verdicts.
LEMMA VerdictIsTerminal == \A seen : StatusOf(seen) \in Terminal
<1>1. SUFFICES ASSUME NEW seen PROVE StatusOf(seen) \in Terminal
  OBVIOUS
<1> DEFINE failed == {s \in Steps : seen[s] = "failed"}
<1>2. CASE failed = {}
  BY <1>2 DEF StatusOf, Terminal, RunStatus
<1>3. CASE failed # {} /\ failed \subseteq AiSteps
  BY <1>3 DEF StatusOf, Terminal, RunStatus
<1>4. CASE failed \ AiSteps # {}
  BY <1>4 DEF StatusOf, Terminal, RunStatus
<1>5. QED
  BY <1>2, <1>3, <1>4

\* A renewed lease and a cleared one are lease values.
LEMMA FreshLeaseIsALease == FreshLease \in Leases /\ Lapsed \in Leases
BY DEF FreshLease, Leases, Lapsed

\* The row-by-row form of the ledger is the ledger property the runs check.
LEMMA LedgerRestated == IInv => AttemptLedger
<1>1. SUFFICES ASSUME IInv, NEW s \in Steps
               PROVE {a.number : a \in {b \in ledger : b.step = s}} = 1..step[s].attempts
  BY DEF IInv, AttemptLedger, OneRowPerAttempt
<1>2. step[s].attempts \in Nat /\ \A a \in ledger : a.number \in Nat
  BY <1>1 DEF IInv, TypeOK
<1>3. \A n \in Nat : (\E a \in ledger : a.step = s /\ a.number = n)
                       <=> 1 <= n /\ n <= step[s].attempts
  BY <1>1 DEF IInv, Numbered, AttemptExists
<1>4. QED
  BY <1>2, <1>3

\* The initial state of a planned run satisfies the inductive invariant.
LEMMA InitIInv == Init => IInv
<1>1. SUFFICES ASSUME Init PROVE IInv
  OBVIOUS
<1> USE <1>1 DEF Init
<1>2. TypeOK
  <2>1. run \in [status : RunStatus, lease : Leases, age : Ages]
    BY DEF RunStatus, Leases, Lapsed, Ages
  <2>2. step \in [Steps -> [status : StepStatus, attempts : Nat, lease : Leases]]
    BY DEF StepStatus, Leases, Lapsed
  <2>3. cache \in [Workers -> [Steps -> [status : StepStatus \cup {"unloaded"}, attempts : Nat]]]
    BY DEF Unloaded
  <2>4. job \in [Workers -> [step : Steps \cup {0}, number : Nat]]
    BY DEF NoJob
  <2>5. spent \in [claims : Nat, crashes : Nat, resumes : Nat]
    OBVIOUS
  <2>6. QED
    BY <2>1, <2>2, <2>3, <2>4, <2>5 DEF TypeOK
<1>3. Numbered /\ OneRowPerAttempt /\ JobIsOpen /\ AttemptHasOneAuthor
  BY DEF Numbered, OneRowPerAttempt, JobIsOpen, AttemptHasOneAuthor, AttemptExists
<1>4. CacheIsBehind
  BY DEF CacheIsBehind, Unloaded
<1>5. QED
  BY <1>2, <1>3, <1>4 DEF IInv

-----------------------------------------------------------------------------
(* Steps that start and finish no attempt *)

\* A step that writes no attempt row, starts no job and lets no session believe more
\* attempts than there are keeps the invariant.
LEMMA QuietStep ==
    ASSUME IInv, TypeOK', UNCHANGED ledger,
           \A s \in Steps : step'[s].attempts = step[s].attempts,
           \A w \in Workers : pc'[w] = "executing" =>
               pc[w] = "executing" /\ job'[w] = job[w],
           \A w \in Workers, s \in Steps : cache'[w][s].attempts <= step[s].attempts
    PROVE  IInv'
<1>1. Numbered'
  BY DEF IInv, Numbered, AttemptExists
<1>2. OneRowPerAttempt'
  BY DEF IInv, OneRowPerAttempt
<1>3. CacheIsBehind'
  BY DEF CacheIsBehind
<1>4. JobIsOpen'
  BY DEF IInv, JobIsOpen
<1>5. AttemptHasOneAuthor'
  BY DEF IInv, AttemptHasOneAuthor
<1>6. QED
  BY <1>1, <1>2, <1>3, <1>4, <1>5 DEF IInv

\* Forgetting a session puts no worker in a job and leaves no row in its cache.
LEMMA ForgetIsQuiet ==
    ASSUME IInv, NEW w \in Workers, Forget(w)
    PROVE  /\ pc' \in [Workers -> {"idle", "claimed", "ready", "executing"}]
           /\ todo' \in [Workers -> SUBSET Steps]
           /\ cache' \in [Workers -> [Steps -> [status : StepStatus \cup {"unloaded"},
                                               attempts : Nat]]]
           /\ job' \in [Workers -> [step : Steps \cup {0}, number : Nat]]
           /\ \A v \in Workers : pc'[v] = "executing" => pc[v] = "executing" /\ job'[v] = job[v]
           /\ \A v \in Workers, s \in Steps : cache'[v][s].attempts <= step[s].attempts
<1>1. pc' = [pc EXCEPT ![w] = "idle"] /\ todo' = [todo EXCEPT ![w] = {}]
  BY DEF Forget
<1>2. cache' = [cache EXCEPT ![w] = [s \in Steps |-> Unloaded]]
  BY DEF Forget
<1>3. job' = [job EXCEPT ![w] = NoJob] /\ NoJob \in [step : Steps \cup {0}, number : Nat]
  BY DEF Forget, NoJob
<1>4. [s \in Steps |-> Unloaded] \in
        [Steps -> [status : StepStatus \cup {"unloaded"}, attempts : Nat]]
  BY DEF Unloaded
<1>5. \A v \in Workers, s \in Steps : cache'[v][s].attempts <= step[s].attempts
  <2>1. SUFFICES ASSUME NEW v \in Workers, NEW s \in Steps
                 PROVE  cache'[v][s].attempts <= step[s].attempts
    OBVIOUS
  <2>2. CASE v = w
    BY <2>2, <1>2 DEF IInv, TypeOK, Unloaded
  <2>3. CASE v # w
    BY <2>3, <1>2 DEF IInv, TypeOK, CacheIsBehind
  <2>4. QED
    BY <2>2, <2>3
<1>6. QED
  BY <1>1, <1>2, <1>3, <1>4, <1>5 DEF IInv, TypeOK

LEMMA ClaimKeeps == ASSUME IInv, NEW w \in Workers, Claim(w) PROVE IInv'
<1> DEFINE Reclaimed(s) == [step[s] EXCEPT !.status = "pending", !.lease = Lapsed]
<1>1. step' = [s \in Steps |-> IF step[s].status = "running" /\ step[s].lease < 0
                               THEN Reclaimed(s) ELSE step[s]]
  BY DEF Claim
<1>2. /\ step' \in [Steps -> [status : StepStatus, attempts : Nat, lease : Leases]]
      /\ \A s \in Steps : step'[s].attempts = step[s].attempts
  <2>1. \A s \in Steps : step[s] \in [status : StepStatus, attempts : Nat, lease : Leases]
    BY DEF IInv, TypeOK
  <2>2. Lapsed \in Leases /\ "pending" \in StepStatus
    BY DEF Lapsed, Leases, StepStatus
  <2>3. QED
    BY <1>1, <2>1, <2>2
<1>3. run' \in [status : RunStatus, lease : Leases, age : Ages]
  <2>1. run' = [run EXCEPT !.status = "running", !.lease = FreshLease]
    BY DEF Claim
  <2>2. run \in [status : RunStatus, lease : Leases, age : Ages]
    BY DEF IInv, TypeOK
  <2>3. QED
    BY <2>1, <2>2, FreshLeaseIsALease DEF RunStatus
<1>4. spent' \in [claims : Nat, crashes : Nat, resumes : Nat]
  <2>1. spent' = [spent EXCEPT !.claims = @ + 1]
    BY DEF Claim
  <2>2. spent \in [claims : Nat, crashes : Nat, resumes : Nat]
    BY DEF IInv, TypeOK
  <2>3. QED
    BY <2>1, <2>2
<1>5. TypeOK'
  BY <1>2, <1>3, <1>4 DEF Claim, IInv, TypeOK
<1>6. UNCHANGED <<ledger, cache, job>> /\ pc' = [pc EXCEPT ![w] = "claimed"]
  BY DEF Claim
<1>7. \A v \in Workers : pc'[v] = "executing" => pc[v] = "executing" /\ job'[v] = job[v]
  BY <1>6 DEF IInv, TypeOK
<1>8. \A v \in Workers, s \in Steps : cache'[v][s].attempts <= step[s].attempts
  BY <1>6 DEF IInv, CacheIsBehind
<1>9. QED
  BY <1>2, <1>5, <1>6, <1>7, <1>8, QuietStep

LEMMA LoadStepsKeeps == ASSUME IInv, NEW w \in Workers, LoadSteps(w) PROVE IInv'
<1> DEFINE pending == {s \in Steps : step[s].status = "pending"}
           loaded == [s \in Steps |-> IF s \in pending
                        THEN [status |-> "pending", attempts |-> step[s].attempts]
                        ELSE Unloaded]
<1>1. /\ cache' = [cache EXCEPT ![w] = loaded]
      /\ todo' = [todo EXCEPT ![w] = pending]
      /\ pc' = [pc EXCEPT ![w] = "ready"]
      /\ UNCHANGED <<run, step, ledger, job, stale, spent>>
  BY DEF LoadSteps
<1>2. \A s \in Steps : step[s].attempts \in Nat
  BY DEF IInv, TypeOK
<1>3. /\ loaded \in [Steps -> [status : StepStatus \cup {"unloaded"}, attempts : Nat]]
      /\ \A s \in Steps : loaded[s].attempts <= step[s].attempts
  BY <1>2 DEF StepStatus, Unloaded
<1> HIDE DEF loaded
<1>4. TypeOK'
  BY <1>1, <1>3 DEF IInv, TypeOK
<1>5. \A v \in Workers, s \in Steps : cache'[v][s].attempts <= step[s].attempts
  BY <1>1, <1>3 DEF IInv, TypeOK, CacheIsBehind
<1>6. \A v \in Workers : pc'[v] = "executing" => pc[v] = "executing" /\ job'[v] = job[v]
  BY <1>1 DEF IInv, TypeOK
<1>7. QED
  BY <1>1, <1>4, <1>5, <1>6, QuietStep

LEMMA BeginStepRaisesKeeps == ASSUME IInv, NEW w \in Workers, BeginStepRaises(w) PROVE IInv'
<1>1. Forget(w) /\ UNCHANGED <<run, step, ledger, stale, spent>>
  BY DEF BeginStepRaises
<1>2. TypeOK'
  BY <1>1, ForgetIsQuiet DEF IInv, TypeOK
<1>3. QED
  BY <1>1, <1>2, ForgetIsQuiet, QuietStep

LEMMA FinalizeKeeps == ASSUME IInv, NEW w \in Workers, Finalize(w) PROVE IInv'
<1>1. Forget(w) /\ UNCHANGED <<step, ledger, stale, spent>>
  BY DEF Finalize
<1>2. run' = [run EXCEPT !.status = StatusOf(SeenBy(w)), !.lease = Lapsed]
  BY DEF Finalize
<1>3. StatusOf(SeenBy(w)) \in RunStatus
  BY VerdictIsTerminal DEF Terminal
<1>4. run' \in [status : RunStatus, lease : Leases, age : Ages]
  <2>1. run \in [status : RunStatus, lease : Leases, age : Ages]
    BY DEF IInv, TypeOK
  <2>2. QED
    BY <1>2, <1>3, <2>1, FreshLeaseIsALease
<1>5. TypeOK'
  BY <1>1, <1>4, ForgetIsQuiet DEF IInv, TypeOK
<1>6. QED
  BY <1>1, <1>5, ForgetIsQuiet, QuietStep

LEMMA CrashKeeps == ASSUME IInv, NEW w \in Workers, Crash(w) PROVE IInv'
<1>1. Forget(w) /\ UNCHANGED <<run, step, ledger, stale>>
  BY DEF Crash
<1>2. spent' \in [claims : Nat, crashes : Nat, resumes : Nat]
  <2>1. spent' = [spent EXCEPT !.crashes = @ + 1]
    BY DEF Crash
  <2>2. spent \in [claims : Nat, crashes : Nat, resumes : Nat]
    BY DEF IInv, TypeOK
  <2>3. QED
    BY <2>1, <2>2
<1>3. TypeOK'
  BY <1>1, <1>2, ForgetIsQuiet DEF IInv, TypeOK
<1>4. QED
  BY <1>1, <1>3, ForgetIsQuiet, QuietStep

-----------------------------------------------------------------------------
(* An attempt starts, an attempt ends *)

LEMMA BeginStepKeeps == ASSUME IInv, NEW w \in Workers, BeginStep(w) PROVE IInv'
<1>1. PICK s \in Steps :
        LET n == cache[w][s].attempts + 1
        IN  /\ ~AttemptExists(s, n)
            /\ step' = [step EXCEPT ![s] = [status |-> "running", attempts |-> n,
                                            lease |-> FreshLease]]
            /\ ledger' = ledger \cup {[step |-> s, number |-> n, status |-> "running"]}
            /\ todo' = [todo EXCEPT ![w] = @ \ {s}]
            /\ cache' = [cache EXCEPT ![w][s] = [status |-> "running", attempts |-> n]]
            /\ job' = [job EXCEPT ![w] = [step |-> s, number |-> n]]
  BY DEF BeginStep
<1> DEFINE n == cache[w][s].attempts + 1
           row == [step |-> s, number |-> n, status |-> "running"]
<1>2. pc' = [pc EXCEPT ![w] = "executing"] /\ UNCHANGED <<run, stale, spent>>
  BY DEF BeginStep
<1>3. cache[w][s].attempts \in Nat /\ step[s].attempts \in Nat
  BY DEF IInv, TypeOK
<1>4. n \in Nat /\ 1 <= n
  BY <1>3
<1>5. n = step[s].attempts + 1
  <2>1. cache[w][s].attempts <= step[s].attempts
    BY DEF IInv, CacheIsBehind
  <2>2. ~(1 <= n /\ n <= step[s].attempts)
    BY <1>1, <1>4 DEF IInv, Numbered
  <2>3. QED
    BY <2>1, <2>2, <1>3
<1>6. step' = [step EXCEPT ![s] = [status |-> "running", attempts |-> n, lease |-> FreshLease]]
  BY <1>1
<1>7. ledger' = ledger \cup {row} /\ ~AttemptExists(s, n)
  BY <1>1
<1>8. cache' = [cache EXCEPT ![w][s] = [status |-> "running", attempts |-> n]]
  BY <1>1
<1>9. job' = [job EXCEPT ![w] = [step |-> s, number |-> n]] /\ todo' = [todo EXCEPT ![w] = @ \ {s}]
  BY <1>1
<1> HIDE DEF n
<1>10. TypeOK'
  <2>1. step' \in [Steps -> [status : StepStatus, attempts : Nat, lease : Leases]]
    BY <1>4, <1>6, FreshLeaseIsALease DEF IInv, TypeOK, StepStatus
  <2>2. ledger' \subseteq [step : Steps, number : Nat, status : {"running"} \cup Settled]
    BY <1>4, <1>7 DEF IInv, TypeOK
  <2>3. cache' \in [Workers -> [Steps -> [status : StepStatus \cup {"unloaded"}, attempts : Nat]]]
    BY <1>4, <1>8 DEF IInv, TypeOK, StepStatus
  <2>4. job' \in [Workers -> [step : Steps \cup {0}, number : Nat]]
    BY <1>4, <1>9 DEF IInv, TypeOK
  <2>5. todo' \in [Workers -> SUBSET Steps]
    BY <1>9 DEF IInv, TypeOK
  <2>6. pc' \in [Workers -> {"idle", "claimed", "ready", "executing"}]
    BY <1>2 DEF IInv, TypeOK
  <2>7. QED
    BY <2>1, <2>2, <2>3, <2>4, <2>5, <2>6, <1>2 DEF IInv, TypeOK
<1>11. /\ step'[s].attempts = n
       /\ \A t \in Steps : t # s => step'[t] = step[t]
  BY <1>6 DEF IInv, TypeOK
<1>12. Numbered'
  <2>1. SUFFICES ASSUME NEW t \in Steps, NEW m \in Nat
                 PROVE  (\E a \in ledger' : a.step = t /\ a.number = m)
                          <=> 1 <= m /\ m <= step'[t].attempts
    BY DEF Numbered, AttemptExists
  <2>2. (\E a \in ledger' : a.step = t /\ a.number = m)
          <=> (\E a \in ledger : a.step = t /\ a.number = m) \/ (t = s /\ m = n)
    <3>1. row.step = s /\ row.number = n /\ row \in ledger'
      BY <1>7
    <3>2. \A a \in ledger' : a \in ledger \/ a = row
      BY <1>7
    <3>3. \A a \in ledger : a \in ledger'
      BY <1>7
    <3> HIDE DEF row
    <3>4. QED
      BY <3>1, <3>2, <3>3
  <2>3. (\E a \in ledger : a.step = t /\ a.number = m) <=> 1 <= m /\ m <= step[t].attempts
    BY DEF IInv, Numbered, AttemptExists
  <2>4. CASE t = s
    BY <2>2, <2>3, <2>4, <1>3, <1>5, <1>11
  <2>5. CASE t # s
    BY <2>2, <2>3, <2>5, <1>11
  <2>6. QED
    BY <2>4, <2>5
<1>13. OneRowPerAttempt'
  BY <1>7 DEF IInv, OneRowPerAttempt, AttemptExists
<1>14. CacheIsBehind'
  <2>1. SUFFICES ASSUME NEW v \in Workers, NEW t \in Steps
                 PROVE  cache'[v][t].attempts <= step'[t].attempts
    BY DEF CacheIsBehind
  <2>2. cache[v][t].attempts <= step[t].attempts /\ cache[v][t].attempts \in Nat
    BY DEF IInv, CacheIsBehind, TypeOK
  <2>3. CASE t = s /\ v = w
    <3>1. cache'[v][t].attempts = n
      BY <2>3, <1>8 DEF IInv, TypeOK
    <3>2. QED
      BY <3>1, <2>3, <1>11, <1>4
  <2>4. CASE t = s /\ v # w
    <3>1. cache'[v][t] = cache[v][t]
      BY <2>4, <1>8 DEF IInv, TypeOK
    <3>2. QED
      BY <3>1, <2>2, <2>4, <1>3, <1>5, <1>11
  <2>5. CASE t # s
    <3>1. cache'[v][t] = cache[v][t]
      BY <2>5, <1>8 DEF IInv, TypeOK
    <3>2. QED
      BY <3>1, <2>2, <2>5, <1>11
  <2>6. QED
    BY <2>3, <2>4, <2>5
<1>15. JobIsOpen'
  <2>1. SUFFICES ASSUME NEW v \in Workers, pc'[v] = "executing"
                 PROVE  /\ job'[v].step \in Steps
                        /\ job'[v].number \in Nat
                        /\ [step |-> job'[v].step, number |-> job'[v].number,
                            status |-> "running"] \in ledger'
    BY DEF JobIsOpen
  <2>2. CASE v = w
    <3>1. job'[v] = [step |-> s, number |-> n]
      BY <2>2, <1>9 DEF IInv, TypeOK
    <3>2. QED
      BY <3>1, <1>4, <1>7
  <2>3. CASE v # w
    <3>1. job'[v] = job[v] /\ pc[v] = "executing"
      BY <2>1, <2>3, <1>2, <1>9 DEF IInv, TypeOK
    <3>2. QED
      BY <3>1, <1>7 DEF IInv, JobIsOpen
  <2>4. QED
    BY <2>2, <2>3
<1>16. AttemptHasOneAuthor'
  <2>1. \A v \in Workers : v # w /\ pc'[v] = "executing" =>
            pc[v] = "executing" /\ job'[v] = job[v] /\ job[v] # job'[w]
    <3>1. SUFFICES ASSUME NEW v \in Workers, v # w, pc'[v] = "executing"
                   PROVE  pc[v] = "executing" /\ job'[v] = job[v] /\ job[v] # job'[w]
      OBVIOUS
    <3>2. job'[v] = job[v] /\ pc[v] = "executing"
      BY <3>1, <1>2, <1>9 DEF IInv, TypeOK
    <3>3. AttemptExists(job[v].step, job[v].number)
      BY <3>2 DEF IInv, JobIsOpen, AttemptExists
    <3>4. job'[w] = [step |-> s, number |-> n]
      BY <1>9 DEF IInv, TypeOK
    <3>5. QED
      BY <3>2, <3>3, <3>4, <1>7
  <2>2. \A v \in Workers : v # w => job'[v] = job[v]
    BY <1>9 DEF IInv, TypeOK
  <2>3. QED
    BY <2>1, <2>2 DEF IInv, AttemptHasOneAuthor
<1>17. QED
  BY <1>10, <1>12, <1>13, <1>14, <1>15, <1>16 DEF IInv

LEMMA FinishStepKeeps ==
    ASSUME IInv, NEW w \in Workers, NEW outcome \in Settled, NEW expired \in BOOLEAN,
           FinishStep(w, outcome, expired)
    PROVE  IInv'
<1> DEFINE s == job[w].step
           n == job[w].number
           open == [step |-> s, number |-> n, status |-> "running"]
           row == [step |-> s, number |-> n, status |-> outcome]
           seen == [t \in Steps |-> IF t = s THEN [status |-> outcome, attempts |-> n]
                                    ELSE IF expired THEN Unloaded ELSE cache[w][t]]
<1>1. pc[w] = "executing" /\ pc' = [pc EXCEPT ![w] = "ready"]
  BY DEF FinishStep
<1>2. s \in Steps /\ n \in Nat /\ open \in ledger
  BY <1>1 DEF IInv, JobIsOpen
<1>3. step' = [step EXCEPT ![s].status = outcome, ![s].lease = Lapsed]
  BY DEF FinishStep
<1>4. ledger' = {a \in ledger : ~(a.step = s /\ a.number = n)} \cup {row}
  BY DEF FinishStep, Ended
<1>5. cache' = [cache EXCEPT ![w] = seen]
  BY DEF FinishStep
<1>6. job' = [job EXCEPT ![w] = NoJob]
  BY DEF FinishStep
<1>7. run' = [run EXCEPT !.lease = FreshLease] /\ UNCHANGED <<todo, stale, spent>>
  BY DEF FinishStep
<1>8. open.step = s /\ open.number = n /\ row.step = s /\ row.number = n /\ row \in ledger'
  BY <1>4
<1>9. n <= step[s].attempts
  BY <1>2, <1>8 DEF IInv, Numbered, AttemptExists
<1> HIDE DEF s, n
<1>10. /\ seen \in [Steps -> [status : StepStatus \cup {"unloaded"}, attempts : Nat]]
       /\ \A t \in Steps : seen[t].attempts <= step[t].attempts
  <2>1. cache[w] \in [Steps -> [status : StepStatus \cup {"unloaded"}, attempts : Nat]]
    BY DEF IInv, TypeOK
  <2>2. \A t \in Steps : cache[w][t].attempts <= step[t].attempts /\ step[t].attempts \in Nat
    BY DEF IInv, TypeOK, CacheIsBehind
  <2>3. QED
    BY <2>1, <2>2, <1>2, <1>9 DEF Unloaded, Settled, StepStatus
<1>11. /\ step' \in [Steps -> [status : StepStatus, attempts : Nat, lease : Leases]]
       /\ \A t \in Steps : step'[t].attempts = step[t].attempts
  <2>1. outcome \in StepStatus
    BY DEF Settled, StepStatus
  <2>2. step \in [Steps -> [status : StepStatus, attempts : Nat, lease : Leases]]
    BY DEF IInv, TypeOK
  <2>3. QED
    BY <1>2, <1>3, <2>1, <2>2, FreshLeaseIsALease
<1> HIDE DEF seen, row, open
<1>12. TypeOK'
  <2>1. run' \in [status : RunStatus, lease : Leases, age : Ages]
    <3>1. run \in [status : RunStatus, lease : Leases, age : Ages]
      BY DEF IInv, TypeOK
    <3>2. QED
      BY <1>7, <3>1, FreshLeaseIsALease
  <2>2. ledger' \subseteq [step : Steps, number : Nat, status : {"running"} \cup Settled]
    BY <1>2, <1>4 DEF IInv, TypeOK, row
  <2>3. cache' \in [Workers -> [Steps -> [status : StepStatus \cup {"unloaded"}, attempts : Nat]]]
    BY <1>5, <1>10 DEF IInv, TypeOK
  <2>4. job' \in [Workers -> [step : Steps \cup {0}, number : Nat]]
    BY <1>6 DEF IInv, TypeOK, NoJob
  <2>5. pc' \in [Workers -> {"idle", "claimed", "ready", "executing"}]
    BY <1>1 DEF IInv, TypeOK
  <2>6. QED
    BY <2>1, <2>2, <2>3, <2>4, <2>5, <1>7, <1>11 DEF IInv, TypeOK
<1>13. Numbered'
  <2>1. SUFFICES ASSUME NEW t \in Steps, NEW m \in Nat
                 PROVE  AttemptExists(t, m)' <=> AttemptExists(t, m)
    BY <1>11 DEF IInv, Numbered
  <2>2. CASE t = s /\ m = n
    BY <2>2, <1>2, <1>8 DEF AttemptExists
  <2>3. CASE ~(t = s /\ m = n)
    BY <2>3, <1>4, <1>8 DEF AttemptExists
  <2>4. QED
    BY <2>2, <2>3
<1>14. OneRowPerAttempt'
  BY <1>4, <1>8 DEF IInv, OneRowPerAttempt
<1>15. CacheIsBehind'
  <2>1. \A v \in Workers, t \in Steps : cache'[v][t].attempts <= step[t].attempts
    BY <1>5, <1>10 DEF IInv, TypeOK, CacheIsBehind
  <2>2. QED
    BY <2>1, <1>11 DEF CacheIsBehind
<1>16. \A v \in Workers : pc'[v] = "executing" =>
          pc[v] = "executing" /\ v # w /\ job'[v] = job[v]
  BY <1>1, <1>6 DEF IInv, TypeOK
<1>17. JobIsOpen'
  <2>1. SUFFICES ASSUME NEW v \in Workers, pc'[v] = "executing"
                 PROVE  /\ job'[v].step \in Steps
                        /\ job'[v].number \in Nat
                        /\ [step |-> job'[v].step, number |-> job'[v].number,
                            status |-> "running"] \in ledger'
    BY DEF JobIsOpen
  <2>2. pc[v] = "executing" /\ v # w /\ job'[v] = job[v]
    BY <2>1, <1>16
  <2> DEFINE mine == [step |-> job[v].step, number |-> job[v].number, status |-> "running"]
  <2>3. job[v].step \in Steps /\ job[v].number \in Nat /\ mine \in ledger
    BY <2>2 DEF IInv, JobIsOpen
  <2>4. job[v] # job[w]
    BY <2>2, <1>1 DEF IInv, AttemptHasOneAuthor
  <2>5. ~(job[v].step = s /\ job[v].number = n)
    <3>1. \A u \in Workers : job[u] \in [step : Steps \cup {0}, number : Nat]
      BY DEF IInv, TypeOK
    <3>2. QED
      BY <3>1, <2>4 DEF s, n
  <2>6. mine.step = job[v].step /\ mine.number = job[v].number
    OBVIOUS
  <2> HIDE DEF mine
  <2>7. mine \in ledger'
    BY <2>3, <2>5, <2>6, <1>4
  <2>8. QED
    BY <2>2, <2>3, <2>7 DEF mine
<1>18. AttemptHasOneAuthor'
  BY <1>16 DEF IInv, AttemptHasOneAuthor
<1>19. QED
  BY <1>12, <1>13, <1>14, <1>15, <1>17, <1>18 DEF IInv

-----------------------------------------------------------------------------
(* The operator, a watchlist request, and time *)

LEMMA ResumeKeeps == ASSUME IInv, Resume PROVE IInv'
<1> DEFINE failed == {s \in Steps : step[s].status = "failed"}
           reset == failed \cup Downstream(failed)
<1>1. step' = [s \in Steps |-> IF s \in reset THEN [step[s] EXCEPT !.status = "pending"]
                                             ELSE step[s]]
  BY DEF Resume
<1> HIDE DEF reset
<1>2. /\ run' = [run EXCEPT !.status = "pending"]
      /\ spent' = [spent EXCEPT !.resumes = @ + 1]
      /\ UNCHANGED <<ledger, pc, todo, cache, job, stale>>
  BY DEF Resume
<1>3. /\ step' \in [Steps -> [status : StepStatus, attempts : Nat, lease : Leases]]
      /\ \A s \in Steps : step'[s].attempts = step[s].attempts
  <2>1. \A s \in Steps : step[s] \in [status : StepStatus, attempts : Nat, lease : Leases]
    BY DEF IInv, TypeOK
  <2>2. QED
    BY <1>1, <2>1 DEF StepStatus
<1>4. TypeOK'
  <2>1. /\ run \in [status : RunStatus, lease : Leases, age : Ages]
        /\ spent \in [claims : Nat, crashes : Nat, resumes : Nat]
    BY DEF IInv, TypeOK
  <2>2. run' \in [status : RunStatus, lease : Leases, age : Ages]
    <3>1. 0 \in Ages /\ "pending" \in RunStatus
      BY DEF Ages, RunStatus
    <3>2. run' = [run EXCEPT !.status = "pending"]
      BY <1>2
    <3>3. QED
      BY <2>1, <3>1, <3>2
  <2>3. spent' \in [claims : Nat, crashes : Nat, resumes : Nat]
    BY <1>2, <2>1
  <2>4. QED
    BY <1>2, <1>3, <2>2, <2>3 DEF IInv, TypeOK
<1>5. QED
  BY <1>2, <1>3, <1>4, QuietStep DEF IInv, CacheIsBehind

LEMMA JudgeStalledKeeps == ASSUME IInv, JudgeStalled PROVE IInv'
<1>1. stale' = TRUE /\ UNCHANGED <<run, step, ledger, pc, todo, cache, job, spent>>
  BY DEF JudgeStalled
<1>2. TypeOK'
  BY <1>1 DEF IInv, TypeOK
<1>3. QED
  BY <1>1, <1>2, QuietStep DEF IInv, CacheIsBehind

LEMMA MarkStalledKeeps == ASSUME IInv, MarkStalled PROVE IInv'
<1> DEFINE verdict == StatusOf([s \in Steps |-> step'[s].status])
<1>1. step' = [s \in Steps |-> IF step[s].status \in {"pending", "running"}
                               THEN [step[s] EXCEPT !.status = "failed", !.lease = Lapsed]
                               ELSE step[s]]
  BY DEF MarkStalled
<1>2. /\ run' = [run EXCEPT !.status = verdict, !.lease = Lapsed]
      /\ stale' = FALSE
      /\ UNCHANGED <<ledger, pc, todo, cache, job, spent>>
  BY DEF MarkStalled
<1>3. verdict \in RunStatus
  BY VerdictIsTerminal DEF Terminal
<1> HIDE DEF verdict
<1>4. /\ step' \in [Steps -> [status : StepStatus, attempts : Nat, lease : Leases]]
      /\ \A s \in Steps : step'[s].attempts = step[s].attempts
  <2>1. \A s \in Steps : step[s] \in [status : StepStatus, attempts : Nat, lease : Leases]
    BY DEF IInv, TypeOK
  <2>2. QED
    BY <1>1, <2>1, FreshLeaseIsALease DEF StepStatus
<1>5. TypeOK'
  <2>1. run \in [status : RunStatus, lease : Leases, age : Ages]
    BY DEF IInv, TypeOK
  <2>2. run' \in [status : RunStatus, lease : Leases, age : Ages]
    BY <1>2, <1>3, <2>1, FreshLeaseIsALease
  <2>3. QED
    BY <1>2, <1>4, <2>2 DEF IInv, TypeOK
<1>6. QED
  BY <1>2, <1>4, <1>5, QuietStep DEF IInv, CacheIsBehind

LEMMA ClockKeeps == ASSUME IInv, Clock PROVE IInv'
<1>1. /\ run' = [run EXCEPT !.lease = Shorter(@), !.age = Older(@)]
      /\ step' = [s \in Steps |-> [step[s] EXCEPT !.lease = Shorter(@)]]
      /\ UNCHANGED <<ledger, pc, todo, cache, job, stale, spent>>
  BY DEF Clock
<1>2. \A lease \in Leases : Shorter(lease) \in Leases
  BY DEF Leases, Lapsed, Shorter
<1>3. \A age \in Ages : Older(age) \in Ages
  BY DEF Ages, Older
<1>4. run' \in [status : RunStatus, lease : Leases, age : Ages]
  <2>1. run \in [status : RunStatus, lease : Leases, age : Ages]
    BY DEF IInv, TypeOK
  <2>2. QED
    BY <1>1, <1>2, <1>3, <2>1
<1>5. /\ step' \in [Steps -> [status : StepStatus, attempts : Nat, lease : Leases]]
      /\ \A s \in Steps : step'[s].attempts = step[s].attempts
  <2>1. \A s \in Steps : step[s] \in [status : StepStatus, attempts : Nat, lease : Leases]
    BY DEF IInv, TypeOK
  <2>2. QED
    BY <1>1, <1>2, <2>1
<1>6. TypeOK'
  BY <1>1, <1>4, <1>5 DEF IInv, TypeOK
<1>7. QED
  BY <1>1, <1>5, <1>6, QuietStep DEF IInv, CacheIsBehind

-----------------------------------------------------------------------------
(* The theorems *)

LEMMA Induction == IInv /\ [Next]_vars => IInv'
<1>1. SUFFICES ASSUME IInv, [Next]_vars PROVE IInv'
  OBVIOUS
<1>2. ASSUME NEW w \in Workers, Claim(w) PROVE IInv'
  BY <1>1, <1>2, ClaimKeeps
<1>3. ASSUME NEW w \in Workers, Work(w) PROVE IInv'
  BY <1>1, <1>3, LoadStepsKeeps, BeginStepKeeps, BeginStepRaisesKeeps, FinishStepKeeps,
     FinalizeKeeps DEF Work
<1>4. ASSUME NEW w \in Workers, Crash(w) PROVE IInv'
  BY <1>1, <1>4, CrashKeeps
<1>5. CASE Resume
  BY <1>1, <1>5, ResumeKeeps
<1>6. CASE JudgeStalled
  BY <1>1, <1>6, JudgeStalledKeeps
<1>7. CASE MarkStalled
  BY <1>1, <1>7, MarkStalledKeeps
<1>8. CASE Clock
  BY <1>1, <1>8, ClockKeeps
<1>9. CASE UNCHANGED vars
  <2>1. UNCHANGED <<run, step, ledger, pc, todo, cache, job, stale, spent>>
    BY <1>9 DEF vars
  <2>2. TypeOK'
    BY <1>1, <2>1 DEF IInv, TypeOK
  <2>3. QED
    BY <1>1, <2>1, <2>2, QuietStep DEF IInv, CacheIsBehind
<1>10. QED
  BY <1>1, <1>2, <1>3, <1>4, <1>5, <1>6, <1>7, <1>8, <1>9 DEF Next

LEMMA Invariance == Spec => []IInv
<1>1. QED
  BY InitIInv, Induction, PTL DEF Spec

\* Every row, session and lease of the run keeps its type, for any number of workers,
\* steps and lease ticks (the record classes of the automation tables).
THEOREM TypeCorrect == Spec => []TypeOK
<1>1. IInv => TypeOK
  BY DEF IInv
<1>2. QED
  BY <1>1, Invariance, PTL

\* However many workers overlap and crash in _execute_step, the attempts of a step are
\* numbered 1..attempt_count, one row each.
THEOREM LedgerIsGapless == Spec => []AttemptLedger
<1>1. QED
  BY LedgerRestated, Invariance, PTL

\* No two execute_run calls are ever inside the same attempt of the same step.
THEOREM OneAuthor == Spec => []AttemptHasOneAuthor
<1>1. IInv => AttemptHasOneAuthor
  BY DEF IInv
<1>2. QED
  BY <1>1, Invariance, PTL

\* The step of the ledger is history: only _execute_step writes it, at its start by adding
\* a row and at its end by giving its own, still running, attempt an outcome.
LEMMA StepIsHistory ==
    IInv /\ [Next]_vars =>
        \A a \in ledger : \E b \in ledger' :
            /\ b.step = a.step /\ b.number = a.number
            /\ a.status # "running" => b.status = a.status
<1>1. SUFFICES ASSUME IInv, [Next]_vars, NEW a \in ledger
               PROVE  \E b \in ledger' :
                        /\ b.step = a.step /\ b.number = a.number
                        /\ a.status # "running" => b.status = a.status
  OBVIOUS
<1>2. CASE UNCHANGED ledger
  BY <1>2
<1>3. ASSUME NEW w \in Workers, BeginStep(w) PROVE a \in ledger'
  BY <1>3 DEF BeginStep
<1>4. ASSUME NEW w \in Workers, NEW outcome \in Settled, NEW expired \in BOOLEAN,
             FinishStep(w, outcome, expired)
      PROVE  \E b \in ledger' :
               /\ b.step = a.step /\ b.number = a.number
               /\ a.status # "running" => b.status = a.status
  <2> DEFINE open == [step |-> job[w].step, number |-> job[w].number, status |-> "running"]
             row == [step |-> job[w].step, number |-> job[w].number, status |-> outcome]
  <2>1. ledger' = {b \in ledger : ~(b.step = job[w].step /\ b.number = job[w].number)}
                    \cup {row}
    BY <1>4 DEF FinishStep, Ended
  <2>2. open \in ledger
    BY <1>1, <1>4 DEF FinishStep, IInv, JobIsOpen
  <2>3. CASE a.step = job[w].step /\ a.number = job[w].number
    <3>1. a = open
      BY <2>2, <2>3, <1>1 DEF IInv, OneRowPerAttempt
    <3>2. row \in ledger' /\ row.step = a.step /\ row.number = a.number
      BY <2>1, <2>3
    <3>3. a.status = "running"
      BY <3>1
    <3>4. QED
      BY <3>2, <3>3
  <2>4. CASE ~(a.step = job[w].step /\ a.number = job[w].number)
    BY <2>1, <2>4
  <2>5. QED
    BY <2>3, <2>4
<1>5. CASE UNCHANGED vars
  BY <1>5, <1>2 DEF vars
<1>6. CASE Next
  <2>1. CASE \E w \in Workers : Claim(w) \/ Crash(w) \/ LoadSteps(w) \/ BeginStepRaises(w)
                                 \/ Finalize(w)
    BY <2>1, <1>2 DEF Claim, Crash, LoadSteps, BeginStepRaises, Finalize
  <2>2. CASE Resume \/ JudgeStalled \/ MarkStalled \/ Clock
    BY <2>2, <1>2 DEF Resume, JudgeStalled, MarkStalled, Clock
  <2>3. CASE \E w \in Workers : BeginStep(w)
    BY <2>3, <1>3
  <2>4. CASE \E w \in Workers, outcome \in Settled, expired \in BOOLEAN :
                FinishStep(w, outcome, expired)
    BY <2>4, <1>4
  <2>5. QED
    BY <1>6, <2>1, <2>2, <2>3, <2>4 DEF Next, Work
<1>7. QED
  BY <1>1, <1>5, <1>6

\* An attempt row is never lost or rewritten once it has an outcome, through overlapping
\* workers, reclaims, resumes and stalled marks.
THEOREM HistoryIsKept == Spec => AttemptsAreHistory
<1>1. IInv /\ [Next]_vars =>
        [\A a \in ledger : \E b \in ledger' :
            /\ b.step = a.step /\ b.number = a.number
            /\ a.status # "running" => b.status = a.status]_ledger
  BY StepIsHistory
<1>2. QED
  BY <1>1, Invariance, PTL DEF Spec, AttemptsAreHistory

-----------------------------------------------------------------------------
(* A run whose workers never outlive their leases, and that nobody marks stalled *)

\* A worker inside the run has it leased.
InsideTheLease == \A w \in Workers : pc[w] # "idle" => run.status = "running" /\ run.lease > 0

\* What a session that has loaded its steps holds of them is what the database holds.
SessionIsCurrent ==
    \A w \in Workers : pc[w] \in {"ready", "executing"} =>
        \A s \in Steps : /\ s \in todo[w] <=> step[s].status = "pending"
                         /\ cache[w][s] # Unloaded => cache[w][s].status = step[s].status

\* A worker executes the latest attempt of its step.
JobIsLatest ==
    \A w \in Workers : pc[w] = "executing" =>
        step[job[w].step].status = "running" /\ job[w].number = step[job[w].step].attempts

TimelyInv ==
    /\ IInv
    /\ InsideTheLease
    /\ OneWorkerAtATime
    /\ SessionIsCurrent
    /\ JobIsLatest
    /\ ~stale
    /\ OutcomeOfLatestAttempt
    /\ RunTellsSteps

\* How many of the steps have which status says the verdict, whoever finalizes.
LEMMA VerdictTells ==
    ASSUME NEW seen, run'.status = StatusOf(seen),
           \A s \in Steps : seen[s] = step'[s].status /\ step'[s].status # "pending"
    PROVE  RunTellsSteps'
<1> DEFINE failed == {s \in Steps : seen[s] = "failed"}
           Failed(S) == \E s \in S : step'[s].status = "failed"
           Succeeded == \E s \in Steps : step'[s].status = "succeeded"
<1>1. /\ failed \ AiSteps # {} <=> Failed(Steps \ AiSteps)
      /\ (failed # {} /\ failed \subseteq AiSteps) <=>
            (Failed(AiSteps) /\ ~Failed(Steps \ AiSteps))
      /\ failed = {} <=> (~Failed(AiSteps) /\ ~Failed(Steps \ AiSteps))
      /\ Succeeded <=> \E s \in Steps : seen[s] = "succeeded"
  OBVIOUS
<1>2. /\ Failed(Steps \ AiSteps) /\ Succeeded => run'.status = "partial"
      /\ Failed(Steps \ AiSteps) /\ ~Succeeded => run'.status = "failed"
      /\ ~Failed(Steps \ AiSteps) /\ Failed(AiSteps) => run'.status = "succeeded_with_warnings"
      /\ ~Failed(Steps \ AiSteps) /\ ~Failed(AiSteps) => run'.status = "succeeded"
  <2>1. CASE failed \ AiSteps # {}
    BY <1>1, <2>1 DEF StatusOf
  <2>2. CASE failed # {} /\ failed \subseteq AiSteps
    BY <1>1, <2>2 DEF StatusOf
  <2>3. CASE failed = {}
    BY <1>1, <2>3 DEF StatusOf
  <2>4. QED
    BY <2>1, <2>2, <2>3
<1>3. ~\E s \in Steps : step'[s].status = "pending"
  OBVIOUS
<1> HIDE DEF failed
<1>4. QED
  BY <1>2, <1>3 DEF RunTellsSteps

\* The rows a worker's step leaves alone keep what is said of them.
LEMMA TimelyTypes ==
    ASSUME TimelyInv
    PROVE  /\ run \in [status : RunStatus, lease : Leases, age : Ages]
           /\ step \in [Steps -> [status : StepStatus, attempts : Nat, lease : Leases]]
           /\ pc \in [Workers -> {"idle", "claimed", "ready", "executing"}]
           /\ todo \in [Workers -> SUBSET Steps]
           /\ cache \in [Workers -> [Steps -> [status : StepStatus \cup {"unloaded"},
                                              attempts : Nat]]]
           /\ job \in [Workers -> [step : Steps \cup {0}, number : Nat]]
BY DEF TimelyInv, IInv, TypeOK

\* What every step of the one worker w has in common: the others are idle and stay so.
Alone(w) == \A v \in Workers : v # w => pc[v] = "idle" /\ pc'[v] = "idle"

LEMMA WorkerIsAlone ==
    ASSUME TimelyInv, NEW w \in Workers, pc[w] # "idle",
           \E at : pc' = [pc EXCEPT ![w] = at]
    PROVE  Alone(w)
BY TimelyTypes DEF TimelyInv, OneWorkerAtATime, Alone

\* With the others idle, the invariant is about the worker that moves.
LEMMA AloneKeeps ==
    ASSUME TimelyInv, IInv', NEW w \in Workers, Alone(w), UNCHANGED stale,
           pc'[w] # "idle" => run'.status = "running" /\ run'.lease > 0,
           pc'[w] \in {"ready", "executing"} =>
              \A s \in Steps : /\ s \in todo'[w] <=> step'[s].status = "pending"
                               /\ cache'[w][s] # Unloaded => cache'[w][s].status = step'[s].status,
           pc'[w] = "executing" =>
              step'[job'[w].step].status = "running" /\ job'[w].number = step'[job'[w].step].attempts,
           OutcomeOfLatestAttempt', RunTellsSteps'
    PROVE  TimelyInv'
BY DEF TimelyInv, Alone, InsideTheLease, OneWorkerAtATime, SessionIsCurrent, JobIsLatest

LEMMA RunningTellsNothing ==
    ASSUME run'.status = "running" \/ run'.status = "pending" PROVE RunTellsSteps'
BY DEF RunTellsSteps, Terminal

\* A worker is gone, the rows are as they were.
LEMMA LeavingKeeps ==
    ASSUME TimelyInv, IInv', NEW w \in Workers, pc[w] # "idle", Forget(w),
           UNCHANGED <<step, ledger, stale>>, RunTellsSteps'
    PROVE  TimelyInv'
<1>1. pc' = [pc EXCEPT ![w] = "idle"]
  BY DEF Forget
<1>2. Alone(w) /\ pc'[w] = "idle"
  BY <1>1, TimelyTypes, WorkerIsAlone
<1>3. OutcomeOfLatestAttempt'
  BY DEF TimelyInv, OutcomeOfLatestAttempt
<1>4. QED
  BY <1>2, <1>3, AloneKeeps

LEMMA ClaimTimely == ASSUME TimelyInv, NEW w \in Workers, Claim(w) PROVE TimelyInv'
<1>1. IInv' /\ UNCHANGED <<ledger, todo, cache, job, stale>>
  BY ClaimKeeps DEF TimelyInv, Claim
<1>2. pc' = [pc EXCEPT ![w] = "claimed"] /\ run' = [run EXCEPT !.status = "running", !.lease = FreshLease]
  BY DEF Claim
<1>3. run'.status = "running" /\ run'.lease > 0
  BY <1>2, TimelyTypes DEF FreshLease
<1>4. \A v \in Workers : pc[v] = "idle"
  <2>1. ~(run.status = "running" /\ run.lease > 0)
    <3>1. Claimable
      BY DEF Claim
    <3>2. run.lease \in Int
      BY TimelyTypes, LeaseAssumption DEF Leases, Lapsed
    <3>3. QED
      BY <3>1, <3>2 DEF Claimable
  <2>2. QED
    BY <2>1 DEF TimelyInv, InsideTheLease
<1>5. Alone(w) /\ pc'[w] = "claimed"
  BY <1>2, <1>4, TimelyTypes DEF Alone
<1>6. OutcomeOfLatestAttempt'
  <2>1. ASSUME NEW s \in Steps, step'[s].status \in Settled PROVE step'[s] = step[s]
    <3>1. step'[s] = IF step[s].status = "running" /\ step[s].lease < 0
                       THEN [step[s] EXCEPT !.status = "pending", !.lease = Lapsed]
                       ELSE step[s]
      BY DEF Claim
    <3>2. CASE step[s].status = "running" /\ step[s].lease < 0
      <4>1. step[s] \in [status : StepStatus, attempts : Nat, lease : Leases]
        BY TimelyTypes
      <4>2. step'[s].status = "pending"
        BY <3>1, <3>2, <4>1
      <4>3. QED
        BY <2>1, <4>2 DEF Settled
    <3>3. QED
      BY <3>1, <3>2
  <2>2. QED
    BY <1>1, <2>1 DEF TimelyInv, OutcomeOfLatestAttempt
<1>7. QED
  BY <1>1, <1>3, <1>5, <1>6, RunningTellsNothing, AloneKeeps

LEMMA LoadStepsTimely == ASSUME TimelyInv, NEW w \in Workers, LoadSteps(w) PROVE TimelyInv'
<1> DEFINE pending == {s \in Steps : step[s].status = "pending"}
           loaded == [s \in Steps |-> IF s \in pending
                        THEN [status |-> "pending", attempts |-> step[s].attempts]
                        ELSE Unloaded]
<1>1. /\ cache' = [cache EXCEPT ![w] = loaded]
      /\ todo' = [todo EXCEPT ![w] = pending]
      /\ pc' = [pc EXCEPT ![w] = "ready"]
      /\ UNCHANGED <<run, step, ledger, job, stale, spent>> /\ pc[w] = "claimed"
  BY DEF LoadSteps
<1>2. IInv'
  BY LoadStepsKeeps DEF TimelyInv
<1>3. \A s \in Steps : loaded[s] # Unloaded => loaded[s].status = step[s].status
  OBVIOUS
<1> HIDE DEF loaded
<1>4. /\ pc'[w] = "ready" /\ todo'[w] = pending /\ cache'[w] = loaded
  BY <1>1, TimelyTypes
<1>5. Alone(w)
  BY <1>1, WorkerIsAlone
<1>6. run'.status = "running" /\ run'.lease > 0
  BY <1>1 DEF TimelyInv, InsideTheLease
<1>7. OutcomeOfLatestAttempt'
  BY <1>1 DEF TimelyInv, OutcomeOfLatestAttempt
<1>8. QED
  BY <1>1, <1>2, <1>3, <1>4, <1>5, <1>6, <1>7, RunningTellsNothing, AloneKeeps

LEMMA BeginStepTimely == ASSUME TimelyInv, NEW w \in Workers, BeginStep(w) PROVE TimelyInv'
<1> DEFINE Begins(s, n) ==
        /\ n = cache[w][s].attempts + 1
        /\ NextStep(w, s) /\ ~AttemptExists(s, n)
        /\ step' = [step EXCEPT ![s] = [status |-> "running", attempts |-> n,
                                        lease |-> FreshLease]]
        /\ ledger' = ledger \cup {[step |-> s, number |-> n, status |-> "running"]}
        /\ todo' = [todo EXCEPT ![w] = @ \ {s}]
        /\ cache' = [cache EXCEPT ![w][s] = [status |-> "running", attempts |-> n]]
        /\ job' = [job EXCEPT ![w] = [step |-> s, number |-> n]]
<1>0. PICK s \in Steps : \E n : Begins(s, n)
  BY DEF BeginStep
<1>1. PICK n : Begins(s, n)
  BY <1>0
<1>2. pc' = [pc EXCEPT ![w] = "executing"] /\ UNCHANGED <<run, stale, spent>> /\ pc[w] = "ready"
  BY DEF BeginStep
<1>3. IInv'
  BY BeginStepKeeps DEF TimelyInv
<1>4. /\ pc'[w] = "executing" /\ todo'[w] = todo[w] \ {s} /\ job'[w].step = s /\ job'[w].number = n
      /\ cache'[w][s].status = "running" /\ \A t \in Steps : t # s => cache'[w][t] = cache[w][t]
      /\ step'[s].status = "running" /\ step'[s].attempts = n
      /\ \A t \in Steps : t # s => step'[t] = step[t]
  BY <1>1, <1>2, TimelyTypes
<1>5. Alone(w)
  BY <1>2, WorkerIsAlone
<1>6. run'.status = "running" /\ run'.lease > 0
  BY <1>2 DEF TimelyInv, InsideTheLease
<1>7. ASSUME NEW t \in Steps
      PROVE  /\ t \in todo'[w] <=> step'[t].status = "pending"
             /\ cache'[w][t] # Unloaded => cache'[w][t].status = step'[t].status
  BY <1>2, <1>4 DEF TimelyInv, SessionIsCurrent
<1>8. OutcomeOfLatestAttempt'
  BY <1>1, <1>4 DEF TimelyInv, OutcomeOfLatestAttempt, Settled
<1>9. QED
  BY <1>2, <1>3, <1>4, <1>5, <1>6, <1>7, <1>8, RunningTellsNothing, AloneKeeps

LEMMA FinishStepTimely ==
    ASSUME TimelyInv, NEW w \in Workers, NEW outcome \in Settled, NEW expired \in BOOLEAN,
           FinishStep(w, outcome, expired)
    PROVE  TimelyInv'
<1>1. PICK s, n : s = job[w].step /\ n = job[w].number
  OBVIOUS
<1>2. /\ pc[w] = "executing" /\ pc' = [pc EXCEPT ![w] = "ready"]
      /\ step' = [step EXCEPT ![s].status = outcome, ![s].lease = Lapsed]
      /\ ledger' = Ended(s, n, outcome)
      /\ cache' = [cache EXCEPT ![w] = [t \in Steps |->
                      IF t = s THEN [status |-> outcome, attempts |-> n]
                      ELSE IF expired THEN Unloaded ELSE cache[w][t]]]
      /\ run' = [run EXCEPT !.lease = FreshLease]
      /\ UNCHANGED <<todo, stale, spent>>
  BY <1>1 DEF FinishStep
<1>3. IInv'
  BY FinishStepKeeps DEF TimelyInv
<1>4. s \in Steps /\ step[s].status = "running" /\ n = step[s].attempts
  BY <1>1, <1>2 DEF TimelyInv, IInv, JobIsOpen, JobIsLatest
<1>5. /\ pc'[w] = "ready" /\ step'[s].status = outcome /\ step'[s].attempts = n
      /\ \A t \in Steps : t # s => step'[t] = step[t]
      /\ \A t \in Steps : cache'[w][t] = IF t = s THEN [status |-> outcome, attempts |-> n]
                                         ELSE IF expired THEN Unloaded ELSE cache[w][t]
  <2>1. step[s] \in [status : StepStatus, attempts : Nat, lease : Leases]
    BY <1>4, TimelyTypes
  <2>2. QED
    BY <1>2, <1>4, <2>1, TimelyTypes
<1>6. Alone(w)
  BY <1>2, WorkerIsAlone
<1>7. run'.status = "running" /\ run'.lease > 0
  BY <1>2, TimelyTypes DEF TimelyInv, InsideTheLease, FreshLease
<1>8. ASSUME NEW t \in Steps
      PROVE  /\ t \in todo'[w] <=> step'[t].status = "pending"
             /\ cache'[w][t] # Unloaded => cache'[w][t].status = step'[t].status
  <2>1. /\ t \in todo[w] <=> step[t].status = "pending"
        /\ cache[w][t] # Unloaded => cache[w][t].status = step[t].status
    BY <1>2 DEF TimelyInv, SessionIsCurrent
  <2>2. CASE t = s
    BY <1>2, <1>4, <1>5, <2>1, <2>2 DEF Settled
  <2>3. CASE t # s
    BY <1>2, <1>5, <2>1, <2>3
  <2>4. QED
    BY <2>2, <2>3
<1>9. OutcomeOfLatestAttempt'
  <2>1. ASSUME NEW t \in Steps, step'[t].status \in Settled
        PROVE  [step |-> t, number |-> step'[t].attempts, status |-> step'[t].status] \in ledger'
    <3>1. CASE t = s
      BY <1>2, <1>5, <3>1 DEF Ended
    <3>2. CASE t # s
      <4>1. [step |-> t, number |-> step[t].attempts, status |-> step[t].status] \in ledger
        BY <1>5, <2>1, <3>2 DEF TimelyInv, OutcomeOfLatestAttempt
      <4>2. QED
        BY <1>2, <1>5, <3>2, <4>1 DEF Ended
    <3>3. QED
      BY <3>1, <3>2
  <2>2. QED
    BY <2>1 DEF OutcomeOfLatestAttempt
<1>10. QED
  BY <1>2, <1>3, <1>5, <1>6, <1>7, <1>8, <1>9, RunningTellsNothing, AloneKeeps

LEMMA FinalizeTimely == ASSUME TimelyInv, NEW w \in Workers, Finalize(w) PROVE TimelyInv'
<1>1. /\ pc[w] = "ready" /\ todo[w] = {} /\ Forget(w) /\ UNCHANGED <<step, ledger, stale>>
      /\ run' = [run EXCEPT !.status = StatusOf(SeenBy(w)), !.lease = Lapsed]
  BY DEF Finalize
<1>2. IInv'
  BY FinalizeKeeps DEF TimelyInv
<1>3. ASSUME NEW s \in Steps
      PROVE  SeenBy(w)[s] = step'[s].status /\ step'[s].status # "pending"
  BY <1>1 DEF TimelyInv, SessionIsCurrent, SeenBy
<1>4. run'.status = StatusOf(SeenBy(w))
  BY <1>1, TimelyTypes
<1>5. RunTellsSteps'
  BY <1>3, <1>4, VerdictTells
<1>6. QED
  BY <1>1, <1>2, <1>5, LeavingKeeps

LEMMA LeavingTimely ==
    ASSUME TimelyInv, NEW w \in Workers, BeginStepRaises(w) \/ Crash(w)
    PROVE  TimelyInv'
<1>1. pc[w] # "idle" /\ Forget(w) /\ UNCHANGED <<run, step, ledger, stale>>
  BY DEF BeginStepRaises, Crash
<1>2. IInv'
  BY BeginStepRaisesKeeps, CrashKeeps DEF TimelyInv
<1>3. run'.status = "running"
  BY <1>1 DEF TimelyInv, InsideTheLease
<1>4. QED
  BY <1>1, <1>2, <1>3, RunningTellsNothing, LeavingKeeps

LEMMA ResumeTimely == ASSUME TimelyInv, Resume PROVE TimelyInv'
<1>1. IInv' /\ UNCHANGED <<ledger, pc, todo, cache, job, stale>>
  BY ResumeKeeps DEF TimelyInv, Resume
<1>2. run'.status = "pending" /\ run.status # "running"
  BY TimelyTypes DEF Resume
<1>3. \A v \in Workers : pc[v] = "idle"
  BY <1>2, TimelyTypes DEF TimelyInv, InsideTheLease
<1>4. OutcomeOfLatestAttempt'
  <2>1. ASSUME NEW s \in Steps, step'[s].status \in Settled PROVE step'[s] = step[s]
    BY <2>1, TimelyTypes DEF Resume, Settled
  <2>2. QED
    BY <1>1, <2>1 DEF TimelyInv, OutcomeOfLatestAttempt
<1>5. QED
  BY <1>1, <1>2, <1>3, <1>4, RunningTellsNothing
     DEF TimelyInv, InsideTheLease, OneWorkerAtATime, SessionIsCurrent, JobIsLatest

LEMMA ClockTimely == ASSUME Timely, TimelyInv, Clock PROVE TimelyInv'
<1>1. IInv' /\ UNCHANGED <<ledger, pc, todo, cache, job, stale>>
  BY ClockKeeps DEF TimelyInv, Clock
<1>2. /\ run' = [run EXCEPT !.lease = Shorter(@), !.age = Older(@)]
      /\ step' = [s \in Steps |-> [step[s] EXCEPT !.lease = Shorter(@)]]
      /\ \A w \in Workers : pc[w] # "idle" => run.lease > 1
  BY DEF Clock
<1>3. run'.status = run.status /\ run'.lease = Shorter(run.lease) /\ run.lease \in Leases
  BY <1>2, TimelyTypes
<1>4. \A s \in Steps : step'[s].status = step[s].status /\ step'[s].attempts = step[s].attempts
  BY <1>2, TimelyTypes
<1>5. InsideTheLease'
  BY <1>1, <1>2, <1>3 DEF TimelyInv, InsideTheLease, Shorter, Leases, Lapsed
<1>6. SessionIsCurrent' /\ OneWorkerAtATime'
  BY <1>1, <1>4 DEF TimelyInv, SessionIsCurrent, OneWorkerAtATime
<1>7. JobIsLatest'
  BY <1>1, <1>4 DEF TimelyInv, IInv, JobIsOpen, JobIsLatest
<1>8. OutcomeOfLatestAttempt'
  BY <1>1, <1>4 DEF TimelyInv, OutcomeOfLatestAttempt
<1>9. RunTellsSteps'
  BY <1>3, <1>4 DEF TimelyInv, RunTellsSteps
<1>10. QED
  BY <1>1, <1>5, <1>6, <1>7, <1>8, <1>9 DEF TimelyInv

LEMMA TimelyInit == Init => TimelyInv
<1>1. SUFFICES ASSUME Init PROVE TimelyInv
  OBVIOUS
<1>2. /\ IInv /\ ~stale /\ run.status = "pending"
      /\ \A w \in Workers : pc[w] = "idle"
      /\ \A s \in Steps : step[s].status = "pending"
  BY <1>1, InitIInv DEF Init
<1>3. QED
  BY <1>2 DEF TimelyInv, InsideTheLease, OneWorkerAtATime, SessionIsCurrent, JobIsLatest,
              OutcomeOfLatestAttempt, RunTellsSteps, Settled, Terminal

LEMMA TimelyInduction ==
    ASSUME Timely, ~Watchlist, TimelyInv, [Next]_vars
    PROVE  TimelyInv'
<1>1. ASSUME NEW w \in Workers, Claim(w) \/ Work(w) \/ Crash(w) PROVE TimelyInv'
  BY <1>1, ClaimTimely, LoadStepsTimely, BeginStepTimely, FinishStepTimely, FinalizeTimely,
     LeavingTimely DEF Work
<1>2. CASE Resume
  BY <1>2, ResumeTimely
<1>3. CASE JudgeStalled \/ MarkStalled
  BY <1>3 DEF JudgeStalled, MarkStalled, TimelyInv
<1>4. CASE Clock
  BY <1>4, ClockTimely
<1>5. CASE UNCHANGED vars
  <2>1. UNCHANGED <<run, step, ledger, pc, todo, cache, job, stale, spent>>
    BY <1>5 DEF vars
  <2>2. IInv'
    BY <1>5, Induction DEF TimelyInv
  <2>3. QED
    BY <2>1, <2>2 DEF TimelyInv, InsideTheLease, OneWorkerAtATime, SessionIsCurrent, JobIsLatest,
                      OutcomeOfLatestAttempt, RunTellsSteps
<1>6. QED
  BY <1>1, <1>2, <1>3, <1>4, <1>5 DEF Next

LEMMA TimelyInvariance == ASSUME Timely, ~Watchlist PROVE Spec => []TimelyInv
<1>1. QED
  BY TimelyInit, TimelyInduction, PTL DEF Spec

\* While no worker outlives its leases and nobody marks the run stalled, one worker at a time
\* is inside execute_run.
THEOREM OneWorker == ASSUME Timely, ~Watchlist PROVE Spec => []OneWorkerAtATime
<1>1. TimelyInv => OneWorkerAtATime
  BY DEF TimelyInv
<1>2. QED
  BY <1>1, TimelyInvariance, PTL

\* Under the same conditions a run that is over says what became of its steps, which say what
\* became of their latest attempts (_finalize_run reads through a session that is not refreshed).
THEOREM VerdictMatches == ASSUME Timely, ~Watchlist PROVE Spec => []VerdictMatchesSteps
<1>1. TimelyInv => VerdictMatchesSteps
  BY DEF TimelyInv, VerdictMatchesSteps
<1>2. QED
  BY <1>1, TimelyInvariance, PTL

\* And no reclaim and no resume runs a step again that has succeeded.
LEMMA SucceededStays ==
    ASSUME Timely, ~Watchlist, TimelyInv, [Next]_vars
    PROVE  \A s \in Steps : step[s].status = "succeeded" => step'[s].status = "succeeded"
<1> SUFFICES ASSUME NEW s \in Steps, step[s].status = "succeeded"
             PROVE  step'[s].status = "succeeded"
  OBVIOUS
<1>1. CASE UNCHANGED step
  BY <1>1
<1>2. ASSUME NEW w \in Workers, Claim(w) PROVE step'[s].status = "succeeded"
  BY <1>2 DEF Claim
<1>3. ASSUME NEW w \in Workers, BeginStep(w) PROVE step'[s].status = "succeeded"
  <2>1. PICK t \in Steps : \E row : t \in todo[w] /\ step' = [step EXCEPT ![t] = row] /\ pc[w] = "ready"
    BY <1>3 DEF BeginStep, NextStep
  <2>2. step[t].status = "pending"
    BY <2>1 DEF TimelyInv, SessionIsCurrent
  <2>3. QED
    BY <2>1, <2>2, TimelyTypes
<1>4. ASSUME NEW w \in Workers, NEW outcome \in Settled, NEW expired \in BOOLEAN,
             FinishStep(w, outcome, expired)
      PROVE  step'[s].status = "succeeded"
  <2>1. /\ pc[w] = "executing"
        /\ step' = [step EXCEPT ![job[w].step].status = outcome, ![job[w].step].lease = Lapsed]
    BY <1>4 DEF FinishStep
  <2>2. step[job[w].step].status = "running"
    BY <2>1 DEF TimelyInv, JobIsLatest
  <2>3. job[w].step # s
    BY <2>2
  <2>4. QED
    BY <2>1, <2>3, TimelyTypes
<1>5. CASE Resume
  BY <1>5 DEF Resume, Downstream
<1>6. CASE Clock
  BY <1>6, TimelyTypes DEF Clock
<1>7. ASSUME NEW w \in Workers, LoadSteps(w) \/ BeginStepRaises(w) \/ Finalize(w) \/ Crash(w)
      PROVE  UNCHANGED step
  BY <1>7 DEF LoadSteps, BeginStepRaises, Finalize, Crash
<1>8. CASE JudgeStalled \/ MarkStalled \/ UNCHANGED vars
  BY <1>1, <1>8 DEF JudgeStalled, MarkStalled, TimelyInv, vars
<1>9. QED
  BY <1>1, <1>2, <1>3, <1>4, <1>5, <1>6, <1>7, <1>8 DEF Next, Work

\* Neither a reclaim nor a resume repeats a step that has succeeded (execute_run takes only
\* what is pending, resume_run resets only what has failed or was skipped after it).
THEOREM NoRepetition == ASSUME Timely, ~Watchlist PROVE Spec => SucceededStepIsNotRepeated
<1>1. TimelyInv /\ [Next]_vars =>
        [\A s \in Steps : step[s].status = "succeeded" => step'[s].status = "succeeded"]_step
  BY SucceededStays
<1>2. QED
  BY <1>1, TimelyInvariance, PTL DEF Spec, SucceededStepIsNotRepeated
===============================================================================
