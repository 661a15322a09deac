------------------------------ MODULE AIResearch ------------------------------
(***************************************************************************)
(* AIResearchService: the stock health document of a company, written by a *)
(* chain of models from the latest research snapshot.  A run has a lease   *)
(* of thirty minutes, its document is unique by the identity of the run,   *)
(* and what a model answers is repaired once at most.                      *)
(*                                                                         *)
(* One company and one route: a run is named by its snapshot.              *)
(***************************************************************************)
EXTENDS Integers, Sequences

CONSTANTS
    Writers,        \* ai_research.generate_stock_health tasks, or calls of the service
    Shapes,         \* structures and citations an answer may have
    HealthLease,    \* thirty minutes
    HealthChain,    \* active_models
    MaxSnapshots,   \* bound
    MaxOrders,      \* bound: generations that are asked for
    MaxHealthTime,  \* bound
    MaxHealthLosses,\* bound: repeated messages, lost workers, failed writes
    NoShape

ASSUME HealthAssumption ==
    /\ NoShape \notin Shapes
    /\ {HealthLease, HealthChain} \subseteq Nat \ {0}
    /\ {MaxSnapshots, MaxOrders, MaxHealthTime, MaxHealthLosses} \subseteq Nat

VARIABLES
    healthTime,
    built,          \* the latest research snapshot, 0 when there is none
    research,       \* ai_research_runs, by snapshot
    documents,      \* ai_research_outputs, by generated_at
    ordered,        \* how many messages there are, by retry_failed
    writer,
    orders, healthLosses

healthVars == <<healthTime, built, research, documents, ordered, writer, orders, healthLosses>>

NoResearch == [status |-> "absent", lease |-> 0, tries |-> 0]
NoWriter == [at |-> "idle", on |-> 0, retry |-> FALSE, began |-> 0,
             model |-> 1, call |-> 0, repaired |-> FALSE, source |-> NoShape, shape |-> NoShape]
Fits == {"valid", "schema_invalid", "numeric_claim", "forbidden_language", "citation_invalid"}
Busy == {"calling", "complete", "fail"}

ResearchRows == [status : {"absent", "running", "succeeded", "failed"}, lease : Nat,
                 tries : 0..(HealthChain + 1)]
Documents == [of : 1..MaxSnapshots, shape : Shapes, source : Shapes \cup {NoShape}]
WriterRows == [at : Busy \cup {"idle", "acquire", "take"}, on : 0..MaxSnapshots, retry : BOOLEAN,
               began : Nat, model : Nat, call : 0..(HealthChain + 1), repaired : BOOLEAN,
               source : Shapes \cup {NoShape}, shape : Shapes \cup {NoShape}]

HealthTypeOK ==
    /\ healthTime \in Nat
    /\ built \in 0..MaxSnapshots
    /\ research \in [1..MaxSnapshots -> ResearchRows]
    /\ documents \in Seq(Documents)
    /\ ordered \in [BOOLEAN -> Nat]
    /\ writer \in [Writers -> WriterRows]
    /\ orders \in Nat /\ healthLosses \in Nat

HealthInit ==
    /\ healthTime = 0 /\ built = 0
    /\ research = [k \in 1..MaxSnapshots |-> NoResearch]
    /\ documents = <<>>
    /\ ordered = [retry \in BOOLEAN |-> 0]
    /\ writer = [w \in Writers |-> NoWriter]
    /\ orders = 0 /\ healthLosses = 0

GoWriter(w, at) == writer' = [writer EXCEPT ![w].at = at]
EndWriter(w) == writer' = [writer EXCEPT ![w] = NoWriter]
HealthTrouble == healthLosses < MaxHealthLosses /\ healthLosses' = healthLosses + 1
HasDocument(k) == \E i \in 1..Len(documents) : documents[i].of = k

-----------------------------------------------------------------------------
(* Asking for a document, and the lease of its run *)

NewSnapshot ==
    /\ built < MaxSnapshots
    /\ built' = built + 1
    /\ UNCHANGED <<healthTime, research, documents, ordered, writer, orders, healthLosses>>

OrderResearch(retry) ==
    /\ orders < MaxOrders
    /\ orders' = orders + 1
    /\ ordered' = [ordered EXCEPT ![retry] = @ + 1]
    /\ UNCHANGED <<healthTime, built, research, documents, writer, healthLosses>>

\* generate_stock_health, up to acquire_run: without a snapshot, with no model enabled or with
\* the document there already, nothing is left to do.
TakeOrder(w, retry) ==
    /\ writer[w].at = "idle" /\ ordered[retry] > 0
    /\ ordered' = [ordered EXCEPT ![retry] = @ - 1]
    /\ IF built = 0 \/ HasDocument(built) THEN UNCHANGED writer
       ELSE writer' = [writer EXCEPT ![w] = [NoWriter EXCEPT !.at = "acquire", !.on = built,
                                                             !.retry = retry]]
    /\ UNCHANGED <<healthTime, built, research, documents, orders, healthLosses>>

\* Variant and code: the lease is not looked at; a lapsed one may be taken.
RunningAnyway(k, now) == research[k].status = "running"
RunLapsed(k, now) == research[k].status = "running" /\ research[k].lease < now

\* acquire_run: the insert, and the look at the run that was there before.
AcquireResearch(w) ==
    /\ writer[w].at = "acquire"
    /\ LET k == writer[w].on
       IN  \/ /\ research[k].status = "absent"
              /\ research' = [research EXCEPT ![k] = [status |-> "running", tries |-> 0,
                                                      lease |-> healthTime + HealthLease]]
              /\ writer' = [writer EXCEPT ![w] = [@ EXCEPT !.at = "calling", !.began = healthTime]]
           \/ /\ research[k].status # "absent"
              /\ IF (research[k].status = "failed" /\ writer[w].retry) \/ RunLapsed(k, healthTime)
                 THEN writer' = [writer EXCEPT ![w] =
                                   [@ EXCEPT !.at = "take", !.began = healthTime]]
                 ELSE EndWriter(w)
              /\ UNCHANGED research
    /\ UNCHANGED <<healthTime, built, documents, ordered, orders, healthLosses>>

\* Variant and code: by the look alone; the update asks again whether there is something to take.
\* It does not ask again for retry_failed.
AsItWas(k, now) == TRUE
StillFree(k, now) == research[k].status = "failed" \/ RunLapsed(k, now)

TakeResearch(w) ==
    /\ writer[w].at = "take"
    /\ LET k == writer[w].on  now == writer[w].began
       IN  IF StillFree(k, now)
           THEN /\ research' = [research EXCEPT ![k] = [status |-> "running", tries |-> 0,
                                                        lease |-> now + HealthLease]]
                /\ GoWriter(w, "calling")
           ELSE EndWriter(w) /\ UNCHANGED research
    /\ UNCHANGED <<healthTime, built, documents, ordered, orders, healthLosses>>

-----------------------------------------------------------------------------
(* The chain of models *)

\* Variant and code: a repair for each model; one for the whole run.
EachModel(w) == writer[w].source = NoShape
MayRepair(w) == ~writer[w].repaired

\* Variant and code of validate_repair_preserves_structure, of a repair of the source.
AnyShape(source, shape) == TRUE
Preserves(source, shape) == source \in {NoShape, shape}

NextModel(row) == [row EXCEPT !.model = @ + 1, !.source = NoShape]

\* What becomes of an answer: it is written, sent back once for a repair, freed of the sentences
\* of advice (when what is left is valid), or given up for the next model.
Considered(w, row, fit, shape) ==
    LET code == IF fit = "valid" /\ ~Preserves(row.source, shape) THEN "repair_structure_invalid"
                ELSE fit
        kept == [row EXCEPT !.at = "complete", !.shape = shape]
    IN  CASE code = "valid" -> {kept}
          [] code = "forbidden_language" /\ row.repaired ->
               {[row EXCEPT !.at = "fail"]}
                 \cup (IF Preserves(row.source, shape) THEN {kept} ELSE {})
          [] MayRepair(w) /\ code \in {"numeric_claim", "forbidden_language", "schema_invalid"} ->
               {[row EXCEPT !.repaired = TRUE,
                            !.source = IF code = "schema_invalid" THEN NoShape
                                       ELSE IF @ = NoShape THEN shape ELSE @]}
          [] OTHER -> {NextModel(row)}

\* One call and its audit, which counts it on the run.  No answer: the next model.
CallHealthModel(w) ==
    /\ writer[w].at = "calling" /\ writer[w].model <= HealthChain
    /\ LET row == [writer[w] EXCEPT !.call = @ + 1]
       IN  /\ research' = [research EXCEPT ![row.on].tries = row.call]
           /\ \/ writer' = [writer EXCEPT ![w] = NextModel(row)]
              \/ \E fit \in Fits, shape \in Shapes :
                   \E after \in Considered(w, row, fit, shape) :
                     writer' = [writer EXCEPT ![w] = after]
    /\ UNCHANGED <<healthTime, built, documents, ordered, orders, healthLosses>>

\* The chain is exhausted, the deadline of the run has come, or a write of it has failed.
GiveUp(w) ==
    /\ writer[w].at \in {"calling", "complete"}
    /\ IF writer[w].at = "complete" THEN HealthTrouble ELSE UNCHANGED healthLosses
    /\ GoWriter(w, "fail")
    /\ UNCHANGED <<healthTime, built, research, documents, ordered, orders>>

\* complete_run: the document unless there is one, and the status whatever it was.
CompleteResearch(w) ==
    /\ writer[w].at = "complete"
    /\ LET k == writer[w].on
       IN  /\ documents' = IF HasDocument(k) THEN documents
                           ELSE Append(documents, [of |-> k, shape |-> writer[w].shape,
                                                   source |-> writer[w].source])
           /\ research' = [research EXCEPT ![k].status = "succeeded"]
    /\ EndWriter(w)
    /\ UNCHANGED <<healthTime, built, ordered, orders, healthLosses>>

\* fail_run: blind.
FailResearch(w) ==
    /\ writer[w].at = "fail"
    /\ research' = [research EXCEPT ![writer[w].on].status = "failed"]
    /\ EndWriter(w)
    /\ UNCHANGED <<healthTime, built, documents, ordered, orders, healthLosses>>

\* The message is delivered again, because its worker is lost or before it is acknowledged.
RepeatOrder(w) ==
    /\ writer[w].at # "idle"
    /\ HealthTrouble
    /\ ordered' = [ordered EXCEPT ![writer[w].retry] = @ + 1]
    /\ writer' \in {writer, [writer EXCEPT ![w] = NoWriter]}
    /\ UNCHANGED <<healthTime, built, research, documents, orders>>

\* Time: the four minutes of a run's deadline are well within its lease.
PassHealthTime ==
    /\ healthTime < MaxHealthTime
    /\ \A w \in Writers :
         writer[w].at \in Busy \cup {"take"} => healthTime < writer[w].began + HealthLease
    /\ healthTime' = healthTime + 1
    /\ UNCHANGED <<built, research, documents, ordered, writer, orders, healthLosses>>

HealthNext ==
    \/ NewSnapshot
    \/ \E retry \in BOOLEAN : OrderResearch(retry)
    \/ \E w \in Writers :
         \/ \E retry \in BOOLEAN : TakeOrder(w, retry)
         \/ AcquireResearch(w) \/ TakeResearch(w) \/ CallHealthModel(w) \/ GiveUp(w)
         \/ CompleteResearch(w) \/ FailResearch(w) \/ RepeatOrder(w)
    \/ PassHealthTime

HealthSpec == HealthInit /\ [][HealthNext]_healthVars

-----------------------------------------------------------------------------
(* Properties *)

\* However messages are repeated, workers lost and failed runs retried, one task at a time
\* calls models for a run, and none does for a run that is over.
OneWriterAtATime ==
    \A w \in Writers : writer[w].at \in Busy =>
        /\ research[writer[w].on].status = "running"
        /\ \A v \in Writers \ {w} : writer[v].at \in Busy => writer[v].on # writer[w].on

\* A document that came of a repair has the structure and the citations of the answer that was
\* repaired, also when sentences have been taken out of it.
RepairKeepsStructure ==
    \A i \in 1..Len(documents) : documents[i].source \in {NoShape, documents[i].shape}

\* A run has succeeded exactly when it has its one document, whose structure no repair has
\* changed: no second task leaves it failed or running with its document there, and none writes
\* another.
SucceededHasOneDocument ==
    /\ \A k \in 1..MaxSnapshots : research[k].status = "succeeded" <=> HasDocument(k)
    /\ \A i, j \in 1..Len(documents) : documents[i].of = documents[j].of => i = j
    /\ RepairKeepsStructure

\* The phase of a run and the documents of a snapshot, as those who ordered a document see them.
HealthPhase(status) ==
    CASE status = "absent" -> "new"
      [] status = "running" -> "open"
      [] status = "failed" -> "failed"
      [] status = "succeeded" -> "answered"
DocumentsOf(k) ==
    {documents[i].shape : i \in {j \in 1..Len(documents) : documents[j].of = k}}

HealthOrders == INSTANCE WorkOrders WITH
    Orders <- 1..MaxSnapshots,
    AnswersTo <- [k \in 1..MaxSnapshots |-> {{shape} : shape \in Shapes}],
    Unanswered <- {},
    order <- [k \in 1..MaxSnapshots |-> HealthPhase(research[k].status)],
    answer <- [k \in 1..MaxSnapshots |-> DocumentsOf(k)]

\* The leases, the tasks and their blind last writes keep what is promised: the document of a
\* snapshot is written once, by a run that was going on, and what has succeeded stays so.
HealthIsOrderly == HealthOrders!OrdersSpec
=============================================================================
