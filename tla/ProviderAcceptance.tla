-------------------------- MODULE ProviderAcceptance --------------------------
(***************************************************************************)
(* ProviderAcceptanceService.run: what is retained of each reference       *)
(* symbol is read statement by statement, while ingestion adds to it, and  *)
(* the items are summarised and written in one transaction.                *)
(***************************************************************************)
EXTENDS Integers, FiniteSets, Sequences

CONSTANTS
    Symbols,   \* coverage_reference_symbols, in order
    Banks,     \* those whose issuer is a bank
    Datasets,  \* what is read of a symbol, in order
    PolicyOk   \* coverage_usage_scope is approved for the beta

Datasets0 == {"stock_master", "daily_bars", "financial_statements", "valuations",
              "industry_membership", "corporate_events"}
Mandatory == {"stock_master", "daily_bars", "financial_statements", "valuations"}

\* No symbol is read twice: uq_provider_acceptance_item refuses the items of a run that does.
ASSUME AcceptanceAssumption ==
    /\ Symbols \in Seq({Symbols[i] : i \in DOMAIN Symbols})
    /\ \A i, j \in DOMAIN Symbols : Symbols[i] = Symbols[j] => i = j
    /\ Datasets \in Seq(Datasets0) /\ PolicyOk \in BOOLEAN
    /\ \A i, j \in DOMAIN Datasets : Datasets[i] = Datasets[j] => i = j

VARIABLES
    retained,    \* what is retained of a symbol, enough and fresh enough
    aiHealthy,   \* the AI route is healthy and has succeeded
    acceptRun,   \* run: what it has still to read and the items it has
    acceptance   \* the latest provider_acceptance_runs

acceptanceVars == <<retained, aiHealthy, acceptRun, acceptance>>

SymbolSet == {Symbols[i] : i \in DOMAIN Symbols}
DatasetSet == {Datasets[i] : i \in DOMAIN Datasets}
ItemStatus == {"passed", "failed", "blocked", "unsupported"}
Items == [of : SymbolSet \cup {"policy", "ai"}, dataset : Datasets0 \cup {"usage", "route"},
          status : ItemStatus]
NoSummary == [status |-> "none", eligible |-> FALSE, passed |-> 0, others |-> 0]

\* The reads of a run: every dataset of every symbol, symbol by symbol.
Reads == [i \in 1..(Len(Symbols) * Len(Datasets)) |->
            [of |-> Symbols[1 + ((i - 1) \div Len(Datasets))],
             dataset |-> Datasets[1 + ((i - 1) % Len(Datasets))]]]

AcceptanceTypeOK ==
    /\ retained \in [SymbolSet -> SUBSET DatasetSet] /\ aiHealthy \in BOOLEAN
    /\ acceptRun.next \in 0..(Len(Reads) + 1)
    /\ acceptRun.items \subseteq Items
    /\ acceptance.status \in {"none", "passed", "failed"}
    /\ acceptance.passed + acceptance.others \in {0, Len(Reads) + 2}

AcceptanceInit ==
    /\ retained = [s \in SymbolSet |-> {}] /\ aiHealthy = FALSE
    /\ acceptRun = [next |-> 0, items |-> {}]
    /\ acceptance = NoSummary

\* Ingestion retains more; a stock is listed or delisted; the AI route turns.
Ingest(s, d) ==
    /\ retained' = [retained EXCEPT ![s] = @ \cup {d}]
    /\ UNCHANGED <<aiHealthy, acceptRun, acceptance>>
Delist(s) ==
    /\ retained' = [retained EXCEPT ![s] = @ \ {"stock_master"}]
    /\ UNCHANGED <<aiHealthy, acceptRun, acceptance>>
RouteTurns ==
    /\ aiHealthy' = ~aiHealthy
    /\ UNCHANGED <<retained, acceptRun, acceptance>>

\* The start of run, with its item on the usage scope.
StartAcceptance ==
    /\ acceptRun.next = 0
    /\ acceptRun' = [next |-> 1, items |-> {[of |-> "policy", dataset |-> "usage",
                                            status |-> IF PolicyOk THEN "passed" ELSE "blocked"]}]
    /\ UNCHANGED <<retained, aiHealthy, acceptance>>

\* A bank without an industry is unsupported, not failed.
StatusOf(s, d) ==
    IF d \in retained[s] THEN "passed"
    ELSE IF d = "industry_membership" /\ s \in Banks THEN "unsupported" ELSE "failed"

ReadDataset ==
    /\ acceptRun.next \in 1..Len(Reads)
    /\ LET r == Reads[acceptRun.next]
       IN  acceptRun' = [next |-> acceptRun.next + 1,
                         items |-> acceptRun.items \cup
                           {[of |-> r.of, dataset |-> r.dataset, status |-> StatusOf(r.of, r.dataset)]}]
    /\ UNCHANGED <<retained, aiHealthy, acceptance>>

\* A variant: a run fails when every mandatory item has failed.
AllFailed(items) ==
    {i \in items : i.dataset \in Mandatory} \subseteq {i \in items : i.status # "passed"}

MandatoryFailed(items) == \E i \in items : i.dataset \in Mandatory /\ i.status # "passed"

CountOthers(items) == Cardinality({i \in items : i.status \in {"failed", "blocked", "unsupported"}})

\* The item on the AI route, which is optional, and the commit.
Summarize ==
    LET items == acceptRun.items \cup {[of |-> "ai", dataset |-> "route",
                                        status |-> IF aiHealthy THEN "passed" ELSE "failed"]}
    IN  /\ acceptRun.next = Len(Reads) + 1
        /\ acceptance' = [status |-> IF MandatoryFailed(items) THEN "failed" ELSE "passed",
                          eligible |-> ~MandatoryFailed(items) /\ PolicyOk,
                          passed |-> Cardinality({i \in items : i.status = "passed"}),
                          others |-> CountOthers(items)]
        /\ acceptRun' = [next |-> 0, items |-> {}]
        /\ UNCHANGED <<retained, aiHealthy>>

AcceptanceNext ==
    \/ \E s \in SymbolSet : Delist(s) \/ \E d \in DatasetSet : Ingest(s, d)
    \/ RouteTurns \/ StartAcceptance \/ ReadDataset \/ Summarize

AcceptanceSpec == AcceptanceInit /\ [][AcceptanceNext]_acceptanceVars

\* A provider that is accepted has retained what is mandatory: data that a run found missing for
\* one symbol is not made up for by another's, nor by what is ingested while the run goes on.
AcceptedIsRetained ==
    acceptance.status = "passed" =>
        \A s \in SymbolSet : DatasetSet \cap (Mandatory \ {"stock_master"}) \subseteq retained[s]
=============================================================================
