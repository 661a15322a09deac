---------------------------- MODULE PipelineProofs ----------------------------
(***************************************************************************)
(* What holds of the parsing of screens for every number of texts, pages,  *)
(* tasks and models: one task at a time works for a run, what it parses is *)
(* the run's own text, what has been accepted has its message, the limits  *)
(* are passed by no more than there are requests at a time.  What holds of *)
(* the research that AI writes for every number of tasks, models and       *)
(* snapshots: one task at a time writes for a run, and what has succeeded  *)
(* has its one document.  Both keep what WorkOrders promises.              *)
(*                                                                         *)
(* The inductive invariants add what a task of a parse may rely on after a *)
(* text has gone, and how the lease of a run and the task that holds it    *)
(* depend on each other.                                                   *)
(***************************************************************************)
EXTENDS MC_Pipeline, AutomationRunProofs, FiniteSetTheorems, TLAPS

\* A run that has come to be and that a worker may be sent to.
Known(t) == parses[t].status \in {"pending", "running", "succeeded", "failed"}

\* Messages, requests on their way to one and tasks are about runs that are there.
PageIsKnown(g) ==
    /\ pages[g].at = "insert" => pages[g].about \in Texts
    /\ pages[g].at \in {"store", "send"} => pages[g].about \in Texts /\ Known(pages[g].about)
    /\ pages[g].at = "save" => pages[g].about \in Names
TaskIsKnown(p) == parser[p].at # "idle" => parser[p].on \in Texts /\ Known(parser[p].on)
RunsAreKnown ==
    /\ \A g \in Pages : PageIsKnown(g)
    /\ \A t \in Texts : parseQueue[t] > 0 => Known(t)
    /\ \A p \in Parsers : TaskIsKnown(p)

\* A task that works for a run has its lease, which has not lapsed; one that calls models has the
\* run's own text.
TaskHolds(p) ==
    /\ parser[p].at \in Working => /\ parser[p].on \in Texts
                                   /\ parses[parser[p].on].status = "running"
                                   /\ parseTime <= parses[parser[p].on].lease
    /\ parser[p].at \in {"calling", "parsed", "exhausted"} => parser[p].text = parser[p].on
TasksHold == \A p \in Parsers : TaskHolds(p)

\* A run has an answer when it has succeeded, and that is its text.
AnswerFits(row, t) == row.of = IF row.status = "succeeded" THEN t ELSE NoText
AnswersFit == \A t \in Texts : AnswerFits(parses[t], t)

\* What a request has been told of is there, and on its way while it is pending.
OnItsWay(t) == parseQueue[t] > 0 \/ \E p \in Parsers : parser[p].at = "taken" /\ parser[p].on = t
SureAreKept ==
    \A t \in sure : parses[t].status # "absent" /\ (parses[t].status = "pending" => OnItsWay(t))

ParseInv == ParseTypeOK /\ RunsAreKnown /\ TasksHold /\ OneTaskCalls /\ AnswersFit /\ SureAreKept

-----------------------------------------------------------------------------
\* The bounds, one by one.
LEMMA ParseNumbers ==
    /\ NoText \notin Texts /\ Advice \subseteq Texts
    /\ ParsesDaily \in Nat /\ ParsesAtOnce \in Nat /\ SavedLimit \in Nat
    /\ TextLife \in Nat /\ TextLife > 0 /\ ParseLease \in Nat /\ ParseLease > 0
    /\ ChainLength \in Nat /\ ChainLength > 0
BY ParseAssumption

USE ParseNumbers

LEMMA StagesOfParsers ==
    /\ Working = {"mismatched", "calling", "parsed", "exhausted"}
    /\ "idle" \notin Working /\ "taken" \notin Working
BY DEF Working

LEMMA ParseInitInv == ParseInit => ParseInv
<1> SUFFICES ASSUME ParseInit PROVE ParseInv
  OBVIOUS
<1>1. \A t \in Texts : parses[t] = NoParse /\ parseQueue[t] = 0
  BY DEF ParseInit
<1>2. \A g \in Pages : pages[g] = NoPage
  BY DEF ParseInit
<1>3. \A p \in Parsers : parser[p] = NoParser
  BY DEF ParseInit
<1>4. ParseTypeOK
  BY DEF ParseInit, ParseTypeOK, ParseRows, PageRows, ParserRows, NoParse, NoPage, NoParser
<1>5. RunsAreKnown
  BY <1>1, <1>2, <1>3 DEF RunsAreKnown, PageIsKnown, TaskIsKnown, NoPage, NoParser
<1>6. TasksHold /\ OneTaskCalls
  BY <1>3 DEF TasksHold, TaskHolds, OneTaskCalls, NoParser, Working
<1>7. AnswersFit
  BY <1>1 DEF AnswersFit, AnswerFits, NoParse
<1>8. SureAreKept
  BY DEF ParseInit, SureAreKept
<1>9. QED
  BY <1>4, <1>5, <1>6, <1>7, <1>8 DEF ParseInv

-----------------------------------------------------------------------------
(* Types *)

\* The rows stay rows, and keep their other fields, whichever is written.
LEMMA PageRowChanges ==
    /\ NoPage \in PageRows
    /\ \A row \in PageRows, at \in {"idle", "insert", "store", "send", "save"} :
         LET next == [row EXCEPT !.at = at]
         IN  next \in PageRows /\ next.at = at /\ next.about = row.about
<1>1. NoPage \in PageRows
  BY DEF NoPage, PageRows
<1>2. QED
  BY <1>1 DEF PageRows

Leased(row, status, lease) == [row EXCEPT !.status = status, !.lease = lease]
EndedAs(row, status, of) == [row EXCEPT !.status = status, !.of = of]

LEMMA ParseRowChanges ==
    /\ \A row \in ParseRows, lease \in Nat,
          status \in SettledParse \cup {"absent", "pending", "running"} :
         /\ Leased(row, status, lease) \in ParseRows
         /\ Leased(row, status, lease).status = status
         /\ Leased(row, status, lease).lease = lease
         /\ Leased(row, status, lease).of = row.of
BY DEF ParseRows, Leased

LEMMA SettledRows ==
    \A row \in ParseRows, of \in Texts \cup {NoText}, status \in {"succeeded", "failed"} :
      /\ EndedAs(row, status, of) \in ParseRows
      /\ EndedAs(row, status, of).status = status
      /\ EndedAs(row, status, of).of = of
BY DEF ParseRows, EndedAs, SettledParse

ParserAt(row, at) == [row EXCEPT !.at = at]
ParserOn(t, text) == [NoParser EXCEPT !.at = "taken", !.on = t, !.text = text]

LEMMA ParserRowChanges ==
    /\ NoParser \in ParserRows
    /\ \A row \in ParserRows, at \in Working \cup {"idle", "taken"} :
         /\ ParserAt(row, at) \in ParserRows
         /\ ParserAt(row, at).at = at
         /\ ParserAt(row, at).on = row.on
         /\ ParserAt(row, at).text = row.text
    /\ \A row \in ParserRows, at \in Working : row.attempt < ChainLength =>
         /\ Attempted(row, at) \in ParserRows
         /\ Attempted(row, at).at = at
         /\ Attempted(row, at).on = row.on
         /\ Attempted(row, at).text = row.text
    /\ \A t \in Texts, text \in Texts \cup {NoText} :
         /\ ParserOn(t, text) \in ParserRows
         /\ ParserOn(t, text).at = "taken"
         /\ ParserOn(t, text).on = t
         /\ ParserOn(t, text).text = text
<1>1. NoParser \in ParserRows
  BY DEF NoParser, ParserRows
<1>2. ASSUME NEW row \in ParserRows, NEW at \in Working, row.attempt < ChainLength
      PROVE  /\ Attempted(row, at) \in ParserRows
             /\ Attempted(row, at).at = at
             /\ Attempted(row, at).on = row.on
             /\ Attempted(row, at).text = row.text
  <2>1. row.attempt + 1 \in 0..ChainLength
    BY <1>2 DEF ParserRows
  <2>2. \A n \in 0..ChainLength : LET next == [row EXCEPT !.attempt = n, !.at = at]
                                  IN  /\ next \in ParserRows /\ next.at = at
                                      /\ next.on = row.on /\ next.text = row.text
    BY DEF ParserRows
  <2>3. QED
    BY <2>1, <2>2 DEF Attempted
<1>3. \A row \in ParserRows, at \in Working \cup {"idle", "taken"} :
        /\ ParserAt(row, at) \in ParserRows
        /\ ParserAt(row, at).at = at
        /\ ParserAt(row, at).on = row.on
        /\ ParserAt(row, at).text = row.text
  BY DEF ParserRows, ParserAt
<1>4. \A t \in Texts, text \in Texts \cup {NoText} :
        /\ ParserOn(t, text) \in ParserRows
        /\ ParserOn(t, text).at = "taken"
        /\ ParserOn(t, text).on = t
        /\ ParserOn(t, text).text = text
  BY <1>1 DEF ParserRows, ParserOn
<1>5. QED
  BY <1>1, <1>2, <1>3, <1>4

-----------------------------------------------------------------------------
(* How a run moves *)

\* A run comes to be, is claimed while it is open, and ends while it is running.
InsertOf(t, row) ==
    /\ parses[t].status = "absent" /\ row.of = parses[t].of
    /\ row.status \in {"pending", "disabled", "rejected"}
    /\ t \in Advice <=> row.status = "rejected"
ClaimOf(t, row) ==
    /\ parses[t].status \in {"pending", "running"} /\ row.of = parses[t].of
    /\ row.status = "running"
EndOf(t, row) ==
    /\ parses[t].status = "running"
    /\ \/ row.status = "succeeded" /\ row.of = t
       \/ row.status = "failed" /\ row.of = NoText

LEMMA LeasesAreTimes == parseTime \in Nat => parseTime + ParseLease \in Nat
<1>1. ParseLease \in Nat
  OBVIOUS
<1>2. QED
  BY <1>1

LEMMA InsertMoves ==
    ASSUME ParseInv, NEW g \in Pages, InsertParse(g), parses[pages[g].about].status = "absent"
    PROVE  \E row \in ParseRows : /\ parses' = [parses EXCEPT ![pages[g].about] = row]
                                  /\ pages[g].about \in Texts /\ InsertOf(pages[g].about, row)
<1> DEFINE t == pages[g].about
<1>0. parseTime + ParseLease \in Nat
  BY LeasesAreTimes DEF ParseInv, ParseTypeOK
<1>1. t \in Texts /\ parses[t] \in ParseRows
  BY DEF ParseInv, ParseTypeOK, RunsAreKnown, PageIsKnown, InsertParse
<1>2. PICK status \in StatusOfNew(t) :
        parses' = [parses EXCEPT ![t] = [@ EXCEPT !.status = status,
                                                  !.lease = parseTime + ParseLease]]
  BY DEF InsertParse
<1>3. /\ status \in {"pending", "disabled", "rejected"}
      /\ t \in Advice <=> status = "rejected"
  BY DEF StatusOfNew
<1> DEFINE row == Leased(parses[t], status, parseTime + ParseLease)
<1>4. row \in ParseRows /\ row.status = status /\ row.of = parses[t].of
  <2>1. status \in SettledParse \cup {"absent", "pending", "running"}
    BY <1>3 DEF SettledParse
  <2>2. QED
    BY ONLY <1>0, <1>1, <2>1, ParseRowChanges
<1>5. parses' = [parses EXCEPT ![t] = row]
  BY <1>2 DEF Leased
<1> HIDE DEF row
<1>6. QED
  BY <1>1, <1>3, <1>4, <1>5 DEF InsertOf

LEMMA ClaimMoves ==
    ASSUME ParseInv, NEW p \in Parsers, ClaimParse(p), FreeToParse(parser[p].on)
    PROVE  \E row \in ParseRows : /\ parses' = [parses EXCEPT ![parser[p].on] = row]
                                  /\ row.lease = parseTime + ParseLease
                                  /\ parser[p].on \in Texts /\ ClaimOf(parser[p].on, row)
<1> DEFINE t == parser[p].on
           row == Leased(parses[t], "running", parseTime + ParseLease)
<1>0. parseTime + ParseLease \in Nat
  BY LeasesAreTimes DEF ParseInv, ParseTypeOK
<1>1. t \in Texts /\ parses[t] \in ParseRows
  BY DEF ParseInv, ParseTypeOK, RunsAreKnown, TaskIsKnown, ClaimParse
<1>2. parses' = [parses EXCEPT ![t] = row]
  BY DEF ClaimParse, Leased
<1>3. /\ row \in ParseRows /\ row.status = "running" /\ row.of = parses[t].of
      /\ row.lease = parseTime + ParseLease
  BY ONLY <1>0, <1>1, ParseRowChanges
<1> HIDE DEF row
<1>4. QED
  BY <1>1, <1>2, <1>3 DEF ClaimOf, FreeToParse

LEMMA EndMoves ==
    ASSUME ParseInv, NEW p \in Parsers, EndParse(p)
    PROVE  \E row \in ParseRows : /\ parses' = [parses EXCEPT ![parser[p].on] = row]
                                  /\ parser[p].on \in Texts /\ EndOf(parser[p].on, row)
<1> DEFINE t == parser[p].on
           row == IF parser[p].at = "parsed"
                  THEN EndedAs(parses[t], "succeeded", parser[p].text)
                  ELSE EndedAs(parses[t], "failed", NoText)
<1>1. /\ t \in Texts /\ parses[t].status = "running" /\ parses[t] \in ParseRows
      /\ parser[p].at = "parsed" => parser[p].text = t
  BY StagesOfParsers DEF ParseInv, ParseTypeOK, TasksHold, TaskHolds, EndParse
<1>2. parses' = [parses EXCEPT ![t] = row]
  BY DEF EndParse, EndedAs
<1>3. /\ row \in ParseRows
      /\ \/ row.status = "succeeded" /\ row.of = t
         \/ row.status = "failed" /\ row.of = NoText
  <2>a. t \in Texts \cup {NoText} /\ NoText \in Texts \cup {NoText} /\ parses[t] \in ParseRows
    BY <1>1
  <2>1. /\ EndedAs(parses[t], "succeeded", t) \in ParseRows
        /\ EndedAs(parses[t], "succeeded", t).status = "succeeded"
        /\ EndedAs(parses[t], "succeeded", t).of = t
    BY ONLY <2>a, SettledRows
  <2>b. /\ EndedAs(parses[t], "failed", NoText) \in ParseRows
        /\ EndedAs(parses[t], "failed", NoText).status = "failed"
        /\ EndedAs(parses[t], "failed", NoText).of = NoText
    BY ONLY <2>a, SettledRows
  <2>2. \/ row = EndedAs(parses[t], "succeeded", t)
        \/ row = EndedAs(parses[t], "failed", NoText)
    BY <1>1
  <2> HIDE DEF row
  <2>3. QED
    BY <2>1, <2>b, <2>2
<1> HIDE DEF row
<1>4. QED
  BY <1>1, <1>2, <1>3 DEF EndOf

\* Nothing else writes a run.
LEMMA RunsMove ==
    ASSUME ParseInv, [ParseNext]_parseVars
    PROVE  \/ UNCHANGED parses
           \/ \E t \in Texts, row \in ParseRows :
                /\ parses' = [parses EXCEPT ![t] = row]
                /\ InsertOf(t, row) \/ ClaimOf(t, row) \/ EndOf(t, row)
<1>1. ASSUME NEW g \in Pages, InsertParse(g), parses[pages[g].about].status # "absent"
      PROVE  UNCHANGED parses
  BY <1>1 DEF InsertParse
<1>2. ASSUME NEW p \in Parsers, ClaimParse(p), ~FreeToParse(parser[p].on)
      PROVE  UNCHANGED parses
  BY <1>2 DEF ClaimParse
<1>3. \/ \E g \in Pages : InsertParse(g)
      \/ \E p \in Parsers : ClaimParse(p) \/ EndParse(p)
      \/ UNCHANGED parses
  BY DEF ParseNext, parseVars, LookForParse, StoreText, SendParse, LookForSaved, InsertSaved,
     RenameSaved, DeleteSaved, TakeParse, CallModel, RepeatParse, PassParseTime
<1>4. QED
  BY <1>1, <1>2, <1>3, InsertMoves, ClaimMoves, EndMoves

LEMMA KnownStays ==
    ASSUME ParseInv, [ParseNext]_parseVars, NEW t \in Texts
    PROVE  Known(t) => Known(t)'
<1>1. parses \in [Texts -> ParseRows]
  BY DEF ParseInv, ParseTypeOK
<1>2. QED
  BY <1>1, RunsMove DEF Known, InsertOf, ClaimOf, EndOf

LEMMA AnswersFitStep ==
    ASSUME ParseInv, [ParseNext]_parseVars PROVE AnswersFit'
<1>1. parses \in [Texts -> ParseRows] /\ AnswersFit
  BY DEF ParseInv, ParseTypeOK
<1>2. ASSUME NEW t \in Texts, NEW row \in ParseRows, InsertOf(t, row) \/ ClaimOf(t, row) \/ EndOf(t, row)
      PROVE  AnswerFits(row, t)
  BY <1>1, <1>2 DEF InsertOf, ClaimOf, EndOf, AnswersFit, AnswerFits
<1>3. QED
  BY <1>1, <1>2, RunsMove DEF AnswersFit

LEMMA CallRows ==
    ASSUME NEW p \in Parsers, CallModel(p)
    PROVE  \/ parser' = [parser EXCEPT ![p] = ParserAt(parser[p], "exhausted")]
           \/ /\ parser[p].attempt < ChainLength
              /\ \E at \in {"calling", "parsed"} :
                   parser' = [parser EXCEPT ![p] = Attempted(parser[p], at)]
<1>1. CASE parser' = [parser EXCEPT ![p].at = "exhausted"]
  BY <1>1 DEF ParserAt
<1>2. CASE ~(parser' = [parser EXCEPT ![p].at = "exhausted"])
  <2>1. parser[p].attempt < ChainLength
    BY <1>2 DEF CallModel
  <2>2. PICK at \in {"calling", "parsed"} :
          parser' = [parser EXCEPT ![p] = Attempted(@, at)]
    BY <1>2 DEF CallModel
  <2>3. QED
    BY <2>1, <2>2
<1>3. QED
  BY <1>1, <1>2

LEMMA ParseTypeStep ==
    ASSUME ParseInv, [ParseNext]_parseVars PROVE ParseTypeOK'
<1>a. ParseTypeOK
  BY DEF ParseInv
<1>1. parses' \in [Texts -> ParseRows]
  BY <1>a, RunsMove DEF ParseTypeOK
<1>2. \A t \in Texts : t \in Advice => parses'[t].status \in {"absent", "rejected"}
  BY <1>a, RunsMove DEF ParseTypeOK, InsertOf, ClaimOf, EndOf
<1>n. NoPage \in PageRows /\ NoParser \in ParserRows
  BY PageRowChanges, ParserRowChanges
<1> DEFINE Others == /\ parseTime' \in Nat /\ requests' \in Nat /\ parseLosses' \in Nat
                     /\ kept' \in [Texts -> Nat] /\ parseQueue' \in [Texts -> Nat]
                     /\ pages' \in [Pages -> PageRows]
                     /\ parser' \in [Parsers -> ParserRows]
                     /\ saved' \subseteq Names /\ sure' \subseteq Texts
<1>3. ASSUME NEW g \in Pages, NEW t \in Texts, LookForParse(g, t) PROVE Others
  <2>1. /\ [at |-> "store", about |-> t] \in PageRows
        /\ [at |-> "insert", about |-> t] \in PageRows
    BY DEF PageRows
  <2>2. pages' \in [Pages -> PageRows]
    BY <1>a, <1>3, <2>1 DEF LookForParse, ParseTypeOK
  <2>3. QED
    BY <1>a, <1>3, <2>2 DEF LookForParse, ParseTypeOK
<1>4. ASSUME NEW g \in Pages, InsertParse(g) PROVE Others
  <2>1. [pages[g] EXCEPT !.at = "store"] \in PageRows
    BY <1>a, PageRowChanges DEF ParseTypeOK
  <2>2. pages' \in [Pages -> PageRows]
    BY <1>n, <1>a, <1>4, <2>1 DEF InsertParse, GoPage, Rest, ParseTypeOK
  <2>3. QED
    BY <1>a, <1>4, <2>2 DEF InsertParse, ParseTypeOK
<1>5. ASSUME NEW g \in Pages, StoreText(g) PROVE Others
  <2>1. [pages[g] EXCEPT !.at = "send"] \in PageRows
    BY <1>a, PageRowChanges DEF ParseTypeOK
  <2>2. pages' \in [Pages -> PageRows]
    BY <1>n, <1>a, <1>5, <2>1 DEF StoreText, GoPage, Rest, ParseTypeOK
  <2>3. parseTime + TextLife \in Nat
    BY <1>a DEF ParseTypeOK
  <2>4. kept' \in [Texts -> Nat]
    BY <1>a, <1>5, <2>3 DEF StoreText, ParseTypeOK
  <2>5. QED
    BY <1>a, <1>5, <2>2, <2>4 DEF StoreText, Trouble, ParseTypeOK
<1>6. ASSUME NEW g \in Pages, SendParse(g) PROVE Others
  <2>1. pages' \in [Pages -> PageRows]
    BY <1>n, <1>a, <1>6 DEF SendParse, Rest, ParseTypeOK
  <2>2. pages[g].about \in Texts
    BY <1>6 DEF SendParse, ParseInv, RunsAreKnown, PageIsKnown
  <2>3. parseQueue' \in [Texts -> Nat] /\ sure' \subseteq Texts
    BY <1>a, <1>6, <2>2 DEF SendParse, ParseTypeOK
  <2>4. QED
    BY <1>a, <1>6, <2>1, <2>3 DEF SendParse, Trouble, ParseTypeOK
<1>7. ASSUME NEW g \in Pages, NEW n \in Names, NEW t \in Texts \cup {NoText}, LookForSaved(g, n, t)
      PROVE  Others
  <2>1. [at |-> "save", about |-> n] \in PageRows
    BY DEF PageRows
  <2>2. pages' \in [Pages -> PageRows]
    BY <1>a, <1>7, <2>1 DEF LookForSaved, ParseTypeOK
  <2>3. QED
    BY <1>a, <1>7, <2>2 DEF LookForSaved, ParseTypeOK
<1>8. ASSUME NEW g \in Pages, InsertSaved(g) PROVE Others
  <2>1. pages' \in [Pages -> PageRows]
    BY <1>n, <1>a, <1>8 DEF InsertSaved, Rest, ParseTypeOK
  <2>2. pages[g].about \in Names
    BY <1>8 DEF InsertSaved, ParseInv, RunsAreKnown, PageIsKnown
  <2>3. QED
    BY <1>a, <1>8, <2>1, <2>2 DEF InsertSaved, ParseTypeOK
<1>9. ASSUME NEW n \in Names, NEW m \in Names, RenameSaved(n, m) PROVE Others
  BY <1>a, <1>9 DEF RenameSaved, ParseTypeOK
<1>10. ASSUME NEW n \in Names, DeleteSaved(n) PROVE Others
  BY <1>a, <1>10 DEF DeleteSaved, ParseTypeOK
<1>11. ASSUME NEW p \in Parsers, NEW t \in Texts, TakeParse(p, t) PROVE Others
  <2>1. PICK text \in Texts \cup {NoText} : parser' = [parser EXCEPT ![p] = ParserOn(t, text)]
    BY <1>11 DEF TakeParse, ParserOn
  <2>2. parser' \in [Parsers -> ParserRows]
    BY <1>a, <2>1, ParserRowChanges DEF ParseTypeOK
  <2>3. parseQueue' \in [Texts -> Nat] /\ kept' \in [Texts -> Nat]
    BY <1>a, <1>11 DEF TakeParse, ParseTypeOK
  <2>4. QED
    BY <1>a, <1>11, <2>2, <2>3 DEF TakeParse, ParseTypeOK
<1>12. ASSUME NEW p \in Parsers, ClaimParse(p) PROVE Others
  <2>1. \/ parser' = [parser EXCEPT ![p] = NoParser]
        \/ \E at \in Working : parser' = [parser EXCEPT ![p] = ParserAt(parser[p], at)]
    BY <1>12 DEF ClaimParse, ParserAt, Working
  <2>2. parser' \in [Parsers -> ParserRows]
    BY <1>a, <2>1, ParserRowChanges DEF ParseTypeOK
  <2>3. QED
    BY <1>a, <1>12, <2>2 DEF ClaimParse, ParseTypeOK
<1>13. ASSUME NEW p \in Parsers, CallModel(p) PROVE Others
  <2>1. parser' \in [Parsers -> ParserRows]
    BY <1>a, <1>13, CallRows, ParserRowChanges DEF ParseTypeOK, Working
  <2>2. QED
    BY <1>a, <1>13, <2>1 DEF CallModel, ParseTypeOK
<1>14. ASSUME NEW p \in Parsers, EndParse(p) PROVE Others
  BY <1>n, <1>a, <1>14 DEF EndParse, ParseTypeOK
<1>15. ASSUME NEW p \in Parsers, RepeatParse(p) PROVE Others
  <2>1. parser' \in [Parsers -> ParserRows]
    BY <1>n, <1>a, <1>15 DEF RepeatParse, ParseTypeOK
  <2>2. parser[p].on \in Texts
    BY <1>15 DEF RepeatParse, ParseInv, RunsAreKnown, TaskIsKnown
  <2>3. parseQueue' \in [Texts -> Nat]
    BY <1>a, <1>15, <2>2 DEF RepeatParse, ParseTypeOK
  <2>4. QED
    BY <1>a, <1>15, <2>1, <2>3 DEF RepeatParse, Trouble, ParseTypeOK
<1>16. ASSUME PassParseTime \/ UNCHANGED parseVars PROVE Others
  BY <1>a, <1>16 DEF PassParseTime, parseVars, ParseTypeOK
<1>17. Others
  BY <1>3, <1>4, <1>5, <1>6, <1>7, <1>8, <1>9, <1>10, <1>11, <1>12, <1>13, <1>14, <1>15, <1>16
     DEF ParseNext
<1>18. QED
  BY <1>1, <1>2, <1>17 DEF ParseTypeOK

-----------------------------------------------------------------------------
(* What a task and a page come to *)

\* A task takes a message, claims its run or leaves it, calls a model, ends or begins anew.
TakenOf(p, t) == /\ parser[p].at = "idle" /\ parseQueue[t] > 0 /\ parser'[p].at = "taken"
                 /\ parser'[p].on = t
LeftOf(p) == parser'[p] = NoParser
ClaimedOf(p) ==
    /\ parser[p].at = "taken" /\ FreeToParse(parser[p].on)
    /\ parser'[p].at \in {"calling", "mismatched"} /\ parser'[p].on = parser[p].on
    /\ parser'[p].at = "calling" => parser'[p].text = parser[p].on
CalledOf(p) ==
    /\ parser[p].at = "calling" /\ parser'[p].at \in {"calling", "parsed", "exhausted"}
    /\ parser'[p].on = parser[p].on /\ parser'[p].text = parser[p].text

LEMMA TasksMove ==
    ASSUME ParseInv, [ParseNext]_parseVars
    PROVE  \/ UNCHANGED parser
           \/ \E p \in Parsers :
                /\ \A r \in Parsers \ {p} : parser'[r] = parser[r]
                /\ \/ \E t \in Texts : TakeParse(p, t) /\ TakenOf(p, t)
                   \/ ClaimParse(p) /\ ClaimedOf(p)
                   \/ ClaimParse(p) /\ ~FreeToParse(parser[p].on) /\ LeftOf(p)
                   \/ CallModel(p) /\ CalledOf(p)
                   \/ EndParse(p) /\ LeftOf(p)
                   \/ RepeatParse(p) /\ LeftOf(p)
<1>a. parser \in [Parsers -> ParserRows] /\ parses \in [Texts -> ParseRows]
  BY DEF ParseInv, ParseTypeOK
<1>1. ASSUME NEW p \in Parsers, NEW row, parser' = [parser EXCEPT ![p] = row]
      PROVE  parser'[p] = row /\ \A r \in Parsers \ {p} : parser'[r] = parser[r]
  BY <1>a, <1>1
<1>2. ASSUME NEW p \in Parsers, NEW t \in Texts, TakeParse(p, t)
      PROVE  TakenOf(p, t) /\ \A r \in Parsers \ {p} : parser'[r] = parser[r]
  <2>1. PICK text \in Texts \cup {NoText} : parser' = [parser EXCEPT ![p] = ParserOn(t, text)]
    BY <1>2 DEF TakeParse, ParserOn
  <2>2. parser[p].at = "idle" /\ parseQueue[t] > 0
    BY <1>2 DEF TakeParse
  <2>3. ParserOn(t, text).at = "taken" /\ ParserOn(t, text).on = t
    BY ParserRowChanges
  <2>4. parser'[p] = ParserOn(t, text) /\ \A r \in Parsers \ {p} : parser'[r] = parser[r]
    BY <1>1, <2>1
  <2>5. QED
    BY <2>2, <2>3, <2>4 DEF TakenOf
<1>3. ASSUME NEW p \in Parsers, ClaimParse(p)
      PROVE  /\ ClaimedOf(p) \/ (~FreeToParse(parser[p].on) /\ LeftOf(p))
             /\ \A r \in Parsers \ {p} : parser'[r] = parser[r]
  <2>1. parser[p].at = "taken" /\ parser[p] \in ParserRows
    BY <1>a, <1>3 DEF ClaimParse
  <2>2. CASE FreeToParse(parser[p].on)
    <3>1. PICK at \in {"calling", "mismatched"} :
            /\ parser' = [parser EXCEPT ![p] = ParserAt(parser[p], at)]
            /\ at = "calling" => parser[p].text = parser[p].on
      BY <1>3, <2>2 DEF ClaimParse, HashMatches, ParserAt
    <3>2. /\ ParserAt(parser[p], at).at = at /\ ParserAt(parser[p], at).on = parser[p].on
          /\ ParserAt(parser[p], at).text = parser[p].text
      BY <2>1, <3>1, ParserRowChanges DEF Working
    <3>3. QED
      BY <1>1, <2>1, <2>2, <3>1, <3>2 DEF ClaimedOf
  <2>3. CASE ~FreeToParse(parser[p].on)
    <3>1. parser' = [parser EXCEPT ![p] = NoParser]
      BY <1>3, <2>3 DEF ClaimParse
    <3>2. QED
      BY <1>1, <2>3, <3>1 DEF LeftOf
  <2>4. QED
    BY <2>2, <2>3
<1>4. ASSUME NEW p \in Parsers, CallModel(p)
      PROVE  CalledOf(p) /\ \A r \in Parsers \ {p} : parser'[r] = parser[r]
  <2>1. parser[p] \in ParserRows /\ parser[p].at = "calling"
    BY <1>a, <1>4 DEF CallModel
  <2>2. PICK at \in {"calling", "parsed", "exhausted"}, row \in ParserRows :
          /\ parser' = [parser EXCEPT ![p] = row]
          /\ row.at = at /\ row.on = parser[p].on /\ row.text = parser[p].text
    BY <1>4, <2>1, CallRows, ParserRowChanges DEF Working
  <2>3. QED
    BY <1>1, <2>1, <2>2 DEF CalledOf
<1>5. ASSUME NEW p \in Parsers, EndParse(p)
      PROVE  LeftOf(p) /\ \A r \in Parsers \ {p} : parser'[r] = parser[r]
  BY <1>1, <1>5 DEF EndParse, LeftOf
<1>6. ASSUME NEW p \in Parsers, RepeatParse(p), parser' # parser
      PROVE  LeftOf(p) /\ \A r \in Parsers \ {p} : parser'[r] = parser[r]
  BY <1>1, <1>6 DEF RepeatParse, LeftOf
<1>7. \/ \E p \in Parsers : \/ \E t \in Texts : TakeParse(p, t)
                            \/ ClaimParse(p) \/ CallModel(p) \/ EndParse(p) \/ RepeatParse(p)
      \/ UNCHANGED parser
  BY ZenonT(40) DEF ParseNext, parseVars, LookForParse, InsertParse, StoreText, SendParse, LookForSaved,
     InsertSaved, RenameSaved, DeleteSaved, PassParseTime
<1>8. QED
  BY <1>2, <1>3, <1>4, <1>5, <1>6, <1>7

-----------------------------------------------------------------------------
(* The invariant *)

LEMMA PagesAreKnownStep ==
    ASSUME ParseInv, [ParseNext]_parseVars, NEW h \in Pages PROVE PageIsKnown(h)'
<1>a. /\ pages \in [Pages -> PageRows] /\ parses \in [Texts -> ParseRows]
      /\ parseTime + ParseLease \in Nat
  BY LeasesAreTimes DEF ParseInv, ParseTypeOK
<1>b. PageIsKnown(h)
  BY DEF ParseInv, RunsAreKnown
<1>c. \A t \in Texts : Known(t) => Known(t)'
  BY KnownStays
<1>1. ASSUME pages'[h] = pages[h] PROVE PageIsKnown(h)'
  BY <1>b, <1>c, <1>1 DEF PageIsKnown, Known
<1>2. ASSUME pages'[h] = NoPage PROVE PageIsKnown(h)'
  BY <1>2 DEF PageIsKnown, NoPage
<1>3. ASSUME NEW t \in Texts, LookForParse(h, t), pages'[h] # pages[h] PROVE PageIsKnown(h)'
  <2>1. \/ pages'[h] = [at |-> "store", about |-> t] /\ SentAgain(t)
        \/ pages'[h] = [at |-> "insert", about |-> t]
    BY <1>a, <1>3 DEF LookForParse
  <2>2. SentAgain(t) => Known(t)'
    BY <1>c DEF SentAgain, Known
  <2>3. QED
    BY <2>1, <2>2 DEF PageIsKnown, Known
<1>4. ASSUME InsertParse(h), pages'[h] # NoPage PROVE PageIsKnown(h)'
  <2>1. pages[h].about \in Texts /\ parses[pages[h].about] \in ParseRows
    BY <1>a, <1>b, <1>4 DEF InsertParse, PageIsKnown
  <2>2. /\ parses' = [parses EXCEPT ![pages[h].about] =
                        Leased(@, "pending", parseTime + ParseLease)]
        /\ pages' = [pages EXCEPT ![h].at = "store"]
    BY <1>a, <1>4 DEF InsertParse, Rest, GoPage, Leased
  <2>3. parses'[pages[h].about].status = "pending"
    BY <1>a, <2>1, <2>2, ParseRowChanges
  <2>4. pages'[h].at = "store" /\ pages'[h].about = pages[h].about
    BY <1>a, <2>2 DEF PageRows
  <2>5. QED
    BY <2>1, <2>3, <2>4 DEF PageIsKnown, Known
<1>5. ASSUME StoreText(h), pages'[h] # NoPage PROVE PageIsKnown(h)'
  <2>1. pages' = [pages EXCEPT ![h].at = "send"] /\ pages[h].at = "store"
    BY <1>a, <1>5 DEF StoreText, Rest, GoPage
  <2>2. pages'[h].at = "send" /\ pages'[h].about = pages[h].about
    BY <1>a, <2>1 DEF PageRows
  <2>3. QED
    BY <1>b, <1>c, <2>1, <2>2 DEF PageIsKnown, Known
<1>6. ASSUME NEW n \in Names, NEW t \in Texts \cup {NoText}, LookForSaved(h, n, t)
      PROVE  PageIsKnown(h)'
  BY <1>a, <1>6 DEF LookForSaved, PageIsKnown
<1>7. ASSUME NEW g \in Pages \ {h}, GoPage(g, "store") \/ GoPage(g, "send") \/ Rest(g)
      PROVE  PageIsKnown(h)'
  BY <1>a, <1>1, <1>7 DEF GoPage, Rest
<1>8. ASSUME NEW g \in Pages \ {h}, NEW row, pages' = [pages EXCEPT ![g] = row]
      PROVE  PageIsKnown(h)'
  BY <1>a, <1>1, <1>8
<1>9. ASSUME Rest(h) PROVE PageIsKnown(h)'
  BY <1>a, <1>2, <1>9 DEF Rest
<1>10. ASSUME UNCHANGED pages PROVE PageIsKnown(h)'
  BY <1>1, <1>10
<1>11. ASSUME NEW g \in Pages, NEW t \in Texts, LookForParse(g, t) PROVE PageIsKnown(h)'
  BY <1>1, <1>3, <1>8, <1>11 DEF LookForParse
<1>12. ASSUME NEW g \in Pages, InsertParse(g) PROVE PageIsKnown(h)'
  <2>1. GoPage(g, "store") \/ Rest(g)
    BY <1>12 DEF InsertParse
  <2>2. QED
    BY <1>2, <1>4, <1>7, <1>12, <2>1
<1>13. ASSUME NEW g \in Pages, StoreText(g) PROVE PageIsKnown(h)'
  BY <1>2, <1>5, <1>7, <1>13 DEF StoreText
<1>14. ASSUME NEW g \in Pages, SendParse(g) \/ InsertSaved(g) PROVE PageIsKnown(h)'
  BY <1>7, <1>9, <1>14 DEF SendParse, InsertSaved
<1>15. ASSUME NEW g \in Pages, NEW n \in Names, NEW t \in Texts \cup {NoText}, LookForSaved(g, n, t)
       PROVE  PageIsKnown(h)'
  BY <1>6, <1>8, <1>15 DEF LookForSaved
<1>16. QED
  BY <1>10, <1>11, <1>12, <1>13, <1>14, <1>15
     DEF ParseNext, parseVars, RenameSaved, DeleteSaved, TakeParse, ClaimParse, CallModel, EndParse,
         RepeatParse, PassParseTime

LEMMA RunsAreKnownStep ==
    ASSUME ParseInv, [ParseNext]_parseVars PROVE RunsAreKnown'
<1>a. parseQueue \in [Texts -> Nat] /\ RunsAreKnown
  BY DEF ParseInv, ParseTypeOK
<1>b. \A t \in Texts : Known(t) => Known(t)'
  BY KnownStays
<1>1. ASSUME NEW t \in Texts, parseQueue'[t] > 0 PROVE Known(t)
  <2>1. CASE parseQueue[t] > 0
    BY <1>a, <2>1 DEF RunsAreKnown
  <2>2. CASE ~(parseQueue[t] > 0)
    <3>1. \/ \E g \in Pages : SendParse(g) /\ pages[g].about = t
          \/ \E p \in Parsers : RepeatParse(p) /\ parser[p].on = t
      BY <1>a, <1>1, <2>2
         DEF ParseNext, parseVars, LookForParse, InsertParse, StoreText, SendParse, LookForSaved,
             InsertSaved, RenameSaved, DeleteSaved, TakeParse, ClaimParse, CallModel, EndParse,
             RepeatParse, PassParseTime
    <3>2. QED
      BY <1>a, <3>1 DEF SendParse, RepeatParse, RunsAreKnown, PageIsKnown, TaskIsKnown
  <2>3. QED
    BY <2>1, <2>2
<1>2. ASSUME NEW p \in Parsers, parser'[p].at # "idle"
      PROVE  parser'[p].on \in Texts /\ Known(parser'[p].on)
  <2>1. CASE parser'[p] = parser[p]
    BY <1>a, <1>2, <2>1 DEF RunsAreKnown, TaskIsKnown
  <2>2. CASE parser'[p] # parser[p]
    <3>1. \/ \E t \in Texts : TakenOf(p, t)
          \/ ClaimedOf(p) \/ CalledOf(p) \/ LeftOf(p)
      BY <2>2, TasksMove
    <3>2. QED
      BY <1>a, <1>2, <3>1
         DEF TakenOf, ClaimedOf, CalledOf, LeftOf, NoParser, RunsAreKnown, TaskIsKnown
  <2>3. QED
    BY <2>1, <2>2
<1>3. \A p \in Parsers : TaskIsKnown(p)'
  BY <1>b, <1>2 DEF TaskIsKnown, Known
<1>4. \A t \in Texts : (parseQueue[t] > 0)' => Known(t)'
  BY <1>b, <1>1
<1>5. QED
  BY <1>3, <1>4, PagesAreKnownStep DEF RunsAreKnown

\* What a task works for keeps its row, unless it is the task that writes it.
LEMMA OthersHold ==
    ASSUME NEW r \in Parsers, TaskHolds(r), parser'[r] = parser[r], UNCHANGED parseTime,
           parser[r].at \in Working => parses'[parser[r].on] = parses[parser[r].on]
    PROVE  TaskHolds(r)'
BY DEF TaskHolds

LEMMA TasksHoldStep ==
    ASSUME ParseInv, [ParseNext]_parseVars PROVE TasksHold' /\ OneTaskCalls'
<1>a. /\ parses \in [Texts -> ParseRows] /\ parser \in [Parsers -> ParserRows]
      /\ TasksHold /\ OneTaskCalls /\ RunsAreKnown
      /\ parseTime \in Nat /\ \A t \in Texts : parses[t].lease \in Nat
  BY DEF ParseInv, ParseTypeOK, ParseRows
<1> DEFINE Goal == TasksHold' /\ OneTaskCalls'
<1>1. ASSUME NEW p \in Parsers, LeftOf(p), \A r \in Parsers \ {p} : parser'[r] = parser[r],
             UNCHANGED parseTime,
             \A r \in Parsers \ {p} :
               parser[r].at \in Working => parses'[parser[r].on] = parses[parser[r].on]
      PROVE  Goal
  <2>1. parser'[p].at = "idle"
    BY <1>1 DEF LeftOf, NoParser
  <2>2. TaskHolds(p)'
    BY <2>1, StagesOfParsers DEF TaskHolds
  <2>3. TasksHold'
    BY <1>a, <1>1, <2>2, OthersHold DEF TasksHold
  <2>4. OneTaskCalls'
    BY <1>a, <1>1, <2>1, StagesOfParsers DEF OneTaskCalls
  <2>5. QED
    BY <2>3, <2>4
<1>2. ASSUME NEW p \in Parsers, NEW t \in Texts, TakeParse(p, t), TakenOf(p, t),
             \A r \in Parsers \ {p} : parser'[r] = parser[r]
      PROVE  Goal
  <2>1. UNCHANGED <<parseTime, parses>> /\ parser'[p].at = "taken"
    BY <1>2 DEF TakeParse, TakenOf
  <2>2. TaskHolds(p)'
    BY <2>1, StagesOfParsers DEF TaskHolds
  <2>3. TasksHold'
    BY <1>a, <1>2, <2>1, <2>2, OthersHold DEF TasksHold
  <2>4. OneTaskCalls'
    BY <1>a, <1>2, <2>1, StagesOfParsers DEF OneTaskCalls
  <2>5. QED
    BY <2>3, <2>4
<1>3. ASSUME NEW p \in Parsers, ClaimParse(p), ClaimedOf(p),
             \A r \in Parsers \ {p} : parser'[r] = parser[r]
      PROVE  Goal
  <2>1. PICK t \in Texts, row \in ParseRows :
          /\ t = parser[p].on /\ parses' = [parses EXCEPT ![t] = row]
          /\ row.lease = parseTime + ParseLease /\ row.status = "running"
    BY <1>3, ClaimMoves DEF ClaimedOf, ClaimOf
  <2>2. /\ UNCHANGED parseTime /\ parser'[p].on = t /\ FreeToParse(t)
        /\ parser'[p].at \in Working
        /\ parser'[p].at \in {"calling", "parsed", "exhausted"} => parser'[p].text = t
    BY <1>3, <2>1, StagesOfParsers DEF ClaimParse, ClaimedOf
  <2>3. parses'[t] = row /\ \A u \in Texts \ {t} : parses'[u] = parses[u]
    BY <1>a, <2>1
  <2>4. ASSUME NEW r \in Parsers \ {p}, parser[r].at \in Working
        PROVE  parser[r].on \in Texts \ {t}
    BY <1>a, <2>2, <2>4 DEF TasksHold, TaskHolds, FreeToParse
  <2>5. parseTime <= parseTime + ParseLease
    BY <1>a
  <2>6. TaskHolds(p)'
    BY <2>1, <2>2, <2>3, <2>5 DEF TaskHolds
  <2>7. TasksHold'
    BY <1>a, <1>3, <2>2, <2>3, <2>4, <2>6, OthersHold DEF TasksHold
  <2>8. OneTaskCalls'
    BY <1>a, <1>3, <2>2, <2>4 DEF OneTaskCalls
  <2>9. QED
    BY <2>7, <2>8
<1>4. ASSUME NEW p \in Parsers, CallModel(p), CalledOf(p),
             \A r \in Parsers \ {p} : parser'[r] = parser[r]
      PROVE  Goal
  <2>1. UNCHANGED <<parseTime, parses>> /\ parser[p].at \in Working /\ parser'[p].at \in Working
    BY <1>4, StagesOfParsers DEF CallModel, CalledOf
  <2>2. TaskHolds(p)'
    BY <1>a, <1>4, <2>1 DEF CalledOf, TasksHold, TaskHolds
  <2>3. TasksHold'
    BY <1>a, <1>4, <2>1, <2>2, OthersHold DEF TasksHold
  <2>4. OneTaskCalls'
    BY <1>a, <1>4, <2>1 DEF OneTaskCalls, CalledOf
  <2>5. QED
    BY <2>3, <2>4
<1>5. ASSUME NEW p \in Parsers, EndParse(p), LeftOf(p),
             \A r \in Parsers \ {p} : parser'[r] = parser[r]
      PROVE  Goal
  <2>1. PICK t \in Texts, row \in ParseRows :
          t = parser[p].on /\ parses' = [parses EXCEPT ![t] = row]
    BY <1>5, EndMoves
  <2>2. parser[p].at \in Working /\ UNCHANGED parseTime
    BY <1>5, StagesOfParsers DEF EndParse
  <2>3. ASSUME NEW r \in Parsers \ {p}, parser[r].at \in Working
        PROVE  parses'[parser[r].on] = parses[parser[r].on]
    BY <1>a, <2>1, <2>2, <2>3 DEF OneTaskCalls, TasksHold, TaskHolds
  <2>4. QED
    BY <1>1, <1>5, <2>2, <2>3
<1>6. ASSUME NEW p \in Parsers, ClaimParse(p), ~FreeToParse(parser[p].on), LeftOf(p),
             \A r \in Parsers \ {p} : parser'[r] = parser[r]
      PROVE  Goal
  <2>1. UNCHANGED <<parseTime, parses>>
    BY <1>6 DEF ClaimParse
  <2>2. QED
    BY <1>1, <1>6, <2>1
<1>7. ASSUME NEW p \in Parsers, RepeatParse(p), LeftOf(p),
             \A r \in Parsers \ {p} : parser'[r] = parser[r]
      PROVE  Goal
  <2>1. UNCHANGED <<parseTime, parses>>
    BY <1>7 DEF RepeatParse
  <2>2. QED
    BY <1>1, <1>7, <2>1
<1>8. ASSUME UNCHANGED parser PROVE Goal
  <2>1. OneTaskCalls'
    BY <1>a, <1>8 DEF OneTaskCalls
  <2>2. ASSUME PassParseTime PROVE TasksHold'
    BY <1>a, <1>8, <2>2 DEF PassParseTime, TasksHold, TaskHolds
  <2>3. ASSUME ~PassParseTime PROVE TasksHold'
    <3>1. UNCHANGED parseTime
      BY <2>3 DEF ParseNext, parseVars, LookForParse, InsertParse, StoreText, SendParse,
         LookForSaved, InsertSaved, RenameSaved, DeleteSaved, TakeParse, ClaimParse, CallModel,
         EndParse, RepeatParse
    <3>2. ASSUME NEW t \in Texts, parses[t].status = "running" PROVE parses'[t] = parses[t]
      <4>1. ASSUME NEW p \in Parsers, ClaimParse(p) \/ EndParse(p) PROVE FALSE
        <5>1. parser[p].at # "idle" /\ (EndParse(p) => parser[p].at # "idle")
          BY <4>1 DEF ClaimParse, EndParse
        <5>2. parser'[p].at # parser[p].at
          BY <1>a, <4>1, <5>1, StagesOfParsers
             DEF ClaimParse, EndParse, NoParser, ParserRows
        <5>3. QED
          BY <1>8, <5>2
      <4>2. \/ \E g \in Pages : InsertParse(g)
            \/ UNCHANGED parses
        BY <4>1 DEF ParseNext, parseVars, LookForParse, StoreText, SendParse, LookForSaved,
           InsertSaved, RenameSaved, DeleteSaved, TakeParse, CallModel, RepeatParse, PassParseTime
      <4>3. ASSUME NEW g \in Pages, InsertParse(g) PROVE parses'[t] = parses[t]
        <5>1. CASE parses[pages[g].about].status # "absent"
          BY <4>3, <5>1 DEF InsertParse
        <5>2. CASE parses[pages[g].about].status = "absent"
          BY <1>a, <3>2, <4>3, <5>2, InsertMoves
        <5>3. QED
          BY <5>1, <5>2
      <4>4. QED
        BY <4>2, <4>3
    <3>3. QED
      BY SMTT(30), <1>a, <1>8, <3>1, <3>2, OthersHold DEF TasksHold, TaskHolds
  <2>4. QED
    BY <2>1, <2>2, <2>3
<1>9. QED
  BY <1>1, <1>2, <1>3, <1>4, <1>5, <1>6, <1>7, <1>8, TasksMove

LEMMA SureAreKeptStep ==
    ASSUME ParseInv, [ParseNext]_parseVars PROVE SureAreKept'
<1>a. /\ parses \in [Texts -> ParseRows] /\ parser \in [Parsers -> ParserRows]
      /\ parseQueue \in [Texts -> Nat] /\ sure \subseteq Texts
      /\ SureAreKept /\ RunsAreKnown /\ TasksHold
  BY DEF ParseInv, ParseTypeOK
<1> DEFINE Fine(t) == /\ parses'[t].status # "absent"
                      /\ parses'[t].status = "pending" => OnItsWay(t)'
<1>1. ASSUME NEW t \in sure, UNCHANGED <<parses, parseQueue, parser>> PROVE Fine(t)
  BY <1>a, <1>1 DEF SureAreKept, OnItsWay
<1>2. ASSUME NEW g \in Pages, NEW t \in Texts, LookForParse(g, t) PROVE SureAreKept'
  <2>1. UNCHANGED <<parses, parseQueue, parser>>
    BY <1>2 DEF LookForParse
  <2>2. ASSUME NEW u \in sure' PROVE Fine(u)
    BY <1>1, <1>2, <2>1 DEF LookForParse, SentAgain
  <2>3. QED
    BY <2>2 DEF SureAreKept
<1>3. ASSUME NEW g \in Pages, InsertParse(g) PROVE SureAreKept'
  <2>1. UNCHANGED <<parseQueue, parser, sure>>
    BY <1>3 DEF InsertParse
  <2>2. \A u \in sure : parses'[u] = parses[u]
    <3>1. CASE parses[pages[g].about].status # "absent"
      BY <1>3, <3>1 DEF InsertParse
    <3>2. CASE parses[pages[g].about].status = "absent"
      BY <1>a, <1>3, <3>2, InsertMoves DEF SureAreKept
    <3>3. QED
      BY <3>1, <3>2
  <2>3. QED
    BY <1>a, <2>1, <2>2 DEF SureAreKept, OnItsWay
<1>4. ASSUME NEW g \in Pages, SendParse(g) PROVE SureAreKept'
  <2>1. UNCHANGED <<parses, parser>> /\ sure' \subseteq sure \cup {pages[g].about}
    BY <1>4 DEF SendParse
  <2>2. pages[g].about \in Texts /\ Known(pages[g].about)
    BY <1>a, <1>4 DEF SendParse, RunsAreKnown, PageIsKnown
  <2>3. \A u \in Texts : parseQueue[u] > 0 => parseQueue'[u] > 0
    BY <1>a, <1>4, <2>2 DEF SendParse
  <2>4. pages[g].about \in sure' => pages[g].about \in sure \/ parseQueue'[pages[g].about] > 0
    BY <1>a, <1>4, <2>2 DEF SendParse
  <2>5. ASSUME NEW u \in sure' PROVE Fine(u)
    <3>1. CASE u \in sure
      BY <1>a, <2>1, <2>3, <3>1 DEF SureAreKept, OnItsWay
    <3>2. CASE u \notin sure
      BY <2>1, <2>2, <2>4, <3>2 DEF OnItsWay, Known
    <3>3. QED
      BY <3>1, <3>2
  <2>6. QED
    BY <2>5 DEF SureAreKept
<1>5. ASSUME NEW p \in Parsers, NEW t \in Texts, TakeParse(p, t), TakenOf(p, t),
             \A r \in Parsers \ {p} : parser'[r] = parser[r]
      PROVE  SureAreKept'
  <2>1. UNCHANGED <<parses, sure>> /\ \A u \in Texts \ {t} : parseQueue'[u] = parseQueue[u]
    BY <1>a, <1>5 DEF TakeParse
  <2>2. parser[p].at # "taken" /\ parser'[p].at = "taken" /\ parser'[p].on = t
    BY <1>5 DEF TakenOf
  <2>3. ASSUME NEW u \in sure PROVE Fine(u)
    <3>1. CASE u = t
      BY <1>a, <2>1, <2>2, <3>1 DEF SureAreKept, OnItsWay
    <3>2. CASE u # t
      BY <1>a, <1>5, <2>1, <2>2, <3>2 DEF SureAreKept, OnItsWay
    <3>3. QED
      BY <3>1, <3>2
  <2>4. QED
    BY <2>1, <2>3 DEF SureAreKept
<1>6. ASSUME NEW p \in Parsers, parser[p].at = "taken" => parses'[parser[p].on].status # "pending",
             \A r \in Parsers \ {p} : parser'[r] = parser[r], UNCHANGED <<parseQueue, sure>>,
             \A u \in Texts : /\ parses'[u].status = "pending" => parses[u].status = "pending"
                              /\ parses[u].status # "absent" => parses'[u].status # "absent"
      PROVE  SureAreKept'
  <2>1. ASSUME NEW u \in sure PROVE Fine(u)
    <3>1. parses'[u].status # "absent"
      BY <1>a, <1>6 DEF SureAreKept
    <3>2. ASSUME parses'[u].status = "pending" PROVE OnItsWay(u)'
      <4>1. OnItsWay(u)
        BY <1>a, <1>6, <3>2 DEF SureAreKept
      <4>2. QED
        BY <1>6, <3>2, <4>1 DEF OnItsWay
    <3>3. QED
      BY <3>1, <3>2
  <2>2. QED
    BY <1>6, <2>1 DEF SureAreKept
<1>7. ASSUME NEW p \in Parsers, ClaimParse(p), \A r \in Parsers \ {p} : parser'[r] = parser[r]
      PROVE  SureAreKept'
  <2>1. parser[p].on \in Texts /\ UNCHANGED <<parseQueue, sure>>
    BY <1>a, <1>7 DEF ClaimParse, RunsAreKnown, TaskIsKnown
  <2>2. CASE FreeToParse(parser[p].on)
    <3>1. PICK t \in Texts, row \in ParseRows :
            t = parser[p].on /\ parses' = [parses EXCEPT ![t] = row] /\ ClaimOf(t, row)
      BY <1>7, <2>2, ClaimMoves
    <3>2. QED
      BY <1>a, <1>6, <1>7, <2>1, <3>1 DEF ClaimOf
  <2>3. CASE ~FreeToParse(parser[p].on)
    <3>1. UNCHANGED parses /\ parses[parser[p].on].status # "pending"
      BY <1>7, <2>3 DEF ClaimParse, FreeToParse
    <3>2. QED
      BY <1>6, <1>7, <2>1, <3>1
  <2>4. QED
    BY <2>2, <2>3
<1>8. ASSUME NEW p \in Parsers, CallModel(p), \A r \in Parsers \ {p} : parser'[r] = parser[r]
      PROVE  SureAreKept'
  <2>1. parser[p].at # "taken" /\ UNCHANGED <<parses, parseQueue, sure>>
    BY <1>8 DEF CallModel
  <2>2. QED
    BY <1>6, <1>8, <2>1
<1>9. ASSUME NEW p \in Parsers, EndParse(p), \A r \in Parsers \ {p} : parser'[r] = parser[r]
      PROVE  SureAreKept'
  <2>1. parser[p].at # "taken" /\ UNCHANGED <<parseQueue, sure>>
    BY <1>9 DEF EndParse
  <2>2. PICK t \in Texts, row \in ParseRows :
          parses' = [parses EXCEPT ![t] = row] /\ EndOf(t, row)
    BY <1>9, EndMoves
  <2>3. QED
    BY <1>a, <1>6, <1>9, <2>1, <2>2 DEF EndOf
<1>10. ASSUME NEW p \in Parsers, RepeatParse(p) PROVE SureAreKept'
  <2>1. /\ UNCHANGED <<parses, sure>> /\ parser[p].on \in Texts
        /\ parseQueue' = [parseQueue EXCEPT ![parser[p].on] = @ + 1]
        /\ parser' \in {parser, [parser EXCEPT ![p] = NoParser]}
    BY <1>a, <1>10 DEF RepeatParse, RunsAreKnown, TaskIsKnown
  <2>2. /\ \A r \in Parsers \ {p} : parser'[r] = parser[r]
        /\ parseQueue'[parser[p].on] > 0
        /\ \A u \in Texts : parseQueue[u] > 0 => parseQueue'[u] > 0
    BY <1>a, <2>1
  <2>3. ASSUME NEW u \in sure PROVE Fine(u)
    BY <1>a, <2>1, <2>2 DEF SureAreKept, OnItsWay
  <2>4. QED
    BY <2>1, <2>3 DEF SureAreKept
<1>11. ASSUME UNCHANGED <<parses, parseQueue, parser, sure>> PROVE SureAreKept'
  BY <1>1, <1>11 DEF SureAreKept
<1>12. \/ \E g \in Pages : \/ \E t \in Texts : LookForParse(g, t)
                           \/ InsertParse(g) \/ SendParse(g)
       \/ \E p \in Parsers : \/ \E t \in Texts : TakeParse(p, t)
                             \/ ClaimParse(p) \/ CallModel(p) \/ EndParse(p) \/ RepeatParse(p)
       \/ UNCHANGED <<parses, parseQueue, parser, sure>>
  BY DEF ParseNext, parseVars, StoreText, LookForSaved, InsertSaved, RenameSaved, DeleteSaved,
     PassParseTime
<1>13. CASE UNCHANGED parser
  <2>1. ASSUME NEW p \in Parsers, NEW t \in Texts, TakeParse(p, t) PROVE FALSE
    <3>1. PICK text \in Texts \cup {NoText} : parser' = [parser EXCEPT ![p] = ParserOn(t, text)]
      BY <2>1 DEF TakeParse, ParserOn
    <3>2. parser'[p] = ParserOn(t, text) /\ parser[p].at = "idle"
      BY <1>a, <2>1, <3>1 DEF TakeParse
    <3>3. QED
      BY <1>13, <3>2, ParserRowChanges
  <2>2. QED
    BY <1>2, <1>3, <1>4, <1>7, <1>8, <1>9, <1>10, <1>11, <1>12, <1>13, <2>1
<1>14. CASE ~UNCHANGED parser
  BY <1>5, <1>7, <1>8, <1>9, <1>10, <1>14, TasksMove
<1>15. QED
  BY <1>13, <1>14

\* What the invariant says is kept by every step of pages, tasks, the queue and the clock.
THEOREM ParseSafe == ParseSpec => []ParseInv
<1>1. ParseInv /\ [ParseNext]_parseVars => ParseInv'
  <2> SUFFICES ASSUME ParseInv, [ParseNext]_parseVars PROVE ParseInv'
    OBVIOUS
  <2>1. QED
    BY ParseTypeStep, RunsAreKnownStep, TasksHoldStep, AnswersFitStep, SureAreKeptStep DEF ParseInv
<1>2. QED
  BY ParseInitInv, <1>1, PTL DEF ParseSpec

-----------------------------------------------------------------------------
(* What holds in every state and of every step *)

\* The rows of runs, pages and tasks keep their types, and what asks for advice is never let to a
\* worker (screening/natural_language.py, create_run).
THEOREM ParseTypeCorrect == ParseSpec => []ParseTypeOK
<1>1. ParseInv => ParseTypeOK
  BY DEF ParseInv
<1>2. QED
  BY ParseSafe, <1>1, PTL

\* However many messages a run has and however often they are repeated, one task at a time calls
\* models for it.
THEOREM OneTaskAtATime == ParseSpec => []OneTaskCalls
<1>1. ParseInv => OneTaskCalls
  BY DEF ParseInv
<1>2. QED
  BY ParseSafe, <1>1, PTL

\* A run that succeeds has parsed its own text: a task whose words are gone fails it.
THEOREM ItsOwnText == ParseSpec => []ParsedIsItsText
<1>1. ParseInv => ParsedIsItsText
  BY DEF ParseInv, AnswersFit, AnswerFits, ParsedIsItsText
<1>2. QED
  BY ParseSafe, <1>1, PTL

\* A user who has been told that a run is accepted finds a message on its way for as long as it is
\* pending, as a second request enqueues it again (screening/routes.py).
THEOREM Accepted == ParseSpec => []AcceptedIsOnItsWay
<1>1. ParseInv => AcceptedIsOnItsWay
  BY DEF ParseInv, SureAreKept, OnItsWay, AcceptedIsOnItsWay
<1>2. QED
  BY ParseSafe, <1>1, PTL

\* No late or second task writes over what has become of a run.
THEOREM SettledStays == ParseSpec => SettledParseStays
<1>1. ParseInv /\ [ParseNext]_parseVars
        => \A t \in Texts : parses[t].status \in SettledParse => parses'[t] = parses[t]
  <2> SUFFICES ASSUME ParseInv, [ParseNext]_parseVars, NEW t \in Texts,
                      parses[t].status \in SettledParse
               PROVE  parses'[t] = parses[t]
    OBVIOUS
  <2>1. parses \in [Texts -> ParseRows]
    BY DEF ParseInv, ParseTypeOK
  <2>2. QED
    BY <2>1, RunsMove DEF SettledParse, InsertOf, ClaimOf, EndOf
<1>2. QED
  BY ParseSafe, <1>1, PTL DEF ParseSpec, SettledParseStays

-----------------------------------------------------------------------------
(* The orders that the parsing answers *)

ParseOrder == [t \in Texts |-> ParsePhase(parses[t].status)]
ParseAnswer == [t \in Texts |-> parses[t].of]

LEMMA ParseOrdersInit == ParseInit => ParseOrders!OrdersInit
BY DEF ParseInit, NoParse, ParsePhase, ParseOrders!OrdersInit

LEMMA OneParseChanges ==
    ASSUME NEW t \in Texts, NEW row \in ParseRows, parses \in [Texts -> ParseRows],
           parses' = [parses EXCEPT ![t] = row]
    PROVE  /\ ParseOrder' = [ParseOrder EXCEPT ![t] = ParsePhase(row.status)]
           /\ ParseAnswer' = [ParseAnswer EXCEPT ![t] = row.of]
           /\ ParseOrder[t] = ParsePhase(parses[t].status)
           /\ row.of = parses[t].of => UNCHANGED ParseAnswer
           /\ ParsePhase(row.status) = ParsePhase(parses[t].status) => UNCHANGED ParseOrder
BY DEF ParseOrder, ParseAnswer

LEMMA ParseOrdersStep ==
    ParseInv /\ [ParseNext]_parseVars => [ParseOrders!OrdersNext]_(ParseOrders!orderVars)
<1> DEFINE Goal == ParseOrders!OrdersNext \/ UNCHANGED ParseOrders!orderVars
<1> SUFFICES ASSUME ParseInv, [ParseNext]_parseVars PROVE Goal
  OBVIOUS
<1>a. parses \in [Texts -> ParseRows] /\ AnswersFit
  BY DEF ParseInv, ParseTypeOK
<1>1. ASSUME UNCHANGED parses PROVE Goal
  BY <1>1 DEF ParseOrders!orderVars
<1>2. ASSUME NEW t \in Texts, NEW row \in ParseRows, parses' = [parses EXCEPT ![t] = row],
             InsertOf(t, row)
      PROVE  Goal
  <2>1. UNCHANGED ParseAnswer /\ ParseOrder[t] = "new"
    BY <1>a, <1>2, OneParseChanges DEF InsertOf, ParsePhase
  <2>2. \/ ParseOrder' = [ParseOrder EXCEPT ![t] = "open"]
        \/ ParseOrder' = [ParseOrder EXCEPT ![t] = "declined"]
    BY <1>a, <1>2, OneParseChanges DEF InsertOf, ParsePhase
  <2>3. ParseOrders!TakeUp(t) \/ ParseOrders!Decline(t)
    BY <2>1, <2>2
       DEF ParseOrders!TakeUp, ParseOrders!Decline, ParseOrders!Becomes, ParseOrder, ParseAnswer
  <2>4. QED
    BY <2>3 DEF ParseOrders!OrdersNext
<1>3. ASSUME NEW t \in Texts, NEW row \in ParseRows, parses' = [parses EXCEPT ![t] = row],
             ClaimOf(t, row)
      PROVE  Goal
  <2>1. UNCHANGED ParseAnswer /\ UNCHANGED ParseOrder
    BY <1>a, <1>3, OneParseChanges DEF ClaimOf, ParsePhase
  <2>2. QED
    BY <2>1 DEF ParseOrders!orderVars, ParseOrder, ParseAnswer
<1>4. ASSUME NEW t \in Texts, NEW row \in ParseRows, parses' = [parses EXCEPT ![t] = row],
             EndOf(t, row), row.status = "succeeded"
      PROVE  Goal
  <2>1. /\ ParseOrder[t] = "open" /\ ParseOrder' = [ParseOrder EXCEPT ![t] = "answered"]
        /\ ParseAnswer' = [ParseAnswer EXCEPT ![t] = t]
    <3>1. parses[t].status = "running" /\ row.of = t
      BY <1>4 DEF EndOf
    <3>2. ParsePhase(parses[t].status) = "open" /\ ParsePhase(row.status) = "answered"
      BY <1>4, <3>1 DEF ParsePhase
    <3>3. QED
      BY <1>a, <1>4, <3>1, <3>2, OneParseChanges
  <2>2. ParseOrders!Answer(t, t)
    BY <2>1 DEF ParseOrders!Answer, ParseOrders!Becomes, ParseOrder, ParseAnswer
  <2>3. QED
    BY <2>2 DEF ParseOrders!OrdersNext
<1>5. ASSUME NEW t \in Texts, NEW row \in ParseRows, parses' = [parses EXCEPT ![t] = row],
             EndOf(t, row), row.status = "failed"
      PROVE  Goal
  <2>1. row.of = parses[t].of
    BY <1>a, <1>5 DEF EndOf, AnswersFit, AnswerFits
  <2>2. /\ ParseOrder[t] = "open" /\ ParseOrder' = [ParseOrder EXCEPT ![t] = "failed"]
        /\ UNCHANGED ParseAnswer
    BY <1>a, <1>5, <2>1, OneParseChanges DEF EndOf, ParsePhase
  <2>3. ParseOrders!GiveItUp(t)
    BY <2>2 DEF ParseOrders!GiveItUp, ParseOrders!Becomes, ParseOrder, ParseAnswer
  <2>4. QED
    BY <2>3 DEF ParseOrders!OrdersNext
<1>6. QED
  BY <1>1, <1>2, <1>3, <1>4, <1>5, RunsMove DEF EndOf

\* Queues, leases and expiring words implement the plain promise: a text is parsed at most once,
\* into what it says, and what has become of its run stays.
THEOREM ParseImplementsOrders == ParseSpec => ParsesAreOrderly
<1>1. QED
  BY ParseOrdersInit, ParseOrdersStep, ParseSafe, PTL
     DEF ParseSpec, ParsesAreOrderly, ParseOrders!OrdersSpec

-----------------------------------------------------------------------------
(* The limits, which are checked before the insert and not held *)

WaitingFor(at) == {g \in Pages : pages[g].at = at}

\* Whoever waits for an insert has seen room for it, at a time when there may have been others
\* waiting: all pages but one beside it.
RoomIsLeft ==
    /\ Cardinality(Counted) + Cardinality(WaitingFor("insert"))
         <= ParsesDaily + Cardinality(Pages) - 1
    /\ IsFiniteSet(saved)
    /\ Cardinality(saved) + Cardinality(WaitingFor("save"))
         <= SavedLimit + Cardinality(Pages) - 1

LEMMA Numbers ==
    /\ IsFiniteSet(Pages) /\ Cardinality(Pages) \in Nat
    /\ \A at : IsFiniteSet(WaitingFor(at)) /\ Cardinality(WaitingFor(at)) \in Nat
    /\ \A S : S \subseteq Pages =>
         IsFiniteSet(S) /\ Cardinality(S) \in Nat /\ Cardinality(S) <= Cardinality(Pages)
    /\ IsFiniteSet(Counted) /\ Cardinality(Counted) \in Nat
    /\ ParsesDaily \in Nat \ {0} /\ SavedLimit \in Nat \ {0}
<1>1. /\ IsFiniteSet(Texts) /\ IsFiniteSet(Pages)
      /\ ParsesDaily \in Nat \ {0} /\ SavedLimit \in Nat \ {0}
  BY ParseAssumption
<1>2. \A S : S \subseteq Pages =>
        IsFiniteSet(S) /\ Cardinality(S) \in Nat /\ Cardinality(S) <= Cardinality(Pages)
  BY <1>1, FS_Subset, FS_CardinalityType
<1>3. IsFiniteSet(Counted) /\ Cardinality(Counted) \in Nat
  <2>1. Counted \subseteq Texts
    BY DEF Counted
  <2>2. QED
    BY <1>1, <2>1, FS_Subset, FS_CardinalityType
<1>4. \A at : WaitingFor(at) \subseteq Pages
  BY DEF WaitingFor
<1>5. Pages \subseteq Pages
  OBVIOUS
<1>6. QED
  BY <1>1, <1>2, <1>3, <1>4, <1>5

\* A page comes to wait for an insert only by looking.
LEMMA WaitersHaveLooked ==
    ASSUME ParseInv, [ParseNext]_parseVars, NEW h \in Pages,
           NEW at \in {"insert", "save"}, pages'[h].at = at, pages[h].at # at
    PROVE  \/ /\ at = "insert"
              /\ \E t \in Texts : LookForParse(h, t) /\ WithinLimits
           \/ /\ at = "save"
              /\ \E n \in Names, t \in Texts \cup {NoText} : LookForSaved(h, n, t)
<1>a. pages \in [Pages -> PageRows]
  BY DEF ParseInv, ParseTypeOK
<1>1. ASSUME NEW g \in Pages, GoPage(g, "store") \/ GoPage(g, "send") \/ Rest(g) PROVE FALSE
  <2>1. \A next \in {"store", "send"} : [pages[g] EXCEPT !.at = next].at = next
    BY <1>a DEF PageRows
  <2>2. NoPage.at = "idle"
    BY DEF NoPage
  <2>3. pages'[g].at \in {"store", "send", "idle"} /\ (g # h => pages'[h] = pages[h])
    BY <1>1, <1>a, <2>1, <2>2 DEF GoPage, Rest
  <2>4. QED
    BY <2>3
<1>2. UNCHANGED pages => FALSE
  OBVIOUS
<1>3. PICK g \in Pages :
        \/ \E t \in Texts : LookForParse(g, t)
        \/ \E n \in Names, t \in Texts \cup {NoText} : LookForSaved(g, n, t)
  BY <1>1, <1>2 DEF ParseNext, parseVars, InsertParse, StoreText, SendParse, InsertSaved, RenameSaved,
     DeleteSaved, TakeParse, ClaimParse, CallModel, EndParse, RepeatParse, PassParseTime
<1>4. ASSUME NEW t \in Texts, LookForParse(g, t)
      PROVE  g = h /\ at = "insert" /\ WithinLimits
  BY <1>a, <1>4 DEF LookForParse
<1>5. ASSUME NEW n \in Names, NEW t \in Texts \cup {NoText}, LookForSaved(g, n, t)
      PROVE  g = h /\ at = "save"
  BY <1>a, <1>5 DEF LookForSaved
<1>6. QED
  BY <1>3, <1>4, <1>5

\* The runs of the day and the requests that are about to make one.
LEMMA CountedHasRoom ==
    ASSUME ParseInv, RoomIsLeft, [ParseNext]_parseVars
    PROVE  (Cardinality(Counted) + Cardinality(WaitingFor("insert"))
              <= ParsesDaily + Cardinality(Pages) - 1)'
<1> DEFINE before == WaitingFor("insert")
           after == WaitingFor("insert")'
           seen == Counted
           now == Counted'
<1>a. /\ parses \in [Texts -> ParseRows] /\ pages \in [Pages -> PageRows]
      /\ Cardinality(seen) + Cardinality(before) <= ParsesDaily + Cardinality(Pages) - 1
  BY DEF ParseInv, ParseTypeOK, RoomIsLeft
<1>b. /\ after \subseteq Pages /\ Cardinality(seen) \in Nat /\ Cardinality(before) \in Nat
      /\ Cardinality(after) \in Nat /\ Cardinality(after) <= Cardinality(Pages)
      /\ Cardinality(Pages) \in Nat /\ ParsesDaily \in Nat
      /\ IsFiniteSet(before) /\ IsFiniteSet(seen) /\ IsFiniteSet(after)
  <2>1. after \subseteq Pages
    BY DEF WaitingFor
  <2>2. QED
    BY <2>1, Numbers
<1>1. ASSUME NEW g \in Pages, InsertParse(g), parses[pages[g].about].status = "absent"
      PROVE  Cardinality(now) + Cardinality(after) <= ParsesDaily + Cardinality(Pages) - 1
  <2>1. PICK t \in Texts, row \in ParseRows :
          parses' = [parses EXCEPT ![t] = row] /\ InsertOf(t, row)
    BY <1>1, InsertMoves
  <2>2. now = seen \cup {t} /\ t \notin seen
    BY <1>a, <2>1 DEF Counted, InsertOf
  <2>3. g \in before /\ g \notin after
    <3>1. /\ [pages[g] EXCEPT !.at = "store"].at = "store" /\ NoPage.at = "idle"
          /\ pages[g].at = "insert"
      BY <1>1, <1>a DEF PageRows, NoPage, InsertParse
    <3>2. pages' = [pages EXCEPT ![g].at = "store"] \/ pages' = [pages EXCEPT ![g] = NoPage]
      BY <1>1 DEF InsertParse, GoPage, Rest
    <3>3. QED
      BY <1>a, <3>1, <3>2 DEF WaitingFor
  <2>4. after \subseteq before \ {g}
    <3>1. ASSUME NEW h \in after, h \notin before PROVE FALSE
      <4>1. h \in Pages /\ pages'[h].at = "insert" /\ pages[h].at # "insert"
        BY <3>1 DEF WaitingFor
      <4>2. PICK u \in Texts : LookForParse(h, u)
        BY <4>1, WaitersHaveLooked
      <4>3. QED
        BY <1>a, <2>1, <4>2 DEF LookForParse, InsertOf
    <3>2. QED
      BY <2>3, <3>1
  <2>5. Cardinality(now) = Cardinality(seen) + 1
    BY <1>b, <2>2, FS_AddElement
  <2>6. Cardinality(before \ {g}) = Cardinality(before) - 1 /\ IsFiniteSet(before \ {g})
    BY <1>b, <2>3, FS_RemoveElement
  <2>7. Cardinality(after) <= Cardinality(before) - 1
    BY <2>4, <2>6, FS_Subset
  <2>8. QED
    BY <1>a, <1>b, <2>5, <2>7
<1>2. ASSUME ~\E g \in Pages : InsertParse(g) /\ parses[pages[g].about].status = "absent"
      PROVE  now = seen
  <2>1. UNCHANGED parses \/ \E t \in Texts, row \in ParseRows :
          parses' = [parses EXCEPT ![t] = row] /\ (ClaimOf(t, row) \/ EndOf(t, row))
    <3>1. ASSUME NEW g \in Pages, InsertParse(g) PROVE UNCHANGED parses
      BY <1>2, <3>1 DEF InsertParse
    <3>2. ASSUME NEW p \in Parsers, ClaimParse(p), ~FreeToParse(parser[p].on)
          PROVE  UNCHANGED parses
      BY <3>2 DEF ClaimParse
    <3>3. \/ \E g \in Pages : InsertParse(g)
          \/ \E p \in Parsers : ClaimParse(p) \/ EndParse(p)
          \/ UNCHANGED parses
      BY DEF ParseNext, parseVars, LookForParse, StoreText, SendParse, LookForSaved, InsertSaved,
         RenameSaved, DeleteSaved, TakeParse, CallModel, RepeatParse, PassParseTime
    <3>4. QED
      BY <3>1, <3>2, <3>3, ClaimMoves, EndMoves
  <2>2. QED
    BY <1>a, <2>1 DEF Counted, ClaimOf, EndOf
<1>3. ASSUME NEW h \in after, h \notin before
      PROVE  Cardinality(now) + Cardinality(after) <= ParsesDaily + Cardinality(Pages) - 1
  <2>1. h \in Pages /\ pages'[h].at = "insert" /\ pages[h].at # "insert"
    BY <1>3 DEF WaitingFor
  <2>2. PICK u \in Texts : LookForParse(h, u) /\ WithinLimits
    BY <2>1, WaitersHaveLooked
  <2>3. now = seen /\ Cardinality(seen) < ParsesDaily
    BY <2>2 DEF LookForParse, WithinLimits, Counted
  <2>4. QED
    BY <1>b, <2>3
<1>4. ASSUME now = seen, after \subseteq before
      PROVE  Cardinality(now) + Cardinality(after) <= ParsesDaily + Cardinality(Pages) - 1
  <2>1. Cardinality(after) <= Cardinality(before)
    BY <1>b, <1>4, FS_Subset
  <2>2. QED
    BY <1>a, <1>b, <1>4, <2>1
<1>5. QED
  BY <1>1, <1>2, <1>3, <1>4

\* The saved screens and the requests that are about to save one.
LEMMA SavedHasRoom ==
    ASSUME ParseInv, RoomIsLeft, [ParseNext]_parseVars
    PROVE  /\ IsFiniteSet(saved')
           /\ (Cardinality(saved) + Cardinality(WaitingFor("save"))
                 <= SavedLimit + Cardinality(Pages) - 1)'
<1> DEFINE before == WaitingFor("save")
           after == WaitingFor("save")'
           Goal == /\ IsFiniteSet(saved')
                   /\ Cardinality(saved') + Cardinality(after)
                        <= SavedLimit + Cardinality(Pages) - 1
<1>a. /\ pages \in [Pages -> PageRows] /\ IsFiniteSet(saved)
      /\ Cardinality(saved) + Cardinality(before) <= SavedLimit + Cardinality(Pages) - 1
  BY DEF ParseInv, ParseTypeOK, RoomIsLeft
<1>b. /\ Cardinality(saved) \in Nat /\ Cardinality(before) \in Nat
      /\ Cardinality(after) \in Nat /\ Cardinality(after) <= Cardinality(Pages)
      /\ Cardinality(Pages) \in Nat /\ SavedLimit \in Nat
      /\ IsFiniteSet(before) /\ IsFiniteSet(after)
  <2>1. after \subseteq Pages
    BY DEF WaitingFor
  <2>2. QED
    BY <1>a, <2>1, Numbers, FS_CardinalityType
<1>1. ASSUME NEW h \in after, h \notin before PROVE Goal
  <2>1. h \in Pages /\ pages'[h].at = "save" /\ pages[h].at # "save"
    BY <1>1 DEF WaitingFor
  <2>2. PICK n \in Names, t \in Texts \cup {NoText} : LookForSaved(h, n, t)
    BY <2>1, WaitersHaveLooked
  <2>3. UNCHANGED saved /\ Cardinality(saved) < SavedLimit
    BY <2>2 DEF LookForSaved
  <2>4. QED
    BY <1>a, <1>b, <2>3
<1>2. ASSUME NEW g \in Pages, InsertSaved(g), after \subseteq before PROVE Goal
  <2>1. g \in before /\ g \notin after /\ saved' = saved \cup {pages[g].about}
    <3>1. NoPage.at = "idle"
      BY DEF NoPage
    <3>2. QED
      BY <1>a, <1>2, <3>1 DEF InsertSaved, Rest, WaitingFor
  <2>2. Cardinality(before \ {g}) = Cardinality(before) - 1 /\ IsFiniteSet(before \ {g})
    BY <1>b, <2>1, FS_RemoveElement
  <2>3. after \subseteq before \ {g}
    BY <1>2, <2>1
  <2>4. Cardinality(after) <= Cardinality(before) - 1
    BY <2>2, <2>3, FS_Subset
  <2>5. /\ IsFiniteSet(saved')
        /\ Cardinality(saved') \in {Cardinality(saved), Cardinality(saved) + 1}
    BY <1>a, <2>1, FS_AddElement
  <2>6. QED
    BY <1>a, <1>b, <2>4, <2>5
<1>3. ASSUME IsFiniteSet(saved'), Cardinality(saved') <= Cardinality(saved), after \subseteq before
      PROVE  Goal
  <2>1. Cardinality(after) <= Cardinality(before)
    BY <1>b, <1>3, FS_Subset
  <2>2. Cardinality(saved') \in Nat
    BY <1>3, FS_CardinalityType
  <2>3. QED
    BY <1>a, <1>b, <1>3, <2>1, <2>2
<1>4. ASSUME NEW n \in Names, NEW m \in Names, RenameSaved(n, m), after \subseteq before PROVE Goal
  <2>1. n \in saved /\ m \notin saved /\ saved' = (saved \ {n}) \cup {m}
    BY <1>4 DEF RenameSaved
  <2>2. /\ IsFiniteSet(saved \ {n}) /\ Cardinality(saved \ {n}) = Cardinality(saved) - 1
        /\ m \notin saved \ {n}
    BY <1>a, <2>1, FS_RemoveElement
  <2>3. IsFiniteSet(saved') /\ Cardinality(saved') = (Cardinality(saved) - 1) + 1
    BY <2>1, <2>2, FS_AddElement
  <2>4. QED
    BY <1>3, <1>4, <1>b, <2>3
<1>5. ASSUME NEW n \in Names, DeleteSaved(n), after \subseteq before PROVE Goal
  <2>1. saved' \subseteq saved
    BY <1>5 DEF DeleteSaved
  <2>2. QED
    BY <1>3, <1>5, <1>a, <2>1, FS_Subset
<1>6. ASSUME UNCHANGED saved, after \subseteq before PROVE Goal
  BY SMTT(30), <1>3, <1>6, <1>a, <1>b
<1>7. \/ \E g \in Pages : InsertSaved(g)
      \/ \E n, m \in Names : RenameSaved(n, m)
      \/ \E n \in Names : DeleteSaved(n)
      \/ UNCHANGED saved
  BY DEF ParseNext, parseVars, LookForParse, InsertParse, StoreText, SendParse, LookForSaved,
     TakeParse, ClaimParse, CallModel, EndParse, RepeatParse, PassParseTime
<1>8. Goal
  BY <1>1, <1>2, <1>4, <1>5, <1>6, <1>7
<1>9. QED
  BY <1>8

\* The limits of a day and of the saved screens are counted before the insert and nothing is
\* locked: they are passed by fewer runs and screens than there are requests at a time.
THEOREM Overshoot == ParseSpec => []OvershootIsBounded
<1>1. ParseInit => RoomIsLeft
  <2> SUFFICES ASSUME ParseInit PROVE RoomIsLeft
    OBVIOUS
  <2>1. Counted = {} /\ saved = {} /\ WaitingFor("insert") = {} /\ WaitingFor("save") = {}
    BY DEF ParseInit, NoParse, NoPage, Counted, WaitingFor
  <2>2. QED
    BY <2>1, Numbers, FS_EmptySet DEF RoomIsLeft
<1>2. ParseInv /\ RoomIsLeft /\ [ParseNext]_parseVars => RoomIsLeft'
  <2> SUFFICES ASSUME ParseInv, RoomIsLeft, [ParseNext]_parseVars PROVE RoomIsLeft'
    OBVIOUS
  <2>1. QED
    BY CountedHasRoom, SavedHasRoom DEF RoomIsLeft
<1>3. RoomIsLeft => OvershootIsBounded
  <2> SUFFICES ASSUME RoomIsLeft PROVE OvershootIsBounded
    OBVIOUS
  <2>1. Cardinality(saved) \in Nat
    BY FS_CardinalityType DEF RoomIsLeft
  <2>2. QED
    BY <2>1, Numbers DEF RoomIsLeft, OvershootIsBounded
<1>4. QED
  BY ParseSafe, <1>1, <1>2, <1>3, PTL DEF ParseSpec

-----------------------------------------------------------------------------
(* The research that AI writes *)


\* A task that works for a run, and one that is about to take it, began no longer than a lease
\* ago; the lease is that of the task that works for the run.
LeaseIsHeld(w) ==
    /\ writer[w].at \in Busy \cup {"acquire", "take"} => writer[w].on \in 1..built
    /\ writer[w].at \in Busy \cup {"take"} => /\ writer[w].began <= healthTime
                                              /\ healthTime <= writer[w].began + HealthLease
    /\ writer[w].at \in Busy => research[writer[w].on].lease = writer[w].began + HealthLease
LeasesAreHeld == \A w \in Writers : LeaseIsHeld(w)

\* The calls of a task are those of the models it has gone through and of its one repair; what it
\* is about to write has the structure of what it repaired.
RowIsCounted(row) ==
    /\ row.at \in {"acquire", "take"} => row.model = 1 /\ row.call = 0 /\ ~row.repaired
    /\ row.at = "calling" =>
          /\ row.model \in 1..(HealthChain + 1)
          /\ row.call = row.model - 1 + (IF row.repaired THEN 1 ELSE 0)
    /\ row.at = "complete" => row.shape \in Shapes /\ row.source \in {NoShape, row.shape}
CallsAreCounted == \A w \in Writers : RowIsCounted(writer[w])

HealthInv ==
    /\ HealthTypeOK
    /\ LeasesAreHeld
    /\ CallsAreCounted
    /\ OneWriterAtATime
    /\ SucceededHasOneDocument

-----------------------------------------------------------------------------
HIDE ParseNumbers

\* The bounds, one by one.
LEMMA HealthNumbers ==
    /\ HealthLease \in Nat /\ HealthLease > 0 /\ HealthChain \in Nat /\ HealthChain > 0
    /\ MaxSnapshots \in Nat /\ NoShape \notin Shapes
BY HealthAssumption

USE HealthNumbers

\* The lists of names are without repeats, and each tells the stages apart.
LEMMA StagesOfWriters ==
    /\ {"calling", "complete", "fail"} = Busy
    /\ "idle" \notin Busy /\ "acquire" \notin Busy /\ "take" \notin Busy
BY DEF Busy

LEMMA HealthInitInv == HealthInit => HealthInv
<1> SUFFICES ASSUME HealthInit PROVE HealthInv
  OBVIOUS
<1>1. \A k \in 1..MaxSnapshots : research[k] = NoResearch
  BY DEF HealthInit
<1>2. \A w \in Writers : writer[w] = NoWriter
  BY DEF HealthInit
<1>3. Len(documents) = 0
  BY DEF HealthInit
<1>4. HealthTypeOK
  BY DEF HealthInit, HealthTypeOK, ResearchRows, WriterRows, Documents, NoResearch, NoWriter, Busy
<1>5. LeasesAreHeld /\ CallsAreCounted /\ OneWriterAtATime
  BY <1>2 DEF LeasesAreHeld, LeaseIsHeld, CallsAreCounted, RowIsCounted, OneWriterAtATime,
     NoWriter, Busy
<1>6. SucceededHasOneDocument
  BY <1>1, <1>3 DEF SucceededHasOneDocument, RepairKeepsStructure, HasDocument, NoResearch
<1>7. QED
  BY <1>4, <1>5, <1>6 DEF HealthInv

-----------------------------------------------------------------------------
(* Types *)

\* A task's row stays one, whatever stage it goes to.
LEMMA WriterRowChanges ==
    /\ NoWriter \in WriterRows
    /\ \A row \in WriterRows, at \in Busy \cup {"idle", "acquire", "take"} :
         [row EXCEPT !.at = at] \in WriterRows
    /\ \A row \in WriterRows, at \in Busy \cup {"idle", "acquire", "take"}, now \in Nat :
         [row EXCEPT !.at = at, !.began = now] \in WriterRows
    /\ \A row \in WriterRows, k \in 0..MaxSnapshots, retry \in BOOLEAN :
         [row EXCEPT !.at = "acquire", !.on = k, !.retry = retry] \in WriterRows
<1>1. NoWriter \in WriterRows
  BY DEF NoWriter, WriterRows
<1>2. QED
  BY <1>1 DEF WriterRows

\* So does the row after an answer, whatever becomes of the answer.
LEMMA AnswersKeepRows ==
    /\ \A row \in WriterRows : NextModel(row) \in WriterRows
    /\ \A row \in WriterRows, w \in Writers, fit \in Fits, shape \in Shapes :
         Considered(w, row, fit, shape) \subseteq WriterRows
<1>1. ASSUME NEW row \in WriterRows PROVE NextModel(row) \in WriterRows
  <2>1. row.model + 1 \in Nat
    BY DEF WriterRows
  <2>2. \A m \in Nat : [row EXCEPT !.model = m, !.source = NoShape] \in WriterRows
    BY DEF WriterRows
  <2>3. QED
    BY <2>1, <2>2 DEF NextModel
<1>2. ASSUME NEW row \in WriterRows, NEW w \in Writers, NEW fit \in Fits, NEW shape \in Shapes
      PROVE Considered(w, row, fit, shape) \subseteq WriterRows
  <2>1. [row EXCEPT !.at = "complete", !.shape = shape] \in WriterRows
    BY DEF WriterRows, Busy
  <2>2. [row EXCEPT !.at = "fail"] \in WriterRows
    BY DEF WriterRows, Busy
  <2>3. \A source \in Shapes \cup {NoShape} :
          [row EXCEPT !.repaired = TRUE, !.source = source] \in WriterRows
    BY DEF WriterRows
  <2>4. row.source \in Shapes \cup {NoShape}
    BY DEF WriterRows
  <2>5. NextModel(row) \in WriterRows
    BY <1>1
  <2>6. QED
    BY <2>1, <2>2, <2>3, <2>4, <2>5 DEF Considered
<1>3. QED
  BY <1>1, <1>2

LEMMA HealthTypeStep == HealthInv /\ [HealthNext]_healthVars => HealthTypeOK'
<1> SUFFICES ASSUME HealthInv, [HealthNext]_healthVars PROVE HealthTypeOK'
  OBVIOUS
<1>a. HealthTypeOK
  BY DEF HealthInv
<1>1. CASE NewSnapshot
  BY <1>a, <1>1 DEF NewSnapshot, HealthTypeOK
<1>2. ASSUME NEW retry \in BOOLEAN, OrderResearch(retry) PROVE HealthTypeOK'
  BY <1>a, <1>2 DEF OrderResearch, HealthTypeOK
<1>3. ASSUME NEW w \in Writers, NEW retry \in BOOLEAN, TakeOrder(w, retry) PROVE HealthTypeOK'
  <2>1. [NoWriter EXCEPT !.at = "acquire", !.on = built, !.retry = retry] \in WriterRows
    BY <1>a, WriterRowChanges DEF HealthTypeOK
  <2>2. writer' \in [Writers -> WriterRows]
    BY <1>a, <1>3, <2>1 DEF TakeOrder, HealthTypeOK
  <2>3. QED
    BY <1>a, <1>3, <2>2 DEF TakeOrder, HealthTypeOK
<1>4. ASSUME NEW w \in Writers, AcquireResearch(w) PROVE HealthTypeOK'
  <2>1. /\ [writer[w] EXCEPT !.at = "calling", !.began = healthTime] \in WriterRows
        /\ [writer[w] EXCEPT !.at = "take", !.began = healthTime] \in WriterRows
        /\ NoWriter \in WriterRows
    BY <1>a, WriterRowChanges DEF HealthTypeOK, Busy
  <2>2. [status |-> "running", tries |-> 0, lease |-> healthTime + HealthLease] \in ResearchRows
    BY <1>a DEF ResearchRows, HealthTypeOK
  <2>3. writer' \in [Writers -> WriterRows]
    BY <1>a, <1>4, <2>1 DEF AcquireResearch, EndWriter, HealthTypeOK
  <2>4. research' \in [1..MaxSnapshots -> ResearchRows]
    BY <1>a, <1>4, <2>2 DEF AcquireResearch, HealthTypeOK
  <2>5. QED
    BY <1>a, <1>4, <2>3, <2>4 DEF AcquireResearch, HealthTypeOK
<1>5. ASSUME NEW w \in Writers, TakeResearch(w) PROVE HealthTypeOK'
  <2>1. [writer[w] EXCEPT !.at = "calling"] \in WriterRows /\ NoWriter \in WriterRows
    BY <1>a, WriterRowChanges DEF HealthTypeOK, Busy
  <2>2. writer[w].began \in Nat
    BY <1>a DEF HealthTypeOK, WriterRows
  <2>3. [status |-> "running", tries |-> 0, lease |-> writer[w].began + HealthLease]
          \in ResearchRows
    BY <2>2 DEF ResearchRows
  <2>4. writer' \in [Writers -> WriterRows]
    BY <1>a, <1>5, <2>1 DEF TakeResearch, EndWriter, GoWriter, HealthTypeOK
  <2>5. research' \in [1..MaxSnapshots -> ResearchRows]
    BY <1>a, <1>5, <2>3 DEF TakeResearch, HealthTypeOK
  <2>6. QED
    BY <1>a, <1>5, <2>4, <2>5 DEF TakeResearch, HealthTypeOK
<1>6. ASSUME NEW w \in Writers, CallHealthModel(w) PROVE HealthTypeOK'
  <2> DEFINE row == [writer[w] EXCEPT !.call = @ + 1]
  <2>a. LeaseIsHeld(w) /\ RowIsCounted(writer[w]) /\ writer[w] \in WriterRows
    BY <1>a DEF HealthInv, HealthTypeOK, LeasesAreHeld, CallsAreCounted
  <2>b. writer[w].at = "calling" /\ writer[w].model <= HealthChain /\ built \in 0..MaxSnapshots
    BY <1>a, <1>6 DEF CallHealthModel, HealthTypeOK
  <2>c. writer[w].on \in 1..MaxSnapshots
    BY <2>a, <2>b, StagesOfWriters DEF LeaseIsHeld
  <2>d. writer[w].repaired \in BOOLEAN
    BY <2>a DEF WriterRows
  <2>0. /\ writer[w].model \in 1..(HealthChain + 1)
        /\ writer[w].call = writer[w].model - 1 + (IF writer[w].repaired THEN 1 ELSE 0)
    BY <2>a, <2>b DEF RowIsCounted
  <2>1. writer[w].call + 1 \in 0..(HealthChain + 1) /\ writer[w].on \in 1..MaxSnapshots
    BY <2>0, <2>b, <2>c, <2>d
  <2>2. row \in WriterRows /\ row.on = writer[w].on /\ row.call = writer[w].call + 1
    BY <1>a, <2>1 DEF HealthTypeOK, WriterRows
  <2>3. NextModel(row) \in WriterRows
    BY <2>2, AnswersKeepRows
  <2>4. \A fit \in Fits, shape \in Shapes : Considered(w, row, fit, shape) \subseteq WriterRows
    BY <2>2, AnswersKeepRows
  <2>5. writer' \in [Writers -> WriterRows]
    BY <1>a, <1>6, <2>3, <2>4 DEF CallHealthModel, HealthTypeOK
  <2>6. research' \in [1..MaxSnapshots -> ResearchRows]
    BY <1>a, <1>6, <2>1, <2>2 DEF CallHealthModel, HealthTypeOK, ResearchRows
  <2>7. QED
    BY <1>a, <1>6, <2>5, <2>6 DEF CallHealthModel, HealthTypeOK
<1>7. ASSUME NEW w \in Writers, GiveUp(w) PROVE HealthTypeOK'
  <2>1. [writer[w] EXCEPT !.at = "fail"] \in WriterRows
    BY <1>a, WriterRowChanges DEF HealthTypeOK, Busy
  <2>2. writer' \in [Writers -> WriterRows]
    BY <1>a, <1>7, <2>1 DEF GiveUp, GoWriter, HealthTypeOK
  <2>3. QED
    BY <1>a, <1>7, <2>2 DEF GiveUp, HealthTrouble, HealthTypeOK
<1>8. ASSUME NEW w \in Writers, CompleteResearch(w) PROVE HealthTypeOK'
  <2>1. /\ writer[w].on \in 1..MaxSnapshots /\ writer[w].shape \in Shapes
        /\ writer[w].source \in Shapes \cup {NoShape}
    BY <1>a, <1>8 DEF CompleteResearch, HealthInv, HealthTypeOK, WriterRows, LeasesAreHeld,
       LeaseIsHeld, CallsAreCounted, RowIsCounted, Busy
  <2>2. [of |-> writer[w].on, shape |-> writer[w].shape, source |-> writer[w].source] \in Documents
    BY <2>1 DEF Documents
  <2>3. documents' \in Seq(Documents)
    BY <1>a, <1>8, <2>2 DEF CompleteResearch, HealthTypeOK
  <2>4. research' \in [1..MaxSnapshots -> ResearchRows]
    BY <1>a, <1>8, <2>1 DEF CompleteResearch, HealthTypeOK, ResearchRows
  <2>5. writer' \in [Writers -> WriterRows]
    BY <1>a, <1>8, WriterRowChanges DEF CompleteResearch, EndWriter, HealthTypeOK
  <2>6. QED
    BY <1>a, <1>8, <2>3, <2>4, <2>5 DEF CompleteResearch, HealthTypeOK
<1>9. ASSUME NEW w \in Writers, FailResearch(w) PROVE HealthTypeOK'
  <2>1. writer[w].on \in 1..MaxSnapshots
    BY <1>a, <1>9 DEF FailResearch, HealthInv, HealthTypeOK, LeasesAreHeld, LeaseIsHeld, Busy
  <2>2. research' \in [1..MaxSnapshots -> ResearchRows]
    BY <1>a, <1>9, <2>1 DEF FailResearch, HealthTypeOK, ResearchRows
  <2>3. writer' \in [Writers -> WriterRows]
    BY <1>a, <1>9, WriterRowChanges DEF FailResearch, EndWriter, HealthTypeOK
  <2>4. QED
    BY <1>a, <1>9, <2>2, <2>3 DEF FailResearch, HealthTypeOK
<1>10. ASSUME NEW w \in Writers, RepeatOrder(w) PROVE HealthTypeOK'
  <2>1. writer' \in [Writers -> WriterRows]
    BY <1>a, <1>10, WriterRowChanges DEF RepeatOrder, HealthTypeOK
  <2>2. ordered' \in [BOOLEAN -> Nat]
    BY <1>a, <1>10 DEF RepeatOrder, HealthTypeOK, WriterRows
  <2>3. QED
    BY <1>a, <1>10, <2>1, <2>2 DEF RepeatOrder, HealthTrouble, HealthTypeOK
<1>11. CASE PassHealthTime
  BY <1>a, <1>11 DEF PassHealthTime, HealthTypeOK
<1>12. CASE UNCHANGED healthVars
  BY <1>a, <1>12 DEF healthVars, HealthTypeOK
<1>13. QED
  BY <1>1, <1>2, <1>3, <1>4, <1>5, <1>6, <1>7, <1>8, <1>9, <1>10, <1>11, <1>12 DEF HealthNext


-----------------------------------------------------------------------------
(* Leases, calls and documents *)

\* A step of one task leaves the leases of the others: it touches no run but its own, and that
\* one only when nobody else works for it.
LEMMA OthersAreLeft ==
    ASSUME NEW w \in Writers, NEW k \in 1..MaxSnapshots, HealthInv,
           UNCHANGED <<healthTime, built>>,
           \A v \in Writers \ {w} : writer'[v] = writer[v],
           \A j \in (1..MaxSnapshots) \ {k} : research'[j] = research[j],
           \/ research' = research /\ writer'[w].at \notin Busy
           \/ \A v \in Writers \ {w} : writer[v].at \in Busy => writer[v].on # k,
           LeaseIsHeld(w)', RowIsCounted(writer'[w]),
           writer'[w].at \in Busy => writer'[w].on = k /\ research'[k].status = "running"
    PROVE  LeasesAreHeld' /\ CallsAreCounted' /\ OneWriterAtATime'
<1>a. LeasesAreHeld /\ CallsAreCounted /\ OneWriterAtATime /\ built \in 0..MaxSnapshots
  BY DEF HealthInv, HealthTypeOK
<1>1. ASSUME NEW v \in Writers \ {w}
      PROVE  /\ LeaseIsHeld(v)'
             /\ writer'[v].at \in Busy => research'[writer'[v].on].status = "running"
  <2>1. writer[v].at \in Busy =>
          writer[v].on \in 1..MaxSnapshots /\ research'[writer[v].on] = research[writer[v].on]
    BY <1>a DEF LeasesAreHeld, LeaseIsHeld
  <2>2. LeaseIsHeld(v) /\ (writer[v].at \in Busy => research[writer[v].on].status = "running")
    BY <1>a DEF LeasesAreHeld, OneWriterAtATime
  <2>3. QED
    BY <2>1, <2>2 DEF LeaseIsHeld
<1>2. LeasesAreHeld'
  BY <1>1 DEF LeasesAreHeld
<1>3. CallsAreCounted'
  BY <1>a DEF CallsAreCounted
<1>4. ASSUME NEW u \in Writers, NEW v \in Writers \ {u},
             writer'[u].at \in Busy, writer'[v].at \in Busy
      PROVE  writer'[v].on # writer'[u].on
  BY <1>a, <1>4 DEF OneWriterAtATime
<1>5. OneWriterAtATime'
  BY <1>1, <1>4 DEF OneWriterAtATime
<1>6. QED
  BY <1>2, <1>3, <1>5

\* As long as nothing is written, the documents are those of the runs that have succeeded.
LEMMA DocumentsStay ==
    ASSUME SucceededHasOneDocument, UNCHANGED documents,
           \A k \in 1..MaxSnapshots :
             research'[k].status = "succeeded" <=> research[k].status = "succeeded"
    PROVE  SucceededHasOneDocument'
BY DEF SucceededHasOneDocument, RepairKeepsStructure, HasDocument

\* Whatever becomes of an answer, the task goes on with the same run and its calls are counted:
\* the next model has one call more, and so has the one repair.
LEMMA AnswersAreCounted ==
    ASSUME NEW w \in Writers, NEW row \in WriterRows,
           row.at = "calling", row.model \in 1..HealthChain, row.repaired = writer[w].repaired,
           row.call = row.model + (IF row.repaired THEN 1 ELSE 0),
           NEW after, \/ after = NextModel(row)
                      \/ \E fit \in Fits, shape \in Shapes :
                           after \in Considered(w, row, fit, shape)
    PROVE  after.at \in Busy /\ after.on = row.on /\ after.began = row.began /\ RowIsCounted(after)
<1> DEFINE Goal == after.at \in Busy /\ after.on = row.on /\ after.began = row.began
                     /\ RowIsCounted(after)
<1>a. row.repaired \in BOOLEAN /\ row.source \in Shapes \cup {NoShape} /\ row.model + 1 \in Nat
  BY DEF WriterRows
<1>1. ASSUME after = NextModel(row) PROVE Goal
  <2>1. \A m \in Nat : LET next == [row EXCEPT !.model = m, !.source = NoShape]
                       IN  /\ next.at = "calling" /\ next.on = row.on /\ next.began = row.began
                           /\ next.model = m /\ next.call = row.call
                           /\ next.repaired = row.repaired
    BY DEF WriterRows
  <2>2. /\ after.at = "calling" /\ after.on = row.on /\ after.began = row.began
        /\ after.model = row.model + 1 /\ after.call = row.call /\ after.repaired = row.repaired
    BY <1>1, <1>a, <2>1 DEF NextModel
  <2>3. RowIsCounted(after)
    BY <1>a, <2>2 DEF RowIsCounted
  <2>4. QED
    BY <2>2, <2>3, StagesOfWriters
<1>2. ASSUME NEW shape \in Shapes, Preserves(row.source, shape),
             after = [row EXCEPT !.at = "complete", !.shape = shape]
      PROVE  Goal
  <2>1. /\ after.at = "complete" /\ after.on = row.on /\ after.began = row.began
        /\ after.shape = shape /\ after.source = row.source
    BY <1>2 DEF WriterRows
  <2>2. QED
    BY <1>2, <2>1, StagesOfWriters DEF RowIsCounted, Preserves
<1>3. ASSUME after = [row EXCEPT !.at = "fail"] PROVE Goal
  <2>1. after.at = "fail" /\ after.on = row.on /\ after.began = row.began
    BY <1>3 DEF WriterRows
  <2>2. QED
    BY <2>1, StagesOfWriters DEF RowIsCounted
<1>4. ASSUME NEW source \in Shapes \cup {NoShape}, ~row.repaired,
             after = [row EXCEPT !.repaired = TRUE, !.source = source]
      PROVE  Goal
  <2>1. /\ after.at = "calling" /\ after.on = row.on /\ after.began = row.began
        /\ after.model = row.model /\ after.call = row.call /\ after.repaired
    BY <1>4 DEF WriterRows
  <2>2. RowIsCounted(after)
    BY SMTT(30), <1>4, <2>1 DEF RowIsCounted
  <2>3. QED
    BY <2>1, <2>2, StagesOfWriters
<1>5. ASSUME NEW fit \in Fits, NEW shape \in Shapes, after \in Considered(w, row, fit, shape)
      PROVE  \/ after = NextModel(row)
             \/ after = [row EXCEPT !.at = "fail"]
             \/ /\ Preserves(row.source, shape)
                /\ after = [row EXCEPT !.at = "complete", !.shape = shape]
             \/ /\ ~row.repaired
                /\ \E source \in Shapes \cup {NoShape} :
                     after = [row EXCEPT !.repaired = TRUE, !.source = source]
  BY <1>5, <1>a DEF Considered, MayRepair, Fits
<1>6. QED
  BY <1>1, <1>2, <1>3, <1>4, <1>5

LEMMA HealthInvStep == HealthInv /\ [HealthNext]_healthVars => HealthInv'
<1> SUFFICES ASSUME HealthInv, [HealthNext]_healthVars PROVE HealthInv'
  OBVIOUS
<1>t. HealthTypeOK'
  BY HealthTypeStep
<1>a. /\ healthTime \in Nat /\ built \in 0..MaxSnapshots
      /\ research \in [1..MaxSnapshots -> ResearchRows]
      /\ writer \in [Writers -> WriterRows]
      /\ documents \in Seq(Documents)
  BY DEF HealthInv, HealthTypeOK
<1>b. LeasesAreHeld /\ CallsAreCounted /\ OneWriterAtATime /\ SucceededHasOneDocument
  BY DEF HealthInv
<1>i. NoWriter.at = "idle" /\ RowIsCounted(NoWriter)
  BY DEF NoWriter, RowIsCounted
<1> DEFINE Held == LeasesAreHeld' /\ CallsAreCounted' /\ OneWriterAtATime'
           Goal == Held /\ SucceededHasOneDocument'
<1>1. ASSUME NewSnapshot PROVE Goal
  <2>1. LeasesAreHeld'
    BY <1>a, <1>b, <1>1 DEF NewSnapshot, LeasesAreHeld, LeaseIsHeld
  <2>2. CallsAreCounted' /\ OneWriterAtATime'
    BY <1>b, <1>1 DEF NewSnapshot, CallsAreCounted, OneWriterAtATime
  <2>3. SucceededHasOneDocument'
    BY <1>b, <1>1, DocumentsStay DEF NewSnapshot
  <2>4. QED
    BY <2>1, <2>2, <2>3
<1>2. ASSUME NEW retry \in BOOLEAN, OrderResearch(retry) PROVE Goal
  BY <1>b, <1>2, DocumentsStay
     DEF OrderResearch, LeasesAreHeld, LeaseIsHeld, CallsAreCounted, OneWriterAtATime
<1>3. ASSUME NEW w \in Writers, NEW retry \in BOOLEAN, TakeOrder(w, retry) PROVE Goal
  <2> DEFINE row == [NoWriter EXCEPT !.at = "acquire", !.on = built, !.retry = retry]
  <2>1. SucceededHasOneDocument'
    BY <1>b, <1>3, DocumentsStay DEF TakeOrder
  <2>2. row.at = "acquire" /\ row.on = built /\ row.model = 1 /\ row.call = 0 /\ ~row.repaired
    BY DEF NoWriter
  <2> HIDE DEF row
  <2>3. writer' = writer \/ (built # 0 /\ writer' = [writer EXCEPT ![w] = row])
    BY <1>3 DEF TakeOrder, row
  <2>4. ASSUME writer' = writer PROVE Held
    BY <1>b, <1>3, <2>4
       DEF TakeOrder, LeasesAreHeld, LeaseIsHeld, CallsAreCounted, OneWriterAtATime
  <2>5. ASSUME built # 0, writer' = [writer EXCEPT ![w] = row] PROVE Held
    <3>1. writer'[w] = row /\ \A v \in Writers \ {w} : writer'[v] = writer[v]
      BY <1>a, <2>5
    <3>2. built \in 1..built /\ built \in 1..MaxSnapshots /\ built' = built /\ row.at \notin Busy
      BY <1>a, <1>3, <2>2, <2>5, StagesOfWriters DEF TakeOrder
    <3>3. LeaseIsHeld(w)'
      BY <2>2, <3>1, <3>2 DEF LeaseIsHeld, Busy
    <3>4. RowIsCounted(row)
      BY <2>2 DEF RowIsCounted
    <3>5. UNCHANGED <<healthTime, built, research>>
      BY <1>3 DEF TakeOrder
    <3>6. QED
      BY <3>1, <3>2, <3>3, <3>4, <3>5, OthersAreLeft
  <2>6. QED
    BY <2>1, <2>3, <2>4, <2>5
<1>4. ASSUME NEW w \in Writers, AcquireResearch(w) PROVE Goal
  <2> DEFINE k == writer[w].on
             calling == [writer[w] EXCEPT !.at = "calling", !.began = healthTime]
             take == [writer[w] EXCEPT !.at = "take", !.began = healthTime]
  <2>1. /\ k \in 1..MaxSnapshots /\ k \in 1..built
        /\ writer[w].at = "acquire"
        /\ UNCHANGED <<healthTime, built, documents>>
    BY <1>a, <1>b, <1>4 DEF AcquireResearch, LeasesAreHeld, LeaseIsHeld
  <2>2. writer[w] \in WriterRows /\ RowIsCounted(writer[w])
    BY <1>a, <1>b DEF CallsAreCounted
  <2>3. /\ calling.at = "calling" /\ calling.on = k /\ calling.began = healthTime
        /\ take.at = "take" /\ take.on = k /\ take.began = healthTime
    BY <2>2 DEF WriterRows
  <2>x. /\ calling.model = writer[w].model /\ calling.call = writer[w].call
        /\ calling.repaired = writer[w].repaired
        /\ take.model = writer[w].model /\ take.call = writer[w].call
        /\ take.repaired = writer[w].repaired
    BY <2>2 DEF WriterRows
  <2> HIDE DEF calling, take
  <2>y. RowIsCounted(calling) /\ RowIsCounted(take)
    BY <2>1, <2>2, <2>3, <2>x DEF RowIsCounted
  <2>z. healthTime <= healthTime /\ healthTime <= healthTime + HealthLease
    BY <1>a
  <2>4. CASE research[k].status = "absent"
    <3>a. /\ writer' = [writer EXCEPT ![w] = calling]
          /\ research' = [research EXCEPT ![k] = [status |-> "running", tries |-> 0,
                                                  lease |-> healthTime + HealthLease]]
      BY <1>4, <2>4 DEF AcquireResearch, calling
    <3>1. /\ writer'[w] = calling /\ \A v \in Writers \ {w} : writer'[v] = writer[v]
          /\ research'[k].status = "running" /\ research'[k].lease = healthTime + HealthLease
          /\ \A j \in (1..MaxSnapshots) \ {k} : research'[j] = research[j]
      BY <1>a, <2>1, <3>a
    <3>2. \A v \in Writers \ {w} : writer[v].at \in Busy => writer[v].on # k
      BY <1>b, <2>4 DEF OneWriterAtATime
    <3>3. LeaseIsHeld(w)'
      BY <2>1, <2>3, <2>z, <3>1 DEF LeaseIsHeld
    <3>4. Held
      BY <2>1, <2>3, <2>y, <3>1, <3>2, <3>3, OthersAreLeft
    <3>5. SucceededHasOneDocument'
      BY <1>b, <2>1, <2>4, <3>1, DocumentsStay
    <3>6. QED
      BY <3>4, <3>5
  <2>5. CASE research[k].status # "absent"
    <3>1. /\ writer'[w] \in {take, NoWriter} /\ \A v \in Writers \ {w} : writer'[v] = writer[v]
          /\ UNCHANGED research
      BY <1>a, <1>4, <2>1, <2>5 DEF AcquireResearch, EndWriter, take
    <3>2. writer'[w].at \notin Busy
      BY <1>i, <2>3, <3>1, StagesOfWriters
    <3>3. LeaseIsHeld(w)'
      BY <1>i, <2>1, <2>3, <2>z, <3>1, <3>2 DEF LeaseIsHeld
    <3>4. Held
      BY <1>i, <2>1, <2>y, <3>1, <3>2, <3>3, OthersAreLeft
    <3>5. SucceededHasOneDocument'
      BY <1>b, <2>1, <3>1, DocumentsStay
    <3>6. QED
      BY <3>4, <3>5
  <2>6. QED
    BY <2>4, <2>5
<1>5. ASSUME NEW w \in Writers, TakeResearch(w) PROVE Goal
  <2> DEFINE k == writer[w].on
             calling == [writer[w] EXCEPT !.at = "calling"]
  <2>1. /\ k \in 1..MaxSnapshots /\ k \in 1..built
        /\ writer[w].at = "take" /\ writer[w].began \in Nat
        /\ writer[w].began <= healthTime /\ healthTime <= writer[w].began + HealthLease
        /\ UNCHANGED <<healthTime, built, documents>>
    BY <1>a, <1>b, <1>5 DEF TakeResearch, LeasesAreHeld, LeaseIsHeld, WriterRows
  <2>2. writer[w] \in WriterRows /\ RowIsCounted(writer[w])
    BY <1>a, <1>b DEF CallsAreCounted
  <2>3. /\ calling.at = "calling" /\ calling.on = k /\ calling.began = writer[w].began
        /\ calling.model = writer[w].model /\ calling.call = writer[w].call
        /\ calling.repaired = writer[w].repaired
    BY <2>2 DEF WriterRows
  <2> HIDE DEF calling
  <2>4. RowIsCounted(calling)
    BY <2>1, <2>2, <2>3 DEF RowIsCounted
  <2>5. CASE StillFree(k, writer[w].began)
    <3>a. /\ writer' = [writer EXCEPT ![w] = calling]
          /\ research' = [research EXCEPT ![k] = [status |-> "running", tries |-> 0,
                                                  lease |-> writer[w].began + HealthLease]]
      BY <1>5, <2>5 DEF TakeResearch, GoWriter, calling
    <3>1. /\ writer'[w] = calling /\ \A v \in Writers \ {w} : writer'[v] = writer[v]
          /\ research'[k].status = "running"
          /\ research'[k].lease = writer[w].began + HealthLease
          /\ \A j \in (1..MaxSnapshots) \ {k} : research'[j] = research[j]
      BY <1>a, <2>1, <3>a
    <3>2. ASSUME NEW v \in Writers \ {w}, writer[v].at \in Busy PROVE writer[v].on # k
      <4> SUFFICES ASSUME writer[v].on = k PROVE FALSE
        OBVIOUS
      <4>1. research[k].status = "running" /\ research[k].lease = writer[v].began + HealthLease
        BY <1>b, <3>2 DEF OneWriterAtATime, LeasesAreHeld, LeaseIsHeld
      <4>2. healthTime <= writer[v].began + HealthLease /\ writer[v].began \in Nat
        BY <1>a, <1>b, <3>2 DEF LeasesAreHeld, LeaseIsHeld, WriterRows
      <4>3. writer[v].began + HealthLease < writer[w].began
        BY <2>5, <4>1 DEF StillFree, RunLapsed
      <4>4. QED
        BY <1>a, <2>1, <4>2, <4>3
    <3>3. LeaseIsHeld(w)'
      BY <2>1, <2>3, <3>1 DEF LeaseIsHeld
    <3>4. Held
      BY <2>1, <2>3, <2>4, <3>1, <3>2, <3>3, OthersAreLeft
    <3>5. SucceededHasOneDocument'
      BY <1>b, <2>1, <2>5, <3>1, DocumentsStay DEF StillFree, RunLapsed
    <3>6. QED
      BY <3>4, <3>5
  <2>6. CASE ~StillFree(k, writer[w].began)
    <3>1. /\ writer'[w] = NoWriter /\ \A v \in Writers \ {w} : writer'[v] = writer[v]
          /\ UNCHANGED research
      BY <1>a, <1>5, <2>6 DEF TakeResearch, EndWriter
    <3>2. writer'[w].at \notin Busy /\ LeaseIsHeld(w)'
      BY <1>i, <3>1, StagesOfWriters DEF LeaseIsHeld
    <3>3. Held
      BY <1>i, <2>1, <3>1, <3>2, OthersAreLeft
    <3>4. SucceededHasOneDocument'
      BY <1>b, <2>1, <3>1, DocumentsStay
    <3>5. QED
      BY <3>3, <3>4
  <2>7. QED
    BY <2>5, <2>6
<1>6. ASSUME NEW w \in Writers, CallHealthModel(w) PROVE Goal
  <2> DEFINE k == writer[w].on
             row == [writer[w] EXCEPT !.call = @ + 1]
  <2>1. /\ LeaseIsHeld(w) /\ RowIsCounted(writer[w]) /\ writer[w] \in WriterRows
        /\ writer[w].at = "calling" /\ writer[w].model <= HealthChain
        /\ UNCHANGED <<healthTime, built, documents>>
    BY <1>a, <1>b, <1>6 DEF CallHealthModel, LeasesAreHeld, CallsAreCounted
  <2>2. /\ k \in 1..MaxSnapshots /\ k \in 1..built /\ research[k].status = "running"
        /\ research[k].lease = writer[w].began + HealthLease
        /\ \A v \in Writers \ {w} : writer[v].at \in Busy => writer[v].on # k
    BY <1>a, <1>b, <2>1, StagesOfWriters DEF LeaseIsHeld, OneWriterAtATime
  <2>a. /\ writer[w].model \in 1..HealthChain /\ writer[w].repaired \in BOOLEAN
        /\ writer[w].call = writer[w].model - 1 + (IF writer[w].repaired THEN 1 ELSE 0)
    BY <2>1 DEF RowIsCounted, WriterRows
  <2>b. \A c \in 0..(HealthChain + 1) :
          LET called == [writer[w] EXCEPT !.call = c]
          IN  /\ called \in WriterRows /\ called.call = c /\ called.at = writer[w].at
              /\ called.on = writer[w].on /\ called.began = writer[w].began
              /\ called.model = writer[w].model /\ called.repaired = writer[w].repaired
    BY <2>1 DEF WriterRows
  <2>c. writer[w].call + 1 \in 0..(HealthChain + 1)
    BY <2>a
  <2>3. /\ row \in WriterRows /\ row.at = "calling" /\ row.on = k /\ row.began = writer[w].began
        /\ row.model \in 1..HealthChain /\ row.repaired = writer[w].repaired
        /\ row.call = row.model + (IF row.repaired THEN 1 ELSE 0)
    BY <2>1, <2>a, <2>b, <2>c
  <2>4. PICK after : /\ writer' = [writer EXCEPT ![w] = after]
                     /\ \/ after = NextModel(row)
                        \/ \E fit \in Fits, shape \in Shapes :
                             after \in Considered(w, row, fit, shape)
    BY <1>6 DEF CallHealthModel
  <2>5. research' = [research EXCEPT ![k].tries = row.call]
    BY <1>6, <2>3 DEF CallHealthModel
  <2> HIDE DEF row
  <2>6. /\ after.at \in Busy /\ after.on = k /\ after.began = writer[w].began
        /\ RowIsCounted(after)
    BY <2>3, <2>4, AnswersAreCounted
  <2>7. /\ writer'[w] = after /\ \A v \in Writers \ {w} : writer'[v] = writer[v]
        /\ research'[k].status = "running" /\ research'[k].lease = research[k].lease
        /\ \A j \in (1..MaxSnapshots) \ {k} : research'[j] = research[j]
    BY <1>a, <2>2, <2>4, <2>5 DEF ResearchRows
  <2>8. LeaseIsHeld(w)'
    BY <2>1, <2>2, <2>6, <2>7 DEF LeaseIsHeld, Busy
  <2>9. Held
    BY <2>1, <2>2, <2>6, <2>7, <2>8, OthersAreLeft
  <2>10. SucceededHasOneDocument'
    BY <1>b, <2>1, <2>2, <2>7, DocumentsStay
  <2>11. QED
    BY <2>9, <2>10
<1>7. ASSUME NEW w \in Writers, GiveUp(w) PROVE Goal
  <2> DEFINE k == writer[w].on
             failing == [writer[w] EXCEPT !.at = "fail"]
  <2>1. /\ writer[w] \in WriterRows /\ LeaseIsHeld(w) /\ writer[w].at \in Busy
        /\ UNCHANGED <<healthTime, built, research, documents>>
    BY <1>a, <1>b, <1>7, StagesOfWriters DEF GiveUp, LeasesAreHeld
  <2>2. /\ k \in 1..MaxSnapshots /\ research[k].status = "running"
        /\ \A v \in Writers \ {w} : writer[v].at \in Busy => writer[v].on # k
    BY <1>a, <1>b, <2>1 DEF LeaseIsHeld, OneWriterAtATime
  <2>3. failing.at = "fail" /\ failing.on = k /\ failing.began = writer[w].began
    BY <2>1 DEF WriterRows
  <2> HIDE DEF failing
  <2>4. writer'[w] = failing /\ \A v \in Writers \ {w} : writer'[v] = writer[v]
    BY <1>a, <1>7 DEF GiveUp, GoWriter, failing
  <2>5. LeaseIsHeld(w)' /\ RowIsCounted(failing)
    BY <2>1, <2>3, <2>4, StagesOfWriters DEF LeaseIsHeld, RowIsCounted
  <2>6. Held
    BY <2>1, <2>2, <2>3, <2>4, <2>5, OthersAreLeft
  <2>7. SucceededHasOneDocument'
    BY <1>b, <2>1, DocumentsStay
  <2>8. QED
    BY <2>6, <2>7
<1>8. ASSUME NEW w \in Writers, CompleteResearch(w) PROVE Goal
  <2> DEFINE k == writer[w].on
             document == [of |-> k, shape |-> writer[w].shape, source |-> writer[w].source]
  <2>1. /\ writer[w] \in WriterRows /\ LeaseIsHeld(w) /\ RowIsCounted(writer[w])
        /\ writer[w].at = "complete" /\ writer'[w] = NoWriter
        /\ \A v \in Writers \ {w} : writer'[v] = writer[v]
        /\ research' = [research EXCEPT ![k].status = "succeeded"]
        /\ UNCHANGED <<healthTime, built>>
    BY <1>a, <1>b, <1>8
       DEF CompleteResearch, EndWriter, LeasesAreHeld, CallsAreCounted
  <2>2. /\ k \in 1..MaxSnapshots /\ research[k].status = "running"
        /\ \A v \in Writers \ {w} : writer[v].at \in Busy => writer[v].on # k
    BY <1>a, <1>b, <2>1, StagesOfWriters DEF LeaseIsHeld, OneWriterAtATime
  <2>3. /\ research'[k].status = "succeeded"
        /\ \A j \in (1..MaxSnapshots) \ {k} : research'[j] = research[j]
    BY <1>a, <2>1, <2>2 DEF ResearchRows
  <2>4. LeaseIsHeld(w)'
    BY <1>i, <2>1, StagesOfWriters DEF LeaseIsHeld
  <2>5. Held
    BY <1>i, <2>1, <2>2, <2>3, <2>4, StagesOfWriters, OthersAreLeft
  <2>6. ~HasDocument(k) /\ documents' = Append(documents, document)
    BY <1>b, <1>8, <2>2 DEF CompleteResearch, SucceededHasOneDocument
  <2>7. /\ document.of = k /\ document.source \in {NoShape, document.shape}
    BY <2>1 DEF RowIsCounted
  <2> HIDE DEF document
  <2>8. /\ Len(documents') = Len(documents) + 1 /\ Len(documents) \in Nat
        /\ documents'[Len(documents) + 1] = document
        /\ \A i \in 1..Len(documents) : documents'[i] = documents[i]
    BY <1>a, <2>6
  <2>9. \A j \in 1..MaxSnapshots : HasDocument(j)' <=> (HasDocument(j) \/ j = k)
    BY <2>7, <2>8 DEF HasDocument
  <2>10. \A j \in 1..MaxSnapshots : research'[j].status = "succeeded" <=> HasDocument(j)'
    BY <1>b, <2>2, <2>3, <2>9 DEF SucceededHasOneDocument
  <2>11. ASSUME NEW i \in 1..Len(documents'), NEW j \in 1..Len(documents'),
                documents'[i].of = documents'[j].of
         PROVE  i = j
    BY <1>b, <2>6, <2>7, <2>8, <2>11 DEF SucceededHasOneDocument, HasDocument
  <2>12. RepairKeepsStructure'
    BY <1>b, <2>7, <2>8 DEF SucceededHasOneDocument, RepairKeepsStructure
  <2>13. SucceededHasOneDocument'
    BY <2>10, <2>11, <2>12 DEF SucceededHasOneDocument
  <2>14. QED
    BY <2>5, <2>13
<1>9. ASSUME NEW w \in Writers, FailResearch(w) PROVE Goal
  <2> DEFINE k == writer[w].on
  <2>1. /\ LeaseIsHeld(w) /\ writer[w].at = "fail" /\ writer'[w] = NoWriter
        /\ \A v \in Writers \ {w} : writer'[v] = writer[v]
        /\ research' = [research EXCEPT ![k].status = "failed"]
        /\ UNCHANGED <<healthTime, built, documents>>
    BY <1>a, <1>b, <1>9 DEF FailResearch, EndWriter, LeasesAreHeld
  <2>2. /\ k \in 1..MaxSnapshots /\ research[k].status = "running"
        /\ \A v \in Writers \ {w} : writer[v].at \in Busy => writer[v].on # k
    BY <1>a, <1>b, <2>1, StagesOfWriters DEF LeaseIsHeld, OneWriterAtATime
  <2>3. /\ research'[k].status = "failed"
        /\ \A j \in (1..MaxSnapshots) \ {k} : research'[j] = research[j]
    BY <1>a, <2>1, <2>2 DEF ResearchRows
  <2>4. LeaseIsHeld(w)'
    BY <1>i, <2>1, StagesOfWriters DEF LeaseIsHeld
  <2>5. Held
    BY <1>i, <2>1, <2>2, <2>3, <2>4, StagesOfWriters, OthersAreLeft
  <2>6. SucceededHasOneDocument'
    BY <1>b, <2>1, <2>2, <2>3, DocumentsStay
  <2>7. QED
    BY <2>5, <2>6
<1>10. ASSUME NEW w \in Writers, RepeatOrder(w) PROVE Goal
  <2>1. /\ writer' \in {writer, [writer EXCEPT ![w] = NoWriter]} /\ writer[w].at # "idle"
        /\ UNCHANGED <<healthTime, built, research, documents>>
    BY <1>10 DEF RepeatOrder
  <2>2. SucceededHasOneDocument'
    BY <1>b, <2>1, DocumentsStay
  <2>3. ASSUME writer' = writer PROVE Held
    BY <1>b, <2>1, <2>3 DEF LeasesAreHeld, LeaseIsHeld, CallsAreCounted, OneWriterAtATime
  <2>4. ASSUME writer' = [writer EXCEPT ![w] = NoWriter] PROVE Held
    <3>1. writer'[w] = NoWriter /\ \A v \in Writers \ {w} : writer'[v] = writer[v]
      BY <1>a, <2>4
    <3>2. writer[w].on \in 1..MaxSnapshots
      BY <1>a, <1>b, <2>1 DEF LeasesAreHeld, LeaseIsHeld, WriterRows
    <3>3. LeaseIsHeld(w)'
      BY <1>i, <3>1, StagesOfWriters DEF LeaseIsHeld
    <3>4. QED
      BY <1>i, <2>1, <3>1, <3>2, <3>3, StagesOfWriters, OthersAreLeft
  <2>5. QED
    BY <2>1, <2>2, <2>3, <2>4
<1>11. ASSUME PassHealthTime PROVE Goal
  <2>1. /\ healthTime' = healthTime + 1 /\ UNCHANGED <<built, research, documents, writer>>
        /\ \A w \in Writers : writer[w].at \in Busy \cup {"take"} =>
             healthTime < writer[w].began + HealthLease
    BY <1>11 DEF PassHealthTime
  <2>2. ASSUME NEW w \in Writers PROVE LeaseIsHeld(w)'
    <3>1. writer[w].began \in Nat /\ LeaseIsHeld(w)
      BY <1>a, <1>b DEF WriterRows, LeasesAreHeld
    <3>2. QED
      BY <1>a, <2>1, <3>1 DEF LeaseIsHeld
  <2>3. Held
    BY <1>b, <2>1, <2>2 DEF LeasesAreHeld, CallsAreCounted, OneWriterAtATime
  <2>4. QED
    BY <1>b, <2>1, <2>3, DocumentsStay
<1>12. ASSUME UNCHANGED healthVars PROVE Goal
  BY <1>b, <1>12, DocumentsStay
     DEF healthVars, LeasesAreHeld, LeaseIsHeld, CallsAreCounted, OneWriterAtATime
<1>13. Goal
  BY <1>1, <1>2, <1>3, <1>4, <1>5, <1>6, <1>7, <1>8, <1>9, <1>10, <1>11, <1>12 DEF HealthNext
<1>14. QED
  BY <1>t, <1>13 DEF HealthInv

\* What the invariant says is kept by every step of requests, tasks and the clock.
THEOREM HealthSafe == HealthSpec => []HealthInv
<1>1. HealthInv /\ [HealthNext]_healthVars => HealthInv'
  BY HealthInvStep
<1>2. QED
  BY HealthInitInv, <1>1, PTL DEF HealthSpec

-----------------------------------------------------------------------------
(* What holds in every state *)

\* The rows, the runs and the documents are of their types, for every number of tasks, models
\* and snapshots.
THEOREM HealthTypeCorrect == HealthSpec => []HealthTypeOK
<1>1. HealthInv => HealthTypeOK
  BY DEF HealthInv
<1>2. QED
  BY HealthSafe, <1>1, PTL

\* One task at a time calls models for a run, and none for a run that is over, as the deadline of
\* a run is within its lease (ai_research/service.py).
THEOREM OneWriter == HealthSpec => []OneWriterAtATime
<1>1. HealthInv => OneWriterAtATime
  BY DEF HealthInv
<1>2. QED
  BY HealthSafe, <1>1, PTL

\* complete_run and fail_run write whatever the run has become, and still a run has succeeded
\* exactly when it has its one document, whose structure no repair has changed.
THEOREM OneDocument == HealthSpec => []SucceededHasOneDocument
<1>1. HealthInv => SucceededHasOneDocument
  BY DEF HealthInv
<1>2. QED
  BY HealthSafe, <1>1, PTL

-----------------------------------------------------------------------------
(* The orders that the research answers *)

HealthOrder == [k \in 1..MaxSnapshots |-> HealthPhase(research[k].status)]
HealthAnswer == [k \in 1..MaxSnapshots |-> DocumentsOf(k)]

\* As long as nothing is written, the answers are what they were.
LEMMA AnswersStay ==
    ASSUME UNCHANGED documents
    PROVE  UNCHANGED HealthAnswer
BY DEF HealthAnswer, DocumentsOf

\* Nor do the orders change when the runs keep their statuses.
LEMMA OrdersStay ==
    ASSUME UNCHANGED documents, \A k \in 1..MaxSnapshots : research'[k].status = research[k].status
    PROVE  UNCHANGED HealthOrders!orderVars
<1>1. UNCHANGED HealthOrder
  BY DEF HealthOrder
<1>2. UNCHANGED HealthAnswer
  BY AnswersStay
<1>3. QED
  BY <1>1, <1>2 DEF HealthOrders!orderVars, HealthOrder, HealthAnswer

\* When one run alone changes its status, so does one order.
LEMMA OneOrderChanges ==
    ASSUME NEW k \in 1..MaxSnapshots, NEW status, research'[k].status = status,
           \A j \in (1..MaxSnapshots) \ {k} : research'[j] = research[j]
    PROVE  HealthOrder' = [HealthOrder EXCEPT ![k] = HealthPhase(status)]
BY DEF HealthOrder

LEMMA DocumentIsOneOf ==
    \A k, a : a \in DocumentsOf(k) <=>
                \E i \in 1..Len(documents) : documents[i].of = k /\ documents[i].shape = a
BY DEF DocumentsOf

LEMMA HealthOrdersInit == HealthInit => HealthOrders!OrdersInit
<1> SUFFICES ASSUME HealthInit PROVE HealthOrders!OrdersInit
  OBVIOUS
<1>1. \A k \in 1..MaxSnapshots : HealthPhase(research[k].status) = "new"
  BY DEF HealthInit, NoResearch, HealthPhase
<1>2. \A k \in 1..MaxSnapshots : DocumentsOf(k) = {}
  BY DEF HealthInit, DocumentsOf
<1>3. QED
  BY <1>1, <1>2 DEF HealthOrders!OrdersInit

LEMMA HealthOrdersStep ==
    HealthInv /\ [HealthNext]_healthVars => [HealthOrders!OrdersNext]_(HealthOrders!orderVars)
<1> DEFINE Goal == HealthOrders!OrdersNext \/ UNCHANGED HealthOrders!orderVars
<1> SUFFICES ASSUME HealthInv, [HealthNext]_healthVars PROVE Goal
  OBVIOUS
<1>a. /\ research \in [1..MaxSnapshots -> ResearchRows] /\ documents \in Seq(Documents)
      /\ built \in 0..MaxSnapshots
      /\ LeasesAreHeld /\ OneWriterAtATime /\ SucceededHasOneDocument /\ CallsAreCounted
      /\ writer \in [Writers -> WriterRows]
  BY DEF HealthInv, HealthTypeOK
<1> DEFINE Quiet == \/ NewSnapshot
                    \/ \E retry \in BOOLEAN : OrderResearch(retry)
                    \/ \E w \in Writers, retry \in BOOLEAN : TakeOrder(w, retry)
                    \/ \E w \in Writers : GiveUp(w) \/ RepeatOrder(w)
                    \/ PassHealthTime \/ UNCHANGED healthVars
<1>1. ASSUME Quiet PROVE Goal
  <2>1. UNCHANGED <<research, documents>>
    BY <1>1 DEF NewSnapshot, OrderResearch, TakeOrder, GiveUp, RepeatOrder, PassHealthTime,
       healthVars
  <2>2. QED
    BY <2>1, OrdersStay
<1>2. ASSUME NEW k \in 1..MaxSnapshots, research[k].status \in {"absent", "failed"},
             NEW row, row.status = "running",
             research' = [research EXCEPT ![k] = row], UNCHANGED documents
      PROVE  Goal
  <2>1. /\ research'[k].status = "running"
        /\ \A j \in (1..MaxSnapshots) \ {k} : research'[j] = research[j]
    BY <1>a, <1>2
  <2>2. HealthOrder' = [HealthOrder EXCEPT ![k] = "open"]
    BY <2>1, OneOrderChanges DEF HealthPhase
  <2>3. HealthOrder[k] \in {"new", "failed"}
    BY <1>2 DEF HealthOrder, HealthPhase
  <2>4. UNCHANGED HealthAnswer
    BY <1>2, AnswersStay
  <2>5. HealthOrders!TakeUp(k)
    BY <2>2, <2>3, <2>4 DEF HealthOrders!TakeUp, HealthOrders!Becomes, HealthOrder, HealthAnswer
  <2>6. QED
    BY <2>5 DEF HealthOrders!OrdersNext
<1>3. ASSUME NEW w \in Writers, AcquireResearch(w) PROVE Goal
  <2>1. writer[w].on \in 1..MaxSnapshots /\ UNCHANGED documents
    BY <1>a, <1>3 DEF AcquireResearch, LeasesAreHeld, LeaseIsHeld
  <2>2. QED
    BY <1>2, <1>3, <2>1, OrdersStay DEF AcquireResearch
<1>4. ASSUME NEW w \in Writers, TakeResearch(w) PROVE Goal
  <2>1. writer[w].on \in 1..MaxSnapshots /\ UNCHANGED documents
    BY <1>a, <1>4 DEF TakeResearch, LeasesAreHeld, LeaseIsHeld
  <2>2. ASSUME RunLapsed(writer[w].on, writer[w].began), StillFree(writer[w].on, writer[w].began)
        PROVE  Goal
    BY <1>a, <1>4, <2>1, <2>2, OrdersStay DEF TakeResearch, RunLapsed
  <2>3. QED
    BY <1>2, <1>4, <2>1, <2>2, OrdersStay DEF TakeResearch, StillFree
<1>5. ASSUME NEW w \in Writers, CallHealthModel(w) PROVE Goal
  <2> DEFINE k == writer[w].on
             row == [writer[w] EXCEPT !.call = @ + 1]
  <2>1. k \in 1..MaxSnapshots /\ writer[w] \in WriterRows
    BY <1>a, <1>5, StagesOfWriters DEF CallHealthModel, LeasesAreHeld, LeaseIsHeld
  <2>2. row.on = k
    BY <2>1 DEF WriterRows
  <2>3. UNCHANGED documents /\ research' = [research EXCEPT ![k].tries = row.call]
    BY <1>5, <2>2 DEF CallHealthModel
  <2> HIDE DEF row
  <2>4. \A j \in 1..MaxSnapshots : research'[j].status = research[j].status
    BY <1>a, <2>1, <2>3 DEF ResearchRows
  <2>5. QED
    BY <2>3, <2>4, OrdersStay
<1>6. ASSUME NEW w \in Writers, CompleteResearch(w) PROVE Goal
  <2>0. /\ writer[w].on \in 1..MaxSnapshots /\ research[writer[w].on].status = "running"
        /\ writer[w].shape \in Shapes
    BY <1>a, <1>6, StagesOfWriters
       DEF CompleteResearch, LeasesAreHeld, LeaseIsHeld, OneWriterAtATime, CallsAreCounted,
           RowIsCounted
  <2>1. PICK k \in 1..MaxSnapshots, shape \in Shapes :
          writer[w].on = k /\ writer[w].shape = shape /\ research[k].status = "running"
    BY <2>0
  <2> DEFINE document == [of |-> k, shape |-> shape, source |-> writer[w].source]
  <2>2. ~HasDocument(k) /\ documents' = Append(documents, document)
    BY <1>a, <1>6, <2>1 DEF CompleteResearch, SucceededHasOneDocument
  <2>3. document.of = k /\ document.shape = shape
    OBVIOUS
  <2> HIDE DEF document
  <2>4. /\ Len(documents') = Len(documents) + 1 /\ Len(documents) \in Nat
        /\ documents'[Len(documents) + 1] = document
        /\ \A i \in 1..Len(documents) : documents'[i] = documents[i]
    BY <1>a, <2>2
  <2>a. \A j, a : a \in DocumentsOf(j)' <=>
                    \E i \in 1..Len(documents') : documents'[i].of = j /\ documents'[i].shape = a
    BY DEF DocumentsOf
  <2>5. \A j, a : a \in DocumentsOf(j)' <=> (a \in DocumentsOf(j) \/ (j = k /\ a = shape))
    BY <2>3, <2>4, <2>a, DocumentIsOneOf
  <2>b. \A a : a \notin DocumentsOf(k)
    BY <2>2, DocumentIsOneOf DEF HasDocument
  <2>c. DocumentsOf(k)' = {shape}
    BY <2>5, <2>b
  <2>6. /\ DocumentsOf(k)' = {shape}
        /\ \A j \in (1..MaxSnapshots) \ {k} : DocumentsOf(j)' = DocumentsOf(j)
    BY <2>5, <2>c
  <2>7. HealthAnswer' = [HealthAnswer EXCEPT ![k] = {shape}]
    BY <2>6 DEF HealthAnswer
  <2>8. /\ research'[k].status = "succeeded"
        /\ \A j \in (1..MaxSnapshots) \ {k} : research'[j] = research[j]
    BY <1>a, <1>6, <2>1 DEF CompleteResearch, ResearchRows
  <2>9. HealthOrder' = [HealthOrder EXCEPT ![k] = "answered"] /\ HealthOrder[k] = "open"
    BY <2>1, <2>8, OneOrderChanges DEF HealthPhase, HealthOrder
  <2>10. HealthOrders!Answer(k, {shape})
    BY <2>7, <2>9 DEF HealthOrders!Answer, HealthOrders!Becomes, HealthOrder, HealthAnswer
  <2>11. QED
    BY <2>1, <2>10 DEF HealthOrders!OrdersNext
<1>7. ASSUME NEW w \in Writers, FailResearch(w) PROVE Goal
  <2> DEFINE k == writer[w].on
  <2>1. /\ k \in 1..MaxSnapshots /\ research[k].status = "running" /\ UNCHANGED documents
    BY <1>a, <1>7, StagesOfWriters DEF FailResearch, LeasesAreHeld, LeaseIsHeld, OneWriterAtATime
  <2>2. /\ research'[k].status = "failed"
        /\ \A j \in (1..MaxSnapshots) \ {k} : research'[j] = research[j]
    BY <1>a, <1>7, <2>1 DEF FailResearch, ResearchRows
  <2>3. HealthOrder' = [HealthOrder EXCEPT ![k] = "failed"] /\ HealthOrder[k] = "open"
    BY <2>1, <2>2, OneOrderChanges DEF HealthPhase, HealthOrder
  <2>4. UNCHANGED HealthAnswer
    BY <2>1, AnswersStay
  <2>5. HealthOrders!GiveItUp(k)
    BY <2>3, <2>4 DEF HealthOrders!GiveItUp, HealthOrders!Becomes, HealthOrder, HealthAnswer
  <2>6. QED
    BY <2>1, <2>5 DEF HealthOrders!OrdersNext
<1>8. QED
  BY <1>1, <1>3, <1>4, <1>5, <1>6, <1>7 DEF HealthNext

\* Leases, repeated messages and the blind last writes of a task implement the plain promise: the
\* document of a snapshot is written once, by a run that was going on, and it stays.
THEOREM HealthImplementsOrders == HealthSpec => HealthIsOrderly
<1>1. HealthInit => HealthOrders!OrdersInit
  BY HealthOrdersInit
<1>2. HealthInv /\ [HealthNext]_healthVars => [HealthOrders!OrdersNext]_(HealthOrders!orderVars)
  BY HealthOrdersStep
<1>3. QED
  BY <1>1, <1>2, HealthSafe, PTL DEF HealthSpec, HealthIsOrderly, HealthOrders!OrdersSpec

-----------------------------------------------------------------------------
(* The three side by side *)

\* A behaviour of the three together is, seen by the rows of each, a behaviour of that one.
LEMMA EachIsItself == PipelineSpec => Spec /\ ParseSpec /\ HealthSpec
<1>1. PipelineInit => Init /\ ParseInit /\ HealthInit
  BY DEF PipelineInit
<1>2. ASSUME [RunMoves \/ ParseMoves \/ HealthMoves]_pipelineVars
      PROVE  [Next]_vars /\ [ParseNext]_parseVars /\ [HealthNext]_healthVars
  BY <1>2 DEF pipelineVars, RunMoves, ParseMoves, HealthMoves
<1>3. QED
  BY <1>1, <1>2, PTL DEF PipelineSpec, Spec, ParseSpec, HealthSpec

\* The rows, the sessions and the messages of the three keep their types: automation/service.py,
\* screening/natural_language.py and ai_research/service.py.
THEOREM PipelineTypeCorrect == PipelineSpec => []PipelineTypeOK
<1>1. TypeOK /\ ParseTypeOK /\ HealthTypeOK => PipelineTypeOK
  BY DEF PipelineTypeOK
<1>2. QED
  BY <1>1, EachIsItself, TypeCorrect, ParseTypeCorrect, HealthTypeCorrect, PTL
=============================================================================
