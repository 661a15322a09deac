----------------------------- MODULE ScreenParse -----------------------------
(***************************************************************************)
(* NaturalLanguageScreeningService: a user's words become a query.  The    *)
(* words are kept for the worker under a key of their own, for a while,    *)
(* and are gone with their first reading; the database has their hash.     *)
(* Beside it the screens that the user saves, which have a limit too.      *)
(*                                                                         *)
(* One user with advanced access, one route of models, within one day.     *)
(***************************************************************************)
EXTENDS Integers, FiniteSets

CONSTANTS
    Texts,          \* what is asked, by its hash
    Advice,         \* those that ask for investment advice
    Names,          \* of saved screens
    Pages,          \* concurrent requests of the user
    Parsers,        \* screening.parse_natural_language tasks
    ParsesDaily, ParsesAtOnce, SavedLimit,  \* the user's limits
    ParseLease,     \* LEASE_MINUTES
    TextLife,       \* screen_parser_input_ttl_seconds
    ChainLength,    \* max_attempts
    MaxRequests,    \* bound
    MaxParseTime,   \* bound
    MaxParseLosses, \* bound: failed stores and sends, lost workers, repeated messages
    NoText

ASSUME ParseAssumption ==
    /\ Advice \subseteq Texts /\ NoText \notin Texts /\ IsFiniteSet(Texts) /\ IsFiniteSet(Pages)
    /\ {ParsesDaily, ParsesAtOnce, SavedLimit, TextLife} \subseteq Nat \ {0}
    /\ {ParseLease, ChainLength} \subseteq Nat \ {0}
    /\ {MaxRequests, MaxParseTime, MaxParseLosses} \subseteq Nat

VARIABLES
    parseTime,
    parses,         \* natural_language_screen_parse_runs
    kept,           \* screen-parse-input:<run>, by when it expires, or 0
    parseQueue,     \* how many messages there are of each run
    pages,
    parser,
    saved,          \* saved_screens
    sure,           \* the runs of which a request has been told that they are accepted
    requests, parseLosses

parseVars == <<parseTime, parses, kept, parseQueue, pages, parser, saved, sure, requests,
               parseLosses>>

NoParse == [status |-> "absent", lease |-> 0, of |-> NoText]
NoPage == [at |-> "idle", about |-> NoText]
NoParser == [at |-> "idle", on |-> NoText, text |-> NoText, attempt |-> 0]
SettledParse == {"succeeded", "failed", "rejected", "disabled"}
Working == {"mismatched", "calling", "parsed", "exhausted"}

ParseRows == [status : SettledParse \cup {"absent", "pending", "running"}, lease : Nat,
              of : Texts \cup {NoText}]
PageRows == [at : {"idle", "insert", "store", "send", "save"}, about : Texts \cup Names \cup {NoText}]
ParserRows == [at : Working \cup {"idle", "taken"}, on : Texts \cup {NoText},
               text : Texts \cup {NoText}, attempt : 0..ChainLength]

ParseTypeOK ==
    /\ parseTime \in Nat /\ requests \in Nat /\ parseLosses \in Nat
    /\ parses \in [Texts -> ParseRows]
    /\ kept \in [Texts -> Nat] /\ parseQueue \in [Texts -> Nat]
    /\ pages \in [Pages -> PageRows]
    /\ parser \in [Parsers -> ParserRows]
    /\ saved \subseteq Names /\ sure \subseteq Texts
    /\ \A t \in Texts : t \in Advice => parses[t].status \in {"absent", "rejected"}

ParseInit ==
    /\ parseTime = 0
    /\ parses = [t \in Texts |-> NoParse]
    /\ kept = [t \in Texts |-> 0]
    /\ parseQueue = [t \in Texts |-> 0]
    /\ pages = [g \in Pages |-> NoPage]
    /\ parser = [p \in Parsers |-> NoParser]
    /\ saved = {}
    /\ sure = {}
    /\ requests = 0 /\ parseLosses = 0

GoPage(g, at) == pages' = [pages EXCEPT ![g].at = at]
Rest(g) == pages' = [pages EXCEPT ![g] = NoPage]
Trouble == parseLosses < MaxParseLosses /\ parseLosses' = parseLosses + 1

-----------------------------------------------------------------------------
(* Requests *)

Counted == {t \in Texts : parses[t].status # "absent"}
Active == {t \in Texts : parses[t].status \in {"pending", "running"} /\ parses[t].lease > parseTime}

\* Both limits allow one more.
WithinLimits == Cardinality(Counted) < ParsesDaily /\ Cardinality(Active) < ParsesAtOnce

\* Variant and code: a run that was there is not enqueued; one that is pending is.
NeverAgain(t) == FALSE
SentAgain(t) == parses[t].status = "pending"

\* create_run, up to its insert: a run that exists is what the request is about.
LookForParse(g, t) ==
    /\ pages[g].at = "idle" /\ requests < MaxRequests
    /\ requests' = requests + 1
    /\ \/ /\ parses[t].status # "absent" /\ SentAgain(t)
          /\ pages' = [pages EXCEPT ![g] = [at |-> "store", about |-> t]]
          /\ UNCHANGED sure
       \/ /\ parses[t].status # "absent" /\ ~SentAgain(t)
          /\ sure' = sure \cup {t}
          /\ UNCHANGED pages
       \/ /\ parses[t].status = "absent" /\ WithinLimits
          /\ pages' = [pages EXCEPT ![g] = [at |-> "insert", about |-> t]]
          /\ UNCHANGED sure
    /\ UNCHANGED <<parseTime, parses, kept, parseQueue, parser, saved, parseLosses>>

\* As the options are; what asks for advice is rejected whatever they are.
StatusOfNew(t) == IF t \in Advice THEN {"rejected"} ELSE {"pending", "disabled"}

\* The insert: a run that has come in between raises.
InsertParse(g) ==
    /\ pages[g].at = "insert"
    /\ LET t == pages[g].about
       IN  IF parses[t].status # "absent" THEN Rest(g) /\ UNCHANGED parses
           ELSE \E status \in StatusOfNew(t) :
                  /\ parses' = [parses EXCEPT ![t] = [@ EXCEPT !.status = status,
                                                              !.lease = parseTime + ParseLease]]
                  /\ IF status = "pending" THEN GoPage(g, "store") ELSE Rest(g)
    /\ UNCHANGED <<parseTime, kept, parseQueue, parser, saved, sure, requests, parseLosses>>

\* enqueue_parse: the text first, then the message; the request answers 503 if one fails.
StoreText(g) ==
    /\ pages[g].at = "store"
    /\ \/ /\ kept' = [kept EXCEPT ![pages[g].about] = parseTime + TextLife]
          /\ GoPage(g, "send") /\ UNCHANGED parseLosses
       \/ Trouble /\ Rest(g) /\ UNCHANGED kept
    /\ UNCHANGED <<parseTime, parses, parseQueue, parser, saved, sure, requests>>

SendParse(g) ==
    /\ pages[g].at = "send"
    /\ Rest(g)
    /\ \/ /\ parseQueue' = [parseQueue EXCEPT ![pages[g].about] = @ + 1]
          /\ sure' = sure \cup {pages[g].about}
          /\ UNCHANGED parseLosses
       \/ Trouble /\ UNCHANGED <<parseQueue, sure>>
    /\ UNCHANGED <<parseTime, parses, kept, parser, saved, requests>>

\* create_saved_screen, up to its insert, also of a run that has been parsed.
LookForSaved(g, n, t) ==
    /\ pages[g].at = "idle" /\ requests < MaxRequests
    /\ t # NoText => parses[t].status = "succeeded"
    /\ Cardinality(saved) < SavedLimit
    /\ requests' = requests + 1
    /\ pages' = [pages EXCEPT ![g] = [at |-> "save", about |-> n]]
    /\ UNCHANGED <<parseTime, parses, kept, parseQueue, parser, saved, sure, parseLosses>>

\* The insert, which a name that is there raises at and changes nothing.
InsertSaved(g) ==
    /\ pages[g].at = "save"
    /\ saved' = saved \cup {pages[g].about}
    /\ Rest(g)
    /\ UNCHANGED <<parseTime, parses, kept, parseQueue, parser, sure, requests, parseLosses>>

\* update_saved_screen to another name, and delete_saved_screen.
RenameSaved(n, m) ==
    /\ n \in saved /\ m \notin saved /\ requests < MaxRequests
    /\ requests' = requests + 1
    /\ saved' = (saved \ {n}) \cup {m}
    /\ UNCHANGED <<parseTime, parses, kept, parseQueue, pages, parser, sure, parseLosses>>

DeleteSaved(n) ==
    /\ n \in saved /\ requests < MaxRequests
    /\ requests' = requests + 1
    /\ saved' = saved \ {n}
    /\ UNCHANGED <<parseTime, parses, kept, parseQueue, pages, parser, sure, parseLosses>>

-----------------------------------------------------------------------------
(* Parsing *)

\* The task reads the text and deletes it, before it looks at the run.
TakeParse(p, t) ==
    /\ parser[p].at = "idle" /\ parseQueue[t] > 0
    /\ parseQueue' = [parseQueue EXCEPT ![t] = @ - 1]
    /\ kept' = [kept EXCEPT ![t] = 0]
    /\ parser' = [parser EXCEPT ![p] = [NoParser EXCEPT !.at = "taken", !.on = t,
                                          !.text = IF kept[t] > parseTime THEN t ELSE NoText]]
    /\ UNCHANGED <<parseTime, parses, pages, saved, sure, requests, parseLosses>>

\* Variant and code: whatever has become of it.
PendingOrLapsed(t) == parses[t].status = "pending" \/ parses[t].lease < parseTime
FreeToParse(t) ==
    parses[t].status = "pending" \/ (parses[t].status = "running" /\ parses[t].lease < parseTime)

\* A text of another hash is not taken for the run's.
HashMatches(t, text) == text = t

ClaimParse(p) ==
    /\ parser[p].at = "taken"
    /\ LET t == parser[p].on
       IN  IF FreeToParse(t)
           THEN /\ parses' = [parses EXCEPT ![t] = [@ EXCEPT !.status = "running",
                                                            !.lease = parseTime + ParseLease]]
                /\ parser' = [parser EXCEPT ![p].at =
                                IF HashMatches(t, parser[p].text) THEN "calling" ELSE "mismatched"]
           ELSE parser' = [parser EXCEPT ![p] = NoParser] /\ UNCHANGED parses
    /\ UNCHANGED <<parseTime, kept, parseQueue, pages, saved, sure, requests, parseLosses>>

Attempted(row, at) == [row EXCEPT !.attempt = @ + 1, !.at = at]

\* A model of the chain is called and audited.  Its answer is valid, or the next one is called.
\* At the deadline, and when the options have no more models, the chain is exhausted.
CallModel(p) ==
    /\ parser[p].at = "calling"
    /\ \/ /\ parser[p].attempt < ChainLength
          /\ \E at \in {"calling", "parsed"} :
               parser' = [parser EXCEPT ![p] = Attempted(@, at)]
       \/ parser' = [parser EXCEPT ![p].at = "exhausted"]
    /\ UNCHANGED <<parseTime, parses, kept, parseQueue, pages, saved, sure, requests, parseLosses>>

\* The last write of a task, of its result or of _fail: blind.
EndParse(p) ==
    /\ parser[p].at \in {"mismatched", "parsed", "exhausted"}
    /\ parses' = [parses EXCEPT ![parser[p].on] =
         IF parser[p].at = "parsed" THEN [@ EXCEPT !.status = "succeeded", !.of = parser[p].text]
         ELSE [@ EXCEPT !.status = "failed", !.of = NoText]]
    /\ parser' = [parser EXCEPT ![p] = NoParser]
    /\ UNCHANGED <<parseTime, kept, parseQueue, pages, saved, sure, requests, parseLosses>>

\* The message is delivered again, because its worker is lost or before it is acknowledged.
RepeatParse(p) ==
    /\ parser[p].at # "idle"
    /\ Trouble
    /\ parseQueue' = [parseQueue EXCEPT ![parser[p].on] = @ + 1]
    /\ parser' \in {parser, [parser EXCEPT ![p] = NoParser]}
    /\ UNCHANGED <<parseTime, parses, kept, pages, saved, sure, requests>>

\* Time: a task ends within its lease, by the deadline of the run and the timeouts of its calls.
PassParseTime ==
    /\ parseTime < MaxParseTime
    /\ \A p \in Parsers : parser[p].at \in Working => parseTime < parses[parser[p].on].lease
    /\ parseTime' = parseTime + 1
    /\ UNCHANGED <<parses, kept, parseQueue, pages, parser, saved, sure, requests, parseLosses>>

ParseNext ==
    \/ \E g \in Pages :
         \/ \E t \in Texts : LookForParse(g, t)
         \/ InsertParse(g) \/ StoreText(g) \/ SendParse(g)
         \/ \E n \in Names, t \in Texts \cup {NoText} : LookForSaved(g, n, t)
         \/ InsertSaved(g)
    \/ \E n, m \in Names : RenameSaved(n, m)
    \/ \E n \in Names : DeleteSaved(n)
    \/ \E p \in Parsers :
         \/ \E t \in Texts : TakeParse(p, t)
         \/ ClaimParse(p) \/ CallModel(p) \/ EndParse(p) \/ RepeatParse(p)
    \/ PassParseTime

ParseSpec == ParseInit /\ [][ParseNext]_parseVars

-----------------------------------------------------------------------------
(* Properties *)

\* However messages are repeated and workers lost, one task at a time calls models for a run.
OneTaskCalls ==
    \A p, r \in Parsers :
        p # r /\ parser[p].at \in Working /\ parser[r].at \in Working => parser[p].on # parser[r].on

\* What has been parsed for a run is its own text: a task that comes to it after the text has
\* expired, or has been read by another task, does not parse what it has instead.
ParsedIsItsText == \A t \in Texts : parses[t].status = "succeeded" => parses[t].of = t

\* The limits are checked before the insert and not held: requests that are checked together
\* may pass them, but by no more than the requests there are at a time.
OvershootIsBounded ==
    /\ Cardinality(Counted) <= ParsesDaily + Cardinality(Pages) - 1
    /\ Cardinality(saved) <= SavedLimit + Cardinality(Pages) - 1

\* A run that the user has been told is accepted has a message for as long as it is pending,
\* although the run may have been made by a request whose own message failed.
AcceptedIsOnItsWay ==
    \A t \in sure : parses[t].status = "pending" =>
        parseQueue[t] > 0 \/ \E p \in Parsers : parser[p].at = "taken" /\ parser[p].on = t

\* What has become of a run stays: no late or second task writes over it.
SettledParseStays ==
    [][\A t \in Texts : parses[t].status \in SettledParse => parses'[t] = parses[t]]_parseVars

\* The phase of a run, as the user who asked sees it.
ParsePhase(status) ==
    CASE status = "absent" -> "new"
      [] status \in {"rejected", "disabled"} -> "declined"
      [] status \in {"pending", "running"} -> "open"
      [] status = "failed" -> "failed"
      [] status = "succeeded" -> "answered"

ParseOrders == INSTANCE WorkOrders WITH
    Orders <- Texts,
    AnswersTo <- [t \in Texts |-> {t}],
    Unanswered <- NoText,
    order <- [t \in Texts |-> ParsePhase(parses[t].status)],
    answer <- [t \in Texts |-> parses[t].of]

\* A text is parsed at most once, into what it says, however its message and its words travel: no
\* late or second task writes over what has become of its run.
ParsesAreOrderly == ParseOrders!OrdersSpec
=============================================================================
