---------------------------- MODULE ResearchFeed ----------------------------
(***************************************************************************)
(* ResearchFeedService for one stock: what is known about it becomes       *)
(* signals, signals become alerts of the users who watch it, and users     *)
(* page through the feed.                                                  *)
(*                                                                         *)
(* A session projects in one transaction, live (the step                   *)
(* signal_projection of an automation run) or historically (a backfill's   *)
(* item, the task, the command line); the first to commit decides what a   *)
(* signal is.  A live session then dispatches its signals one transaction  *)
(* after another.  A dispatch reads the memberships once and the settings  *)
(* user by user; its row in research_alert_dispatch_runs is never visible  *)
(* before its deliveries.                                                  *)
(*                                                                         *)
(* A source, the signal of it and its semantic fingerprint share a name.   *)
(* An instant is a tick of a clock; two things may happen at one instant.  *)
(***************************************************************************)
EXTENDS Integers, FiniteSets

CONSTANTS
    Sources,     \* observations, peer observations, corporate events
    Group,       \* dedup_group_key of a source
    Attention,   \* its rank: info 1, notice 2, important 3
    Id,          \* the order of the signals' ids
    Users,
    Sessions,
    Window,      \* ALERT_LATE_ARRIVAL_WINDOW
    PageSize,    \* limit of a page of the feed
    MaxTime,     \* the clock's bound
    None

ASSUME SourcesAssumption ==
    /\ None \notin Sources /\ IsFiniteSet(Sources)
    /\ Attention \in [Sources -> 1..3]
    /\ Id \in [Sources -> Nat] /\ \A s, t \in Sources : Id[s] = Id[t] => s = t
ASSUME BoundsAssumption == Window \in Nat /\ PageSize \in Nat \ {0} /\ MaxTime \in Nat

VARIABLES
    now,
    known,       \* known_at of the sources that are retained, else None
    signal,      \* research_signals: "absent", "silent", or "eligible" for alerts
    watch,       \* created_at of the user's watchlist item, else None
    setting,     \* user_research_alert_settings: would they let a signal pass, since when
    dispatched,  \* the signals with a row in research_alert_dispatch_runs
    delivery,    \* user_research_alert_deliveries
    session,     \* the sessions of the workers
    page         \* the feed as each user pages through it

feedVars == <<now, known, signal, watch, setting, dispatched, delivery, session, page>>

Instants == 0..MaxTime
Idle == [at |-> "idle", live |-> FALSE, new |-> {}, fit |-> {}, signal |-> None,
         members |-> [u \in Users |-> None], unread |-> {}, matched |-> {}]
Closed == [at |-> "closed", cutoff |-> 0, cursor |-> None, shown |-> {}, rows |-> 0]

FeedTypeOK ==
    /\ now \in Instants
    /\ known \in [Sources -> Instants \cup {None}]
    /\ signal \in [Sources -> {"absent", "silent", "eligible"}]
    /\ watch \in [Users -> Instants \cup {None}]
    /\ setting \in [Users -> [is : {"absent", "on", "off"}, at : Instants]]
    /\ dispatched \subseteq Sources
    /\ delivery \subseteq Users \X Sources
    /\ session \in [Sessions -> [at : {"idle", "projecting", "dispatching", "matching"},
                                 live : BOOLEAN, new : SUBSET Sources, fit : SUBSET Sources,
                                 signal : Sources \cup {None},
                                 members : [Users -> Instants \cup {None}],
                                 unread : SUBSET Users, matched : SUBSET Users]]
    /\ page \in [Users -> [at : {"closed", "open"}, cutoff : Instants,
                           cursor : Sources \cup {None}, shown : SUBSET Sources,
                           rows : 0..(PageSize * Cardinality(Sources))]]

FeedInit ==
    /\ now = 0
    /\ known = [s \in Sources |-> None]
    /\ signal = [s \in Sources |-> "absent"]
    /\ watch = [u \in Users |-> None]
    /\ setting = [u \in Users |-> [is |-> "absent", at |-> 0]]
    /\ dispatched = {}
    /\ delivery = {}
    /\ session = [p \in Sessions |-> Idle]
    /\ page = [u \in Users |-> Closed]

-----------------------------------------------------------------------------
(* Time, artifacts and users *)

Tick ==
    /\ now < MaxTime
    /\ now' = now + 1
    /\ UNCHANGED <<known, signal, watch, setting, dispatched, delivery, session, page>>

\* A research, peer or event service retains an artifact, perhaps long after its known_at.
Retain(s, k) ==
    /\ known[s] = None
    /\ k <= now
    /\ known' = [known EXCEPT ![s] = k]
    /\ UNCHANGED <<now, signal, watch, setting, dispatched, delivery, session, page>>

\* Watchlists: the earliest of the user's items for this stock.
AddToWatchlist(u) ==
    /\ watch[u] = None
    /\ watch' = [watch EXCEPT ![u] = now]
    /\ UNCHANGED <<now, known, signal, setting, dispatched, delivery, session, page>>

RemoveFromWatchlist(u) ==
    /\ watch[u] # None
    /\ watch' = [watch EXCEPT ![u] = None]
    /\ UNCHANGED <<now, known, signal, setting, dispatched, delivery, session, page>>

\* get_settings, which creates the row; whether its defaults let a signal pass is the signal's
\* attention, and the same for all here.
CreateSettings(u, v) ==
    /\ setting[u].is = "absent"
    /\ setting' = [setting EXCEPT ![u] = [is |-> v, at |-> now]]
    /\ UNCHANGED <<now, known, signal, watch, dispatched, delivery, session, page>>

\* update_settings
UpdateSettings(u, v) ==
    /\ setting' = [setting EXCEPT ![u] = [is |-> v, at |-> now]]
    /\ UNCHANGED <<now, known, signal, watch, dispatched, delivery, session, page>>

-----------------------------------------------------------------------------
(* Projection *)

Retained == {s \in Sources : known[s] # None}
Signals == {s \in Sources : signal[s] # "absent"}

\* alert_eligible of a source at the instant it is projected.
Eligible(s, live) == live /\ known[s] >= now - Window

\* project_symbol reads the artifacts and which of them are projected.
Project(p, live) ==
    /\ session[p].at = "idle"
    /\ LET new == Retained \ Signals
       IN  /\ new # {}
           /\ session' = [session EXCEPT ![p] =
                            [Idle EXCEPT !.at = "projecting", !.live = live, !.new = new,
                                         !.fit = {s \in new : Eligible(s, live)}]]
    /\ UNCHANGED <<now, known, signal, watch, setting, dispatched, delivery, page>>

\* uq_research_signal_semantic: one of the rows exists by now.
Conflicts(p) == session[p].new \cap Signals # {}

\* The commit of project_symbol; its caller goes on if it is live.
ProjectCommits(p) ==
    /\ session[p].at = "projecting"
    /\ ~Conflicts(p)
    /\ signal' = [s \in Sources |-> IF s \notin session[p].new THEN signal[s]
                                    ELSE IF s \in session[p].fit THEN "eligible" ELSE "silent"]
    /\ session' = [session EXCEPT ![p] =
                     IF session[p].live THEN [Idle EXCEPT !.at = "dispatching",
                                                          !.new = session[p].new]
                     ELSE Idle]
    /\ UNCHANGED <<now, known, watch, setting, dispatched, delivery, page>>

-----------------------------------------------------------------------------
(* Dispatch *)

\* uq_research_alert_dispatch_run: another session's row, not committed yet.
Matching(s) == \E p \in Sessions : session[p].at = "matching" /\ session[p].signal = s

\* A live session turns to the next of its signals; the task and the command line take any.
MayDispatch(p, s) ==
    \/ session[p].at = "dispatching" /\ s \in session[p].new
    \/ session[p].at = "idle" /\ s \in Signals

\* dispatch: the row of the run is flushed, once no other has it; the memberships are read.
DispatchBegins(p, s) ==
    /\ MayDispatch(p, s)
    /\ s \notin dispatched
    /\ ~Matching(s)
    /\ session' = [session EXCEPT ![p] =
                     [session[p] EXCEPT !.at = "matching", !.signal = s, !.members = watch,
                                        !.new = @ \ {s}, !.matched = {},
                                        !.unread = {u \in Users : watch[u] # None}]]
    /\ UNCHANGED <<now, known, signal, watch, setting, dispatched, delivery, page>>

\* A variant: the comparison is the wrong way round.
DeliverToNewcomers(s, addedAt, is) == signal[s] = "eligible" /\ is = "on" /\ addedAt > known[s]

\* should_deliver_alert
ShouldDeliver(s, addedAt, is) == signal[s] = "eligible" /\ is = "on" /\ addedAt < known[s]

\* The settings of one of the members.
MatchUser(p, u) ==
    /\ session[p].at = "matching"
    /\ u \in session[p].unread
    /\ session' = [session EXCEPT ![p] =
                     [session[p] EXCEPT
                        !.unread = @ \ {u},
                        !.matched = IF ShouldDeliver(session[p].signal, session[p].members[u],
                                                     setting[u].is)
                                    THEN @ \cup {u} ELSE @]]
    /\ UNCHANGED <<now, known, signal, watch, setting, dispatched, delivery, page>>

\* Where a dispatch leaves its session.
AfterDispatch(p) ==
    IF session[p].new = {} THEN Idle ELSE [Idle EXCEPT !.at = "dispatching", !.new = session[p].new]

\* The commit of dispatch.
DispatchCommits(p) ==
    /\ session[p].at = "matching"
    /\ session[p].unread = {}
    /\ dispatched' = dispatched \cup {session[p].signal}
    /\ delivery' = delivery \cup (session[p].matched \X {session[p].signal})
    /\ session' = [session EXCEPT ![p] = AfterDispatch(p)]
    /\ UNCHANGED <<now, known, signal, watch, setting, page>>

\* The run exists: dispatch is skipped.
DispatchSkips(p, s) ==
    /\ session[p].at = "dispatching" /\ s \in session[p].new
    /\ s \in dispatched
    /\ session' = [session EXCEPT ![p].new = @ \ {s},
                                  ![p].at = IF session[p].new = {s} THEN "idle" ELSE @]
    /\ UNCHANGED <<now, known, signal, watch, setting, dispatched, delivery, page>>

\* A conflict, an error or a lost worker: the transaction is rolled back, and what a live
\* session had still to dispatch is forgotten.
Fail(p) ==
    /\ session[p].at # "idle"
    /\ session' = [session EXCEPT ![p] = Idle]
    /\ UNCHANGED <<now, known, signal, watch, setting, dispatched, delivery, page>>

-----------------------------------------------------------------------------
(* The feed *)

\* The best row of each group of what the user may see; the feed's fourteen days are longer
\* than the clock runs.
Supersedes(s, t) == known[s] > known[t] \/ (known[s] = known[t] /\ Id[s] < Id[t])
Visible(u, cutoff) == {s \in Signals : watch[u] # None /\ known[s] <= cutoff}
Latest(u, cutoff) ==
    {s \in Visible(u, cutoff) :
        \A t \in Visible(u, cutoff) : Group[s] = Group[t] => ~Supersedes(t, s)}

\* The order of the feed, which is that of its cursors.
InFront(s, t) ==
    \/ known[s] > known[t]
    \/ known[s] = known[t] /\ Attention[s] > Attention[t]
    \/ known[s] = known[t] /\ Attention[s] = Attention[t] /\ Id[s] < Id[t]

\* The predicate of the next page.
AfterCursor(c, s) == c = None \/ InFront(c, s)

\* feed: the first PageSize rows after the cursor; there is a next page if there are more.
ReadPage(u, old) ==
    LET rest == {s \in Latest(u, old.cutoff) : AfterCursor(old.cursor, s)}
        rows == {s \in rest : Cardinality({t \in rest : InFront(t, s)}) < PageSize}
        last == CHOOSE s \in rows : \A t \in rows : ~InFront(s, t)
    IN  page' = [page EXCEPT ![u] =
                   [at |-> IF rows = rest THEN "closed" ELSE "open",
                    cutoff |-> old.cutoff,
                    cursor |-> IF rows = rest THEN None ELSE last,
                    shown |-> old.shown \cup rows,
                    rows |-> old.rows + Cardinality(rows)]]

OpenFeed(u) ==
    /\ page[u].at = "closed"
    /\ ReadPage(u, [Closed EXCEPT !.cutoff = now])
    /\ UNCHANGED <<now, known, signal, watch, setting, dispatched, delivery, session>>

NextPage(u) ==
    /\ page[u].at = "open"
    /\ ReadPage(u, page[u])
    /\ UNCHANGED <<now, known, signal, watch, setting, dispatched, delivery, session>>

FeedNext ==
    \/ Tick
    \/ \E s \in Sources, k \in Instants : Retain(s, k)
    \/ \E u \in Users : \/ AddToWatchlist(u) \/ RemoveFromWatchlist(u)
                        \/ OpenFeed(u) \/ NextPage(u)
                        \/ \E v \in {"on", "off"} : CreateSettings(u, v) \/ UpdateSettings(u, v)
    \/ \E p \in Sessions :
         \/ \E live \in BOOLEAN : Project(p, live)
         \/ ProjectCommits(p) \/ DispatchCommits(p) \/ Fail(p)
         \/ \E s \in Sources : DispatchBegins(p, s) \/ DispatchSkips(p, s)
         \/ \E u \in Users : MatchUser(p, u)

FeedSpec == FeedInit /\ [][FeedNext]_feedVars

-----------------------------------------------------------------------------
(* Properties *)

\* Who has watched a stock, and let its signals pass, since before a signal was known, and
\* still does, has been alerted once the signal's dispatch has committed.
SteadyWatcherIsAlerted ==
    \A u \in Users, s \in dispatched :
        /\ signal[s] = "eligible"
        /\ watch[u] # None /\ watch[u] < known[s]
        /\ setting[u].is = "on" /\ setting[u].at < known[s]
        => <<u, s>> \in delivery

\* What is projected stays as its first projection made it.
SignalsAreImmutable == [][\A s \in Signals : signal'[s] = signal[s]]_signal

\* A signal is matched once: whoever begins to watch, or dispatches again, changes nothing.
AlertsOnce ==
    [][\A u \in Users, s \in dispatched : <<u, s>> \in delivery' => <<u, s>> \in delivery]_delivery

\* Paging shows no row a second time while signals arrive.
PagesShowOnce == \A u \in Users : page[u].rows = Cardinality(page[u].shown)

\* "Feed cursors freeze a query_cutoff and sort by known time, attention and signal identity so
\* pagination remains stable while new signals arrive": a signal that arrives takes no group
\* from the pages that are still to come.
GroupsAhead(u) ==
    {Group[s] : s \in {s \in Latest(u, page[u].cutoff) : AfterCursor(page[u].cursor, s)}}
PagingIsStable ==
    [][\A u \in Users : page[u].at = "open" => GroupsAhead(u) \subseteq GroupsAhead(u)']_signal
=============================================================================
