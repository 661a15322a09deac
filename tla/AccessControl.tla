---------------------------- MODULE AccessControl ----------------------------
(***************************************************************************)
(* AccessControlService: operators issue codes that are bound to a user,   *)
(* the user redeems them for months or years of advanced access.           *)
(*                                                                         *)
(* activate reads its clock first and then waits for two row locks, that   *)
(* of the code and that of the user's subscription; there is no row to     *)
(* lock before the first redemption has committed.                         *)
(*                                                                         *)
(* A day is numbered 31 * month + day, from day 0 of month 0, and months   *)
(* have different lengths, so that numbers that are no day are left out.   *)
(* Users are verified and activation is available: else activate raises    *)
(* before it reads a code.                                                 *)
(***************************************************************************)
EXTENDS Integers, FiniteSets

CONSTANTS
    Codes,        \* activation codes, each with a batch of its own
    Holders,      \* users
    HolderOf,     \* assigned_user_id
    TermOf,       \* term_kind of the code's batch: "month" or "year"
    Cycle,        \* the months after which the calendar repeats itself
    MonthLength,  \* days of the months of a cycle
    YearMonths,   \* months of a year
    LastDay,      \* the clock's bound
    Activations,  \* concurrent calls of activate
    Never         \* no day, no code

ASSUME CodesAssumption ==
    /\ HolderOf \in [Codes -> Holders]
    /\ TermOf \in [Codes -> {"month", "year"}]
    /\ Never \notin Codes /\ Never \notin Nat
ASSUME CalendarAssumption ==
    /\ Cycle \in Nat \ {0} /\ YearMonths \in Nat \ {0} /\ LastDay \in Nat
    /\ MonthLength \in [0..(Cycle - 1) -> 1..31]

VARIABLES
    today,
    code,          \* access_activation_codes
    subscription,  \* subscriptions
    redemption,    \* access_activation_redemptions, by code
    call           \* the calls of activate

accessVars == <<today, code, subscription, redemption, call>>

-----------------------------------------------------------------------------
(* The calendar *)

Month(i) == i \div 31
DayOf(i) == i % 31
DaysIn(m) == MonthLength[m % Cycle]
IsDay(i) == i \in Nat /\ DayOf(i) < DaysIn(Month(i))
NextDay(i) == IF DayOf(i) + 1 < DaysIn(Month(i)) THEN i + 1 ELSE 31 * (Month(i) + 1)

\* add_calendar_term: the same day of a later month, or that month's last day.
AddCalendarTerm(i, term) ==
    LET m == Month(i) + IF term = "year" THEN YearMonths ELSE 1
    IN  31 * m + IF DayOf(i) < DaysIn(m) THEN DayOf(i) ELSE DaysIn(m) - 1

-----------------------------------------------------------------------------
CodeRows == [is : {"absent", "open", "redeemed"}, expires : Nat]
SubscriptionRows == [start : Nat, end : Nat]
RedemptionRows == [start : Nat, end : Nat]

NoPeriod == [start |-> 0, end |-> 0]
Resting == [at |-> "idle", code |-> Never, now |-> 0, locks |-> FALSE, previous |-> NoPeriod]

AccessTypeOK ==
    /\ IsDay(today)
    /\ code \in [Codes -> CodeRows]
    /\ subscription \in [Holders -> SubscriptionRows]
    /\ \A h \in Holders : IsDay(subscription[h].start) /\ IsDay(subscription[h].end)
    /\ redemption \in [Codes -> RedemptionRows]
    /\ call \in [Activations -> [at : {"idle", "holding", "reading"}, code : Codes \cup {Never},
                                 now : Nat, locks : BOOLEAN, previous : SubscriptionRows]]

AccessInit ==
    /\ today = 0
    /\ code = [c \in Codes |-> [is |-> "absent", expires |-> 0]]
    /\ subscription = [h \in Holders |-> NoPeriod]
    /\ redemption = [c \in Codes |-> NoPeriod]
    /\ call = [p \in Activations |-> Resting]

DayPasses ==
    /\ today < LastDay
    /\ today' = NextDay(today)
    /\ UNCHANGED <<code, subscription, redemption, call>>

\* issue_access_code
IssueCode(c, expires) ==
    /\ code[c].is = "absent"
    /\ expires > today
    /\ code' = [code EXCEPT ![c] = [is |-> "open", expires |-> expires]]
    /\ UNCHANGED <<today, subscription, redemption, call>>

-----------------------------------------------------------------------------
(* activate *)

\* The clock is read and the code is sought.
Activate(p, c) ==
    /\ call[p].at = "idle"
    /\ code[c].is # "absent"
    /\ call' = [call EXCEPT ![p] = [Resting EXCEPT !.at = "holding", !.code = c, !.now = today]]
    /\ UNCHANGED <<today, code, subscription, redemption>>

\* FOR UPDATE of the code: the other calls that have it have ended.
CodeIsFree(p) == \A q \in Activations \ {p} : call[q].at = "reading" => call[q].code # call[p].code

Redeemable(p) == code[call[p].code].is = "open" /\ code[call[p].code].expires > call[p].now

\* FOR UPDATE of the subscription, whose row exists.
SubscriptionIsFree(p) ==
    LET h == HolderOf[call[p].code]
    IN  \A q \in Activations \ {p} :
            ~(call[q].at = "reading" /\ call[q].locks /\ HolderOf[call[q].code] = h)

\* The code is locked and judged, the subscription is locked and read.
ReadSubscription(p) ==
    LET h == HolderOf[call[p].code]
    IN  /\ call[p].at = "holding"
        /\ CodeIsFree(p)
        /\ Redeemable(p)
        /\ subscription[h] # NoPeriod => SubscriptionIsFree(p)
        /\ call' = [call EXCEPT ![p] = [@ EXCEPT !.at = "reading", !.previous = subscription[h],
                                                 !.locks = subscription[h] # NoPeriod]]
        /\ UNCHANGED <<today, code, subscription, redemption>>

\* The code was redeemed, or cannot be: activate answers.
Answer(p) ==
    /\ call[p].at = "holding"
    /\ CodeIsFree(p)
    /\ ~Redeemable(p)
    /\ call' = [call EXCEPT ![p] = Resting]
    /\ UNCHANGED <<today, code, subscription, redemption>>

\* Where a new period starts.
PeriodStart(p) == IF call[p].previous.end > call[p].now THEN call[p].previous.end ELSE call[p].now

\* A variant: the subscription shows the newest period only.
NewestPeriod(p) == PeriodStart(p)

\* Where the subscription as a whole starts.
SubscriptionStart(p) ==
    IF call[p].previous.end > call[p].now THEN call[p].previous.start ELSE call[p].now

\* uq_subscriptions_user: another call has created the row.
Created(p) == call[p].previous = NoPeriod /\ subscription[HolderOf[call[p].code]] # NoPeriod

\* The commit of activate.
Redeem(p) ==
    LET c == call[p].code
        end == AddCalendarTerm(PeriodStart(p), TermOf[c])
    IN  /\ call[p].at = "reading"
        /\ ~Created(p)
        /\ subscription' = [subscription EXCEPT ![HolderOf[c]] =
                              [start |-> SubscriptionStart(p), end |-> end]]
        /\ redemption' = [redemption EXCEPT ![c] = [start |-> PeriodStart(p), end |-> end]]
        /\ code' = [code EXCEPT ![c] = [@ EXCEPT !.is = "redeemed"]]
        /\ call' = [call EXCEPT ![p] = Resting]
        /\ UNCHANGED today

\* The conflict, an error or a lost process: the transaction is rolled back.
ActivationFails(p) ==
    /\ call[p].at # "idle"
    /\ call' = [call EXCEPT ![p] = Resting]
    /\ UNCHANGED <<today, code, subscription, redemption>>

AccessNext ==
    \/ DayPasses
    \/ \E c \in Codes, expires \in {31 * (Month(today) + 1)} : IssueCode(c, expires)
    \/ \E p \in Activations :
         \/ \E c \in Codes : Activate(p, c)
         \/ ReadSubscription(p) \/ Answer(p) \/ Redeem(p) \/ ActivationFails(p)

AccessSpec == AccessInit /\ [][AccessNext]_accessVars

-----------------------------------------------------------------------------
(* Properties *)

Redeemed == {c \in Codes : code[c].is = "redeemed"}

\* effective_entitlements: the user has advanced access today.
Enabled(h) == subscription[h].start <= today /\ today < subscription[h].end

\* No two codes of a user pay for the same day.
PeriodsAreApart ==
    \A c, d \in Redeemed : c # d /\ HolderOf[c] = HolderOf[d]
        => redemption[c].end <= redemption[d].start \/ redemption[d].end <= redemption[c].start

\* A day that a redeemed code has paid for is a day of advanced access.
PaidDaysAreEnabled ==
    \A c \in Redeemed :
        redemption[c].start <= today /\ today < redemption[c].end => Enabled(HolderOf[c])
=============================================================================
