-------------------------- MODULE TransactionalEmail --------------------------
(***************************************************************************)
(* A row of transactional_email_deliveries from the call that creates it   *)
(* (AuthService._deliver_email, the dispatch of a cohort) over the Celery  *)
(* task that hands the mail to Resend to the webhooks that report what     *)
(* became of it.                                                           *)
(*                                                                         *)
(* The task keeps the row locked while it talks to Resend.  A webhook that *)
(* finds no row with its message id retains its event as unmatched and     *)
(* never looks again.  A task commits a failure only for the errors its    *)
(* except clause names; any other leaves the row as it was.                *)
(*                                                                         *)
(* Resend (not part of this code) accepts a mail once per idempotency key, *)
(* numbers its events by the instant they happen, and reports each of them *)
(* in any order, perhaps more than once.                                   *)
(***************************************************************************)
EXTENDS Integers, FiniteSets

CONSTANTS
    Mails,       \* logical delivery keys
    Mailers,     \* workers
    MaxRetries,  \* max_retries of the task
    MaxMailTime, \* the clock's bound
    MaxLosses,   \* bound on lost workers and on copies the broker delivers again
    NoMail       \* no mail, no instant

ASSUME MailAssumption ==
    /\ IsFiniteSet(Mailers) /\ NoMail \notin Mails /\ NoMail \notin Nat
    /\ MaxRetries \in Nat /\ MaxMailTime \in Nat /\ MaxLosses \in Nat

VARIABLES
    clock,
    row,       \* transactional_email_deliveries
    mailing,    \* the request that created the row: what it has still to do
    task,      \* the broker: copies of the task's message, and its retries
    mailer,    \* the workers
    provider,  \* Resend: the events of an accepted mail, by the instant of each
    received,  \* transactional_email_provider_events: the events and how they were filed
    losses

mailVars == <<clock, row, mailing, task, mailer, provider, received, losses>>

-----------------------------------------------------------------------------
Events == {"sent", "delivered", "delayed", "bounced"}
EventStatus == [e \in Events |-> IF e = "sent" THEN "submitted" ELSE e]   \* STATUS_BY_EVENT
Instants0 == (0..MaxMailTime) \cup {NoMail}

DeliveryRows == [status : {"absent", "pending", "failed", "sent"} \cup {EventStatus[e] : e \in Events},
                 message : BOOLEAN, lastEvent : Instants0]
ReceivedRows == [Events -> {"no", "processed", "unmatched"}]
Resting0 == [at |-> "idle", mail |-> NoMail]

MailTypeOK ==
    /\ clock \in 0..MaxMailTime
    /\ row \in [Mails -> DeliveryRows]
    /\ mailing \in [Mails -> {"none", "owes", "failing", "done", "lost"}]
    /\ task \in [Mails -> [copies : 0..(MaxLosses + 1), retries : 0..MaxRetries]]
    /\ mailer \in [Mailers -> [at : {"idle", "sending", "accepted", "refused", "raised", "unacked"},
                               mail : Mails \cup {NoMail}]]
    /\ provider \in [Mails -> [Events -> Instants0]]
    /\ received \in [Mails -> ReceivedRows]
    /\ losses \in 0..MaxLosses

MailInit ==
    /\ clock = 0
    /\ row = [m \in Mails |-> [status |-> "absent", message |-> FALSE, lastEvent |-> NoMail]]
    /\ mailing = [m \in Mails |-> "none"]
    /\ task = [m \in Mails |-> [copies |-> 0, retries |-> 0]]
    /\ mailer = [w \in Mailers |-> Resting0]
    /\ provider = [m \in Mails |-> [e \in Events |-> NoMail]]
    /\ received = [m \in Mails |-> [e \in Events |-> "no"]]
    /\ losses = 0

ClockTicks ==
    /\ clock < MaxMailTime
    /\ clock' = clock + 1
    /\ UNCHANGED <<row, mailing, task, mailer, provider, received, losses>>

\* FOR UPDATE of the row by a task that has not committed.
RowIsFree(m) ==
    \A w \in Mailers : mailer[w].mail = m => mailer[w].at \in {"idle", "unacked"}

-----------------------------------------------------------------------------
(* The request *)

\* resend_verification, request_password_reset, dispatch: the commit of the row.
CreateDelivery(m) ==
    /\ mailing[m] = "none"
    /\ row' = [row EXCEPT ![m].status = "pending"]
    /\ mailing' = [mailing EXCEPT ![m] = "owes"]
    /\ UNCHANGED <<clock, task, mailer, provider, received, losses>>

\* send_task puts the message on the queue; it may raise all the same.
SendTask(m, raises) ==
    /\ mailing[m] = "owes"
    /\ mailing' = [mailing EXCEPT ![m] = IF raises THEN "failing" ELSE "done"]
    /\ task' = [task EXCEPT ![m].copies = @ + 1]
    /\ UNCHANGED <<clock, row, mailer, provider, received, losses>>

\* send_task raises and the broker has nothing.
BrokerRefuses(m) ==
    /\ mailing[m] = "owes"
    /\ mailing' = [mailing EXCEPT ![m] = "failing"]
    /\ UNCHANGED <<clock, row, task, mailer, provider, received, losses>>

\* The except clause writes failed over whatever the row has become.
SenderFails(m) ==
    /\ mailing[m] = "failing"
    /\ RowIsFree(m)
    /\ row' = [row EXCEPT ![m].status = "failed"]
    /\ mailing' = [mailing EXCEPT ![m] = "done"]
    /\ UNCHANGED <<clock, task, mailer, provider, received, losses>>

\* Resend is not configured: another gateway sends at once, or refuses to.
SendDirectly(m, verdict) ==
    /\ mailing[m] = "owes"
    /\ row' = [row EXCEPT ![m].status = verdict]
    /\ mailing' = [mailing EXCEPT ![m] = "done"]
    /\ UNCHANGED <<clock, task, mailer, provider, received, losses>>

\* The request ends with the row as it is: its process is lost, the runtime of Resend cannot be
\* read, or another gateway raises what the except clause does not name.
SenderStops(m) ==
    /\ mailing[m] \in {"owes", "failing"}
    /\ mailing' = [mailing EXCEPT ![m] = "lost"]
    /\ UNCHANGED <<clock, row, task, mailer, provider, received, losses>>

-----------------------------------------------------------------------------
(* The task *)

\* What a task leaves alone.
Skipped(m) == row[m].status \in {"submitted", "delivered"}

\* _deliver_transactional_email to the call of the gateway.
TakeTask(w, m) ==
    /\ mailer[w].at = "idle"
    /\ task[m].copies > Cardinality({v \in Mailers : mailer[v].mail = m})
    /\ RowIsFree(m)
    /\ mailer' = [mailer EXCEPT ![w] = [at |-> IF Skipped(m) THEN "unacked" ELSE "sending", mail |-> m]]
    /\ UNCHANGED <<clock, row, mailing, task, provider, received, losses>>

\* Resend accepts the mail, now or at an earlier call.  Its answer may be lost, and one that is
\* not JSON raises what the task does not catch.
GatewayAccepts(w, outcome) ==
    LET m == mailer[w].mail
    IN  /\ mailer[w].at = "sending"
        /\ mailer' = [mailer EXCEPT ![w].at = outcome]
        /\ provider' = [provider EXCEPT ![m]["sent"] = IF @ = NoMail THEN clock ELSE @]
        /\ UNCHANGED <<clock, row, mailing, task, received, losses>>

\* No mail: Resend refuses it, or the gateway cannot be built (outside the try).
GatewayRefuses(w, outcome) ==
    /\ mailer[w].at = "sending"
    /\ mailer' = [mailer EXCEPT ![w].at = outcome]
    /\ UNCHANGED <<clock, row, mailing, task, provider, received, losses>>

\* The commit of a mail that was accepted; the message is acknowledged later.
Submit(w) ==
    LET m == mailer[w].mail
    IN  /\ mailer[w].at = "accepted"
        /\ row' = [row EXCEPT ![m] = [status |-> "submitted", message |-> TRUE, lastEvent |-> clock]]
        /\ mailer' = [mailer EXCEPT ![w].at = "unacked"]
        /\ UNCHANGED <<clock, mailing, task, provider, received, losses>>

MayRetry(m) == task[m].retries < MaxRetries
FailedDelivery(m) == [row[m] EXCEPT !.status = "failed"]

\* A task that raised: Celery puts it back, as often as it may (autoretry_for Exception).
PutBack(m) ==
    task' = IF MayRetry(m) THEN [task EXCEPT ![m].retries = @ + 1]
                            ELSE [task EXCEPT ![m].copies = @ - 1]

\* TransactionalEmailError: the failure is committed.
TaskFails(w) ==
    LET m == mailer[w].mail
    IN  /\ mailer[w].at = "refused"
        /\ row' = [row EXCEPT ![m] = FailedDelivery(m)]
        /\ PutBack(m)
        /\ mailer' = [mailer EXCEPT ![w] = Resting0]
        /\ UNCHANGED <<clock, mailing, provider, received, losses>>

\* A variant: only TransactionalEmailError is retried.
RaisesForGood(w) ==
    /\ mailer[w].at = "raised"
    /\ task' = [task EXCEPT ![mailer[w].mail].copies = @ - 1]
    /\ mailer' = [mailer EXCEPT ![w] = Resting0]
    /\ UNCHANGED <<clock, row, mailing, provider, received, losses>>

\* Any other exception: the transaction is rolled back.
TaskRaises(w) ==
    /\ mailer[w].at = "raised"
    /\ PutBack(mailer[w].mail)
    /\ mailer' = [mailer EXCEPT ![w] = Resting0]
    /\ UNCHANGED <<clock, row, mailing, provider, received, losses>>

Acknowledge(w) ==
    /\ mailer[w].at = "unacked"
    /\ task' = [task EXCEPT ![mailer[w].mail].copies = @ - 1]
    /\ mailer' = [mailer EXCEPT ![w] = Resting0]
    /\ UNCHANGED <<clock, row, mailing, provider, received, losses>>

\* A worker is lost: its transaction is rolled back and its message stays queued.
LoseMailer(w) ==
    /\ mailer[w].at # "idle"
    /\ losses < MaxLosses
    /\ losses' = losses + 1
    /\ mailer' = [mailer EXCEPT ![w] = Resting0]
    /\ UNCHANGED <<clock, row, mailing, task, provider, received>>

\* The broker delivers a message a second time.
Redeliver(m) ==
    /\ task[m].copies > 0
    /\ losses < MaxLosses
    /\ losses' = losses + 1
    /\ task' = [task EXCEPT ![m].copies = @ + 1]
    /\ UNCHANGED <<clock, row, mailing, mailer, provider, received>>

-----------------------------------------------------------------------------
(* Resend and its webhooks *)

Happens(m, e) ==
    /\ provider[m]["sent"] # NoMail
    /\ provider[m][e] = NoMail
    /\ provider[m]["bounced"] = NoMail /\ provider[m]["delivered"] = NoMail
    /\ provider' = [provider EXCEPT ![m][e] = clock]
    /\ UNCHANGED <<clock, row, mailing, task, mailer, received, losses>>

\* An event takes effect unless the row knows of a newer one.
IsNews(m, e) == row[m].lastEvent = NoMail \/ provider[m][e] >= row[m].lastEvent

\* process_resend_event; an event that was received before is a duplicate and ends there.
Webhook(m, e) ==
    /\ provider[m][e] # NoMail
    /\ received[m][e] = "no"
    /\ row[m].message => RowIsFree(m)
    /\ received' = [received EXCEPT ![m][e] = IF row[m].message THEN "processed" ELSE "unmatched"]
    /\ row' = IF row[m].message /\ IsNews(m, e)
              THEN [row EXCEPT ![m] = [@ EXCEPT !.status = EventStatus[e],
                                                !.lastEvent = provider[m][e]]]
              ELSE row
    /\ UNCHANGED <<clock, mailing, task, mailer, provider, losses>>

-----------------------------------------------------------------------------
MailerStep(w) ==
    \/ \E m \in Mails : TakeTask(w, m)
    \/ \E outcome \in {"accepted", "refused", "raised"} : GatewayAccepts(w, outcome)
    \/ \E outcome \in {"refused", "raised"} : GatewayRefuses(w, outcome)
    \/ Submit(w) \/ TaskFails(w) \/ TaskRaises(w) \/ Acknowledge(w)

SenderStep(m) ==
    \/ \E raises \in BOOLEAN : SendTask(m, raises)
    \/ BrokerRefuses(m) \/ SenderFails(m)
    \/ \E verdict \in {"sent", "failed"} : SendDirectly(m, verdict)

MailNext ==
    \/ ClockTicks
    \/ \E m \in Mails : \/ CreateDelivery(m) \/ SenderStep(m) \/ SenderStops(m) \/ Redeliver(m)
                        \/ \E e \in Events : Webhook(m, e)
                        \/ \E e \in Events \ {"sent"} : Happens(m, e)
    \/ \E w \in Mailers : MailerStep(w) \/ LoseMailer(w)

MailSpec == MailInit /\ [][MailNext]_mailVars

\* The request goes on unless it stops for good, Celery runs what it has taken and takes what is queued.
MailFairness ==
    /\ \A m \in Mails : WF_mailVars(SenderStep(m))
    /\ \A w \in Mailers : WF_mailVars(MailerStep(w))

-----------------------------------------------------------------------------
(* Properties *)

\* Nobody has the mail any more, and its row was not decided: no message is left, since the
\* sender stopped before it queued one or the task raised at its last retry as well.
OutOfHands(m) ==
    /\ task[m].copies = 0
    /\ mailing[m] = "lost" \/ task[m].retries = MaxRetries

\* A delivery that was created is decided or out of everyone's hands: while its request goes on or
\* a message of it is queued its row does not stay pending.  (A row that is out of hands is pending
\* for ever: nothing in the code looks for such rows.)
MailSettles ==
    \A m \in Mails : row[m].status = "pending" ~> row[m].status # "pending" \/ OutOfHands(m)

\* A mail that is queued reaches Resend unless every retry of its task is used up: a message that
\* is delivered twice, a sender that declares it failed and a lost worker do not make it fall out.
QueuedMailIsSent ==
    \A m \in Mails : task[m].copies > 0 ~> \/ provider[m]["sent"] # NoMail
                                            \/ task[m].retries = MaxRetries

\* A delivery that was created ends: it is decided while anybody has it, and a queued one is sent.
EveryMailEnds == MailSettles /\ QueuedMailIsSent
=============================================================================
