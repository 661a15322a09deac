----------------------------- MODULE MC_Accounts -----------------------------
(* Small instances of what an account's owner does side by side: InviteBeta, AccessControl,      *)
(* TransactionalEmail and the requests of Schedule.  They share no row: one of them moves in a   *)
(* behaviour.                                                                                    *)
EXTENDS InviteBeta, AccessControl, TransactionalEmail, Schedule, TLC

CONSTANTS c1, c2, c3, early
MCTerm == [c \in Codes |-> IF c = c3 THEN "year" ELSE "month"]
MCHolder == [c \in Codes |-> CHOOSE h \in Holders : TRUE]
MCLength == [m \in 0..1 |-> 2 - m]
MCDueAt == [c \in Configurations |-> 1]

VARIABLE side   \* which of them moves

accountsVars == <<side, vars, accessVars, mailVars, scheduleVars>>
AccountsInit ==
    /\ side \in {"invite", "access", "mail", "schedule"}
    /\ Init /\ AccessInit /\ MailInit /\ ScheduleInit
InviteMoves == side = "invite" /\ Next /\ UNCHANGED <<side, accessVars, mailVars, scheduleVars>>
AccessMoves == side = "access" /\ AccessNext /\ UNCHANGED <<side, vars, mailVars, scheduleVars>>
MailMoves == side = "mail" /\ MailNext /\ UNCHANGED <<side, vars, accessVars, scheduleVars>>
ScheduleMoves == side = "schedule" /\ ScheduleNext /\ UNCHANGED <<side, vars, accessVars, mailVars>>

\* No sender or mailer can take a step in the initial state.  A tick can, where Schedule moves.
AccountsSpec ==
    /\ AccountsInit
    /\ [][InviteMoves \/ AccessMoves \/ MailMoves \/ ScheduleMoves]_accountsVars
    /\ MailFairness
    /\ \A t \in Ticks : /\ WF_accountsVars(ScheduleMoves /\ StartTick(t))
                        /\ WF_accountsVars(ScheduleMoves /\ TickGoesOn(t))
    /\ \A k \in 1..MaxFollowed :
         WF_accountsVars(ScheduleMoves /\ k \in 1..Len(rows) /\ TakeRun(k))

\* The rows, the sessions and the messages of the four keep their types.
AccountsTypeOK == TypeOK /\ AccessTypeOK /\ MailTypeOK /\ ScheduleTypeOK
=============================================================================
