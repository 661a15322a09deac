----------------------------- MODULE InviteBeta -----------------------------
(***************************************************************************)
(* InviteBetaService for one cohort, and AuthService.register: operators   *)
(* add recipients, approve, dispatch, pause and close, while recipients    *)
(* and holders of direct invitations register.                             *)
(*                                                                         *)
(* The operations on the cohort hold its row's lock, but dispatch commits  *)
(* half-way and ends with a write of what its session knew before.  close  *)
(* withdraws one recipient after another; autoflush sends each UPDATE      *)
(* when the next row is read, so the locks it holds grow with its loop.    *)
(* register takes an advisory lock if the beta is controlled, locks the    *)
(* invitation's row, and reads recipient and cohort without a lock.        *)
(*                                                                         *)
(* An invitation, its recipient and the recipient's email share a name.    *)
(* The gate holds (otherwise approve and dispatch change no state).        *)
(***************************************************************************)
EXTENDS Integers, FiniteSets

CONSTANTS
    Recipients,   \* whom operators may add to the cohort
    Direct,       \* invitations of generate_registration_invites, and their holders
    Registrars,   \* calls of register that may be under way at once
    Controlled,   \* beta_mode = "controlled"
    MaxUsers,     \* beta_max_active_users
    None          \* no invitation

Invites == Recipients \cup Direct
Emails == Invites

ASSUME InvitesAssumption ==
    Recipients \cap Direct = {} /\ None \notin Invites /\ IsFiniteSet(Invites)
ASSUME SettingsAssumption == Controlled \in BOOLEAN /\ MaxUsers \in Nat

VARIABLES
    cohort,      \* beta_invite_cohorts: status, and whether closed_at is set
    recipient,   \* beta_invite_recipients: status, or "absent"
    invite,      \* registration_invites: issued, consumed, revoked
    account,     \* users: the invitation that admitted an email
    mailed,      \* recipients whose message the broker has taken
    inbox,       \* recipients who hold their code
    sender,      \* the dispatch that is sending
    closer,      \* the close that is under way
    reg          \* the calls of register

vars == <<cohort, recipient, invite, account, mailed, inbox, sender, closer, reg>>

NoSender == [at |-> "idle", todo |-> {}, failed |-> {}]
NoCloser == [at |-> "idle", todo |-> {}, withdrawn |-> {}, revoked |-> {}, pending |-> {}]
NoCall == [at |-> "idle", invite |-> None, email |-> None]
Fresh == [issued |-> TRUE, consumed |-> FALSE, revoked |-> FALSE]

CohortStatus == {"draft", "approved", "dispatching", "active", "paused", "closed"}
RecipientStatus == {"absent", "staged", "queued", "registered", "withdrawn", "failed"}
InviteRows == [issued : BOOLEAN, consumed : BOOLEAN, revoked : BOOLEAN]

TypeOK ==
    /\ cohort \in [status : CohortStatus, closed : BOOLEAN]
    /\ recipient \in [Recipients -> RecipientStatus]
    /\ invite \in [Invites -> InviteRows]
    /\ account \in [Emails -> Invites \cup {None}]
    /\ mailed \subseteq Recipients
    /\ inbox \subseteq Recipients
    /\ sender \in [at : {"idle", "sending"}, todo : SUBSET Recipients, failed : SUBSET Recipients]
    /\ closer \in [at : {"idle", "closing"}, todo : SUBSET Recipients,
                   withdrawn : SUBSET Recipients, revoked : SUBSET Recipients,
                   pending : SUBSET Recipients]
    /\ reg \in [Registrars -> [at : {"idle", "counted", "locked", "matched", "admitted",
                                     "inserted"},
                               invite : Invites \cup {None}, email : Emails \cup {None}]]

Init ==
    /\ cohort = [status |-> "draft", closed |-> FALSE]
    /\ recipient = [r \in Recipients |-> "absent"]
    /\ invite = [i \in Invites |-> [Fresh EXCEPT !.issued = i \in Direct]]
    /\ account = [e \in Emails |-> None]
    /\ mailed = {}
    /\ inbox = {}
    /\ sender = NoSender
    /\ closer = NoCloser
    /\ reg = [g \in Registrars |-> NoCall]

-----------------------------------------------------------------------------
(* Operators *)

\* Variants of the definitions below, each the way a plausible bug would have it.
LockPerCall == TRUE
UsableWhileNotRevoked(i) == invite[i].issued /\ ~invite[i].revoked
OnlyUnsent == {"staged", "failed"}
FailedIfAnyFailed == IF sender.failed = {} THEN "active" ELSE "failed"
AdmitsOnceMailed == cohort.status \in {"dispatching", "active"}

Members == {e \in Emails : account[e] # None}
CohortFree == closer.at = "idle"
WithStatus(S) == {r \in Recipients : recipient[r] \in S}

\* add_recipients, of one email: not invited yet, not registered.
AddRecipient(r) ==
    /\ CohortFree
    /\ cohort.status = "draft"
    /\ recipient[r] = "absent"
    /\ account[r] = None
    /\ recipient' = [recipient EXCEPT ![r] = "staged"]
    /\ UNCHANGED <<cohort, invite, account, mailed, inbox, sender, closer, reg>>

\* approve
Approve ==
    /\ CohortFree
    /\ cohort.status = "draft"
    /\ WithStatus({"staged"}) # {}
    /\ cohort' = [cohort EXCEPT !.status = "approved"]
    /\ UNCHANGED <<recipient, invite, account, mailed, inbox, sender, closer, reg>>

\* dispatch, to its first commit: the invitations exist, and the lock is given up.
Dispatch ==
    /\ CohortFree
    /\ cohort.status = "approved"
    /\ LET staged == WithStatus({"staged"})
       IN  /\ staged # {}
           /\ invite' = [i \in Invites |-> IF i \in staged THEN Fresh ELSE invite[i]]
           /\ recipient' = [r \in Recipients |-> IF r \in staged THEN "queued" ELSE recipient[r]]
           /\ sender' = [NoSender EXCEPT !.at = "sending", !.todo = staged]
    /\ cohort' = [cohort EXCEPT !.status = "dispatching"]
    /\ UNCHANGED <<account, mailed, inbox, closer, reg>>

\* One send_task; it may raise though the broker has taken the message.
Send(r, raises, taken) ==
    /\ r \in sender.todo
    /\ raises \/ taken
    /\ sender' = [sender EXCEPT !.todo = @ \ {r},
                                !.failed = IF raises THEN @ \cup {r} ELSE @]
    /\ mailed' = IF taken THEN mailed \cup {r} ELSE mailed
    /\ UNCHANGED <<cohort, recipient, invite, account, inbox, closer, reg>>

\* The status a dispatch leaves.
SendVerdict == IF sender.failed = {} THEN "active" ELSE "paused"

\* The end of dispatch: its session writes the cohort and the failed recipients as it
\* believes they still are.
DispatchEnds ==
    /\ sender.at = "sending"
    /\ sender.todo = {}
    /\ CohortFree
    /\ recipient' = [r \in Recipients |-> IF r \in sender.failed THEN "failed" ELSE recipient[r]]
    /\ cohort' = [cohort EXCEPT !.status = SendVerdict]
    /\ sender' = NoSender
    /\ UNCHANGED <<invite, account, mailed, inbox, closer, reg>>

\* The API process is lost while it sends, or its last transaction is rolled back.
DispatchLost ==
    /\ sender.at = "sending"
    /\ sender' = NoSender
    /\ UNCHANGED <<cohort, recipient, invite, account, mailed, inbox, closer, reg>>

\* pause
Pause ==
    /\ CohortFree
    /\ cohort.status # "closed"
    /\ cohort' = [cohort EXCEPT !.status = "paused"]
    /\ UNCHANGED <<recipient, invite, account, mailed, inbox, sender, closer, reg>>

\* Whom close withdraws.
Withdrawable == {"staged", "queued", "failed"}

\* close: the cohort is locked and its recipients are read.
Close ==
    /\ CohortFree
    /\ closer' = [NoCloser EXCEPT !.at = "closing", !.todo = WithStatus(Withdrawable)]
    /\ UNCHANGED <<cohort, recipient, invite, account, mailed, inbox, sender, reg>>

\* A call of register holds the lock of an invitation's row.
Holds(g, i) == reg[g].invite = i /\ reg[g].at \in {"locked", "matched", "admitted", "inserted"}
InviteFree(i) == ~\E g \in Registrars : Holds(g, i)

\* The next turn of the loop of close: the changes of the turn before are flushed, and so is
\* this recipient; then its invitation is read.
Withdraw(r) ==
    /\ r \in closer.todo
    /\ \A i \in closer.pending : InviteFree(i)
    /\ closer' = [closer EXCEPT !.todo = @ \ {r},
                                !.withdrawn = @ \cup {r},
                                !.revoked = @ \cup closer.pending,
                                !.pending = IF invite[r].issued /\ ~invite[r].consumed
                                            THEN {r} ELSE {}]
    /\ UNCHANGED <<cohort, recipient, invite, account, mailed, inbox, sender, reg>>

\* The commit of close, of what its session believes.
CloseCommits ==
    /\ closer.at = "closing"
    /\ closer.todo = {}
    /\ \A i \in closer.pending : InviteFree(i)
    /\ cohort' = [status |-> "closed", closed |-> TRUE]
    /\ recipient' = [r \in Recipients |->
                       IF r \in closer.withdrawn THEN "withdrawn" ELSE recipient[r]]
    /\ invite' = [i \in Invites |-> IF i \in closer.revoked \cup closer.pending
                                    THEN [invite[i] EXCEPT !.revoked = TRUE] ELSE invite[i]]
    /\ closer' = NoCloser
    /\ UNCHANGED <<account, mailed, inbox, sender, reg>>

\* close is rolled back: its process is lost, or it is the victim of a deadlock.
CloseLost ==
    /\ closer.at = "closing"
    /\ closer' = NoCloser
    /\ UNCHANGED <<cohort, recipient, invite, account, mailed, inbox, sender, reg>>

-----------------------------------------------------------------------------
(* Mail and registration *)

\* transactional_email.deliver: the recipient has the code.
Deliver(r) ==
    /\ r \in mailed
    /\ inbox' = inbox \cup {r}
    /\ mailed' = mailed \ {r}
    /\ UNCHANGED <<cohort, recipient, invite, account, sender, closer, reg>>

Goto(g, l) == reg' = [reg EXCEPT ![g].at = l]

\* pg_advisory_xact_lock, if the beta is controlled.
CapacityLockFree == Controlled => \A g \in Registrars : reg[g].at = "idle"

\* register of an email with a code its caller holds: the lock, and room for one more.
Register(g, i, e) ==
    /\ reg[g].at = "idle"
    /\ i \in Direct \cup inbox
    /\ CapacityLockFree
    /\ Controlled => Cardinality(Members) < MaxUsers
    /\ reg' = [reg EXCEPT ![g] = [at |-> "counted", invite |-> i, email |-> e]]
    /\ UNCHANGED <<cohort, recipient, invite, account, mailed, inbox, sender, closer>>

Usable(i) == invite[i].issued /\ ~invite[i].consumed /\ ~invite[i].revoked

\* SELECT ... FOR UPDATE of the invitation: it waits for close and for other calls.
LockInvite(g) ==
    /\ reg[g].at = "counted"
    /\ InviteFree(reg[g].invite)
    /\ reg[g].invite \notin closer.revoked
    /\ Usable(reg[g].invite)
    /\ Goto(g, "locked")
    /\ UNCHANGED <<cohort, recipient, invite, account, mailed, inbox, sender, closer>>

\* The recipient is read; a direct invitation has none, and is not bound to an email.
MatchRecipient(g) ==
    /\ reg[g].at = "locked"
    /\ \/ reg[g].invite \in Direct /\ Goto(g, "admitted")
       \/ /\ reg[g].invite \in Recipients
          /\ recipient[reg[g].invite] = "queued"
          /\ reg[g].email = reg[g].invite
          /\ Goto(g, "matched")
    /\ UNCHANGED <<cohort, recipient, invite, account, mailed, inbox, sender, closer>>

\* What the cohort's status must be.
Admits == cohort.status = "active"

\* The cohort is read.
CheckCohort(g) ==
    /\ reg[g].at = "matched"
    /\ Admits
    /\ Goto(g, "admitted")
    /\ UNCHANGED <<cohort, recipient, invite, account, mailed, inbox, sender, closer>>

\* The user is inserted: uq on email, against committed rows and those under way.
InsertUser(g) ==
    /\ reg[g].at = "admitted"
    /\ account[reg[g].email] = None
    /\ \A h \in Registrars : reg[h].at = "inserted" => reg[h].email # reg[g].email
    /\ Goto(g, "inserted")
    /\ UNCHANGED <<cohort, recipient, invite, account, mailed, inbox, sender, closer>>

\* The invitation is consumed, the recipient registered, and all of it commits, unless close
\* has written the recipient and not committed.
Admit(g) ==
    LET i == reg[g].invite
    IN  /\ reg[g].at = "inserted"
        /\ i \notin closer.withdrawn
        /\ account' = [account EXCEPT ![reg[g].email] = i]
        /\ invite' = [invite EXCEPT ![i].consumed = TRUE]
        /\ recipient' = [r \in Recipients |-> IF r = i THEN "registered" ELSE recipient[r]]
        /\ reg' = [reg EXCEPT ![g] = NoCall]
        /\ UNCHANGED <<cohort, mailed, inbox, sender, closer>>

\* A check fails, the invitation has expired, the email exists, or the call is lost: rollback.
Refuse(g) ==
    /\ reg[g].at # "idle"
    /\ reg' = [reg EXCEPT ![g] = NoCall]
    /\ UNCHANGED <<cohort, recipient, invite, account, mailed, inbox, sender, closer>>

Operate ==
    \/ Approve \/ Dispatch \/ DispatchEnds \/ DispatchLost
    \/ Pause \/ Close \/ CloseCommits \/ CloseLost

Call(g) ==
    \/ \E i \in Invites, e \in Emails : Register(g, i, e)
    \/ LockInvite(g) \/ MatchRecipient(g) \/ CheckCohort(g)
    \/ InsertUser(g) \/ Admit(g) \/ Refuse(g)

Next ==
    \/ Operate
    \/ \E r \in Recipients :
         \/ AddRecipient(r) \/ Withdraw(r) \/ Deliver(r)
         \/ \E raises, taken \in BOOLEAN : Send(r, raises, taken)
    \/ \E g \in Registrars : Call(g)

Spec == Init /\ [][Next]_vars

-----------------------------------------------------------------------------
(* Properties *)

\* A controlled beta never has more users than seats, however registrations race: each
\* counts the users long before its own becomes one.
CapacityHolds == Controlled => Cardinality(Members) <= MaxUsers

\* Every account was admitted by an invitation of its own, and an invitation is consumed
\* exactly when an account names it; one of the cohort admits only its recipient's email.
OneAccountPerInvite ==
    /\ \A d, e \in Members : account[d] = account[e] => d = e
    /\ \A i \in Invites : invite[i].consumed <=> \E e \in Members : account[e] = i
    /\ \A r \in Recipients, e \in Members : account[e] = r => e = r

\* After a close has committed, the cohort's invitations admit nobody, though a dispatch
\* may still declare the cohort active and a registration may have read it before.
ClosedAdmitsNobody ==
    [][cohort.closed => \A r \in Recipients : invite'[r].consumed => invite[r].consumed]_invite

\* A recipient reported as failed has not become a user by that invitation: the dispatch's
\* late write never hides a registration.
FailedIsNoMember ==
    \A r \in Recipients : recipient[r] = "failed" => ~invite[r].consumed
=============================================================================
