--------------------------- MODULE AccountsProofs ---------------------------
(***************************************************************************)
(* What holds of what an account's owner meets.  Of a cohort and of        *)
(* registration, for every number of recipients, direct invitations, calls *)
(* and seats: the inductive invariant says what a call of register and a   *)
(* close that are under way may still rely on, since neither reads a       *)
(* second time.  Of access: two calls never hold one account's row, and    *)
(* the periods that a holder paid lie apart on every calendar.  Of mails:  *)
(* the broker's copies of a message are counted.                           *)
(***************************************************************************)
EXTENDS MC_Accounts, ScheduleProofs, FiniteSetTheorems, TLAPS

Holding == {"locked", "matched", "admitted", "inserted"}

\* A controlled beta has one call at a time, and the call under way has room.
CallsHaveRoom ==
    Controlled =>
        /\ \A g, h \in Registrars : reg[g].at # "idle" /\ reg[h].at # "idle" => g = h
        /\ \A g \in Registrars : reg[g].at # "idle" => Cardinality(Members) < MaxUsers

\* What a call under way has checked remains so until it ends.
CallsAreCurrent ==
    \A g \in Registrars :
        /\ reg[g].at # "idle" => reg[g].invite \in Invites /\ reg[g].email \in Emails
        /\ reg[g].at \in Holding => Usable(reg[g].invite)
        /\ reg[g].at = "inserted" => account[reg[g].email] = None
        /\ reg[g].at \in {"matched", "admitted", "inserted"} /\ reg[g].invite \in Recipients
             => reg[g].email = reg[g].invite

\* Two calls never hold one invitation, nor have inserted one email.
CallsAreApart ==
    \A g, h \in Registrars :
        /\ reg[g].at \in Holding /\ reg[h].at \in Holding /\ reg[g].invite = reg[h].invite => g = h
        /\ reg[g].at = "inserted" /\ reg[h].at = "inserted" /\ reg[g].email = reg[h].email => g = h

\* An invitation that could still admit its recipient is one a close would withdraw; while a
\* close is under way it is in what the close has left, has written or is about to write.
CloseSeesAll ==
    /\ \A r \in Recipients : Usable(r) => recipient[r] \in Withdrawable
    /\ closer.at = "closing" => \A r \in Recipients :
         recipient[r] \in Withdrawable => r \in closer.todo \cup closer.withdrawn
    /\ \A r \in closer.withdrawn :
         invite[r].issued /\ ~invite[r].consumed => r \in closer.revoked \cup closer.pending
    /\ \A i \in closer.revoked : InviteFree(i)
    /\ closer.at = "idle" => closer = NoCloser

\* A cohort that was ever closed is never approved again and has no usable invitation.
ClosedIsDead ==
    cohort.closed => /\ cohort.status \in {"active", "paused", "closed"}
                     /\ \A r \in Recipients : ~Usable(r)

\* Before its dispatch a cohort has no invitations; while it is being sent nobody is let in.
NobodyInWhileSending ==
    /\ \A i \in Invites : invite[i].consumed => invite[i].issued
    /\ cohort.status \in {"draft", "approved"} =>
         sender.at = "idle" /\ \A r \in Recipients : ~invite[r].issued
    /\ sender.at = "sending" =>
         /\ cohort.status \in {"dispatching", "paused", "closed"}
         /\ \A r \in Recipients : ~invite[r].consumed
         /\ \A g \in Registrars : reg[g].invite \in Recipients =>
              reg[g].at \notin {"admitted", "inserted"}
    /\ sender.at = "idle" => sender = NoSender

IInv ==
    /\ TypeOK
    /\ CapacityHolds
    /\ CallsHaveRoom
    /\ CallsAreCurrent
    /\ CallsAreApart
    /\ OneAccountPerInvite
    /\ CloseSeesAll
    /\ ClosedIsDead
    /\ NobodyInWhileSending
    /\ FailedIsNoMember

-----------------------------------------------------------------------------
USE InvitesAssumption, SettingsAssumption DEF Invites, Emails

\* What the six steps of a call leave alone.
LEMMA CallFrame ==
    ASSUME NEW g \in Registrars, Call(g)
    PROVE  UNCHANGED <<cohort, mailed, inbox, sender, closer>>
BY DEF Call, Register, LockInvite, MatchRecipient, CheckCohort, InsertUser, Admit, Refuse, Goto

-----------------------------------------------------------------------------
(* Types *)

\* The rows an operator's step writes keep their types.
LEMMA TypeOperate == TypeOK /\ Operate => TypeOK'
<1>1. SUFFICES ASSUME TypeOK, Operate PROVE TypeOK'
  OBVIOUS
<1> USE <1>1 DEF TypeOK
<1>2. CASE Approve
  BY <1>2 DEF Approve, CohortStatus
<1>3. CASE Dispatch
  <2> DEFINE staged == WithStatus({"staged"})
  <2>1. staged \in SUBSET Recipients /\ Fresh \in InviteRows
    BY DEF WithStatus, Fresh, InviteRows
  <2>2. invite' \in [Invites -> InviteRows]
    BY <1>3, <2>1 DEF Dispatch
  <2>3. recipient' \in [Recipients -> RecipientStatus]
    BY <1>3 DEF Dispatch, RecipientStatus
  <2>4. cohort' \in [status : CohortStatus, closed : BOOLEAN]
    BY <1>3 DEF Dispatch, CohortStatus
  <2>5. sender' = [at |-> "sending", todo |-> staged, failed |-> {}]
    BY <1>3 DEF Dispatch, NoSender
  <2>6. QED
    BY <1>3, <2>1, <2>2, <2>3, <2>4, <2>5 DEF Dispatch
<1>4. CASE DispatchEnds
  <2>1. recipient' \in [Recipients -> RecipientStatus]
    BY <1>4 DEF DispatchEnds, RecipientStatus
  <2>2. cohort' \in [status : CohortStatus, closed : BOOLEAN]
    BY <1>4 DEF DispatchEnds, CohortStatus, SendVerdict
  <2>3. QED
    BY <1>4, <2>1, <2>2 DEF DispatchEnds, NoSender
<1>5. CASE DispatchLost
  BY <1>5 DEF DispatchLost, NoSender
<1>6. CASE Pause
  BY <1>6 DEF Pause, CohortStatus
<1>7. CASE Close
  <2>1. closer' = [at |-> "closing", todo |-> WithStatus(Withdrawable), withdrawn |-> {},
                   revoked |-> {}, pending |-> {}]
    BY <1>7 DEF Close, NoCloser
  <2>2. WithStatus(Withdrawable) \in SUBSET Recipients
    BY DEF WithStatus
  <2>3. QED
    BY <1>7, <2>1, <2>2 DEF Close
<1>8. CASE CloseCommits
  <2>1. recipient' \in [Recipients -> RecipientStatus]
    BY <1>8 DEF CloseCommits, RecipientStatus
  <2>2. invite' \in [Invites -> InviteRows]
    <3>1. \A i \in Invites : [invite[i] EXCEPT !.revoked = TRUE] \in InviteRows
      <4>1. \A inv \in InviteRows : [inv EXCEPT !.revoked = TRUE] \in InviteRows
        BY DEF InviteRows
      <4>2. QED
        BY <4>1
    <3>2. QED
      BY <1>8, <3>1 DEF CloseCommits
  <2>3. cohort' \in [status : CohortStatus, closed : BOOLEAN]
    BY <1>8 DEF CloseCommits, CohortStatus
  <2>4. QED
    BY <1>8, <2>1, <2>2, <2>3 DEF CloseCommits, NoCloser
<1>9. CASE CloseLost
  BY <1>9 DEF CloseLost, NoCloser
<1>10. QED
  BY <1>1, <1>2, <1>3, <1>4, <1>5, <1>6, <1>7, <1>8, <1>9 DEF Operate

\* So do those of a step that concerns one recipient.
LEMMA TypeRecipient ==
    ASSUME TypeOK, NEW r \in Recipients,
           \/ AddRecipient(r) \/ Withdraw(r) \/ Deliver(r)
           \/ \E raises, taken \in BOOLEAN : Send(r, raises, taken)
    PROVE  TypeOK'
<1> USE DEF TypeOK
<1>1. CASE AddRecipient(r)
  BY <1>1 DEF AddRecipient, RecipientStatus
<1>2. CASE Withdraw(r)
  BY <1>2 DEF Withdraw
<1>3. CASE Deliver(r)
  BY <1>3 DEF Deliver
<1>4. ASSUME NEW raises \in BOOLEAN, NEW taken \in BOOLEAN, Send(r, raises, taken) PROVE TypeOK'
  BY <1>4 DEF Send
<1>5. QED
  BY <1>1, <1>2, <1>3, <1>4

\* So do those of a call.
LEMMA TypeCall == ASSUME TypeOK, NEW g \in Registrars, Call(g) PROVE TypeOK'
<1> USE DEF TypeOK
<1>1. CASE \E i \in Invites, e \in Emails : Register(g, i, e)
  BY <1>1 DEF Register
<1>2. CASE LockInvite(g) \/ MatchRecipient(g) \/ CheckCohort(g) \/ InsertUser(g)
  BY <1>2 DEF LockInvite, MatchRecipient, CheckCohort, InsertUser, Goto
<1>3. CASE Refuse(g)
  BY <1>3 DEF Refuse, NoCall
<1>4. CASE Admit(g)
  <2>1. account' \in [Emails -> Invites \cup {None}]
    BY <1>4 DEF Admit
  <2>2. invite' \in [Invites -> InviteRows]
    <3>1. \A inv \in InviteRows : [inv EXCEPT !.consumed = TRUE] \in InviteRows
      BY DEF InviteRows
    <3>2. invite' = [invite EXCEPT ![reg[g].invite] =
                       [invite[reg[g].invite] EXCEPT !.consumed = TRUE]]
      BY <1>4 DEF Admit
    <3>3. QED
      BY <3>1, <3>2
  <2>3. recipient' \in [Recipients -> RecipientStatus]
    BY <1>4 DEF Admit, RecipientStatus
  <2>4. reg' = [reg EXCEPT ![g] = NoCall]
    BY <1>4 DEF Admit
  <2>5. QED
    BY <1>4, <2>1, <2>2, <2>3, <2>4 DEF Admit, NoCall
<1>5. QED
  BY <1>1, <1>2, <1>3, <1>4 DEF Call

\* Rows, sessions and calls keep their types.
LEMMA TypeKeeps == TypeOK /\ [Next]_vars => TypeOK'
<1>1. CASE UNCHANGED vars
  BY <1>1 DEF vars, TypeOK
<1>2. CASE Next
  BY <1>2, TypeOperate, TypeRecipient, TypeCall DEF Next
<1>3. QED
  BY <1>1, <1>2

-----------------------------------------------------------------------------
(* Calls of register *)

\* A call changes its own session only.
LEMMA CallIsLocal ==
    ASSUME TypeOK, NEW g \in Registrars, Call(g)
    PROVE  \A h \in Registrars : h # g => reg'[h] = reg[h]
BY DEF Call, Register, LockInvite, MatchRecipient, CheckCohort, InsertUser, Admit, Refuse, Goto,
       TypeOK

\* A call that moves on keeps the invitation and the email it came with.
LEMMA GotoMoves ==
    ASSUME TypeOK, NEW g \in Registrars, NEW l, Goto(g, l)
    PROVE  reg'[g].at = l /\ reg'[g].invite = reg[g].invite /\ reg'[g].email = reg[g].email
BY DEF Goto, TypeOK

\* What the steps of a call that admit nobody do.
LEMMA CallMoves ==
    ASSUME TypeOK, NEW g \in Registrars, Call(g), ~Admit(g)
    PROVE  /\ UNCHANGED <<account, invite, recipient>>
           /\ \/ /\ CapacityLockFree /\ reg[g].at = "idle" /\ reg'[g].at = "counted"
                 /\ reg'[g].invite \in Invites /\ reg'[g].email \in Emails
                 /\ Controlled => Cardinality(Members) < MaxUsers
              \/ reg'[g] = NoCall
              \/ /\ reg'[g].invite = reg[g].invite /\ reg'[g].email = reg[g].email
                 /\ \/ LockInvite(g) /\ reg'[g].at = "locked"
                    \/ MatchRecipient(g) /\ reg'[g].at \in {"matched", "admitted"}
                    \/ CheckCohort(g) /\ reg'[g].at = "admitted"
                    \/ InsertUser(g) /\ reg'[g].at = "inserted"
<1>1. CASE \E i \in Invites, e \in Emails : Register(g, i, e)
  BY <1>1 DEF Register, TypeOK
<1>2. CASE Refuse(g)
  BY <1>2 DEF Refuse, TypeOK
<1>3. CASE LockInvite(g)
  BY <1>3, GotoMoves DEF LockInvite
<1>4. CASE MatchRecipient(g)
  BY <1>4, GotoMoves DEF MatchRecipient
<1>5. CASE CheckCohort(g)
  BY <1>5, GotoMoves DEF CheckCohort
<1>6. CASE InsertUser(g)
  BY <1>6, GotoMoves DEF InsertUser
<1>7. QED
  BY <1>1, <1>2, <1>3, <1>4, <1>5, <1>6 DEF Call

\* What the step that admits does.
LEMMA AdmitMoves ==
    ASSUME TypeOK, CallsAreCurrent, NEW g \in Registrars, Admit(g)
    PROVE  /\ reg[g].at = "inserted" /\ reg[g].invite \in Invites /\ reg[g].email \in Emails
           /\ account[reg[g].email] = None /\ Usable(reg[g].invite)
           /\ reg[g].invite \in Recipients => reg[g].email = reg[g].invite
           /\ \A e \in Emails : account'[e] = IF e = reg[g].email THEN reg[g].invite ELSE account[e]
           /\ \A i \in Invites : /\ invite'[i].issued = invite[i].issued
                                 /\ invite'[i].revoked = invite[i].revoked
                                 /\ invite'[i].consumed = (i = reg[g].invite \/ invite[i].consumed)
           /\ reg'[g] = NoCall
<1>1. reg[g].at = "inserted" /\ reg[g].invite \in Invites /\ reg[g].email \in Emails
  BY DEF Admit, CallsAreCurrent
<1>2. /\ account[reg[g].email] = None /\ Usable(reg[g].invite)
      /\ reg[g].invite \in Recipients => reg[g].email = reg[g].invite
  BY <1>1 DEF CallsAreCurrent, Holding
<1>3. \A e \in Emails : account'[e] = IF e = reg[g].email THEN reg[g].invite ELSE account[e]
  BY DEF Admit, TypeOK
<1>4. \A i \in Invites : /\ invite'[i].issued = invite[i].issued
                         /\ invite'[i].revoked = invite[i].revoked
                         /\ invite'[i].consumed = (i = reg[g].invite \/ invite[i].consumed)
  <2>1. invite \in [Invites -> InviteRows]
        /\ invite' = [invite EXCEPT ![reg[g].invite].consumed = TRUE]
    BY DEF Admit, TypeOK
  <2>2. QED
    BY <1>1, <2>1 DEF InviteRows
<1>5. reg'[g] = NoCall
  BY DEF Admit, TypeOK
<1>6. QED
  BY <1>1, <1>2, <1>3, <1>4, <1>5

\* What the operators' steps and the mail do to the invitations' rows.
LEMMA OperateMoves ==
    ASSUME TypeOK, NobodyInWhileSending, Next, NEW i \in Invites,
           ~\E g \in Registrars : Call(g)
    PROVE  /\ UNCHANGED <<account, reg>>
           /\ invite'[i].consumed = invite[i].consumed
           /\ invite[i].issued => invite'[i].issued
           /\ invite[i].issued /\ invite[i].revoked => invite'[i].revoked
           /\ invite'[i].revoked /\ ~invite[i].revoked =>
                CloseCommits /\ i \in closer.revoked \cup closer.pending
           /\ invite'[i].issued /\ ~invite[i].issued => Dispatch /\ recipient[i] = "staged"
<1>1. CASE Dispatch
  <2>1. i \in Recipients /\ recipient[i] = "staged" => ~invite[i].issued /\ ~invite[i].consumed
    BY <1>1 DEF Dispatch, NobodyInWhileSending
  <2>2. invite'[i] = IF i \in Recipients /\ recipient[i] = "staged" THEN Fresh ELSE invite[i]
    BY <1>1 DEF Dispatch, WithStatus
  <2>3. UNCHANGED <<account, reg>>
    BY <1>1 DEF Dispatch
  <2>4. CASE i \in Recipients /\ recipient[i] = "staged"
    <3>1. invite'[i] = [issued |-> TRUE, consumed |-> FALSE, revoked |-> FALSE]
      BY <2>2, <2>4 DEF Fresh
    <3>2. invite[i].consumed = FALSE
      BY <2>1, <2>4 DEF TypeOK, InviteRows
    <3>3. invite'[i].issued = TRUE /\ invite'[i].consumed = FALSE /\ invite'[i].revoked = FALSE
      BY ONLY <3>1
    <3>4. ~invite[i].issued
      BY <2>1, <2>4
    <3>5. QED
      BY ONLY <1>1, <2>3, <2>4, <3>2, <3>3, <3>4
  <2>5. CASE ~(i \in Recipients /\ recipient[i] = "staged")
    <3>1. invite'[i] = invite[i]
      BY <2>2, <2>5
    <3>2. QED
      BY <2>3, <3>1
  <2>6. QED
    BY <2>4, <2>5
<1>2. CASE CloseCommits
  <2>1. invite'[i] = IF i \in closer.revoked \cup closer.pending
                     THEN [invite[i] EXCEPT !.revoked = TRUE] ELSE invite[i]
    BY <1>2 DEF CloseCommits
  <2>2. invite[i] \in InviteRows
    BY DEF TypeOK
  <2>3. QED
    BY <1>2, <2>1, <2>2 DEF CloseCommits, InviteRows
<1>3. CASE ~Dispatch /\ ~CloseCommits
  <2>1. UNCHANGED <<account, reg, invite>>
    BY <1>3 DEF Next, Operate, Approve, DispatchEnds, DispatchLost, Pause, Close, CloseLost,
                AddRecipient, Withdraw, Deliver, Send
  <2>2. QED
    BY <2>1
<1>4. QED
  BY <1>1, <1>2, <1>3

\* A step of a call in a controlled beta: nobody else's call is under way.
LEMMA AloneInside ==
    ASSUME TypeOK, CallsHaveRoom, Controlled, NEW g \in Registrars, Call(g)
    PROVE  \A h \in Registrars : h # g => reg[h].at = "idle" /\ reg'[h].at = "idle"
<1>1. \A h \in Registrars : h # g => reg'[h] = reg[h]
  BY CallIsLocal
<1>2. SUFFICES ASSUME NEW h \in Registrars, h # g PROVE reg[h].at = "idle"
  BY <1>1
<1>3. CASE reg[g].at = "idle"
  <2>1. \E i \in Invites, e \in Emails : Register(g, i, e)
    BY <1>3 DEF Call, LockInvite, MatchRecipient, CheckCohort, InsertUser, Admit, Refuse
  <2>2. QED
    BY <2>1 DEF Register, CapacityLockFree
<1>4. CASE reg[g].at # "idle"
  BY <1>2, <1>4 DEF CallsHaveRoom
<1>5. QED
  BY <1>3, <1>4

\* Counting before registering is enough, because the advisory lock is held to the end.
LEMMA RoomKept == IInv /\ [Next]_vars => CallsHaveRoom' /\ CapacityHolds'
<1> SUFFICES ASSUME IInv, [Next]_vars PROVE CallsHaveRoom' /\ CapacityHolds'
  OBVIOUS
<1>0. TypeOK /\ CallsHaveRoom /\ CapacityHolds /\ CallsAreCurrent /\ NobodyInWhileSending
  BY DEF IInv
<1>1. IsFiniteSet(Members) /\ Cardinality(Members) \in Nat
  <2>1. Members \subseteq Invites
    BY DEF Members
  <2>2. QED
    BY <2>1, FS_Subset, FS_CardinalityType
<1>2. CASE UNCHANGED <<account, reg>>
  BY <1>0, <1>2 DEF CallsHaveRoom, CapacityHolds, Members
<1>3. ASSUME NEW g \in Registrars, Call(g), ~Admit(g) PROVE CallsHaveRoom' /\ CapacityHolds'
  <2>1. Members' = Members
    BY <1>0, <1>3, CallMoves DEF Members
  <2>2. ASSUME Controlled
        PROVE /\ \A h, k \in Registrars : reg'[h].at # "idle" /\ reg'[k].at # "idle" => h = k
              /\ \A h \in Registrars : reg'[h].at # "idle" => Cardinality(Members) < MaxUsers
    <3>1. \A h \in Registrars : h # g => reg[h].at = "idle" /\ reg'[h].at = "idle"
      BY <1>0, <1>3, <2>2, AloneInside
    <3>2. reg'[g].at # "idle" => Cardinality(Members) < MaxUsers
      BY <1>0, <1>3, <2>2, CallMoves
         DEF NoCall, CallsHaveRoom, LockInvite, MatchRecipient, CheckCohort, InsertUser
    <3>3. QED
      BY <3>1, <3>2
  <2>3. QED
    BY <1>0, <2>1, <2>2 DEF CallsHaveRoom, CapacityHolds
<1>4. ASSUME NEW g \in Registrars, Admit(g) PROVE CallsHaveRoom' /\ CapacityHolds'
  <2>1. Members' = Members \cup {reg[g].email} /\ reg[g].email \notin Members
    BY <1>0, <1>4, AdmitMoves DEF Members
  <2>2. Cardinality(Members') = Cardinality(Members) + 1
    BY <1>1, <2>1, FS_AddElement
  <2>3. ASSUME Controlled PROVE \A h \in Registrars : reg'[h].at = "idle"
    <3>1. \A h \in Registrars : h # g => reg'[h].at = "idle"
      BY <1>0, <1>4, <2>3, AloneInside DEF Call
    <3>2. reg'[g].at = "idle"
      BY <1>0, <1>4, AdmitMoves DEF NoCall
    <3>3. QED
      BY <3>1, <3>2
  <2>4. Controlled => Cardinality(Members) < MaxUsers
    BY <1>0, <1>4, AdmitMoves DEF CallsHaveRoom
  <2>5. Controlled => Cardinality(Members') <= MaxUsers
    BY <1>1, <2>2, <2>4
  <2>6. QED
    BY <2>3, <2>5 DEF CallsHaveRoom, CapacityHolds
<1>5. CASE Next /\ ~\E g \in Registrars : Call(g)
  <2>1. UNCHANGED <<account, reg>>
    BY <1>5 DEF Next, Operate, Approve, Dispatch, DispatchEnds, DispatchLost, Pause, Close,
                CloseCommits, CloseLost, AddRecipient, Withdraw, Deliver, Send
  <2>2. QED
    BY <1>2, <2>1
<1>6. QED
  BY <1>2, <1>3, <1>4, <1>5 DEF vars

-----------------------------------------------------------------------------
(* One account for each invitation *)

\* The row a call holds stays usable under every step of an operator.
LEMMA HeldStaysUsable ==
    ASSUME IInv, Next, ~\E g \in Registrars : Call(g),
           NEW h \in Registrars, reg[h].at \in Holding
    PROVE  Usable(reg[h].invite)'
<1>0. TypeOK /\ CallsAreCurrent /\ CloseSeesAll /\ NobodyInWhileSending
  BY DEF IInv
<1> DEFINE i == reg[h].invite
<1>1. i \in Invites /\ Usable(i) /\ reg' = reg
  BY <1>0, OperateMoves DEF CallsAreCurrent, Holding
<1>2. ~InviteFree(i)
  BY DEF InviteFree, Holds, Holding
<1>3. ~(CloseCommits /\ i \in closer.revoked \cup closer.pending)
  BY <1>0, <1>2 DEF CloseCommits, CloseSeesAll
<1>4. invite'[i].consumed = invite[i].consumed /\ invite'[i].issued /\ ~invite'[i].revoked
  BY <1>0, <1>1, <1>3, OperateMoves DEF Usable
<1>5. QED
  BY <1>1, <1>4 DEF Usable

\* What a call has checked stays true until it commits, and no other call shares it.
LEMMA CallsKept == IInv /\ [Next]_vars => CallsAreCurrent' /\ CallsAreApart'
<1> SUFFICES ASSUME IInv, [Next]_vars PROVE CallsAreCurrent' /\ CallsAreApart'
  OBVIOUS
<1>0. TypeOK /\ CallsAreCurrent /\ CallsAreApart /\ CloseSeesAll /\ NobodyInWhileSending
  BY DEF IInv
<1>1. CASE UNCHANGED vars
  BY <1>0, <1>1 DEF vars, CallsAreCurrent, CallsAreApart, Usable
<1>2. ASSUME NEW g \in Registrars, Call(g), ~Admit(g) PROVE CallsAreCurrent' /\ CallsAreApart'
  <2>1. \A h \in Registrars : h # g => reg'[h] = reg[h]
    BY <1>0, <1>2, CallIsLocal
  <2>2. UNCHANGED <<account, invite>>
    BY <1>0, <1>2, CallMoves
  <2>3. /\ reg'[g].at # "idle" => reg'[g].invite \in Invites /\ reg'[g].email \in Emails
        /\ reg'[g].at \in Holding => Usable(reg'[g].invite)
        /\ reg'[g].at = "inserted" => account[reg'[g].email] = None
        /\ reg'[g].at \in {"matched", "admitted", "inserted"} /\ reg'[g].invite \in Recipients
             => reg'[g].email = reg'[g].invite
    <3>1. CASE reg'[g].at = "counted" \/ reg'[g].at = "idle"
      BY <1>0, <1>2, <3>1, CallMoves DEF Holding, LockInvite, MatchRecipient, CheckCohort, InsertUser, NoCall
    <3>2. CASE LockInvite(g) /\ reg'[g].at = "locked" /\ reg'[g].invite = reg[g].invite
               /\ reg'[g].email = reg[g].email
      BY <1>0, <3>2 DEF LockInvite, CallsAreCurrent
    <3>3. CASE MatchRecipient(g) /\ reg'[g].at \in {"matched", "admitted"}
               /\ reg'[g].invite = reg[g].invite /\ reg'[g].email = reg[g].email
      BY <1>0, <3>3 DEF MatchRecipient, CallsAreCurrent, Holding
    <3>4. CASE CheckCohort(g) /\ reg'[g].at = "admitted"
               /\ reg'[g].invite = reg[g].invite /\ reg'[g].email = reg[g].email
      BY <1>0, <3>4 DEF CheckCohort, CallsAreCurrent, Holding
    <3>5. CASE InsertUser(g) /\ reg'[g].at = "inserted"
               /\ reg'[g].invite = reg[g].invite /\ reg'[g].email = reg[g].email
      BY <1>0, <3>5 DEF InsertUser, CallsAreCurrent, Holding
    <3>6. QED
      BY <1>0, <1>2, <3>1, <3>2, <3>3, <3>4, <3>5, CallMoves DEF NoCall
  <2>4. CallsAreCurrent'
    BY <1>0, <2>1, <2>2, <2>3 DEF CallsAreCurrent, Usable
  <2>5. \A h \in Registrars : h # g =>
          /\ ~(reg'[g].at \in Holding /\ reg[h].at \in Holding /\ reg'[g].invite = reg[h].invite)
          /\ ~(reg'[g].at = "inserted" /\ reg[h].at = "inserted" /\ reg'[g].email = reg[h].email)
    <3>1. SUFFICES ASSUME NEW h \in Registrars, h # g
                   PROVE  /\ ~(reg'[g].at \in Holding /\ reg[h].at \in Holding
                               /\ reg'[g].invite = reg[h].invite)
                          /\ ~(reg'[g].at = "inserted" /\ reg[h].at = "inserted"
                               /\ reg'[g].email = reg[h].email)
      OBVIOUS
    <3>2. CASE reg'[g].at = "counted" \/ reg'[g].at = "idle"
      BY <3>2 DEF Holding
    <3>3. CASE LockInvite(g) /\ reg'[g].at = "locked" /\ reg'[g].invite = reg[g].invite
      BY <3>3 DEF LockInvite, InviteFree, Holds, Holding
    <3>4. CASE /\ MatchRecipient(g) \/ CheckCohort(g)
               /\ reg'[g].at \in {"matched", "admitted"} /\ reg'[g].invite = reg[g].invite
      BY <1>0, <3>1, <3>4 DEF MatchRecipient, CheckCohort, CallsAreApart, Holding
    <3>5. CASE InsertUser(g) /\ reg'[g].at = "inserted"
               /\ reg'[g].invite = reg[g].invite /\ reg'[g].email = reg[g].email
      BY <1>0, <3>1, <3>5 DEF InsertUser, CallsAreApart, Holding
    <3>6. QED
      BY <1>0, <1>2, <3>2, <3>3, <3>4, <3>5, CallMoves DEF NoCall
  <2>6. CallsAreApart'
    BY <1>0, <2>1, <2>5 DEF CallsAreApart
  <2>7. QED
    BY <2>4, <2>6
<1>3. ASSUME NEW g \in Registrars, Admit(g) PROVE CallsAreCurrent' /\ CallsAreApart'
  <2>1. \A h \in Registrars : h # g => reg'[h] = reg[h]
    BY <1>0, <1>3, CallIsLocal DEF Call
  <2>2. reg'[g].at = "idle" /\ reg[g].at = "inserted"
    BY <1>0, <1>3, AdmitMoves DEF NoCall
  <2>3. CallsAreApart'
    BY <1>0, <2>1, <2>2 DEF CallsAreApart, Holding
  <2>4. ASSUME NEW h \in Registrars, h # g, reg[h].at \in Holding
        PROVE  Usable(reg[h].invite)' /\ (reg[h].at = "inserted" => account'[reg[h].email] = None)
    <3>1. reg[h].invite \in Invites /\ reg[h].email \in Emails /\ Usable(reg[h].invite)
          /\ (reg[h].at = "inserted" => account[reg[h].email] = None)
      BY <1>0, <2>4 DEF CallsAreCurrent, Holding
    <3>2. reg[h].invite # reg[g].invite
          /\ (reg[h].at = "inserted" => reg[h].email # reg[g].email)
      BY <1>0, <2>2, <2>4 DEF CallsAreApart, Holding
    <3>3. reg'[h] = reg[h]
      BY <2>1, <2>4
    <3>4. reg[h].at = "inserted" => account'[reg[h].email] = None
      BY <1>0, <1>3, <3>1, <3>2, AdmitMoves
    <3>5. invite'[reg[h].invite].issued /\ ~invite'[reg[h].invite].revoked
          /\ ~invite'[reg[h].invite].consumed
      BY <1>0, <1>3, <3>1, <3>2, AdmitMoves DEF Usable
    <3>6. QED
      BY <3>3, <3>4, <3>5 DEF Usable
  <2>5. CallsAreCurrent'
    BY <1>0, <2>1, <2>2, <2>4 DEF CallsAreCurrent, Holding
  <2>6. QED
    BY <2>3, <2>5
<1>4. CASE Next /\ ~\E g \in Registrars : Call(g)
  <2>1. UNCHANGED <<account, reg>>
    BY <1>4 DEF Next, Operate, Approve, Dispatch, DispatchEnds, DispatchLost, Pause, Close,
                CloseCommits, CloseLost, AddRecipient, Withdraw, Deliver, Send
  <2>2. \A h \in Registrars : reg[h].at \in Holding => Usable(reg[h].invite)'
    BY <1>4, HeldStaysUsable
  <2>3. CallsAreApart'
    BY <1>0, <2>1 DEF CallsAreApart
  <2>4. CallsAreCurrent'
    BY <1>0, <2>1, <2>2 DEF CallsAreCurrent
  <2>5. QED
    BY <2>3, <2>4
<1>5. QED
  BY <1>1, <1>2, <1>3, <1>4

\* Only the commit of a call ties an email to an invitation, and it ties a fresh one.
LEMMA AccountsKept == IInv /\ [Next]_vars => OneAccountPerInvite'
<1> SUFFICES ASSUME IInv, [Next]_vars PROVE OneAccountPerInvite'
  OBVIOUS
<1>0. TypeOK /\ CallsAreCurrent /\ OneAccountPerInvite /\ NobodyInWhileSending
  BY DEF IInv
<1>1. CASE account' = account /\ \A i \in Invites : invite'[i].consumed = invite[i].consumed
  <2>1. Members' = Members
    BY <1>1 DEF Members
  <2>2. QED
    BY <1>0, <1>1, <2>1 DEF OneAccountPerInvite
<1>2. ASSUME NEW g \in Registrars, Admit(g) PROVE OneAccountPerInvite'
  <2> DEFINE i == reg[g].invite
             new == reg[g].email
  <2>1. /\ i \in Invites /\ new \in Emails /\ account[new] = None /\ ~invite[i].consumed
        /\ i \in Recipients => new = i
        /\ i # None
    BY <1>0, <1>2, AdmitMoves DEF Usable
  <2>2. \A e \in Emails : account'[e] = IF e = new THEN i ELSE account[e]
    BY <1>0, <1>2, AdmitMoves
  <2>3. \A k \in Invites : invite'[k].consumed = (k = i \/ invite[k].consumed)
    BY <1>0, <1>2, AdmitMoves
  <2>4. \A e \in Members : account[e] # i
    BY <1>0, <2>1 DEF OneAccountPerInvite
  <2>5. Members' = Members \cup {new} /\ Members \subseteq Emails
    BY <2>1, <2>2 DEF Members
  <2>6. account'[new] = i /\ \A e \in Members : account'[e] = account[e]
    BY <2>1, <2>2 DEF Members
  <2> HIDE DEF i, new
  <2>7. \A d, e \in Members' : account'[d] = account'[e] => d = e
    BY <1>0, <2>4, <2>5, <2>6 DEF OneAccountPerInvite
  <2>8. \A k \in Invites : invite'[k].consumed <=> \E e \in Members' : account'[e] = k
    <3>1. SUFFICES ASSUME NEW k \in Invites
                   PROVE  invite'[k].consumed <=> \E e \in Members' : account'[e] = k
      OBVIOUS
    <3>2. invite'[k].consumed <=> k = i \/ invite[k].consumed
      BY <2>3
    <3>3. invite[k].consumed <=> \E e \in Members : account[e] = k
      BY <1>0 DEF OneAccountPerInvite
    <3>4. (\E e \in Members' : account'[e] = k) <=> k = i \/ \E e \in Members : account[e] = k
      BY <2>5, <2>6
    <3>5. QED
      BY <3>2, <3>3, <3>4
  <2>9. \A r \in Recipients, e \in Members' : account'[e] = r => e = r
    BY <1>0, <2>1, <2>5, <2>6 DEF OneAccountPerInvite
  <2>10. QED
    BY <2>7, <2>8, <2>9 DEF OneAccountPerInvite
<1>3. CASE UNCHANGED vars
  BY <1>1, <1>3 DEF vars
<1>4. CASE Next /\ ~\E g \in Registrars : Call(g)
  <2>1. UNCHANGED account
    BY <1>4 DEF Next, Operate, Approve, Dispatch, DispatchEnds, DispatchLost, Pause, Close,
                CloseCommits, CloseLost, AddRecipient, Withdraw, Deliver, Send
  <2>2. \A i \in Invites : invite'[i].consumed = invite[i].consumed
    BY <1>0, <1>4, OperateMoves
  <2>3. QED
    BY <1>1, <2>1, <2>2
<1>5. CASE \E g \in Registrars : Call(g) /\ ~Admit(g)
  BY <1>0, <1>1, <1>5, CallMoves
<1>6. QED
  BY <1>2, <1>3, <1>4, <1>5

-----------------------------------------------------------------------------
(* What a close may rely on *)

\* A step of a call leaves rows usable or not as they were, and takes no recipient into the
\* withdrawable statuses.
LEMMA CallsOnlyConsume ==
    ASSUME IInv, NEW g \in Registrars, Call(g), NEW r \in Recipients
    PROVE  /\ invite'[r].issued = invite[r].issued
           /\ Usable(r)' => Usable(r) /\ recipient'[r] = recipient[r]
           /\ invite'[r].issued /\ ~invite'[r].consumed => ~invite[r].consumed
           /\ recipient'[r] = recipient[r] \/ recipient'[r] = "registered"
<1>0. TypeOK /\ CallsAreCurrent
  BY DEF IInv
<1>1. CASE ~Admit(g)
  BY <1>0, <1>1, CallMoves DEF Usable
<1>2. CASE Admit(g)
  <2>1. recipient'[r] = IF r = reg[g].invite THEN "registered" ELSE recipient[r]
    BY <1>2 DEF Admit
  <2>2. /\ invite'[r].issued = invite[r].issued
        /\ invite'[r].revoked = invite[r].revoked
        /\ invite'[r].consumed = (r = reg[g].invite \/ invite[r].consumed)
    BY <1>0, <1>2, AdmitMoves
  <2>3. QED
    BY <2>1, <2>2 DEF Usable
<1>3. QED
  BY <1>1, <1>2

\* What a close has read and written remains all there is to withdraw.
LEMMA CloseKept == IInv /\ [Next]_vars => CloseSeesAll'
<1> SUFFICES ASSUME IInv, [Next]_vars PROVE CloseSeesAll'
  OBVIOUS
<1>0. TypeOK /\ CloseSeesAll /\ NobodyInWhileSending /\ CallsAreCurrent
  BY DEF IInv
<1>1. CASE UNCHANGED <<recipient, invite, closer, reg>>
  BY <1>0, <1>1 DEF CloseSeesAll, Usable, InviteFree, Holds
<1>2. ASSUME NEW g \in Registrars, Call(g) PROVE CloseSeesAll'
  <2>1. closer' = closer
    BY <1>2, CallFrame
  <2>2. \A r \in Recipients : Usable(r)' => recipient'[r] \in Withdrawable
    BY <1>0, <1>2, CallsOnlyConsume DEF CloseSeesAll
  <2>3. closer'.at = "closing" => \A r \in Recipients :
          recipient'[r] \in Withdrawable => r \in closer'.todo \cup closer'.withdrawn
    BY <1>0, <1>2, <2>1, CallsOnlyConsume DEF CloseSeesAll, Withdrawable
  <2>4. \A r \in closer'.withdrawn : invite'[r].issued /\ ~invite'[r].consumed
          => r \in closer'.revoked \cup closer'.pending
    <3>1. closer.withdrawn \subseteq Recipients
      BY <1>0 DEF TypeOK
    <3>2. QED
      BY <1>0, <1>2, <2>1, <3>1, CallsOnlyConsume DEF CloseSeesAll
  <2>5. \A i \in closer'.revoked : InviteFree(i)'
    <3>1. SUFFICES ASSUME NEW i \in closer.revoked, NEW h \in Registrars, Holds(h, i)'
                   PROVE  FALSE
      BY <2>1 DEF InviteFree
    <3>2. ~Holds(h, i) /\ i \in Recipients
      BY <1>0 DEF CloseSeesAll, InviteFree, TypeOK
    <3>3. h = g
      BY <1>0, <1>2, <3>1, <3>2, CallIsLocal DEF Holds
    <3>4. ~Admit(g)
      BY <1>0, <3>1, <3>3, AdmitMoves DEF Holds, NoCall
    <3>5. ~LockInvite(g) \/ reg'[g].invite # reg[g].invite
      BY <3>1, <3>3 DEF LockInvite, Holds
    <3>6. QED
      BY <1>0, <1>2, <3>1, <3>2, <3>3, <3>4, <3>5, CallMoves
         DEF Holds, NoCall, MatchRecipient, CheckCohort, InsertUser
  <2>6. closer'.at = "idle" => closer' = NoCloser
    BY <1>0, <2>1 DEF CloseSeesAll
  <2>7. QED
    BY <2>2, <2>3, <2>4, <2>5, <2>6 DEF CloseSeesAll
<1>3. ASSUME NEW r \in Recipients, AddRecipient(r) PROVE CloseSeesAll'
  <2>1. closer = NoCloser /\ closer' = closer /\ invite' = invite /\ reg' = reg
    BY <1>0, <1>3 DEF AddRecipient, CohortFree, CloseSeesAll
  <2>2. \A s \in Recipients : recipient'[s] = IF s = r THEN "staged" ELSE recipient[s]
    BY <1>0, <1>3 DEF AddRecipient, TypeOK
  <2>3. QED
    BY <1>0, <2>1, <2>2 DEF CloseSeesAll, NoCloser, Withdrawable, Usable
<1>4. CASE Dispatch
  <2>1. closer = NoCloser /\ closer' = closer
    BY <1>0, <1>4 DEF Dispatch, CohortFree, CloseSeesAll
  <2>2. \A r \in Recipients : Usable(r)' => recipient'[r] \in Withdrawable
    <3>1. SUFFICES ASSUME NEW r \in Recipients, Usable(r)' PROVE recipient'[r] \in Withdrawable
      OBVIOUS
    <3>2. CASE recipient[r] = "staged"
      BY <1>4, <3>2 DEF Dispatch, WithStatus, Withdrawable
    <3>3. CASE recipient[r] # "staged"
      <4>1. recipient'[r] = recipient[r] /\ invite'[r] = invite[r]
        BY <1>4, <3>3 DEF Dispatch, WithStatus
      <4>2. QED
        BY <1>0, <3>1, <4>1 DEF CloseSeesAll, Usable
    <3>4. QED
      BY <3>2, <3>3
  <2>3. QED
    BY <2>1, <2>2 DEF CloseSeesAll, NoCloser
<1>5. CASE DispatchEnds
  <2>1. closer = NoCloser /\ closer' = closer /\ invite' = invite /\ reg' = reg
    BY <1>0, <1>5 DEF DispatchEnds, CohortFree, CloseSeesAll
  <2>2. \A r \in Recipients : recipient'[r] = IF r \in sender.failed THEN "failed" ELSE recipient[r]
    BY <1>5 DEF DispatchEnds
  <2>3. QED
    BY <1>0, <2>1, <2>2 DEF CloseSeesAll, NoCloser, Withdrawable, Usable
<1>6. CASE Close
  <2>1. closer = NoCloser /\ recipient' = recipient /\ invite' = invite /\ reg' = reg
    BY <1>0, <1>6 DEF Close, CohortFree, CloseSeesAll
  <2>2. closer' = [at |-> "closing", todo |-> WithStatus(Withdrawable), withdrawn |-> {},
                   revoked |-> {}, pending |-> {}]
    BY <1>6 DEF Close, NoCloser
  <2>3. QED
    BY <1>0, <2>1, <2>2 DEF CloseSeesAll, WithStatus, Usable
<1>7. ASSUME NEW r \in Recipients, Withdraw(r) PROVE CloseSeesAll'
  <2>1. recipient' = recipient /\ invite' = invite /\ reg' = reg
    BY <1>7 DEF Withdraw
  <2>2. /\ closer'.at = closer.at
        /\ closer'.todo = closer.todo \ {r}
        /\ closer'.withdrawn = closer.withdrawn \cup {r}
        /\ closer'.revoked = closer.revoked \cup closer.pending
        /\ closer'.pending = IF invite[r].issued /\ ~invite[r].consumed THEN {r} ELSE {}
    BY <1>0, <1>7 DEF Withdraw, TypeOK
  <2>3. closer.at = "closing" /\ \A i \in closer.pending : InviteFree(i)
    BY <1>0, <1>7 DEF Withdraw, CloseSeesAll, NoCloser, TypeOK
  <2>4. \A i : InviteFree(i)' <=> InviteFree(i)
    BY <2>1 DEF InviteFree, Holds
  <2>5. QED
    BY <1>0, <2>1, <2>2, <2>3, <2>4 DEF CloseSeesAll, Usable
<1>8. CASE CloseCommits
  <2>1. closer' = NoCloser /\ reg' = reg
    BY <1>8 DEF CloseCommits
  <2>2. \A r \in Recipients : Usable(r)' => recipient'[r] \in Withdrawable
    <3>1. SUFFICES ASSUME NEW r \in Recipients, Usable(r)' PROVE recipient'[r] \in Withdrawable
      OBVIOUS
    <3>2. r \notin closer.revoked \cup closer.pending
      <4>1. r \in closer.revoked \cup closer.pending => invite'[r] = [invite[r] EXCEPT !.revoked = TRUE]
        BY <1>8 DEF CloseCommits
      <4>2. [invite[r] EXCEPT !.revoked = TRUE].revoked = TRUE
        BY <1>0 DEF TypeOK, InviteRows
      <4>3. QED
        BY <3>1, <4>1, <4>2 DEF Usable
    <3>3. invite'[r] = invite[r]
      BY <1>8, <3>2 DEF CloseCommits
    <3>4. r \notin closer.withdrawn /\ Usable(r)
      BY <1>0, <3>1, <3>2, <3>3 DEF CloseSeesAll, Usable
    <3>5. recipient'[r] = recipient[r]
      BY <1>8, <3>4 DEF CloseCommits
    <3>6. QED
      BY <1>0, <3>4, <3>5 DEF CloseSeesAll
  <2>3. QED
    BY <2>1, <2>2 DEF CloseSeesAll, NoCloser
<1>9. CASE CloseLost
  BY <1>0, <1>9 DEF CloseLost, CloseSeesAll, NoCloser, Usable
<1>10. QED
  <2>1. CASE Approve \/ DispatchLost \/ Pause \/ \E r \in Recipients : Deliver(r)
             \/ \E raises, taken \in BOOLEAN : Send(r, raises, taken)
    BY <1>1, <2>1 DEF Approve, DispatchLost, Pause, Deliver, Send
  <2>2. CASE UNCHANGED vars
    BY <1>1, <2>2 DEF vars
  <2>3. QED
    BY <1>2, <1>3, <1>4, <1>5, <1>6, <1>7, <1>8, <1>9, <2>1, <2>2 DEF Next, Operate

\* The commit of a close leaves no usable invitation of the cohort.
LEMMA CloseKillsAll == ASSUME IInv, CloseCommits, NEW r \in Recipients PROVE ~Usable(r)'
<1>0. TypeOK /\ CloseSeesAll
  BY DEF IInv
<1>1. SUFFICES ASSUME Usable(r)' PROVE FALSE
  OBVIOUS
<1>2. r \in closer.revoked \cup closer.pending => FALSE
  <2>1. r \in closer.revoked \cup closer.pending => invite'[r] = [invite[r] EXCEPT !.revoked = TRUE]
    BY DEF CloseCommits
  <2>2. [invite[r] EXCEPT !.revoked = TRUE].revoked = TRUE
    BY <1>0 DEF TypeOK, InviteRows
  <2>3. QED
    BY <1>1, <2>1, <2>2 DEF Usable
<1>3. Usable(r)
  BY <1>1, <1>2 DEF CloseCommits, Usable
<1>4. r \in closer.withdrawn
  BY <1>0, <1>3 DEF CloseSeesAll, CloseCommits
<1>5. QED
  BY <1>0, <1>2, <1>3, <1>4 DEF CloseSeesAll, Usable

\* No later step revives an invitation of a cohort that was closed.
LEMMA ClosedKept == IInv /\ [Next]_vars => ClosedIsDead'
<1> SUFFICES ASSUME IInv, [Next]_vars PROVE ClosedIsDead'
  OBVIOUS
<1>0. TypeOK /\ ClosedIsDead /\ NobodyInWhileSending
  BY DEF IInv
<1>1. CASE UNCHANGED <<cohort, invite>>
  BY <1>0, <1>1 DEF ClosedIsDead, Usable
<1>2. ASSUME NEW g \in Registrars, Call(g) PROVE ClosedIsDead'
  BY <1>0, <1>2, CallFrame, CallsOnlyConsume DEF ClosedIsDead
<1>3. CASE Approve
  BY <1>0, <1>3 DEF Approve, ClosedIsDead, TypeOK
<1>4. CASE Dispatch
  BY <1>0, <1>4 DEF Dispatch, ClosedIsDead, TypeOK
<1>5. CASE DispatchEnds
  BY <1>0, <1>5 DEF DispatchEnds, SendVerdict, ClosedIsDead, TypeOK, Usable
<1>6. CASE Pause
  BY <1>0, <1>6 DEF Pause, ClosedIsDead, TypeOK, Usable
<1>7. CASE CloseCommits
  BY <1>7, CloseKillsAll DEF CloseCommits, ClosedIsDead
<1>8. QED
  <2>1. CASE DispatchLost \/ Close \/ CloseLost
             \/ \E r \in Recipients : \/ AddRecipient(r) \/ Withdraw(r) \/ Deliver(r)
                                      \/ \E raises, taken \in BOOLEAN : Send(r, raises, taken)
    BY <1>1, <2>1 DEF DispatchLost, Close, CloseLost, AddRecipient, Withdraw, Deliver, Send
  <2>2. CASE UNCHANGED vars
    BY <1>1, <2>2 DEF vars
  <2>3. QED
    BY <1>2, <1>3, <1>4, <1>5, <1>6, <1>7, <2>1, <2>2 DEF Next, Operate

-----------------------------------------------------------------------------
(* What the late write of a dispatch may rely on *)

\* Nobody is let in before the dispatch has written the cohort.
LEMMA SendingKept == IInv /\ [Next]_vars => NobodyInWhileSending'
<1> SUFFICES ASSUME IInv, [Next]_vars PROVE NobodyInWhileSending'
  OBVIOUS
<1>0. TypeOK /\ CallsAreCurrent /\ NobodyInWhileSending
  BY DEF IInv
<1>1. CASE UNCHANGED <<cohort, invite, sender, reg>>
  BY <1>0, <1>1 DEF NobodyInWhileSending
<1>2. ASSUME NEW g \in Registrars, Call(g), ~Admit(g) PROVE NobodyInWhileSending'
  <2>1. cohort' = cohort /\ sender' = sender /\ invite' = invite
    BY <1>0, <1>2, CallFrame, CallMoves
  <2>2. \A h \in Registrars : h # g => reg'[h] = reg[h]
    BY <1>0, <1>2, CallIsLocal
  <2>3. sender.at = "sending" /\ reg'[g].invite \in Recipients
          => reg'[g].at \notin {"admitted", "inserted"}
    <3>1. SUFFICES ASSUME sender.at = "sending", reg'[g].invite \in Recipients,
                          reg'[g].at \in {"admitted", "inserted"}
                   PROVE  FALSE
      OBVIOUS
    <3>2. reg[g].at \notin {"admitted", "inserted"} \/ reg[g].invite \notin Recipients
      BY <1>0, <3>1 DEF NobodyInWhileSending
    <3>3. CASE MatchRecipient(g) /\ reg'[g].invite = reg[g].invite
      <4>1. reg[g].invite \notin Direct
        BY <3>1, <3>3
      <4>2. Goto(g, "matched")
        BY <3>3, <4>1 DEF MatchRecipient
      <4>3. QED
        BY <1>0, <3>1, <4>2, GotoMoves
    <3>4. CASE CheckCohort(g)
      BY <1>0, <3>1, <3>4 DEF CheckCohort, Admits, NobodyInWhileSending
    <3>5. CASE InsertUser(g) /\ reg'[g].invite = reg[g].invite
      BY <3>1, <3>2, <3>5 DEF InsertUser
    <3>6. QED
      BY <1>0, <1>2, <3>1, <3>3, <3>4, <3>5, CallMoves DEF NoCall
  <2>4. QED
    BY <1>0, <2>1, <2>2, <2>3 DEF NobodyInWhileSending
<1>3. ASSUME NEW g \in Registrars, Admit(g) PROVE NobodyInWhileSending'
  <2>1. cohort' = cohort /\ sender' = sender
    BY <1>3 DEF Admit
  <2>2. \A h \in Registrars : h # g => reg'[h] = reg[h]
    BY <1>0, <1>3, CallIsLocal DEF Call
  <2>3. reg'[g] = NoCall /\ reg[g].at = "inserted" /\ Usable(reg[g].invite)
    BY <1>0, <1>3, AdmitMoves
  <2>4. \A i \in Invites : /\ invite'[i].issued = invite[i].issued
                           /\ invite'[i].consumed = (i = reg[g].invite \/ invite[i].consumed)
    BY <1>0, <1>3, AdmitMoves
  <2>5. \A i \in Invites : invite'[i].consumed => invite'[i].issued
    BY <1>0, <2>3, <2>4 DEF Usable, NobodyInWhileSending
  <2>6. sender.at = "sending" => \A r \in Recipients : ~invite'[r].consumed
    BY <1>0, <2>3, <2>4 DEF NobodyInWhileSending
  <2>7. QED
    BY <1>0, <2>1, <2>2, <2>3, <2>4, <2>5, <2>6 DEF NobodyInWhileSending, NoCall
<1>4. CASE Approve
  BY <1>0, <1>4 DEF Approve, NobodyInWhileSending, TypeOK
<1>5. CASE Dispatch
  <2>1. /\ cohort.status = "approved" /\ cohort'.status = "dispatching" /\ reg' = reg
        /\ sender'.at = "sending"
    BY <1>0, <1>5 DEF Dispatch, TypeOK, NoSender
  <2>2. \A r \in Recipients : ~invite[r].issued /\ ~invite[r].consumed
    BY <1>0, <2>1 DEF NobodyInWhileSending
  <2>3. \A g \in Registrars : reg[g].invite \in Recipients => reg[g].at \notin Holding
    BY <1>0, <2>2 DEF CallsAreCurrent, Usable
  <2>4. \A i \in Invites : invite'[i] = invite[i] \/ (i \in Recipients /\ invite'[i] = Fresh)
    BY <1>5 DEF Dispatch, WithStatus
  <2>5. Fresh.issued = TRUE /\ Fresh.consumed = FALSE
    BY DEF Fresh
  <2>6. /\ \A i \in Invites : invite'[i].consumed => invite'[i].issued
        /\ \A r \in Recipients : ~invite'[r].consumed
    BY <1>0, <2>2, <2>4, <2>5 DEF NobodyInWhileSending
  <2>7. QED
    BY <2>1, <2>3, <2>6 DEF NobodyInWhileSending, Holding
<1>6. CASE DispatchEnds
  BY <1>0, <1>6 DEF DispatchEnds, SendVerdict, NobodyInWhileSending, NoSender, TypeOK
<1>7. CASE DispatchLost
  BY <1>0, <1>7 DEF DispatchLost, NobodyInWhileSending, NoSender
<1>8. CASE Pause
  BY <1>0, <1>8 DEF Pause, NobodyInWhileSending, TypeOK
<1>9. CASE CloseCommits
  <2>1. cohort'.status = "closed" /\ UNCHANGED <<sender, reg>>
    BY <1>9 DEF CloseCommits
  <2>2. \A i \in Invites : /\ invite'[i].consumed = invite[i].consumed
                           /\ invite'[i].issued = invite[i].issued
    <3>1. SUFFICES ASSUME NEW i \in Invites
                   PROVE  /\ invite'[i].consumed = invite[i].consumed
                          /\ invite'[i].issued = invite[i].issued
      OBVIOUS
    <3>2. invite'[i] = invite[i] \/ invite'[i] = [invite[i] EXCEPT !.revoked = TRUE]
      BY <1>9 DEF CloseCommits
    <3>3. \A inv \in InviteRows : /\ [inv EXCEPT !.revoked = TRUE].consumed = inv.consumed
                                  /\ [inv EXCEPT !.revoked = TRUE].issued = inv.issued
      BY DEF InviteRows
    <3>4. QED
      BY <1>0, <3>2, <3>3 DEF TypeOK
  <2>3. QED
    BY <1>0, <2>1, <2>2 DEF NobodyInWhileSending
<1>10. ASSUME NEW r \in Recipients, NEW raises \in BOOLEAN, NEW taken \in BOOLEAN,
              Send(r, raises, taken)
       PROVE  NobodyInWhileSending'
  <2>1. sender'.at = sender.at /\ UNCHANGED <<cohort, invite, reg>>
    BY <1>0, <1>10 DEF Send, TypeOK
  <2>2. sender.at # "idle"
    BY <1>0, <1>10 DEF Send, NobodyInWhileSending, NoSender
  <2>3. QED
    BY <1>0, <2>1, <2>2 DEF NobodyInWhileSending
<1>11. QED
  <2>1. CASE Close \/ CloseLost
             \/ \E r \in Recipients : AddRecipient(r) \/ Withdraw(r) \/ Deliver(r)
    BY <1>1, <2>1 DEF Close, CloseLost, AddRecipient, Withdraw, Deliver
  <2>2. CASE UNCHANGED vars
    BY <1>1, <2>2 DEF vars
  <2>3. QED
    BY <1>2, <1>3, <1>4, <1>5, <1>6, <1>7, <1>8, <1>9, <1>10, <2>1, <2>2 DEF Next, Operate

\* Nobody who has registered is reported as failed.
LEMMA FailedKept == IInv /\ [Next]_vars => FailedIsNoMember'
<1> SUFFICES ASSUME IInv, [Next]_vars, NEW r \in Recipients, recipient'[r] = "failed"
             PROVE  ~invite'[r].consumed
  BY DEF FailedIsNoMember
<1>0. TypeOK /\ CallsAreCurrent /\ NobodyInWhileSending /\ FailedIsNoMember
  BY DEF IInv
<1>1. CASE recipient[r] = recipient'[r] /\ invite'[r].consumed = invite[r].consumed
  BY <1>0, <1>1 DEF FailedIsNoMember
<1>2. ASSUME NEW g \in Registrars, Call(g) PROVE ~invite'[r].consumed
  <2>1. CASE ~Admit(g)
    BY <1>0, <1>1, <1>2, <2>1, CallMoves
  <2>2. CASE Admit(g)
    <3>1. recipient'[r] = IF r = reg[g].invite THEN "registered" ELSE recipient[r]
      BY <2>2 DEF Admit
    <3>2. r # reg[g].invite /\ recipient'[r] = recipient[r]
      BY <3>1
    <3>3. invite'[r].consumed = (r = reg[g].invite \/ invite[r].consumed)
      BY <1>0, <2>2, AdmitMoves
    <3>4. QED
      BY <1>0, <3>2, <3>3 DEF FailedIsNoMember
  <2>3. QED
    BY <2>1, <2>2
<1>3. CASE Next /\ ~\E g \in Registrars : Call(g)
  <2>1. invite'[r].consumed = invite[r].consumed
    BY <1>0, <1>3, OperateMoves
  <2>2. CASE DispatchEnds
    <3>1. recipient'[r] = IF r \in sender.failed THEN "failed" ELSE recipient[r]
      BY <2>2 DEF DispatchEnds
    <3>2. ~invite[r].consumed
      BY <1>0, <2>2 DEF DispatchEnds, NobodyInWhileSending
    <3>3. QED
      BY <2>1, <3>2
  <2>3. CASE ~DispatchEnds
    <3>1. recipient'[r] \in {recipient[r], "staged", "queued", "withdrawn"}
      BY ZenonT(40), <1>0, <1>3, <2>3
         DEF Next, Operate, Approve, Dispatch, DispatchLost, Pause, Close, CloseCommits, CloseLost,
             AddRecipient, Withdraw, Deliver, Send, TypeOK
    <3>2. QED
      BY <1>1, <2>1, <3>1
  <2>4. QED
    BY <2>2, <2>3
<1>4. CASE UNCHANGED vars
  BY <1>1, <1>4 DEF vars
<1>5. QED
  BY <1>2, <1>3, <1>4

-----------------------------------------------------------------------------
(* The invariant and what follows from it *)

\* The invariant holds before anybody has done anything.
LEMMA InvInit == Init => IInv
<1> SUFFICES ASSUME Init PROVE IInv
  OBVIOUS
<1> USE DEF Init
<1>1. TypeOK
  <2>1. \A i \in Invites : [Fresh EXCEPT !.issued = i \in Direct] \in InviteRows
    <3>1. \A inv \in InviteRows, b \in BOOLEAN : [inv EXCEPT !.issued = b] \in InviteRows
      BY DEF InviteRows
    <3>2. Fresh \in InviteRows /\ \A i \in Invites : (i \in Direct) \in BOOLEAN
      BY DEF Fresh, InviteRows
    <3>3. QED
      BY <3>1, <3>2
  <2>2. QED
    BY <2>1 DEF TypeOK, CohortStatus, RecipientStatus, NoSender, NoCloser, NoCall
<1>2. \A g \in Registrars : reg[g].at = "idle"
  BY DEF NoCall
<1>3. Members = {} /\ Cardinality(Members) = 0
  BY FS_EmptySet DEF Members
<1>4. \A i \in Invites : invite[i].issued = (i \in Direct) /\ ~invite[i].consumed
  BY DEF Fresh
<1>5. CapacityHolds
  BY <1>3 DEF CapacityHolds
<1>6. CallsHaveRoom /\ CallsAreCurrent /\ CallsAreApart
  BY <1>2 DEF CallsHaveRoom, CallsAreCurrent, CallsAreApart, Holding
<1>7. OneAccountPerInvite
  BY <1>3, <1>4 DEF OneAccountPerInvite
<1>8. CloseSeesAll
  BY <1>4 DEF CloseSeesAll, Usable, NoCloser
<1>9. ClosedIsDead /\ FailedIsNoMember
  BY DEF ClosedIsDead, FailedIsNoMember
<1>10. NobodyInWhileSending
  BY <1>4 DEF NobodyInWhileSending, NoSender
<1>11. QED
  BY <1>1, <1>5, <1>6, <1>7, <1>8, <1>9, <1>10 DEF IInv

\* Every step keeps the invariant.
LEMMA InvNext == IInv /\ [Next]_vars => IInv'
<1>1. IInv => TypeOK
  BY DEF IInv
<1>2. QED
  BY <1>1, TypeKeeps, RoomKept, CallsKept, AccountsKept, CloseKept, ClosedKept, SendingKept,
     FailedKept DEF IInv

\* The invariant holds throughout.
LEMMA Invariance == Spec => []IInv
BY InvInit, InvNext, PTL DEF Spec

\* Cohort, recipients, invitations, accounts and sessions keep their types.
THEOREM TypeCorrect == Spec => []TypeOK
<1>1. IInv => TypeOK
  BY DEF IInv
<1>2. QED
  BY <1>1, Invariance, PTL

\* However many calls of register race, for whatever number of seats, a controlled beta never
\* has more users than beta_max_active_users.
THEOREM CapacityIsKept == Spec => []CapacityHolds
<1>1. IInv => CapacityHolds
  BY DEF IInv
<1>2. QED
  BY <1>1, Invariance, PTL

\* One invitation makes one account, the account names it, and an invitation of the cohort
\* makes only its own recipient's, whatever close, pause and dispatch do meanwhile.
THEOREM OneAccountEach == Spec => []OneAccountPerInvite
<1>1. IInv => OneAccountPerInvite
  BY DEF IInv
<1>2. QED
  BY <1>1, Invariance, PTL

\* A dispatch that marks recipients as failed after a send of unknown outcome hides no
\* registration, though it writes without reading again.
THEOREM FailedStaysOut == Spec => []FailedIsNoMember
<1>1. IInv => FailedIsNoMember
  BY DEF IInv
<1>2. QED
  BY <1>1, Invariance, PTL

\* Once a close has committed, no call of register admits a recipient, neither one that began
\* before nor one after a dispatch has made the cohort active again.
THEOREM ClosedStaysClosed == Spec => ClosedAdmitsNobody
<1>1. ASSUME IInv, [Next]_vars
      PROVE  [cohort.closed =>
                \A r \in Recipients : invite'[r].consumed => invite[r].consumed]_invite
  <2>0. TypeOK /\ CallsAreCurrent /\ ClosedIsDead /\ NobodyInWhileSending
    BY <1>1 DEF IInv
  <2>1. SUFFICES ASSUME cohort.closed, NEW r \in Recipients, invite'[r].consumed
                 PROVE  invite[r].consumed
    OBVIOUS
  <2>2. ASSUME NEW g \in Registrars, Call(g) PROVE invite[r].consumed
    <3>1. CASE ~Admit(g)
      BY <2>0, <2>1, <2>2, <3>1, CallMoves
    <3>2. CASE Admit(g)
      <4>1. Usable(reg[g].invite) /\ invite'[r].consumed = (r = reg[g].invite \/ invite[r].consumed)
        BY <2>0, <3>2, AdmitMoves
      <4>2. r # reg[g].invite
        BY <2>0, <2>1, <4>1 DEF ClosedIsDead
      <4>3. QED
        BY <2>1, <4>1, <4>2
    <3>3. QED
      BY <3>1, <3>2
  <2>3. CASE Next /\ ~\E g \in Registrars : Call(g)
    BY <2>0, <2>1, <2>3, OperateMoves
  <2>4. CASE UNCHANGED vars
    BY <2>1, <2>4 DEF vars
  <2>5. QED
    BY <1>1, <2>2, <2>3, <2>4
<1>2. QED
  BY <1>1, Invariance, PTL DEF Spec, ClosedAdmitsNobody


-----------------------------------------------------------------------------
(* Access: the calendar *)

\* A number of a day is its month and its day of the month.
LEMMA DayNumbers ==
    /\ \A i \in Nat : Month(i) \in Nat /\ DayOf(i) \in 0..30 /\ i = 31 * Month(i) + DayOf(i)
    /\ \A m \in Nat, d \in 0..30 : Month(31 * m + d) = m /\ DayOf(31 * m + d) = d
    /\ \A m \in Nat : DaysIn(m) \in 1..31
<1>1. \A i \in Nat : Month(i) \in Nat /\ DayOf(i) \in 0..30 /\ i = 31 * Month(i) + DayOf(i)
  BY DEF Month, DayOf
<1>2. \A m \in Nat, d \in 0..30 : Month(31 * m + d) = m /\ DayOf(31 * m + d) = d
  BY DEF Month, DayOf
<1>3. ASSUME NEW m \in Nat PROVE DaysIn(m) \in 1..31
  <2>1. m % Cycle \in 0..(Cycle - 1)
    BY CalendarAssumption
  <2>2. QED
    BY <2>1, CalendarAssumption DEF DaysIn
<1>4. QED
  BY <1>1, <1>2, <1>3

\* The next day is a day, and later; so is the day a term ends.
LEMMA Calendar ==
    ASSUME NEW i \in Nat, IsDay(i), NEW term \in {"month", "year"}
    PROVE  /\ IsDay(NextDay(i)) /\ NextDay(i) \in Nat /\ NextDay(i) > i
           /\ IsDay(AddCalendarTerm(i, term)) /\ AddCalendarTerm(i, term) \in Nat
           /\ AddCalendarTerm(i, term) > i
<1> DEFINE m == Month(i)
           d == DayOf(i)
           n == DaysIn(m)
<1>1. m \in Nat /\ d \in 0..30 /\ i = 31 * m + d /\ n \in 1..31 /\ d < n
  BY DayNumbers DEF IsDay
<1> HIDE DEF m, d, n
<1>2. IsDay(NextDay(i)) /\ NextDay(i) \in Nat /\ NextDay(i) > i
  <2>1. CASE d + 1 < n
    <3>1. NextDay(i) = i + 1
      BY <2>1 DEF NextDay, d, n, m
    <3>2. i + 1 = 31 * m + (d + 1) /\ d + 1 \in 0..30 /\ i + 1 \in Nat
      BY <1>1, <2>1
    <3>3. Month(31 * m + (d + 1)) = m /\ DayOf(31 * m + (d + 1)) = d + 1
      BY <1>1, <3>2, DayNumbers
    <3>4. Month(i + 1) = m /\ DayOf(i + 1) = d + 1
      BY <3>2, <3>3
    <3>5. QED
      BY <1>1, <2>1, <3>1, <3>2, <3>4 DEF IsDay, n
  <2>2. CASE ~(d + 1 < n)
    <3>1. NextDay(i) = 31 * (m + 1)
      BY <2>2 DEF NextDay, d, n, m
    <3>2. m + 1 \in Nat /\ 31 * (m + 1) = 31 * (m + 1) + 0 /\ 0 \in 0..30 /\ 31 * (m + 1) \in Nat
      BY <1>1
    <3>6. /\ Month(31 * (m + 1) + 0) = m + 1 /\ DayOf(31 * (m + 1) + 0) = 0
          /\ DaysIn(m + 1) \in 1..31
      BY <3>2, DayNumbers
    <3>3. Month(31 * (m + 1)) = m + 1 /\ DayOf(31 * (m + 1)) = 0 /\ DaysIn(m + 1) \in 1..31
      BY <3>2, <3>6
    <3>4. 31 * (m + 1) > i
      BY <1>1
    <3>5. QED
      BY <3>1, <3>2, <3>3, <3>4 DEF IsDay
  <2>3. QED
    BY <2>1, <2>2
<1>3. IsDay(AddCalendarTerm(i, term)) /\ AddCalendarTerm(i, term) \in Nat /\ AddCalendarTerm(i, term) > i
  <2> DEFINE k == IF term = "year" THEN YearMonths ELSE 1
             e == IF d < DaysIn(m + k) THEN d ELSE DaysIn(m + k) - 1
  <2>1. k \in Nat \ {0} /\ m + k \in Nat
    BY <1>1, CalendarAssumption
  <2>2. AddCalendarTerm(i, term) = 31 * (m + k) + e
    BY DEF AddCalendarTerm, m, d
  <2> HIDE DEF k
  <2>3. DaysIn(m + k) \in 1..31
    BY <2>1, DayNumbers
  <2>4. e \in 0..30 /\ e < DaysIn(m + k)
    BY <1>1, <2>3
  <2> HIDE DEF e
  <2> DEFINE j == 31 * (m + k) + e
  <2>5. j \in Nat /\ j > i
    BY <1>1, <2>1, <2>4
  <2>6. Month(j) = m + k /\ DayOf(j) = e
    BY <2>1, <2>4, DayNumbers
  <2> HIDE DEF j
  <2>7. IsDay(j)
    BY <2>4, <2>5, <2>6 DEF IsDay
  <2>8. QED
    BY <2>2, <2>5, <2>7 DEF j
<1>4. QED
  BY <1>2, <1>3

-----------------------------------------------------------------------------
(* Access: activations *)

CallRows == [at : {"idle", "holding", "reading"}, code : Codes \cup {Never},
             now : Nat, locks : BOOLEAN, previous : SubscriptionRows]

\* A call under way has a code that exists and a clock that is not ahead; what it has read of a
\* subscription is a period of days.
CallsAreTyped ==
    \A p \in Activations :
        /\ call[p].at # "idle" => call[p].code \in Codes /\ code[call[p].code].is # "absent"
        /\ IsDay(call[p].now) /\ call[p].now <= today
        /\ IsDay(call[p].previous.start) /\ IsDay(call[p].previous.end)

\* A call that has read holds an open code alone, and, if it found one, the subscription row.
LocksHold ==
    \A p \in Activations : call[p].at = "reading" =>
        /\ code[call[p].code].is = "open"
        /\ call[p].locks = (call[p].previous # NoPeriod)
        /\ call[p].locks => call[p].previous = subscription[HolderOf[call[p].code]]
        /\ \A q \in Activations : call[q].at = "reading" /\ q # p =>
             /\ call[q].code # call[p].code
             /\ ~(call[q].locks /\ call[p].locks /\ HolderOf[call[q].code] = HolderOf[call[p].code])

\* A subscription ends after every period that was paid for, and has begun with it unless the
\* period is over.
PeriodsAreCovered ==
    /\ \A h \in Holders : /\ subscription[h].start <= subscription[h].end
                          /\ subscription[h] = NoPeriod \/ subscription[h].end > 0
    /\ \A c \in Redeemed :
         /\ redemption[c].end <= subscription[HolderOf[c]].end
         /\ \/ subscription[HolderOf[c]].start <= redemption[c].start
            \/ redemption[c].end <= today

AccessInv ==
    /\ AccessTypeOK
    /\ CallsAreTyped
    /\ LocksHold
    /\ PeriodsAreCovered
    /\ PeriodsAreApart

\* The first day.
LEMMA FirstDay == IsDay(0)
<1>1. Month(31 * 0 + 0) = 0 /\ DayOf(31 * 0 + 0) = 0 /\ DaysIn(0) \in 1..31
  BY DayNumbers
<1>2. 31 * 0 + 0 = 0
  OBVIOUS
<1>3. QED
  BY <1>1, <1>2 DEF IsDay

LEMMA RestingIsTyped ==
    /\ Resting \in CallRows /\ Resting.at = "idle" /\ Resting.now = 0 /\ Resting.previous = NoPeriod
    /\ Resting.locks = FALSE /\ NoPeriod \in SubscriptionRows /\ NoPeriod.start = 0
    /\ NoPeriod.end = 0
BY DEF Resting, CallRows, NoPeriod, SubscriptionRows

LEMMA AccessInitially == AccessInit => AccessInv
<1> SUFFICES ASSUME AccessInit PROVE AccessInv
  OBVIOUS
<1>1. AccessTypeOK
  BY FirstDay, RestingIsTyped
     DEF AccessInit, AccessTypeOK, CodeRows, RedemptionRows, SubscriptionRows, CallRows
<1>2. CallsAreTyped
  BY FirstDay, RestingIsTyped DEF AccessInit, CallsAreTyped
<1>3. LocksHold
  BY RestingIsTyped DEF AccessInit, LocksHold
<1>4. Redeemed = {}
  BY DEF AccessInit, Redeemed
<1>5. PeriodsAreCovered
  BY <1>4, RestingIsTyped DEF AccessInit, PeriodsAreCovered
<1>6. QED
  BY <1>1, <1>2, <1>3, <1>4, <1>5 DEF AccessInv, PeriodsAreApart

\* What redemptions say does not change while codes, periods and subscriptions stay.
LEMMA PaidStays ==
    ASSUME AccessInv, redemption' = redemption, subscription' = subscription,
           today' \in Nat, today' >= today,
           \A c \in Codes : code'[c].is = "redeemed" => code[c].is = "redeemed"
    PROVE  PeriodsAreCovered' /\ PeriodsAreApart'
<1>1. Redeemed' \subseteq Redeemed
  BY DEF Redeemed
<1>2. today \in Nat /\ \A c \in Codes : redemption[c].end \in Nat
  BY DEF AccessInv, AccessTypeOK, IsDay, RedemptionRows
<1>3. \A c \in Redeemed : redemption[c].end <= today => redemption[c].end <= today'
  BY <1>2 DEF Redeemed
<1>4. PeriodsAreCovered'
  BY <1>1, <1>3 DEF AccessInv, PeriodsAreCovered
<1>5. PeriodsAreApart'
  BY <1>1 DEF AccessInv, PeriodsAreApart
<1>6. QED
  BY <1>4, <1>5

\* A call moves alone.
LEMMA ACallMoves ==
    ASSUME AccessInv, NEW p \in Activations, NEW to \in CallRows, call' = [call EXCEPT ![p] = to],
           UNCHANGED <<today, code, subscription, redemption>>,
           to.at # "idle" => to.code \in Codes /\ code[to.code].is # "absent",
           IsDay(to.now), to.now <= today, IsDay(to.previous.start), IsDay(to.previous.end),
           to.at = "reading" =>
             /\ code[to.code].is = "open"
             /\ to.locks = (to.previous # NoPeriod)
             /\ to.previous = subscription[HolderOf[to.code]]
             /\ \A q \in Activations : call[q].at = "reading" /\ q # p =>
                  /\ call[q].code # to.code
                  /\ ~(call[q].locks /\ to.locks /\ HolderOf[call[q].code] = HolderOf[to.code])
    PROVE  AccessInv'
<1>1. call \in [Activations -> CallRows] /\ today \in Nat
  BY DEF AccessInv, AccessTypeOK, CallRows, IsDay
<1>2. call' \in [Activations -> CallRows]
  BY <1>1
<1>3. AccessTypeOK'
  BY <1>2 DEF AccessInv, AccessTypeOK, CallRows, IsDay
<1>4. \A q \in Activations : call'[q] = IF q = p THEN to ELSE call[q]
  BY <1>1
<1>5. CallsAreTyped'
  BY <1>4 DEF AccessInv, CallsAreTyped, IsDay
<1>6. ASSUME NEW q \in Activations, call'[q].at = "reading"
      PROVE  /\ code[call'[q].code].is = "open"
             /\ call'[q].locks = (call'[q].previous # NoPeriod)
             /\ call'[q].locks => call'[q].previous = subscription[HolderOf[call'[q].code]]
             /\ \A r \in Activations : call'[r].at = "reading" /\ r # q =>
                  /\ call'[r].code # call'[q].code
                  /\ ~(call'[r].locks /\ call'[q].locks
                         /\ HolderOf[call'[r].code] = HolderOf[call'[q].code])
  <2>1. LocksHold
    BY DEF AccessInv
  <2>2. CASE q = p
    BY <1>4, <1>6, <2>2
  <2>3. CASE q # p
    BY <1>4, <1>6, <2>1, <2>3 DEF LocksHold
  <2>4. QED
    BY <2>2, <2>3
<1>7. LocksHold'
  BY <1>6 DEF LocksHold
<1>8. PeriodsAreCovered' /\ PeriodsAreApart'
  BY <1>1, PaidStays
<1>9. QED
  BY <1>3, <1>5, <1>7, <1>8 DEF AccessInv

\* A call that commits has read the subscription as it is.
LEMMA ReadsAreCurrent ==
    ASSUME AccessInv, NEW p \in Activations, call[p].at = "reading", ~Created(p)
    PROVE  call[p].previous = subscription[HolderOf[call[p].code]]
BY DEF AccessInv, LocksHold, Created

LEMMA RedeemKeeps ==
    ASSUME AccessInv, NEW p \in Activations, Redeem(p)
    PROVE  AccessInv'
<1> DEFINE c == call[p].code
           h == HolderOf[c]
           was == subscription[h]
           now == call[p].now
           start == PeriodStart(p)
           end == AddCalendarTerm(start, TermOf[c])
           begin == SubscriptionStart(p)
<1>1. call \in [Activations -> CallRows] /\ today \in Nat /\ IsDay(today)
      /\ code \in [Codes -> CodeRows] /\ subscription \in [Holders -> SubscriptionRows]
      /\ redemption \in [Codes -> RedemptionRows]
  BY DEF AccessInv, AccessTypeOK, CallRows, IsDay
<1>2. /\ c \in Codes /\ h \in Holders /\ TermOf[c] \in {"month", "year"} /\ code[c].is = "open"
      /\ IsDay(now) /\ now <= today /\ now \in Nat
  BY CodesAssumption DEF Redeem, AccessInv, CallsAreTyped, LocksHold, IsDay
<1>3. call[p].previous = was
  BY ReadsAreCurrent DEF Redeem
<1>4. /\ was.start \in Nat /\ was.end \in Nat /\ IsDay(was.start) /\ IsDay(was.end)
      /\ was.start <= was.end
  BY <1>1, <1>2 DEF AccessInv, AccessTypeOK, PeriodsAreCovered, IsDay
<1>5. /\ start = IF was.end > now THEN was.end ELSE now
      /\ begin = IF was.end > now THEN was.start ELSE now
  BY <1>3 DEF PeriodStart, SubscriptionStart
<1> HIDE DEF start, begin, was, now
<1>6. start \in Nat /\ begin \in Nat /\ IsDay(start) /\ IsDay(begin) /\ begin <= start
      /\ was.end <= start
  BY <1>2, <1>4, <1>5
<1>7. end \in Nat /\ IsDay(end) /\ end > start
  BY <1>2, <1>6, Calendar
<1> HIDE DEF end
<1>8. /\ subscription' = [subscription EXCEPT ![h] = [start |-> begin, end |-> end]]
      /\ redemption' = [redemption EXCEPT ![c] = [start |-> start, end |-> end]]
      /\ code' = [code EXCEPT ![c] = [code[c] EXCEPT !.is = "redeemed"]]
      /\ call' = [call EXCEPT ![p] = Resting] /\ today' = today
  BY DEF Redeem, begin, end, start
<1> HIDE DEF c, h
<1>9. /\ \A g \in Holders : subscription'[g] = IF g = h THEN [start |-> begin, end |-> end]
                                               ELSE subscription[g]
      /\ \A d \in Codes : redemption'[d] = IF d = c THEN [start |-> start, end |-> end]
                                           ELSE redemption[d]
      /\ \A d \in Codes : d # c => code'[d] = code[d]
      /\ code'[c].is = "redeemed"
      /\ \A q \in Activations : call'[q] = IF q = p THEN Resting ELSE call[q]
  BY <1>1, <1>2, <1>8 DEF CodeRows
<1>10. AccessTypeOK'
  <2>1. code' \in [Codes -> CodeRows]
    BY <1>1, <1>2, <1>8 DEF CodeRows
  <2>2. subscription' \in [Holders -> SubscriptionRows] /\ redemption' \in [Codes -> RedemptionRows]
    BY <1>1, <1>6, <1>7, <1>8 DEF SubscriptionRows, RedemptionRows
  <2>3. call' \in [Activations -> CallRows]
    BY <1>1, <1>8, RestingIsTyped
  <2>4. \A g \in Holders : IsDay(subscription'[g].start) /\ IsDay(subscription'[g].end)
    BY <1>6, <1>7, <1>9 DEF AccessInv, AccessTypeOK
  <2>5. QED
    BY <1>1, <1>8, <2>1, <2>2, <2>3, <2>4 DEF AccessTypeOK, CallRows, IsDay
<1>11. CallsAreTyped'
  <2>1. \A d \in Codes : code[d].is # "absent" => code'[d].is # "absent"
    BY <1>9
  <2>2. QED
    BY <1>1, <1>8, <1>9, <2>1, FirstDay, RestingIsTyped DEF AccessInv, CallsAreTyped, IsDay
<1>12. ASSUME NEW q \in Activations, call'[q].at = "reading"
       PROVE  /\ q # p /\ call[q].at = "reading" /\ call'[q] = call[q]
              /\ code'[call[q].code].is = "open"
              /\ call[q].locks = (call[q].previous # NoPeriod)
              /\ call[q].locks => call[q].previous = subscription'[HolderOf[call[q].code]]
  <2>1. q # p /\ call'[q] = call[q] /\ call[q].at = "reading"
    BY <1>9, <1>12, RestingIsTyped
  <2>2. /\ code[call[q].code].is = "open" /\ call[q].code \in Codes
        /\ call[q].locks = (call[q].previous # NoPeriod)
        /\ call[q].locks => call[q].previous = subscription[HolderOf[call[q].code]]
        /\ call[q].code # c
        /\ ~(call[q].locks /\ call[p].locks /\ HolderOf[call[q].code] = h)
    BY <2>1 DEF Redeem, AccessInv, LocksHold, CallsAreTyped, c, h
  <2>3. ASSUME call[q].locks PROVE HolderOf[call[q].code] # h
    <3>1. SUFFICES ASSUME HolderOf[call[q].code] = h PROVE FALSE
      OBVIOUS
    <3>2. was # NoPeriod
      BY <2>2, <2>3, <3>1 DEF was
    <3>3. call[p].locks
      BY <1>3, <3>2 DEF Redeem, AccessInv, LocksHold
    <3>4. QED
      BY <2>2, <2>3, <3>1, <3>3
  <2>4. HolderOf[call[q].code] \in Holders
    BY <2>2, CodesAssumption
  <2>5. QED
    BY <1>9, <2>1, <2>2, <2>3, <2>4
<1>13. LocksHold'
  <2>1. LocksHold
    BY DEF AccessInv
  <2>2. ASSUME NEW q \in Activations, call'[q].at = "reading",
               NEW r \in Activations, call'[r].at = "reading", r # q
        PROVE  /\ call'[r].code # call'[q].code
               /\ ~(call'[r].locks /\ call'[q].locks
                      /\ HolderOf[call'[r].code] = HolderOf[call'[q].code])
    BY <1>12, <2>1, <2>2 DEF LocksHold
  <2>3. QED
    BY <1>12, <2>2 DEF LocksHold
<1>14. /\ \A d \in Codes : d \in Redeemed' => d = c \/ d \in Redeemed
       /\ c \notin Redeemed
  BY <1>2, <1>9 DEF Redeemed
<1>15. ASSUME NEW d \in Redeemed, HolderOf[d] = h
       PROVE  redemption[d].end \in Nat /\ redemption[d].start \in Nat /\ redemption[d].end <= was.end
              /\ (was.start <= redemption[d].start \/ redemption[d].end <= today)
  BY <1>1, <1>15 DEF AccessInv, PeriodsAreCovered, Redeemed, RedemptionRows, was
<1>16. PeriodsAreCovered'
  <2>1. ASSUME NEW g \in Holders
        PROVE  /\ subscription'[g].start <= subscription'[g].end
               /\ subscription'[g] = NoPeriod \/ subscription'[g].end > 0
    <3>1. CASE g = h
      <4>1. subscription'[g].start = begin /\ subscription'[g].end = end
        BY <1>9, <3>1
      <4>2. QED
        BY <1>6, <1>7, <4>1
    <3>2. CASE g # h
      BY <1>9, <3>2 DEF AccessInv, PeriodsAreCovered
    <3>3. QED
      BY <3>1, <3>2
  <2>2. ASSUME NEW d \in Redeemed'
        PROVE  /\ redemption'[d].end <= subscription'[HolderOf[d]].end
               /\ \/ subscription'[HolderOf[d]].start <= redemption'[d].start
                  \/ redemption'[d].end <= today'
    <3>1. d \in Codes /\ HolderOf[d] \in Holders
      BY CodesAssumption DEF Redeemed
    <3>2. CASE d = c
      <4>1. redemption'[d].start = start /\ redemption'[d].end = end
        BY <1>9, <3>1, <3>2
      <4>2. subscription'[HolderOf[d]].start = begin /\ subscription'[HolderOf[d]].end = end
        BY <1>9, <3>1, <3>2 DEF h
      <4>3. QED
        BY <1>6, <1>7, <4>1, <4>2
    <3>3. CASE d # c /\ HolderOf[d] = h
      <4>1. redemption'[d] = redemption[d] /\ d \in Redeemed
        BY <1>9, <1>14, <3>1, <3>3
      <4>2. subscription'[HolderOf[d]].start = begin /\ subscription'[HolderOf[d]].end = end
        BY <1>9, <3>1, <3>3
      <4>3. /\ redemption[d].end \in Nat /\ redemption[d].start \in Nat
            /\ redemption[d].end <= was.end
            /\ (was.start <= redemption[d].start \/ redemption[d].end <= today)
        BY <1>15, <3>3, <4>1
      <4>4. redemption[d].end <= end
        BY <1>4, <1>6, <1>7, <4>3
      <4>5. begin <= redemption[d].start \/ redemption[d].end <= today
        BY <1>1, <1>2, <1>4, <1>5, <4>3
      <4>6. QED
        BY <1>8, <4>1, <4>2, <4>4, <4>5
    <3>4. CASE d # c /\ HolderOf[d] # h
      <4>1. /\ redemption'[d] = redemption[d] /\ d \in Redeemed
            /\ subscription'[HolderOf[d]] = subscription[HolderOf[d]]
        BY <1>9, <1>14, <3>1, <3>4
      <4>2. QED
        BY <1>8, <4>1 DEF AccessInv, PeriodsAreCovered
    <3>5. QED
      BY <3>2, <3>3, <3>4
  <2>3. QED
    BY <2>1, <2>2 DEF PeriodsAreCovered
<1>17. PeriodsAreApart'
  <2>1. ASSUME NEW d \in Redeemed', d # c, HolderOf[d] = h
        PROVE  redemption'[d].end <= redemption'[c].start
    <3>1. d \in Redeemed /\ d \in Codes
      BY <1>14, <2>1 DEF Redeemed
    <3>2. redemption'[d].end = redemption[d].end /\ redemption'[c].start = start
      BY <1>2, <1>9, <2>1, <3>1
    <3>3. redemption[d].end \in Nat /\ redemption[d].end <= was.end
      BY <1>15, <2>1, <3>1
    <3>4. QED
      BY <1>4, <1>6, <3>2, <3>3
  <2>2. ASSUME NEW d \in Redeemed', NEW e \in Redeemed', d # e, HolderOf[d] = HolderOf[e]
        PROVE  redemption'[d].end <= redemption'[e].start \/ redemption'[e].end <= redemption'[d].start
    <3>1. CASE d = c
      BY <2>1, <2>2, <3>1 DEF h
    <3>2. CASE e = c
      BY <2>1, <2>2, <3>2 DEF h
    <3>3. CASE d # c /\ e # c
      <4>1. d \in Redeemed /\ e \in Redeemed /\ d \in Codes /\ e \in Codes
        BY <1>14, <3>3 DEF Redeemed
      <4>2. redemption'[d] = redemption[d] /\ redemption'[e] = redemption[e]
        BY <1>9, <3>3, <4>1
      <4>3. QED
        BY <2>2, <4>1, <4>2 DEF AccessInv, PeriodsAreApart
    <3>4. QED
      BY <3>1, <3>2, <3>3
  <2>3. QED
    BY <2>2 DEF PeriodsAreApart
<1>18. QED
  BY <1>10, <1>11, <1>13, <1>16, <1>17 DEF AccessInv

LEMMA AccessNextKeeps == AccessInv /\ [AccessNext]_accessVars => AccessInv'
<1> SUFFICES ASSUME AccessInv, [AccessNext]_accessVars PROVE AccessInv'
  OBVIOUS
<1>1. call \in [Activations -> CallRows] /\ today \in Nat /\ IsDay(today)
      /\ code \in [Codes -> CodeRows] /\ subscription \in [Holders -> SubscriptionRows]
  BY DEF AccessInv, AccessTypeOK, CallRows, IsDay
<1>2. CASE DayPasses
  <2>1. IsDay(today') /\ today' \in Nat /\ today' > today
    BY <1>1, <1>2, Calendar DEF DayPasses
  <2>2. UNCHANGED <<code, subscription, redemption, call>>
    BY <1>2 DEF DayPasses
  <2>3. \A p \in Activations : call[p].now \in Nat /\ call[p].now <= today
    BY <1>1 DEF AccessInv, CallsAreTyped, CallRows
  <2>4. \A p \in Activations : call[p].now <= today'
    BY <1>1, <2>1, <2>3
  <2>5. CallsAreTyped'
    BY <2>2, <2>4 DEF AccessInv, CallsAreTyped, IsDay
  <2>6. AccessTypeOK' /\ LocksHold'
    BY <2>1, <2>2 DEF AccessInv, AccessTypeOK, LocksHold, IsDay
  <2>7. PeriodsAreCovered' /\ PeriodsAreApart'
    BY <1>1, <2>1, <2>2, PaidStays
  <2>8. QED
    BY <2>5, <2>6, <2>7 DEF AccessInv
<1>3. ASSUME NEW c \in Codes, NEW expires \in {31 * (Month(today) + 1)}, IssueCode(c, expires)
      PROVE  AccessInv'
  <2>1. expires \in Nat
    <3>1. Month(today) \in Nat
      BY <1>1, DayNumbers
    <3>2. expires = 31 * (Month(today) + 1)
      BY <1>3
    <3>3. QED
      BY <3>1, <3>2
  <2>2. /\ code[c].is = "absent" /\ UNCHANGED <<today, subscription, redemption, call>>
        /\ code' = [code EXCEPT ![c] = [is |-> "open", expires |-> expires]]
    BY <1>3 DEF IssueCode
  <2>3. code' \in [Codes -> CodeRows]
    BY <1>1, <2>1, <2>2 DEF CodeRows
  <2>4. \A d \in Codes : code'[d] = code[d] \/ (code[d].is = "absent" /\ code'[d].is = "open")
    BY <1>1, <2>2
  <2>5. AccessTypeOK'
    BY <2>2, <2>3 DEF AccessInv, AccessTypeOK, IsDay
  <2>6. CallsAreTyped'
    BY <2>2, <2>4 DEF AccessInv, CallsAreTyped, IsDay
  <2>7. LocksHold'
    <3>1. \A p \in Activations : call[p].at = "reading" => call[p].code \in Codes
      BY DEF AccessInv, CallsAreTyped
    <3>2. QED
      BY <2>2, <2>4, <3>1 DEF AccessInv, LocksHold
  <2>8. PeriodsAreCovered' /\ PeriodsAreApart'
    BY <1>1, <2>2, <2>4, PaidStays
  <2>9. QED
    BY <2>5, <2>6, <2>7, <2>8 DEF AccessInv
<1>4. ASSUME NEW p \in Activations, NEW c \in Codes, Activate(p, c) PROVE AccessInv'
  <2> DEFINE to == [Resting EXCEPT !.at = "holding", !.code = c, !.now = today]
  <2>1. to \in CallRows /\ to.at = "holding" /\ to.code = c /\ to.now = today /\ to.previous = NoPeriod
    BY <1>1, RestingIsTyped DEF CallRows
  <2>2. /\ code[c].is # "absent" /\ call' = [call EXCEPT ![p] = to]
        /\ UNCHANGED <<today, code, subscription, redemption>>
    BY <1>4 DEF Activate
  <2> HIDE DEF to
  <2>3. /\ IsDay(to.now) /\ to.now <= today /\ IsDay(to.previous.start) /\ IsDay(to.previous.end)
        /\ to.at # "reading" /\ code[to.code].is # "absent" /\ to.code \in Codes
    BY <1>1, <2>1, <2>2, FirstDay, RestingIsTyped
  <2>4. QED
    BY <2>1, <2>2, <2>3, ACallMoves
<1>5. ASSUME NEW p \in Activations, ReadSubscription(p) PROVE AccessInv'
  <2> DEFINE h == HolderOf[call[p].code]
             to == [call[p] EXCEPT !.at = "reading", !.previous = subscription[h],
                                   !.locks = subscription[h] # NoPeriod]
  <2>1. /\ call' = [call EXCEPT ![p] = to] /\ UNCHANGED <<today, code, subscription, redemption>>
        /\ CodeIsFree(p) /\ Redeemable(p) /\ call[p].at = "holding"
        /\ subscription[h] # NoPeriod => SubscriptionIsFree(p)
    BY <1>5 DEF ReadSubscription
  <2>2. call[p].code \in Codes /\ h \in Holders /\ code[call[p].code].is = "open"
        /\ IsDay(call[p].now) /\ call[p].now <= today
    BY <2>1, CodesAssumption DEF AccessInv, CallsAreTyped, Redeemable
  <2>3. subscription[h] \in SubscriptionRows /\ IsDay(subscription[h].start)
        /\ IsDay(subscription[h].end)
    BY <1>1, <2>2 DEF AccessInv, AccessTypeOK
  <2>4. to \in CallRows /\ to.at = "reading" /\ to.code = call[p].code /\ to.now = call[p].now
        /\ to.previous = subscription[h] /\ to.locks = (subscription[h] # NoPeriod)
    BY <1>1, <2>3 DEF CallRows
  <2> HIDE DEF to
  <2>5. \A q \in Activations : call[q].at = "reading" /\ q # p =>
            /\ call[q].code # to.code
            /\ ~(call[q].locks /\ to.locks /\ HolderOf[call[q].code] = HolderOf[to.code])
    BY <2>1, <2>4 DEF CodeIsFree, SubscriptionIsFree
  <2>6. QED
    BY <2>1, <2>2, <2>3, <2>4, <2>5, ACallMoves
<1>6. ASSUME NEW p \in Activations, Answer(p) \/ ActivationFails(p) PROVE AccessInv'
  <2>1. /\ call' = [call EXCEPT ![p] = Resting]
        /\ UNCHANGED <<today, code, subscription, redemption>>
    BY <1>6 DEF Answer, ActivationFails
  <2> DEFINE to == Resting
  <2>2. /\ to \in CallRows /\ to.at = "idle" /\ to.now <= today
        /\ IsDay(to.now) /\ IsDay(to.previous.start) /\ IsDay(to.previous.end)
    BY <1>1, FirstDay, RestingIsTyped
  <2> HIDE DEF to
  <2>3. call' = [call EXCEPT ![p] = to]
    BY <2>1 DEF to
  <2>4. QED
    BY <2>1, <2>2, <2>3, ACallMoves
<1>7. ASSUME NEW p \in Activations, Redeem(p) PROVE AccessInv'
  BY <1>7, RedeemKeeps
<1>8. CASE UNCHANGED accessVars
  BY <1>8 DEF accessVars, AccessInv, AccessTypeOK, CallsAreTyped, LocksHold, PeriodsAreCovered,
             PeriodsAreApart, Redeemed, IsDay
<1>9. QED
  BY <1>2, <1>3, <1>4, <1>5, <1>6, <1>7, <1>8 DEF AccessNext

\* The invariant of every history of codes, for any calendar and any number of calls.
THEOREM AccessSafe == AccessSpec => []AccessInv
BY AccessInitially, AccessNextKeeps, PTL DEF AccessSpec

\* Rows and calls keep their types, and every period is of days that exist.
THEOREM AccessTypeCorrect == AccessSpec => []AccessTypeOK
<1>1. AccessInv => AccessTypeOK
  BY DEF AccessInv
<1>2. QED
  BY <1>1, AccessSafe, PTL

\* No two codes of a user pay for the same day, however their redemptions race.
THEOREM PeriodsStayApart == AccessSpec => []PeriodsAreApart
<1>1. AccessInv => PeriodsAreApart
  BY DEF AccessInv
<1>2. QED
  BY <1>1, AccessSafe, PTL

\* A day that a redeemed code has paid for is a day of advanced access.
THEOREM PaidIsEnabled == AccessSpec => []PaidDaysAreEnabled
<1>1. ASSUME AccessInv PROVE PaidDaysAreEnabled
  <2> SUFFICES ASSUME NEW c \in Redeemed, redemption[c].start <= today, today < redemption[c].end
               PROVE  Enabled(HolderOf[c])
    BY DEF PaidDaysAreEnabled
  <2>1. c \in Codes /\ HolderOf[c] \in Holders /\ today \in Nat
    BY <1>1, CodesAssumption DEF Redeemed, AccessInv, AccessTypeOK, IsDay
  <2>2. /\ redemption[c].start \in Nat /\ redemption[c].end \in Nat
        /\ subscription[HolderOf[c]].start \in Nat /\ subscription[HolderOf[c]].end \in Nat
    BY <1>1, <2>1 DEF AccessInv, AccessTypeOK, RedemptionRows, SubscriptionRows
  <2>3. /\ redemption[c].end <= subscription[HolderOf[c]].end
        /\ \/ subscription[HolderOf[c]].start <= redemption[c].start
           \/ redemption[c].end <= today
    BY <1>1 DEF AccessInv, PeriodsAreCovered
  <2>4. QED
    BY <2>1, <2>2, <2>3 DEF Enabled
<1>2. QED
  BY <1>1, AccessSafe, PTL


-----------------------------------------------------------------------------
(* Mails *)

MailerRows == [at : {"idle", "sending", "accepted", "refused", "raised", "unacked"}, mail : Mails \cup {NoMail}]
TaskRows == [copies : 0..(MaxLosses + 1), retries : 0..MaxRetries]

\* The workers that have a copy of a mail's message.
Takers(m) == {v \in Mailers : mailer[v].mail = m}

\* One copy for the request that queued it, and one for each time it was delivered again; a copy
\* that a worker has is still the broker's.
CopiesAreCounted ==
    /\ \A w \in Mailers : (mailer[w].at = "idle") <=> (mailer[w].mail = NoMail)
    /\ \A m \in Mails :
         /\ task[m].copies <= (IF mailing[m] \in {"none", "owes"} THEN 0 ELSE 1) + losses
         /\ Cardinality(Takers(m)) <= task[m].copies

MailInv == MailTypeOK /\ CopiesAreCounted

\* What happens to the copies of m that workers have when one of them moves from a mail to another.
Moved(m, from, to) ==
    /\ Cardinality(Takers(m)) \in Nat
    /\ from # m /\ to # m => Cardinality(Takers(m)') = Cardinality(Takers(m))
    /\ from = m /\ to = m => Cardinality(Takers(m)') = Cardinality(Takers(m))
    /\ from # m /\ to = m => Cardinality(Takers(m)') = Cardinality(Takers(m)) + 1
    /\ from = m /\ to # m => Cardinality(Takers(m)') = Cardinality(Takers(m)) - 1

LEMMA TakersMove ==
    ASSUME NEW w \in Mailers, mailer \in [Mailers -> MailerRows], NEW to \in MailerRows,
           mailer' = [mailer EXCEPT ![w] = to], NEW m
    PROVE  Moved(m, mailer[w].mail, to.mail)
<1>1. IsFiniteSet(Takers(m)) /\ Cardinality(Takers(m)) \in Nat
  BY MailAssumption, FS_Subset, FS_CardinalityType DEF Takers
<1>2. \A v \in Mailers : mailer'[v] = IF v = w THEN to ELSE mailer[v]
  OBVIOUS
<1>3. mailer[w].mail # m /\ to.mail # m => Takers(m)' = Takers(m)
  BY <1>2 DEF Takers
<1>4. mailer[w].mail = m /\ to.mail = m => Takers(m)' = Takers(m)
  BY <1>2 DEF Takers
<1>5. mailer[w].mail # m /\ to.mail = m => Takers(m)' = Takers(m) \cup {w} /\ w \notin Takers(m)
  BY <1>2 DEF Takers
<1>6. mailer[w].mail = m /\ to.mail # m => Takers(m)' = Takers(m) \ {w} /\ w \in Takers(m)
  BY <1>2 DEF Takers
<1>7. QED
  BY <1>1, <1>3, <1>4, <1>5, <1>6, FS_AddElement, FS_RemoveElement DEF Moved

LEMMA MailInitially == MailInit => MailInv
<1> SUFFICES ASSUME MailInit PROVE MailInv
  OBVIOUS
<1>1. Resting0 \in MailerRows /\ Resting0.at = "idle" /\ Resting0.mail = NoMail
  BY DEF Resting0, MailerRows
<1>2. task \in [Mails -> TaskRows] /\ \A m \in Mails : task[m].copies = 0
  BY MailAssumption DEF MailInit, TaskRows
<1>3. MailTypeOK
  BY <1>1, <1>2, MailAssumption
     DEF MailInit, MailTypeOK, MailerRows, TaskRows, DeliveryRows, ReceivedRows, Instants0
<1>4. \A m \in Mails : Takers(m) = {}
  BY <1>1, MailAssumption DEF MailInit, Takers
<1>5. CopiesAreCounted
  <2>1. \A w \in Mailers : (mailer[w].at = "idle") <=> (mailer[w].mail = NoMail)
    BY <1>1 DEF MailInit
  <2>2. \A m \in Mails : Cardinality(Takers(m)) = 0
    BY <1>4, FS_EmptySet
  <2>3. losses = 0 /\ \A m \in Mails : mailing[m] = "none"
    BY DEF MailInit
  <2>4. QED
    BY <1>2, <2>1, <2>2, <2>3 DEF CopiesAreCounted
<1>6. QED
  BY <1>3, <1>5 DEF MailInv

\* What a worker does to its own row, when the task of its mail stays or loses a copy.
LEMMA AMailerMoves ==
    ASSUME MailInv, NEW w \in Mailers, NEW to \in MailerRows, mailer' = [mailer EXCEPT ![w] = to],
           (to.at = "idle") <=> (to.mail = NoMail), mailing' = mailing,
           losses' \in 0..MaxLosses, losses' >= losses, task' \in [Mails -> TaskRows],
           \/ to.mail = mailer[w].mail /\ task' = task
           \/ to.mail \in Mails /\ mailer[w].mail = NoMail /\ task' = task
              /\ task[to.mail].copies > Cardinality(Takers(to.mail))
           \/ to.mail = NoMail /\ mailer[w].mail \in Mails
              /\ (\A m \in Mails : m # mailer[w].mail => task'[m] = task[m])
              /\ task'[mailer[w].mail].copies \in {task[mailer[w].mail].copies,
                                                   task[mailer[w].mail].copies - 1}
    PROVE  mailer' \in [Mailers -> MailerRows] /\ CopiesAreCounted'
<1>1. /\ mailer \in [Mailers -> MailerRows] /\ task \in [Mails -> TaskRows] /\ losses \in Nat
      /\ losses' \in Nat
  BY MailAssumption DEF MailInv, MailTypeOK, MailerRows, TaskRows
<1>2. mailer' \in [Mailers -> MailerRows]
  BY <1>1
<1>3. \A v \in Mailers : (mailer'[v].at = "idle") <=> (mailer'[v].mail = NoMail)
  BY <1>1 DEF MailInv, CopiesAreCounted
<1>4. ASSUME NEW m \in Mails
      PROVE  /\ task'[m].copies <= (IF mailing'[m] \in {"none", "owes"} THEN 0 ELSE 1) + losses'
             /\ Cardinality(Takers(m)') <= task'[m].copies
  <2> DEFINE n == Cardinality(Takers(m))
             k == Cardinality(Takers(m)')
             was == task[m].copies
             is == task'[m].copies
  <2>0. Moved(m, mailer[w].mail, to.mail)
    BY <1>1, TakersMove
  <2>1. was \in Nat /\ is \in Nat /\ n \in Nat
    <3>1. was \in Nat /\ is \in Nat
      BY <1>1, MailAssumption DEF TaskRows
    <3>2. n \in Nat
      BY <2>0 DEF Moved
    <3>3. QED
      BY <3>1, <3>2
  <2>2. n <= was /\ was <= (IF mailing[m] \in {"none", "owes"} THEN 0 ELSE 1) + losses
    BY DEF MailInv, CopiesAreCounted
  <2>3. /\ mailer[w].mail # m /\ to.mail # m => k = n
        /\ mailer[w].mail = m /\ to.mail = m => k = n
        /\ mailer[w].mail # m /\ to.mail = m => k = n + 1
        /\ mailer[w].mail = m /\ to.mail # m => k = n - 1
    BY <2>0 DEF Moved
  <2>4. /\ mailer[w].mail # m /\ to.mail # m => is = was
        /\ mailer[w].mail = m /\ to.mail = m => is = was
        /\ mailer[w].mail # m /\ to.mail = m => is = was /\ was > n
        /\ mailer[w].mail = m /\ to.mail # m => is = was \/ is = was - 1
    <3>1. NoMail \notin Mails /\ m \in Mails
      BY MailAssumption
    <3>2. CASE to.mail = mailer[w].mail /\ task' = task
      BY <3>2
    <3>3. CASE to.mail \in Mails /\ mailer[w].mail = NoMail /\ task' = task
               /\ task[to.mail].copies > Cardinality(Takers(to.mail))
      BY <3>1, <3>3
    <3>4. CASE to.mail = NoMail /\ mailer[w].mail \in Mails
               /\ (\A x \in Mails : x # mailer[w].mail => task'[x] = task[x])
               /\ task'[mailer[w].mail].copies \in {task[mailer[w].mail].copies,
                                                    task[mailer[w].mail].copies - 1}
      BY <3>1, <3>4
    <3>5. QED
      BY <3>2, <3>3, <3>4
  <2> HIDE DEF n, k, was, is
  <2>5. is <= was /\ k <= is
    BY <2>1, <2>2, <2>3, <2>4
  <2>6. is <= (IF mailing'[m] \in {"none", "owes"} THEN 0 ELSE 1) + losses'
    BY <1>1, <2>1, <2>2, <2>5
  <2>7. QED
    BY <2>5, <2>6 DEF k, is
<1>5. QED
  BY <1>2, <1>3, <1>4 DEF CopiesAreCounted

LEMMA MailNextKeeps == MailInv /\ [MailNext]_mailVars => MailInv'
<1> SUFFICES ASSUME MailInv, [MailNext]_mailVars PROVE MailInv'
  OBVIOUS
<1> DEFINE OthersOK ==
      /\ clock \in 0..MaxMailTime
      /\ row \in [Mails -> DeliveryRows]
      /\ mailing \in [Mails -> {"none", "owes", "failing", "done", "lost"}]
      /\ provider \in [Mails -> [Events -> Instants0]]
      /\ received \in [Mails -> ReceivedRows]
      /\ losses \in 0..MaxLosses
    MailersOK == task \in [Mails -> TaskRows] /\ mailer \in [Mailers -> MailerRows]
<1>1. OthersOK /\ MailersOK /\ CopiesAreCounted
  BY DEF MailInv, MailTypeOK, MailerRows, TaskRows
<1>2. ASSUME OthersOK', MailersOK', CopiesAreCounted' PROVE MailInv'
  BY <1>2 DEF MailInv, MailTypeOK, MailerRows, TaskRows
<1>3. ASSUME UNCHANGED <<mailing, task, mailer, losses>> PROVE MailersOK' /\ CopiesAreCounted'
  BY <1>1, <1>3 DEF CopiesAreCounted, Takers
<1>4. Resting0 \in MailerRows /\ Resting0.at = "idle" /\ Resting0.mail = NoMail
  BY DEF Resting0, MailerRows
<1>5. \A w \in Mailers : mailer[w].at # "idle" => mailer[w].mail \in Mails
  BY <1>1 DEF CopiesAreCounted, MailerRows
<1>6. CASE ClockTicks
  <2>1. clock' \in 0..MaxMailTime
    BY <1>1, <1>6, MailAssumption DEF ClockTicks
  <2>2. QED
    BY <1>1, <1>2, <1>3, <1>6, <2>1 DEF ClockTicks
<1>7. ASSUME NEW m \in Mails, NEW st \in {"pending", "failed", "sent"},
             row' = [row EXCEPT ![m].status = st]
      PROVE  row' \in [Mails -> DeliveryRows]
  BY <1>1, <1>7 DEF DeliveryRows
<1>8. ASSUME NEW m \in Mails, NEW st \in {"owes", "failing", "done", "lost"},
             mailing' = [mailing EXCEPT ![m] = st], mailing[m] = "none" \/ st # "owes",
             UNCHANGED <<mailer, losses>>,
             \/ task' = task
             \/ /\ mailing[m] = "owes" /\ st # "owes"
                /\ task' = [task EXCEPT ![m].copies = task[m].copies + 1]
      PROVE  MailersOK' /\ CopiesAreCounted' /\ mailing' \in [Mails -> {"none", "owes", "failing", "done", "lost"}]
  <2>1. mailing' \in [Mails -> {"none", "owes", "failing", "done", "lost"}]
    BY <1>1, <1>8
  <2>2. losses \in Nat /\ losses <= MaxLosses /\ MaxLosses \in Nat
    BY <1>1, MailAssumption
  <2>3. CASE task' = task
    <3>1. \A n \in Mails : mailing[n] \notin {"none", "owes"} => mailing'[n] \notin {"none", "owes"}
      BY <1>1, <1>8
    <3>2. \A n \in Mails :
            (IF mailing[n] \in {"none", "owes"} THEN 0 ELSE 1) + losses
              <= (IF mailing'[n] \in {"none", "owes"} THEN 0 ELSE 1) + losses
      BY <2>2, <3>1
    <3>3. \A n \in Mails : task[n].copies \in Nat
      BY <1>1, MailAssumption DEF TaskRows
    <3>4. \A n \in Mails :
            task[n].copies <= (IF mailing'[n] \in {"none", "owes"} THEN 0 ELSE 1) + losses
      BY <1>1, <2>2, <3>2, <3>3 DEF CopiesAreCounted
    <3>5. QED
      BY <1>1, <1>8, <2>1, <2>3, <3>4 DEF CopiesAreCounted, Takers
  <2>4. CASE /\ mailing[m] = "owes" /\ st # "owes"
             /\ task' = [task EXCEPT ![m].copies = task[m].copies + 1]
    <3>1. task[m] \in TaskRows /\ task[m].copies \in Nat /\ task[m].copies <= losses
      BY <1>1, <2>2, <2>4 DEF CopiesAreCounted, TaskRows
    <3>2. task[m].copies + 1 \in 0..(MaxLosses + 1) /\ task[m].copies + 1 <= 1 + losses
      BY <2>2, <3>1
    <3>3. task' \in [Mails -> TaskRows]
      BY <1>1, <2>4, <3>2 DEF TaskRows
    <3>4. task'[m].copies = task[m].copies + 1 /\ \A n \in Mails : n # m => task'[n] = task[n]
      BY <1>1, <2>4 DEF TaskRows
    <3>5. mailing'[m] = st /\ \A n \in Mails : n # m => mailing'[n] = mailing[n]
      BY <1>1, <1>8
    <3>6. Cardinality(Takers(m)) \in Nat /\ Cardinality(Takers(m)) <= task[m].copies
      BY <1>1, MailAssumption, FS_Subset, FS_CardinalityType DEF CopiesAreCounted, Takers
    <3>7. ASSUME NEW n \in Mails
          PROVE  /\ task'[n].copies <= (IF mailing'[n] \in {"none", "owes"} THEN 0 ELSE 1) + losses
                 /\ Cardinality(Takers(n)) <= task'[n].copies
      <4>1. CASE n = m
        BY <1>8, <2>4, <3>1, <3>2, <3>4, <3>5, <3>6, <4>1
      <4>2. CASE n # m
        BY <1>1, <3>4, <3>5, <4>2 DEF CopiesAreCounted
      <4>3. QED
        BY <4>1, <4>2
    <3>8. QED
      BY <1>1, <1>8, <2>1, <3>3, <3>7 DEF CopiesAreCounted, Takers
  <2>5. QED
    BY <1>8, <2>3, <2>4
<1>9. ASSUME NEW m \in Mails, CreateDelivery(m) PROVE MailInv'
  <2>1. row' \in [Mails -> DeliveryRows]
    BY <1>7, <1>9 DEF CreateDelivery
  <2>2. MailersOK' /\ CopiesAreCounted' /\ mailing' \in [Mails -> {"none", "owes", "failing", "done", "lost"}]
    BY <1>8, <1>9 DEF CreateDelivery
  <2>3. QED
    BY <1>1, <1>2, <1>9, <2>1, <2>2 DEF CreateDelivery
<1>10. ASSUME NEW m \in Mails, SenderStep(m) PROVE MailInv'
  <2>1. CASE \E raises \in BOOLEAN : SendTask(m, raises)
    <3>1. PICK st \in {"failing", "done"} :
            /\ mailing[m] = "owes" /\ mailing' = [mailing EXCEPT ![m] = st]
            /\ task' = [task EXCEPT ![m].copies = task[m].copies + 1]
            /\ UNCHANGED <<clock, row, mailer, provider, received, losses>>
      BY <2>1 DEF SendTask
    <3>2. MailersOK' /\ CopiesAreCounted' /\ mailing' \in [Mails -> {"none", "owes", "failing", "done", "lost"}]
      BY <1>8, <3>1
    <3>3. QED
      BY <1>1, <1>2, <3>1, <3>2
  <2>2. CASE BrokerRefuses(m)
    <3>1. MailersOK' /\ CopiesAreCounted' /\ mailing' \in [Mails -> {"none", "owes", "failing", "done", "lost"}]
      BY <1>8, <2>2 DEF BrokerRefuses
    <3>2. QED
      BY <1>1, <1>2, <2>2, <3>1 DEF BrokerRefuses
  <2>3. CASE SenderFails(m) \/ \E verdict \in {"sent", "failed"} : SendDirectly(m, verdict)
    <3>1. MailersOK' /\ CopiesAreCounted' /\ mailing' \in [Mails -> {"none", "owes", "failing", "done", "lost"}]
      BY <1>8, <2>3 DEF SenderFails, SendDirectly
    <3>2. row' \in [Mails -> DeliveryRows]
      BY <1>7, <2>3 DEF SenderFails, SendDirectly
    <3>3. QED
      BY <1>1, <1>2, <2>3, <3>1, <3>2 DEF SenderFails, SendDirectly
  <2>4. QED
    BY <1>10, <2>1, <2>2, <2>3 DEF SenderStep
<1>11. ASSUME NEW m \in Mails, SenderStops(m) PROVE MailInv'
  <2>1. MailersOK' /\ CopiesAreCounted' /\ mailing' \in [Mails -> {"none", "owes", "failing", "done", "lost"}]
    BY <1>8, <1>11 DEF SenderStops
  <2>2. QED
    BY <1>1, <1>2, <1>11, <2>1 DEF SenderStops
<1>12. ASSUME NEW m \in Mails, Redeliver(m) PROVE MailInv'
  <2>1. /\ losses \in Nat /\ losses' = losses + 1 /\ losses' \in 0..MaxLosses
        /\ task' = [task EXCEPT ![m].copies = task[m].copies + 1]
        /\ UNCHANGED <<clock, row, mailing, mailer, provider, received>>
    BY <1>1, <1>12, MailAssumption DEF Redeliver
  <2>2. \A n \in Mails : task[n].copies \in Nat /\ Cardinality(Takers(n)) \in Nat
    BY <1>1, MailAssumption, FS_Subset, FS_CardinalityType DEF TaskRows, Takers
  <2>3. \A n \in Mails : task'[n].copies = IF n = m THEN task[n].copies + 1 ELSE task[n].copies
    BY <1>1, <2>1 DEF TaskRows
  <2>4. ASSUME NEW n \in Mails
        PROVE  /\ task'[n].copies <= (IF mailing[n] \in {"none", "owes"} THEN 0 ELSE 1) + losses'
               /\ Cardinality(Takers(n)) <= task'[n].copies
    <3>1. /\ task[n].copies <= (IF mailing[n] \in {"none", "owes"} THEN 0 ELSE 1) + losses
          /\ Cardinality(Takers(n)) <= task[n].copies
      BY <1>1 DEF CopiesAreCounted
    <3>2. QED
      BY <2>1, <2>2, <2>3, <3>1
  <2>5. task[m].copies + 1 \in 0..(MaxLosses + 1)
    <3>1. task'[m].copies <= 1 + losses' /\ losses' <= MaxLosses /\ task'[m].copies = task[m].copies + 1
      BY <2>1, <2>2, <2>3, <2>4, MailAssumption
    <3>2. QED
      BY <2>1, <2>2, <3>1, MailAssumption
  <2>6. task' \in [Mails -> TaskRows]
    BY <1>1, <2>1, <2>5 DEF TaskRows
  <2>7. CopiesAreCounted'
    BY <1>1, <2>1, <2>4 DEF CopiesAreCounted, Takers
  <2>8. QED
    BY <1>1, <1>2, <2>1, <2>6, <2>7
<1>13. ASSUME NEW m \in Mails, NEW e \in Events, Webhook(m, e) PROVE MailInv'
  <2>1. provider[m][e] \in Instants0
    BY <1>1
  <2>2. received' \in [Mails -> ReceivedRows]
    BY <1>1, <1>13 DEF Webhook, ReceivedRows
  <2>3. EventStatus[e] \in {EventStatus[x] : x \in Events}
    OBVIOUS
  <2>4. row' \in [Mails -> DeliveryRows]
    BY <1>1, <1>13, <2>1, <2>3 DEF Webhook, DeliveryRows
  <2>5. QED
    BY <1>1, <1>2, <1>3, <1>13, <2>2, <2>4 DEF Webhook
<1>14. ASSUME NEW m \in Mails, NEW e \in Events, Happens(m, e) PROVE MailInv'
  <2>1. provider' \in [Mails -> [Events -> Instants0]]
    BY <1>1, <1>14 DEF Happens, Instants0
  <2>2. QED
    BY <1>1, <1>2, <1>3, <1>14, <2>1 DEF Happens
<1>15. ASSUME NEW w \in Mailers, NEW m \in Mails, TakeTask(w, m) PROVE MailInv'
  <2> DEFINE to == [at |-> IF Skipped(m) THEN "unacked" ELSE "sending", mail |-> m]
  <2>1. to \in MailerRows /\ to.at # "idle" /\ to.mail = m /\ m # NoMail
    BY MailAssumption DEF MailerRows
  <2>2. /\ mailer' = [mailer EXCEPT ![w] = to] /\ mailer[w].at = "idle"
        /\ task[m].copies > Cardinality(Takers(m))
        /\ UNCHANGED <<clock, row, mailing, task, provider, received, losses>>
    BY <1>15 DEF TakeTask, Takers
  <2> HIDE DEF to
  <2>3. mailer[w].mail = NoMail
    BY <1>1, <2>2 DEF CopiesAreCounted
  <2>4. losses' \in 0..MaxLosses /\ losses' >= losses
    BY <1>1, <2>2
  <2>5. mailer' \in [Mailers -> MailerRows] /\ CopiesAreCounted'
    BY <1>1, <2>1, <2>2, <2>3, <2>4, AMailerMoves
  <2>6. QED
    BY <1>1, <1>2, <2>2, <2>5
<1>16. ASSUME NEW w \in Mailers, NEW st \in {"accepted", "refused", "raised", "unacked"}, mailer[w].at # "idle",
              mailer' = [mailer EXCEPT ![w].at = st], UNCHANGED <<mailing, task, losses>>
       PROVE  MailersOK' /\ CopiesAreCounted'
  <2> DEFINE to == [mailer[w] EXCEPT !.at = st]
  <2>1. to \in MailerRows /\ to.at # "idle" /\ to.mail = mailer[w].mail /\ to.mail # NoMail
    BY <1>1, <1>16 DEF MailerRows, CopiesAreCounted
  <2>2. mailer' = [mailer EXCEPT ![w] = to]
    BY <1>16
  <2> HIDE DEF to
  <2>3. losses' \in 0..MaxLosses /\ losses' >= losses
    BY <1>1, <1>16
  <2>4. mailer' \in [Mailers -> MailerRows] /\ CopiesAreCounted'
    BY <1>1, <1>16, <2>1, <2>2, <2>3, AMailerMoves
  <2>5. QED
    BY <1>1, <1>16, <2>4
<1>17. ASSUME NEW w \in Mailers, NEW outcome \in {"accepted", "refused", "raised"},
              GatewayAccepts(w, outcome)
       PROVE  MailInv'
  <2>1. mailer[w].mail \in Mails
    BY <1>5, <1>17 DEF GatewayAccepts
  <2>2. provider' \in [Mails -> [Events -> Instants0]]
    BY <1>1, <1>17, <2>1 DEF GatewayAccepts, Instants0
  <2>3. MailersOK' /\ CopiesAreCounted'
    BY <1>16, <1>17 DEF GatewayAccepts
  <2>4. QED
    BY <1>1, <1>2, <1>17, <2>2, <2>3 DEF GatewayAccepts
<1>18. ASSUME NEW w \in Mailers, NEW outcome \in {"refused", "raised"}, GatewayRefuses(w, outcome)
       PROVE  MailInv'
  <2>1. MailersOK' /\ CopiesAreCounted'
    BY <1>16, <1>18 DEF GatewayRefuses
  <2>2. QED
    BY <1>1, <1>2, <1>18, <2>1 DEF GatewayRefuses
<1>19. ASSUME NEW w \in Mailers, Submit(w) PROVE MailInv'
  <2>1. MailersOK' /\ CopiesAreCounted'
    BY <1>16, <1>19 DEF Submit
  <2>2. [status |-> "submitted", message |-> TRUE, lastEvent |-> clock] \in DeliveryRows
    <3>1. "submitted" \in {EventStatus[x] : x \in Events}
      BY DEF EventStatus, Events
    <3>2. QED
      BY <1>1, <3>1 DEF DeliveryRows, Instants0
  <2>3. row' \in [Mails -> DeliveryRows]
    BY <1>1, <1>19, <2>2 DEF Submit
  <2>4. QED
    BY <1>1, <1>2, <1>19, <2>1, <2>3 DEF Submit
<1>20. ASSUME NEW w \in Mailers, mailer[w].at # "idle", mailer' = [mailer EXCEPT ![w] = Resting0],
              mailing' = mailing, losses' \in 0..MaxLosses, losses' >= losses,
              \/ task' = task
              \/ task' = [task EXCEPT ![mailer[w].mail].copies = task[mailer[w].mail].copies - 1]
              \/ /\ MayRetry(mailer[w].mail)
                 /\ task' = [task EXCEPT ![mailer[w].mail].retries = task[mailer[w].mail].retries + 1]
       PROVE  MailersOK' /\ CopiesAreCounted'
  <2> DEFINE m == mailer[w].mail
  <2>1. m \in Mails /\ task[m] \in TaskRows
    BY <1>1, <1>5, <1>20
  <2>2. Cardinality(Takers(m)) \in Nat /\ Cardinality(Takers(m)) > 0 /\ Cardinality(Takers(m)) <= task[m].copies
    <3>1. IsFiniteSet(Takers(m)) /\ w \in Takers(m)
      BY MailAssumption, FS_Subset DEF Takers
    <3>2. Cardinality(Takers(m)) \in Nat /\ Cardinality(Takers(m)) # 0
      BY <3>1, FS_CardinalityType, FS_EmptySet
    <3>3. QED
      BY <1>1, <2>1, <3>2 DEF CopiesAreCounted
  <2> HIDE DEF m
  <2>3. task[m].copies \in Nat /\ task[m].copies > 0 /\ task[m].copies - 1 \in 0..(MaxLosses + 1)
    BY <2>1, <2>2, MailAssumption DEF TaskRows
  <2>4. task' \in [Mails -> TaskRows]
    <3>1. ASSUME MayRetry(m) PROVE task[m].retries + 1 \in 0..MaxRetries
      BY <2>1, <3>1, MailAssumption DEF MayRetry, TaskRows
    <3>2. QED
      <4>1. \A k \in 0..(MaxLosses + 1) : [task EXCEPT ![m].copies = k] \in [Mails -> TaskRows]
        BY <1>1, <2>1 DEF TaskRows
      <4>2. \A k \in 0..MaxRetries : [task EXCEPT ![m].retries = k] \in [Mails -> TaskRows]
        BY <1>1, <2>1 DEF TaskRows
      <4>3. CASE task' = task
        BY <1>1, <4>3
      <4>4. CASE task' = [task EXCEPT ![m].copies = task[m].copies - 1]
        BY <2>3, <4>1, <4>4
      <4>5. CASE MayRetry(m) /\ task' = [task EXCEPT ![m].retries = task[m].retries + 1]
        BY <3>1, <4>2, <4>5
      <4>6. QED
        BY <1>20, <4>3, <4>4, <4>5 DEF m
  <2>5. /\ \A n \in Mails : n # m => task'[n] = task[n]
        /\ task'[m].copies \in {task[m].copies, task[m].copies - 1}
    BY <1>1, <1>20, <2>1 DEF TaskRows, m
  <2>6. mailer' \in [Mailers -> MailerRows] /\ CopiesAreCounted'
    BY <1>4, <1>20, <2>1, <2>4, <2>5, AMailerMoves DEF m
  <2>7. QED
    BY <2>4, <2>6
<1>21. ASSUME NEW w \in Mailers, PutBack(mailer[w].mail)
       PROVE  \/ task' = [task EXCEPT ![mailer[w].mail].copies = task[mailer[w].mail].copies - 1]
              \/ /\ MayRetry(mailer[w].mail)
                 /\ task' = [task EXCEPT ![mailer[w].mail].retries = task[mailer[w].mail].retries + 1]
  <2>1. CASE MayRetry(mailer[w].mail)
    BY <1>21, <2>1 DEF PutBack
  <2>2. CASE ~MayRetry(mailer[w].mail)
    BY <1>21, <2>2 DEF PutBack
  <2>3. QED
    BY <2>1, <2>2
<1>22. ASSUME NEW w \in Mailers, TaskFails(w) PROVE MailInv'
  <2> DEFINE m == mailer[w].mail
  <2>1. m \in Mails
    BY <1>5, <1>22 DEF TaskFails
  <2>2. row' \in [Mails -> DeliveryRows]
    BY <1>1, <1>22, <2>1 DEF TaskFails, FailedDelivery, DeliveryRows
  <2>4. losses' \in 0..MaxLosses /\ losses' >= losses
    BY <1>1, <1>22 DEF TaskFails
  <2>5. MailersOK' /\ CopiesAreCounted'
    BY <1>20, <1>22, <1>21, <2>4 DEF TaskFails
  <2>6. QED
    BY <1>1, <1>2, <1>22, <2>2, <2>5 DEF TaskFails
<1>23. ASSUME NEW w \in Mailers, TaskRaises(w) PROVE MailInv'
  <2>1. losses' \in 0..MaxLosses /\ losses' >= losses
    BY <1>1, <1>23 DEF TaskRaises
  <2>2. MailersOK' /\ CopiesAreCounted'
    BY <1>20, <1>23, <1>21, <2>1 DEF TaskRaises
  <2>3. QED
    BY <1>1, <1>2, <1>23, <2>2 DEF TaskRaises
<1>24. ASSUME NEW w \in Mailers, Acknowledge(w) PROVE MailInv'
  <2>1. losses' \in 0..MaxLosses /\ losses' >= losses
    BY <1>1, <1>24 DEF Acknowledge
  <2>2. MailersOK' /\ CopiesAreCounted'
    BY <1>20, <1>24, <2>1 DEF Acknowledge
  <2>3. QED
    BY <1>1, <1>2, <1>24, <2>2 DEF Acknowledge
<1>25. ASSUME NEW w \in Mailers, LoseMailer(w) PROVE MailInv'
  <2>1. losses' \in 0..MaxLosses /\ losses' >= losses
    BY <1>1, <1>25, MailAssumption DEF LoseMailer
  <2>2. MailersOK' /\ CopiesAreCounted'
    BY <1>20, <1>25, <2>1 DEF LoseMailer
  <2>3. QED
    BY <1>1, <1>2, <1>25, <2>1, <2>2 DEF LoseMailer
<1>26. CASE UNCHANGED mailVars
  BY <1>1, <1>2, <1>3, <1>26 DEF mailVars
<1>27. QED
  BY <1>6, <1>9, <1>10, <1>12, <1>13, <1>14, <1>15, <1>17, <1>18, <1>19, <1>22, <1>24, <1>25, <1>26,
     <1>23, <1>11 DEF MailNext, MailerStep

\* Rows, messages and workers keep their types: a message has no more copies than it was queued
\* and delivered again, and a task no more retries than it may have.
THEOREM MailTypeCorrect == MailSpec => []MailTypeOK
<1>1. MailInv => MailTypeOK
  BY DEF MailInv
<1>2. QED
  BY <1>1, MailInitially, MailNextKeeps, PTL DEF MailSpec

-----------------------------------------------------------------------------
(* The four side by side *)

\* A behaviour of the four together is, seen by the rows of each, a behaviour of that one.
LEMMA EachIsItself ==
    AccountsSpec => Spec /\ AccessSpec /\ MailSpec /\ ScheduleSpec
<1>1. AccountsInit => Init /\ AccessInit /\ MailInit /\ ScheduleInit
  BY DEF AccountsInit
<1>2. ASSUME [InviteMoves \/ AccessMoves \/ MailMoves \/ ScheduleMoves]_accountsVars
      PROVE  [Next]_vars /\ [AccessNext]_accessVars /\ [MailNext]_mailVars /\ [ScheduleNext]_scheduleVars
  BY <1>2 DEF accountsVars, InviteMoves, AccessMoves, MailMoves, ScheduleMoves
<1>3. QED
  BY <1>1, <1>2, PTL DEF AccountsSpec, Spec, AccessSpec, MailSpec, ScheduleSpec

\* The rows, the sessions and the messages of the four keep their types: invite_beta/service.py,
\* access_control/service.py, the mail task of celery_app.py and the requests of
\* automation/service.py.
THEOREM AccountsTypeCorrect == AccountsSpec => []AccountsTypeOK
<1>1. TypeOK /\ AccessTypeOK /\ MailTypeOK /\ ScheduleTypeOK => AccountsTypeOK
  BY DEF AccountsTypeOK
<1>2. QED
  BY <1>1, EachIsItself, TypeCorrect, AccessTypeCorrect, MailTypeCorrect, ScheduleTypeCorrect, PTL
=============================================================================
