--------------------------- MODULE ProductionRelease ---------------------------
(***************************************************************************)
(* ProductionReleaseService: one release candidate from its creation over  *)
(* the gates and approvals to its deployment events.                       *)
(*                                                                         *)
(* Every call that writes locks the candidate first and holds it until it  *)
(* commits.  What a gate judges is not locked: its checks are read one     *)
(* after the other while evidence, feedback and conditions change.         *)
(*                                                                         *)
(* A process has the settings it was started with; the clock counts days.  *)
(***************************************************************************)
EXTENDS Integers, Sequences

CONSTANTS
    Staff,       \* operators of the console
    RoleOf,      \* operator_role: "security_admin", "operations" or another
    Creator,     \* who creates the candidate
    Evidence,    \* evidence an invite gate judges by its age: "acceptance", "diagnostic",
                 \* "delivered", "webhook", in the order in which it is read
    Conditions,  \* conditions of the surroundings, as "runtime", "feedback", "seats"
    ClosedNeeds, \* those a closed deployment is judged by
    InviteNeeds, \* those an activation of invitations is judged by
    Window,      \* the days a reliability observation covers
    EvidenceAge, \* INVITE_EVIDENCE_MAX_AGE, RELIABILITY_EVIDENCE_MAX_AGE
    RestoreAge,  \* RESTORE_EVIDENCE_MAX_AGE
    ObservedDays, \* the least window of an observation
    MaxDay,      \* the clock's bound
    Nobody       \* no operator, no day

ASSUME ReleaseAssumption ==
    /\ Creator \in Staff
    /\ DOMAIN RoleOf = Staff
    /\ Evidence \in Seq({"acceptance", "diagnostic", "delivered", "webhook"})
    /\ ClosedNeeds \subseteq Conditions /\ InviteNeeds \subseteq Conditions
    /\ {Window, EvidenceAge, RestoreAge, ObservedDays, MaxDay} \subseteq Nat
    /\ Nobody \notin Staff /\ Nobody \notin Nat

VARIABLES
    day,
    mode,        \* settings of the processes: "closed", "invites" or another
    holding,     \* the conditions that hold
    candidate,   \* production_release_candidates
    approval,    \* production_release_approvals, by role
    event,       \* production_deployment_events, by type: the day
    evidence,    \* the latest evidence of each kind
    observation, \* the latest beta_reliability_observations bound to the candidate
    gateCall     \* the call that has the candidate locked

releaseVars == <<day, mode, holding, candidate, approval, event, evidence, observation, gateCall>>

-----------------------------------------------------------------------------
ApprovalRoles == {"engineering", "data_compliance", "product_operations"}
EventTypes == {"deployed", "released", "failed", "rolled_back"}
Terminal == {"released", "rolled_back", "rejected"}
Modes == {"closed", "invites", "other"}
Days == (0..MaxDay) \cup {Nobody}
Kinds == {Evidence[i] : i \in 1..Len(Evidence)}

CandidateRows == [status : {"absent", "draft", "blocked", "ready_closed", "deployed_observing",
                            "ready_invites", "released", "rolled_back", "rejected"},
                  artifacts : BOOLEAN, restored : 0..MaxDay]
ApprovalRows == [decision : {"none", "approved", "rejected"}, actor : Staff \cup {Nobody}]
ObservationRows == [end : Days, passed : BOOLEAN]
Checks == Kinds \cup {"runtime", "engineering", "observation", "approvals", "conditions"}
GateCalls == [does : {"nothing", "closed_deployment", "invite_activation", "deployed", "released"},
              at : 0..MaxDay, mode : Modes, todo : Seq(Checks), ok : BOOLEAN]
NoGateCall == [does |-> "nothing", at |-> 0, mode |-> "other", todo |-> <<>>, ok |-> TRUE]

ReleaseTypeOK ==
    /\ day \in 0..MaxDay /\ mode \in Modes /\ holding \subseteq Conditions
    /\ candidate \in CandidateRows
    /\ approval \in [ApprovalRoles -> ApprovalRows]
    /\ event \in [EventTypes -> Days]
    /\ evidence \in [Kinds -> ObservationRows]
    /\ observation \in ObservationRows
    /\ gateCall \in GateCalls /\ gateCall.at <= day

ReleaseInit ==
    /\ day = 0 /\ mode = "closed" /\ holding = Conditions
    /\ candidate = [status |-> "absent", artifacts |-> FALSE, restored |-> 0]
    /\ approval = [r \in ApprovalRoles |-> [decision |-> "none", actor |-> Nobody]]
    /\ event = [t \in EventTypes |-> Nobody]
    /\ evidence = [k \in Kinds |-> [end |-> Nobody, passed |-> FALSE]]
    /\ observation = [end |-> Nobody, passed |-> FALSE]
    /\ gateCall = NoGateCall

-----------------------------------------------------------------------------
(* The surroundings *)

DayBegins ==
    /\ day < MaxDay
    /\ day' = day + 1
    /\ UNCHANGED <<mode, holding, candidate, approval, event, evidence, observation, gateCall>>

\* The processes are started anew with other settings.
Restart(m) ==
    /\ m # mode
    /\ mode' = m
    /\ UNCHANGED <<day, holding, candidate, approval, event, evidence, observation, gateCall>>

\* Feedback of severity P0 or P1 is filed or resolved, accounts fill the beta, a provider breaks.
ConditionTurns(c) ==
    /\ holding' = IF c \in holding THEN holding \ {c} ELSE holding \cup {c}
    /\ UNCHANGED <<day, mode, candidate, approval, event, evidence, observation, gateCall>>

\* An acceptance run, a diagnosis, a delivered mail or its webhook is retained.
Retain(k, passed) ==
    /\ evidence' = [evidence EXCEPT ![k] = [end |-> day, passed |-> passed]]
    /\ UNCHANGED <<day, mode, holding, candidate, approval, event, observation, gateCall>>

\* freeze_beta_reliability_observation: the last Window days, for the release that is named.
Observe(passed) ==
    /\ candidate.status # "absent"
    /\ observation' = [end |-> day, passed |-> passed]
    /\ UNCHANGED <<day, mode, holding, candidate, approval, event, evidence, gateCall>>

-----------------------------------------------------------------------------
(* create, approve *)

\* FOR UPDATE of the candidate.
CandidateFree == gateCall.does = "nothing"

Create(artifacts) ==
    /\ candidate.status = "absent"
    /\ candidate' = [status |-> "draft", artifacts |-> artifacts, restored |-> day]
    /\ UNCHANGED <<day, mode, holding, approval, event, evidence, observation, gateCall>>

ApprovalRoleAllowed(o, role) ==
    RoleOf[o] = IF role = "product_operations" THEN "operations" ELSE "security_admin"

\* A variant: an operator may take two roles.
RoleIsOpen(o, role) == approval[role].decision = "none"

\* uq_release_approval_role, uq_release_approval_actor
NotYetRecorded(o, role) ==
    approval[role].decision = "none" /\ \A r \in ApprovalRoles : approval[r].actor # o

NotItsCreator(o) == o # Creator

Approve(o, role, decision) ==
    /\ CandidateFree
    /\ candidate.status \notin Terminal \cup {"absent"}
    /\ NotItsCreator(o)
    /\ ApprovalRoleAllowed(o, role)
    /\ NotYetRecorded(o, role)
    /\ approval' = [approval EXCEPT ![role] = [decision |-> decision, actor |-> o]]
    /\ candidate' = IF decision = "rejected" THEN [candidate EXCEPT !.status = "rejected"]
                    ELSE candidate
    /\ UNCHANGED <<day, mode, holding, event, evidence, observation, gateCall>>

-----------------------------------------------------------------------------
(* evaluate, record_event *)

ClosedChecks == <<"runtime", "engineering">>
InviteChecks == <<"observation">> \o Evidence \o <<"approvals", "conditions">>

\* A variant: record_event relies on the gate that passed before.
GateIsEnough(does) == IF does = "closed_deployment" THEN ClosedChecks
                      ELSE IF does = "invite_activation" THEN InviteChecks ELSE <<"approvals">>

ChecksOf(does) == IF does \in {"closed_deployment", "deployed"} THEN ClosedChecks ELSE InviteChecks

\* From which states a gate is evaluated and an event recorded.
AllowedFrom ==
    [closed_deployment |-> {"draft", "blocked", "ready_closed"},
     invite_activation |-> {"deployed_observing", "ready_invites"},
     deployed |-> {"ready_closed"}, released |-> {"ready_invites"},
     failed |-> {"ready_closed", "deployed_observing", "ready_invites"},
     rolled_back |-> {"deployed_observing", "ready_invites", "released"}]

\* evaluate, and record_event of deployed and released, up to their checks.
BeginChecks(does) ==
    /\ CandidateFree
    /\ candidate.status \in AllowedFrom[does]
    /\ gateCall' = [does |-> does, at |-> day, mode |-> mode, todo |-> ChecksOf(does), ok |-> TRUE]
    /\ UNCHANGED <<day, mode, holding, candidate, approval, event, evidence, observation>>

Fresh(row, now) == row.end # Nobody /\ row.passed /\ row.end + EvidenceAge >= now
Approved(role) == approval[role].decision = "approved"

Passes(check) ==
    LET now == gateCall.at
    IN  CASE check = "runtime" -> /\ ClosedNeeds \subseteq holding
                                  /\ candidate.artifacts /\ candidate.restored + RestoreAge >= now
                                  /\ gateCall.mode = "closed"
          [] check = "engineering" -> Approved("engineering")
          [] check = "observation" -> Fresh(observation, now) /\ Window >= ObservedDays
          [] check = "approvals" -> \A r \in ApprovalRoles : Approved(r)
          [] check = "conditions" -> InviteNeeds \subseteq holding /\ gateCall.mode = "invites"
          [] OTHER -> Fresh(evidence[check], now)

ReadCheck ==
    /\ gateCall.todo # <<>>
    /\ gateCall' = [gateCall EXCEPT !.todo = Tail(@), !.ok = @ /\ Passes(Head(gateCall.todo))]
    /\ UNCHANGED <<day, mode, holding, candidate, approval, event, evidence, observation>>

\* The commit of evaluate: an invite gate that is blocked leaves the candidate as it is.
Evaluate ==
    /\ gateCall.does \in {"closed_deployment", "invite_activation"} /\ gateCall.todo = <<>>
    /\ candidate' = [candidate EXCEPT !.status =
         CASE gateCall.does = "closed_deployment" ->
                IF gateCall.ok THEN "ready_closed" ELSE "blocked"
           [] gateCall.does = "invite_activation" ->
                IF gateCall.ok THEN "ready_invites" ELSE @]
    /\ gateCall' = NoGateCall
    /\ UNCHANGED <<day, mode, holding, approval, event, evidence, observation>>

\* uq_deployment_candidate_event
NotRecorded(t) == event[t] = Nobody

StatusAfter == [deployed |-> "deployed_observing", released |-> "released",
                failed |-> "rolled_back", rolled_back |-> "rolled_back"]

Record(t) ==
    /\ NotRecorded(t)
    /\ event' = [event EXCEPT ![t] = day]
    /\ candidate' = [candidate EXCEPT !.status = StatusAfter[t]]

\* The commit of record_event after its checks have passed.
RecordChecked ==
    /\ gateCall.does \in {"deployed", "released"} /\ gateCall.todo = <<>> /\ gateCall.ok
    /\ Record(gateCall.does)
    /\ gateCall' = NoGateCall
    /\ UNCHANGED <<day, mode, holding, approval, evidence, observation>>

\* The checks fail, or the process is lost: the transaction is rolled back.
ChecksEnd ==
    /\ gateCall.does # "nothing"
    /\ gateCall' = NoGateCall
    /\ UNCHANGED <<day, mode, holding, candidate, approval, event, evidence, observation>>

\* record_event of failed and rolled_back.
RecordIncident(t) ==
    /\ CandidateFree
    /\ candidate.status \in AllowedFrom[t]
    /\ Record(t)
    /\ UNCHANGED <<day, mode, holding, approval, evidence, observation, gateCall>>

-----------------------------------------------------------------------------
ReleaseNext ==
    \/ DayBegins
    \/ \E m \in {"closed", "invites"} : Restart(m)
    \/ \E c \in Conditions : ConditionTurns(c)
    \/ \E k \in Kinds, passed \in BOOLEAN : Retain(k, passed)
    \/ \E passed \in BOOLEAN : Observe(passed) \/ Create(passed)
    \/ \E o \in Staff, r \in ApprovalRoles, d \in {"approved", "rejected"} : Approve(o, r, d)
    \/ \E t \in {"closed_deployment", "invite_activation", "deployed", "released"} : BeginChecks(t)
    \/ ReadCheck \/ Evaluate \/ RecordChecked \/ ChecksEnd
    \/ \E t \in {"failed", "rolled_back"} : RecordIncident(t)

ReleaseSpec == ReleaseInit /\ [][ReleaseNext]_releaseVars

-----------------------------------------------------------------------------
(* Properties *)

\* A released candidate was approved in all three roles by three operators, none of them its
\* creator; one that is or was deployed was approved by an engineer.
FourEyes ==
    /\ candidate.status = "released" =>
         \A r \in ApprovalRoles :
            /\ Approved(r) /\ approval[r].actor # Creator
            /\ \A s \in ApprovalRoles \ {r} : approval[s].actor # approval[r].actor
    /\ event["deployed"] # Nobody => Approved("engineering")

\* The deployment events tell how the candidate came to its status.
EventsTellStatus ==
    /\ candidate.status \in {"deployed_observing", "ready_invites", "released"} =>
         event["deployed"] # Nobody /\ event["failed"] = Nobody /\ event["rolled_back"] = Nobody
    /\ candidate.status = "released" <=>
         (event["released"] # Nobody /\ event["rolled_back"] = Nobody)
    /\ candidate.status = "rolled_back" <=>
         (event["failed"] # Nobody \/ event["rolled_back"] # Nobody)

\* A call that began earlier revives nothing: a candidate that was rejected or rolled back stays
\* so, and one that was released is rolled back at most.
TerminalStays ==
    [][/\ candidate.status \in {"rejected", "rolled_back"} => candidate'.status = candidate.status
       /\ candidate.status = "released" =>
            candidate'.status \in {"released", "rolled_back"}]_candidate

\* A candidate is released on what was the latest evidence when the call began: it had passed and
\* was no older than EvidenceAge, unless newer evidence was retained while the call was under way.
ReleasedOnLiveEvidence ==
    [][event["released"] = Nobody /\ event'["released"] # Nobody =>
          \A row \in {evidence[k] : k \in Kinds} \cup {observation} :
              Fresh(row, gateCall.at) \/ (row.end # Nobody /\ row.end >= gateCall.at)]_event

\* The 48 hours a candidate is observed for are hours it was deployed: it is released no earlier
\* than ObservedDays after its deployment.
ReleasedAfterObservation ==
    candidate.status = "released" => event["released"] - event["deployed"] >= ObservedDays
=============================================================================
