------------------------ MODULE ProviderConfiguration ------------------------
(***************************************************************************)
(* ProviderConfigurationService for one managed provider: the draft, its   *)
(* diagnosis, publication and removal of credentials by operators who work *)
(* at the same time, and the runtime lookups of the API and the workers.   *)
(*                                                                         *)
(* Every operator action is one transaction under SELECT ... FOR UPDATE of *)
(* the provider_configurations row and carries the row_version its console *)
(* showed.  A diagnosis and a runtime lookup take no lock and read several *)
(* rows one after another.  A secret is named by a number of its own:      *)
(* generations name it in the code, and start over when all credentials    *)
(* have been removed.  The key ring decrypts every credential, and         *)
(* managed_providers_hard_disabled is off.                                 *)
(***************************************************************************)
EXTENDS Integers, FiniteSets, Sequences

CONSTANTS
    Operators,          \* security_admin members with the console open
    Diagnosers,         \* diagnose_draft calls under way
    Callers,            \* runtime() calls under way
    EnvironmentHasKey,  \* the bootstrap environment holds credentials
    MaxRevisions,       \* bound on drafts ever saved
    MaxVersion          \* bound on row_version

ASSUME EnvironmentAssumption == EnvironmentHasKey \in BOOLEAN
ASSUME BoundAssumption == MaxRevisions \in Nat /\ MaxVersion \in Nat

VARIABLES
    config,      \* the provider_configurations row: version, active and draft revision
    revisions,   \* provider_configuration_revisions, by revision number
    credential,  \* provider_credentials, by slot
    issued,      \* how many secrets operators have entered
    healthy,     \* the healthy provider_diagnostic_runs on drafts, and the secret each tested
    seen,        \* the version and the revisions each operator's console shows
    diagnosis,   \* the diagnose_draft calls
    call         \* the runtime lookup of each caller

vars == <<config, revisions, credential, issued, healthy, seen, diagnosis, call>>

None == 0
Environment == -1                      \* the secret of the bootstrap environment
NoCredential == [generation |-> None, secret |-> None]
Numbers == 1..MaxRevisions
Secrets == {Environment, None} \cup Numbers
Credentials == [generation : 0..MaxRevisions, secret : 0..MaxRevisions]
Revisions == [status : {"draft", "active", "retired"}, enabled : BOOLEAN,
              generation : 0..MaxRevisions]
Diagnostics == [revision : Numbers, generation : 0..MaxRevisions, secret : Secrets \ {None},
                recent : BOOLEAN]
NoDiagnosis == [at |-> "idle", draft |-> None, bootstrap |-> FALSE, secret |-> None]
NoCall == [at |-> "idle", version |-> 0, active |-> None, got |-> NoCredential]
Row(version, active, draft) == [version |-> version, active |-> active, draft |-> draft]

Rows == [version : 0..MaxVersion, active : 0..MaxRevisions, draft : 0..MaxRevisions]
Diagnoses == [at : {"idle", "draft", "candidate", "probing"}, draft : 0..MaxRevisions,
              bootstrap : BOOLEAN, secret : Secrets]
Calls == [at : {"idle", "row", "answered"}, version : 0..MaxVersion, active : 0..MaxRevisions,
          got : Credentials]

TypeOK ==
    /\ config \in Rows
    /\ revisions \in Seq(Revisions) /\ Len(revisions) <= MaxRevisions
    /\ credential \in [{"candidate", "active"} -> Credentials]
    /\ issued \in 0..MaxRevisions
    /\ healthy \subseteq Diagnostics
    /\ seen \in [Operators -> Rows]
    /\ diagnosis \in [Diagnosers -> Diagnoses]
    /\ call \in [Callers -> Calls]

Init ==
    /\ config = Row(0, None, None)
    /\ revisions = <<>>
    /\ credential = [slot \in {"candidate", "active"} |-> NoCredential]
    /\ issued = 0
    /\ healthy = {}
    /\ seen = [o \in Operators |-> Row(0, None, None)]
    /\ diagnosis = [d \in Diagnosers |-> NoDiagnosis]
    /\ call = [c \in Callers |-> NoCall]

-----------------------------------------------------------------------------
(* Operators *)

\* Variants of the definitions below, each the way a plausible bug would have it.
OlderDraftKept(n) == revisions
AnythingDiagnosed(n) == healthy # {}
OlderSecretKept(n) ==
    [credential EXCEPT !["candidate"] = NoCredential,
                       !["active"] = IF @ = NoCredential THEN credential["candidate"] ELSE @]

Last(slot) == credential[slot] # NoCredential

\* The version an operator's console sends is still the row's.
VersionMatches(o) == seen[o].version = config.version /\ config.version < MaxVersion

\* get_configuration: the row an operator's console shows.
View(o) ==
    /\ seen' = [seen EXCEPT ![o] = config]
    /\ UNCHANGED <<config, revisions, credential, issued, healthy, diagnosis, call>>

\* candidate or active
Latest == IF Last("candidate") THEN credential["candidate"] ELSE credential["active"]

\* The generation a new secret gets: one more than those of the two slots.
NextGeneration ==
    LET candidate == credential["candidate"].generation
        active == credential["active"].generation
    IN  (IF candidate > active THEN candidate ELSE active) + 1

\* The status of revision n becomes "retired", if there is one.
Retired(n) ==
    IF n = None THEN revisions ELSE [revisions EXCEPT ![n].status = "retired"]

\* save_draft and import_environment: a new draft revision replaces the draft there was;
\* secrets that were entered become the candidate, under a new generation.
SaveDraft(o, enabled, entered) ==
    /\ VersionMatches(o)
    /\ Len(revisions) < MaxRevisions
    /\ LET generation == IF entered THEN NextGeneration ELSE Latest.generation
       IN  /\ credential' = IF entered
                            THEN [credential EXCEPT !["candidate"] =
                                    [generation |-> generation, secret |-> issued + 1]]
                            ELSE credential
           /\ revisions' = Append(Retired(config.draft),
                 [status |-> "draft", enabled |-> enabled, generation |-> generation])
    /\ issued' = IF entered THEN issued + 1 ELSE issued
    /\ config' = Row(config.version + 1, config.active, Len(revisions) + 1)
    /\ UNCHANGED <<healthy, seen, diagnosis, call>>

\* discard_draft, of a provider that has a row; there need not be a draft.
DiscardDraft(o) ==
    /\ VersionMatches(o)
    /\ config.version > 0
    /\ revisions' = Retired(config.draft)
    /\ credential' = [credential EXCEPT !["candidate"] = NoCredential]
    /\ config' = Row(config.version + 1, config.active, None)
    /\ UNCHANGED <<issued, healthy, seen, diagnosis, call>>

\* A healthy diagnosis of the draft in its credential generation, at most 15 minutes old.
RecentlyDiagnosed(n) ==
    \E d \in healthy : d.revision = n /\ d.generation = revisions[n].generation /\ d.recent

\* What may be published: a disabled draft, or one that has credentials and was diagnosed.
Publishable(n) ==
    revisions[n].enabled => (Last("candidate") \/ Last("active")) /\ RecentlyDiagnosed(n)

\* The candidate, if there is one, takes the place of the active credential.
Promoted(n) ==
    IF Last("candidate")
    THEN [credential EXCEPT !["active"] = credential["candidate"],
                            !["candidate"] = NoCredential]
    ELSE credential

\* publish
Publish(o) ==
    /\ VersionMatches(o)
    /\ config.draft # None
    /\ Publishable(config.draft)
    /\ revisions' = [Retired(config.active) EXCEPT ![config.draft].status = "active"]
    /\ credential' = Promoted(config.draft)
    /\ config' = Row(config.version + 1, config.draft, None)
    /\ UNCHANGED <<issued, healthy, seen, diagnosis, call>>

\* Credentials may go while the active revision is disabled, or there is none.
Removable == config.active # None => ~revisions[config.active].enabled

\* remove_credentials: both slots; a draft stays.
RemoveCredentials(o) ==
    /\ VersionMatches(o)
    /\ config.version > 0
    /\ Removable
    /\ credential' = [slot \in {"candidate", "active"} |-> NoCredential]
    /\ config' = Row(config.version + 1, config.active, config.draft)
    /\ UNCHANGED <<revisions, issued, healthy, seen, diagnosis, call>>

-----------------------------------------------------------------------------
(* diagnose_draft, without a lock *)

\* The row and its draft revision are read.
Diagnose(p) ==
    /\ diagnosis[p].at = "idle"
    /\ config.draft # None
    /\ diagnosis' = [diagnosis EXCEPT ![p] = [at |-> "draft", draft |-> config.draft,
                        bootstrap |-> config.active = None, secret |-> None]]
    /\ UNCHANGED <<config, revisions, credential, issued, healthy, seen, call>>

\* Then the candidate.
SeeCandidate(p) ==
    /\ diagnosis[p].at = "draft"
    /\ diagnosis' = [diagnosis EXCEPT ![p] =
                        [@ EXCEPT !.at = "candidate", !.secret = credential["candidate"].secret]]
    /\ UNCHANGED <<config, revisions, credential, issued, healthy, seen, call>>

\* Then the active credential, which counts when there is no candidate; and the bootstrap
\* environment's when there is neither and nothing has been published.
SeeActive(p) ==
    /\ diagnosis[p].at = "candidate"
    /\ diagnosis' = [diagnosis EXCEPT ![p] = [@ EXCEPT !.at = "probing", !.secret =
          IF diagnosis[p].secret # None THEN diagnosis[p].secret
          ELSE IF Last("active") THEN credential["active"].secret
          ELSE IF diagnosis[p].bootstrap /\ EnvironmentHasKey THEN Environment ELSE None]]
    /\ UNCHANGED <<config, revisions, credential, issued, healthy, seen, call>>

\* _diagnose_deepseek and _diagnose_resend refuse a disabled draft or one without a secret.
Testable(p) == revisions[diagnosis[p].draft].enabled /\ diagnosis[p].secret # None

\* The provider accepts the secret, and the diagnosis is recorded against the revision
\* and the credential generation the draft was saved with.
DiagnosedHealthy(p) ==
    LET n == diagnosis[p].draft
    IN  /\ diagnosis[p].at = "probing"
        /\ Testable(p)
        /\ healthy' = healthy \cup {[revision |-> n, generation |-> revisions[n].generation,
                                     secret |-> diagnosis[p].secret, recent |-> TRUE]}
        /\ diagnosis' = [diagnosis EXCEPT ![p] = NoDiagnosis]
        /\ UNCHANGED <<config, revisions, credential, issued, seen, call>>

\* The draft is disabled, has no secret, or the provider refuses it.
DiagnosedUnavailable(p) ==
    /\ diagnosis[p].at = "probing"
    /\ diagnosis' = [diagnosis EXCEPT ![p] = NoDiagnosis]
    /\ UNCHANGED <<config, revisions, credential, issued, healthy, seen, call>>

\* Fifteen minutes pass since a diagnosis.
DiagnosisAges ==
    /\ \E d \in healthy :
         /\ d.recent
         /\ healthy' = (healthy \ {d}) \cup {[d EXCEPT !.recent = FALSE]}
    /\ UNCHANGED <<config, revisions, credential, issued, seen, diagnosis, call>>

-----------------------------------------------------------------------------
(* runtime, without a lock *)

\* The row and the revision it names: what a revision says never changes.
SeeRow(c) ==
    /\ call[c].at = "idle"
    /\ config.active # None
    /\ call' = [call EXCEPT ![c] = [at |-> "row", version |-> config.version,
                                    active |-> config.active, got |-> NoCredential]]
    /\ UNCHANGED <<config, revisions, credential, issued, healthy, seen, diagnosis>>

\* Then the credential of the active slot, whatever has been published meanwhile.
Answer(c) ==
    /\ call[c].at = "row"
    /\ call' = [call EXCEPT ![c] = [@ EXCEPT !.at = "answered", !.got = credential["active"]]]
    /\ UNCHANGED <<config, revisions, credential, issued, healthy, seen, diagnosis>>

\* The caller has used what it was given.
Used(c) ==
    /\ call[c].at = "answered"
    /\ call' = [call EXCEPT ![c] = NoCall]
    /\ UNCHANGED <<config, revisions, credential, issued, healthy, seen, diagnosis>>

Operate(o) ==
    \/ View(o)
    \/ \E enabled, entered \in BOOLEAN : SaveDraft(o, enabled, entered)
    \/ DiscardDraft(o)
    \/ Publish(o)
    \/ RemoveCredentials(o)

Probe(p) ==
    \/ Diagnose(p) \/ SeeCandidate(p) \/ SeeActive(p)
    \/ DiagnosedHealthy(p) \/ DiagnosedUnavailable(p)

Lookup(c) == SeeRow(c) \/ Answer(c) \/ Used(c)

Next ==
    \/ \E o \in Operators : Operate(o)
    \/ \E p \in Diagnosers : Probe(p)
    \/ \E c \in Callers : Lookup(c)
    \/ DiagnosisAges

Spec == Init /\ [][Next]_vars

-----------------------------------------------------------------------------
(* Properties *)

\* The row points at the one revision that is active and the one that is a draft; every
\* other revision there ever was is retired.
OneActiveOneDraft ==
    \A n \in 1..Len(revisions) :
        revisions[n].status = CASE n = config.active -> "active"
                                [] n = config.draft -> "draft"
                                [] OTHER -> "retired"

Proven(n, secret) == \E d \in healthy : d.revision = n /\ d.secret = secret

\* An enabled provider in force has a credential, of the generation its revision names, and
\* that very secret was accepted in a diagnosis of that very revision, though a diagnosis
\* reads without a lock and generations are used again after a removal.
EnabledIsProven ==
    config.active # None /\ revisions[config.active].enabled =>
        /\ credential["active"].generation = revisions[config.active].generation
        /\ credential["active"] # NoCredential
        /\ Proven(config.active, credential["active"].secret)

\* No operator changes, publishes or discards what another operator has changed since
\* their console was loaded.
NobodyActsUnseen ==
    [][config' # config => \E o \in Operators : seen[o] = config]_config

\* A runtime lookup during which the row did not change gets the credential that belongs
\* to the revision it got, proven if it is enabled.
UndisturbedCallIsConsistent ==
    \A c \in Callers :
        call[c].at = "answered" /\ call[c].version = config.version
            /\ revisions[call[c].active].enabled =>
        /\ call[c].active = config.active
        /\ call[c].got.generation = revisions[call[c].active].generation
        /\ Proven(call[c].active, call[c].got.secret)
=============================================================================
