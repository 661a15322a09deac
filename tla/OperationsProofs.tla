--------------------------- MODULE OperationsProofs ---------------------------
(***************************************************************************)
(* What holds of a managed provider, of the release gate and of provider   *)
(* acceptance, and of all that MC_Operations puts side by side, for every  *)
(* value of the constants.                                                 *)
(*                                                                         *)
(* Provider: what is enabled and in force was proven for its very          *)
(* revision, and a lookup that nothing came between gets it.  The          *)
(* inductive invariant says why generations that start over do no harm:    *)
(* while a draft is the draft, credentials can only go; if there are any,  *)
(* they are those it was saved with, and whatever diagnosis is under way   *)
(* or done can have seen no other secret.                                  *)
(*                                                                         *)
(* Release: the events tell the candidate's status, it is released with    *)
(* the approval of three operators and on evidence that was live.  The     *)
(* inductive invariant says what the call that holds the candidate has     *)
(* found so far, and that what it found stays found.                       *)
(*                                                                         *)
(* Acceptance: what has passed is retained.  The inductive invariant says  *)
(* that the items are the reads made so far, each pair once, and that      *)
(* nothing a read has found is lost while the run goes on.                 *)
(***************************************************************************)
EXTENDS MC_Operations, ScheduleProofs, ScreeningProofs

\* A slot is empty or full, and what has been entered bounds it.
SlotsAreSound ==
    /\ \A slot \in {"candidate", "active"} :
         /\ credential[slot].generation <= issued /\ credential[slot].secret <= issued
         /\ credential[slot] # NoCredential =>
              credential[slot].generation # None /\ credential[slot].secret # None
    /\ issued <= Len(revisions)

\* The row names revisions that there are, and two of them.
RowIsSound ==
    /\ config.active \in 0..Len(revisions) /\ config.draft \in 0..Len(revisions)
    /\ config.draft # None => config.draft # config.active

\* A row that a console or a lookup has read is this one, or an older version.
SeenIsOlder ==
    \A o \in Operators :
        /\ seen[o].version <= config.version
        /\ seen[o].version = config.version => seen[o] = config

CallsAreOlder ==
    \A c \in Callers : call[c].at # "idle" =>
        /\ call[c].version <= config.version /\ call[c].active \in 1..Len(revisions)
        /\ call[c].version = config.version =>
             /\ call[c].active = config.active
             /\ call[c].at = "answered" => call[c].got = credential["active"]

\* Diagnoses are of revisions that there are.
DiagnosedExist ==
    /\ \A d \in healthy :
         d.revision \in 1..Len(revisions) /\ d.generation = revisions[d.revision].generation
    /\ \A p \in Diagnosers :
         diagnosis[p].at # "idle" => diagnosis[p].draft \in 1..Len(revisions)

\* What credentials there are while a draft is the draft are those it was saved with.
DraftHasItsSecret ==
    config.draft # None /\ (Last("candidate") \/ Last("active")) =>
        /\ Latest.generation = revisions[config.draft].generation
        /\ \A d \in healthy : d.revision = config.draft => d.secret = Latest.secret
        /\ \A p \in Diagnosers : diagnosis[p].at # "idle" /\ diagnosis[p].draft = config.draft =>
             /\ diagnosis[p].at = "candidate" => diagnosis[p].secret = credential["candidate"].secret
             /\ diagnosis[p].at = "probing" => diagnosis[p].secret = Latest.secret

ProviderInv ==
    /\ TypeOK
    /\ SlotsAreSound
    /\ RowIsSound
    /\ OneActiveOneDraft
    /\ SeenIsOlder
    /\ CallsAreOlder
    /\ DiagnosedExist
    /\ DraftHasItsSecret
    /\ EnabledIsProven

-----------------------------------------------------------------------------
USE EnvironmentAssumption, BoundAssumption DEF None

LEMMA ProviderInitInv == Init => ProviderInv
<1> SUFFICES ASSUME Init PROVE ProviderInv
  OBVIOUS
<1>1. /\ config = Row(0, None, None) /\ revisions = <<>> /\ issued = 0 /\ healthy = {}
      /\ credential = [slot \in {"candidate", "active"} |-> NoCredential]
      /\ seen = [o \in Operators |-> Row(0, None, None)]
      /\ diagnosis = [d \in Diagnosers |-> NoDiagnosis]
      /\ call = [c \in Callers |-> NoCall]
  BY DEF Init
<1>2. /\ Row(0, None, None) \in Rows /\ Row(0, None, None).version = 0
      /\ Row(0, None, None).active = 0 /\ Row(0, None, None).draft = 0
  BY DEF Row, Rows
<1>3. NoCredential \in Credentials /\ NoCredential.generation = 0 /\ NoCredential.secret = 0
  BY DEF NoCredential, Credentials
<1>4. NoDiagnosis \in Diagnoses /\ NoDiagnosis.at = "idle"
  BY DEF NoDiagnosis, Diagnoses, Secrets
<1>5. NoCall \in Calls /\ NoCall.at = "idle"
  BY <1>3 DEF NoCall, Calls
<1>6. revisions \in Seq(Revisions) /\ Len(revisions) = 0
  BY <1>1
<1>7. TypeOK
  BY <1>1, <1>2, <1>3, <1>4, <1>5, <1>6 DEF TypeOK, Diagnostics
<1>8. SlotsAreSound /\ RowIsSound /\ OneActiveOneDraft
  <2>1. SlotsAreSound
    <3>1. \A slot \in {"candidate", "active"} : credential[slot] = NoCredential
      BY <1>1
    <3>2. issued <= Len(revisions) /\ issued = 0
      BY <1>1, <1>6
    <3>3. ASSUME NEW slot \in {"candidate", "active"}
          PROVE  /\ credential[slot].generation <= issued /\ credential[slot].secret <= issued
                 /\ credential[slot] = NoCredential
      <4>1. credential[slot] = NoCredential
        BY <3>1
      <4>2. credential[slot].generation = 0 /\ credential[slot].secret = 0
        BY <1>3, <4>1
      <4>3. QED
        BY <3>2, <4>1, <4>2
    <3>4. QED
      BY <3>2, <3>3 DEF SlotsAreSound
  <2>2. RowIsSound
    BY <1>1, <1>2, <1>6 DEF RowIsSound
  <2>3. OneActiveOneDraft
    BY <1>6 DEF OneActiveOneDraft
  <2>4. QED
    BY <2>1, <2>2, <2>3
<1>9. SeenIsOlder /\ CallsAreOlder /\ DiagnosedExist
  BY <1>1, <1>2, <1>4, <1>5 DEF SeenIsOlder, CallsAreOlder, DiagnosedExist
<1>10. DraftHasItsSecret /\ EnabledIsProven
  BY <1>1, <1>2 DEF DraftHasItsSecret, EnabledIsProven
<1>11. QED
  BY <1>7, <1>8, <1>9, <1>10 DEF ProviderInv

-----------------------------------------------------------------------------
(* What the operations make of the revisions and the credentials *)

LEMMA RetiredIs ==
    ASSUME revisions \in Seq(Revisions), NEW n \in 0..Len(revisions)
    PROVE  /\ Retired(n) \in Seq(Revisions) /\ Len(Retired(n)) = Len(revisions)
           /\ \A k \in 1..Len(revisions) :
                /\ Retired(n)[k].status = (IF k = n THEN "retired" ELSE revisions[k].status)
                /\ Retired(n)[k].enabled = revisions[k].enabled
                /\ Retired(n)[k].generation = revisions[k].generation
<1>1. \A k \in 1..Len(revisions) : revisions[k] \in Revisions
  OBVIOUS
<1>2. CASE n = 0
  BY <1>1, <1>2 DEF Retired, Revisions
<1>3. CASE n # 0
  <2>1. n \in 1..Len(revisions)
    BY <1>3
  <2>2. PICK row : row = [revisions[n] EXCEPT !.status = "retired"]
    OBVIOUS
  <2>3. row \in Revisions /\ row.status = "retired" /\ row.enabled = revisions[n].enabled
        /\ row.generation = revisions[n].generation
    BY <1>1, <2>1, <2>2 DEF Revisions
  <2>4. Retired(n) = [revisions EXCEPT ![n] = row]
    BY <1>3, <2>2 DEF Retired
  <2>5. Retired(n) \in Seq(Revisions) /\ Len(Retired(n)) = Len(revisions)
        /\ \A k \in 1..Len(revisions) : Retired(n)[k] = IF k = n THEN row ELSE revisions[k]
    BY <2>1, <2>3, <2>4
  <2>6. QED
    BY <2>3, <2>5
<1>4. QED
  BY <1>2, <1>3

\* What a revision says never changes, and none goes.
RevisionsGrow ==
    /\ revisions' \in Seq(Revisions) /\ Len(revisions) \in Nat /\ Len(revisions') \in Nat
    /\ Len(revisions) <= Len(revisions') /\ Len(revisions') <= MaxRevisions
    /\ \A k \in 1..Len(revisions) : /\ revisions'[k].enabled = revisions[k].enabled
                                    /\ revisions'[k].generation = revisions[k].generation

LEMMA GenerationTypes ==
    ASSUME TypeOK, SlotsAreSound
    PROVE  /\ NextGeneration \in 1..(issued + 1)
           /\ Latest \in Credentials /\ Latest.generation <= issued
<1>1. /\ credential["candidate"] \in Credentials /\ credential["active"] \in Credentials
      /\ issued \in Nat
  BY DEF TypeOK
<1>2. /\ credential["candidate"].generation \in Nat /\ credential["active"].generation \in Nat
      /\ credential["candidate"].generation <= issued
      /\ credential["active"].generation <= issued
  BY <1>1 DEF Credentials, SlotsAreSound
<1>3. NextGeneration \in 1..(issued + 1)
  BY <1>1, <1>2 DEF NextGeneration
<1>4. QED
  BY <1>1, <1>2, <1>3 DEF Latest

\* save_draft
SavedDraft(n, on, generation) ==
    /\ n = Len(revisions) + 1 /\ n \in Numbers /\ Len(revisions') = n
    /\ RevisionsGrow
    /\ \A k \in 1..Len(revisions) :
         revisions'[k].status = IF k = config.draft THEN "retired" ELSE revisions[k].status
    /\ revisions'[n] = [status |-> "draft", enabled |-> on, generation |-> generation]
    /\ config' = Row(config.version + 1, config.active, n)

LEMMA SaveDraftEffect ==
    ASSUME TypeOK, SlotsAreSound, RowIsSound, NEW o \in Operators, NEW on \in BOOLEAN,
           NEW entered \in BOOLEAN, SaveDraft(o, on, entered)
    PROVE  \E n, generation \in Nat :
              /\ SavedDraft(n, on, generation) /\ generation <= MaxRevisions
              /\ \/ /\ generation = NextGeneration /\ issued' = issued + 1
                    /\ credential' = [credential EXCEPT !["candidate"] =
                                        [generation |-> generation, secret |-> issued + 1]]
                 \/ generation = Latest.generation /\ UNCHANGED <<credential, issued>>
<1> DEFINE n == Len(revisions) + 1
           generation == IF entered THEN NextGeneration ELSE Latest.generation
           row == [status |-> "draft", enabled |-> on, generation |-> generation]
<1>1. /\ revisions \in Seq(Revisions) /\ Len(revisions) < MaxRevisions
      /\ config.draft \in 0..Len(revisions) /\ Len(revisions) \in Nat
      /\ issued \in Nat /\ issued <= Len(revisions)
  BY DEF TypeOK, RowIsSound, SaveDraft, SlotsAreSound
<1>2. generation \in Nat /\ generation <= MaxRevisions /\ generation \in 0..MaxRevisions
  <2>1. NextGeneration \in 1..(issued + 1) /\ Latest.generation <= issued
        /\ Latest.generation \in Nat
    BY GenerationTypes DEF Credentials
  <2>2. QED
    BY <1>1, <2>1
<1>3. row \in Revisions
  BY <1>2 DEF Revisions
<1>4. revisions' = Append(Retired(config.draft), row)
      /\ config' = Row(config.version + 1, config.active, n)
  BY DEF SaveDraft
<1>5. /\ \/ /\ entered /\ generation = NextGeneration /\ issued' = issued + 1
            /\ credential' = [credential EXCEPT !["candidate"] =
                                [generation |-> generation, secret |-> issued + 1]]
         \/ ~entered /\ generation = Latest.generation /\ UNCHANGED <<credential, issued>>
  BY DEF SaveDraft
<1>6. /\ Retired(config.draft) \in Seq(Revisions) /\ Len(Retired(config.draft)) = Len(revisions)
      /\ \A k \in 1..Len(revisions) :
           /\ Retired(config.draft)[k].status =
                (IF k = config.draft THEN "retired" ELSE revisions[k].status)
           /\ Retired(config.draft)[k].enabled = revisions[k].enabled
           /\ Retired(config.draft)[k].generation = revisions[k].generation
  BY <1>1, RetiredIs
<1> HIDE DEF row, generation
<1>7. /\ revisions' \in Seq(Revisions) /\ Len(revisions') = Len(revisions) + 1
      /\ \A k \in 1..Len(revisions) : revisions'[k] = Retired(config.draft)[k]
      /\ revisions'[Len(revisions) + 1] = row
  BY <1>1, <1>3, <1>4, <1>6
<1>8. RevisionsGrow
  <2>1. Len(revisions') \in Nat /\ Len(revisions) <= Len(revisions')
        /\ Len(revisions') <= MaxRevisions
    BY <1>1, <1>7
  <2>2. \A k \in 1..Len(revisions) : /\ revisions'[k].enabled = revisions[k].enabled
                                     /\ revisions'[k].generation = revisions[k].generation
    BY <1>6, <1>7
  <2>3. QED
    BY <1>1, <1>7, <2>1, <2>2 DEF RevisionsGrow
<1>9. SavedDraft(n, on, generation)
  BY <1>1, <1>4, <1>6, <1>7, <1>8 DEF SavedDraft, Numbers, row
<1>10. QED
  BY <1>1, <1>2, <1>5, <1>9

-----------------------------------------------------------------------------
(* What every operation has in common *)

\* The status that the row gives a revision.
StatusByRow(n, row) == IF n = row.active THEN "active" ELSE IF n = row.draft THEN "draft" ELSE "retired"

\* One transaction of an operator: the row is rewritten under the next version.
Rewritten(active, draft) ==
    /\ config' = Row(config.version + 1, active, draft) /\ config'.version = config.version + 1
    /\ config'.active = active /\ config'.draft = draft /\ config' \in Rows
    /\ RevisionsGrow
    /\ active \in 0..Len(revisions') /\ draft \in 0..Len(revisions')
    /\ draft # None => draft # active
    /\ \A n \in 1..Len(revisions') : revisions'[n].status = StatusByRow(n, config')
    /\ UNCHANGED <<healthy, seen, diagnosis, call>>

LEMMA RowTypes ==
    ASSUME NEW version \in Nat, version < MaxVersion, NEW active \in 0..MaxRevisions,
           NEW draft \in 0..MaxRevisions
    PROVE  /\ Row(version + 1, active, draft) \in Rows
           /\ Row(version + 1, active, draft).version = version + 1
           /\ Row(version + 1, active, draft).active = active
           /\ Row(version + 1, active, draft).draft = draft
BY DEF Row, Rows

\* The parts of the invariant that tell what an operation starts from.
LEMMA RowFacts ==
    ASSUME ProviderInv
    PROVE  /\ revisions \in Seq(Revisions) /\ Len(revisions) \in Nat /\ Len(revisions) <= MaxRevisions
           /\ config \in Rows /\ config.version \in Nat
           /\ config.active \in 0..Len(revisions) /\ config.draft \in 0..Len(revisions)
           /\ config.active \in 0..MaxRevisions /\ config.draft \in 0..MaxRevisions
           /\ config.draft # None => config.draft # config.active
           /\ \A n \in 1..Len(revisions) : revisions[n].status = StatusByRow(n, config)
<1>1. /\ revisions \in Seq(Revisions) /\ Len(revisions) <= MaxRevisions /\ config \in Rows
  BY DEF ProviderInv, TypeOK
<1>2. Len(revisions) \in Nat
  BY <1>1
<1>3. config.version \in Nat /\ config.active \in 0..MaxRevisions /\ config.draft \in 0..MaxRevisions
  BY <1>1 DEF Rows
<1>4. /\ config.active \in 0..Len(revisions) /\ config.draft \in 0..Len(revisions)
      /\ config.draft # None => config.draft # config.active
  BY DEF ProviderInv, RowIsSound
<1>5. \A n \in 1..Len(revisions) : revisions[n].status = StatusByRow(n, config)
  BY <1>3, <1>4 DEF ProviderInv, OneActiveOneDraft, StatusByRow
<1>6. QED
  BY <1>1, <1>2, <1>3, <1>4, <1>5

LEMMA SaveDraftRewrites ==
    ASSUME ProviderInv, NEW o \in Operators, NEW n \in Nat, NEW on \in BOOLEAN,
           NEW entered \in BOOLEAN, NEW generation \in Nat,
           SaveDraft(o, on, entered), SavedDraft(n, on, generation)
    PROVE  Rewritten(config.active, n)
<1>1. UNCHANGED <<healthy, seen, diagnosis, call>> /\ config.version < MaxVersion
  BY DEF SaveDraft, VersionMatches
<1>2. /\ n = Len(revisions) + 1 /\ n \in 0..MaxRevisions /\ Len(revisions') = n /\ RevisionsGrow
      /\ config' = Row(config.version + 1, config.active, n)
      /\ \A k \in 1..Len(revisions) :
           revisions'[k].status = IF k = config.draft THEN "retired" ELSE revisions[k].status
      /\ revisions'[n].status = "draft"
  BY DEF SavedDraft, Numbers
<1>3. /\ config'.version = config.version + 1 /\ config'.active = config.active
      /\ config'.draft = n /\ config' \in Rows
  BY <1>1, <1>2, RowFacts, RowTypes
<1>4. ASSUME NEW k \in 1..Len(revisions') PROVE revisions'[k].status = StatusByRow(k, config')
  <2>1. CASE k = n
    BY <1>2, <1>3, <2>1, RowFacts DEF StatusByRow
  <2>2. CASE k # n
    <3>1. k \in 1..Len(revisions)
      BY <1>2, <2>2, RowFacts
    <3>2. revisions[k].status = StatusByRow(k, config)
      BY <3>1, RowFacts
    <3>3. QED
      BY <1>2, <1>3, <2>2, <3>1, <3>2, RowFacts DEF StatusByRow
  <2>3. QED
    BY <2>1, <2>2
<1>5. QED
  BY <1>1, <1>2, <1>3, <1>4, RowFacts DEF Rewritten

LEMMA DiscardDraftRewrites ==
    ASSUME ProviderInv, NEW o \in Operators, DiscardDraft(o)
    PROVE  Rewritten(config.active, None) /\ Len(revisions') = Len(revisions)
<1>1. /\ UNCHANGED <<healthy, seen, diagnosis, call>> /\ config.version < MaxVersion
      /\ revisions' = Retired(config.draft)
      /\ config' = Row(config.version + 1, config.active, None)
  BY DEF DiscardDraft, VersionMatches
<1>2. /\ config'.version = config.version + 1 /\ config'.active = config.active
      /\ config'.draft = None /\ config' \in Rows
  BY <1>1, RowFacts, RowTypes
<1>3. /\ revisions' \in Seq(Revisions) /\ Len(revisions') = Len(revisions)
      /\ \A k \in 1..Len(revisions) :
           /\ revisions'[k].status = (IF k = config.draft THEN "retired" ELSE revisions[k].status)
           /\ revisions'[k].enabled = revisions[k].enabled
           /\ revisions'[k].generation = revisions[k].generation
  BY <1>1, RowFacts, RetiredIs
<1>4. RevisionsGrow
  BY <1>3, RowFacts DEF RevisionsGrow
<1>5. ASSUME NEW k \in 1..Len(revisions') PROVE revisions'[k].status = StatusByRow(k, config')
  <2>1. revisions[k].status = StatusByRow(k, config)
    BY <1>3, RowFacts
  <2>2. QED
    BY <1>2, <1>3, <2>1, RowFacts DEF StatusByRow
<1>6. QED
  BY <1>1, <1>2, <1>3, <1>4, <1>5, RowFacts DEF Rewritten

LEMMA PublishRewrites ==
    ASSUME ProviderInv, NEW o \in Operators, Publish(o)
    PROVE  Rewritten(config.draft, None) /\ Len(revisions') = Len(revisions)
<1>1. /\ UNCHANGED <<healthy, seen, diagnosis, call>> /\ config.version < MaxVersion
      /\ config.draft # None
      /\ revisions' = [Retired(config.active) EXCEPT ![config.draft].status = "active"]
      /\ config' = Row(config.version + 1, config.draft, None)
  BY DEF Publish, VersionMatches
<1>2. /\ config'.version = config.version + 1 /\ config'.active = config.draft
      /\ config'.draft = None /\ config' \in Rows
  BY <1>1, RowFacts, RowTypes
<1> DEFINE n == config.draft
           before == Retired(config.active)
<1>3. /\ before \in Seq(Revisions) /\ Len(before) = Len(revisions)
      /\ \A k \in 1..Len(revisions) :
           /\ before[k].status = (IF k = config.active THEN "retired" ELSE revisions[k].status)
           /\ before[k].enabled = revisions[k].enabled
           /\ before[k].generation = revisions[k].generation
  BY RowFacts, RetiredIs
<1>4. n \in 1..Len(revisions)
  BY <1>1, RowFacts
<1> HIDE DEF before
<1>5. PICK row : row = [before[n] EXCEPT !.status = "active"]
  OBVIOUS
<1>6. /\ row \in Revisions /\ row.status = "active" /\ row.enabled = before[n].enabled
      /\ row.generation = before[n].generation
  <2>1. before[n] \in Revisions
    BY <1>3, <1>4
  <2>2. QED
    BY <1>5, <2>1 DEF Revisions
<1>7. revisions' = [before EXCEPT ![n] = row]
  BY <1>1, <1>5 DEF before
<1>8. /\ revisions' \in Seq(Revisions) /\ Len(revisions') = Len(revisions)
      /\ \A k \in 1..Len(revisions) : revisions'[k] = IF k = n THEN row ELSE before[k]
  BY <1>3, <1>4, <1>6, <1>7
<1>9. RevisionsGrow
  <2>1. \A k \in 1..Len(revisions) : /\ revisions'[k].enabled = revisions[k].enabled
                                     /\ revisions'[k].generation = revisions[k].generation
    BY <1>3, <1>6, <1>8
  <2>2. QED
    BY <1>8, <2>1, RowFacts DEF RevisionsGrow
<1>10. ASSUME NEW k \in 1..Len(revisions') PROVE revisions'[k].status = StatusByRow(k, config')
  <2>1. revisions[k].status = StatusByRow(k, config)
    BY <1>8, RowFacts
  <2>2. QED
    BY <1>2, <1>3, <1>6, <1>8, <2>1, RowFacts DEF StatusByRow
<1>11. QED
  BY <1>1, <1>2, <1>4, <1>8, <1>9, <1>10, RowFacts DEF Rewritten

LEMMA RemoveCredentialsRewrites ==
    ASSUME ProviderInv, NEW o \in Operators, RemoveCredentials(o)
    PROVE  Rewritten(config.active, config.draft) /\ revisions' = revisions
<1>1. /\ UNCHANGED <<healthy, seen, diagnosis, call>> /\ config.version < MaxVersion
      /\ revisions' = revisions
      /\ config' = Row(config.version + 1, config.active, config.draft)
  BY DEF RemoveCredentials, VersionMatches
<1>2. /\ config'.version = config.version + 1 /\ config'.active = config.active
      /\ config'.draft = config.draft /\ config' \in Rows
  BY <1>1, RowFacts, RowTypes
<1>3. RevisionsGrow
  BY <1>1, RowFacts DEF RevisionsGrow
<1>4. \A k \in 1..Len(revisions') : revisions'[k].status = StatusByRow(k, config')
  BY <1>1, <1>2, RowFacts DEF StatusByRow
<1>5. QED
  BY <1>1, <1>2, <1>3, <1>4, RowFacts DEF Rewritten

\* The credential in a slot that is full bears a generation and a secret; those there are
\* have been entered.
SlotIsSound(c, bound) ==
    /\ c \in Credentials /\ c.generation <= bound /\ c.secret <= bound
    /\ c # NoCredential => c.generation # None /\ c.secret # None

LEMMA SlotFacts ==
    ASSUME ProviderInv
    PROVE  /\ issued \in Nat /\ issued <= Len(revisions)
           /\ SlotIsSound(credential["candidate"], issued) /\ SlotIsSound(credential["active"], issued)
           /\ SlotIsSound(Latest, issued)
           /\ credential \in [{"candidate", "active"} -> Credentials]
<1>1. /\ issued \in Nat /\ issued <= Len(revisions)
      /\ credential \in [{"candidate", "active"} -> Credentials]
  BY DEF ProviderInv, TypeOK, SlotsAreSound
<1>2. \A slot \in {"candidate", "active"} : SlotIsSound(credential[slot], issued)
  BY <1>1 DEF ProviderInv, SlotsAreSound, SlotIsSound
<1>3. QED
  BY <1>1, <1>2 DEF Latest

LEMMA EmptySlot == ASSUME NEW bound \in Nat PROVE SlotIsSound(NoCredential, bound)
BY DEF SlotIsSound, NoCredential, Credentials

LEMMA NewCredential ==
    ASSUME NEW generation \in Nat, generation # 0, NEW bound \in Nat, generation <= bound,
           bound <= MaxRevisions, bound # 0
    PROVE  /\ SlotIsSound([generation |-> generation, secret |-> bound], bound)
           /\ [generation |-> generation, secret |-> bound] # NoCredential
BY DEF SlotIsSound, NoCredential, Credentials

\* What two slots are after an operation, of which each is sound.
LEMMA SlotsAfter ==
    ASSUME NEW drafted, NEW active, issued' \in Nat, issued' <= Len(revisions'),
           Len(revisions') \in Nat, Len(revisions') <= MaxRevisions,
           SlotIsSound(drafted, issued'), SlotIsSound(active, issued'),
           credential' = [slot \in {"candidate", "active"} |->
                             IF slot = "candidate" THEN drafted ELSE active]
    PROVE  /\ SlotsAreSound' /\ credential' \in [{"candidate", "active"} -> Credentials]
           /\ issued' \in 0..MaxRevisions
<1>1. credential'["candidate"] = drafted /\ credential'["active"] = active
  OBVIOUS
<1>2. QED
  BY <1>1 DEF SlotsAreSound, SlotIsSound

\* The slots are sound after an operation.
SlotsKept ==
    /\ SlotsAreSound' /\ credential' \in [{"candidate", "active"} -> Credentials]
    /\ issued' \in 0..MaxRevisions

LEMMA SaveDraftSlots ==
    ASSUME ProviderInv, NEW n \in Nat, NEW generation \in Nat, NEW on \in BOOLEAN,
           SavedDraft(n, on, generation), generation = NextGeneration, issued' = issued + 1,
           credential' = [credential EXCEPT !["candidate"] =
                             [generation |-> generation, secret |-> issued + 1]]
    PROVE  /\ SlotsKept /\ credential'["active"] = credential["active"]
           /\ credential'["candidate"] # NoCredential
           /\ credential'["candidate"].generation = generation
<1> DEFINE entered == [generation |-> generation, secret |-> issued + 1]
<1>1. /\ Len(revisions') = Len(revisions) + 1 /\ Len(revisions') <= MaxRevisions
      /\ Len(revisions) \in Nat /\ Len(revisions') \in Nat
  BY RowFacts DEF SavedDraft, RevisionsGrow
<1>2. /\ issued' \in Nat /\ issued' <= Len(revisions') /\ issued' # 0 /\ issued' <= MaxRevisions
      /\ issued < issued'
  BY <1>1, SlotFacts
<1>3. generation # 0 /\ generation <= issued'
  BY <1>2, GenerationTypes, SlotFacts DEF ProviderInv
<1>4. SlotIsSound(entered, issued') /\ entered # NoCredential
  BY <1>2, <1>3, NewCredential
<1>5. entered.generation = generation
  OBVIOUS
<1> HIDE DEF entered
<1>6. SlotIsSound(credential["active"], issued')
  BY <1>2, SlotFacts DEF SlotIsSound, Credentials
<1>7. credential' = [slot \in {"candidate", "active"} |->
                        IF slot = "candidate" THEN entered ELSE credential["active"]]
  BY SlotFacts DEF entered
<1>8. SlotsKept
  BY <1>1, <1>2, <1>4, <1>6, <1>7, SlotsAfter DEF SlotsKept
<1>9. QED
  BY <1>4, <1>5, <1>7, <1>8

LEMMA OtherSlots ==
    ASSUME ProviderInv, RevisionsGrow, issued' = issued,
           \/ UNCHANGED credential
           \/ credential' = [credential EXCEPT !["candidate"] = NoCredential]
           \/ credential' = [credential EXCEPT !["active"] = credential["candidate"],
                                               !["candidate"] = NoCredential]
           \/ credential' = [slot \in {"candidate", "active"} |-> NoCredential]
    PROVE  SlotsKept
<1>1. /\ issued' \in Nat /\ issued' <= Len(revisions') /\ Len(revisions') \in Nat
      /\ Len(revisions') <= MaxRevisions
  BY SlotFacts DEF RevisionsGrow
<1>2. SlotIsSound(NoCredential, issued')
  BY <1>1, EmptySlot
<1>3. PICK drafted \in {credential["candidate"], NoCredential},
           active \in {credential["active"], credential["candidate"], NoCredential} :
        credential' = [slot \in {"candidate", "active"} |->
                          IF slot = "candidate" THEN drafted ELSE active]
  BY SlotFacts
<1>4. SlotIsSound(drafted, issued') /\ SlotIsSound(active, issued')
  BY <1>2, <1>3, SlotFacts
<1>5. QED
  BY <1>1, <1>3, <1>4, SlotsAfter DEF SlotsKept

\* What a transaction leaves of what has been read and diagnosed.
LEMMA RewrittenKeeps ==
    ASSUME ProviderInv, NEW active, NEW draft, Rewritten(active, draft), SlotsKept
    PROVE  /\ TypeOK' /\ SlotsAreSound' /\ RowIsSound' /\ OneActiveOneDraft'
           /\ SeenIsOlder' /\ CallsAreOlder' /\ DiagnosedExist'
<1>1. /\ config'.version = config.version + 1 /\ config.version \in Nat /\ config' \in Rows
      /\ UNCHANGED <<healthy, seen, diagnosis, call>> /\ RevisionsGrow
      /\ config'.active = active /\ config'.draft = draft
  BY RowFacts DEF Rewritten
<1>2. TypeOK'
  BY <1>1 DEF ProviderInv, TypeOK, SlotsKept, RevisionsGrow
<1>3. RowIsSound' /\ SlotsAreSound'
  BY <1>1 DEF Rewritten, RowIsSound, SlotsKept
<1>4. OneActiveOneDraft'
  BY <1>1 DEF Rewritten, OneActiveOneDraft, StatusByRow
<1>5. SeenIsOlder'
  <2>1. ASSUME NEW o \in Operators PROVE seen'[o].version <= config.version /\ seen'[o].version \in Nat
    BY <1>1 DEF ProviderInv, SeenIsOlder, TypeOK, Rows
  <2>2. QED
    BY <1>1, <2>1 DEF SeenIsOlder
<1>6. CallsAreOlder'
  <2>1. ASSUME NEW c \in Callers, call'[c].at # "idle"
        PROVE  /\ call'[c].version <= config.version /\ call'[c].version \in Nat
               /\ call'[c].active \in 1..Len(revisions')
    <3>1. call[c] \in Calls
      BY DEF ProviderInv, TypeOK
    <3>2. call[c].version <= config.version /\ call[c].active \in 1..Len(revisions)
      BY <1>1, <2>1 DEF ProviderInv, CallsAreOlder
    <3>3. QED
      BY <1>1, <3>1, <3>2 DEF Calls, RevisionsGrow
  <2>2. QED
    BY <1>1, <2>1 DEF CallsAreOlder
<1>7. DiagnosedExist'
  BY <1>1 DEF ProviderInv, DiagnosedExist, RevisionsGrow
<1>8. QED
  BY <1>2, <1>3, <1>4, <1>5, <1>6, <1>7

\* What is in force stays proven where neither it nor its credential is touched.
LEMMA EnabledStays ==
    ASSUME ProviderInv, RevisionsGrow, config'.active = config.active,
           credential'["active"] = credential["active"], UNCHANGED healthy
    PROVE  EnabledIsProven'
<1>1. ASSUME config.active # None PROVE config.active \in 1..Len(revisions)
  BY <1>1, RowFacts
<1>2. config.active # None => /\ revisions'[config.active].enabled = revisions[config.active].enabled
                              /\ revisions'[config.active].generation = revisions[config.active].generation
  BY <1>1 DEF RevisionsGrow
<1>3. QED
  BY <1>2 DEF ProviderInv, EnabledIsProven, Proven

LEMMA SaveDraftStep ==
    ASSUME ProviderInv, NEW o \in Operators, NEW on \in BOOLEAN, NEW entered \in BOOLEAN,
           SaveDraft(o, on, entered)
    PROVE  ProviderInv'
<1>1. PICK n \in Nat, generation \in Nat :
        /\ SavedDraft(n, on, generation) /\ generation <= MaxRevisions
        /\ \/ /\ generation = NextGeneration /\ issued' = issued + 1
              /\ credential' = [credential EXCEPT !["candidate"] =
                                  [generation |-> generation, secret |-> issued + 1]]
           \/ generation = Latest.generation /\ UNCHANGED <<credential, issued>>
  BY SaveDraftEffect DEF ProviderInv
<1>2. Rewritten(config.active, n) /\ RevisionsGrow
  BY <1>1, SaveDraftRewrites DEF Rewritten
<1>3. /\ SlotsKept /\ credential'["active"] = credential["active"]
      /\ credential'["candidate"] # NoCredential \/ credential'["active"] # NoCredential =>
           Latest'.generation = generation
  <2>1. CASE UNCHANGED <<credential, issued>> /\ generation = Latest.generation
    BY <1>2, <2>1, OtherSlots DEF Latest, Last
  <2>2. CASE ~UNCHANGED <<credential, issued>> \/ generation # Latest.generation
    BY <1>1, <2>2, SaveDraftSlots DEF Latest, Last
  <2>3. QED
    BY <2>1, <2>2
<1>4. n = Len(revisions) + 1 /\ revisions'[n].generation = generation /\ config'.draft = n
      /\ config'.active = config.active /\ UNCHANGED <<healthy, diagnosis>>
  BY <1>1, <1>2 DEF SavedDraft, Rewritten
<1>5. DraftHasItsSecret'
  <2>1. \A d \in healthy : d.revision # n
    BY <1>4, RowFacts DEF ProviderInv, DiagnosedExist
  <2>2. \A p \in Diagnosers : diagnosis[p].at # "idle" => diagnosis[p].draft # n
    BY <1>4, RowFacts DEF ProviderInv, DiagnosedExist
  <2>3. QED
    BY <1>3, <1>4, <2>1, <2>2 DEF DraftHasItsSecret, Last
<1>6. EnabledIsProven'
  BY <1>2, <1>3, <1>4, EnabledStays
<1>7. QED
  BY <1>2, <1>3, <1>5, <1>6, RewrittenKeeps DEF ProviderInv

LEMMA DiscardDraftStep ==
    ASSUME ProviderInv, NEW o \in Operators, DiscardDraft(o)
    PROVE  ProviderInv'
<1>1. Rewritten(config.active, None) /\ RevisionsGrow
  BY DiscardDraftRewrites DEF Rewritten
<1>2. issued' = issued /\ credential' = [credential EXCEPT !["candidate"] = NoCredential]
  BY DEF DiscardDraft
<1>3. SlotsKept
  BY <1>1, <1>2, OtherSlots
<1>4. credential'["active"] = credential["active"]
  BY <1>2, SlotFacts
<1>5. config'.draft = None /\ config'.active = config.active /\ UNCHANGED healthy
  BY <1>1 DEF Rewritten
<1>6. DraftHasItsSecret' /\ EnabledIsProven'
  BY <1>1, <1>4, <1>5, EnabledStays DEF DraftHasItsSecret
<1>7. QED
  BY <1>1, <1>3, <1>6, RewrittenKeeps DEF ProviderInv

LEMMA PublishStep ==
    ASSUME ProviderInv, NEW o \in Operators, Publish(o)
    PROVE  ProviderInv'
<1>1. Rewritten(config.draft, None) /\ RevisionsGrow
  BY PublishRewrites DEF Rewritten
<1>2. issued' = issued /\ credential' = Promoted(config.draft) /\ config.draft # None
      /\ Publishable(config.draft)
  BY DEF Publish
<1>3. SlotsKept
  BY <1>1, <1>2, OtherSlots DEF Promoted
<1>4. Last("candidate") \/ Last("active") => credential'["active"] = Latest /\ Latest # NoCredential
  BY <1>2, SlotFacts DEF Promoted, Latest, Last
<1>5. config'.draft = None /\ config'.active = config.draft /\ UNCHANGED healthy
  BY <1>1 DEF Rewritten
<1>6. config.draft \in 1..Len(revisions)
  BY <1>2, RowFacts
<1>7. /\ revisions'[config.draft].enabled = revisions[config.draft].enabled
      /\ revisions'[config.draft].generation = revisions[config.draft].generation
  BY <1>1, <1>6 DEF RevisionsGrow
<1>8. ASSUME revisions[config.draft].enabled
      PROVE  /\ credential'["active"].generation = revisions[config.draft].generation
             /\ credential'["active"] # NoCredential
             /\ \E d \in healthy : d.revision = config.draft /\ d.secret = credential'["active"].secret
  <2>1. Last("candidate") \/ Last("active")
    BY <1>2, <1>8 DEF Publishable
  <2>2. PICK d \in healthy : d.revision = config.draft
    BY <1>2, <1>8 DEF Publishable, RecentlyDiagnosed
  <2>3. Latest.generation = revisions[config.draft].generation /\ d.secret = Latest.secret
    BY <1>2, <2>1, <2>2 DEF ProviderInv, DraftHasItsSecret
  <2>4. QED
    BY <1>4, <2>1, <2>2, <2>3
<1>9. EnabledIsProven'
  BY <1>5, <1>7, <1>8 DEF EnabledIsProven, Proven
<1>10. DraftHasItsSecret'
  BY <1>5 DEF DraftHasItsSecret
<1>11. QED
  BY <1>1, <1>3, <1>9, <1>10, RewrittenKeeps DEF ProviderInv

LEMMA RemoveCredentialsStep ==
    ASSUME ProviderInv, NEW o \in Operators, RemoveCredentials(o)
    PROVE  ProviderInv'
<1>1. Rewritten(config.active, config.draft) /\ RevisionsGrow /\ revisions' = revisions
  BY RemoveCredentialsRewrites DEF Rewritten
<1>2. /\ issued' = issued /\ Removable
      /\ credential' = [slot \in {"candidate", "active"} |-> NoCredential]
  BY DEF RemoveCredentials
<1>3. SlotsKept
  BY <1>1, <1>2, OtherSlots
<1>4. config'.active = config.active
  BY <1>1 DEF Rewritten
<1>5. DraftHasItsSecret' /\ EnabledIsProven'
  BY <1>1, <1>2, <1>4 DEF DraftHasItsSecret, EnabledIsProven, Last, Removable
<1>6. QED
  BY <1>1, <1>3, <1>5, RewrittenKeeps DEF ProviderInv

-----------------------------------------------------------------------------
(* Reading, diagnosing, looking up: the row and the credentials stay *)

Quiet == UNCHANGED <<config, revisions, credential, issued>>

LEMMA QuietKeeps ==
    ASSUME ProviderInv, Quiet
    PROVE  SlotsAreSound' /\ RowIsSound' /\ OneActiveOneDraft'
BY DEF ProviderInv, Quiet, SlotsAreSound, RowIsSound, OneActiveOneDraft

LEMMA ViewStep ==
    ASSUME ProviderInv, NEW o \in Operators, View(o)
    PROVE  ProviderInv'
<1>1. Quiet /\ UNCHANGED <<healthy, diagnosis, call>> /\ seen' = [seen EXCEPT ![o] = config]
  BY DEF View, Quiet
<1>2. config \in Rows /\ seen \in [Operators -> Rows] /\ config.version \in Nat
  BY RowFacts DEF ProviderInv, TypeOK
<1>3. TypeOK'
  BY <1>1, <1>2 DEF ProviderInv, TypeOK, Quiet
<1>4. SeenIsOlder'
  BY <1>1, <1>2 DEF ProviderInv, SeenIsOlder, Quiet
<1>5. CallsAreOlder' /\ DiagnosedExist' /\ DraftHasItsSecret' /\ EnabledIsProven'
  BY <1>1 DEF ProviderInv, CallsAreOlder, DiagnosedExist, DraftHasItsSecret, EnabledIsProven,
              Quiet, Latest, Last, Proven
<1>6. QED
  BY <1>1, <1>3, <1>4, <1>5, QuietKeeps DEF ProviderInv

\* A lookup is idle, or at the row there is now, or further along.
LEMMA LookupStep ==
    ASSUME ProviderInv, NEW c \in Callers, Lookup(c)
    PROVE  ProviderInv'
<1>1. Quiet /\ UNCHANGED <<healthy, seen, diagnosis>>
  BY DEF Lookup, SeeRow, Answer, Used, Quiet
<1>2. PICK row :
        /\ call' = [call EXCEPT ![c] = row] /\ row \in Calls
        /\ row.at # "idle" =>
             /\ row.version <= config.version /\ row.active \in 1..Len(revisions)
             /\ row.version = config.version =>
                  /\ row.active = config.active
                  /\ row.at = "answered" => row.got = credential["active"]
  <2>1. CASE SeeRow(c)
    <3> DEFINE row == [at |-> "row", version |-> config.version, active |-> config.active,
                       got |-> NoCredential]
    <3>1. row \in Calls /\ row.version = config.version /\ row.active = config.active
          /\ row.at = "row"
      <4>1. config.version \in 0..MaxVersion /\ config.active \in 0..MaxRevisions
        BY RowFacts DEF Rows
      <4>2. NoCredential \in Credentials
        BY DEF NoCredential, Credentials
      <4>3. QED
        BY <4>1, <4>2 DEF Calls
    <3>2. config.active \in 1..Len(revisions) /\ config.version \in Nat
      BY <2>1, RowFacts DEF SeeRow
    <3>3. call' = [call EXCEPT ![c] = row]
      BY <2>1 DEF SeeRow
    <3> HIDE DEF row
    <3>4. /\ row.version <= config.version /\ row.active \in 1..Len(revisions)
          /\ row.at # "answered"
      BY <3>1, <3>2
    <3>5. WITNESS row
    <3>6. QED
      BY <3>1, <3>3, <3>4
  <2>2. CASE Answer(c)
    <3>1. /\ call[c] \in Calls /\ call[c].at = "row" /\ call[c].version <= config.version
          /\ call[c].active \in 1..Len(revisions)
          /\ call[c].version = config.version => call[c].active = config.active
      BY <2>2 DEF Answer, ProviderInv, TypeOK, CallsAreOlder
    <3>2. credential["active"] \in Credentials
      BY SlotFacts DEF SlotIsSound
    <3>3. PICK row : row = [call[c] EXCEPT !.at = "answered", !.got = credential["active"]]
      OBVIOUS
    <3>4. /\ row \in Calls /\ row.version = call[c].version /\ row.active = call[c].active
          /\ row.got = credential["active"]
      BY <3>1, <3>2, <3>3 DEF Calls
    <3>5. call' = [call EXCEPT ![c] = row]
      BY <2>2, <3>3 DEF Answer
    <3>6. QED
      BY <3>1, <3>4, <3>5
  <2>3. CASE Used(c)
    <3>1. NoCall \in Calls /\ NoCall.at = "idle"
      BY DEF NoCall, Calls, NoCredential, Credentials
    <3>2. QED
      BY <2>3, <3>1 DEF Used
  <2>4. QED
    BY <2>1, <2>2, <2>3 DEF Lookup
<1>3. TypeOK'
  BY <1>1, <1>2 DEF ProviderInv, TypeOK, Quiet
<1>4. CallsAreOlder'
  BY <1>1, <1>2 DEF ProviderInv, CallsAreOlder, TypeOK, Quiet
<1>5. SeenIsOlder' /\ DiagnosedExist' /\ DraftHasItsSecret' /\ EnabledIsProven'
  BY <1>1 DEF ProviderInv, SeenIsOlder, DiagnosedExist, DraftHasItsSecret, EnabledIsProven,
              Quiet, Latest, Last, Proven
<1>6. QED
  BY <1>1, <1>3, <1>4, <1>5, QuietKeeps DEF ProviderInv

\* What a diagnosis has seen of the credentials of the draft that is still the draft.
SawTheSecret(row) ==
    config.draft # None /\ (Last("candidate") \/ Last("active")) /\ row.draft = config.draft =>
        /\ row.at = "candidate" => row.secret = credential["candidate"].secret
        /\ row.at = "probing" => row.secret = Latest.secret

\* One diagnosis moves on and nothing is recorded.
LEMMA DiagnosisMoves ==
    ASSUME ProviderInv, Quiet, UNCHANGED <<healthy, seen, call>>, NEW p \in Diagnosers,
           NEW row \in Diagnoses, diagnosis' = [diagnosis EXCEPT ![p] = row],
           row.at # "idle" => row.draft \in 1..Len(revisions) /\ SawTheSecret(row)
    PROVE  ProviderInv'
<1>1. TypeOK'
  BY DEF ProviderInv, TypeOK, Quiet
<1>2. diagnosis \in [Diagnosers -> Diagnoses]
  BY DEF ProviderInv, TypeOK
<1>3. DiagnosedExist'
  BY <1>2 DEF ProviderInv, DiagnosedExist, Quiet
<1>4. DraftHasItsSecret'
  <2> SUFFICES ASSUME config.draft # None, Last("candidate") \/ Last("active")
               PROVE  /\ Latest.generation = revisions[config.draft].generation
                      /\ \A d \in healthy : d.revision = config.draft => d.secret = Latest.secret
                      /\ \A q \in Diagnosers :
                           diagnosis'[q].at # "idle" /\ diagnosis'[q].draft = config.draft =>
                             /\ diagnosis'[q].at = "candidate" =>
                                  diagnosis'[q].secret = credential["candidate"].secret
                             /\ diagnosis'[q].at = "probing" => diagnosis'[q].secret = Latest.secret
    BY DEF DraftHasItsSecret, Quiet, Latest, Last
  <2>1. ASSUME NEW q \in Diagnosers, diagnosis'[q].at # "idle",
               diagnosis'[q].draft = config.draft
        PROVE  /\ diagnosis'[q].at = "candidate" =>
                    diagnosis'[q].secret = credential["candidate"].secret
               /\ diagnosis'[q].at = "probing" => diagnosis'[q].secret = Latest.secret
    <3>1. CASE q = p
      BY <1>2, <2>1, <3>1 DEF SawTheSecret
    <3>2. CASE q # p
      BY <1>2, <2>1, <3>2 DEF ProviderInv, DraftHasItsSecret
    <3>3. QED
      BY <3>1, <3>2
  <2>2. QED
    BY <2>1 DEF ProviderInv, DraftHasItsSecret
<1>5. SeenIsOlder' /\ CallsAreOlder' /\ EnabledIsProven'
  BY DEF ProviderInv, SeenIsOlder, CallsAreOlder, EnabledIsProven, Quiet, Proven
<1>6. QED
  BY <1>1, <1>3, <1>4, <1>5, QuietKeeps DEF ProviderInv

LEMMA DiagnosisFacts ==
    ASSUME ProviderInv, NEW p \in Diagnosers
    PROVE  /\ diagnosis[p] \in Diagnoses
           /\ diagnosis[p].at # "idle" =>
                diagnosis[p].draft \in 1..Len(revisions) /\ SawTheSecret(diagnosis[p])
BY DEF ProviderInv, TypeOK, DiagnosedExist, DraftHasItsSecret, SawTheSecret

LEMMA DiagnoseStep ==
    ASSUME ProviderInv, NEW p \in Diagnosers, Diagnose(p)
    PROVE  ProviderInv'
<1> DEFINE row == [at |-> "draft", draft |-> config.draft, bootstrap |-> config.active = None,
                   secret |-> None]
<1>1. /\ Quiet /\ UNCHANGED <<healthy, seen, call>>
      /\ diagnosis' = [diagnosis EXCEPT ![p] = row] /\ config.draft # None
  BY DEF Diagnose, Quiet
<1>2. row \in Diagnoses
  BY RowFacts DEF Diagnoses, Secrets
<1>3. row.at = "draft" /\ row.draft = config.draft
  OBVIOUS
<1>4. row.draft \in 1..Len(revisions)
  BY <1>1, <1>3, RowFacts
<1> HIDE DEF row
<1>5. SawTheSecret(row)
  BY <1>3 DEF SawTheSecret
<1>6. QED
  BY <1>1, <1>2, <1>4, <1>5, DiagnosisMoves

\* What one more read makes of a diagnosis.
Sees(row, at, secret) == [row EXCEPT !.at = at, !.secret = secret]

LEMMA SeesTypes ==
    ASSUME NEW row \in Diagnoses, NEW at \in {"candidate", "probing"}, NEW secret \in Secrets
    PROVE  /\ Sees(row, at, secret) \in Diagnoses /\ Sees(row, at, secret).at = at
           /\ Sees(row, at, secret).secret = secret /\ Sees(row, at, secret).draft = row.draft
BY DEF Sees, Diagnoses

LEMMA SecretOfSlot ==
    ASSUME NEW c, NEW bound \in Nat, bound <= MaxRevisions, SlotIsSound(c, bound)
    PROVE  c.secret \in Secrets /\ (c.secret = None <=> c = NoCredential)
BY DEF SlotIsSound, Credentials, Secrets, NoCredential, Numbers

LEMMA SeeCandidateStep ==
    ASSUME ProviderInv, NEW p \in Diagnosers, SeeCandidate(p)
    PROVE  ProviderInv'
<1> DEFINE secret == credential["candidate"].secret
<1>1. /\ Quiet /\ UNCHANGED <<healthy, seen, call>> /\ diagnosis[p].at = "draft"
      /\ diagnosis' = [diagnosis EXCEPT ![p] = Sees(diagnosis[p], "candidate", secret)]
  BY DEF SeeCandidate, Quiet, Sees
<1>2. secret \in Secrets
  BY SlotFacts, RowFacts, SecretOfSlot
<1>3. PICK row \in Diagnoses : /\ row = Sees(diagnosis[p], "candidate", secret)
                               /\ row.at = "candidate" /\ row.secret = secret
                               /\ row.draft = diagnosis[p].draft
  BY <1>2, DiagnosisFacts, SeesTypes
<1>4. row.draft \in 1..Len(revisions) /\ SawTheSecret(row)
  BY <1>1, <1>3, DiagnosisFacts DEF SawTheSecret
<1>5. QED
  BY <1>1, <1>3, <1>4, DiagnosisMoves

LEMMA SeeActiveStep ==
    ASSUME ProviderInv, NEW p \in Diagnosers, SeeActive(p)
    PROVE  ProviderInv'
<1> DEFINE secret == IF diagnosis[p].secret # None THEN diagnosis[p].secret
                     ELSE IF Last("active") THEN credential["active"].secret
                     ELSE IF diagnosis[p].bootstrap /\ EnvironmentHasKey THEN Environment ELSE None
<1>1. /\ Quiet /\ UNCHANGED <<healthy, seen, call>> /\ diagnosis[p].at = "candidate"
      /\ diagnosis' = [diagnosis EXCEPT ![p] = Sees(diagnosis[p], "probing", secret)]
  BY DEF SeeActive, Quiet, Sees
<1>2. /\ credential["active"].secret \in Secrets
      /\ credential["candidate"].secret = None <=> credential["candidate"] = NoCredential
  BY SlotFacts, RowFacts, SecretOfSlot
<1>3. secret \in Secrets
  BY <1>2, DiagnosisFacts DEF Secrets, Diagnoses, Environment
<1>4. ASSUME Last("candidate") \/ Last("active"),
             diagnosis[p].secret = credential["candidate"].secret
      PROVE  secret = Latest.secret
  BY <1>2, <1>4 DEF Latest, Last
<1> HIDE DEF secret
<1>5. PICK row \in Diagnoses : /\ row = Sees(diagnosis[p], "probing", secret)
                               /\ row.at = "probing" /\ row.secret = secret
                               /\ row.draft = diagnosis[p].draft
  BY <1>3, DiagnosisFacts, SeesTypes
<1>6. row.draft \in 1..Len(revisions) /\ SawTheSecret(row)
  BY <1>1, <1>4, <1>5, DiagnosisFacts DEF SawTheSecret
<1>7. QED
  BY <1>1, <1>5, <1>6, DiagnosisMoves

LEMMA DiagnosedUnavailableStep ==
    ASSUME ProviderInv, NEW p \in Diagnosers, DiagnosedUnavailable(p)
    PROVE  ProviderInv'
<1>1. /\ Quiet /\ UNCHANGED <<healthy, seen, call>>
      /\ diagnosis' = [diagnosis EXCEPT ![p] = NoDiagnosis]
  BY DEF DiagnosedUnavailable, Quiet
<1>2. NoDiagnosis \in Diagnoses /\ NoDiagnosis.at = "idle"
  BY DEF NoDiagnosis, Diagnoses, Secrets
<1>3. QED
  BY <1>1, <1>2, DiagnosisMoves

\* What is proven stays so, and what becomes proven is of a revision that there is and, if it
\* is the draft, with its secret.
LEMMA HealthyGrows ==
    ASSUME ProviderInv, Quiet, UNCHANGED <<seen, call>>, healthy' \subseteq Diagnostics,
           \A d \in healthy : \E e \in healthy' : e.revision = d.revision /\ e.secret = d.secret,
           \A d \in healthy' :
              /\ d.revision \in 1..Len(revisions) /\ d.generation = revisions[d.revision].generation
              /\ config.draft # None /\ (Last("candidate") \/ Last("active")) =>
                   (d.revision = config.draft => d.secret = Latest.secret),
           \A p \in Diagnosers : diagnosis'[p] = diagnosis[p] \/ diagnosis'[p] = NoDiagnosis,
           diagnosis' \in [Diagnosers -> Diagnoses]
    PROVE  ProviderInv'
<1>1. TypeOK'
  BY DEF ProviderInv, TypeOK, Quiet
<1>2. NoDiagnosis.at = "idle"
  BY DEF NoDiagnosis
<1>3. DiagnosedExist'
  BY <1>2 DEF ProviderInv, DiagnosedExist, Quiet
<1>4. DraftHasItsSecret'
  BY <1>2 DEF ProviderInv, DraftHasItsSecret, Quiet, Latest, Last
<1>5. EnabledIsProven'
  BY DEF ProviderInv, EnabledIsProven, Quiet, Proven
<1>6. SeenIsOlder' /\ CallsAreOlder'
  BY DEF ProviderInv, SeenIsOlder, CallsAreOlder, Quiet
<1>7. QED
  BY <1>1, <1>3, <1>4, <1>5, <1>6, QuietKeeps DEF ProviderInv

LEMMA DiagnosedHealthyStep ==
    ASSUME ProviderInv, NEW p \in Diagnosers, DiagnosedHealthy(p)
    PROVE  ProviderInv'
<1> DEFINE n == diagnosis[p].draft
           new == [revision |-> n, generation |-> revisions[n].generation,
                   secret |-> diagnosis[p].secret, recent |-> TRUE]
<1>1. /\ Quiet /\ UNCHANGED <<seen, call>> /\ diagnosis[p].at = "probing" /\ Testable(p)
      /\ healthy' = healthy \cup {new} /\ diagnosis' = [diagnosis EXCEPT ![p] = NoDiagnosis]
  BY DEF DiagnosedHealthy, Quiet
<1>2. n \in 1..Len(revisions) /\ SawTheSecret(diagnosis[p]) /\ diagnosis[p] \in Diagnoses
  BY <1>1, DiagnosisFacts
<1>3. revisions[n] \in Revisions /\ n \in Numbers
  BY <1>2, RowFacts DEF Numbers
<1>4. diagnosis[p].secret \in Secrets \ {None}
  BY <1>1, <1>2 DEF Testable, Diagnoses
<1>5. new \in Diagnostics
  BY <1>3, <1>4 DEF Diagnostics, Revisions
<1>6. /\ new.revision = n /\ new.generation = revisions[n].generation
      /\ new.secret = diagnosis[p].secret
  OBVIOUS
<1> HIDE DEF new
<1>7. /\ healthy' \subseteq Diagnostics
      /\ \A d \in healthy : \E e \in healthy' : e.revision = d.revision /\ e.secret = d.secret
  BY <1>1, <1>5 DEF ProviderInv, TypeOK
<1>8. ASSUME NEW d \in healthy'
      PROVE  /\ d.revision \in 1..Len(revisions)
             /\ d.generation = revisions[d.revision].generation
             /\ config.draft # None /\ (Last("candidate") \/ Last("active")) =>
                   (d.revision = config.draft => d.secret = Latest.secret)
  <2>1. CASE d = new
    BY <1>1, <1>2, <1>6, <2>1 DEF SawTheSecret
  <2>2. CASE d \in healthy
    BY <2>2 DEF ProviderInv, DiagnosedExist, DraftHasItsSecret
  <2>3. QED
    BY <1>1, <2>1, <2>2
<1>9. /\ \A q \in Diagnosers : diagnosis'[q] = diagnosis[q] \/ diagnosis'[q] = NoDiagnosis
      /\ diagnosis' \in [Diagnosers -> Diagnoses]
  <2>1. diagnosis \in [Diagnosers -> Diagnoses]
    BY DEF ProviderInv, TypeOK
  <2>2. NoDiagnosis \in Diagnoses
    BY DEF NoDiagnosis, Diagnoses, Secrets
  <2>3. QED
    BY <1>1, <2>1, <2>2
<1>10. QED
  BY <1>1, <1>7, <1>8, <1>9, HealthyGrows

LEMMA DiagnosisAgesStep ==
    ASSUME ProviderInv, DiagnosisAges
    PROVE  ProviderInv'
<1>1. Quiet /\ UNCHANGED <<seen, diagnosis, call>>
  BY DEF DiagnosisAges, Quiet
<1>2. PICK aged \in healthy : healthy' = (healthy \ {aged}) \cup {[aged EXCEPT !.recent = FALSE]}
  BY DEF DiagnosisAges
<1>3. PICK old : old = [aged EXCEPT !.recent = FALSE]
  OBVIOUS
<1>4. aged \in Diagnostics
  BY DEF ProviderInv, TypeOK
<1>5. /\ old \in Diagnostics /\ old.revision = aged.revision /\ old.secret = aged.secret
      /\ old.generation = aged.generation
  BY <1>3, <1>4 DEF Diagnostics
<1>6. healthy' = (healthy \ {aged}) \cup {old}
  BY <1>2, <1>3
<1>7. /\ healthy' \subseteq Diagnostics
      /\ \A d \in healthy : \E e \in healthy' : e.revision = d.revision /\ e.secret = d.secret
  BY <1>5, <1>6 DEF ProviderInv, TypeOK
<1>8. ASSUME NEW d \in healthy'
      PROVE  /\ d.revision \in 1..Len(revisions)
             /\ d.generation = revisions[d.revision].generation
             /\ config.draft # None /\ (Last("candidate") \/ Last("active")) =>
                   (d.revision = config.draft => d.secret = Latest.secret)
  <2>1. PICK e \in healthy : e.revision = d.revision /\ e.secret = d.secret
                             /\ e.generation = d.generation
    BY <1>5, <1>6
  <2>2. QED
    BY <2>1 DEF ProviderInv, DiagnosedExist, DraftHasItsSecret
<1>9. diagnosis' \in [Diagnosers -> Diagnoses]
  BY <1>1 DEF ProviderInv, TypeOK
<1>10. QED
  BY <1>1, <1>7, <1>8, <1>9, HealthyGrows

-----------------------------------------------------------------------------
LEMMA ProviderNext == ASSUME ProviderInv, [Next]_vars PROVE ProviderInv'
<1>1. ASSUME NEW o \in Operators, Operate(o) PROVE ProviderInv'
  <2>1. CASE View(o)
    BY <2>1, ViewStep
  <2>2. CASE \E on, entered \in BOOLEAN : SaveDraft(o, on, entered)
    BY <2>2, SaveDraftStep
  <2>3. CASE DiscardDraft(o)
    BY <2>3, DiscardDraftStep
  <2>4. CASE Publish(o)
    BY <2>4, PublishStep
  <2>5. CASE RemoveCredentials(o)
    BY <2>5, RemoveCredentialsStep
  <2>6. QED
    BY <1>1, <2>1, <2>2, <2>3, <2>4, <2>5 DEF Operate
<1>2. ASSUME NEW p \in Diagnosers, Probe(p) PROVE ProviderInv'
  BY <1>2, DiagnoseStep, SeeCandidateStep, SeeActiveStep, DiagnosedHealthyStep,
     DiagnosedUnavailableStep DEF Probe
<1>3. ASSUME NEW c \in Callers, Lookup(c) PROVE ProviderInv'
  BY <1>3, LookupStep
<1>4. CASE DiagnosisAges
  BY <1>4, DiagnosisAgesStep
<1>5. CASE UNCHANGED vars
  BY <1>5 DEF vars, ProviderInv, TypeOK, SlotsAreSound, RowIsSound, OneActiveOneDraft, SeenIsOlder,
              CallsAreOlder, DiagnosedExist, DraftHasItsSecret, EnabledIsProven, Latest, Last, Proven
<1>6. QED
  BY <1>1, <1>2, <1>3, <1>4, <1>5 DEF Next

\* The inductive invariant holds of every behaviour of the provider configuration.
THEOREM ProviderSafe == Spec => []ProviderInv
<1>1. QED
  BY ProviderInitInv, ProviderNext, PTL DEF Spec

\* Every row of the provider configuration keeps to its type.
THEOREM ProviderTypeCorrect == Spec => []TypeOK
<1>1. ProviderInv => TypeOK
  BY DEF ProviderInv
<1>2. QED
  BY <1>1, ProviderSafe, PTL

\* The row names the one active revision and the one draft (publish, save_draft, discard_draft).
THEOREM OneOfEach == Spec => []OneActiveOneDraft
<1>1. ProviderInv => OneActiveOneDraft
  BY DEF ProviderInv
<1>2. QED
  BY <1>1, ProviderSafe, PTL

\* What is enabled and in force was proven with the very secret it uses (publish).
THEOREM Enabled == Spec => []EnabledIsProven
<1>1. ProviderInv => EnabledIsProven
  BY DEF ProviderInv
<1>2. QED
  BY <1>1, ProviderSafe, PTL

\* A lookup that no operation came between gets the credential of its revision (runtime).
THEOREM UndisturbedCall == Spec => []UndisturbedCallIsConsistent
<1>1. ASSUME ProviderInv PROVE UndisturbedCallIsConsistent
  <2> SUFFICES ASSUME NEW c \in Callers, call[c].at = "answered",
                      call[c].version = config.version, revisions[call[c].active].enabled
               PROVE  /\ call[c].active = config.active
                      /\ call[c].got.generation = revisions[call[c].active].generation
                      /\ Proven(call[c].active, call[c].got.secret)
    BY DEF UndisturbedCallIsConsistent
  <2>1. /\ call[c].active = config.active /\ call[c].got = credential["active"]
        /\ call[c].active \in 1..Len(revisions)
    BY <1>1 DEF ProviderInv, CallsAreOlder
  <2>2. config.active # None
    BY <1>1, <2>1, RowFacts
  <2>3. QED
    BY <1>1, <2>1, <2>2 DEF ProviderInv, EnabledIsProven
<1>2. QED
  BY <1>1, ProviderSafe, PTL

\* No operator changes what another has changed since their console was loaded
\* (_configuration_for_update compares the version the console sends).
THEOREM NobodyUnseen == Spec => NobodyActsUnseen
<1>1. ASSUME ProviderInv, [Next]_vars, config' # config PROVE \E o \in Operators : seen[o] = config
  <2>1. PICK o \in Operators : VersionMatches(o)
    <3>1. PICK o \in Operators : Operate(o)
      BY <1>1 DEF Next, Probe, Lookup, Diagnose, SeeCandidate, SeeActive, DiagnosedHealthy,
                  DiagnosedUnavailable, SeeRow, Answer, Used, DiagnosisAges, vars
    <3>2. QED
      BY <1>1, <3>1 DEF Operate, View, SaveDraft, DiscardDraft, Publish, RemoveCredentials
  <2>2. QED
    BY <1>1, <2>1 DEF VersionMatches, ProviderInv, SeenIsOlder
<1>2. QED
  BY <1>1, ProviderSafe, PTL DEF Spec, NobodyActsUnseen

-----------------------------------------------------------------------------
(* Acceptance of a provider: the reads of a run cover every dataset of every symbol *)

\* The position of a read, taken apart again.
LEMMA Multiples ==
    ASSUME NEW a \in Int, NEW b \in Int, NEW l \in Nat, a >= b + 1
    PROVE  l * a >= l * b + l
<1>1. PICK k \in Nat : a = b + 1 + k
  <2>1. a = b + 1 + (a - b - 1) /\ a - b - 1 \in Nat
    OBVIOUS
  <2>2. QED
    BY <2>1
<1>2. l * a = l * b + l + l * k
  BY <1>1
<1>3. l * k \in Nat
  OBVIOUS
<1>4. QED
  BY <1>2, <1>3

LEMMA DivisionIs ==
    ASSUME NEW l \in Nat, l # 0, NEW q \in Nat, NEW r \in 0..(l - 1), NEW x \in Nat, x = l * q + r
    PROVE  x \div l = q /\ x % l = r
<1> DEFINE d == x \div l
           m == x % l
<1>1. d \in Int /\ m \in 0..(l - 1) /\ x = l * d + m
  OBVIOUS
<1> HIDE DEF d, m
<1>2. ~(d >= q + 1)
  <2>1. d >= q + 1 => l * d >= l * q + l
    BY <1>1, Multiples
  <2>2. QED
    BY <1>1, <2>1
<1>3. ~(q >= d + 1)
  <2>1. q >= d + 1 => l * q >= l * d + l
    BY <1>1, Multiples
  <2>2. QED
    BY <1>1, <2>1
<1>4. d = q
  BY <1>1, <1>2, <1>3
<1>5. m = r
  BY <1>1, <1>4
<1>6. QED
  BY <1>4, <1>5 DEF d, m

\* There are as many reads as pairs.
LEMMA ReadsLength == Len(Reads) = Len(Symbols) * Len(Datasets) /\ Len(Reads) \in Nat
<1>1. Len(Symbols) \in Nat /\ Len(Datasets) \in Nat
  BY AcceptanceAssumption
<1> DEFINE k == Len(Symbols) * Len(Datasets)
<1>2. k \in Nat
  BY <1>1
<1> HIDE DEF k
<1>3. DOMAIN Reads = 1..k
  BY DEF Reads, k
<1> DEFINE all == {Reads[i] : i \in 1..k}
<1>4. Reads \in Seq(all)
  <2>1. \A i \in 1..k : Reads[i] \in all
    OBVIOUS
  <2>2. Reads = [i \in 1..k |-> Reads[i]]
    BY <1>3 DEF Reads, k
  <2> HIDE DEF all
  <2>3. QED
    BY <1>2, <2>1, <2>2
<1> HIDE DEF all
<1>5. Len(Reads) = k
  BY <1>2, <1>3, <1>4
<1>6. QED
  BY <1>2, <1>5 DEF k

LEMMA EveryPairIsRead ==
    ASSUME NEW s \in SymbolSet, NEW d \in DatasetSet
    PROVE  \E i \in 1..Len(Reads) : Reads[i].of = s /\ Reads[i].dataset = d
<1>1. PICK a \in 1..Len(Symbols), b \in 1..Len(Datasets) : Symbols[a] = s /\ Datasets[b] = d
  BY AcceptanceAssumption DEF SymbolSet, DatasetSet
<1>2. Len(Symbols) \in Nat /\ Len(Datasets) \in Nat
  BY AcceptanceAssumption
<1> DEFINE l == Len(Datasets)
           x == l * (a - 1) + (b - 1)
<1>3. l \in Nat /\ l # 0 /\ a - 1 \in Nat /\ b - 1 \in 0..(l - 1)
  BY <1>1, <1>2
<1>4. x \in Nat
  BY <1>3
<1>5. x \div l = a - 1 /\ x % l = b - 1
  <2>1. \A q \in Nat : \A r \in 0..(l - 1) : (l * q + r) \div l = q /\ (l * q + r) % l = r
    <3> HIDE DEF l
    <3>1. ASSUME NEW q \in Nat, NEW r \in 0..(l - 1)
          PROVE  (l * q + r) \div l = q /\ (l * q + r) % l = r
      <4>1. l * q + r \in Nat
        BY <1>3
      <4>2. QED
        BY SMTT(30), <1>3, <4>1, DivisionIs
    <3>2. QED
      BY <3>1
  <2>2. QED
    BY <1>3, <2>1, Zenon
<1>6. x + 1 <= Len(Symbols) * l
  <2>1. l * Len(Symbols) >= l * (a - 1) + l
    BY <1>1, <1>2, <1>3, Multiples
  <2>2. Len(Symbols) * l = l * Len(Symbols)
    BY <1>2
  <2>3. QED
    BY <1>2, <1>3, <2>1, <2>2
<1>7. x + 1 \in 1..(Len(Symbols) * Len(Datasets)) /\ (x + 1) - 1 = x
  BY <1>2, <1>4, <1>6
<1>8. Reads[x + 1] = [of |-> Symbols[1 + (((x + 1) - 1) \div Len(Datasets))],
                      dataset |-> Datasets[1 + (((x + 1) - 1) % Len(Datasets))]]
  BY <1>7 DEF Reads
<1>9. 1 + (x \div l) = a /\ 1 + (x % l) = b
  BY <1>1, <1>2, <1>5
<1>10. Reads[x + 1].of = s /\ Reads[x + 1].dataset = d
  BY <1>1, <1>7, <1>8, <1>9
<1>11. QED
  BY <1>7, <1>10, ReadsLength

\* Where a read stands, by its symbol and its dataset.
LEMMA ReadsAt ==
    ASSUME NEW i \in 1..Len(Reads)
    PROVE  \E d \in 0..(Len(Symbols) - 1), m \in 0..(Len(Datasets) - 1) :
             /\ i - 1 = Len(Datasets) * d + m
             /\ Reads[i].of = Symbols[1 + d] /\ Reads[i].dataset = Datasets[1 + m]
<1>1. Len(Symbols) \in Nat /\ Len(Datasets) \in Nat /\ i \in 1..(Len(Symbols) * Len(Datasets))
  BY AcceptanceAssumption, ReadsLength
<1> DEFINE l == Len(Datasets)
           d == (i - 1) \div l
           m == (i - 1) % l
<1>2. l # 0
  BY <1>1
<1>3. d \in Nat /\ m \in 0..(l - 1) /\ i - 1 = l * d + m
  BY <1>1, <1>2
<1>4. Reads[i] = [of |-> Symbols[1 + d], dataset |-> Datasets[1 + m]]
  BY <1>1 DEF Reads
<1> HIDE DEF d, m
<1>5. 1 + d <= Len(Symbols)
  <2>1. d >= Len(Symbols) => l * d >= l * Len(Symbols)
    <3>1. l * (d - Len(Symbols)) = l * d - l * Len(Symbols)
      BY <1>1, <1>3
    <3>2. d >= Len(Symbols) => l * (d - Len(Symbols)) \in Nat
      BY <1>1, <1>3
    <3>3. l * d \in Nat /\ l * Len(Symbols) \in Nat
      BY <1>1, <1>3
    <3>4. QED
      BY <3>1, <3>2, <3>3
  <2>2. l * Len(Symbols) = Len(Symbols) * Len(Datasets) /\ l * d \in Nat
    BY <1>1, <1>3
  <2>3. QED
    BY <1>1, <1>3, <2>1, <2>2
<1>6. d \in 0..(Len(Symbols) - 1)
  BY <1>1, <1>3, <1>5
<1>7. Reads[i].of = Symbols[1 + d] /\ Reads[i].dataset = Datasets[1 + m]
  BY <1>4
<1>8. QED
  BY <1>3, <1>6, <1>7

LEMMA ReadsOf ==
    ASSUME NEW i \in 1..Len(Reads)
    PROVE  /\ Reads[i].of \in SymbolSet /\ Reads[i].dataset \in DatasetSet
           /\ Reads[i].dataset \in Datasets0
<1>1. PICK d \in 0..(Len(Symbols) - 1), m \in 0..(Len(Datasets) - 1) :
        Reads[i].of = Symbols[1 + d] /\ Reads[i].dataset = Datasets[1 + m]
  BY ReadsAt
<1>2. 1 + d \in DOMAIN Symbols /\ 1 + m \in DOMAIN Datasets
  BY AcceptanceAssumption
<1>3. QED
  BY <1>1, <1>2, AcceptanceAssumption DEF SymbolSet, DatasetSet

\* No pair is read twice.
LEMMA ReadsDiffer ==
    ASSUME NEW i \in 1..Len(Reads), NEW j \in 1..Len(Reads),
           Reads[i].of = Reads[j].of, Reads[i].dataset = Reads[j].dataset
    PROVE  i = j
<1>1. PICK d \in 0..(Len(Symbols) - 1), m \in 0..(Len(Datasets) - 1) :
        /\ i - 1 = Len(Datasets) * d + m
        /\ Reads[i].of = Symbols[1 + d] /\ Reads[i].dataset = Datasets[1 + m]
  BY ReadsAt
<1>2. PICK e \in 0..(Len(Symbols) - 1), n \in 0..(Len(Datasets) - 1) :
        /\ j - 1 = Len(Datasets) * e + n
        /\ Reads[j].of = Symbols[1 + e] /\ Reads[j].dataset = Datasets[1 + n]
  BY ReadsAt
<1>3. /\ 1 + d \in DOMAIN Symbols /\ 1 + e \in DOMAIN Symbols
      /\ 1 + m \in DOMAIN Datasets /\ 1 + n \in DOMAIN Datasets
  BY AcceptanceAssumption
<1>4. 1 + d = 1 + e /\ 1 + m = 1 + n
  BY <1>1, <1>2, <1>3, AcceptanceAssumption
<1>5. d = e /\ m = n
  BY <1>4
<1>6. i - 1 = j - 1
  BY <1>1, <1>2, <1>5
<1>7. i \in Int /\ j \in Int
  OBVIOUS
<1>8. QED
  BY <1>6, <1>7

\* What a run has read and not found retained, and is still not, is a failure among its items.
NotRetained(r) == r.dataset \in Mandatory \ {"stock_master"} /\ r.dataset \notin retained[r.of]

AcceptanceInv ==
    /\ retained \in [SymbolSet -> SUBSET DatasetSet]
    /\ acceptRun.next \in 0..(Len(Reads) + 1)
    /\ \A i \in 1..Len(Reads) :
         i < acceptRun.next /\ NotRetained(Reads[i]) => MandatoryFailed(acceptRun.items)
    /\ AcceptedIsRetained

LEMMA MoreItems ==
    ASSUME NEW items, NEW item
    PROVE  MandatoryFailed(items) => MandatoryFailed(items \cup {item})
BY DEF MandatoryFailed

\* What is retained is lost only as far as the stock itself is delisted.
LEMMA RetainedGrows ==
    ASSUME AcceptanceInv, UNCHANGED <<acceptRun, acceptance>>,
           retained' \in [SymbolSet -> SUBSET DatasetSet],
           \A s \in SymbolSet : retained[s] \ {"stock_master"} \subseteq retained'[s]
    PROVE  AcceptanceInv'
<1>1. \A i \in 1..Len(Reads) : NotRetained(Reads[i])' => NotRetained(Reads[i])
  BY ReadsOf DEF NotRetained
<1>2. AcceptedIsRetained'
  BY DEF AcceptanceInv, AcceptedIsRetained
<1>3. QED
  BY <1>1, <1>2 DEF AcceptanceInv, MandatoryFailed

LEMMA IngestStep ==
    ASSUME AcceptanceInv, NEW s \in SymbolSet, NEW d \in DatasetSet, Ingest(s, d)
    PROVE  AcceptanceInv'
<1>1. /\ retained' \in [SymbolSet -> SUBSET DatasetSet]
      /\ \A t \in SymbolSet : retained[t] \ {"stock_master"} \subseteq retained'[t]
  BY DEF AcceptanceInv, Ingest
<1>2. QED
  BY <1>1, RetainedGrows DEF Ingest

LEMMA DelistStep ==
    ASSUME AcceptanceInv, NEW s \in SymbolSet, Delist(s)
    PROVE  AcceptanceInv'
<1>1. /\ retained' \in [SymbolSet -> SUBSET DatasetSet]
      /\ \A t \in SymbolSet : retained[t] \ {"stock_master"} \subseteq retained'[t]
  BY DEF AcceptanceInv, Delist
<1>2. QED
  BY <1>1, RetainedGrows DEF Delist

LEMMA StartAcceptanceStep ==
    ASSUME AcceptanceInv, StartAcceptance
    PROVE  AcceptanceInv'
<1>1. acceptRun'.next = 1 /\ UNCHANGED <<retained, acceptance>>
  BY DEF StartAcceptance
<1>2. AcceptedIsRetained'
  BY <1>1 DEF AcceptanceInv, AcceptedIsRetained
<1>3. QED
  BY <1>1, <1>2, ReadsLength DEF AcceptanceInv

LEMMA ReadDatasetStep ==
    ASSUME AcceptanceInv, ReadDataset
    PROVE  AcceptanceInv'
<1> DEFINE n == acceptRun.next
           r == Reads[n]
           item == [of |-> r.of, dataset |-> r.dataset, status |-> StatusOf(r.of, r.dataset)]
<1>1. /\ n \in 1..Len(Reads) /\ acceptRun'.next = n + 1 /\ UNCHANGED <<retained, acceptance>>
      /\ acceptRun'.items = acceptRun.items \cup {item}
  BY DEF ReadDataset
<1>2. NotRetained(r) => item.dataset \in Mandatory /\ item.status # "passed"
  BY DEF NotRetained, StatusOf
<1> HIDE DEF item
<1>3. NotRetained(r) => MandatoryFailed(acceptRun'.items)
  BY <1>1, <1>2 DEF MandatoryFailed
<1>4. MandatoryFailed(acceptRun.items) => MandatoryFailed(acceptRun'.items)
  BY <1>1, MoreItems
<1>5. ASSUME NEW i \in 1..Len(Reads), i < acceptRun'.next, NotRetained(Reads[i])'
      PROVE  MandatoryFailed(acceptRun'.items)
  <2>1. NotRetained(Reads[i])
    BY <1>1, <1>5 DEF NotRetained, Reads
  <2>2. CASE i = n
    BY <1>3, <2>1, <2>2
  <2>3. CASE i < n
    BY <1>4, <2>1, <2>3 DEF AcceptanceInv
  <2>4. QED
    BY <1>1, <1>5, <2>2, <2>3
<1>6. AcceptedIsRetained'
  BY <1>1 DEF AcceptanceInv, AcceptedIsRetained
<1>7. QED
  BY <1>1, <1>5, <1>6, ReadsLength DEF AcceptanceInv, MandatoryFailed

LEMMA SummarizeStep ==
    ASSUME AcceptanceInv, Summarize
    PROVE  AcceptanceInv'
<1> DEFINE item == [of |-> "ai", dataset |-> "route",
                    status |-> IF aiHealthy THEN "passed" ELSE "failed"]
<1>1. /\ acceptRun.next = Len(Reads) + 1 /\ acceptRun'.next = 0 /\ retained' = retained
      /\ acceptance'.status = "passed" => ~MandatoryFailed(acceptRun.items \cup {item})
  BY DEF Summarize
<1> HIDE DEF item
<1>2. acceptance'.status = "passed" => ~MandatoryFailed(acceptRun.items)
  BY <1>1, MoreItems
<1>3. acceptance'.status = "passed" => \A i \in 1..Len(Reads) : ~NotRetained(Reads[i])
  BY <1>1, <1>2, ReadsLength DEF AcceptanceInv
<1>4. ASSUME acceptance'.status = "passed", NEW s \in SymbolSet,
             NEW d \in DatasetSet \cap (Mandatory \ {"stock_master"})
      PROVE  d \in retained[s]
  <2>1. PICK i \in 1..Len(Reads) : Reads[i].of = s /\ Reads[i].dataset = d
    BY EveryPairIsRead
  <2>2. QED
    BY <1>3, <1>4, <2>1 DEF NotRetained
<1>5. AcceptedIsRetained'
  BY <1>1, <1>4 DEF AcceptedIsRetained
<1>6. QED
  BY <1>1, <1>5, ReadsLength DEF AcceptanceInv

LEMMA AcceptanceNextInv ==
    ASSUME AcceptanceInv, [AcceptanceNext]_acceptanceVars
    PROVE  AcceptanceInv'
<1>1. CASE RouteTurns
  BY <1>1, RetainedGrows DEF RouteTurns, AcceptanceInv
<1>2. CASE UNCHANGED acceptanceVars
  BY <1>2, RetainedGrows DEF acceptanceVars, AcceptanceInv
<1>3. QED
  BY <1>1, <1>2, IngestStep, DelistStep, StartAcceptanceStep, ReadDatasetStep, SummarizeStep
     DEF AcceptanceNext

\* Every item is of its own: the policy's, or that of a read.
ItemsAreReads ==
    \A i \in acceptRun.items :
        \/ i.dataset = "usage"
        \/ \E k \in 1..Len(Reads) :
             k < acceptRun.next /\ i.of = Reads[k].of /\ i.dataset = Reads[k].dataset

ItemsAreCounted ==
    /\ IsFiniteSet(acceptRun.items)
    /\ acceptRun.next # 0 => Cardinality(acceptRun.items) = acceptRun.next

AcceptanceTyped == AcceptanceTypeOK /\ ItemsAreReads /\ ItemsAreCounted

LEMMA OneItemMore ==
    ASSUME AcceptanceTyped, NEW item, item \notin acceptRun.items, acceptRun.next # 0
    PROVE  /\ IsFiniteSet(acceptRun.items \cup {item})
           /\ Cardinality(acceptRun.items \cup {item}) = acceptRun.next + 1
BY FS_AddElement DEF AcceptanceTyped, ItemsAreCounted

LEMMA ReadIsCounted == ASSUME AcceptanceTyped, ReadDataset PROVE AcceptanceTyped'
<1> DEFINE n == acceptRun.next
           r == Reads[n]
           item == [of |-> r.of, dataset |-> r.dataset, status |-> StatusOf(r.of, r.dataset)]
<1>1. /\ n \in 1..Len(Reads) /\ acceptRun'.next = n + 1
      /\ UNCHANGED <<retained, aiHealthy, acceptance>>
      /\ acceptRun'.items = acceptRun.items \cup {item}
  BY DEF ReadDataset
<1>2. /\ r.of \in SymbolSet /\ r.dataset \in Datasets0
      /\ StatusOf(r.of, r.dataset) \in ItemStatus
  BY <1>1, ReadsOf DEF StatusOf, ItemStatus
<1>3. item \in Items /\ item.of = r.of /\ item.dataset = r.dataset
  BY <1>2 DEF Items
<1> HIDE DEF item
<1>4. item \notin acceptRun.items
  <2>1. SUFFICES ASSUME item \in acceptRun.items PROVE FALSE
    OBVIOUS
  <2>2. item.dataset # "usage"
    BY <1>2, <1>3 DEF Datasets0
  <2>3. PICK k \in 1..Len(Reads) : k < n /\ item.of = Reads[k].of /\ item.dataset = Reads[k].dataset
    BY <2>1, <2>2 DEF AcceptanceTyped, ItemsAreReads
  <2>4. k = n
    BY <1>1, <1>3, <2>3, ReadsDiffer
  <2>5. QED
    BY <1>1, <2>3, <2>4
<1>5. n # 0 /\ n + 1 # 0 /\ n \in Nat
  BY <1>1
<1>6. ItemsAreCounted'
  BY <1>1, <1>4, <1>5, OneItemMore DEF ItemsAreCounted
<1>7. ItemsAreReads'
  <2>1. ASSUME NEW i \in acceptRun.items, i.dataset # "usage"
        PROVE  \E k \in 1..Len(Reads) : k < n + 1 /\ i.of = Reads[k].of /\ i.dataset = Reads[k].dataset
    <3>1. PICK k \in 1..Len(Reads) : k < n /\ i.of = Reads[k].of /\ i.dataset = Reads[k].dataset
      BY <2>1 DEF AcceptanceTyped, ItemsAreReads
    <3>2. k < n + 1
      BY <1>1, <3>1
    <3>3. QED
      BY <3>1, <3>2
  <2>2. n < n + 1
    BY <1>1
  <2>3. QED
    BY <1>1, <1>3, <2>1, <2>2 DEF ItemsAreReads
<1>8. n + 1 \in 0..(Len(Reads) + 1)
  BY <1>1, ReadsLength
<1>9. AcceptanceTypeOK'
  BY <1>1, <1>3, <1>8 DEF AcceptanceTyped, AcceptanceTypeOK
<1>10. QED
  BY <1>6, <1>7, <1>9 DEF AcceptanceTyped

\* The summary counts the policy, every read and the route.
LEMMA SummaryCounts == ASSUME AcceptanceTyped, Summarize PROVE AcceptanceTyped'
<1> DEFINE item == [of |-> "ai", dataset |-> "route",
                    status |-> IF aiHealthy THEN "passed" ELSE "failed"]
           items == acceptRun.items \cup {item}
           good == {i \in items : i.status = "passed"}
           bad == {i \in items : i.status \in {"failed", "blocked", "unsupported"}}
<1>1. /\ acceptRun.next = Len(Reads) + 1 /\ UNCHANGED <<retained, aiHealthy>>
      /\ acceptRun'.next = 0 /\ acceptRun'.items = {}
      /\ acceptance'.status \in {"passed", "failed"}
      /\ acceptance'.passed = Cardinality(good) /\ acceptance'.others = Cardinality(bad)
  BY DEF Summarize, CountOthers
<1>2. item \in Items /\ item.dataset = "route"
  BY DEF Items, ItemStatus
<1> HIDE DEF item
<1>3. item \notin acceptRun.items
  <2>1. SUFFICES ASSUME item \in acceptRun.items PROVE FALSE
    OBVIOUS
  <2>2. PICK k \in 1..Len(Reads) : item.dataset = Reads[k].dataset
    BY <1>2, <2>1 DEF AcceptanceTyped, ItemsAreReads
  <2>3. Reads[k].dataset \in Datasets0
    BY ReadsOf
  <2>4. QED
    BY <1>2, <2>2, <2>3 DEF Datasets0
<1>4. IsFiniteSet(items) /\ Cardinality(items) = Len(Reads) + 2
  <2>1. Len(Reads) + 1 # 0 /\ (Len(Reads) + 1) + 1 = Len(Reads) + 2
    BY ReadsLength
  <2>2. QED
    BY <1>1, <1>3, <2>1, OneItemMore
<1>5. \A i \in items : i.status \in ItemStatus
  BY <1>2 DEF AcceptanceTyped, AcceptanceTypeOK, Items
<1> HIDE DEF items
<1>6. good \cup bad = items /\ good \cap bad = {}
  BY <1>5 DEF ItemStatus
<1>7. IsFiniteSet(good) /\ IsFiniteSet(bad)
  BY <1>4, FS_Subset
<1> HIDE DEF good, bad
<1>8. /\ Cardinality(items) = Cardinality(good) + Cardinality(bad) - Cardinality(good \cap bad)
      /\ Cardinality(good) \in Nat /\ Cardinality(bad) \in Nat /\ Cardinality(good \cap bad) = 0
  BY <1>6, <1>7, FS_Union, FS_CardinalityType, FS_EmptySet
<1>9. acceptance'.passed + acceptance'.others = Len(Reads) + 2
  BY <1>1, <1>4, <1>8
<1>10. 0 \in 0..(Len(Reads) + 1)
  BY ReadsLength
<1>11. AcceptanceTypeOK'
  BY <1>1, <1>9, <1>10 DEF AcceptanceTyped, AcceptanceTypeOK
<1>12. ItemsAreReads' /\ ItemsAreCounted'
  BY <1>1, FS_EmptySet DEF ItemsAreReads, ItemsAreCounted
<1>13. QED
  BY <1>11, <1>12 DEF AcceptanceTyped

LEMMA StartIsCounted == ASSUME AcceptanceTyped, StartAcceptance PROVE AcceptanceTyped'
<1> DEFINE item == [of |-> "policy", dataset |-> "usage",
                    status |-> IF PolicyOk THEN "passed" ELSE "blocked"]
<1>1. /\ acceptRun'.next = 1 /\ acceptRun'.items = {item}
      /\ UNCHANGED <<retained, aiHealthy, acceptance>>
  BY DEF StartAcceptance
<1>2. item \in Items /\ item.dataset = "usage"
  BY DEF Items, ItemStatus
<1> HIDE DEF item
<1>3. IsFiniteSet({item}) /\ Cardinality({item}) = 1
  BY FS_Singleton
<1>4. 1 \in 0..(Len(Reads) + 1)
  BY ReadsLength
<1>5. AcceptanceTypeOK'
  BY <1>1, <1>2, <1>4 DEF AcceptanceTyped, AcceptanceTypeOK
<1>6. QED
  BY <1>1, <1>2, <1>3, <1>5 DEF AcceptanceTyped, ItemsAreReads, ItemsAreCounted

LEMMA AcceptanceStaysTyped ==
    AcceptanceTyped /\ [AcceptanceNext]_acceptanceVars => AcceptanceTyped'
<1> SUFFICES ASSUME AcceptanceTyped, [AcceptanceNext]_acceptanceVars PROVE AcceptanceTyped'
  OBVIOUS
<1>1. ASSUME UNCHANGED <<acceptRun, acceptance>>, aiHealthy' \in BOOLEAN,
             retained' \in [SymbolSet -> SUBSET DatasetSet]
      PROVE  AcceptanceTyped'
  BY <1>1 DEF AcceptanceTyped, AcceptanceTypeOK, ItemsAreReads, ItemsAreCounted
<1>2. retained \in [SymbolSet -> SUBSET DatasetSet] /\ aiHealthy \in BOOLEAN
  BY DEF AcceptanceTyped, AcceptanceTypeOK
<1>3. CASE UNCHANGED acceptanceVars
  BY <1>1, <1>2, <1>3 DEF acceptanceVars
<1>4. CASE RouteTurns
  BY <1>1, <1>2, <1>4 DEF RouteTurns
<1>5. ASSUME NEW s \in SymbolSet, Delist(s) \/ \E d \in DatasetSet : Ingest(s, d) PROVE AcceptanceTyped'
  BY <1>1, <1>2, <1>5 DEF Delist, Ingest
<1>6. QED
  BY <1>3, <1>4, <1>5, ReadIsCounted, SummaryCounts, StartIsCounted DEF AcceptanceNext

LEMMA AcceptanceTypedInitially == AcceptanceInit => AcceptanceTyped
<1>1. 0 \in 0..(Len(Reads) + 1)
  BY ReadsLength
<1>2. AcceptanceInit => AcceptanceTypeOK
  <2> SUFFICES ASSUME AcceptanceInit PROVE AcceptanceTypeOK
    OBVIOUS
  <2>1. retained \in [SymbolSet -> SUBSET DatasetSet] /\ aiHealthy \in BOOLEAN
    BY DEF AcceptanceInit
  <2>2. acceptRun.next = 0 /\ acceptRun.items = {}
    BY DEF AcceptanceInit
  <2>3. acceptance.status = "none" /\ acceptance.passed + acceptance.others = 0
    BY DEF AcceptanceInit, NoSummary
  <2>4. QED
    BY <1>1, <2>1, <2>2, <2>3 DEF AcceptanceTypeOK
<1>3. AcceptanceInit => ItemsAreReads /\ ItemsAreCounted
  BY FS_EmptySet DEF AcceptanceInit, ItemsAreReads, ItemsAreCounted
<1>4. QED
  BY <1>2, <1>3 DEF AcceptanceTyped

\* A provider that is accepted has retained, for every reference symbol, everything mandatory
\* but the listing itself, which can end (ProviderAcceptanceService.run).
THEOREM AcceptedRetained == AcceptanceSpec => []AcceptedIsRetained
<1>1. AcceptanceInit => AcceptanceInv
  BY ReadsLength DEF AcceptanceInit, AcceptanceInv, AcceptedIsRetained, NoSummary
<1>2. AcceptanceInv => AcceptedIsRetained
  BY DEF AcceptanceInv
<1>3. QED
  BY <1>1, <1>2, AcceptanceNextInv, PTL DEF AcceptanceSpec

-----------------------------------------------------------------------------
(* The release of a candidate *)


\* The call that has the candidate locked found it in a status that it is allowed from.
CallIsAllowed == gateCall.does # "nothing" => candidate.status \in AllowedFrom[gateCall.does]

\* The events of a candidate by its status.
EventsFit ==
    /\ candidate.status \in {"absent", "draft", "blocked", "ready_closed"} =>
         \A t \in EventTypes : event[t] = Nobody
    /\ candidate.status \in {"deployed_observing", "ready_invites"} =>
         event["deployed"] # Nobody /\ \A t \in EventTypes \ {"deployed"} : event[t] = Nobody
    /\ candidate.status = "released" =>
         /\ event["deployed"] # Nobody /\ event["released"] # Nobody
         /\ event["failed"] = Nobody /\ event["rolled_back"] = Nobody
    /\ candidate.status = "rolled_back" =>
         /\ event["failed"] # Nobody \/ event["rolled_back"] # Nobody
         /\ event["rolled_back"] = Nobody => event["released"] = Nobody
    /\ candidate.status = "rejected" => \A t \in EventTypes \ {"deployed"} : event[t] = Nobody

\* Nobody decides twice, nor does the creator.
ApprovalsAreApart ==
    \A r \in ApprovalRoles : approval[r].decision # "none" =>
        /\ approval[r].actor \in Staff \ {Creator}
        /\ \A s \in ApprovalRoles \ {r} : approval[s].actor # approval[r].actor

\* What is true of a check that has passed for as long as its call lasts.
StaysFound(row) == Fresh(row, gateCall.at) \/ (row.end # Nobody /\ row.end >= gateCall.at)
Found(check) ==
    /\ check = "engineering" => Approved("engineering")
    /\ check = "approvals" => \A r \in ApprovalRoles : Approved(r)
    /\ check = "observation" => StaysFound(observation)
    /\ check \in Kinds => StaysFound(evidence[check])

\* A call has gone through some of its checks, and goes on with the others.
FoundSoFar ==
    gateCall.does # "nothing" =>
        \E n \in 0..Len(ChecksOf(gateCall.does)) :
            /\ Len(gateCall.todo) = Len(ChecksOf(gateCall.does)) - n
            /\ \A i \in 1..Len(gateCall.todo) : gateCall.todo[i] = ChecksOf(gateCall.does)[n + i]
            /\ gateCall.ok => \A i \in 1..n : Found(ChecksOf(gateCall.does)[i])

\* What has been deployed was judged by an engineer, what is released by all three.
EventsAreApproved ==
    /\ event["deployed"] # Nobody => Approved("engineering")
    /\ candidate.status = "released" => \A r \in ApprovalRoles : Approved(r)

ReleaseInv ==
    /\ ReleaseTypeOK
    /\ CallIsAllowed
    /\ EventsFit
    /\ ApprovalsAreApart
    /\ FoundSoFar
    /\ EventsAreApproved

-----------------------------------------------------------------------------
USE ReleaseAssumption

LEMMA ReleaseInitInv == ReleaseInit => ReleaseInv
<1> SUFFICES ASSUME ReleaseInit PROVE ReleaseInv
  OBVIOUS
<1>1. NoGateCall \in GateCalls /\ NoGateCall.at = 0 /\ NoGateCall.does = "nothing"
  BY DEF NoGateCall, GateCalls, Modes
<1>2. ReleaseTypeOK
  BY <1>1 DEF ReleaseInit, ReleaseTypeOK, Modes, Days, CandidateRows, ApprovalRows, ObservationRows
<1>3. CallIsAllowed /\ FoundSoFar
  BY <1>1 DEF ReleaseInit, CallIsAllowed, FoundSoFar
<1>4. EventsFit /\ EventsAreApproved
  BY DEF ReleaseInit, EventsFit, EventsAreApproved, EventTypes
<1>5. ApprovalsAreApart
  BY DEF ReleaseInit, ApprovalsAreApart
<1>6. QED
  BY <1>2, <1>3, <1>4, <1>5 DEF ReleaseInv

-----------------------------------------------------------------------------
(* The checks of a call *)

LEMMA ChecksAreChecks ==
    /\ ClosedChecks \in Seq(Checks) /\ Len(ClosedChecks) = 2
    /\ ClosedChecks[1] = "runtime" /\ ClosedChecks[2] = "engineering"
    /\ InviteChecks \in Seq(Checks) /\ Len(InviteChecks) = Len(Evidence) + 3
    /\ Len(Evidence) \in Nat
    /\ InviteChecks[1] = "observation"
    /\ \A i \in 1..Len(Evidence) : InviteChecks[i + 1] = Evidence[i]
    /\ InviteChecks[Len(Evidence) + 2] = "approvals"
    /\ InviteChecks[Len(Evidence) + 3] = "conditions"
<1>1. Evidence \in Seq(Kinds) /\ Len(Evidence) \in Nat
  BY DEF Kinds
<1>2. <<"observation">> \in Seq(Checks) /\ <<"approvals", "conditions">> \in Seq(Checks)
      /\ Evidence \in Seq(Checks)
  BY <1>1 DEF Checks
<1>3. ClosedChecks \in Seq(Checks) /\ Len(ClosedChecks) = 2
      /\ ClosedChecks[1] = "runtime" /\ ClosedChecks[2] = "engineering"
  BY DEF ClosedChecks, Checks
<1> DEFINE first == <<"observation">> \o Evidence
<1>4. first \in Seq(Checks) /\ Len(first) = Len(Evidence) + 1 /\ first[1] = "observation"
      /\ \A i \in 1..Len(Evidence) : first[i + 1] = Evidence[i]
  BY <1>1, <1>2
<1> HIDE DEF first
<1>5. InviteChecks = first \o <<"approvals", "conditions">>
  BY DEF InviteChecks, first
<1>6. QED
  BY <1>1, <1>2, <1>3, <1>4, <1>5

-----------------------------------------------------------------------------
(* Types *)

LEMMA RecordTypes ==
    ASSUME ReleaseTypeOK, NEW t \in EventTypes, Record(t)
    PROVE  candidate' \in CandidateRows /\ event' \in [EventTypes -> Days]
           /\ candidate'.status = StatusAfter[t]
           /\ event'[t] = day /\ \A u \in EventTypes \ {t} : event'[u] = event[u]
<1>1. event \in [EventTypes -> Days] /\ candidate \in CandidateRows /\ day \in Days
  BY DEF ReleaseTypeOK, Days
<1>2. event' = [event EXCEPT ![t] = day]
  BY DEF Record
<1>3. event' \in [EventTypes -> Days]
  BY <1>1, <1>2
<1>4. event'[t] = day /\ \A u \in EventTypes \ {t} : event'[u] = event[u]
  BY <1>1, <1>2
<1>5. candidate' = [candidate EXCEPT !.status = StatusAfter[t]]
  BY DEF Record
<1>6. StatusAfter[t] \in {"deployed_observing", "released", "rolled_back"}
  BY DEF StatusAfter, EventTypes
<1>7. candidate' \in CandidateRows /\ candidate'.status = StatusAfter[t]
  BY <1>1, <1>5, <1>6 DEF CandidateRows
<1>8. QED
  BY <1>3, <1>4, <1>7

LEMMA NoGateCallTypes == NoGateCall \in GateCalls /\ NoGateCall.at = 0 /\ NoGateCall.does = "nothing"
  BY DEF NoGateCall, GateCalls, Modes

LEMMA ReadTypes ==
    ASSUME ReleaseTypeOK, ReadCheck
    PROVE  /\ gateCall' \in GateCalls
           /\ gateCall'.does = gateCall.does /\ gateCall'.at = gateCall.at
           /\ gateCall'.todo = Tail(gateCall.todo)
           /\ gateCall'.ok = (gateCall.ok /\ Passes(Head(gateCall.todo)))
<1> DEFINE ok == gateCall.ok /\ Passes(Head(gateCall.todo))
<1>1. gateCall \in GateCalls
  BY DEF ReleaseTypeOK
<1>2. gateCall' = [gateCall EXCEPT !.todo = Tail(gateCall.todo), !.ok = ok]
  BY DEF ReadCheck
<1>3. Tail(gateCall.todo) \in Seq(Checks)
  BY <1>1 DEF ReadCheck, GateCalls
<1>4. ok \in BOOLEAN
  OBVIOUS
<1> HIDE DEF ok
<1>5. gateCall' \in GateCalls
  BY <1>1, <1>2, <1>3, <1>4 DEF GateCalls
<1>6. gateCall'.does = gateCall.does /\ gateCall'.at = gateCall.at
      /\ gateCall'.todo = Tail(gateCall.todo) /\ gateCall'.ok = ok
  BY <1>1, <1>2 DEF GateCalls
<1>7. QED
  BY <1>5, <1>6 DEF ok

LEMMA BeginTypes ==
    ASSUME ReleaseTypeOK,
           NEW does \in {"closed_deployment", "invite_activation", "deployed", "released"},
           BeginChecks(does)
    PROVE  gateCall' \in GateCalls /\ gateCall'.at = day /\ gateCall'.does = does
           /\ gateCall'.todo = ChecksOf(does)
<1>1. ChecksOf(does) \in Seq(Checks)
  BY ChecksAreChecks DEF ChecksOf
<1>2. day \in 0..MaxDay /\ mode \in Modes
  BY DEF ReleaseTypeOK
<1>3. QED
  BY <1>1, <1>2 DEF BeginChecks, GateCalls

LEMMA ReleaseTypeStep ==
    ASSUME ReleaseTypeOK, [ReleaseNext]_releaseVars PROVE ReleaseTypeOK'
<1> USE DEF ReleaseTypeOK
<1>0. MaxDay \in Nat
  OBVIOUS
<1>1. CASE DayBegins
  BY <1>0, <1>1 DEF DayBegins, GateCalls
<1>2. ASSUME NEW m \in {"closed", "invites"}, Restart(m) PROVE ReleaseTypeOK'
  BY <1>2 DEF Restart, Modes
<1>3. ASSUME NEW c \in Conditions, ConditionTurns(c) PROVE ReleaseTypeOK'
  BY <1>3 DEF ConditionTurns
<1>4. ASSUME NEW k \in Kinds, NEW passed \in BOOLEAN, Retain(k, passed) PROVE ReleaseTypeOK'
  BY <1>4 DEF Retain, ObservationRows, Days
<1>5. ASSUME NEW passed \in BOOLEAN, Observe(passed) PROVE ReleaseTypeOK'
  BY <1>5 DEF Observe, ObservationRows, Days
<1>6. ASSUME NEW artifacts \in BOOLEAN, Create(artifacts) PROVE ReleaseTypeOK'
  BY <1>6 DEF Create, CandidateRows
<1>7. ASSUME NEW o \in Staff, NEW r \in ApprovalRoles, NEW d \in {"approved", "rejected"},
             Approve(o, r, d)
      PROVE  ReleaseTypeOK'
  <2>1. approval' \in [ApprovalRoles -> ApprovalRows]
    BY <1>7 DEF Approve, ApprovalRows
  <2>2. candidate' \in CandidateRows
    BY <1>7 DEF Approve, CandidateRows
  <2>3. QED
    BY <1>7, <2>1, <2>2 DEF Approve
<1>8. ASSUME NEW does \in {"closed_deployment", "invite_activation", "deployed", "released"},
             BeginChecks(does)
      PROVE  ReleaseTypeOK'
  <2>1. gateCall' \in GateCalls /\ gateCall'.at = day
    BY <1>8, BeginTypes
  <2>2. day \in 0..MaxDay /\ day <= day
    BY <1>0
  <2>3. UNCHANGED <<day, mode, holding, candidate, approval, event, evidence, observation>>
    BY <1>8 DEF BeginChecks
  <2>4. QED
    BY <2>1, <2>2, <2>3
<1>9. CASE ReadCheck
  BY <1>9, ReadTypes DEF ReadCheck
<1>10. CASE Evaluate
  <2>1. candidate' \in CandidateRows
    BY <1>10 DEF Evaluate, CandidateRows
  <2>2. /\ gateCall' = NoGateCall
        /\ UNCHANGED <<day, mode, holding, approval, event, evidence, observation>>
    BY <1>10 DEF Evaluate
  <2>3. gateCall' \in GateCalls /\ gateCall'.at <= day /\ day \in 0..MaxDay
    BY <1>0, <2>2, NoGateCallTypes
  <2>4. QED
    BY <2>1, <2>2, <2>3
<1>11. CASE RecordChecked
  <2>1. gateCall.does \in EventTypes
    BY <1>11 DEF RecordChecked, EventTypes
  <2>2. candidate' \in CandidateRows /\ event' \in [EventTypes -> Days]
    BY <1>11, <2>1, RecordTypes DEF RecordChecked
  <2>3. QED
    BY <1>0, <1>11, <2>2, NoGateCallTypes DEF RecordChecked
<1>12. CASE ChecksEnd
  BY <1>0, <1>12, NoGateCallTypes DEF ChecksEnd
<1>13. ASSUME NEW t \in {"failed", "rolled_back"}, RecordIncident(t) PROVE ReleaseTypeOK'
  <2>1. t \in EventTypes /\ Record(t)
    BY <1>13 DEF RecordIncident, EventTypes
  <2>2. candidate' \in CandidateRows /\ event' \in [EventTypes -> Days]
    BY <2>1, RecordTypes
  <2>3. QED
    BY <1>13, <2>2 DEF RecordIncident
<1>14. CASE UNCHANGED releaseVars
  BY <1>14 DEF releaseVars
<1> HIDE DEF ReleaseTypeOK
<1>15. QED
  BY <1>1, <1>2, <1>3, <1>4, <1>5, <1>6, <1>7, <1>8, <1>9, <1>10, <1>11, <1>12, <1>13, <1>14
  DEF ReleaseNext

-----------------------------------------------------------------------------
(* What the steps leave *)

\* The steps that leave the candidate, its approvals, its events and its call.
Around == UNCHANGED <<candidate, approval, event, gateCall>>

LEMMA StepsOfACandidate ==
    ASSUME [ReleaseNext]_releaseVars
    PROVE  \/ Around
           \/ \E artifacts \in BOOLEAN : Create(artifacts)
           \/ \E o \in Staff, r \in ApprovalRoles, d \in {"approved", "rejected"} : Approve(o, r, d)
           \/ \E does \in {"closed_deployment", "invite_activation", "deployed", "released"} :
                 BeginChecks(does)
           \/ ReadCheck \/ Evaluate \/ RecordChecked \/ ChecksEnd
           \/ \E t \in {"failed", "rolled_back"} : RecordIncident(t)
  BY DEF ReleaseNext, Around, DayBegins, Restart, ConditionTurns, Retain, Observe, releaseVars

LEMMA CallIsAllowedStep ==
    ASSUME ReleaseTypeOK, CallIsAllowed, [ReleaseNext]_releaseVars PROVE CallIsAllowed'
<1> USE DEF CallIsAllowed
<1>1. CASE Around
  BY <1>1 DEF Around
<1>2. ASSUME NEW artifacts \in BOOLEAN, Create(artifacts) PROVE CallIsAllowed'
  <2>1. gateCall.does \in
          {"nothing", "closed_deployment", "invite_activation", "deployed", "released"}
    BY DEF ReleaseTypeOK, GateCalls
  <2>2. QED
    BY <1>2, <2>1 DEF Create, AllowedFrom
<1>3. ASSUME NEW o \in Staff, NEW r \in ApprovalRoles, NEW d \in {"approved", "rejected"},
             Approve(o, r, d)
      PROVE  CallIsAllowed'
  BY <1>3 DEF Approve, CandidateFree
<1>4. ASSUME NEW does \in {"closed_deployment", "invite_activation", "deployed", "released"},
             BeginChecks(does)
      PROVE  CallIsAllowed'
  BY <1>4, BeginTypes DEF BeginChecks
<1>5. CASE ReadCheck
  BY <1>5, ReadTypes DEF ReadCheck
<1>6. CASE Evaluate \/ RecordChecked \/ ChecksEnd
  BY <1>6, NoGateCallTypes DEF Evaluate, RecordChecked, ChecksEnd
<1>7. ASSUME NEW t \in {"failed", "rolled_back"}, RecordIncident(t) PROVE CallIsAllowed'
  BY <1>7 DEF RecordIncident, CandidateFree
<1> HIDE DEF CallIsAllowed
<1>8. QED
  BY <1>1, <1>2, <1>3, <1>4, <1>5, <1>6, <1>7, StepsOfACandidate

LEMMA EventsFitStep ==
    ASSUME ReleaseTypeOK, CallIsAllowed, EventsFit, [ReleaseNext]_releaseVars PROVE EventsFit'
<1> USE DEF EventsFit, EventTypes
<1>0. candidate \in CandidateRows /\ day # Nobody
  BY DEF ReleaseTypeOK
<1>1. CASE Around \/ UNCHANGED <<candidate, event>>
  BY <1>1 DEF Around
<1>2. ASSUME NEW artifacts \in BOOLEAN, Create(artifacts) PROVE EventsFit'
  BY <1>2 DEF Create
<1>3. ASSUME NEW o \in Staff, NEW r \in ApprovalRoles, NEW d \in {"approved", "rejected"},
             Approve(o, r, d)
      PROVE  EventsFit'
  <2>1. CASE d = "approved"
    BY <1>3, <2>1 DEF Approve
  <2>2. CASE d = "rejected"
    <3>1. candidate'.status = "rejected" /\ event' = event
      BY <1>0, <1>3, <2>2 DEF Approve, CandidateRows
    <3>2. candidate.status \in {"draft", "blocked", "ready_closed", "deployed_observing",
                                "ready_invites"}
      BY <1>0, <1>3 DEF Approve, CandidateRows, Terminal
    <3>3. QED
      BY <3>1, <3>2
  <2>3. QED
    BY <2>1, <2>2
<1>4. CASE Evaluate
  <2>1. event' = event /\ candidate.status \in AllowedFrom[gateCall.does]
    BY <1>4 DEF Evaluate, CallIsAllowed
  <2>2. CASE gateCall.does = "closed_deployment"
    <3>1. candidate'.status \in {"ready_closed", "blocked"}
      BY <1>0, <1>4, <2>2 DEF Evaluate, CandidateRows
    <3>2. QED
      BY <2>1, <2>2, <3>1 DEF AllowedFrom
  <2>3. CASE gateCall.does = "invite_activation"
    <3>1. candidate'.status \in {"ready_invites", candidate.status}
      BY <1>0, <1>4, <2>3 DEF Evaluate, CandidateRows
    <3>2. QED
      BY <2>1, <2>3, <3>1 DEF AllowedFrom
  <2>4. QED
    BY <1>4, <2>2, <2>3 DEF Evaluate
<1>5. CASE RecordChecked
  <2>1. gateCall.does \in {"deployed", "released"} /\ Record(gateCall.does)
        /\ candidate.status \in AllowedFrom[gateCall.does]
    BY <1>5 DEF RecordChecked, CallIsAllowed
  <2>2. candidate'.status = StatusAfter[gateCall.does] /\ event'[gateCall.does] = day
        /\ \A u \in EventTypes \ {gateCall.does} : event'[u] = event[u]
    BY <2>1, RecordTypes
  <2>3. CASE gateCall.does = "deployed"
    BY <1>0, <2>1, <2>2, <2>3 DEF StatusAfter, AllowedFrom
  <2>4. CASE gateCall.does = "released"
    BY <1>0, <2>1, <2>2, <2>4 DEF StatusAfter, AllowedFrom
  <2>5. QED
    BY <2>1, <2>3, <2>4
<1>6. ASSUME NEW t \in {"failed", "rolled_back"}, RecordIncident(t) PROVE EventsFit'
  <2>1. Record(t) /\ candidate.status \in AllowedFrom[t]
    BY <1>6 DEF RecordIncident
  <2>2. candidate'.status = StatusAfter[t] /\ event'[t] = day
        /\ \A u \in EventTypes \ {t} : event'[u] = event[u]
    BY <2>1, RecordTypes
  <2>3. QED
    BY <1>0, <2>1, <2>2 DEF StatusAfter, AllowedFrom
<1> HIDE DEF EventsFit
<1>7. QED
  BY <1>1, <1>2, <1>3, <1>4, <1>5, <1>6, StepsOfACandidate DEF BeginChecks, ReadCheck, ChecksEnd

-----------------------------------------------------------------------------
(* Approvals *)

\* A role is decided once.
LEMMA ApprovalsOnlyGrow ==
    ASSUME ReleaseTypeOK, [ReleaseNext]_releaseVars
    PROVE  \A r \in ApprovalRoles : approval[r].decision # "none" => approval'[r] = approval[r]
<1>1. ASSUME NEW o \in Staff, NEW role \in ApprovalRoles, NEW d \in {"approved", "rejected"},
             Approve(o, role, d)
      PROVE  \A r \in ApprovalRoles : approval[r].decision # "none" => approval'[r] = approval[r]
  BY <1>1 DEF Approve, NotYetRecorded, ReleaseTypeOK
<1>2. QED
  BY <1>1, StepsOfACandidate
  DEF Around, Create, BeginChecks, ReadCheck, Evaluate, RecordChecked, ChecksEnd, RecordIncident

LEMMA ApprovalsAreApartStep ==
    ASSUME ReleaseTypeOK, ApprovalsAreApart, [ReleaseNext]_releaseVars PROVE ApprovalsAreApart'
<1> USE DEF ApprovalsAreApart
<1>1. CASE UNCHANGED approval
  BY <1>1
<1>2. ASSUME NEW o \in Staff, NEW role \in ApprovalRoles, NEW d \in {"approved", "rejected"},
             Approve(o, role, d)
      PROVE  ApprovalsAreApart'
  <2>1. /\ approval'[role] = [decision |-> d, actor |-> o]
        /\ \A r \in ApprovalRoles \ {role} : approval'[r] = approval[r]
    BY <1>2 DEF Approve, ReleaseTypeOK
  <2>2. o # Creator /\ \A r \in ApprovalRoles : approval[r].actor # o
    BY <1>2 DEF Approve, NotItsCreator, NotYetRecorded
  <2>3. QED
    BY <2>1, <2>2
<1>3. QED
  BY <1>1, <1>2, StepsOfACandidate
  DEF Around, Create, BeginChecks, ReadCheck, Evaluate, RecordChecked, ChecksEnd, RecordIncident

-----------------------------------------------------------------------------
(* What a call has found *)

LEMMA ChecksOfACall ==
    ASSUME NEW does
    PROVE  ChecksOf(does) \in Seq(Checks) /\ Len(ChecksOf(does)) \in Nat
           /\ \A i \in 1..Len(ChecksOf(does)) : ChecksOf(does)[i] \in Checks
<1>1. ClosedChecks \in Seq(Checks) /\ InviteChecks \in Seq(Checks)
  BY ChecksAreChecks
<1>2. ChecksOf(does) \in Seq(Checks)
  BY <1>1 DEF ChecksOf
<1>3. QED
  BY <1>2

\* A call that has gone through its checks with success has found them all.
LEMMA AllFound ==
    ASSUME ReleaseTypeOK, FoundSoFar, gateCall.does # "nothing", gateCall.todo = <<>>, gateCall.ok
    PROVE  \A i \in 1..Len(ChecksOf(gateCall.does)) : Found(ChecksOf(gateCall.does)[i])
<1> DEFINE len == Len(ChecksOf(gateCall.does))
<1>1. len \in Nat
  BY ChecksOfACall
<1> HIDE DEF len
<1>2. PICK n \in 0..len : /\ Len(gateCall.todo) = len - n
                          /\ \A i \in 1..n : Found(ChecksOf(gateCall.does)[i])
  BY DEF FoundSoFar, len
<1>3. n = len
  BY <1>1, <1>2
<1>4. QED
  BY <1>2, <1>3 DEF len

LEMMA InvitesFound ==
    ASSUME ReleaseTypeOK, FoundSoFar, gateCall.does \in {"invite_activation", "released"},
           gateCall.todo = <<>>, gateCall.ok
    PROVE  /\ \A r \in ApprovalRoles : Approved(r)
           /\ StaysFound(observation)
           /\ \A k \in Kinds : StaysFound(evidence[k])
<1>1. ChecksOf(gateCall.does) = InviteChecks
  BY DEF ChecksOf
<1>2. \A i \in 1..Len(InviteChecks) : Found(InviteChecks[i])
  BY <1>1, AllFound
<1>3. Len(Evidence) \in Nat /\ Len(InviteChecks) = Len(Evidence) + 3
  BY ChecksAreChecks
<1>4. Found("observation") /\ Found("approvals")
  BY <1>2, <1>3, ChecksAreChecks
<1>5. ASSUME NEW k \in Kinds PROVE StaysFound(evidence[k])
  <2>1. PICK i \in 1..Len(Evidence) : k = Evidence[i]
    BY DEF Kinds
  <2>2. i + 1 \in 1..Len(InviteChecks) /\ InviteChecks[i + 1] = k
    BY <1>3, <2>1, ChecksAreChecks
  <2>3. Found(k)
    BY <1>2, <2>2
  <2>4. QED
    BY <2>3 DEF Found
<1>6. QED
  BY <1>4, <1>5 DEF Found

LEMMA EngineeringFound ==
    ASSUME ReleaseTypeOK, FoundSoFar, gateCall.does \in {"closed_deployment", "deployed"},
           gateCall.todo = <<>>, gateCall.ok
    PROVE  Approved("engineering")
<1>1. ChecksOf(gateCall.does) = ClosedChecks
  BY DEF ChecksOf
<1>2. \A i \in 1..Len(ClosedChecks) : Found(ClosedChecks[i])
  BY <1>1, AllFound
<1>3. Found("engineering")
  BY <1>2, ChecksAreChecks
<1>4. QED
  BY <1>3 DEF Found

\* The names of the checks differ from those of the evidence.
LEMMA KindsAreApart ==
    \A k \in Kinds : k \in {"acceptance", "diagnostic", "delivered", "webhook"}
<1> SUFFICES ASSUME NEW k \in Kinds
             PROVE  k \in {"acceptance", "diagnostic", "delivered", "webhook"}
  OBVIOUS
<1>1. PICK i \in 1..Len(Evidence) : k = Evidence[i]
  BY DEF Kinds
<1>2. QED
  BY <1>1

LEMMA PassedIsFound ==
    ASSUME NEW check \in Checks, Passes(check) PROVE Found(check)
<1>1. CASE check = "engineering"
  BY <1>1, KindsAreApart DEF Passes, Found
<1>2. CASE check = "approvals"
  BY <1>2, KindsAreApart DEF Passes, Found
<1>3. CASE check = "observation"
  BY <1>3, KindsAreApart DEF Passes, Found, StaysFound
<1>4. CASE check \in {"runtime", "conditions"}
  BY <1>4, KindsAreApart DEF Found
<1>5. CASE check \in Kinds
  <2>1. check \notin {"runtime", "engineering", "observation", "approvals", "conditions"}
    BY <1>5, KindsAreApart
  <2>2. Fresh(evidence[check], gateCall.at)
    BY <2>1 DEF Passes
  <2>3. QED
    BY <2>1, <2>2 DEF Found, StaysFound
<1>6. QED
  BY <1>1, <1>2, <1>3, <1>4, <1>5 DEF Checks

\* What was found stays found while the call lasts: decisions are final, and what is retained
\* meanwhile is younger than the call.
LEMMA FoundStays ==
    ASSUME ReleaseTypeOK, [ReleaseNext]_releaseVars, gateCall'.at = gateCall.at,
           NEW check, Found(check)
    PROVE  Found(check)'
<1>1. \A r \in ApprovalRoles : Approved(r) => Approved(r)'
  BY ApprovalsOnlyGrow DEF Approved
<1>2. "engineering" \in ApprovalRoles
  BY DEF ApprovalRoles
<1>3. day # Nobody /\ day >= gateCall.at
  BY DEF ReleaseTypeOK, GateCalls
<1>4. StaysFound(observation) => StaysFound(observation)'
  <2>1. CASE UNCHANGED observation
    BY <2>1 DEF StaysFound, Fresh
  <2>2. ASSUME NEW passed \in BOOLEAN, Observe(passed) PROVE StaysFound(observation)'
    BY <1>3, <2>2 DEF Observe, StaysFound
  <2>3. QED
    BY <2>1, <2>2 DEF ReleaseNext, DayBegins, Restart, ConditionTurns, Retain, Create, Approve,
       BeginChecks, ReadCheck, Evaluate, RecordChecked, ChecksEnd, RecordIncident, releaseVars
<1>5. check \in Kinds /\ StaysFound(evidence[check]) => StaysFound(evidence[check])'
  <2> SUFFICES ASSUME check \in Kinds, StaysFound(evidence[check])
               PROVE  StaysFound(evidence[check])'
    OBVIOUS
  <2>1. CASE UNCHANGED evidence
    BY <2>1 DEF StaysFound, Fresh
  <2>2. ASSUME NEW k \in Kinds, NEW passed \in BOOLEAN, Retain(k, passed)
        PROVE  StaysFound(evidence[check])'
    <3>1. evidence'[check] = evidence[check] \/ evidence'[check] = [end |-> day, passed |-> passed]
      BY <2>2 DEF Retain, ReleaseTypeOK
    <3>2. QED
      BY <1>3, <3>1 DEF StaysFound, Fresh
  <2>3. QED
    BY <2>1, <2>2 DEF ReleaseNext, DayBegins, Restart, ConditionTurns, Observe, Create, Approve,
       BeginChecks, ReadCheck, Evaluate, RecordChecked, ChecksEnd, RecordIncident, releaseVars
<1>6. QED
  BY <1>1, <1>2, <1>4, <1>5 DEF Found

LEMMA FoundSoFarStep ==
    ASSUME ReleaseTypeOK, FoundSoFar, [ReleaseNext]_releaseVars PROVE FoundSoFar'
<1> DEFINE checks == ChecksOf(gateCall.does)
<1>1. CASE UNCHANGED gateCall
  <2> SUFFICES ASSUME gateCall.does # "nothing" PROVE FoundSoFar'
    BY <1>1 DEF FoundSoFar
  <2>1. PICK n \in 0..Len(checks) :
               /\ Len(gateCall.todo) = Len(checks) - n
               /\ \A i \in 1..Len(gateCall.todo) : gateCall.todo[i] = checks[n + i]
               /\ gateCall.ok => \A i \in 1..n : Found(checks[i])
    BY DEF FoundSoFar
  <2>2. ASSUME gateCall.ok, NEW i \in 1..n PROVE Found(checks[i])'
    <3>1. PICK check : check = checks[i]
      OBVIOUS
    <3>2. Found(check)
      BY <2>1, <2>2, <3>1
    <3>3. Found(check)'
      BY <1>1, <3>2, FoundStays
    <3>4. checks' = checks
      BY <1>1 DEF ChecksOf, ClosedChecks, InviteChecks
    <3>5. QED
      BY <3>1, <3>3, <3>4
  <2>3. QED
    BY <1>1, <2>1, <2>2 DEF FoundSoFar, ChecksOf, ClosedChecks, InviteChecks
<1>2. CASE ReadCheck
  <2>1. gateCall.does # "nothing" => FoundSoFar'
    <3> SUFFICES ASSUME gateCall.does # "nothing" PROVE FoundSoFar'
      OBVIOUS
    <3>1. PICK n \in 0..Len(checks) :
                 /\ Len(gateCall.todo) = Len(checks) - n
                 /\ \A i \in 1..Len(gateCall.todo) : gateCall.todo[i] = checks[n + i]
                 /\ gateCall.ok => \A i \in 1..n : Found(checks[i])
      BY DEF FoundSoFar
    <3>2. Len(checks) \in Nat /\ \A i \in 1..Len(checks) : checks[i] \in Checks
      BY ChecksOfACall
    <3>3. gateCall.todo \in Seq(Checks) /\ gateCall.todo # <<>>
      BY <1>2 DEF ReleaseTypeOK, GateCalls, ReadCheck
    <3>4. Len(gateCall.todo) \in Nat \ {0} /\ Head(gateCall.todo) = gateCall.todo[1]
      BY <3>3
    <3>5. n + 1 \in 1..Len(checks) /\ Head(gateCall.todo) = checks[n + 1]
      BY <3>1, <3>2, <3>4
    <3>6. checks[n + 1] \in Checks
      BY <3>2, <3>5
    <3>7. gateCall'.at = gateCall.at /\ gateCall'.does = gateCall.does
          /\ gateCall'.todo = Tail(gateCall.todo)
          /\ gateCall'.ok = (gateCall.ok /\ Passes(checks[n + 1]))
      BY <1>2, <3>5, ReadTypes
    <3>8. ASSUME gateCall'.ok, NEW i \in 1..n+1 PROVE Found(checks[i])'
      <4>1. PICK check : check = checks[i]
        OBVIOUS
      <4>2. gateCall.ok /\ Passes(checks[n + 1])
        BY <3>7, <3>8
      <4>3. i \in 1..n \/ i = n + 1
        OBVIOUS
      <4>4. Found(check)
        BY <3>1, <3>6, <4>1, <4>2, <4>3, PassedIsFound
      <4>5. Found(check)'
        BY <3>7, <4>4, FoundStays
      <4>6. checks' = checks
        BY <3>7 DEF ChecksOf, ClosedChecks, InviteChecks
      <4>7. QED
        BY <4>1, <4>5, <4>6
    <3>9. checks' = checks
      BY <3>7 DEF ChecksOf, ClosedChecks, InviteChecks
    <3>10. /\ Len(Tail(gateCall.todo)) = Len(gateCall.todo) - 1
           /\ \A i \in 1..Len(Tail(gateCall.todo)) : Tail(gateCall.todo)[i] = gateCall.todo[i + 1]
      BY <3>3
    <3>11. \A i \in 1..Len(gateCall'.todo) : gateCall'.todo[i] = checks[n + 1 + i]
      <4> SUFFICES ASSUME NEW i \in 1..Len(Tail(gateCall.todo))
                   PROVE  Tail(gateCall.todo)[i] = checks[n + 1 + i]
        BY <3>7
      <4>1. i + 1 \in 1..Len(gateCall.todo) /\ Tail(gateCall.todo)[i] = gateCall.todo[i + 1]
        BY <3>4, <3>10
      <4>2. gateCall.todo[i + 1] = checks[n + (i + 1)]
        BY <3>1, <4>1
      <4>3. n + (i + 1) = n + 1 + i
        BY <3>4, <3>10
      <4>4. QED
        BY <4>1, <4>2, <4>3
    <3>12. n + 1 \in 0..Len(checks) /\ Len(gateCall'.todo) = Len(checks) - (n + 1)
      BY <3>1, <3>2, <3>5, <3>7, <3>10
    <3> HIDE DEF checks
    <3>13. \E m \in 0..Len(checks') :
              /\ Len(gateCall'.todo) = Len(checks') - m
              /\ \A i \in 1..Len(gateCall'.todo) : gateCall'.todo[i] = checks'[m + i]
              /\ gateCall'.ok => \A i \in 1..m : Found(checks[i])'
      BY <3>8, <3>9, <3>11, <3>12
    <3>14. QED
      BY <3>13 DEF FoundSoFar, checks
  <2>2. gateCall.does = "nothing" => FoundSoFar'
    BY <1>2, ReadTypes DEF FoundSoFar
  <2>3. QED
    BY <2>1, <2>2
<1>3. ASSUME NEW does \in {"closed_deployment", "invite_activation", "deployed", "released"},
             BeginChecks(does)
      PROVE  FoundSoFar'
  <2>1. gateCall'.does = does /\ gateCall'.todo = ChecksOf(does)
    BY <1>3, BeginTypes
  <2>2. ChecksOf(gateCall.does)' = ChecksOf(does)
    BY <2>1 DEF ChecksOf, ClosedChecks, InviteChecks
  <2>3. Len(ChecksOf(does)) \in Nat
    BY ChecksOfACall
  <2>4. 0 \in 0..Len(ChecksOf(does)) /\ Len(gateCall'.todo) = Len(ChecksOf(does)) - 0
        /\ \A i \in 1..Len(gateCall'.todo) : gateCall'.todo[i] = ChecksOf(does)[0 + i]
    BY <2>1, <2>3
  <2>5. QED
    BY <2>2, <2>4 DEF FoundSoFar
<1>4. CASE Evaluate \/ RecordChecked \/ ChecksEnd
  BY <1>4, NoGateCallTypes DEF Evaluate, RecordChecked, ChecksEnd, FoundSoFar
<1>5. QED
  BY <1>1, <1>2, <1>3, <1>4, StepsOfACandidate DEF Around, Create, Approve, RecordIncident

LEMMA EventsAreApprovedStep ==
    ASSUME ReleaseTypeOK, EventsAreApproved, FoundSoFar, [ReleaseNext]_releaseVars
    PROVE  EventsAreApproved'
<1> USE DEF EventsAreApproved
<1>0. /\ "engineering" \in ApprovalRoles /\ candidate \in CandidateRows
      /\ {"deployed", "released", "failed", "rolled_back"} = EventTypes
  BY DEF ApprovalRoles, ReleaseTypeOK, EventTypes
<1>1. \A r \in ApprovalRoles : Approved(r) => Approved(r)'
  BY ApprovalsOnlyGrow DEF Approved
<1>2. CASE UNCHANGED <<candidate, event>>
  BY <1>0, <1>1, <1>2
<1>3. ASSUME NEW artifacts \in BOOLEAN, Create(artifacts) PROVE EventsAreApproved'
  BY <1>0, <1>1, <1>3 DEF Create
<1>4. ASSUME NEW o \in Staff, NEW r \in ApprovalRoles, NEW d \in {"approved", "rejected"},
             Approve(o, r, d)
      PROVE  EventsAreApproved'
  <2>1. event' = event /\ (candidate'.status = "released" => candidate.status = "released")
    BY <1>0, <1>4 DEF Approve, CandidateRows
  <2>2. QED
    BY <1>0, <1>1, <2>1
<1>5. CASE Evaluate
  <2>1. event' = event /\ (candidate'.status = "released" => candidate.status = "released")
    BY <1>0, <1>5 DEF Evaluate, CandidateRows
  <2>2. QED
    BY <1>0, <1>1, <2>1
<1>6. CASE RecordChecked
  <2>1. gateCall.does \in {"deployed", "released"} /\ Record(gateCall.does)
        /\ gateCall.todo = <<>> /\ gateCall.ok
    BY <1>6 DEF RecordChecked
  <2>2. candidate'.status = StatusAfter[gateCall.does]
        /\ \A u \in EventTypes \ {gateCall.does} : event'[u] = event[u]
    BY <1>0, <2>1, RecordTypes
  <2>3. CASE gateCall.does = "deployed"
    BY <1>0, <1>1, <2>1, <2>2, <2>3, EngineeringFound DEF StatusAfter
  <2>4. CASE gateCall.does = "released"
    BY <1>0, <1>1, <2>1, <2>2, <2>4, InvitesFound
  <2>5. QED
    BY <2>1, <2>3, <2>4
<1>7. ASSUME NEW t \in {"failed", "rolled_back"}, RecordIncident(t) PROVE EventsAreApproved'
  <2>1. Record(t)
    BY <1>7 DEF RecordIncident
  <2>2. candidate'.status = StatusAfter[t] /\ \A u \in EventTypes \ {t} : event'[u] = event[u]
    BY <1>0, <2>1, RecordTypes
  <2>3. QED
    BY <1>0, <1>1, <2>2 DEF StatusAfter
<1>8. QED
  BY <1>2, <1>3, <1>4, <1>5, <1>6, <1>7, StepsOfACandidate
  DEF Around, BeginChecks, ReadCheck, ChecksEnd

-----------------------------------------------------------------------------
(* The theorems *)

LEMMA ReleaseNextKeeps == ReleaseInv /\ [ReleaseNext]_releaseVars => ReleaseInv'
BY ReleaseTypeStep, CallIsAllowedStep, EventsFitStep, ApprovalsAreApartStep, FoundSoFarStep,
   EventsAreApprovedStep DEF ReleaseInv

\* What the invariant says is kept by every step of the release of a candidate.
THEOREM ReleaseSafe == ReleaseSpec => []ReleaseInv
<1>1. QED
  BY ReleaseInitInv, ReleaseNextKeeps, PTL DEF ReleaseSpec

\* Every variable of the release keeps its type: a call that reads checks never goes on in
\* another status, at another day or with a check that is none.
THEOREM ReleaseTypeCorrect == ReleaseSpec => []ReleaseTypeOK
<1>1. ReleaseInv => ReleaseTypeOK
  BY DEF ReleaseInv
<1>2. QED
  BY <1>1, ReleaseSafe, PTL

\* record_event: what is released was approved by three operators in three roles, none of them
\* its creator, and what is deployed by an engineer.
THEOREM Approvals == ReleaseSpec => []FourEyes
<1>1. ReleaseInv => FourEyes
  <2> SUFFICES ASSUME ReleaseInv PROVE FourEyes
    OBVIOUS
  <2>1. ASSUME candidate.status = "released", NEW r \in ApprovalRoles
        PROVE  /\ Approved(r) /\ approval[r].actor # Creator
               /\ \A s \in ApprovalRoles \ {r} : approval[s].actor # approval[r].actor
    BY <2>1 DEF ReleaseInv, EventsAreApproved, ApprovalsAreApart, Approved
  <2>2. QED
    BY <2>1 DEF ReleaseInv, EventsAreApproved, FourEyes
<1>2. QED
  BY <1>1, ReleaseSafe, PTL

LEMMA EventsTell == ReleaseInv => EventsTellStatus
<1> SUFFICES ASSUME ReleaseInv PROVE EventsTellStatus
  OBVIOUS
<1>1. candidate.status \in {"absent", "draft", "blocked", "ready_closed", "deployed_observing",
                            "ready_invites", "released", "rolled_back", "rejected"}
  BY DEF ReleaseInv, ReleaseTypeOK, CandidateRows
<1>2. QED
  BY <1>1 DEF ReleaseInv, EventsFit, EventTypes, EventsTellStatus

\* record_event: the status of a candidate and its deployment events never contradict each other.
THEOREM EventsAgree == ReleaseSpec => []EventsTellStatus
<1>1. QED
  BY EventsTell, ReleaseSafe, PTL

\* evaluate, approve, record_event: no call that began earlier revives a candidate that is over.
THEOREM Terminals == ReleaseSpec => TerminalStays
<1>1. ReleaseInv /\ [ReleaseNext]_releaseVars =>
        [/\ candidate.status \in {"rejected", "rolled_back"} => candidate'.status = candidate.status
         /\ candidate.status = "released" =>
              candidate'.status \in {"released", "rolled_back"}]_candidate
  <2> SUFFICES ASSUME ReleaseInv, [ReleaseNext]_releaseVars
               PROVE  [/\ candidate.status \in {"rejected", "rolled_back"} =>
                            candidate'.status = candidate.status
                       /\ candidate.status = "released" =>
                            candidate'.status \in {"released", "rolled_back"}]_candidate
    OBVIOUS
  <2>1. CASE UNCHANGED candidate
    BY <2>1
  <2>2. ASSUME NEW artifacts \in BOOLEAN, Create(artifacts)
        PROVE  candidate.status = "absent"
    BY <2>2 DEF Create
  <2>3. ASSUME NEW o \in Staff, NEW r \in ApprovalRoles, NEW d \in {"approved", "rejected"},
               Approve(o, r, d)
        PROVE  candidate.status \notin Terminal
    BY <2>3 DEF Approve
  <2>4. ASSUME Evaluate \/ RecordChecked
        PROVE  candidate.status \notin {"rejected", "rolled_back", "released"}
    BY <2>4 DEF Evaluate, RecordChecked, ReleaseInv, CallIsAllowed, AllowedFrom
  <2>5. ASSUME NEW t \in {"failed", "rolled_back"}, RecordIncident(t)
        PROVE  /\ candidate.status \notin {"rejected", "rolled_back"}
               /\ candidate'.status = "rolled_back"
    <3>1. Record(t) /\ candidate.status \in AllowedFrom[t]
      BY <2>5 DEF RecordIncident
    <3>2. candidate'.status = StatusAfter[t]
      BY <3>1, RecordTypes DEF EventTypes, ReleaseInv
    <3>3. QED
      BY <3>1, <3>2 DEF AllowedFrom, StatusAfter
  <2>6. QED
    BY <2>1, <2>2, <2>3, <2>4, <2>5, StepsOfACandidate
    DEF Around, BeginChecks, ReadCheck, ChecksEnd, Terminal
<1>2. QED
  BY <1>1, ReleaseSafe, PTL DEF ReleaseSpec, TerminalStays

\* evaluate and record_event: the evidence a release rests on was live when the call began, or has
\* been replaced since.
THEOREM LiveEvidence == ReleaseSpec => ReleasedOnLiveEvidence
<1> DEFINE Live == \A row \in {evidence[k] : k \in Kinds} \cup {observation} :
                      Fresh(row, gateCall.at) \/ (row.end # Nobody /\ row.end >= gateCall.at)
<1>1. ReleaseInv /\ [ReleaseNext]_releaseVars =>
        [event["released"] = Nobody /\ event'["released"] # Nobody => Live]_event
  <2> SUFFICES ASSUME ReleaseInv, [ReleaseNext]_releaseVars,
                      event["released"] = Nobody, event'["released"] # Nobody
               PROVE  Live
    OBVIOUS
  <2>1. ASSUME NEW t \in {"failed", "rolled_back"}, RecordIncident(t) PROVE FALSE
    <3>1. event'["released"] = event["released"]
      BY <2>1, RecordTypes DEF RecordIncident, EventTypes, ReleaseInv
    <3>2. QED
      BY <3>1
  <2>2. RecordChecked
    BY <2>1, StepsOfACandidate
    DEF Around, Create, Approve, BeginChecks, ReadCheck, Evaluate, ChecksEnd
  <2>3. gateCall.does = "released"
    <3>1. gateCall.does \in EventTypes /\ Record(gateCall.does)
          /\ gateCall.does \in {"deployed", "released"}
      BY <2>2 DEF RecordChecked, EventTypes
    <3>2. \A u \in EventTypes \ {gateCall.does} : event'[u] = event[u]
      BY <3>1, RecordTypes DEF ReleaseInv
    <3>3. QED
      BY <3>1, <3>2 DEF EventTypes
  <2>4. StaysFound(observation) /\ \A k \in Kinds : StaysFound(evidence[k])
    BY <2>2, <2>3, InvitesFound DEF RecordChecked, ReleaseInv
  <2>5. QED
    BY <2>4 DEF StaysFound
<1>2. QED
  BY <1>1, ReleaseSafe, PTL DEF ReleaseSpec, ReleasedOnLiveEvidence

-----------------------------------------------------------------------------
(* The five together *)

\* Each of the five takes its own steps or none: what holds of it alone holds beside the others.
LEMMA EachIsItself ==
    OperationsSpec => Spec /\ ReleaseSpec /\ AcceptanceSpec /\ ScheduleSpec /\ ScreeningSpec
<1> DEFINE SideMoves ==
               ConfigurationMoves \/ ReleaseMoves \/ AcceptanceMoves \/ ScheduleMoves
                 \/ ScreeningMoves
<1>1. OperationsInit => Init /\ ReleaseInit /\ AcceptanceInit /\ ScheduleInit /\ ScreeningInit
  BY DEF OperationsInit
<1>2. [SideMoves]_operationsVars =>
        /\ [Next]_vars /\ [ReleaseNext]_releaseVars /\ [AcceptanceNext]_acceptanceVars
        /\ [ScheduleNext]_scheduleVars /\ [ScreeningNext]_screeningVars
  BY DEF operationsVars, ConfigurationMoves, ReleaseMoves, AcceptanceMoves, ScheduleMoves,
         ScreeningMoves
<1>3. QED
  BY <1>1, <1>2, PTL
     DEF OperationsSpec, Spec, ReleaseSpec, AcceptanceSpec, ScheduleSpec, ScreeningSpec

\* The rows and the sessions of the five keep their types, and the rows of each agree: one active
\* and one draft revision, a policy that stands in its latest edition, events that tell a status,
\* and an acceptance that has counted every dataset of every symbol, the policy and the route.
THEOREM OperationsTypeCorrect == OperationsSpec => []OperationsTypeOK
<1>1. /\ TypeOK /\ ReleaseTypeOK /\ AcceptanceTyped /\ ScheduleTypeOK /\ ScreeningTypeOK
      /\ OneActiveOneDraft /\ CurrentIsLatest /\ EventsTellStatus
      => OperationsTypeOK
  BY DEF OperationsTypeOK, AcceptanceTyped
<1>2. AcceptanceSpec => []AcceptanceTyped
  BY AcceptanceTypedInitially, AcceptanceStaysTyped, PTL DEF AcceptanceSpec
<1>3. QED
  BY <1>1, <1>2, EachIsItself, ProviderTypeCorrect, OneOfEach, ReleaseTypeCorrect, EventsAgree,
     ScheduleTypeCorrect, PolicyIsCurrent, ScreeningTypeCorrect, PTL
=============================================================================
