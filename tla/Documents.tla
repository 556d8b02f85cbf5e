----------------------------- MODULE Documents -----------------------------
(***************************************************************************)
(* Resumes and job descriptions: upload, extraction by background workers  *)
(* (app/ingestion/jobs.py on the tables of app/models/ingestion.py), the   *)
(* profile the candidate confirms (app/api/ingestion.py) and what a        *)
(* session takes from both (app/api/sessions.py, app/interview/            *)
(* lifecycle.py).                                                          *)
(*                                                                         *)
(* Abstracted: a document is the set of facts its text states; the model   *)
(* may claim any set of facts, some of which are of the kind that code     *)
(* looks up in the text; delays and leases end at any moment; the          *)
(* refusals of a file before it has a row change nothing and are left out. *)
(***************************************************************************)
EXTENDS Naturals, FiniteSets

CONSTANTS
  Resumes, JobDescriptions,  \* rows that may be created in the two tables
  Extractors,                \* workers, each in its own process
  Facts,                     \* what a text can state or a model can claim
  Checked,                   \* those that are looked up in the text: names of skills,
                             \* quoted requirements, headline and title
  Stated,                    \* document -> the facts its text states
  MaxTries,                  \* RetryPolicy.max_attempts
  MaxFaults, MaxEdits        \* bounds: workers lost or outrun by a lease, profiles sent

Docs == Resumes \cup JobDescriptions

ASSUME DocsAssumption == Resumes \cap JobDescriptions = {}
ASSUME StatedAssumption == Stated \in [Docs -> SUBSET Facts]
ASSUME FactsAssumption == "NULL" \notin Facts /\ Checked \subseteq Facts
ASSUME DocumentBounds == /\ MaxTries \in Nat \ {0}
                         /\ MaxFaults \in Nat /\ MaxEdits \in Nat

VARIABLES
  doc,       \* document -> its row
  work,      \* worker -> the job it claimed, and what became of the call
  asked,     \* history: document -> model calls made for it
  session,   \* the session built from them
  faults, edits

documentVars == <<doc, work, asked, session, faults, edits>>

NoFacts == {"NULL"}
Column == (SUBSET Facts) \cup {NoFacts}
DocRow == [status : {"none", "pending", "processing", "ready", "failed"},
           tries  : Nat, leased : BOOLEAN,
           extracted : Column,       \* the verified suggestion
           profile   : Column]       \* what the candidate confirmed
Absent == [status |-> "none", tries |-> 0, leased |-> FALSE,
           extracted |-> NoFacts, profile |-> NoFacts]

Free == [doc |-> "none", try |-> 0]
Session == [state : {"none", "created", "started"}, topics : Column, priors : Column]
NoSession == [state |-> "none", topics |-> NoFacts, priors |-> NoFacts]

DocumentInit ==
  /\ doc = [d \in Docs |-> Absent]
  /\ work = [w \in Extractors |-> Free]
  /\ asked = [d \in Docs |-> 0]
  /\ session = NoSession
  /\ faults = 0 /\ edits = 0

(***************************************************************************)
(* The candidate.  Every upload is a row of its own.                       *)
(***************************************************************************)
Upload(d) ==
  /\ doc[d].status = "none"
  /\ doc' = [doc EXCEPT ![d].status = "pending"]
  /\ UNCHANGED <<work, asked, session, faults, edits>>

(* PATCH .../profile replaces the profile as a whole, at any time, and no  *)
(* other column.                                                           *)
ConfirmProfile(d) ==
  /\ d \in Resumes /\ doc[d].status # "none" /\ edits < MaxEdits
  /\ \E facts \in SUBSET Facts : doc' = [doc EXCEPT ![d].profile = facts]
  /\ edits' = edits + 1
  /\ UNCHANGED <<work, asked, session, faults>>

(* POST /api/sessions without topics: a job description that is ready and  *)
(* gives some, or 409 / 422.  Every topic comes with a requirement that    *)
(* was kept; the model says which of them map to one (topic_weights).      *)
CreateSession ==
  /\ session.state = "none"
  /\ \E j \in JobDescriptions :
       /\ doc[j].status = "ready"
       /\ \E topics \in SUBSET (doc[j].extracted \cap Checked) :
            /\ topics # {}
            /\ session' = [session EXCEPT !.state = "created", !.topics = topics]
  /\ UNCHANGED <<doc, work, asked, faults, edits>>

(* Seeded bug: an unconfirmed resume seeds its suggestion.                 *)
StartFromSuggestion ==
  /\ session.state = "created"
  /\ \E d \in Resumes :
       session' = [session EXCEPT !.state = "started",
                                  !.priors = IF doc[d].profile = NoFacts
                                             THEN doc[d].extracted ELSE doc[d].profile]
  /\ UNCHANGED <<doc, work, asked, faults, edits>>

(* _preparation: priors from the confirmed profile, read once.             *)
StartFromDocuments ==
  /\ session.state = "created"
  /\ \E d \in Resumes :
       session' = [session EXCEPT !.state = "started", !.priors = doc[d].profile]
  /\ UNCHANGED <<doc, work, asked, faults, edits>>

(***************************************************************************)
(* The workers.                                                            *)
(***************************************************************************)
(* Seeded bug: an abandoned claim is never taken over.                     *)
QueuedPendingOnly(d) == doc[d].status = "pending"

Queued(d) == \/ doc[d].status = "pending"
             \/ doc[d].status = "processing" /\ ~doc[d].leased

(* _CLAIM; a claim past the budget calls no model.                         *)
TakeDocument(w, d) ==
  /\ work[w] = Free /\ Queued(d)
  /\ doc' = [doc EXCEPT ![d].status = "processing", ![d].tries = @ + 1, ![d].leased = TRUE]
  /\ work' = [work EXCEPT ![w] = [doc |-> d, try |-> doc[d].tries + 1]]
  /\ asked' = [asked EXCEPT ![d] = @ + IF doc[d].tries < MaxTries THEN 1 ELSE 0]
  /\ UNCHANGED <<session, faults, edits>>

Busy(w) == work[w] # Free

(* Seeded bug: the row is written by its id alone.                         *)
OwnsAlways(w) == Busy(w)

(* The fence of _finish.                                                   *)
Owns(w) ==
  LET d == work[w].doc
  IN  doc[d].status = "processing" /\ doc[d].tries = work[w].try

(* _finish with these values; a stale worker changes no row.               *)
Finish(w, status, extracted) ==
  LET d == work[w].doc
  IN  /\ doc' = IF Owns(w)
                THEN [doc EXCEPT ![d].status = status, ![d].leased = FALSE,
                                 ![d].extracted = extracted]
                ELSE doc
      /\ work' = [work EXCEPT ![w] = Free]
      /\ UNCHANGED <<asked, session, faults, edits>>

Kept(w) == doc[work[w].doc].extracted
InBudget(w) == Busy(w) /\ work[w].try <= MaxTries

(* Seeded bug: what the model says is stored unverified.                   *)
VerifiedNot(d, claims) == claims

(* verify_resume, verify_jd: a claim that is looked up and not found goes; *)
(* years of experience, the evidence for a skill, the importance and topic *)
(* of a requirement are stored as the model gave them.                     *)
Verified(d, claims) == {fact \in claims : fact \in Checked => fact \in Stated[d]}

Extracts(w) ==
  /\ InBudget(w)
  /\ \E claims \in SUBSET Facts : Finish(w, "ready", Verified(work[w].doc, claims))

(* A transient error goes back to the queue while tries are left.          *)
ExtractLater(w) ==
  /\ InBudget(w) /\ work[w].try < MaxTries
  /\ Finish(w, "pending", Kept(w))

(* A permanent error, the last transient one, or a claim past the budget.  *)
GiveUp(w) ==
  /\ Busy(w)
  /\ Finish(w, "failed", Kept(w))

LoseWorker(w) ==
  /\ Busy(w) /\ faults < MaxFaults
  /\ work' = [work EXCEPT ![w] = Free]
  /\ faults' = faults + 1
  /\ UNCHANGED <<doc, asked, session, edits>>

Carried(d) == \E w \in Extractors : work[w].doc = d /\ Owns(w)

Unlease(d) == doc' = [doc EXCEPT ![d].leased = FALSE]

(* The lease of a claim nobody works on any more runs out ...              *)
LeaseEnds(d) ==
  /\ doc[d].status = "processing" /\ doc[d].leased /\ ~Carried(d)
  /\ Unlease(d)
  /\ UNCHANGED <<work, asked, session, faults, edits>>

(* ... and so may that of a worker stalled beyond its own timeout.         *)
LeaseOutruns(d) ==
  /\ doc[d].status = "processing" /\ doc[d].leased /\ Carried(d) /\ faults < MaxFaults
  /\ Unlease(d)
  /\ faults' = faults + 1
  /\ UNCHANGED <<work, asked, session, edits>>

Extraction(w) == (\E d \in Docs : TakeDocument(w, d))
                   \/ Extracts(w) \/ ExtractLater(w) \/ GiveUp(w)

DocumentNext ==
  \/ \E d \in Docs : Upload(d) \/ ConfirmProfile(d) \/ LeaseEnds(d) \/ LeaseOutruns(d)
  \/ CreateSession \/ StartFromDocuments
  \/ \E w \in Extractors : Extraction(w) \/ LoseWorker(w)

(* Workers poll for ever and calls have a deadline, so one of them goes on *)
(* while any can; a lease that nobody works under runs out.                *)
DocumentFairness ==
  /\ WF_documentVars(\E w \in Extractors : Extraction(w))
  /\ WF_documentVars(\E d \in Docs : LeaseEnds(d))

DocumentSpec == DocumentInit /\ [][DocumentNext]_documentVars /\ DocumentFairness

(***************************************************************************)
(* Properties.                                                             *)
(***************************************************************************)
DocumentTypeOK ==
  /\ doc \in [Docs -> DocRow]
  /\ work \in [Extractors -> [doc : Docs \cup {"none"}, try : Nat]]
  /\ asked \in [Docs -> Nat]
  /\ session \in Session

(* The requirements behind a session's topics are stated, all in one text. *)
TopicsAreStated == \E j \in JobDescriptions : session.topics \subseteq Stated[j]

(* No skill and no requirement is fabricated: what a suggestion names or   *)
(* quotes is in the document; it exists exactly when the extraction        *)
(* succeeded, and cost at most MaxTries model calls.  A session's topics   *)
(* all rest on requirements that one job description states; its priors    *)
(* never on a suggestion.                                                  *)
SuggestionsAreEarned ==
  /\ \A d \in Docs :
       /\ doc[d].status = "ready" <=> doc[d].extracted # NoFacts
       /\ doc[d].extracted # NoFacts => doc[d].extracted \cap Checked \subseteq Stated[d]
       /\ asked[d] <= MaxTries
  /\ session.state # "none" => TopicsAreStated
  /\ edits = 0 => session.priors = NoFacts

(* What extraction.py:13 says of all of it, "A parser cannot add a fact the *)
(* document does not contain", is false of the facts that are not checked, *)
(* a number of years for one (extraction.py:221, 272).  No run checks it.  *)
NothingIsAdded ==
  \A d \in Docs : doc[d].extracted # NoFacts => doc[d].extracted \subseteq Stated[d]

(* A worker that outlived its lease never rewrites a settled row, and no   *)
(* worker ever touches what the candidate confirmed.                       *)
SettledDocumentsAreFinal ==
  [][\A d \in Docs :
       /\ doc[d].status \in {"ready", "failed"}
            => doc'[d] = [doc[d] EXCEPT !.profile = doc'[d].profile]
       /\ doc'[d].profile # doc[d].profile => work' = work]_documentVars

(* No uploaded document is pending or processing for ever, however many    *)
(* workers are lost.                                                       *)
DocumentsAreSettled ==
  \A d \in Docs : []<>(doc[d].status \in {"none", "ready", "failed"})

(***************************************************************************)
(* The inductive invariant behind them.                                    *)
(***************************************************************************)
(* No more model calls than claims, no claim without a document, and no    *)
(* profile nobody sent.                                                    *)
CallsAreClaimed == \A d \in Docs : asked[d] <= doc[d].tries
ClaimsHaveDocuments == \A w \in Extractors : work[w] = Free \/ work[w].doc \in Docs
ProfilesAreSent == edits = 0 => \A d \in Docs : doc[d].profile = NoFacts

DocumentInv == /\ DocumentTypeOK /\ ClaimsHaveDocuments /\ CallsAreClaimed /\ ProfilesAreSent
               /\ SuggestionsAreEarned /\ edits \in Nat
=============================================================================
