--------------------------- MODULE ServicesProofs ---------------------------
(***************************************************************************)
(* Proofs about the calls to a language model and the extraction of        *)
(* documents: what an outage may cost however many calls are under way,    *)
(* and that no suggestion is made up, lost or rewritten however many       *)
(* workers there are and however many of them are lost.                    *)
(***************************************************************************)
EXTENDS MCServices, FiniteSetTheorems, WellFoundedInduction, TLAPS

-----------------------------------------------------------------------------
(***************************************************************************)
(* Documents.                                                              *)
(***************************************************************************)
(* Writing one document's row keeps the rows typed.                        *)
LEMMA RowWrite ==
  ASSUME doc \in [Docs -> DocRow], NEW d \in Docs, NEW row \in DocRow,
         doc' = [doc EXCEPT ![d] = row]
  PROVE  /\ doc' \in [Docs -> DocRow] /\ doc'[d] = row
         /\ \A e \in Docs : e # d => doc'[e] = doc[e]
  OBVIOUS

(* The columns a claim, a lease and a result write.                        *)
LEMMA RowFields ==
  ASSUME NEW row \in DocRow
  PROVE  /\ \A s : [row EXCEPT !.status = s]
                  = [status |-> s, tries |-> row.tries, leased |-> row.leased,
                     extracted |-> row.extracted, profile |-> row.profile]
         /\ \A p : [row EXCEPT !.profile = p]
                  = [status |-> row.status, tries |-> row.tries, leased |-> row.leased,
                     extracted |-> row.extracted, profile |-> p]
         /\ \A l : [row EXCEPT !.leased = l]
                  = [status |-> row.status, tries |-> row.tries, leased |-> l,
                     extracted |-> row.extracted, profile |-> row.profile]
         /\ \A t : [row EXCEPT !.tries = t]
                  = [status |-> row.status, tries |-> t, leased |-> row.leased,
                     extracted |-> row.extracted, profile |-> row.profile]
         /\ \A x : [row EXCEPT !.extracted = x]
                  = [status |-> row.status, tries |-> row.tries, leased |-> row.leased,
                     extracted |-> x, profile |-> row.profile]
<1>1. row = [status |-> row.status, tries |-> row.tries, leased |-> row.leased,
             extracted |-> row.extracted, profile |-> row.profile]
  BY DEF DocRow
<1> QED BY <1>1

(* "NULL" is no set of facts.                                              *)
LEMMA NoFactsApart == NoFacts \notin SUBSET Facts
  BY FactsAssumption DEF NoFacts

(* Nothing is uploaded yet.                                                *)
LEMMA DocumentInitInv == DocumentInit => DocumentInv
<1> SUFFICES ASSUME DocumentInit PROVE DocumentInv
  OBVIOUS
<1> USE DEF DocumentInit, Absent, Free, NoSession
<1>1. DocumentTypeOK
  <2>1. Absent \in DocRow
    BY DEF DocRow, Column
  <2>2. Free \in [doc : Docs \cup {"none"}, try : Nat]
    OBVIOUS
  <2>3. NoSession \in Session
    BY DEF Session, Column
  <2> HIDE DEF Absent, Free, NoSession
  <2> QED BY <2>1, <2>2, <2>3 DEF DocumentTypeOK
<1>2. SuggestionsAreEarned
  BY DocumentBounds DEF SuggestionsAreEarned
<1>3. CallsAreClaimed /\ ClaimsHaveDocuments /\ ProfilesAreSent
  BY DEF CallsAreClaimed, ClaimsHaveDocuments, ProfilesAreSent
<1> QED BY <1>1, <1>2, <1>3 DEF DocumentInv

(* What a document step that writes one row must ensure.                   *)
LEMMA DocumentRowStep ==
  ASSUME DocumentInv, NEW d \in Docs, NEW row \in DocRow,
         doc' = [doc EXCEPT ![d] = row],
         work' \in [Extractors -> [doc : Docs \cup {"none"}, try : Nat]],
         ClaimsHaveDocuments',
         asked' \in [Docs -> Nat], \A e \in Docs : e # d => asked'[e] = asked[e],
         asked'[d] <= row.tries, asked'[d] <= MaxTries,
         row.status = "ready" <=> row.extracted # NoFacts,
         row.extracted # NoFacts => row.extracted \cap Checked \subseteq Stated[d],
         edits' \in Nat, edits <= edits', edits' = 0 => row.profile = doc[d].profile,
         session' = session
  PROVE  DocumentInv'
<1>1. /\ doc \in [Docs -> DocRow] /\ session \in Session /\ edits \in Nat
      /\ \A e \in Docs : asked[e] <= doc[e].tries
  BY DEF DocumentInv, DocumentTypeOK, CallsAreClaimed
<1>2. /\ doc' \in [Docs -> DocRow] /\ doc'[d] = row
      /\ \A e \in Docs : e # d => doc'[e] = doc[e]
  BY <1>1, RowWrite
<1>3. DocumentTypeOK'
  BY <1>1, <1>2 DEF DocumentTypeOK
<1>4. CallsAreClaimed'
  BY <1>1, <1>2 DEF CallsAreClaimed
<1>5. edits' = 0 => edits = 0
  BY <1>1
<1>6. ProfilesAreSent'
  BY <1>2, <1>5 DEF DocumentInv, ProfilesAreSent
<1>7. SuggestionsAreEarned'
  <2>1. \A e \in Docs : /\ doc'[e].status = "ready" <=> doc'[e].extracted # NoFacts
                        /\ doc'[e].extracted # NoFacts => doc'[e].extracted \cap Checked \subseteq Stated[e]
                        /\ asked'[e] <= MaxTries
    BY <1>2 DEF DocumentInv, SuggestionsAreEarned
  <2>2. edits' = 0 => session'.priors = NoFacts
    BY <1>5 DEF DocumentInv, SuggestionsAreEarned
  <2>3. session'.state # "none" => TopicsAreStated'
    BY DEF DocumentInv, SuggestionsAreEarned, TopicsAreStated
  <2> QED BY <2>1, <2>2, <2>3 DEF SuggestionsAreEarned
<1> QED BY <1>3, <1>4, <1>6, <1>7 DEF DocumentInv

(* What a step that writes no row must ensure.                             *)
LEMMA DocumentsKeptStep ==
  ASSUME DocumentInv, UNCHANGED <<doc, asked, edits>>,
         work' \in [Extractors -> [doc : Docs \cup {"none"}, try : Nat]],
         ClaimsHaveDocuments',
         session' \in Session, edits = 0 => session'.priors = NoFacts,
         session'.state # "none" => TopicsAreStated'
  PROVE  DocumentInv'
  BY DEF DocumentInv, DocumentTypeOK, CallsAreClaimed, ProfilesAreSent, SuggestionsAreEarned

(* The candidate's steps.                                                  *)
LEMMA UploadStep ==
  ASSUME DocumentInv, NEW d \in Docs, Upload(d) PROVE DocumentInv'
<1> DEFINE row == [status |-> "pending", tries |-> doc[d].tries, leased |-> doc[d].leased,
                   extracted |-> doc[d].extracted, profile |-> doc[d].profile]
<1>1. /\ doc \in [Docs -> DocRow] /\ doc[d] \in DocRow /\ doc[d].status = "none"
      /\ doc' = [doc EXCEPT ![d].status = "pending"]
      /\ UNCHANGED <<work, asked, session, faults, edits>>
  BY DEF DocumentInv, DocumentTypeOK, Upload
<1>2. row \in DocRow
  BY <1>1 DEF DocRow
<1>3. doc' = [doc EXCEPT ![d] = row]
  <2>1. doc' = [doc EXCEPT ![d] = [doc[d] EXCEPT !.status = "pending"]]
    BY <1>1
  <2>2. [doc[d] EXCEPT !.status = "pending"] = row
    BY <1>1, RowFields
  <2> HIDE DEF row
  <2> QED BY <2>1, <2>2
<1>4. doc[d].extracted = NoFacts /\ asked[d] <= doc[d].tries /\ asked[d] <= MaxTries
  BY <1>1 DEF DocumentInv, SuggestionsAreEarned, CallsAreClaimed
<1>5. /\ row.tries = doc[d].tries /\ row.extracted = NoFacts /\ row.status = "pending"
      /\ row.profile = doc[d].profile
  BY <1>4
<1> HIDE DEF row
<1>6. edits \in Nat /\ edits <= edits' /\ edits' \in Nat
  BY <1>1 DEF DocumentInv
<1>7. /\ work' \in [Extractors -> [doc : Docs \cup {"none"}, try : Nat]]
      /\ asked' \in [Docs -> Nat] /\ \A e \in Docs : e # d => asked'[e] = asked[e]
      /\ ClaimsHaveDocuments'
  BY <1>1 DEF DocumentInv, DocumentTypeOK, ClaimsHaveDocuments
<1> QED BY <1>1, <1>2, <1>3, <1>4, <1>5, <1>6, <1>7, DocumentRowStep

(* A profile is sent by the candidate; it is no suggestion.                *)
LEMMA ConfirmStep ==
  ASSUME DocumentInv, NEW d \in Docs, ConfirmProfile(d) PROVE DocumentInv'
<1>1. PICK facts \in SUBSET Facts : doc' = [doc EXCEPT ![d].profile = facts]
  BY DEF ConfirmProfile
<1> DEFINE row == [status |-> doc[d].status, tries |-> doc[d].tries,
                   leased |-> doc[d].leased,
                   extracted |-> doc[d].extracted, profile |-> facts]
<1>2. /\ doc \in [Docs -> DocRow] /\ doc[d] \in DocRow
      /\ UNCHANGED <<work, asked, session, faults>> /\ edits' = edits + 1 /\ edits \in Nat
  BY DEF DocumentInv, DocumentTypeOK, ConfirmProfile
<1>3. row \in DocRow
  BY <1>2 DEF DocRow, Column
<1>4. doc' = [doc EXCEPT ![d] = row]
  <2>1. doc' = [doc EXCEPT ![d] = [doc[d] EXCEPT !.profile = facts]]
    BY <1>1
  <2> QED BY <1>2, <2>1, RowFields
<1>5. /\ doc[d].status = "ready" <=> doc[d].extracted # NoFacts
      /\ doc[d].extracted # NoFacts => doc[d].extracted \cap Checked \subseteq Stated[d]
      /\ asked[d] <= MaxTries /\ asked[d] <= doc[d].tries
  BY DEF DocumentInv, SuggestionsAreEarned, CallsAreClaimed
<1>6. /\ row.tries = doc[d].tries /\ row.extracted = doc[d].extracted
      /\ row.status = doc[d].status
  OBVIOUS
<1> HIDE DEF row
<1>7. edits' # 0 /\ edits <= edits' /\ edits' \in Nat
  BY <1>2
<1>8. /\ work' \in [Extractors -> [doc : Docs \cup {"none"}, try : Nat]]
      /\ asked' \in [Docs -> Nat] /\ \A e \in Docs : e # d => asked'[e] = asked[e]
      /\ ClaimsHaveDocuments'
  BY <1>2 DEF DocumentInv, DocumentTypeOK, ClaimsHaveDocuments
<1> QED BY <1>2, <1>3, <1>4, <1>5, <1>6, <1>7, <1>8, DocumentRowStep

(* A session takes topics from the requirements that were found in a job   *)
(* description, and priors from a profile.                                 *)
LEMMA SessionStep ==
  ASSUME DocumentInv, CreateSession \/ StartFromDocuments PROVE DocumentInv'
<1>1. /\ doc \in [Docs -> DocRow] /\ session \in Session
      /\ work \in [Extractors -> [doc : Docs \cup {"none"}, try : Nat]]
      /\ edits = 0 => session.priors = NoFacts /\ \A d \in Docs : doc[d].profile = NoFacts
      /\ session.state # "none" => TopicsAreStated
  BY DEF DocumentInv, DocumentTypeOK, ProfilesAreSent, SuggestionsAreEarned
<1>2. /\ session' \in Session /\ (edits = 0 => session'.priors = NoFacts)
      /\ TopicsAreStated'
      /\ UNCHANGED <<doc, work, asked, faults, edits>>
  <2>1. CASE CreateSession
    <3>0. PICK j \in JobDescriptions :
            /\ doc[j].status = "ready"
            /\ \E topics \in SUBSET (doc[j].extracted \cap Checked) :
                 session' = [session EXCEPT !.state = "created", !.topics = topics]
      BY <2>1 DEF CreateSession
    <3>1. PICK topics \in SUBSET (doc[j].extracted \cap Checked) :
            session' = [session EXCEPT !.state = "created", !.topics = topics]
      BY <3>0
    <3>2. topics \in Column
      BY FactsAssumption DEF Column
    <3>3. /\ session' \in Session /\ session'.priors = session.priors
          /\ session'.topics = topics
      BY <1>1, <3>1, <3>2 DEF Session
    <3>4. topics \subseteq Stated[j]
      BY <3>0 DEF DocumentInv, SuggestionsAreEarned, Docs
    <3>5. TopicsAreStated'
      BY <3>3, <3>4 DEF TopicsAreStated
    <3> QED BY <1>1, <2>1, <3>3, <3>5 DEF CreateSession
  <2>2. CASE StartFromDocuments
    <3>1. PICK d \in Resumes :
            session' = [session EXCEPT !.state = "started", !.priors = doc[d].profile]
      BY <2>2 DEF StartFromDocuments
    <3>2. d \in Docs /\ doc[d].profile \in Column
      BY <1>1 DEF DocRow, Docs
    <3>3. /\ session' \in Session /\ session'.priors = doc[d].profile
          /\ session'.topics = session.topics
      BY <1>1, <3>1, <3>2 DEF Session
    <3>4. TopicsAreStated'
      BY <1>1, <2>2, <3>3 DEF StartFromDocuments, TopicsAreStated
    <3> QED BY <1>1, <2>2, <3>2, <3>3, <3>4 DEF StartFromDocuments
  <2> QED BY <2>1, <2>2
<1>3. ClaimsHaveDocuments'
  BY <1>2 DEF DocumentInv, ClaimsHaveDocuments
<1> QED BY <1>1, <1>2, <1>3, DocumentsKeptStep

(***************************************************************************)
(* The workers' steps.                                                     *)
(***************************************************************************)
(* A claim counts a try and takes a lease.                                 *)
LEMMA ClaimWrite ==
  ASSUME doc \in [Docs -> DocRow], NEW d \in Docs,
         doc' = [doc EXCEPT ![d].status = "processing", ![d].tries = @ + 1,
                            ![d].leased = TRUE]
  PROVE  doc' = [doc EXCEPT ![d] =
           [status |-> "processing", tries |-> doc[d].tries + 1, leased |-> TRUE,
            extracted |-> doc[d].extracted, profile |-> doc[d].profile]]
<1> DEFINE one == [doc[d] EXCEPT !.status = "processing"]
           two == [one EXCEPT !.tries = doc[d].tries + 1]
<1>1. doc[d] \in DocRow
  OBVIOUS
<1>2. one = [status |-> "processing", tries |-> doc[d].tries, leased |-> doc[d].leased,
             extracted |-> doc[d].extracted, profile |-> doc[d].profile]
  BY <1>1, RowFields
<1>3. one \in DocRow
  BY <1>1, <1>2 DEF DocRow
<1>4. two = [status |-> "processing", tries |-> doc[d].tries + 1, leased |-> doc[d].leased,
             extracted |-> doc[d].extracted, profile |-> doc[d].profile]
  <2> HIDE DEF one
  <2>1. two = [status |-> one.status, tries |-> doc[d].tries + 1, leased |-> one.leased,
               extracted |-> one.extracted, profile |-> one.profile]
    BY <1>3, RowFields
  <2> QED BY <1>2, <2>1
<1>5. two \in DocRow
  BY <1>1, <1>4 DEF DocRow
<1>6. doc'[d] = [two EXCEPT !.leased = TRUE]
  BY <1>1 DEF DocRow
<1>7. doc'[d] = [status |-> "processing", tries |-> doc[d].tries + 1, leased |-> TRUE,
                 extracted |-> doc[d].extracted, profile |-> doc[d].profile]
  <2> HIDE DEF two
  <2>1. [two EXCEPT !.leased = TRUE]
          = [status |-> two.status, tries |-> two.tries, leased |-> TRUE,
             extracted |-> two.extracted, profile |-> two.profile]
    BY <1>5, RowFields
  <2> QED BY <1>4, <1>6, <2>1
<1>8. /\ DOMAIN doc' = Docs /\ \A e \in Docs : e # d => doc'[e] = doc[e]
      /\ doc' = [e \in Docs |-> doc'[e]]
  OBVIOUS
<1> QED BY <1>7, <1>8

(* A result releases the lease and writes status and suggestion.           *)
ResultRow(d, status, extracted) ==
  [status |-> status, tries |-> doc[d].tries, leased |-> FALSE,
   extracted |-> extracted, profile |-> doc[d].profile]

(* ... and the row is then this one.                                       *)
LEMMA ResultWrite ==
  ASSUME doc \in [Docs -> DocRow], NEW w \in Extractors, NEW d \in Docs, d = work[w].doc,
         NEW status \in {"pending", "ready", "failed"}, NEW extracted \in Column,
         Owns(w), Finish(w, status, extracted)
  PROVE  doc' = [doc EXCEPT ![d] = ResultRow(d, status, extracted)]
<1>0. doc' = [doc EXCEPT ![d].status = status, ![d].leased = FALSE,
                         ![d].extracted = extracted]
  BY DEF Finish
<1> DEFINE one == [doc[d] EXCEPT !.status = status]
           two == [one EXCEPT !.leased = FALSE]
<1>1. doc[d] \in DocRow
  OBVIOUS
<1>2. one = [status |-> status, tries |-> doc[d].tries, leased |-> doc[d].leased,
             extracted |-> doc[d].extracted, profile |-> doc[d].profile]
  BY <1>1, RowFields
<1>3. one \in DocRow
  BY <1>1, <1>2 DEF DocRow
<1>4. two = [status |-> status, tries |-> doc[d].tries, leased |-> FALSE,
             extracted |-> doc[d].extracted, profile |-> doc[d].profile]
  <2> HIDE DEF one
  <2>1. two = [status |-> one.status, tries |-> one.tries, leased |-> FALSE,
               extracted |-> one.extracted, profile |-> one.profile]
    BY <1>3, RowFields
  <2> QED BY <1>2, <2>1
<1>5. two \in DocRow
  BY <1>1, <1>4 DEF DocRow
<1>6. doc'[d] = [two EXCEPT !.extracted = extracted]
  BY <1>0, <1>1 DEF DocRow
<1>7. doc'[d] = [status |-> status, tries |-> doc[d].tries, leased |-> FALSE,
                 extracted |-> extracted, profile |-> doc[d].profile]
  <2> HIDE DEF two
  <2>1. [two EXCEPT !.extracted = extracted]
          = [status |-> two.status, tries |-> two.tries, leased |-> two.leased,
             extracted |-> extracted, profile |-> two.profile]
    BY <1>5, RowFields
  <2> QED BY <1>4, <1>6, <2>1
<1>8. /\ DOMAIN doc' = Docs /\ \A e \in Docs : e # d => doc'[e] = doc[e]
      /\ doc' = [e \in Docs |-> doc'[e]]
  BY <1>0
<1> QED BY <1>7, <1>8 DEF ResultRow

(* A claim counts before it calls, so tries bound the calls.               *)
LEMMA TakeStep ==
  ASSUME DocumentInv, NEW w \in Extractors, NEW d \in Docs, TakeDocument(w, d)
  PROVE  DocumentInv'
<1> DEFINE row == [status |-> "processing", tries |-> doc[d].tries + 1, leased |-> TRUE,
                   extracted |-> doc[d].extracted, profile |-> doc[d].profile]
           calls == IF doc[d].tries < MaxTries THEN 1 ELSE 0
<1>1. /\ doc \in [Docs -> DocRow] /\ doc[d] \in DocRow
      /\ work \in [Extractors -> [doc : Docs \cup {"none"}, try : Nat]]
      /\ asked \in [Docs -> Nat]
      /\ UNCHANGED <<session, faults, edits>> /\ edits \in Nat
      /\ work' = [work EXCEPT ![w] = [doc |-> d, try |-> doc[d].tries + 1]]
      /\ asked' = [asked EXCEPT ![d] = @ + calls]
      /\ doc[d].status \in {"pending", "processing"}
  BY DEF DocumentInv, DocumentTypeOK, TakeDocument, Queued
<1>2. doc[d].tries \in Nat /\ MaxTries \in Nat
  BY <1>1, DocumentBounds DEF DocRow
<1>3. row \in DocRow
  BY <1>1, <1>2 DEF DocRow
<1>4. doc' = [doc EXCEPT ![d] = row]
  BY <1>1, ClaimWrite DEF TakeDocument
<1>5. doc[d].extracted = NoFacts /\ asked[d] <= doc[d].tries /\ asked[d] <= MaxTries
  BY <1>1 DEF DocumentInv, SuggestionsAreEarned, CallsAreClaimed
<1>6. /\ asked' \in [Docs -> Nat] /\ asked'[d] = asked[d] + calls
      /\ \A e \in Docs : e # d => asked'[e] = asked[e]
  BY <1>1
<1>7. asked'[d] <= doc[d].tries + 1 /\ asked'[d] <= MaxTries
  BY <1>1, <1>2, <1>5, <1>6
<1>8. work' \in [Extractors -> [doc : Docs \cup {"none"}, try : Nat]] /\ ClaimsHaveDocuments'
  BY <1>1, <1>2 DEF DocumentInv, ClaimsHaveDocuments
<1>9. /\ row.tries = doc[d].tries + 1 /\ row.extracted = NoFacts
      /\ row.status = "processing" /\ row.profile = doc[d].profile
  BY <1>5
<1>10. edits' \in Nat /\ edits <= edits'
  BY <1>1
<1> HIDE DEF row, calls
<1> QED BY <1>1, <1>3, <1>4, <1>5, <1>6, <1>7, <1>8, <1>9, <1>10, DocumentRowStep

(* A result counts only under its claim, and names only what the text      *)
(* states.                                                                 *)
LEMMA FinishStep ==
  ASSUME DocumentInv, NEW w \in Extractors, NEW status, NEW extracted,
         Busy(w), Finish(w, status, extracted),
         \/ status = "ready" /\ \E claims \in SUBSET Facts :
                                  extracted = Verified(work[w].doc, claims)
         \/ status \in {"pending", "failed"} /\ extracted = Kept(w)
  PROVE  DocumentInv'
<1> DEFINE d == work[w].doc
           row == ResultRow(d, status, extracted)
<1>1. /\ doc \in [Docs -> DocRow] /\ asked \in [Docs -> Nat] /\ session \in Session
      /\ work \in [Extractors -> [doc : Docs \cup {"none"}, try : Nat]]
      /\ edits = 0 => session.priors = NoFacts
      /\ edits \in Nat /\ UNCHANGED <<asked, session, faults, edits>>
      /\ session'.state # "none" => TopicsAreStated'
  BY DEF DocumentInv, DocumentTypeOK, Finish, SuggestionsAreEarned, TopicsAreStated
<1>2. work' \in [Extractors -> [doc : Docs \cup {"none"}, try : Nat]] /\ ClaimsHaveDocuments'
  BY <1>1 DEF Finish, Free, DocumentInv, ClaimsHaveDocuments
<1>3. CASE ~Owns(w)
  <2>1. doc' = doc
    BY <1>3 DEF Finish
  <2> QED BY <1>1, <1>2, <2>1, DocumentsKeptStep
<1>4. CASE Owns(w) /\ d \in Docs
  <2>1. /\ doc[d] \in DocRow /\ doc[d].status = "processing"
        /\ doc' = [doc EXCEPT ![d].status = status, ![d].leased = FALSE,
                              ![d].extracted = extracted]
    BY <1>1, <1>4 DEF Finish, Owns
  <2>2. /\ doc[d].extracted = NoFacts /\ asked[d] <= doc[d].tries /\ asked[d] <= MaxTries
    BY <1>4, <2>1 DEF DocumentInv, SuggestionsAreEarned, CallsAreClaimed
  <2>3. \/ /\ status = "ready" /\ extracted \in SUBSET Facts
           /\ extracted \cap Checked \subseteq Stated[d]
        \/ status \in {"pending", "failed"} /\ extracted = NoFacts
    BY <2>2 DEF Verified, Kept
  <2>4. /\ extracted \in Column /\ status \in {"pending", "ready", "failed"}
        /\ status = "ready" <=> extracted # NoFacts
        /\ extracted # NoFacts => extracted \cap Checked \subseteq Stated[d]
    BY <2>3, NoFactsApart DEF Column
  <2> HIDE DEF d
  <2>5. doc' = [doc EXCEPT ![d] = row]
    <3>1. d \in Docs /\ d = work[w].doc
      BY <1>4 DEF d
    <3>2. status \in {"pending", "ready", "failed"} /\ extracted \in Column
      BY <2>4
    <3> QED BY <1>1, <1>4, <3>1, <3>2, ResultWrite
  <2>6. row \in DocRow
    BY <2>1, <2>4 DEF DocRow, ResultRow
  <2>7. /\ row.tries = doc[d].tries /\ row.extracted = extracted /\ row.status = status
        /\ row.profile = doc[d].profile
    BY DEF ResultRow
  <2> HIDE DEF row
  <2>8. asked' \in [Docs -> Nat] /\ asked'[d] = asked[d] /\ \A e \in Docs : asked'[e] = asked[e]
    BY <1>1
  <2>9. edits' \in Nat /\ edits <= edits'
    BY <1>1
  <2>10. /\ row.status = "ready" <=> row.extracted # NoFacts
         /\ row.extracted # NoFacts => row.extracted \cap Checked \subseteq Stated[d]
         /\ asked'[d] <= row.tries /\ asked'[d] <= MaxTries
    BY <2>2, <2>4, <2>7, <2>8
  <2> QED BY <1>1, <1>2, <1>4, <2>5, <2>6, <2>7, <2>8, <2>9, <2>10, DocumentRowStep
<1>5. d \in Docs
  BY DEF DocumentInv, ClaimsHaveDocuments, Busy
<1> QED BY <1>3, <1>4, <1>5

(* Losing a worker touches no row.                                         *)
LEMMA LoseWorkerStep ==
  ASSUME DocumentInv, NEW w \in Extractors, LoseWorker(w) PROVE DocumentInv'
<1>1. /\ UNCHANGED <<doc, asked, session, edits>> /\ work' = [work EXCEPT ![w] = Free]
      /\ work \in [Extractors -> [doc : Docs \cup {"none"}, try : Nat]]
      /\ session \in Session /\ (edits = 0 => session.priors = NoFacts)
      /\ session'.state # "none" => TopicsAreStated'
  BY DEF LoseWorker, DocumentInv, DocumentTypeOK, SuggestionsAreEarned, TopicsAreStated
<1>2. work' \in [Extractors -> [doc : Docs \cup {"none"}, try : Nat]]
  BY <1>1 DEF Free
<1>3. ClaimsHaveDocuments'
  BY <1>1 DEF DocumentInv, ClaimsHaveDocuments
<1> QED BY <1>1, <1>2, <1>3, DocumentsKeptStep

(* A lease that ends says nothing about the result.                        *)
LEMMA UnleaseStep ==
  ASSUME DocumentInv, NEW d \in Docs, LeaseEnds(d) \/ LeaseOutruns(d) PROVE DocumentInv'
<1> DEFINE row == [status |-> doc[d].status, tries |-> doc[d].tries, leased |-> FALSE,
                   extracted |-> doc[d].extracted, profile |-> doc[d].profile]
<1>1. /\ doc \in [Docs -> DocRow] /\ doc[d] \in DocRow /\ edits \in Nat
      /\ UNCHANGED <<work, asked, session, edits>>
      /\ doc' = [doc EXCEPT ![d].leased = FALSE]
  BY DEF LeaseEnds, LeaseOutruns, Unlease, DocumentInv, DocumentTypeOK
<1>2. row \in DocRow
  BY <1>1 DEF DocRow
<1>3. doc' = [doc EXCEPT ![d] = row]
  <2>1. doc' = [doc EXCEPT ![d] = [doc[d] EXCEPT !.leased = FALSE]]
    BY <1>1
  <2>2. [doc[d] EXCEPT !.leased = FALSE] = row
    BY <1>1, RowFields
  <2> HIDE DEF row
  <2> QED BY <2>1, <2>2
<1>4. /\ asked[d] <= row.tries /\ asked[d] <= MaxTries
      /\ row.status = "ready" <=> row.extracted # NoFacts
      /\ row.extracted # NoFacts => row.extracted \cap Checked \subseteq Stated[d]
      /\ row.profile = doc[d].profile
  BY DEF DocumentInv, CallsAreClaimed, SuggestionsAreEarned
<1> HIDE DEF row
<1>5. edits' \in Nat /\ edits <= edits'
  BY <1>1
<1>6. /\ work' \in [Extractors -> [doc : Docs \cup {"none"}, try : Nat]]
      /\ asked' \in [Docs -> Nat] /\ \A e \in Docs : e # d => asked'[e] = asked[e]
      /\ ClaimsHaveDocuments'
  BY <1>1 DEF DocumentInv, DocumentTypeOK, ClaimsHaveDocuments
<1> QED BY <1>1, <1>2, <1>3, <1>4, <1>5, <1>6, DocumentRowStep

(* Every step of the candidate and the workers keeps the invariant.        *)
LEMMA DocumentNextInv == DocumentInv /\ [DocumentNext]_documentVars => DocumentInv'
<1> SUFFICES ASSUME DocumentInv, [DocumentNext]_documentVars PROVE DocumentInv'
  OBVIOUS
<1>1. CASE \E d \in Docs : Upload(d) \/ ConfirmProfile(d) \/ LeaseEnds(d) \/ LeaseOutruns(d)
  BY <1>1, UploadStep, ConfirmStep, UnleaseStep
<1>2. CASE CreateSession \/ StartFromDocuments
  BY <1>2, SessionStep
<1>3. CASE \E w \in Extractors : Extraction(w) \/ LoseWorker(w)
  <2>1. PICK w \in Extractors : Extraction(w) \/ LoseWorker(w)
    BY <1>3
  <2>2. CASE LoseWorker(w)
    BY <2>2, LoseWorkerStep
  <2>3. CASE \E d \in Docs : TakeDocument(w, d)
    BY <2>3, TakeStep
  <2>4. CASE Extracts(w)
    BY <2>4, FinishStep DEF Extracts, InBudget
  <2>5. CASE ExtractLater(w)
    BY <2>5, FinishStep DEF ExtractLater, InBudget
  <2>6. CASE GiveUp(w)
    BY <2>6, FinishStep DEF GiveUp
  <2> QED BY <2>1, <2>2, <2>3, <2>4, <2>5, <2>6 DEF Extraction
<1>4. CASE UNCHANGED documentVars
  BY <1>4 DEF documentVars, DocumentInv, DocumentTypeOK, ClaimsHaveDocuments,
              CallsAreClaimed, ProfilesAreSent, SuggestionsAreEarned, TopicsAreStated
<1> QED BY <1>1, <1>2, <1>3, <1>4 DEF DocumentNext

(* The invariant behind the two that follow.                               *)
THEOREM DocumentInvariance == DocumentSpec => []DocumentInv
<1> QED BY DocumentInitInv, DocumentNextInv, PTL DEF DocumentSpec

(* What a suggestion names or quotes is in its document, and it exists     *)
(* exactly when the extraction succeeded; a document costs at most         *)
(* MaxTries model calls; a session's topics rest on requirements that one  *)
(* job description states, its priors on what the candidate confirmed      *)
(* (jobs.py, _claim and _finish, and lifecycle.py's _preparation).         *)
THEOREM SuggestionsEarned == DocumentSpec => []SuggestionsAreEarned
<1>1. DocumentInv => SuggestionsAreEarned
  BY DEF DocumentInv
<1> QED BY DocumentInvariance, <1>1, PTL

-----------------------------------------------------------------------------
(* A settled row changes at most in its profile, and a profile only when   *)
(* no worker moves.                                                        *)
RowsSettle ==
  \A d \in Docs :
    /\ doc[d].status \in {"ready", "failed"}
         => doc'[d] = [doc[d] EXCEPT !.profile = doc'[d].profile]
    /\ doc'[d].profile # doc[d].profile => work' = work

(* A row that is not written is settled.                                   *)
LEMMA UnwrittenRow ==
  ASSUME NEW row \in DocRow PROVE row = [row EXCEPT !.profile = row.profile]
  BY DEF DocRow

(* What a step must ensure that writes one row.                            *)
LEMMA OneRowSettles ==
  ASSUME doc \in [Docs -> DocRow], NEW d \in Docs,
         \A e \in Docs : e # d => doc'[e] = doc[e],
         doc[d].status \notin {"ready", "failed"}, doc'[d].profile = doc[d].profile
  PROVE  RowsSettle
<1>1. \A e \in Docs : doc[e] = [doc[e] EXCEPT !.profile = doc[e].profile]
  BY UnwrittenRow
<1> QED BY <1>1 DEF RowsSettle

(* Only the candidate writes a settled row, and only its profile.          *)
LEMMA StepsSettle ==
  ASSUME DocumentInv, DocumentNext PROVE RowsSettle
<1>1. doc \in [Docs -> DocRow]
  BY DEF DocumentInv, DocumentTypeOK
<1>2. ASSUME doc' = doc PROVE RowsSettle
  <2>1. \A e \in Docs : doc[e] = [doc[e] EXCEPT !.profile = doc[e].profile]
    BY <1>1, UnwrittenRow
  <2> QED BY <1>2, <2>1 DEF RowsSettle
<1>3. ASSUME NEW d \in Docs, Upload(d) PROVE RowsSettle
  <2>1. /\ \A e \in Docs : e # d => doc'[e] = doc[e]
        /\ doc[d].status = "none" /\ doc'[d].profile = doc[d].profile
    BY <1>1, <1>3 DEF Upload, DocRow
  <2> QED BY <1>1, <2>1, OneRowSettles
<1>4. ASSUME NEW d \in Docs, ConfirmProfile(d) PROVE RowsSettle
  <2>1. PICK facts \in SUBSET Facts : doc' = [doc EXCEPT ![d].profile = facts]
    BY <1>4 DEF ConfirmProfile
  <2>2. doc'[d] = [doc[d] EXCEPT !.profile = facts] /\ doc'[d].profile = facts
    BY <1>1, <2>1 DEF DocRow
  <2>3. \A e \in Docs : e # d => doc'[e] = doc[e]
    BY <1>1, <2>1
  <2>4. \A e \in Docs : doc[e] = [doc[e] EXCEPT !.profile = doc[e].profile]
    BY <1>1, UnwrittenRow
  <2>5. \A e \in Docs : doc'[e] = [doc[e] EXCEPT !.profile = doc'[e].profile]
    BY <2>2, <2>3, <2>4
  <2> QED BY <1>4, <2>5 DEF ConfirmProfile, RowsSettle
<1>5. ASSUME NEW d \in Docs, LeaseEnds(d) \/ LeaseOutruns(d) PROVE RowsSettle
  <2>1. /\ \A e \in Docs : e # d => doc'[e] = doc[e]
        /\ doc[d].status = "processing" /\ doc'[d].profile = doc[d].profile
    BY <1>1, <1>5 DEF LeaseEnds, LeaseOutruns, Unlease, DocRow
  <2> QED BY <1>1, <2>1, OneRowSettles
<1>6. ASSUME NEW w \in Extractors, NEW d \in Docs, TakeDocument(w, d) PROVE RowsSettle
  <2>1. /\ \A e \in Docs : e # d => doc'[e] = doc[e]
        /\ doc[d].status \in {"pending", "processing"}
        /\ doc'[d].profile = doc[d].profile
    <3>1. doc' = [doc EXCEPT ![d].status = "processing", ![d].tries = @ + 1,
                             ![d].leased = TRUE]
      BY <1>6 DEF TakeDocument
    <3>2. doc' = [doc EXCEPT ![d] =
            [status |-> "processing", tries |-> doc[d].tries + 1, leased |-> TRUE,
             extracted |-> doc[d].extracted, profile |-> doc[d].profile]]
      BY <1>1, <3>1, ClaimWrite
    <3>3. doc[d].status \in {"pending", "processing"}
      BY <1>6 DEF TakeDocument, Queued
    <3> QED BY <1>1, <3>2, <3>3
  <2> QED BY <1>1, <2>1, OneRowSettles
<1>7. ASSUME NEW w \in Extractors, NEW status \in {"pending", "ready", "failed"},
             NEW extracted \in Column, Busy(w), Finish(w, status, extracted)
      PROVE  RowsSettle
  <2>1. CASE ~Owns(w)
    BY <1>2, <1>7, <2>1 DEF Finish
  <2>2. CASE Owns(w)
    <3>1. work[w].doc \in Docs
      BY <1>7 DEF DocumentInv, ClaimsHaveDocuments, Busy
    <3>2. PICK d \in Docs : d = work[w].doc
      BY <3>1
    <3>3. doc' = [doc EXCEPT ![d] = ResultRow(d, status, extracted)]
      BY <1>1, <1>7, <2>2, <3>2, ResultWrite
    <3>4. doc'[d].profile = doc[d].profile /\ \A e \in Docs : e # d => doc'[e] = doc[e]
      BY <1>1, <3>3 DEF ResultRow
    <3>5. doc[d].status = "processing"
      BY <2>2, <3>2 DEF Owns
    <3> QED BY <1>1, <3>4, <3>5, OneRowSettles
  <2> QED BY <2>1, <2>2
<1>8. ASSUME NEW w \in Extractors, Extracts(w) \/ ExtractLater(w) \/ GiveUp(w)
      PROVE  RowsSettle
  <2>1. work[w].doc \in Docs /\ Busy(w)
    BY <1>8 DEF DocumentInv, ClaimsHaveDocuments, Extracts, ExtractLater, GiveUp,
               InBudget, Busy
  <2>2. Kept(w) \in Column
    BY <1>1, <2>1 DEF Kept, DocRow
  <2>3. \A claims \in SUBSET Facts : Verified(work[w].doc, claims) \in Column
    BY DEF Verified, Column
  <2>4. CASE Extracts(w)
    BY <1>7, <2>1, <2>3, <2>4 DEF Extracts
  <2>5. CASE ExtractLater(w)
    BY <1>7, <2>1, <2>2, <2>5 DEF ExtractLater
  <2>6. CASE GiveUp(w)
    BY <1>7, <2>1, <2>2, <2>6 DEF GiveUp
  <2> QED BY <1>8, <2>4, <2>5, <2>6
<1>9. ASSUME CreateSession \/ StartFromDocuments \/ \E w \in Extractors : LoseWorker(w)
      PROVE  RowsSettle
  BY <1>2, <1>9 DEF CreateSession, StartFromDocuments, LoseWorker
<1> QED BY <1>3, <1>4, <1>5, <1>6, <1>8, <1>9 DEF DocumentNext, Extraction

(* A worker that outlived its lease never rewrites a settled row, and no   *)
(* worker touches what the candidate confirmed (the fence of _finish).     *)
THEOREM SettledIsFinal == DocumentSpec => SettledDocumentsAreFinal
<1>1. DocumentInv /\ [DocumentNext]_documentVars => [RowsSettle]_documentVars
  BY StepsSettle
<1>2. [][RowsSettle]_documentVars => SettledDocumentsAreFinal
  BY PTL DEF RowsSettle, SettledDocumentsAreFinal
<1> QED BY DocumentInvariance, <1>1, <1>2, PTL DEF DocumentSpec

-----------------------------------------------------------------------------
(***************************************************************************)
(* Calls to a language model.                                              *)
(***************************************************************************)
(* Every non-empty set of naturals has a least element.                    *)
LEMMA LeastNumber ==
  ASSUME NEW S, S \subseteq Nat, S # {}
  PROVE  \E n \in S : \A m \in S : n <= m
<1> DEFINE R == OpToRel(<, Nat)
<1>1. IsWellFoundedOn(R, Nat)
  BY NatLessThanWellFounded
<1>2. PICK n \in S : \A m \in S : ~(<<m, n>> \in R)
  <2> HIDE DEF R
  <2> QED BY <1>1, WFMin
<1>3. \A m \in S : ~(m < n)
  BY <1>2 DEF OpToRel
<1> QED BY <1>3

(* The router settles on the first provider whose circuit is not open, or  *)
(* runs out of providers.                                                  *)
LEMMA ReachedIs ==
  ASSUME NEW b, NEW i \in 1..(Len(Order) + 1)
  PROVE  /\ Reached(b, i) \in i..(Len(Order) + 1)
         /\ Reached(b, i) <= Len(Order) => ~IsOpen(b, Order[Reached(b, i)])
<1> DEFINE N == Len(Order)
           Good(j) == /\ \A k \in i..(j - 1) : IsOpen(b, Order[k])
                      /\ j <= N => ~IsOpen(b, Order[j])
           Shut == {j \in i..N : ~IsOpen(b, Order[j])}
<1>1. N \in Nat \ {0} /\ i \in Nat
  BY OrderAssumption
<1> HIDE DEF N
<1>2. \E j \in i..(N + 1) : Good(j)
  <2>1. CASE Shut = {}
    <3>1. N + 1 \in i..(N + 1) /\ ~(N + 1 <= N) /\ (N + 1) - 1 = N
      BY <1>1 DEF N
    <3>2. \A k \in i..N : IsOpen(b, Order[k])
      BY <2>1
    <3> QED BY <3>1, <3>2
  <2>2. CASE Shut # {}
    <3>1. Shut \subseteq Nat
      BY <1>1
    <3>2. PICK j \in Shut : \A m \in Shut : j <= m
      <4> HIDE DEF Shut
      <4> QED BY <2>2, <3>1, LeastNumber
    <3>3. j \in i..(N + 1) /\ j \in Nat /\ j <= N /\ ~IsOpen(b, Order[j])
      BY <1>1, <3>2
    <3>4. \A k \in i..(j - 1) : k \in i..N /\ ~(j <= k)
      BY <1>1, <3>3
    <3>5. \A k \in i..(j - 1) : IsOpen(b, Order[k])
      BY <3>2, <3>4
    <3> QED BY <3>3, <3>5
  <2> QED BY <2>1, <2>2
<1>3. Reached(b, i) = CHOOSE j \in i..(N + 1) : Good(j)
  BY DEF Reached, N
<1> HIDE DEF Good
<1>4. Reached(b, i) \in i..(N + 1) /\ Good(Reached(b, i))
  BY <1>2, <1>3
<1> QED BY <1>4 DEF N, Good

(* What the breaker's operations do to one entry.                          *)
LEMMA BreakerMoves ==
  ASSUME NEW b \in [Providers -> Entry], NEW p \in Providers
  PROVE  /\ Looked(b, p) \in [Providers -> Entry]
         /\ Looked(b, p)[p] \in {b[p], Closed}
         /\ ~IsOpen(b, p) => Looked(b, p)[p].open = "no"
         /\ Success(b, p) \in [Providers -> Entry] /\ Success(b, p)[p] = Closed
         /\ Failure(b, p) \in [Providers -> Entry]
         /\ Failure(b, p)[p].failures = b[p].failures + 1
         /\ Failure(b, p)[p].open = IF b[p].failures + 1 >= Threshold /\ b[p].open = "no"
                                    THEN "open" ELSE b[p].open
         /\ \A q \in Providers : q # p => /\ Looked(b, p)[q] = b[q]
                                          /\ Success(b, p)[q] = b[q]
                                          /\ Failure(b, p)[q] = b[q]
<1>1. Closed \in Entry /\ Closed.open = "no" /\ Closed.failures = 0
  BY DEF Closed, Entry
<1>2. b[p] \in Entry /\ b[p].failures \in Nat /\ b[p].open \in {"no", "open", "elapsed"}
  BY DEF Entry
<1>3. /\ Looked(b, p) \in [Providers -> Entry] /\ Looked(b, p)[p] \in {b[p], Closed}
      /\ ~IsOpen(b, p) => Looked(b, p)[p].open = "no"
      /\ \A q \in Providers : q # p => Looked(b, p)[q] = b[q]
  BY <1>1, <1>2 DEF Looked, IsOpen
<1>4. /\ Success(b, p) \in [Providers -> Entry] /\ Success(b, p)[p] = Closed
      /\ \A q \in Providers : q # p => Success(b, p)[q] = b[q]
  BY <1>1 DEF Success
<1>5. /\ Failure(b, p) \in [Providers -> Entry]
      /\ Failure(b, p)[p].failures = b[p].failures + 1
      /\ Failure(b, p)[p].open = IF b[p].failures + 1 >= Threshold /\ b[p].open = "no"
                                 THEN "open" ELSE b[p].open
      /\ \A q \in Providers : q # p => Failure(b, p)[q] = b[q]
  <2> DEFINE entry == [failures |-> b[p].failures + 1,
                       open |-> IF b[p].failures + 1 >= Threshold /\ b[p].open = "no"
                                THEN "open" ELSE b[p].open]
  <2>1. entry \in Entry
    BY <1>2 DEF Entry
  <2>2. Failure(b, p) = [b EXCEPT ![p] = entry]
    BY DEF Failure
  <2>3. /\ Failure(b, p) \in [Providers -> Entry] /\ Failure(b, p)[p] = entry
        /\ \A q \in Providers : q # p => Failure(b, p)[q] = b[q]
    <3> HIDE DEF entry
    <3> QED BY <2>1, <2>2
  <2> QED BY <2>3
<1> QED BY <1>3, <1>4, <1>5

(* The attempts left on provider p by the calls of cs, and the bound of    *)
(* the invariant for a breaker b and calls cs.                             *)
Left(cs, p) ==
  {a \in Callers \X (1..MaxAttempts) :
     LET k == cs[a[1]]
     IN  k.pc \in Trying /\ Order[k.at] = p /\ Used(k) < a[2]}

PaidFor(b, cs) ==
  \A p \in Providers :
    IF b[p].open = "no"
    THEN b[p].failures < Threshold
    ELSE b[p].failures + Cardinality(Left(cs, p))
           <= Threshold - 1 + MaxAttempts * Cardinality(Callers)

(* All attempts of all calls.                                              *)
LEMMA AllAttempts ==
  LET all == Callers \X (1..MaxAttempts)
  IN  /\ IsFiniteSet(all) /\ Cardinality(all) = MaxAttempts * Cardinality(Callers)
      /\ Cardinality(all) \in Nat
<1>1. IsFiniteSet(1..MaxAttempts) /\ Cardinality(1..MaxAttempts) = MaxAttempts
  BY FS_Interval, CallBounds
<1>2. /\ IsFiniteSet(Callers \X (1..MaxAttempts))
      /\ Cardinality(Callers \X (1..MaxAttempts)) = Cardinality(Callers) * Cardinality(1..MaxAttempts)
  BY <1>1, FS_Product, CallersAssumption
<1>3. Cardinality(Callers) \in Nat /\ MaxAttempts \in Nat
  BY FS_CardinalityType, CallersAssumption, CallBounds
<1>4. Cardinality(Callers \X (1..MaxAttempts)) = MaxAttempts * Cardinality(Callers)
  BY <1>1, <1>2, <1>3
<1>5. Cardinality(Callers \X (1..MaxAttempts)) \in Nat
  BY <1>2, FS_CardinalityType
<1> QED BY <1>2, <1>4, <1>5

(* Fewer attempts are left when one of them is made.                       *)
LEMMA FewerLeft ==
  ASSUME NEW cs, NEW ds, NEW p, Left(ds, p) \subseteq Left(cs, p)
  PROVE  /\ Cardinality(Left(ds, p)) \in Nat /\ Cardinality(Left(cs, p)) \in Nat
         /\ Cardinality(Left(ds, p)) <= Cardinality(Left(cs, p))
         /\ \A a \in Left(cs, p) : a \notin Left(ds, p)
              => Cardinality(Left(ds, p)) <= Cardinality(Left(cs, p)) - 1
<1>1. Left(cs, p) \subseteq Callers \X (1..MaxAttempts)
  BY DEF Left
<1>2. IsFiniteSet(Left(cs, p))
  BY <1>1, AllAttempts, FS_Subset
<1>3. /\ IsFiniteSet(Left(ds, p)) /\ Cardinality(Left(ds, p)) <= Cardinality(Left(cs, p))
      /\ Cardinality(Left(cs, p)) \in Nat /\ Cardinality(Left(ds, p)) \in Nat
  BY <1>2, FS_Subset, FS_CardinalityType
<1>4. ASSUME NEW a \in Left(cs, p), a \notin Left(ds, p)
      PROVE  Cardinality(Left(ds, p)) <= Cardinality(Left(cs, p)) - 1
  <2>1. Cardinality(Left(ds, p)) # Cardinality(Left(cs, p))
    BY <1>2, <1>4, FS_Subset
  <2> QED BY <1>3, <2>1
<1> QED BY <1>3, <1>4

(* Calls that leave, or use attempts up, keep the bound.                   *)
LEMMA PaidByMoving ==
  ASSUME NEW b \in [Providers -> Entry], NEW cs, NEW ds, PaidFor(b, cs),
         \A p \in Providers : b[p].open # "no" => Left(ds, p) \subseteq Left(cs, p)
  PROVE  PaidFor(b, ds)
<1>1. ASSUME NEW p \in Providers, b[p].open # "no"
      PROVE  b[p].failures + Cardinality(Left(ds, p))
               <= Threshold - 1 + MaxAttempts * Cardinality(Callers)
  <2>1. /\ Cardinality(Left(ds, p)) \in Nat /\ Cardinality(Left(cs, p)) \in Nat
        /\ Cardinality(Left(ds, p)) <= Cardinality(Left(cs, p))
    BY <1>1, FewerLeft
  <2>2. b[p].failures \in Nat /\ Threshold \in Nat
    BY CallBounds DEF Entry
  <2>3. MaxAttempts * Cardinality(Callers) \in Nat
    BY AllAttempts
  <2>4. b[p].failures + Cardinality(Left(cs, p))
          <= Threshold - 1 + MaxAttempts * Cardinality(Callers)
    BY <1>1 DEF PaidFor
  <2> QED BY <2>1, <2>2, <2>3, <2>4
<1> QED BY <1>1 DEF PaidFor

(* Circuits that close owe nothing.                                        *)
LEMMA PaidByClosing ==
  ASSUME NEW b \in [Providers -> Entry], NEW b2 \in [Providers -> Entry], NEW cs,
         PaidFor(b, cs), \A p \in Providers : b2[p] \in {b[p], Closed}
  PROVE  PaidFor(b2, cs)
  BY CallBounds DEF PaidFor, Closed

(* A failure is paid for by the attempt that failed.                       *)
LEMMA PaidByFailing ==
  ASSUME NEW b \in [Providers -> Entry], NEW cs, NEW ds, PaidFor(b, cs),
         NEW p \in Providers, NEW a \in Left(cs, p), a \notin Left(ds, p),
         \A q \in Providers : Left(ds, q) \subseteq Left(cs, q)
  PROVE  PaidFor(Failure(b, p), ds)
<1> DEFINE B == MaxAttempts * Cardinality(Callers)
           after == Failure(b, p)
<1>1. /\ b[p].failures \in Nat /\ Threshold \in Nat \ {0} /\ B \in Nat
  BY CallBounds, AllAttempts DEF Entry
<1>2. /\ after[p].failures = b[p].failures + 1
      /\ after[p].open = IF b[p].failures + 1 >= Threshold /\ b[p].open = "no"
                         THEN "open" ELSE b[p].open
      /\ \A q \in Providers : q # p => after[q] = b[q]
  BY BreakerMoves
<1>3. PaidFor(b, ds)
  BY PaidByMoving
<1>4. /\ Cardinality(Left(ds, p)) \in Nat /\ Cardinality(Left(cs, p)) \in Nat
      /\ Cardinality(Left(ds, p)) <= Cardinality(Left(cs, p)) - 1
  BY FewerLeft
<1>5. Cardinality(Left(cs, p)) <= B
  <2>1. Left(cs, p) \subseteq Callers \X (1..MaxAttempts)
    BY DEF Left
  <2> QED BY <2>1, AllAttempts, FS_Subset
<1>6. IF b[p].open = "no" THEN b[p].failures < Threshold
      ELSE b[p].failures + Cardinality(Left(cs, p)) <= Threshold - 1 + B
  BY DEF PaidFor
<1> HIDE DEF B, after
<1>7. IF after[p].open = "no" THEN after[p].failures < Threshold
      ELSE after[p].failures + Cardinality(Left(ds, p)) <= Threshold - 1 + B
  <2>1. CASE b[p].open = "no" /\ b[p].failures + 1 >= Threshold
    BY <1>1, <1>2, <1>4, <1>5, <1>6, <2>1
  <2>2. CASE b[p].open = "no" /\ ~(b[p].failures + 1 >= Threshold)
    BY <1>1, <1>2, <2>2
  <2>3. CASE b[p].open # "no"
    BY <1>1, <1>2, <1>4, <1>6, <2>3
  <2> QED BY <2>1, <2>2, <2>3
<1>8. \A q \in Providers : q # p =>
        IF after[q].open = "no" THEN after[q].failures < Threshold
        ELSE after[q].failures + Cardinality(Left(ds, q)) <= Threshold - 1 + B
  BY <1>2, <1>3 DEF PaidFor, B
<1> QED BY <1>7, <1>8 DEF PaidFor, B, after

-----------------------------------------------------------------------------
(* A call that may be under way.                                           *)
CallOK(k) ==
  /\ k \in Call /\ k.at <= Len(Order) /\ k.attempt < MaxAttempts /\ k.repairs <= MaxRepairs
  /\ k.pc \in Trying => k.at \in 1..Len(Order)
  /\ k.pc = "backoff" => k.attempt + 1 < MaxAttempts

(* What the router's invariant says of one call, and of the rest.          *)
LEMMA OutageInvIs ==
  OutageInv <=>
    /\ breaker \in [Providers -> Entry]
    /\ mode \in [Providers -> Nat] /\ \A p \in Providers : mode[p] \in 1..Rungs[p]
    /\ cached \in {"none", "answer"}
    /\ call \in [Callers -> Call] /\ \A c \in Callers : CallOK(call[c])
    /\ PaidFor(breaker, call)
<1>1. OutageIsPaidFor <=> PaidFor(breaker, call)
  BY DEF OutageIsPaidFor, PaidFor, AttemptsLeft, Left
<1>2. (call \in [Callers -> Call]) =>
        ((\A c \in Callers : CallOK(call[c])) <=>
           /\ \A c \in Callers : /\ call[c].at <= Len(Order) /\ call[c].attempt < MaxAttempts
                                 /\ call[c].repairs <= MaxRepairs
           /\ CallsAreRouted)
  BY DEF CallOK, CallsAreRouted
<1> QED BY <1>1, <1>2 DEF OutageInv, RouterTypeOK

(* The same for the state after a step.                                    *)
LEMMA OutageInvWillBe ==
  ASSUME breaker' \in [Providers -> Entry],
         mode' \in [Providers -> Nat], \A p \in Providers : mode'[p] \in 1..Rungs[p],
         cached' \in {"none", "answer"},
         call' \in [Callers -> Call], \A c \in Callers : CallOK(call'[c]),
         PaidFor(breaker', call')
  PROVE  OutageInv'
<1>1. OutageIsPaidFor'
  BY DEF OutageIsPaidFor, PaidFor, AttemptsLeft, Left
<1>2. CallsAreRouted'
  BY DEF CallOK, CallsAreRouted
<1>3. RouterTypeOK'
  BY DEF CallOK, RouterTypeOK
<1> QED BY <1>1, <1>2, <1>3 DEF OutageInv

(* A call that is over is in order.                                        *)
LEMMA IdleOK == CallOK(Idle) /\ Idle \in Call /\ Idle.pc \notin Trying
<1>1. Len(Order) \in Nat \ {0} /\ MaxAttempts \in Nat \ {0} /\ MaxRepairs \in Nat
  BY OrderAssumption, CallBounds
<1>2. Idle \in Call
  BY DEF Idle, Call
<1>3. Idle.at = 0 /\ Idle.attempt = 0 /\ Idle.repairs = 0 /\ Idle.pc = "idle"
  BY DEF Idle
<1> QED BY <1>1, <1>2, <1>3 DEF CallOK, Trying

(* Putting another call in one caller's place.                             *)
LEMMA OneCall ==
  ASSUME NEW cs \in [Callers -> Call], NEW c \in Callers, NEW k \in Call
  PROVE  /\ [cs EXCEPT ![c] = k] \in [Callers -> Call]
         /\ (\A d \in Callers : CallOK(cs[d])) /\ CallOK(k)
              => \A d \in Callers : CallOK([cs EXCEPT ![c] = k][d])
         /\ \A p : k.pc \notin Trying => Left([cs EXCEPT ![c] = k], p) \subseteq Left(cs, p)
         /\ \A p : Order[k.at] # p => Left([cs EXCEPT ![c] = k], p) \subseteq Left(cs, p)
         /\ cs[c].pc \in Trying /\ k.at = cs[c].at /\ Used(k) >= Used(cs[c])
              => \A p : Left([cs EXCEPT ![c] = k], p) \subseteq Left(cs, p)
<1> DEFINE ds == [cs EXCEPT ![c] = k]
<1>1. /\ ds \in [Callers -> Call] /\ ds[c] = k
      /\ \A d \in Callers : d # c => ds[d] = cs[d]
  OBVIOUS
<1>2. \A d \in Callers : d = c \/ d # c
  OBVIOUS
<1> HIDE DEF ds
<1>3. (\A d \in Callers : CallOK(cs[d])) /\ CallOK(k) => \A d \in Callers : CallOK(ds[d])
  BY <1>1
<1>4. ASSUME NEW p, NEW a \in Left(ds, p), a \notin Left(cs, p)
      PROVE  a[1] = c /\ k.pc \in Trying /\ Order[k.at] = p /\ Used(k) < a[2]
  BY <1>1, <1>4 DEF Left
<1>5. \A p : k.pc \notin Trying => Left(ds, p) \subseteq Left(cs, p)
  BY <1>4
<1>6. \A p : Order[k.at] # p => Left(ds, p) \subseteq Left(cs, p)
  BY <1>4
<1>7. ASSUME cs[c].pc \in Trying, k.at = cs[c].at, Used(k) >= Used(cs[c])
      PROVE  \A p : Left(ds, p) \subseteq Left(cs, p)
  <2> SUFFICES ASSUME NEW p, NEW a \in Left(ds, p), a \notin Left(cs, p) PROVE FALSE
    OBVIOUS
  <2>1. a[1] = c /\ Order[k.at] = p /\ Used(k) < a[2] /\ a \in Callers \X (1..MaxAttempts)
    BY <1>4 DEF Left
  <2>2. cs[c] \in Call /\ a[2] \in Nat
    BY <2>1, CallBounds
  <2>3. Used(k) \in Nat /\ Used(cs[c]) \in Nat
    BY <2>2 DEF Used, Call
  <2>4. Used(cs[c]) < a[2]
    BY <1>7, <2>1, <2>2, <2>3
  <2> QED BY <1>7, <2>1, <2>4 DEF Left
<1> QED BY <1>1, <1>3, <1>5, <1>6, <1>7 DEF ds

(* The call as it is when it asks provider number j.                       *)
LEMMA AskedIs ==
  ASSUME mode \in [Providers -> Nat], NEW k \in Call, NEW j \in 1..Len(Order),
         k.repairs <= MaxRepairs
  PROVE  CallOK(Asked(k, j)) /\ Asked(k, j).at = j
<1>1. Order[j] \in Providers /\ Len(Order) \in Nat /\ MaxAttempts \in Nat \ {0}
  BY OrderAssumption, CallBounds
<1>2. Asked(k, j) = [pc |-> "ask", cacheable |-> k.cacheable, at |-> j, attempt |-> 0,
                     rung |-> mode[Order[j]], repairs |-> k.repairs]
  <2> DEFINE m == mode[Order[j]]
  <2>1. k = [pc |-> k.pc, cacheable |-> k.cacheable, at |-> k.at, attempt |-> k.attempt,
             rung |-> k.rung, repairs |-> k.repairs]
    BY DEF Call
  <2>2. Asked(k, j) = [k EXCEPT !.pc = "ask", !.at = j, !.attempt = 0, !.rung = m]
    BY DEF Asked
  <2> HIDE DEF m
  <2> DEFINE a == [k EXCEPT !.pc = "ask"]
             b == [a EXCEPT !.at = j]
             d == [b EXCEPT !.attempt = 0]
  <2>3. a = [pc |-> "ask", cacheable |-> k.cacheable, at |-> k.at, attempt |-> k.attempt,
             rung |-> k.rung, repairs |-> k.repairs]
    BY <2>1
  <2>4. b = [pc |-> "ask", cacheable |-> k.cacheable, at |-> j, attempt |-> k.attempt,
             rung |-> k.rung, repairs |-> k.repairs]
    <3> HIDE DEF a
    <3> QED BY <2>3
  <2>5. d = [pc |-> "ask", cacheable |-> k.cacheable, at |-> j, attempt |-> 0,
             rung |-> k.rung, repairs |-> k.repairs]
    <3> HIDE DEF b
    <3> QED BY <2>4
  <2>6. [d EXCEPT !.rung = m]
          = [pc |-> "ask", cacheable |-> k.cacheable, at |-> j, attempt |-> 0,
             rung |-> m, repairs |-> k.repairs]
    <3> HIDE DEF d
    <3> QED BY <2>5
  <2> QED BY <2>2, <2>6 DEF m
<1>3. mode[Order[j]] \in Nat /\ j \in Nat
  BY <1>1
<1>4. Asked(k, j) \in Call
  BY <1>2, <1>3 DEF Call
<1>5. /\ Asked(k, j).at = j /\ Asked(k, j).attempt = 0 /\ Asked(k, j).repairs = k.repairs
      /\ Asked(k, j).pc = "ask"
  BY <1>2
<1>6. j <= Len(Order)
  BY <1>1
<1> HIDE DEF Asked
<1> QED BY <1>1, <1>4, <1>5, <1>6 DEF CallOK

(* Routing a call that holds no provider: it joins one whose circuit is    *)
(* closed, or ends.                                                        *)
LEMMA RouteStep ==
  ASSUME OutageInv, NEW c \in Callers, NEW k \in Call, k.repairs <= MaxRepairs,
         NEW b \in [Providers -> Entry], PaidFor(b, [call EXCEPT ![c] = Idle]),
         NEW i \in 1..(Len(Order) + 1), Route(c, k, b, i), UNCHANGED <<mode, cached>>
  PROVE  OutageInv'
<1> DEFINE j == Reached(b, i)
           idle == [call EXCEPT ![c] = Idle]
<1>1. /\ mode \in [Providers -> Nat] /\ \A p \in Providers : mode[p] \in 1..Rungs[p]
      /\ cached \in {"none", "answer"}
      /\ call \in [Callers -> Call] /\ \A d \in Callers : CallOK(call[d])
  BY OutageInvIs
<1>2. Len(Order) \in Nat \ {0}
  BY OrderAssumption
<1>3. /\ idle \in [Callers -> Call] /\ \A d \in Callers : CallOK(idle[d])
  BY <1>1, IdleOK, OneCall
<1>4. CASE j > Len(Order)
  <2>1. call' = idle /\ breaker' = b
    BY <1>4 DEF Route
  <2> HIDE DEF idle
  <2> QED BY <1>1, <1>3, <2>1, OutageInvWillBe DEF idle
<1>5. CASE ~(j > Len(Order))
  <2>1. j \in 1..Len(Order) /\ ~IsOpen(b, Order[j])
    BY <1>2, <1>5, ReachedIs
  <2> HIDE DEF j
  <2>2. Order[j] \in Providers
    BY <2>1, OrderAssumption
  <2>3. call' = [call EXCEPT ![c] = Asked(k, j)] /\ breaker' = Looked(b, Order[j])
    BY <1>5 DEF Route, j
  <2>4. CallOK(Asked(k, j)) /\ Asked(k, j).at = j /\ Asked(k, j) \in Call
    BY <1>1, <2>1, AskedIs DEF CallOK
  <2>5. call' = [idle EXCEPT ![c] = Asked(k, j)]
    BY <1>1, <2>3
  <2> HIDE DEF idle
  <2>6. /\ breaker' \in [Providers -> Entry] /\ breaker'[Order[j]].open = "no"
        /\ \A p \in Providers : breaker'[p] \in {b[p], Closed}
    <3> DEFINE q == Order[j]
    <3>1. q \in Providers /\ ~IsOpen(b, q) /\ breaker' = Looked(b, q)
      BY <2>1, <2>2, <2>3
    <3> HIDE DEF q
    <3>2. /\ Looked(b, q) \in [Providers -> Entry] /\ Looked(b, q)[q] \in {b[q], Closed}
          /\ Looked(b, q)[q].open = "no"
          /\ \A p \in Providers : p # q => Looked(b, q)[p] = b[p]
      BY <3>1, BreakerMoves
    <3>3. \A p \in Providers : Looked(b, q)[p] \in {b[p], Closed}
      BY <3>2
    <3> QED BY <3>1, <3>2, <3>3 DEF q
  <2>7. PaidFor(breaker', idle)
    BY <2>6, PaidByClosing DEF idle
  <2>8. \A p \in Providers : breaker'[p].open # "no" => Left(call', p) \subseteq Left(idle, p)
    BY <1>3, <2>4, <2>5, <2>6, OneCall
  <2>9. PaidFor(breaker', call')
    BY <2>6, <2>7, <2>8, PaidByMoving
  <2>10. call' \in [Callers -> Call] /\ \A d \in Callers : CallOK(call'[d])
    BY <1>3, <2>4, <2>5, OneCall
  <2> QED BY <1>1, <2>6, <2>9, <2>10, OutageInvWillBe
<1> QED BY <1>4, <1>5

-----------------------------------------------------------------------------
(* A call that asks nobody afterwards, or goes on with what it has left.   *)
LEMMA CallStepKeeps ==
  ASSUME OutageInv, NEW c \in Callers, NEW k, CallOK(k),
         call' = [call EXCEPT ![c] = k],
         \/ k.pc \notin Trying
         \/ call[c].pc \in Trying /\ k.at = call[c].at /\ Used(k) >= Used(call[c]),
         breaker' \in [Providers -> Entry],
         \A p \in Providers : breaker'[p] \in {breaker[p], Closed},
         mode' \in [Providers -> Nat], \A p \in Providers : mode'[p] \in 1..Rungs[p],
         cached' \in {"none", "answer"}
  PROVE  OutageInv'
<1>1. /\ breaker \in [Providers -> Entry] /\ call \in [Callers -> Call]
      /\ \A d \in Callers : CallOK(call[d])
      /\ PaidFor(breaker, call)
  BY OutageInvIs
<1>2. k \in Call
  BY DEF CallOK
<1>3. /\ call' \in [Callers -> Call] /\ \A d \in Callers : CallOK(call'[d])
      /\ \A p : Left(call', p) \subseteq Left(call, p)
  BY <1>1, <1>2, OneCall
<1>4. PaidFor(breaker', call)
  BY <1>1, PaidByClosing
<1>5. PaidFor(breaker', call')
  BY <1>3, <1>4, PaidByMoving
<1> QED BY <1>3, <1>5, OutageInvWillBe

(* A call that ends keeps the bound, whatever it was doing.                *)
LEMMA PaidWithout ==
  ASSUME OutageInv, NEW c \in Callers PROVE PaidFor(breaker, [call EXCEPT ![c] = Idle])
<1>1. breaker \in [Providers -> Entry] /\ call \in [Callers -> Call] /\ PaidFor(breaker, call)
  BY OutageInvIs
<1> DEFINE idle == [call EXCEPT ![c] = Idle]
<1>2. \A p : Left(idle, p) \subseteq Left(call, p)
  BY <1>1, IdleOK, OneCall
<1> HIDE DEF idle
<1>3. PaidFor(breaker, idle)
  BY <1>1, <1>2, PaidByMoving
<1> QED BY <1>3 DEF idle

(* Starting, with the cache or without.                                    *)
LEMMA StartStep ==
  ASSUME OutageInv, NEW c \in Callers, StartCached(c) \/ StartUncached(c)
  PROVE  OutageInv'
<1>1. CASE StartCached(c)
  <2> DEFINE one == [Idle EXCEPT !.pc = "lookup"]
             k == [Idle EXCEPT !.pc = "lookup", !.cacheable = TRUE]
  <2>1. k = [one EXCEPT !.cacheable = TRUE]
    OBVIOUS
  <2>2. one \in Call /\ one.pc = "lookup" /\ one.at = 0 /\ one.attempt = 0 /\ one.repairs = 0
    BY IdleOK DEF Idle, Call
  <2>3. /\ k \in Call /\ k.pc = "lookup" /\ k.at = 0 /\ k.attempt = 0 /\ k.repairs = 0
    <3> HIDE DEF one, k
    <3> QED BY <2>1, <2>2 DEF Call
  <2>4. call' = [call EXCEPT ![c] = k] /\ UNCHANGED <<breaker, mode, cached>>
    BY <1>1 DEF StartCached
  <2> HIDE DEF k
  <2>5. CallOK(k) /\ k.pc \notin Trying
    BY <2>3, OrderAssumption, CallBounds DEF CallOK, Trying
  <2> QED BY <2>4, <2>5, OutageInvIs, CallStepKeeps
<1>2. CASE StartUncached(c)
  <2>1. Route(c, Idle, breaker, 1) /\ UNCHANGED <<mode, cached>>
    BY <1>2 DEF StartUncached
  <2>2. Idle \in Call /\ Idle.repairs <= MaxRepairs
    BY IdleOK DEF CallOK
  <2>3. 1 \in 1..(Len(Order) + 1)
    BY OrderAssumption
  <2>4. breaker \in [Providers -> Entry]
    BY OutageInvIs
  <2> QED BY <2>1, <2>2, <2>3, <2>4, PaidWithout, RouteStep
<1> QED BY <1>1, <1>2

(* The lookup: a hit ends the call, a miss routes it.                      *)
LEMMA LookupStep ==
  ASSUME OutageInv, NEW c \in Callers, CacheHit(c) \/ CacheMiss(c)
  PROVE  OutageInv'
<1>1. breaker \in [Providers -> Entry] /\ CallOK(call[c])
  BY OutageInvIs
<1>2. CASE CacheHit(c)
  <2>1. call' = [call EXCEPT ![c] = Idle] /\ UNCHANGED <<breaker, mode, cached>>
    BY <1>2 DEF CacheHit
  <2> QED BY <2>1, IdleOK, OutageInvIs, CallStepKeeps
<1>3. CASE CacheMiss(c)
  <2>1. Route(c, call[c], breaker, 1) /\ UNCHANGED <<mode, cached>>
    BY <1>3 DEF CacheMiss
  <2>2. call[c] \in Call /\ call[c].repairs <= MaxRepairs
    BY <1>1 DEF CallOK
  <2>3. 1 \in 1..(Len(Order) + 1)
    BY OrderAssumption
  <2> QED BY <1>1, <2>1, <2>2, <2>3, PaidWithout, RouteStep
<1> QED BY <1>2, <1>3

(* The provider of a call that asks.                                       *)
LEMMA AskingIs ==
  ASSUME OutageInv, NEW c \in Callers, call[c].pc \in Trying
  PROVE  /\ At(c) \in Providers /\ At(c) = Order[call[c].at] /\ call[c].at \in 1..Len(Order)
         /\ call[c] \in Call /\ CallOK(call[c])
         /\ breaker \in [Providers -> Entry]
         /\ Success(breaker, At(c)) \in [Providers -> Entry]
         /\ \A p \in Providers : Success(breaker, At(c))[p] \in {breaker[p], Closed}
         /\ Failure(breaker, At(c)) \in [Providers -> Entry]
<1>1. breaker \in [Providers -> Entry] /\ CallOK(call[c])
  BY OutageInvIs
<1>2. call[c].at \in 1..Len(Order) /\ call[c] \in Call
  BY <1>1 DEF CallOK
<1>3. At(c) \in Providers /\ At(c) = Order[call[c].at]
  BY <1>2, OrderAssumption DEF At
<1>4. /\ Success(breaker, At(c)) \in [Providers -> Entry]
      /\ Success(breaker, At(c))[At(c)] = Closed
      /\ \A q \in Providers : q # At(c) => Success(breaker, At(c))[q] = breaker[q]
      /\ Failure(breaker, At(c)) \in [Providers -> Entry]
  BY <1>1, <1>3, BreakerMoves
<1>5. \A p \in Providers : Success(breaker, At(c))[p] \in {breaker[p], Closed}
  BY <1>4
<1> QED BY <1>1, <1>2, <1>3, <1>4, <1>5

(* A completion that validates: the answer is stored or returned.          *)
LEMMA AnsweredStep ==
  ASSUME OutageInv, NEW c \in Callers, Answered(c) PROVE OutageInv'
<1> DEFINE k == IF call[c].cacheable THEN [call[c] EXCEPT !.pc = "store"] ELSE Idle
<1>1. /\ call[c].pc = "ask" /\ breaker' = Success(breaker, At(c))
      /\ call' = [call EXCEPT ![c] = k] /\ UNCHANGED <<mode, cached>>
  BY DEF Answered
<1>2. call[c].pc \in Trying
  BY <1>1 DEF Trying
<1>3. CallOK(k) /\ k.pc \notin Trying
  <2>1. call[c] \in Call /\ CallOK(call[c])
    BY <1>2, AskingIs
  <2>2. CASE call[c].cacheable
    <3>1. k = [call[c] EXCEPT !.pc = "store"]
      BY <2>2
    <3>2. /\ k \in Call /\ k.pc = "store" /\ k.at = call[c].at
          /\ k.attempt = call[c].attempt /\ k.repairs = call[c].repairs
      BY <2>1, <3>1 DEF Call
    <3> HIDE DEF k
    <3> QED BY <2>1, <3>2 DEF CallOK, Trying
  <2>3. CASE ~call[c].cacheable
    BY <2>3, IdleOK
  <2> QED BY <2>2, <2>3
<1> HIDE DEF k
<1>4. /\ breaker' \in [Providers -> Entry]
      /\ \A p \in Providers : breaker'[p] \in {breaker[p], Closed}
  BY <1>1, <1>2, AskingIs
<1> QED BY <1>1, <1>3, <1>4, OutageInvIs, CallStepKeeps

(* One that does not: a repair starts over, or the call ends.              *)
LEMMA InvalidStep ==
  ASSUME OutageInv, NEW c \in Callers, Invalid(c) PROVE OutageInv'
<1> DEFINE b == Success(breaker, At(c))
<1>1. call[c].pc = "ask" /\ call[c].pc \in Trying /\ UNCHANGED <<mode, cached>>
  BY DEF Invalid, Trying
<1>2. /\ b \in [Providers -> Entry] /\ \A p \in Providers : b[p] \in {breaker[p], Closed}
      /\ breaker \in [Providers -> Entry] /\ call[c] \in Call /\ CallOK(call[c])
  BY <1>1, AskingIs
<1>3. CASE call[c].repairs < MaxRepairs
  <2> DEFINE k == [call[c] EXCEPT !.repairs = @ + 1]
  <2>1. Route(c, k, b, 1)
    BY <1>3 DEF Invalid
  <2>2. k \in Call /\ k.repairs = call[c].repairs + 1 /\ call[c].repairs \in Nat
    BY <1>2 DEF Call
  <2>3. k.repairs <= MaxRepairs
    BY <1>3, <2>2, CallBounds
  <2>4. 1 \in 1..(Len(Order) + 1)
    BY OrderAssumption
  <2> HIDE DEF b, k
  <2>5. PaidFor(b, [call EXCEPT ![c] = Idle])
    BY <1>2, PaidWithout, PaidByClosing
  <2> QED BY <1>1, <1>2, <2>1, <2>2, <2>3, <2>4, <2>5, RouteStep
<1>4. CASE ~(call[c].repairs < MaxRepairs)
  <2>1. call' = [call EXCEPT ![c] = Idle] /\ breaker' = b
    BY <1>4 DEF Invalid
  <2> HIDE DEF b
  <2> QED BY <1>1, <1>2, <2>1, IdleOK, OutageInvIs, CallStepKeeps
<1> QED BY <1>3, <1>4

(* The attempt that fails is one of those that were left.                  *)
LEMMA AttemptWasLeft ==
  ASSUME OutageInv, NEW c \in Callers, call[c].pc = "ask"
  PROVE  <<c, call[c].attempt + 1>> \in Left(call, At(c))
<1>1. call[c].pc \in Trying
  BY DEF Trying
<1>2. At(c) = Order[call[c].at] /\ call[c] \in Call /\ CallOK(call[c])
  BY <1>1, AskingIs
<1>3. call[c].attempt \in Nat /\ call[c].attempt < MaxAttempts
  BY <1>2 DEF CallOK, Call
<1>4. call[c].attempt + 1 \in 1..MaxAttempts /\ Used(call[c]) = call[c].attempt
  BY <1>3, CallBounds DEF Used
<1> QED BY <1>1, <1>2, <1>3, <1>4 DEF Left

(* Giving a provider up: its failure is counted, the next one is asked.    *)
LEMMA GiveUpOnStep ==
  ASSUME OutageInv, NEW c \in Callers, call[c].pc = "ask", GiveUpOn(c),
         UNCHANGED <<mode, cached>>
  PROVE  OutageInv'
<1> DEFINE b == Failure(breaker, At(c))
           idle == [call EXCEPT ![c] = Idle]
           a == <<c, call[c].attempt + 1>>
<1>1. call[c].pc \in Trying
  BY DEF Trying
<1>2. /\ At(c) \in Providers /\ call[c].at \in 1..Len(Order) /\ call[c] \in Call
      /\ CallOK(call[c]) /\ breaker \in [Providers -> Entry] /\ b \in [Providers -> Entry]
  BY <1>1, AskingIs
<1>3. call \in [Callers -> Call] /\ PaidFor(breaker, call)
  BY OutageInvIs
<1>4. a \in Left(call, At(c)) /\ a[1] = c
  BY AttemptWasLeft
<1>5. \A p : Left(idle, p) \subseteq Left(call, p)
  BY <1>3, IdleOK, OneCall
<1>6. a \notin Left(idle, At(c))
  BY <1>3, IdleOK DEF Left
<1> HIDE DEF idle, a
<1>7. PaidFor(b, idle)
  BY <1>2, <1>3, <1>4, <1>5, <1>6, PaidByFailing
<1>8. call[c].at + 1 \in 1..(Len(Order) + 1)
  BY <1>2, OrderAssumption
<1>9. Route(c, call[c], b, call[c].at + 1)
  BY DEF GiveUpOn
<1>10. call[c].repairs <= MaxRepairs
  BY <1>2 DEF CallOK
<1> HIDE DEF b
<1> QED BY <1>2, <1>7, <1>8, <1>9, <1>10, RouteStep DEF idle

(* A failure that is retried: the attempt is used up.                      *)
LEMMA FailedStep ==
  ASSUME OutageInv, NEW c \in Callers, Failed(c) PROVE OutageInv'
<1>1. call[c].pc = "ask" /\ call[c].pc \in Trying /\ UNCHANGED <<mode, cached>>
  BY DEF Failed, Trying
<1>2. CASE ~(call[c].attempt + 1 < MaxAttempts)
  BY <1>1, <1>2, GiveUpOnStep DEF Failed
<1>3. CASE call[c].attempt + 1 < MaxAttempts
  <2> DEFINE k == [call[c] EXCEPT !.pc = "backoff"]
             a == <<c, call[c].attempt + 1>>
             later == [call EXCEPT ![c] = k]
  <2>1. /\ At(c) \in Providers /\ At(c) = Order[call[c].at] /\ call[c] \in Call
        /\ CallOK(call[c]) /\ breaker \in [Providers -> Entry]
        /\ Failure(breaker, At(c)) \in [Providers -> Entry]
    BY <1>1, AskingIs
  <2>2. /\ mode \in [Providers -> Nat] /\ \A p \in Providers : mode[p] \in 1..Rungs[p]
        /\ cached \in {"none", "answer"} /\ call \in [Callers -> Call]
        /\ \A d \in Callers : CallOK(call[d])
        /\ PaidFor(breaker, call)
    BY OutageInvIs
  <2>3. breaker' = Failure(breaker, At(c)) /\ call' = later
    <3>1. call' = [call EXCEPT ![c].pc = "backoff"] /\ breaker' = Failure(breaker, At(c))
      BY <1>3 DEF Failed
    <3> QED BY <2>2, <3>1
  <2>4. /\ k \in Call /\ k.pc = "backoff" /\ k.at = call[c].at
        /\ k.attempt = call[c].attempt /\ k.repairs = call[c].repairs
    BY <2>1 DEF Call
  <2> HIDE DEF k
  <2>5. CallOK(k)
    BY <1>1, <1>3, <2>1, <2>4 DEF CallOK
  <2>6. call[c].attempt \in Nat /\ Used(k) = call[c].attempt + 1
        /\ Used(call[c]) = call[c].attempt
    BY <1>1, <2>1, <2>4 DEF Used, Call
  <2>7. /\ later \in [Callers -> Call] /\ \A d \in Callers : CallOK(later[d])
        /\ \A p : Left(later, p) \subseteq Left(call, p)
    <3>1. Used(k) >= Used(call[c])
      BY <2>6
    <3>2. [call EXCEPT ![c] = k] \in [Callers -> Call]
      BY <2>2, <2>4
    <3>3. \A d \in Callers : CallOK([call EXCEPT ![c] = k][d])
      BY <2>2, <2>4, <2>5, OneCall
    <3>4. \A p : Left([call EXCEPT ![c] = k], p) \subseteq Left(call, p)
      BY <1>1, <2>2, <2>4, <3>1, OneCall
    <3> QED BY <3>2, <3>3, <3>4
  <2>8. a \notin Left(later, At(c))
    <3>1. later[a[1]] = k /\ a[2] = call[c].attempt + 1
      BY <2>2
    <3> QED BY <2>6, <3>1 DEF Left
  <2>9. a \in Left(call, At(c))
    BY <1>1, AttemptWasLeft
  <2> HIDE DEF a, later
  <2>10. PaidFor(breaker', call')
    BY <2>1, <2>2, <2>3, <2>7, <2>8, <2>9, PaidByFailing
  <2> QED BY <1>1, <2>1, <2>2, <2>3, <2>7, <2>10, OutageInvWillBe
<1> QED BY <1>2, <1>3

(* The next attempt, and the same one on a lower rung.                     *)
LEMMA RetryStep ==
  ASSUME OutageInv, NEW c \in Callers, Retry(c) PROVE OutageInv'
<1> DEFINE m == mode[At(c)]
           one == [call[c] EXCEPT !.pc = "ask"]
           two == [one EXCEPT !.rung = m]
           k == [call[c] EXCEPT !.pc = "ask", !.rung = m,
                              !.attempt = call[c].attempt + 1]
<1>1. /\ call[c].pc = "backoff" /\ call[c].pc \in Trying
      /\ call' = [call EXCEPT ![c] = k] /\ UNCHANGED <<breaker, mode, cached>>
  <2>1. call \in [Callers -> Call]
    BY OutageInvIs
  <2>2. call' = [call EXCEPT ![c] = k]
    BY DEF Retry
  <2>3. call[c].pc = "backoff" /\ UNCHANGED <<breaker, mode, cached>>
    BY DEF Retry
  <2> HIDE DEF k
  <2> QED BY <2>2, <2>3 DEF Trying
<1>2. /\ At(c) \in Providers /\ call[c] \in Call /\ CallOK(call[c])
  BY <1>1, AskingIs
<1>3. m \in Nat
  BY <1>2, OutageInvIs
<1>4. call[c].attempt \in Nat /\ call[c].attempt + 1 < MaxAttempts
  BY <1>1, <1>2 DEF CallOK, Call
<1>5. one \in Call /\ one.pc = "ask" /\ one.at = call[c].at /\ one.repairs = call[c].repairs
  BY <1>2 DEF Call
<1>6. k = [two EXCEPT !.attempt = call[c].attempt + 1]
  BY <1>2 DEF Call
<1> HIDE DEF one
<1>7. /\ two \in Call /\ two.pc = "ask" /\ two.at = call[c].at
      /\ two.repairs = call[c].repairs
  BY <1>3, <1>5 DEF Call
<1> HIDE DEF two, m, k
<1>8. /\ k \in Call /\ k.pc = "ask" /\ k.at = call[c].at
      /\ k.repairs = call[c].repairs /\ k.attempt = call[c].attempt + 1
  BY <1>4, <1>7, <1>6 DEF Call
<1>9. CallOK(k)
  BY <1>1, <1>2, <1>4, <1>8 DEF CallOK
<1>10. Used(k) = Used(call[c]) /\ Used(k) \in Nat
  BY <1>1, <1>4, <1>8 DEF Used
<1>11. Used(k) >= Used(call[c])
  BY <1>10
<1> QED BY <1>1, <1>8, <1>9, <1>11, OutageInvIs, CallStepKeeps

(* A mode the endpoint rejects.                                            *)
LEMMA StepDownStep ==
  ASSUME OutageInv, NEW c \in Callers, StepDown(c) PROVE OutageInv'
<1> DEFINE k == [call[c] EXCEPT !.rung = @ + 1]
<1>1. /\ call[c].pc = "ask" /\ call[c].pc \in Trying /\ call[c].rung < Rungs[At(c)]
      /\ mode' = [mode EXCEPT ![At(c)] = call[c].rung + 1]
      /\ UNCHANGED <<breaker, cached>>
  BY DEF StepDown, Trying
<1>2. At(c) \in Providers /\ call[c] \in Call /\ CallOK(call[c])
  BY <1>1, AskingIs
<1>3. /\ mode \in [Providers -> Nat] /\ \A p \in Providers : mode[p] \in 1..Rungs[p]
      /\ call \in [Callers -> Call] /\ breaker \in [Providers -> Entry]
      /\ cached \in {"none", "answer"}
  BY OutageInvIs
<1>4. call' = [call EXCEPT ![c] = k]
  BY <1>3 DEF StepDown
<1>5. /\ call[c].rung + 1 \in Nat /\ call[c].rung + 1 \in 1..Rungs[At(c)]
  BY <1>1, <1>2, RungsAssumption DEF Call
<1>6. mode' \in [Providers -> Nat] /\ \A p \in Providers : mode'[p] \in 1..Rungs[p]
  BY <1>1, <1>3, <1>5
<1>7. /\ k \in Call /\ k.pc = call[c].pc /\ k.at = call[c].at
      /\ k.repairs = call[c].repairs /\ k.attempt = call[c].attempt
  BY <1>2 DEF Call
<1> HIDE DEF k
<1>8. CallOK(k)
  BY <1>2, <1>7 DEF CallOK
<1>9. Used(k) = Used(call[c]) /\ Used(k) \in Nat
  BY <1>2, <1>7 DEF Used, Call
<1>10. Used(k) >= Used(call[c])
  BY <1>9
<1> QED BY <1>1, <1>3, <1>4, <1>6, <1>7, <1>8, <1>10, CallStepKeeps

(* The answer is kept, or not; the call is over.                           *)
LEMMA StoreStep ==
  ASSUME OutageInv, NEW c \in Callers, Store(c) PROVE OutageInv'
<1>1. /\ call' = [call EXCEPT ![c] = Idle] /\ UNCHANGED <<breaker, mode>>
      /\ cached' \in {cached, "answer"}
  BY DEF Store
<1> QED BY <1>1, IdleOK, OutageInvIs, CallStepKeeps

(* Time, the health probe and the cache's expiry.                          *)
LEMMA SurroundingsStep ==
  ASSUME OutageInv, (\E p \in Providers : CooldownEnds(p)) \/ HealthProbe \/ CacheEntryLost
  PROVE  OutageInv'
<1>1. /\ breaker \in [Providers -> Entry]
      /\ mode \in [Providers -> Nat] /\ \A p \in Providers : mode[p] \in 1..Rungs[p]
      /\ cached \in {"none", "answer"}
      /\ call \in [Callers -> Call] /\ \A d \in Callers : CallOK(call[d])
      /\ PaidFor(breaker, call)
  BY OutageInvIs
<1>2. ASSUME NEW p \in Providers, CooldownEnds(p) PROVE OutageInv'
  <2>1. /\ breaker[p].open = "open" /\ UNCHANGED <<mode, cached, call>>
        /\ breaker' = [breaker EXCEPT ![p].open = "elapsed"] /\ breaker[p] \in Entry
    BY <1>1, <1>2 DEF CooldownEnds
  <2>2. /\ breaker' \in [Providers -> Entry]
        /\ breaker'[p].open = "elapsed" /\ breaker'[p].failures = breaker[p].failures
        /\ \A q \in Providers : q # p => breaker'[q] = breaker[q]
    BY <1>1, <2>1 DEF Entry
  <2>3. PaidFor(breaker', call')
    BY <1>1, <2>1, <2>2 DEF PaidFor, Left
  <2> QED BY <1>1, <2>1, <2>2, <2>3, OutageInvWillBe
<1>3. CASE HealthProbe
  <2>1. /\ UNCHANGED <<mode, cached, call>>
        /\ breaker' = [p \in Providers |-> Looked(breaker, p)[p]]
    BY <1>3 DEF HealthProbe
  <2>2. /\ breaker' \in [Providers -> Entry]
        /\ \A p \in Providers : breaker'[p] \in {breaker[p], Closed}
    BY <1>1, <2>1, BreakerMoves
  <2>3. PaidFor(breaker', call)
    BY <1>1, <2>2, PaidByClosing
  <2>4. PaidFor(breaker', call')
    BY <2>1, <2>3
  <2> QED BY <1>1, <2>1, <2>2, <2>4, OutageInvWillBe
<1>4. CASE CacheEntryLost
  BY <1>1, <1>4, OutageInvWillBe DEF CacheEntryLost
<1> QED BY <1>2, <1>3, <1>4

-----------------------------------------------------------------------------
(* At the start no provider has failed and no call is under way.           *)
LEMMA RouterInitInv == RouterInit => OutageInv
<1> SUFFICES ASSUME RouterInit PROVE OutageInv
  OBVIOUS
<1>1. /\ breaker \in [Providers -> Entry] /\ \A p \in Providers : breaker[p] = Closed
      /\ cached \in {"none", "answer"}
  BY DEF RouterInit, Closed, Entry
<1>2. mode \in [Providers -> Nat] /\ \A p \in Providers : mode[p] \in 1..Rungs[p]
  BY RungsAssumption DEF RouterInit
<1>3. call \in [Callers -> Call] /\ \A c \in Callers : CallOK(call[c])
  BY IdleOK DEF RouterInit
<1>4. PaidFor(breaker, call)
  BY <1>1, CallBounds DEF PaidFor, Closed
<1> QED BY <1>1, <1>2, <1>3, <1>4, OutageInvIs

(* Every step of the router keeps the invariant.                           *)
LEMMA RouterNextInv == OutageInv /\ [RouterNext]_callVars => OutageInv'
<1> SUFFICES ASSUME OutageInv, [RouterNext]_callVars PROVE OutageInv'
  OBVIOUS
<1>1. ASSUME NEW c \in Callers, StartCached(c) \/ StartUncached(c) \/ CallStep(c)
      PROVE  OutageInv'
  <2>1. ASSUME Refused(c) PROVE OutageInv'
    BY <2>1, GiveUpOnStep DEF Refused
  <2> QED BY <1>1, <2>1, StartStep, LookupStep, AnsweredStep, InvalidStep, FailedStep,
             RetryStep, StepDownStep, StoreStep DEF CallStep
<1>2. CASE (\E p \in Providers : CooldownEnds(p)) \/ HealthProbe \/ CacheEntryLost
  BY <1>2, SurroundingsStep
<1>3. CASE UNCHANGED callVars
  BY <1>3, OutageInvIs, OutageInvWillBe DEF callVars
<1> QED BY <1>1, <1>2, <1>3 DEF RouterNext

(* The invariant behind the bound holds in every reachable state.          *)
THEOREM RouterInvariance == RouterSpec => []OutageInv
<1> QED BY RouterInitInv, RouterNextInv, PTL DEF RouterSpec

(* A provider that is down costs fewer than Threshold failures in a row    *)
(* before it is left alone, and after that at most the attempts of the     *)
(* calls that had chosen it before, for any number of calls and providers  *)
(* (CircuitBreaker and _try_provider, router.py).                          *)
THEOREM OutageBounded == RouterSpec => []OutageCostIsBounded
<1>1. OutageInv => OutageCostIsBounded
  <2> SUFFICES ASSUME OutageInv, NEW p \in Providers
               PROVE  /\ breaker[p].open = "no" => breaker[p].failures < Threshold
                      /\ breaker[p].failures <= Threshold - 1 + MaxAttempts * Cardinality(Callers)
    BY DEF OutageCostIsBounded
  <2>1. breaker \in [Providers -> Entry] /\ PaidFor(breaker, call)
    BY OutageInvIs
  <2>2. breaker[p].failures \in Nat /\ Threshold \in Nat
    BY <2>1, CallBounds DEF Entry
  <2>3. MaxAttempts * Cardinality(Callers) \in Nat
    BY AllAttempts
  <2>4. Cardinality(Left(call, p)) \in Nat
    BY FewerLeft
  <2>5. IF breaker[p].open = "no" THEN breaker[p].failures < Threshold
        ELSE breaker[p].failures + Cardinality(Left(call, p))
               <= Threshold - 1 + MaxAttempts * Cardinality(Callers)
    BY <2>1 DEF PaidFor
  <2> QED BY <2>2, <2>3, <2>4, <2>5
<1> QED BY RouterInvariance, <1>1, PTL

-----------------------------------------------------------------------------
(***************************************************************************)
(* The two in one state space.                                             *)
(***************************************************************************)
(* Their disjoint union moves one of them at a time: it behaves as each.   *)
LEMMA ServicesParts == ServicesSpec => RouterSpec /\ DocumentSpec
<1>1. ServicesInit => RouterInit /\ DocumentInit
  BY DEF ServicesInit
<1>2. [ServicesNext]_servicesVars => [RouterNext]_callVars /\ [DocumentNext]_documentVars
  BY DEF ServicesNext, servicesVars
<1> QED BY <1>1, <1>2, PTL DEF ServicesSpec, RouterSpec, DocumentSpec

(* Breakers, calls, documents and workers keep their shape, for every      *)
(* number of them (router.py, documents/jobs.py).                          *)
THEOREM ServicesTypes == ServicesSpec => []ServicesTypeOK
<1>1. OutageInv /\ DocumentInv => ServicesTypeOK
  BY DEF OutageInv, DocumentInv, ServicesTypeOK
<1> QED BY <1>1, ServicesParts, RouterInvariance, DocumentInvariance, PTL
=============================================================================
