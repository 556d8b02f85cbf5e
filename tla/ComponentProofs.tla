-------------------------- MODULE ComponentProofs --------------------------
(***************************************************************************)
(* Proofs about the components around the interview: the question bank,    *)
(* grading passes, recordings, the evaluation set, blueprints, the ability *)
(* model, grading, searches and simulated sessions.  Each has its own      *)
(* inductive invariant, stated at the end of its module.                   *)
(***************************************************************************)
EXTENDS MCComponents, SumLemmas, SequenceTheorems

-----------------------------------------------------------------------------
(***************************************************************************)
(* The question bank.                                                      *)
(***************************************************************************)
(* What an ingest run writes of one question.                              *)
LEMMA EmbeddedRow ==
  ASSUME NEW row \in QuestionRow, row.vector = row.fingerprint,
         NEW run \in Ingest, NEW text \in Wordings,
         NEW new, new = Embedded(Upserted(row, text), run, text)
  PROVE  /\ new \in QuestionRow /\ new.text = text /\ new.vector = new.fingerprint
         /\ run.embedder # "none" => new.vector = [of |-> text, model |-> run.embedder]
<1> DEFINE made == [of |-> text, model |-> run.embedder]
           upserted == Upserted(row, text)
<1>1. /\ upserted \in QuestionRow /\ upserted.text = text
      /\ upserted.vector = row.vector /\ upserted.fingerprint = row.vector
  BY DEF QuestionRow, Upserted
<1>2. run.embedder # "none" => made \in Vector
  BY DEF Vector, Ingest
<1>3. CASE new = upserted /\ (run.embedder = "none" \/ CurrentVector(upserted, text, run.embedder))
  BY <1>1, <1>3 DEF CurrentVector
<1>4. CASE /\ new = [upserted EXCEPT !.vector = made, !.fingerprint = made]
           /\ run.embedder # "none"
  <2>1. /\ new.text = text /\ new.vector = made /\ new.fingerprint = made
        /\ new \in QuestionRow
    BY <1>1, <1>2, <1>4 DEF QuestionRow
  <2> QED BY <2>1
<1> QED BY <1>3, <1>4 DEF Embedded

(* A question that a run selects has a line, and one that was validated.   *)
LEMMA SelectedLine ==
  ASSUME NEW run \in Ingest, ValidBank(run.bank), NEW q \in SelectedItems(run)
  PROVE  /\ q \in Questions /\ run.bank[q].text \in Wordings \ Refused
<1>1. q \in Questions /\ run.bank[q] \in Line /\ run.bank[q] # NoLine
  BY DEF SelectedItems, Lines, Ingest
<1> QED BY <1>1 DEF Line, ValidBank, Lines

(* A step of a commit: what it leaves of each row.                         *)
LEMMA CommittedRows ==
  ASSUME BankInv, NEW i \in Ingests, CommitIngest(i)
  PROVE  /\ rows' \in [Questions -> QuestionRow] /\ RowsAreSound'
         /\ \A q \in SelectedItems(ingest[i]) :
              /\ rows'[q].text \in Wordings
              /\ ingest[i].embedder # "none" =>
                   rows'[q].vector = [of |-> rows'[q].text, model |-> ingest[i].embedder]
         /\ \A q \in Questions \ SelectedItems(ingest[i]) : rows'[q] = rows[q]
<1> DEFINE run == ingest[i]
           new(q) == Embedded(Upserted(rows[q], run.bank[q].text), run, run.bank[q].text)
<1>1. run \in Ingest /\ ValidBank(run.bank)
  BY DEF BankInv, BankTypeOK
<1>2. rows' = [q \in Questions |-> IF q \in SelectedItems(run) THEN new(q) ELSE rows[q]]
  BY DEF CommitIngest
<1>3. \A q \in Questions : /\ rows[q] \in QuestionRow /\ rows[q].text \notin Refused
                           /\ rows[q].vector = rows[q].fingerprint
  BY DEF BankInv, BankTypeOK, RowsAreSound
<1>4. ASSUME NEW q \in SelectedItems(run)
      PROVE  /\ q \in Questions /\ rows'[q] = new(q) /\ new(q) \in QuestionRow
             /\ new(q).text = run.bank[q].text /\ new(q).text \in Wordings \ Refused
             /\ new(q).vector = new(q).fingerprint
             /\ run.embedder # "none" =>
                  new(q).vector = [of |-> new(q).text, model |-> run.embedder]
  <2>1. q \in Questions /\ run.bank[q].text \in Wordings \ Refused
    BY <1>1, <1>4, SelectedLine
  <2> DEFINE text == run.bank[q].text
  <2>2. text \in Wordings
    BY <2>1
  <2> HIDE DEF run, text
  <2>3. LET row == Embedded(Upserted(rows[q], text), run, text)
        IN  /\ row \in QuestionRow /\ row.text = text /\ row.vector = row.fingerprint
            /\ run.embedder # "none" => row.vector = [of |-> text, model |-> run.embedder]
    BY <1>1, <1>3, <2>1, <2>2, EmbeddedRow
  <2> QED BY <1>2, <1>4, <2>1, <2>3 DEF text
<1> HIDE DEF new, run
<1>5. \A q \in Questions : q \notin SelectedItems(run) => rows'[q] = rows[q]
  BY <1>2
<1>6. \A q \in Questions : /\ rows'[q] \in QuestionRow /\ rows'[q].text \notin Refused
                           /\ rows'[q].vector = rows'[q].fingerprint
  BY <1>3, <1>4, <1>5
<1>7. rows' \in [Questions -> QuestionRow]
  BY <1>2, <1>6
<1> QED BY <1>4, <1>5, <1>6, <1>7 DEF RowsAreSound, run

(* Every step keeps the invariant.                                         *)
LEMMA BankStep ==
  ASSUME BankInv, [BankNext]_bankVars PROVE BankInv'
<1>1. /\ files \in [Questions -> Line] /\ rows \in [Questions -> QuestionRow]
      /\ ingest \in [Ingests -> Ingest] /\ changes \in 0..MaxChanges /\ RowsAreSound
      /\ \A i \in Ingests : ValidBank(ingest[i].bank)
  BY DEF BankInv, BankTypeOK
<1>2. ASSUME UNCHANGED ingest PROVE \A i \in Ingests : ValidBank(ingest'[i].bank)
  BY <1>1, <1>2
<1>3. ASSUME UNCHANGED rows PROVE RowsAreSound'
  BY <1>1, <1>3 DEF RowsAreSound
<1>4. ASSUME changes < MaxChanges PROVE changes + 1 \in 0..MaxChanges
  BY <1>1, <1>4, BankBounds
<1>5. ASSUME NEW q \in Questions, NEW w \in Wordings, Reword(q, w) PROVE BankInv'
  <2>1. [text |-> w, status |-> "drafted"] \in Line
    BY DEF Line
  <2>2. files' \in [Questions -> Line]
    BY <1>1, <1>5, <2>1 DEF Reword
  <2> QED BY <1>1, <1>2, <1>3, <1>4, <1>5, <2>2 DEF Reword, BankInv, BankTypeOK
<1>6. ASSUME NEW q \in Questions, RemoveLine(q) PROVE BankInv'
  <2>1. files' \in [Questions -> Line]
    BY <1>1, <1>6 DEF RemoveLine, Line
  <2> QED BY <1>1, <1>2, <1>3, <1>4, <1>6, <2>1 DEF RemoveLine, BankInv, BankTypeOK
<1>7. ASSUME NEW q \in Questions, ShowItem(q) PROVE BankInv'
  BY <1>1, <1>2, <1>3, <1>7 DEF ShowItem, BankInv, BankTypeOK
<1>8. CASE Approve
  <2>1. ASSUME shown.id \in Lines(files)
        PROVE  [files EXCEPT ![shown.id].status = "reviewed"] \in [Questions -> Line]
    <3>1. shown.id \in Questions /\ files[shown.id] \in Line \ {NoLine}
      BY <1>1, <2>1 DEF Lines
    <3>2. [files[shown.id] EXCEPT !.status = "reviewed"] \in Line
      BY <3>1 DEF Line
    <3> QED BY <1>1, <3>1, <3>2
  <2>2. files' \in [Questions -> Line]
    BY <1>1, <1>8, <2>1 DEF Approve
  <2> QED BY <1>1, <1>2, <1>3, <1>8, <2>2 DEF Approve, BankInv, BankTypeOK
<1>9. ASSUME NEW i \in Ingests, LoadFiles(i) PROVE BankInv'
  <2>1. PICK reviewed \in BOOLEAN, reembed \in BOOLEAN, e \in EmbedModels \cup {"none"} :
          ingest' = [ingest EXCEPT ![i] =
            [under |-> TRUE, bank |-> files, reviewed |-> reviewed, embedder |-> e,
             reembed |-> reembed]]
    BY <1>9 DEF LoadFiles
  <2> DEFINE run == [under |-> TRUE, bank |-> files, reviewed |-> reviewed, embedder |-> e,
                     reembed |-> reembed]
  <2>2. run \in Ingest /\ ValidBank(run.bank)
    BY <1>1, <1>9 DEF LoadFiles, Ingest
  <2> HIDE DEF run
  <2>3. ingest' = [ingest EXCEPT ![i] = run]
    BY <2>1 DEF run
  <2>4. ingest' \in [Ingests -> Ingest] /\ \A j \in Ingests : ValidBank(ingest'[j].bank)
    BY <1>1, <2>2, <2>3
  <2> QED BY <1>1, <1>3, <1>9, <2>4 DEF LoadFiles, BankInv, BankTypeOK
<1>10. NotIngesting \in Ingest /\ ValidBank(NotIngesting.bank)
  BY DEF NotIngesting, Ingest, Line, ValidBank, Lines
<1>11. ASSUME NEW i \in Ingests, ingest' = [ingest EXCEPT ![i] = NotIngesting]
       PROVE  ingest' \in [Ingests -> Ingest] /\ \A j \in Ingests : ValidBank(ingest'[j].bank)
  BY <1>1, <1>10, <1>11
<1>12. ASSUME NEW i \in Ingests, CommitIngest(i) PROVE BankInv'
  <2>1. ingest' = [ingest EXCEPT ![i] = NotIngesting] /\ UNCHANGED <<files, changes>>
    BY <1>12 DEF CommitIngest
  <2>2. rows' \in [Questions -> QuestionRow] /\ RowsAreSound'
    BY <1>12, CommittedRows
  <2> QED BY <1>1, <1>11, <2>1, <2>2 DEF BankInv, BankTypeOK
<1>13. ASSUME NEW i \in Ingests, RollBack(i) PROVE BankInv'
  BY <1>1, <1>3, <1>11, <1>13 DEF RollBack, BankInv, BankTypeOK
<1>14. CASE UNCHANGED bankVars
  BY <1>1, <1>2, <1>3, <1>14 DEF bankVars, BankInv, BankTypeOK
<1> QED BY <1>5, <1>6, <1>7, <1>8, <1>9, <1>12, <1>13, <1>14 DEF BankNext

(* The end of a run that wrote something is its commit.                    *)
LEMMA IngestEnds ==
  ASSUME BankInv, [BankNext]_bankVars, NEW i \in Ingests,
         ingest[i].under, ~ingest'[i].under, rows' # rows
  PROVE  CommitIngest(i)
<1>1. ingest \in [Ingests -> Ingest]
  BY DEF BankInv, BankTypeOK
<1>2. PICK j \in Ingests : CommitIngest(j)
  BY DEF BankNext, Reword, RemoveLine, ShowItem, Approve, LoadFiles, RollBack, bankVars
<1>3. j # i => ingest'[i] = ingest[i]
  BY <1>1, <1>2 DEF CommitIngest
<1> QED BY <1>2, <1>3

(* A bank nobody has ingested yet is sound.                                *)
LEMMA BankInitInv == BankInit => BankInv
<1> SUFFICES ASSUME BankInit PROVE BankInv
  OBVIOUS
<1>1. files \in [Questions -> Line]
  BY DEF BankInit, Line
<1>2. NoRow \in QuestionRow /\ NoRow.text \notin Refused /\ NoRow.vector = NoRow.fingerprint
  BY BankBounds DEF NoRow, QuestionRow, Vector
<1>3. NotIngesting \in Ingest /\ ValidBank(NotIngesting.bank)
  BY DEF NotIngesting, Ingest, Line, ValidBank, Lines
<1> QED BY <1>1, <1>2, <1>3, BankBounds DEF BankInit, BankInv, BankTypeOK, RowsAreSound

(* The questions table is a materialisation of validated files, whatever   *)
(* runs, edits, models and --no-embed follow each other; a run that embeds *)
(* leaves no stale vector of what it wrote (ingest.py, indexing.py).       *)
THEOREM BankMaterialised == BankSpec => BankIsMaterialised
<1>1. BankInit => BankInv
  BY BankInitInv
<1>2. BankInv /\ [BankNext]_bankVars => BankInv'
  BY BankStep
<1>3. BankInv => RowsAreSound
  BY DEF BankInv
<1>4. BankInv /\ [BankNext]_bankVars =>
        [\A i \in Ingests : ingest[i].under /\ ~ingest'[i].under /\ rows' # rows =>
           /\ \A q \in SelectedItems(ingest[i]) : ingest[i].embedder # "none" =>
                rows'[q].vector = [of |-> rows'[q].text, model |-> ingest[i].embedder]
           /\ \A q \in Questions : rows[q] # NoRow => rows'[q] # NoRow]_bankVars
  <2> SUFFICES ASSUME BankInv, [BankNext]_bankVars, NEW i \in Ingests,
                      ingest[i].under, ~ingest'[i].under, rows' # rows
               PROVE  /\ \A q \in SelectedItems(ingest[i]) : ingest[i].embedder # "none" =>
                           rows'[q].vector = [of |-> rows'[q].text, model |-> ingest[i].embedder]
                      /\ \A q \in Questions : rows[q] # NoRow => rows'[q] # NoRow
    OBVIOUS
  <2>1. CommitIngest(i)
    BY IngestEnds
  <2>2. \A q \in Questions : rows'[q].text \in Wordings => rows'[q] # NoRow
    BY BankBounds DEF NoRow
  <2> QED BY <2>1, <2>2, CommittedRows
<1> QED BY <1>1, <1>2, <1>3, <1>4, PTL DEF BankSpec, BankIsMaterialised, IngestsAreWhole
-----------------------------------------------------------------------------
(***************************************************************************)
(* Passes over the evaluation set.                                         *)
(***************************************************************************)
(* Place n of the jobs of L answers, k gradings each, is one of an answer. *)
LEMMA PlaceOfJob ==
  ASSUME NEW L \in Nat, NEW k \in Nat, NEW n \in 1..(L * k)
  PROVE  /\ (n - 1) \div k + 1 \in 1..L /\ (n - 1) % k \in 0..(k - 1) /\ k > 0
<1>1. k > 0
  <2>1. k = 0 => L * k = 0
    OBVIOUS
  <2> QED BY <2>1
<1> DEFINE d == (n - 1) \div k
           r == (n - 1) % k
<1>2. n - 1 \in Nat /\ d \in Nat /\ r \in 0..(k - 1) /\ n - 1 = k * d + r
  BY <1>1
<1> HIDE DEF d, r
<1>3. d < L
  <2>1. SUFFICES ASSUME d >= L PROVE FALSE
    BY <1>2
  <2>2. k * d >= L * k
    BY <1>2, <2>1
  <2> QED BY <1>2, <2>2
<1> QED BY <1>1, <1>2, <1>3 DEF d, r

(* The jobs of one flag are keys of model calls.                           *)
LEMMA JobsAreCalls ==
  ASSUME NEW list \in Seq(Answers), NEW variant \in {"base", "probe"},
         NEW indices \in 0..(RetestRuns + 1)
  PROVE  Jobs(list, variant, indices)
           \in Seq(Answers \X {"base", "probe"} \X (0..RetestRuns))
<1> DEFINE L == Len(list)
           calls == Answers \X {"base", "probe"} \X (0..RetestRuns)
<1>1. L \in Nat /\ RetestRuns \in Nat /\ indices \in Nat /\ L * indices \in Nat
  BY PassBounds
<1>2. ASSUME NEW n \in 1..(L * indices)
      PROVE  <<list[(n - 1) \div indices + 1], variant, (n - 1) % indices>> \in calls
  <2>1. /\ (n - 1) \div indices + 1 \in 1..L /\ (n - 1) % indices \in 0..(indices - 1)
    BY <1>1, PlaceOfJob
  <2>2. (n - 1) % indices \in 0..RetestRuns
    BY <1>1, <2>1
  <2>3. list[(n - 1) \div indices + 1] \in Answers
    BY <2>1
  <2> QED BY <2>2, <2>3
<1>3. \A N \in Nat : [1..N -> calls] \subseteq Seq(calls)
  BY SeqDef
<1>4. Jobs(list, variant, indices) \in [1..(L * indices) -> calls]
  BY <1>2 DEF Jobs
<1> QED BY <1>1, <1>3, <1>4

(* What an invocation queues: calls only, of keys that rows may have.      *)
LEMMA QueuedAreCalls ==
  ASSUME NEW flags \in SUBSET {"grade", "subset", "retest", "probe"}
  PROVE  /\ Queued(flags) \in Seq(RunKey)
         /\ \A i \in DOMAIN Queued(flags) : Queued(flags)[i][2] # "concepts_shuffled"
<1> DEFINE calls == Answers \X {"base", "probe"} \X (0..RetestRuns)
           queue(flag, jobs) == IF flag \in flags THEN jobs ELSE <<>>
           ofGrade == queue("grade", Jobs(Order, "base", 1))
           ofSubset == queue("subset", Jobs(Sampled, "base", 1))
           ofRetest == queue("retest", Jobs(Order, "base", RetestRuns))
           ofProbe == queue("probe", Jobs(Sampled, "probe", 1))
<1>1. 1 \in 0..(RetestRuns + 1) /\ RetestRuns \in 0..(RetestRuns + 1)
  BY PassBounds
<1>2. /\ Jobs(Order, "base", 1) \in Seq(calls) /\ Jobs(Sampled, "base", 1) \in Seq(calls)
      /\ Jobs(Order, "base", RetestRuns) \in Seq(calls)
      /\ Jobs(Sampled, "probe", 1) \in Seq(calls)
  BY <1>1, JobsAreCalls, OrderIsAnswers
<1> HIDE DEF calls
<1>3. /\ ofGrade \in Seq(calls) /\ ofSubset \in Seq(calls)
      /\ ofRetest \in Seq(calls) /\ ofProbe \in Seq(calls)
  BY <1>2
<1>4. Queued(flags) = ofGrade \o ofSubset \o ofRetest \o ofProbe
  BY DEF Queued
<1> HIDE DEF ofGrade, ofSubset, ofRetest, ofProbe
<1>5. Queued(flags) \in Seq(calls)
  BY <1>3, <1>4
<1>6. \A c \in calls : c \in RunKey /\ c[2] # "concepts_shuffled"
  BY DEF calls, RunKey
<1>7. /\ Queued(flags) \in [1..Len(Queued(flags)) -> calls]
      /\ Len(Queued(flags)) \in Nat /\ DOMAIN Queued(flags) = 1..Len(Queued(flags))
  BY <1>5, LenProperties
<1>8. Queued(flags) \in [1..Len(Queued(flags)) -> RunKey]
  BY <1>6, <1>7
<1> QED BY <1>6, <1>7, <1>8, SeqDef

(* Each re-scored row of a file has its base row.                          *)
RescoredHaveBase(table) ==
  \A a \in Answers : table[<<a, "concepts_shuffled", 0>>] > 0 => table[<<a, "base", 0>>] > 0

(* A cut takes rows off the end, so that base rows outlast the re-scored.  *)
LEMMA CutFacts ==
  ASSUME NEW table \in [RunKey -> Nat], RescoredHaveBase(table), cuts \in 0..MaxCuts,
         CutWrite(table)
  PROVE  /\ runs' \in [RunKey -> Nat] /\ \A k \in RunKey : runs'[k] <= table[k]
         /\ RescoredHaveBase(runs')
         /\ legible' \in BOOLEAN /\ cuts' \in 0..MaxCuts /\ cuts' # cuts
<1>1. PICK k \in RunKey : \E n \in 0..(table[k] - 1) : runs' = CutAt(table, k, n)
  BY DEF CutWrite
<1>2. PICK n \in 0..(table[k] - 1) : runs' = CutAt(table, k, n)
  BY <1>1
<1> DEFINE new == runs'
<1>3. /\ new = [j \in RunKey |-> IF KeyBefore(j, k) THEN table[j] ELSE IF j = k THEN n ELSE 0]
      /\ n \in Nat /\ n < table[k] /\ table[k] \in Nat
  BY <1>2 DEF CutAt
<1> HIDE DEF new
<1>4. new \in [RunKey -> Nat] /\ \A j \in RunKey : new[j] <= table[j]
  <2> SUFFICES ASSUME NEW j \in RunKey PROVE new[j] \in Nat /\ new[j] <= table[j]
    BY <1>3
  <2>1. table[j] \in Nat /\ new[j] = IF KeyBefore(j, k) THEN table[j] ELSE IF j = k THEN n ELSE 0
    BY <1>3
  <2> QED BY <1>3, <2>1
<1>5. RescoredHaveBase(new)
  <2> SUFFICES ASSUME NEW a \in Answers, new[<<a, "concepts_shuffled", 0>>] > 0
               PROVE  new[<<a, "base", 0>>] > 0
    BY DEF RescoredHaveBase
  <2> DEFINE shuffled == <<a, "concepts_shuffled", 0>>
             base     == <<a, "base", 0>>
  <2>1. shuffled \in RunKey /\ base \in RunKey
    BY PassBounds DEF RunKey
  <2>2. table[shuffled] > 0 /\ table[base] > 0
    <3>1. new[shuffled] <= table[shuffled] /\ new[shuffled] \in Nat /\ table[shuffled] \in Nat
      BY <1>4, <2>1
    <3> QED BY <3>1 DEF RescoredHaveBase
  <2>3. KeyBefore(shuffled, k) \/ shuffled = k
    BY <1>3, <2>1
  <2>4. /\ k[1] \in Nat /\ a \in Nat /\ k[2] \in {"base", "probe", "concepts_shuffled"}
        /\ k[3] \in Nat
    BY AnswersAreOrdered, PassBounds DEF RunKey
  <2>5. KeyBefore(base, k)
    <3>1. /\ VariantRank["base"] = 1 /\ VariantRank["concepts_shuffled"] = 2
          /\ VariantRank["probe"] = 3
      BY DEF VariantRank
    <3>2. CASE KeyBefore(shuffled, k)
      BY <2>4, <3>1, <3>2 DEF KeyBefore
    <3>3. CASE shuffled = k
      <4>1. k[1] = a /\ k[2] = "concepts_shuffled"
        BY <3>3
      <4> QED BY <3>1, <4>1 DEF KeyBefore
    <3> QED BY <2>3, <3>2, <3>3
  <2>6. new[base] = table[base]
    BY <1>3, <2>1, <2>5
  <2> QED BY <2>2, <2>6
<1>6. legible' \in BOOLEAN /\ cuts' \in 0..MaxCuts /\ cuts' # cuts
  BY PassBounds DEF CutWrite
<1> QED BY <1>4, <1>5, <1>6 DEF new

(* Re-scoring touches only the re-scored rows of answers with a base row.  *)
LEMMA RescoredFacts ==
  ASSUME runs \in [RunKey -> Nat], Indexed(runs), RescoredHaveBase(runs)
  PROVE  /\ Rescored(runs) \in [RunKey -> Nat] /\ Indexed(Rescored(runs))
         /\ \A k \in RunKey : runs[k] <= Rescored(runs)[k]
         /\ RescoredHaveBase(Rescored(runs))
<1> DEFINE old == Rescored(runs)
<1>1. \A k \in RunKey : runs[k] \in Nat /\ runs[k] <= 1
  BY DEF Indexed
<1>2. /\ old \in [RunKey -> Nat]
      /\ \A k \in RunKey : old[k] = 1 \/ old[k] = runs[k]
  BY <1>1 DEF Rescored
<1>3. ASSUME NEW a \in Answers
      PROVE  /\ old[<<a, "base", 0>>] = runs[<<a, "base", 0>>]
             /\ old[<<a, "concepts_shuffled", 0>>] =
                  IF runs[<<a, "base", 0>>] > 0 THEN 1
                  ELSE runs[<<a, "concepts_shuffled", 0>>]
  <2>1. /\ <<a, "base", 0>> \in RunKey /\ <<a, "concepts_shuffled", 0>> \in RunKey
    BY PassBounds DEF RunKey
  <2>2. \A k \in RunKey : old[k] = IF /\ k[2] = "concepts_shuffled" /\ k[3] = 0
                                      /\ runs[<<k[1], "base", 0>>] > 0
                                  THEN 1 ELSE runs[k]
    BY DEF Rescored
  <2> HIDE DEF old
  <2> QED BY <2>1, <2>2
<1> HIDE DEF old
<1>4. RescoredHaveBase(old)
  <2>1. \A a \in Answers : <<a, "base", 0>> \in RunKey
    BY PassBounds DEF RunKey
  <2> QED BY <1>1, <1>3, <2>1 DEF RescoredHaveBase
<1>5. Indexed(old) /\ \A k \in RunKey : runs[k] <= old[k]
  BY <1>1, <1>2 DEF Indexed
<1> QED BY <1>2, <1>4, <1>5 DEF old

(* The rows a job that lands would write.                                  *)
LEMMA LandedRows ==
  ASSUME RunsInv, pass.phase = "running", NEW i \in pass.flying,
         NEW table, table = [pass.out EXCEPT ![pass.jobs[i]] = @ + 1]
  PROVE  /\ table \in [RunKey -> Nat] /\ RescoredHaveBase(table)
         /\ IsInjective(pass.jobs) => Indexed(table)
<1> DEFINE key == pass.jobs[i]
<1>1. /\ runs \in [RunKey -> Nat] /\ i \in DOMAIN pass.jobs /\ key \in RunKey
      /\ key[2] # "concepts_shuffled" /\ pass.out = runs
  <2>1. /\ pass.jobs \in Seq(RunKey) /\ runs \in [RunKey -> Nat] /\ i \in DOMAIN pass.jobs
        /\ pass.out = runs
    BY DEF RunsInv, RunsTypeOK, Pass
  <2>2. key \in RunKey
    BY <2>1, LenProperties, ElementOfSeq
  <2> QED BY <2>1, <2>2 DEF RunsInv
<1> HIDE DEF key
<1>2. table = [runs EXCEPT ![key] = @ + 1]
  BY <1>1 DEF key
<1>3. /\ table \in [RunKey -> Nat] /\ table[key] = runs[key] + 1
      /\ \A k \in RunKey : runs[k] \in Nat /\ runs[k] <= table[k]
      /\ \A k \in RunKey : k # key => table[k] = runs[k]
  BY <1>1, <1>2
<1>4. RescoredHaveBase(table)
  <2>1. \A a \in Answers : /\ <<a, "concepts_shuffled", 0>> \in RunKey
                           /\ <<a, "base", 0>> \in RunKey
                           /\ <<a, "concepts_shuffled", 0>> # key
    <3>1. \A a \in Answers : <<a, "concepts_shuffled", 0>>[2] # key[2]
      BY <1>1
    <3> QED BY <3>1, PassBounds DEF RunKey
  <2> QED BY <1>3, <2>1 DEF RescoredHaveBase, RunsInv
<1>5. ASSUME IsInjective(pass.jobs) PROVE Indexed(table)
  <2>1. Indexed(runs) /\ runs[key] = 0
    BY <1>5 DEF RunsInv, RunsAreDistinctIfQueuedOnce, key
  <2> QED BY <1>1, <1>3, <2>1 DEF Indexed
<1> QED BY <1>3, <1>4, <1>5

LEMMA NoPassFacts ==
  /\ NoPass \in Pass /\ NoPass.phase = "none" /\ NoPass.jobs = <<>> /\ DOMAIN NoPass.jobs = {}
  /\ NoPass.todo = {} /\ NoPass.waiting = {} /\ NoPass.flying = {}
<1>1. NoRows \in [RunKey -> Nat] /\ <<>> \in Seq(RunKey) /\ DOMAIN <<>> = {}
  <2>1. DOMAIN <<>> = {}
    OBVIOUS
  <2> QED BY <2>1, EmptySeq DEF NoRows
<1> QED BY <1>1 DEF NoPass, Pass

(* A killed pass leaves its jobs behind and nothing else.                  *)
LEMMA KilledFacts ==
  ASSUME pass \in Pass
  PROVE  /\ Killed \in Pass /\ Killed.phase = "killed" /\ Killed.jobs = pass.jobs
         /\ Killed.todo = {} /\ Killed.waiting = {} /\ Killed.flying = {}
<1>1. NoPass \in Pass /\ pass.jobs \in Seq(RunKey)
  BY NoPassFacts DEF Pass
<1>2. Killed \in Pass /\ Killed.phase = "killed" /\ Killed.jobs = pass.jobs
  BY <1>1 DEF Killed, Pass
<1>3. /\ Killed.todo = NoPass.todo /\ Killed.waiting = NoPass.waiting
      /\ Killed.flying = NoPass.flying
  BY <1>1 DEF Killed, Pass
<1> QED BY <1>2, <1>3, NoPassFacts

(* Every step of a pass keeps the invariant, and, unless a write is cut    *)
(* off, the rows on disk.                                                  *)
LEMMA RunsStep ==
  ASSUME RunsInv, [RunsNext]_runVars
  PROVE  RunsInv' /\ (cuts' = cuts => \A k \in RunKey : runs[k] <= runs'[k])
<1> DEFINE Kept == \A k \in RunKey : runs[k] <= runs'[k]
<1>0. legible \in BOOLEAN /\ cuts \in 0..MaxCuts /\ RescoredHaveBase(runs)
  BY DEF RunsInv, RunsTypeOK, RescoredHaveBase
<1>1. /\ runs \in [RunKey -> Nat] /\ failures \subseteq RunKey /\ pass \in Pass
      /\ pass.todo \subseteq DOMAIN pass.jobs /\ pass.waiting \cup pass.flying \subseteq pass.todo
      /\ pass.waiting \cap pass.flying = {} /\ passes \in 0..MaxPasses
      /\ \A i \in DOMAIN pass.jobs : pass.jobs[i] \in RunKey
  <2>1. pass.jobs \in Seq(RunKey)
    BY DEF RunsInv, RunsTypeOK, Pass
  <2>2. \A i \in DOMAIN pass.jobs : pass.jobs[i] \in RunKey
    BY <2>1, LenProperties, ElementOfSeq
  <2> QED BY <2>2 DEF RunsInv, RunsTypeOK
<1>2. \A a \in Answers, v \in {"base", "probe", "concepts_shuffled"} : <<a, v, 0>> \in RunKey
  BY PassBounds DEF RunKey
<1>3. ASSUME NEW flags \in SUBSET {"grade", "subset", "retest", "probe"}, NEW position \in BOOLEAN,
             NEW limit \in 0..1, StartPass(flags, position, limit)
      PROVE  RunsInv' /\ Kept
  <2> DEFINE old == IF position THEN Rescored(runs) ELSE runs
             jobs == Queued(flags)
             todo == Outstanding(jobs, old, limit)
  <2>1. /\ Indexed(runs) /\ runs' = old /\ passes < MaxPasses /\ passes' = passes + 1
        /\ pass' = IF jobs = <<>> THEN NoPass
                   ELSE [NoPass EXCEPT !.phase = "running", !.jobs = jobs, !.todo = todo,
                                       !.waiting = todo, !.out = old]
        /\ failures' = failures /\ legible' = legible /\ cuts' = cuts
    BY <1>3 DEF StartPass, fileVars
  <2>2. /\ old \in [RunKey -> Nat] /\ Indexed(old) /\ \A k \in RunKey : runs[k] <= old[k]
        /\ \A a \in Answers : old[<<a, "concepts_shuffled", 0>>] > 0 =>
             old[<<a, "base", 0>>] > 0
    <3>1. \A k \in RunKey : runs[k] \in Nat /\ runs[k] <= 1
      BY <1>1, <2>1 DEF Indexed
    <3>2. CASE ~position
      BY <1>1, <2>1, <3>1, <3>2 DEF RunsInv
    <3>3. CASE position
      <4>1. old = Rescored(runs)
        BY <3>3
      <4> HIDE DEF old
      <4>2. RescoredHaveBase(old)
        BY <1>0, <1>1, <2>1, <4>1, RescoredFacts
      <4>3. /\ old \in [RunKey -> Nat] /\ Indexed(old) /\ \A k \in RunKey : runs[k] <= old[k]
        BY <1>0, <1>1, <2>1, <4>1, RescoredFacts
      <4> QED BY <4>2, <4>3 DEF RescoredHaveBase
    <3> QED BY <3>2, <3>3
  <2> HIDE DEF old
  <2>3. passes' \in 0..MaxPasses
    BY <1>1, <2>1, PassBounds
  <2>4. jobs \in Seq(RunKey) /\ \A i \in DOMAIN jobs : jobs[i][2] # "concepts_shuffled"
    BY QueuedAreCalls
  <2>6. CASE jobs = <<>>
    <3>1. pass' = NoPass
      BY <2>1, <2>6
    <3>3. /\ pass'.phase = "none" /\ pass'.jobs = <<>> /\ DOMAIN pass'.jobs = {}
          /\ pass'.todo = {} /\ pass'.waiting = {} /\ pass'.flying = {} /\ pass' \in Pass
      BY <3>1, NoPassFacts
    <3>4. RunsTypeOK'
      BY <1>0, <1>1, <2>1, <2>2, <2>3, <3>3 DEF RunsTypeOK
    <3> QED BY <2>1, <2>2, <3>3, <3>4
          DEF RunsInv, EveryJobIsAccountedFor, RunsAreDistinctIfQueuedOnce, Indexed
  <2>7. CASE jobs # <<>>
    <3>1. /\ todo \subseteq DOMAIN jobs /\ \A n \in todo : old[jobs[n]] = 0
      BY DEF Outstanding
    <3>2. DOMAIN jobs \subseteq Nat
      BY <2>4, LenProperties
    <3> HIDE DEF todo, jobs
    <3>3. pass' = [phase |-> "running", jobs |-> jobs, todo |-> todo, waiting |-> todo,
                   flying |-> {}, out |-> old, failed |-> {}]
      BY <2>1, <2>7 DEF NoPass
    <3>4. pass' \in Pass
      BY <2>2, <2>4, <3>1, <3>2, <3>3 DEF Pass
    <3>5. /\ pass'.phase = "running" /\ pass'.jobs = jobs /\ pass'.todo = todo
          /\ pass'.waiting = todo /\ pass'.flying = {} /\ pass'.out = old
      BY <3>3
    <3>6. RunsTypeOK'
      BY <1>0, <1>1, <2>1, <2>2, <2>3, <3>1, <3>4, <3>5 DEF RunsTypeOK
    <3> QED BY <2>1, <2>2, <2>4, <3>1, <3>5, <3>6
          DEF RunsInv, EveryJobIsAccountedFor, RunsAreDistinctIfQueuedOnce, Indexed
  <2> QED BY <2>6, <2>7
<1>4. CASE Launch
  <2>1. PICK i \in pass.waiting :
          pass' = [pass EXCEPT !.waiting = @ \ {i}, !.flying = @ \cup {i}]
    BY <1>4 DEF Launch
  <2>2. UNCHANGED <<runs, failures, passes, legible, cuts>> /\ pass.phase = "running"
    BY <1>4 DEF Launch, fileVars
  <2>3. pass' \in Pass
    BY <1>1, <2>1 DEF Pass
  <2>4. /\ pass'.phase = pass.phase /\ pass'.jobs = pass.jobs /\ pass'.todo = pass.todo
        /\ pass'.waiting \cup pass'.flying = pass.waiting \cup pass.flying
        /\ pass'.waiting \cap pass'.flying = {} /\ pass'.out = pass.out /\ pass'.failed = pass.failed
    BY <1>1, <2>1 DEF Pass
  <2>5. RunsTypeOK'
    BY <1>0, <1>1, <2>2, <2>3, <2>4 DEF RunsTypeOK
  <2> QED BY <1>1, <2>2, <2>4, <2>5
        DEF RunsInv, EveryJobIsAccountedFor, RunsAreDistinctIfQueuedOnce, Indexed
<1>5. ASSUME NEW i \in pass.flying, Lands(i) PROVE RunsInv' /\ Kept
  <2> DEFINE key == pass.jobs[i]
  <2>1. /\ pass' = [pass EXCEPT !.flying = @ \ {i}, !.out[key] = @ + 1]
        /\ runs' = pass'.out /\ UNCHANGED <<failures, passes, legible, cuts>>
        /\ pass.phase = "running"
    BY <1>5 DEF Lands, fileVars
  <2>2. /\ i \in pass.todo /\ i \in DOMAIN pass.jobs /\ key \in RunKey
        /\ key[2] # "concepts_shuffled" /\ pass.out = runs
    BY <1>1, <2>1 DEF RunsInv
  <2> HIDE DEF key
  <2>3. /\ pass'.phase = "running" /\ pass'.jobs = pass.jobs /\ pass'.todo = pass.todo
        /\ pass'.waiting = pass.waiting /\ pass'.flying = pass.flying \ {i}
        /\ pass'.failed = pass.failed
        /\ pass'.out = [runs EXCEPT ![key] = @ + 1]
    BY <1>1, <2>1, <2>2 DEF Pass
  <2>4. /\ runs' \in [RunKey -> Nat] /\ Kept /\ runs'[key] > 0
        /\ \A k \in RunKey : k # key => runs'[k] = runs[k]
    BY <1>1, <2>1, <2>2, <2>3
  <2>5. pass' \in Pass
    BY <1>1, <2>1, <2>3, <2>4 DEF Pass
  <2>6. RunsTypeOK'
    BY <1>0, <1>1, <2>1, <2>3, <2>4, <2>5 DEF RunsTypeOK
  <2>7. \A a \in Answers : runs'[<<a, "concepts_shuffled", 0>>] > 0 => runs'[<<a, "base", 0>>] > 0
    <3>1. \A a \in Answers : runs'[<<a, "concepts_shuffled", 0>>] = runs[<<a, "concepts_shuffled", 0>>]
      <4>1. \A a \in Answers : <<a, "concepts_shuffled", 0>>[2] # key[2]
        BY <2>2
      <4> QED BY <1>2, <2>4, <4>1
    <3> QED BY <1>1, <1>2, <2>4, <3>1 DEF RunsInv
  <2>8. \A j \in pass'.todo \ (pass'.waiting \cup pass'.flying) :
          runs'[pass'.jobs[j]] > 0 \/ pass'.jobs[j] \in pass'.failed
    <3>1. \A j \in pass.todo \ (pass.waiting \cup pass.flying) :
            runs'[pass.jobs[j]] > 0 \/ pass.jobs[j] \in pass.failed
      BY <1>1, <2>1, <2>4 DEF RunsInv
    <3> QED BY <2>3, <2>4, <3>1 DEF key
  <2>9. ASSUME IsInjective(pass.jobs)
        PROVE  /\ Indexed(runs')
               /\ \A j \in pass'.waiting \cup pass'.flying : runs'[pass'.jobs[j]] = 0 \/ j = i
    <3>1. /\ runs[key] = 0 /\ Indexed(runs)
          /\ \A j \in pass.waiting \cup pass.flying : runs[pass.jobs[j]] = 0
      BY <2>1, <2>9 DEF RunsInv, RunsAreDistinctIfQueuedOnce, key
    <3>2. \A j \in pass.waiting \cup pass.flying : j # i => pass.jobs[j] # key
      BY <1>1, <2>2, <2>9 DEF IsInjective, key
    <3>3. runs'[key] = 1
      BY <1>1, <2>1, <2>2, <2>3, <3>1
    <3> QED BY <1>1, <2>3, <2>4, <3>1, <3>2, <3>3 DEF Indexed
  <2>10. i \notin pass'.waiting \cup pass'.flying
    BY <1>1, <2>3 DEF RunsInv
  <2> QED BY <2>1, <2>2, <2>3, <2>4, <2>6, <2>7, <2>8, <2>9, <2>10
        DEF RunsInv, EveryJobIsAccountedFor, RunsAreDistinctIfQueuedOnce
<1>6. ASSUME NEW i \in pass.flying, FailsToGrade(i) PROVE RunsInv' /\ Kept
  <2>1. /\ pass' = [pass EXCEPT !.flying = @ \ {i}, !.failed = @ \cup {pass.jobs[i]}]
        /\ UNCHANGED <<runs, failures, passes, legible, cuts>> /\ pass.phase = "running"
    BY <1>6 DEF FailsToGrade, fileVars
  <2>2. i \in pass.todo /\ pass.jobs[i] \in RunKey
    BY <1>1
  <2>3. /\ pass'.phase = "running" /\ pass'.jobs = pass.jobs /\ pass'.todo = pass.todo
        /\ pass'.waiting = pass.waiting /\ pass'.flying = pass.flying \ {i}
        /\ pass'.failed = pass.failed \cup {pass.jobs[i]} /\ pass'.out = pass.out
    BY <1>1, <2>1 DEF Pass
  <2>4. pass' \in Pass
    BY <1>1, <2>1, <2>2 DEF Pass
  <2>5. RunsTypeOK'
    BY <1>0, <1>1, <2>1, <2>3, <2>4 DEF RunsTypeOK
  <2> QED BY <1>1, <2>1, <2>2, <2>3, <2>5
        DEF RunsInv, EveryJobIsAccountedFor, RunsAreDistinctIfQueuedOnce, Indexed
<1>7. CASE EndPass
  <2>1. /\ pass.phase = "running" /\ pass.waiting = {} /\ pass.flying = {}
        /\ runs' = runs /\ failures' = failures \cup pass.failed
        /\ pass' = [pass EXCEPT !.phase = "ended"] /\ UNCHANGED <<passes, legible, cuts>>
    BY <1>7 DEF EndPass, RunsInv, fileVars
  <2>2. /\ pass'.phase = "ended" /\ pass'.jobs = pass.jobs /\ pass'.todo = pass.todo
        /\ pass'.waiting = {} /\ pass'.flying = {} /\ pass' \in Pass
        /\ pass.failed \subseteq RunKey
    BY <1>1, <2>1 DEF Pass
  <2>3. RunsTypeOK'
    BY <1>0, <1>1, <2>1, <2>2 DEF RunsTypeOK
  <2> QED BY <1>1, <2>1, <2>2, <2>3
        DEF RunsInv, EveryJobIsAccountedFor, RunsAreDistinctIfQueuedOnce, Indexed
<1>8. CASE KillPass
  <2>1. pass' = Killed /\ UNCHANGED <<runs, failures, passes, legible, cuts>>
    BY <1>8 DEF KillPass, fileVars
  <2>2. /\ pass'.phase = "killed" /\ pass'.jobs = pass.jobs /\ pass'.todo = {}
        /\ pass'.waiting = {} /\ pass'.flying = {} /\ pass' \in Pass
    BY <1>1, <2>1, KilledFacts
  <2>3. RunsTypeOK'
    BY <1>0, <1>1, <2>1, <2>2 DEF RunsTypeOK
  <2> QED BY <1>1, <2>1, <2>2, <2>3
        DEF RunsInv, EveryJobIsAccountedFor, RunsAreDistinctIfQueuedOnce, Indexed
<1>9. CASE KillWriting
  <2>1. PICK table \in [RunKey -> Nat] :
          /\ CutWrite(table) /\ RescoredHaveBase(table)
          /\ IsInjective(pass.jobs) => Indexed(table)
    <3>1. pass.phase = "running"
      BY <1>9 DEF KillWriting
    <3>2. CASE \E i \in pass.flying : CutWrite([pass.out EXCEPT ![pass.jobs[i]] = @ + 1])
      <4>1. PICK i \in pass.flying : CutWrite([pass.out EXCEPT ![pass.jobs[i]] = @ + 1])
        BY <3>2
      <4> DEFINE table == [pass.out EXCEPT ![pass.jobs[i]] = @ + 1]
      <4>2. /\ table \in [RunKey -> Nat] /\ RescoredHaveBase(table)
            /\ IsInjective(pass.jobs) => Indexed(table)
        BY <3>1, LandedRows
      <4>3. CutWrite(table)
        BY <4>1
      <4> HIDE DEF table
      <4> QED BY <4>2, <4>3
    <3>3. CASE CutWrite(pass.out)
      <4>1. pass.out = runs
        BY <3>1 DEF RunsInv
      <4>2. IsInjective(pass.jobs) => Indexed(runs)
        BY DEF RunsInv, RunsAreDistinctIfQueuedOnce
      <4> QED BY <1>0, <1>1, <3>3, <4>1, <4>2
    <3> QED BY <1>9, <3>2, <3>3 DEF KillWriting
  <2>2. pass' = Killed /\ UNCHANGED <<failures, passes>>
    BY <1>9 DEF KillWriting
  <2>3. /\ runs' \in [RunKey -> Nat] /\ \A k \in RunKey : runs'[k] <= table[k]
        /\ RescoredHaveBase(runs')
        /\ legible' \in BOOLEAN /\ cuts' \in 0..MaxCuts /\ cuts' # cuts
    BY <1>0, <2>1, CutFacts
  <2>4. /\ pass'.phase = "killed" /\ pass'.jobs = pass.jobs /\ pass'.todo = {}
        /\ pass'.waiting = {} /\ pass'.flying = {} /\ pass' \in Pass
    BY <1>1, <2>2, KilledFacts
  <2>5. IsInjective(pass.jobs) => \A k \in RunKey : runs'[k] <= 1
    <3>1. \A k \in RunKey : runs'[k] \in Nat /\ table[k] \in Nat
      BY <2>1, <2>3
    <3> QED BY <2>1, <2>3, <3>1 DEF Indexed
  <2>6. RunsTypeOK'
    BY <1>1, <2>2, <2>3, <2>4 DEF RunsTypeOK
  <2> QED BY <1>1, <2>3, <2>4, <2>5, <2>6
        DEF RunsInv, EveryJobIsAccountedFor, RunsAreDistinctIfQueuedOnce, Indexed,
            RescoredHaveBase
<1>10. CASE KillRescoring
  <2> DEFINE table == Rescored(runs)
  <2>1. /\ Indexed(runs) /\ CutWrite(table) /\ pass' = NoPass /\ failures' = failures
        /\ passes < MaxPasses /\ passes' = passes + 1
    BY <1>10 DEF KillRescoring
  <2>2. table \in [RunKey -> Nat] /\ Indexed(table) /\ RescoredHaveBase(table)
    BY <1>0, <1>1, <2>1, RescoredFacts
  <2> HIDE DEF table
  <2>3. /\ runs' \in [RunKey -> Nat] /\ \A k \in RunKey : runs'[k] <= table[k]
        /\ RescoredHaveBase(runs')
        /\ legible' \in BOOLEAN /\ cuts' \in 0..MaxCuts /\ cuts' # cuts
    BY <1>0, <2>1, <2>2, CutFacts
  <2>4. /\ pass'.phase = "none" /\ DOMAIN pass'.jobs = {} /\ pass'.todo = {}
        /\ pass'.waiting = {} /\ pass'.flying = {} /\ pass' \in Pass
    BY <2>1, NoPassFacts
  <2>5. \A k \in RunKey : runs'[k] <= 1
    <3>1. \A k \in RunKey : runs'[k] \in Nat /\ table[k] \in Nat
      BY <2>2, <2>3
    <3> QED BY <2>2, <2>3, <3>1 DEF Indexed
  <2>6. passes' \in 0..MaxPasses
    BY <1>1, <2>1, PassBounds
  <2>7. RunsTypeOK'
    BY <1>1, <2>1, <2>3, <2>4, <2>6 DEF RunsTypeOK
  <2> QED BY <2>3, <2>4, <2>5, <2>7
        DEF RunsInv, EveryJobIsAccountedFor, RunsAreDistinctIfQueuedOnce, Indexed,
            RescoredHaveBase
<1>11. CASE MendRuns
  <2>1. legible' = TRUE /\ UNCHANGED <<runs, failures, pass, passes, cuts>>
    BY <1>11 DEF MendRuns
  <2>2. RunsTypeOK'
    BY <1>0, <1>1, <2>1 DEF RunsTypeOK
  <2> QED BY <1>1, <2>1, <2>2
        DEF RunsInv, EveryJobIsAccountedFor, RunsAreDistinctIfQueuedOnce, Indexed
<1>12. CASE UNCHANGED runVars
  BY <1>1, <1>12 DEF runVars, fileVars, RunsInv, RunsTypeOK, EveryJobIsAccountedFor,
                    RunsAreDistinctIfQueuedOnce, Indexed
<1> QED BY <1>3, <1>4, <1>5, <1>6, <1>7, <1>8, <1>9, <1>10, <1>11, <1>12 DEF RunsNext

(* No pass has run yet.                                                    *)
LEMMA RunsInitInv == RunsInit => RunsInv
<1> SUFFICES ASSUME RunsInit PROVE RunsInv
  OBVIOUS
<1>1. /\ runs = NoRows /\ failures = {} /\ pass = NoPass /\ passes = 0
      /\ legible = TRUE /\ cuts = 0
  BY DEF RunsInit
<1>2. runs \in [RunKey -> Nat] /\ \A k \in RunKey : runs[k] = 0
  BY <1>1 DEF NoRows
<1>3. \A a \in Answers : <<a, "concepts_shuffled", 0>> \in RunKey
  BY PassBounds DEF RunKey
<1>4. RunsTypeOK
  BY <1>1, <1>2, NoPassFacts, PassBounds DEF RunsTypeOK
<1> QED BY <1>1, <1>2, <1>3, <1>4, NoPassFacts
      DEF RunsInv, EveryJobIsAccountedFor, RunsAreDistinctIfQueuedOnce, Indexed

(* A grading pass loses nothing it paid for unless a kill cuts off a write *)
(* of the file, accounts for every job it took up when it ends, whatever   *)
(* was cut off before it, and never leaves a row twice or a re-scored row  *)
(* without its base, however many jobs are in flight and wherever it is    *)
(* killed (run_grading_validity.py).                                       *)
THEOREM PassesResumable == RunsSpec => PassesAreResumable
<1>1. RunsInit => RunsInv
  BY RunsInitInv
<1>2. RunsInv /\ [RunsNext]_runVars => RunsInv'
  BY RunsStep
<1>3. RunsInv /\ [RunsNext]_runVars
        => [cuts' = cuts => \A k \in RunKey : runs[k] <= runs'[k]]_runVars
  BY RunsStep
<1>4. RunsInv => RescoresArePaired
  BY DEF RunsInv, RescoresArePaired, Paired, Selected
<1>5. RunsInv => EveryJobIsAccountedFor /\ RunsAreDistinctIfQueuedOnce
  BY DEF RunsInv
<1> QED BY <1>1, <1>2, <1>3, <1>4, <1>5, PTL DEF RunsSpec, PassesAreResumable, PaidForIsKept

-----------------------------------------------------------------------------
(***************************************************************************)
(* Recordings.                                                             *)
(***************************************************************************)
(* What a run starts with: every readable fixture, and the file it is in.  *)
LEMMA LoadedKnowsTheFiles ==
  ASSUME RecordingsInv
  PROVE  /\ DOMAIN Loaded.paths = DOMAIN Loaded.fixtures
         /\ \A r \in DOMAIN Loaded.paths : Loaded.paths[r] \in Names
         /\ \A f \in Names : Readable(f) =>
              LET r == directory[f].fixture.request
              IN  r \in DOMAIN Loaded.paths /\ Loaded.paths[r] = f
<1> DEFINE FilesOf(r) == {f \in Names : Readable(f) /\ directory[f].fixture.request = r}
           filed == {r \in Requests : FilesOf(r) # {}}
           First(r) == Min(FilesOf(r))
<1>1. /\ Loaded.paths = [r \in filed |-> First(r)] /\ DOMAIN Loaded.paths = filed
      /\ DOMAIN Loaded.fixtures = filed
  BY DEF Loaded
<1>2. ASSUME NEW f \in Names, Readable(f)
      PROVE  LET r == directory[f].fixture.request
             IN  r \in filed /\ FilesOf(r) = {f} /\ First(r) = f
  <2> DEFINE r == directory[f].fixture.request
  <2>1. r \in Requests /\ FilesOf(r) = {f}
    BY <1>2 DEF RecordingsInv, OneFile
  <2>2. \A S : S = {f} => Min(S) = f
    BY NamesAreOrdered DEF Min
  <2> QED BY <2>1, <2>2
<1>3. \A r \in filed : First(r) \in Names
  <2> SUFFICES ASSUME NEW r \in filed PROVE First(r) \in Names
    OBVIOUS
  <2>1. PICK f \in Names : Readable(f) /\ directory[f].fixture.request = r
    OBVIOUS
  <2>2. First(r) = f
    BY <1>2, <2>1
  <2> QED BY <2>1, <2>2
<1> HIDE DEF filed, First
<1> QED BY <1>1, <1>2, <1>3

(* A plan is a sequence of entries.                                        *)
LEMMA PlansAreSequences ==
  ASSUME NEW plan \in Plans PROVE plan \in Seq(Entry)
<1>1. Cardinality(Names) \in Nat
  BY NamesAreOrdered, FS_CardinalityType
<1>2. PICK n \in 0..Cardinality(Names) : plan \in [1..n -> Entry]
  BY DEF Plans, BoundedSeq, SeqOf
<1>3. n \in Nat
  BY <1>1
<1> QED BY <1>2, <1>3, SeqDef

(* The next entry, and the rest.                                           *)
LEMMA EntryAtHand ==
  ASSUME RecordingsInv, recorder.running, recorder.todo # <<>>
  PROVE  /\ Current.name \in Names /\ Current.request \in Requests
         /\ Tail(recorder.todo) \in Seq(Entry) /\ Target \in Names
<1>1. recorder.todo \in Seq(Entry)
  BY DEF RecordingsInv
<1>2. Head(recorder.todo) \in Entry /\ Tail(recorder.todo) \in Seq(Entry)
  BY <1>1, EmptySeq
<1>3. Current.name \in Names /\ Current.request \in Requests
  BY <1>2 DEF Current, Entry
<1>4. Existing => store.paths[Current.request] \in Names
  BY DEF Existing, RecordingsInv
<1> QED BY <1>2, <1>3, <1>4 DEF Target

(* Saving a fixture leaves its request in one file, the one the store has. *)
LEMMA SavedInOneFile ==
  ASSUME RecordingsInv, recorder.running, recorder.todo # <<>>,
         NEW fixture, fixture.request = Current.request, Save(fixture)
  PROVE  /\ DOMAIN directory' = Names /\ \A f, g \in Names : OneFile(f, g)'
         /\ \A f \in Names : Readable(f)' => directory'[f].fixture.request \in Requests
         /\ DOMAIN store'.paths = DOMAIN store'.fixtures
         /\ \A r \in DOMAIN store'.paths : store'.paths[r] \in Names
         /\ \A f \in Names : Readable(f)' =>
              LET r == directory'[f].fixture.request
              IN  r \in DOMAIN store'.paths /\ store'.paths[r] = f
         /\ \A f \in Names : directory'[f] # directory[f] =>
              f = Target /\ directory'[f].fixture.request = Current.request
<1> DEFINE target == Target
           wanted == Current.request
<1>1. target \in Names /\ wanted \in Requests
  BY EntryAtHand
<1>2. /\ directory' = [directory EXCEPT ![target] = File(fixture)]
      /\ store'.fixtures = [r \in DOMAIN store.fixtures \cup {wanted} |->
                              IF r = wanted THEN fixture ELSE store.fixtures[r]]
      /\ store'.paths = [r \in DOMAIN store.paths \cup {wanted} |->
                           IF r = wanted THEN target ELSE store.paths[r]]
  BY DEF Save
<1>3. /\ DOMAIN directory = Names /\ DOMAIN store.paths = DOMAIN store.fixtures
      /\ \A r \in DOMAIN store.paths : store.paths[r] \in Names
      /\ \A f \in Names : Readable(f) =>
           /\ directory[f].fixture.request \in Requests
           /\ directory[f].fixture.request \in DOMAIN store.paths
           /\ store.paths[directory[f].fixture.request] = f
  BY DEF RecordingsInv
<1>4. wanted \in DOMAIN store.paths => target = store.paths[wanted]
  BY <1>3 DEF Target, Existing
<1> HIDE DEF target, wanted
<1>5. File(fixture).kind = "fixture" /\ File(fixture).fixture.request = wanted
  BY DEF File, wanted
<1>6. /\ DOMAIN directory' = Names
      /\ directory'[target].kind = "fixture" /\ directory'[target].fixture.request = wanted
      /\ \A f \in Names \ {target} : directory'[f] = directory[f]
  BY <1>1, <1>2, <1>3, <1>5 DEF Readable
<1>7. /\ DOMAIN store'.paths = DOMAIN store.paths \cup {wanted}
      /\ DOMAIN store'.fixtures = DOMAIN store.fixtures \cup {wanted}
      /\ store'.paths[wanted] = target
      /\ \A r \in DOMAIN store.paths : r # wanted => store'.paths[r] = store.paths[r]
  BY <1>2
<1>8. ASSUME NEW f \in Names, Readable(f)', f # target
      PROVE  /\ Readable(f) /\ directory'[f] = directory[f]
             /\ directory[f].fixture.request # wanted
  <2>1. Readable(f) /\ directory'[f] = directory[f]
    BY <1>6, <1>8 DEF Readable
  <2>2. directory[f].fixture.request = wanted => target = f
    BY <1>3, <1>4, <2>1
  <2> QED BY <1>8, <2>1, <2>2
<1>9. \A f \in Names : Readable(f)' =>
        /\ directory'[f].fixture.request \in Requests
        /\ directory'[f].fixture.request \in DOMAIN store'.paths
        /\ store'.paths[directory'[f].fixture.request] = f
  BY <1>1, <1>3, <1>6, <1>7, <1>8
<1>10. \A f, g \in Names : OneFile(f, g)'
  BY <1>9 DEF OneFile
<1>11. \A r \in DOMAIN store'.paths : store'.paths[r] \in Names
  BY <1>1, <1>3, <1>7
<1> QED BY <1>3, <1>6, <1>7, <1>9, <1>10, <1>11 DEF target, wanted

(* Every step of a recording keeps the invariant.                          *)
LEMMA RecordingsStep ==
  ASSUME RecordingsInv, [RecordingsNext]_recordingVars PROVE RecordingsInv'
<1>1. ASSUME NEW plan \in Plans, NEW overwrite \in BOOLEAN, NEW dryRun \in BOOLEAN,
             StartRecording(plan, overwrite, dryRun)
      PROVE  RecordingsInv'
  <2>1. /\ directory' = directory /\ store' = Loaded /\ recorder'.todo = plan
    BY <1>1 DEF StartRecording
  <2>2. plan \in Seq(Entry)
    BY PlansAreSequences
  <2>3. /\ DOMAIN store'.paths = DOMAIN store'.fixtures
        /\ \A r \in DOMAIN store'.paths : store'.paths[r] \in Names
        /\ \A f \in Names : Readable(f) =>
             LET r == directory[f].fixture.request
             IN  r \in DOMAIN store'.paths /\ store'.paths[r] = f
    BY <2>1, LoadedKnowsTheFiles
  <2> QED BY <2>1, <2>2, <2>3 DEF RecordingsInv, OneFile, Readable
<1>2. ASSUME recorder.running, recorder.todo # <<>>, NextEntry, UNCHANGED <<directory, store>>
      PROVE  RecordingsInv'
  <2>1. Tail(recorder.todo) \in Seq(Entry)
    BY <1>2, EntryAtHand
  <2>2. recorder'.todo = Tail(recorder.todo) \/ recorder' = recorder
    BY <1>2 DEF NextEntry
  <2>3. recorder'.running => recorder'.todo \in Seq(Entry)
    BY <1>2, <2>1, <2>2 DEF NextEntry, RecordingsInv
  <2> QED BY <1>2, <2>3 DEF RecordingsInv, OneFile, Readable
<1>3. ASSUME recorder.running, recorder.todo # <<>>, RecordEntry PROVE RecordingsInv'
  <2>1. PICK fixture : fixture.request = Current.request /\ Save(fixture)
    <3>1. PICK answers_ : Save([request |-> Current.request, answer |-> LastExchange(answers_)])
      BY <1>3 DEF RecordEntry
    <3> QED BY <3>1
  <2>2. Tail(recorder.todo) \in Seq(Entry)
    BY <1>3, EntryAtHand
  <2>3. recorder' = [recorder EXCEPT !.todo = Tail(@)]
    BY <1>3 DEF RecordEntry, NextEntry
  <2> QED BY <1>3, <2>1, <2>2, <2>3, SavedInOneFile DEF RecordingsInv
<1>4. CASE EndRecording
  <2>1. ~recorder'.running \/ recorder' = recorder
    BY <1>4 DEF EndRecording
  <2> QED BY <1>4, <2>1 DEF EndRecording, RecordingsInv, OneFile, Readable
<1>5. CASE KillRecording
  <2>1. ~recorder'.running
    BY <1>5 DEF KillRecording, Idle
  <2>2. /\ DOMAIN directory' = Names
        /\ \A f \in Names : Readable(f)' => Readable(f) /\ directory'[f] = directory[f]
    <3>1. CASE UNCHANGED directory
      BY <3>1 DEF RecordingsInv, Readable
    <3>2. CASE directory' = [directory EXCEPT ![Target] = Torn]
      <4> DEFINE target == Target
      <4> HIDE DEF target
      <4>1. directory' = [directory EXCEPT ![target] = Torn]
        BY <3>2 DEF target
      <4>2. Torn.kind # "fixture"
        BY DEF Torn
      <4> QED BY <4>1, <4>2 DEF RecordingsInv, Readable
    <3> QED BY <1>5, <3>1, <3>2 DEF KillRecording
  <2> QED BY <2>1, <2>2 DEF RecordingsInv, OneFile
<1>6. CASE UNCHANGED recordingVars
  BY <1>6 DEF recordingVars, RecordingsInv, OneFile, Readable
<1> QED BY <1>1, <1>2, <1>3, <1>4, <1>5, <1>6
      DEF RecordingsNext, SkipEntry, DryRunEntry, FailEntry

(* The files a step writes without --overwrite are new answers.            *)
LEMMA PaysForWhatIsMissing ==
  ASSUME RecordingsInv, [RecordingsNext]_recordingVars,
         NEW f \in Names, directory'[f] # directory[f], directory'[f].kind = "fixture",
         ~recorder.overwrite
  PROVE  ~ \E g \in Names : /\ Readable(g)
                            /\ directory[g].fixture.request = directory'[f].fixture.request
<1>1. recorder.running /\ recorder.todo # <<>> /\ RecordEntry
  <2>1. ~KillRecording
    <3>1. SUFFICES ASSUME directory' = [directory EXCEPT ![Target] = Torn] PROVE FALSE
      BY DEF KillRecording
    <3> DEFINE target == Target
    <3> HIDE DEF target
    <3>2. directory' = [directory EXCEPT ![target] = Torn] /\ Torn.kind # "fixture"
      BY <3>1 DEF target, Torn
    <3> QED BY <3>2 DEF RecordingsInv
  <2> QED BY <2>1 DEF RecordingsNext, StartRecording, SkipEntry, DryRunEntry, FailEntry,
                     EndRecording, recordingVars
<1>2. PICK fixture : fixture.request = Current.request /\ Save(fixture)
  <2>1. PICK answers_ : Save([request |-> Current.request, answer |-> LastExchange(answers_)])
    BY <1>1 DEF RecordEntry
  <2> QED BY <2>1
<1>3. directory'[f].fixture.request = Current.request
  BY <1>1, <1>2, SavedInOneFile
<1>4. ~Existing
  BY <1>1 DEF RecordEntry, Asks
<1>5. \A g \in Names : Readable(g) => directory[g].fixture.request \in DOMAIN store.fixtures
  BY <1>1 DEF RecordingsInv
<1> QED BY <1>3, <1>4, <1>5 DEF Existing

(* Nothing is recorded yet.                                                *)
LEMMA RecordingsInitInv == RecordingsInit => RecordingsInv
  BY DEF RecordingsInit, RecordingsInv, OneFile, Readable, Missing, Idle

(* Recordings stay replayable: whatever plans, kills, torn writes and      *)
(* overwrites follow each other, a request is in one file, and only an     *)
(* overwrite pays for an answer that is on disk (recording.py).            *)
THEOREM RecordingsReplayable == RecordingsSpec => RecordingsAreReplayable
<1>1. RecordingsInit => RecordingsInv
  BY RecordingsInitInv
<1>2. RecordingsInv /\ [RecordingsNext]_recordingVars => RecordingsInv'
  BY RecordingsStep
<1>3. RecordingsInv => \A f, g \in Names : OneFile(f, g)
  BY DEF RecordingsInv
<1>4. RecordingsInv /\ [RecordingsNext]_recordingVars =>
        [\A f \in Names :
           (/\ directory'[f] # directory[f] /\ directory'[f].kind = "fixture"
            /\ ~recorder.overwrite)
             => ~ \E g \in Names :
                    /\ Readable(g)
                    /\ directory[g].fixture.request = directory'[f].fixture.request]_recordingVars
  BY PaysForWhatIsMissing
<1> QED BY <1>1, <1>2, <1>3, <1>4, PTL
      DEF RecordingsSpec, RecordingsAreReplayable, NothingIsPaidForTwice

-----------------------------------------------------------------------------
(***************************************************************************)
(* The evaluation set and its labels.                                      *)
(***************************************************************************)
(* Ids are the places in the plan, one for each question and level.        *)
LEMMA NumbersArePlaces ==
  ASSUME NEW q \in 1..Len(Sample), NEW l \in 1..Len(Levels)
  PROVE  /\ Number(q, l) \in 1..(Len(Sample) * Len(Levels))
         /\ \A p \in 1..Len(Sample), k \in 1..Len(Levels) :
              Number(p, k) = Number(q, l) => p = q /\ k = l
<1> DEFINE M == Len(Sample)
           N == Len(Levels)
<1>1. M \in Nat /\ N \in Nat /\ q \in 1..M /\ l \in 1..N
  BY PlanAssumption
<1> HIDE DEF M, N
<1>2. ASSUME NEW p \in 1..M, NEW k \in 1..N, NEW r \in 1..M, NEW j \in 1..N, p < r
      PROVE  (p - 1) * N + k < (r - 1) * N + j
  <2>1. (r - 1) * N = (p - 1) * N + (r - p) * N
    BY <1>1
  <2>2. (r - p) * N >= N
    <3>1. r - p >= 1 /\ r - p \in Nat
      BY <1>1, <1>2
    <3>2. \A d \in Nat, n \in Nat : d >= 1 => d * n >= n
      OBVIOUS
    <3> QED BY <1>1, <3>1, <3>2
  <2>3. (p - 1) * N \in Int /\ (r - 1) * N \in Int /\ (r - p) * N \in Int
    BY <1>1
  <2> QED BY <1>1, <2>1, <2>2, <2>3
<1>3. \A p \in 1..M, k \in 1..N : (p - 1) * N + k = (q - 1) * N + l => p = q /\ k = l
  <2> SUFFICES ASSUME NEW p \in 1..M, NEW k \in 1..N, (p - 1) * N + k = (q - 1) * N + l
               PROVE  p = q /\ k = l
    OBVIOUS
  <2>1. (p - 1) * N \in Int /\ (q - 1) * N \in Int
    BY <1>1
  <2>2. p = q
    BY <1>1, <1>2, <2>1
  <2> QED BY <1>1, <2>1, <2>2
<1>4. (q - 1) * N + l \in 1..(M * N)
  <2>1. (q - 1) * N >= 0 /\ (q - 1) * N \in Nat
    <3>1. \A a, b \in Nat : a * b \in Nat
      OBVIOUS
    <3>2. q - 1 \in Nat
      BY <1>1
    <3> QED BY <1>1, <3>1, <3>2
  <2>2. (M - q) * N \in Nat
    <3>1. \A a, b \in Nat : a * b \in Nat
      OBVIOUS
    <3>2. M - q \in Nat
      BY <1>1
    <3> QED BY <1>1, <3>1, <3>2
  <2>3. M * N = (q - 1) * N + N + (M - q) * N
    BY <1>1
  <2> QED BY <1>1, <2>1, <2>2, <2>3
<1> QED BY <1>3, <1>4 DEF Number, M, N

(* A set with as many rows as the plan has places has an answer for each.  *)
LEMMA CompleteSetIsFilled ==
  ASSUME WellBuilt(dataset), Cardinality(dataset) = Len(Sample) * Len(Levels)
  PROVE  Unfilled(dataset) = {}
<1> DEFINE places == 1..(Len(Sample) * Len(Levels))
           idOf == [row \in dataset |-> row.id]
<1>1. Len(Sample) * Len(Levels) \in Nat
  BY PlanAssumption
<1>2. IsFiniteSet(places) /\ Cardinality(places) = Len(Sample) * Len(Levels)
  <2>1. \A n \in Nat : IsFiniteSet(1..n) /\ Cardinality(1..n) = n
    BY FS_Interval
  <2> QED BY <1>1, <2>1
<1>3. \A row \in dataset : row.id \in places
  BY NumbersArePlaces DEF WellBuilt, Placed
<1>4. \A row, other \in dataset : row.id = other.id => row = other
  BY DEF WellBuilt
<1> HIDE DEF places
<1>5. idOf \in Injection(dataset, places)
  BY <1>3, <1>4 DEF Injection, IsInjective
<1>6. idOf \in Surjection(dataset, places)
  BY <1>2, <1>5, FS_Injection
<1>7. ASSUME NEW q \in 1..Len(Sample), NEW l \in 1..Len(Levels) PROVE Have(dataset, q, l)
  <2>1. Number(q, l) \in places
    BY NumbersArePlaces DEF places
  <2>2. PICK row \in dataset : row.id = Number(q, l)
    BY <1>6, <2>1 DEF Surjection
  <2>3. PICK p \in 1..Len(Sample), k \in 1..Len(Levels) :
          row.id = Number(p, k) /\ row.question = Sample[p] /\ row.intent = Levels[k]
    BY DEF WellBuilt, Placed
  <2>4. p = q /\ k = l
    BY <2>2, <2>3, NumbersArePlaces
  <2> QED BY <2>3, <2>4 DEF Have
<1> QED BY <1>7 DEF Unfilled

(* A build adds answers under ids that no answer has.                      *)
LEMMA BuiltRows ==
  ASSUME NEW held \in SUBSET EvalAnswer, WellBuilt(held), NEW new \in BuildWrites(held)
  PROVE  new \in SUBSET EvalAnswer /\ WellBuilt(new) /\ held \subseteq new
<1>1. PICK built \in SUBSET Unfilled(held) : new = held \cup {Fresh(pair) : pair \in built}
  BY DEF BuildWrites
<1>2. ASSUME NEW pair \in Unfilled(held)
      PROVE  /\ pair[1] \in 1..Len(Sample) /\ pair[2] \in 1..Len(Levels)
             /\ Fresh(pair).id = Number(pair[1], pair[2]) /\ Placed(Fresh(pair))
             /\ Fresh(pair) \in EvalAnswer
             /\ \A row \in held : row.id # Fresh(pair).id
  <2>1. pair[1] \in 1..Len(Sample) /\ pair[2] \in 1..Len(Levels) /\ ~Have(held, pair[1], pair[2])
    BY DEF Unfilled
  <2>2. Number(pair[1], pair[2]) \in Nat
    BY <2>1, NumbersArePlaces, PlanAssumption
  <2>3. Fresh(pair) \in EvalAnswer
    BY <2>1, <2>2 DEF Fresh, EvalAnswer
  <2>4. \A row \in held : row.id # Number(pair[1], pair[2])
    <3>1. SUFFICES ASSUME NEW row \in held, row.id = Number(pair[1], pair[2]) PROVE FALSE
      OBVIOUS
    <3>2. PICK q \in 1..Len(Sample), l \in 1..Len(Levels) :
            row.id = Number(q, l) /\ row.question = Sample[q] /\ row.intent = Levels[l]
      BY DEF WellBuilt, Placed
    <3>3. q = pair[1] /\ l = pair[2]
      <4>1. \A a \in 1..Len(Sample), b \in 1..Len(Levels) :
              Number(q, l) = Number(a, b) => q = a /\ l = b
        BY NumbersArePlaces
      <4> QED BY <2>1, <3>1, <3>2, <4>1
    <3> QED BY <2>1, <3>2, <3>3 DEF Have
  <2>5. Placed(Fresh(pair))
    BY <2>1 DEF Fresh, Placed
  <2> QED BY <2>1, <2>3, <2>4, <2>5 DEF Fresh
<1>3. ASSUME NEW a \in Unfilled(held), NEW b \in Unfilled(held), Fresh(a).id = Fresh(b).id
      PROVE  Fresh(a) = Fresh(b)
  <2>1. a[1] = b[1] /\ a[2] = b[2]
    BY <1>2, <1>3, NumbersArePlaces
  <2> QED BY <2>1 DEF Fresh
<1>4. \A row, other \in new : row.id = other.id => row = other
  BY <1>1, <1>2, <1>3 DEF WellBuilt
<1> QED BY <1>1, <1>2, <1>4 DEF WellBuilt

(* A row that gets a score stays the answer it was.                        *)
LEMMA RescoredRows ==
  ASSUME NEW held \in SUBSET EvalAnswer, WellBuilt(held), NEW row \in held,
         NEW score \in Scores, NEW source \in {"human", "model"}
  PROVE  /\ \E new \in EvalAnswer :
              /\ Rescore(held, row, score, source) = (held \ {row}) \cup {new}
              /\ new.id = row.id /\ new.question = row.question
              /\ new.model_score = row.model_score /\ new.human_score = score
         /\ Rescore(held, row, score, source) \in SUBSET EvalAnswer
         /\ WellBuilt(Rescore(held, row, score, source))
<1> DEFINE new == [row EXCEPT !.human_score = score, !.label_source = source]
           written == Rescore(held, row, score, source)
<1>1. /\ new \in EvalAnswer /\ new.id = row.id /\ new.question = row.question
      /\ new.intent = row.intent /\ new.model_score = row.model_score
      /\ new.human_score = score
  BY DEF EvalAnswer
<1>2. written = (held \ {row}) \cup {new}
  BY DEF Rescore
<1> HIDE DEF new, written
<1>3. Placed(new)
  BY <1>1 DEF WellBuilt, Placed
<1>4. WellBuilt(written)
  BY <1>1, <1>2, <1>3 DEF WellBuilt
<1>5. written \in SUBSET EvalAnswer
  BY <1>1, <1>2
<1> QED BY <1>1, <1>2, <1>4, <1>5 DEF written

(* The model labels leave the human column, each row staying its answer.   *)
LEMMA RetiredRows ==
  ASSUME NEW held \in SUBSET EvalAnswer, WellBuilt(held), NEW model \in SUBSET held
  PROVE  LET Retired(row) == [row EXCEPT !.model_score = row.human_score,
                                         !.human_score = NoScore, !.label_source = "none"]
             new == (held \ model) \cup {Retired(row) : row \in model}
         IN  /\ new \in SUBSET EvalAnswer /\ WellBuilt(new)
             /\ \A row \in model : /\ Retired(row).id = row.id
                                   /\ Retired(row).question = row.question
                                   /\ Retired(row).model_score = row.human_score
<1> DEFINE Retired(row) == [row EXCEPT !.model_score = row.human_score,
                                       !.human_score = NoScore, !.label_source = "none"]
           new == (held \ model) \cup {Retired(row) : row \in model}
<1>1. \A row \in EvalAnswer : /\ Retired(row) \in EvalAnswer /\ Retired(row).id = row.id
                              /\ Retired(row).question = row.question
                              /\ Retired(row).intent = row.intent
                              /\ Retired(row).model_score = row.human_score
  BY DEF EvalAnswer
<1> HIDE DEF Retired
<1>2. \A row \in model : Placed(Retired(row))
  BY <1>1 DEF WellBuilt, Placed
<1>3. WellBuilt(new)
  BY <1>1, <1>2 DEF WellBuilt
<1>4. new \in SUBSET EvalAnswer
  BY <1>1
<1> QED BY <1>1, <1>3, <1>4 DEF Retired

(* A label of a placed id is of the question that the id stands for.       *)
LEMMA PlacedLabelsFollow ==
  ASSUME NEW held, WellBuilt(held), NEW row \in held, NEW label,
         \E q \in 1..Len(Sample), l \in 1..Len(Levels) :
           label.answer_id = Number(q, l) /\ label.question_id = Sample[q],
         row.id = label.answer_id
  PROVE  row.question = label.question_id
<1>1. PICK q \in 1..Len(Sample), l \in 1..Len(Levels) :
        label.answer_id = Number(q, l) /\ label.question_id = Sample[q]
  OBVIOUS
<1>2. PICK p \in 1..Len(Sample), k \in 1..Len(Levels) :
        row.id = Number(p, k) /\ row.question = Sample[p] /\ row.intent = Levels[k]
  BY DEF WellBuilt, Placed
<1>3. p = q
  BY <1>1, <1>2, NumbersArePlaces
<1> QED BY <1>1, <1>2, <1>3

(* Whatever writes the file, labels stay with their answers: no id is gone *)
(* but where the write lost something.                                     *)
LEMMA DatasetWritten ==
  ASSUME EvalInv, NEW new \in SUBSET EvalAnswer, WellBuilt(new), dataset' = new,
         UNCHANGED <<labels, worklist>>, copy' \in [Terminals -> Desk],
         \A t \in Terminals : WellBuilt(copy'[t].rows), spoiled' \in 0..MaxSpoiled,
         spoiled' = 0 => spoiled = 0 /\ IdsOf(dataset) \subseteq IdsOf(new)
  PROVE  EvalInv'
<1>1. /\ labels' = labels /\ worklist' = worklist /\ worklist \subseteq Nat
      /\ labels \subseteq ReferenceLabel /\ LabelsFollowTheirAnswer /\ AdjudicationIsOnFile
      /\ \A label \in labels : \E q \in 1..Len(Sample), l \in 1..Len(Levels) :
           label.answer_id = Number(q, l) /\ label.question_id = Sample[q]
  BY DEF EvalInv, EvalTypeOK
<1>2. EvalTypeOK'
  BY <1>1 DEF EvalTypeOK
<1>3. LabelsFollowTheirAnswer'
  <2>1. \A row, other \in dataset' : row.id = other.id => row = other
    BY DEF WellBuilt
  <2>2. \A label \in labels' : \A row \in dataset' :
          row.id = label.answer_id => row.question = label.question_id
    BY <1>1, PlacedLabelsFollow
  <2>3. spoiled' = 0 => \A label \in labels' : label.answer_id \in IdsOf(dataset)'
    BY <1>1 DEF LabelsFollowTheirAnswer, IdsOf
  <2> QED BY <2>1, <2>2, <2>3 DEF LabelsFollowTheirAnswer
<1>4. AdjudicationIsOnFile'
  BY <1>1 DEF AdjudicationIsOnFile, LabelsOf
<1>5. WellBuilt(dataset)' /\ \A t \in Terminals : WellBuilt(copy[t].rows)'
  BY DEF WellBuilt, Placed
<1>6. spoiled' = 0 =>
        \A third \in LabelsOf("adjudication")' : \E blind \in LabelsOf("blind")' :
          blind.answer_id = third.answer_id /\ blind.adjudication # "none"
  BY <1>1 DEF EvalInv, LabelsOf
<1> QED BY <1>1, <1>2, <1>3, <1>4, <1>5, <1>6 DEF EvalInv

(* A write, whole or cut, of rows that have every answer it held.          *)
LEMMA RowsAreDumped ==
  ASSUME EvalInv, NEW held, NEW new \in SUBSET EvalAnswer, WellBuilt(new),
         IdsOf(held) \subseteq IdsOf(new), DumpAnswers(held, new) \/ DumpIsCut(new),
         UNCHANGED <<labels, worklist>>, copy' \in [Terminals -> Desk],
         \A t \in Terminals : WellBuilt(copy'[t].rows)
  PROVE  EvalInv'
<1>1. spoiled \in Nat /\ MaxSpoiled \in Nat /\ spoiled <= MaxSpoiled
  BY SpoiledAssumption DEF EvalInv, EvalTypeOK
<1>2. Spoil => spoiled' \in 0..MaxSpoiled /\ spoiled' # 0
  BY <1>1 DEF Spoil
<1>3. CASE DumpAnswers(held, new)
  <2>1. dataset' = new /\ spoiled' \in 0..MaxSpoiled
    BY <1>1, <1>2, <1>3 DEF DumpAnswers
  <2>2. spoiled' = 0 => spoiled = 0 /\ held = dataset
    BY <1>2, <1>3 DEF DumpAnswers
  <2> QED BY <2>1, <2>2, DatasetWritten
<1>4. CASE DumpIsCut(new)
  <2>1. PICK cut \in new : dataset' = {row \in new : row.id < cut.id}
    BY <1>4 DEF DumpIsCut
  <2> DEFINE rest == {row \in new : row.id < cut.id}
  <2>2. rest \in SUBSET EvalAnswer /\ WellBuilt(rest) /\ dataset' = rest
    BY <2>1 DEF WellBuilt
  <2>3. spoiled' \in 0..MaxSpoiled /\ spoiled' # 0
    BY <1>2, <1>4 DEF DumpIsCut
  <2> HIDE DEF rest
  <2> QED BY <2>2, <2>3, DatasetWritten
<1> QED BY <1>3, <1>4

LEMMA TerminalMoves ==
  ASSUME EvalInv, NEW t \in Terminals, NEW desk \in Desk, WellBuilt(desk.rows),
         copy' = [copy EXCEPT ![t] = desk]
  PROVE  copy' \in [Terminals -> Desk] /\ \A u \in Terminals : WellBuilt(copy'[u].rows)
<1>1. copy \in [Terminals -> Desk] /\ \A u \in Terminals : WellBuilt(copy[u].rows)
  BY DEF EvalInv, EvalTypeOK
<1>2. \A u \in Terminals : copy'[u] = desk \/ copy'[u] = copy[u]
  BY <1>1
<1> QED BY <1>1, <1>2

LEMMA ClosedDesk == Closed \in Desk /\ WellBuilt(Closed.rows)
  BY DEF Closed, Desk, WellBuilt

(* What a terminal holds are rows, and of the file they were read from.    *)
LEMMA HeldRows ==
  ASSUME EvalInv
  PROVE  /\ dataset \in SUBSET EvalAnswer /\ WellBuilt(dataset)
         /\ \A t \in Terminals : /\ copy[t].rows \in SUBSET EvalAnswer
                                 /\ WellBuilt(copy[t].rows) /\ copy[t] \in Desk
  BY DEF EvalInv, EvalTypeOK, Desk

LEMMA OpenKeeps ==
  ASSUME EvalInv, NEW t \in Terminals, NEW task \in {"build", "sitting"}, Open(t, task)
  PROVE  EvalInv'
<1> DEFINE desk == [task |-> task, rows |-> dataset]
<1>1. desk \in Desk /\ WellBuilt(desk.rows) /\ copy' = [copy EXCEPT ![t] = desk]
  BY HeldRows DEF Open, Desk
<1> HIDE DEF desk
<1>2. copy' \in [Terminals -> Desk] /\ \A u \in Terminals : WellBuilt(copy'[u].rows)
  BY <1>1, TerminalMoves
<1>3. spoiled' = spoiled /\ dataset' = dataset /\ UNCHANGED <<labels, worklist>>
  BY DEF Open
<1>4. spoiled \in 0..MaxSpoiled
  BY DEF EvalInv, EvalTypeOK
<1> QED BY <1>2, <1>3, <1>4, HeldRows, DatasetWritten

LEMMA CloseKeeps ==
  ASSUME EvalInv, NEW t \in Terminals, CloseTerminal(t)
  PROVE  EvalInv'
<1>1. copy' \in [Terminals -> Desk] /\ \A u \in Terminals : WellBuilt(copy'[u].rows)
  BY TerminalMoves, ClosedDesk DEF CloseTerminal
<1>2. spoiled' = spoiled /\ dataset' = dataset /\ UNCHANGED <<labels, worklist>>
  BY DEF CloseTerminal
<1>3. spoiled \in 0..MaxSpoiled
  BY DEF EvalInv, EvalTypeOK
<1> QED BY <1>1, <1>2, <1>3, HeldRows, DatasetWritten

LEMMA EndBuildKeeps ==
  ASSUME EvalInv, NEW t \in Terminals, EndBuild(t)
  PROVE  EvalInv'
<1>1. PICK new \in BuildWrites(copy[t].rows) : DumpAnswers(copy[t].rows, new)
  BY DEF EndBuild
<1>2. new \in SUBSET EvalAnswer /\ WellBuilt(new) /\ copy[t].rows \subseteq new
  BY HeldRows, BuiltRows
<1>3. IdsOf(copy[t].rows) \subseteq IdsOf(new)
  BY <1>2 DEF IdsOf
<1>4. copy' \in [Terminals -> Desk] /\ \A u \in Terminals : WellBuilt(copy'[u].rows)
  BY TerminalMoves, ClosedDesk DEF EndBuild
<1>5. UNCHANGED <<labels, worklist>>
  BY DEF EndBuild
<1> QED BY <1>1, <1>2, <1>3, <1>4, <1>5, RowsAreDumped

LEMMA LabelInSittingKeeps ==
  ASSUME EvalInv, NEW t \in Terminals, NEW row \in copy[t].rows, NEW score \in Scores,
         NEW source \in {"human", "model"}, LabelInSitting(t, row, score, source)
  PROVE  EvalInv'
<1> DEFINE held == copy[t].rows
           new == Rescore(held, row, score, source)
           desk == [copy[t] EXCEPT !.rows = new]
<1>1. /\ DumpAnswers(held, new) /\ UNCHANGED <<labels, worklist>>
      /\ copy' = [copy EXCEPT ![t].rows = new]
  BY DEF LabelInSitting
<1>2. new \in SUBSET EvalAnswer /\ WellBuilt(new) /\ IdsOf(held) \subseteq IdsOf(new)
  <2>1. held \in SUBSET EvalAnswer /\ WellBuilt(held)
    BY HeldRows
  <2> HIDE DEF held
  <2>2. row \in held
    BY DEF held
  <2>3. new \in SUBSET EvalAnswer /\ WellBuilt(new)
    BY <2>1, <2>2, RescoredRows
  <2>4. PICK labelled \in EvalAnswer :
          new = (held \ {row}) \cup {labelled} /\ labelled.id = row.id
    BY <2>1, <2>2, RescoredRows
  <2> HIDE DEF new
  <2> QED BY <2>3, <2>4 DEF IdsOf
<1> HIDE DEF new
<1>3. copy[t] \in Desk
  BY HeldRows
<1>4. desk \in Desk /\ desk.rows = new
  BY <1>2, <1>3 DEF Desk
<1>5. copy' = [copy EXCEPT ![t] = desk]
  BY <1>1
<1> HIDE DEF desk
<1>6. copy' \in [Terminals -> Desk] /\ \A u \in Terminals : WellBuilt(copy'[u].rows)
  BY <1>2, <1>4, <1>5, TerminalMoves
<1> QED BY <1>1, <1>2, <1>6, RowsAreDumped

LEMMA KillSavingKeeps ==
  ASSUME EvalInv, NEW t \in Terminals, KillSaving(t)
  PROVE  EvalInv'
<1>1. copy' \in [Terminals -> Desk] /\ \A u \in Terminals : WellBuilt(copy'[u].rows)
  BY TerminalMoves, ClosedDesk DEF KillSaving
<1>2. UNCHANGED <<labels, worklist>>
  BY DEF KillSaving
<1>3. ASSUME NEW new \in BuildWrites(copy[t].rows), DumpIsCut(new) PROVE EvalInv'
  <2>1. new \in SUBSET EvalAnswer /\ WellBuilt(new)
    BY HeldRows, BuiltRows
  <2>2. IdsOf({}) \subseteq IdsOf(new)
    BY DEF IdsOf
  <2> QED BY <1>1, <1>2, <1>3, <2>1, <2>2, RowsAreDumped
<1>4. ASSUME NEW row \in Unscored(copy[t].rows), NEW score \in Scores,
             NEW source \in {"human", "model"},
             DumpIsCut(Rescore(copy[t].rows, row, score, source))
      PROVE  EvalInv'
  <2> DEFINE new == Rescore(copy[t].rows, row, score, source)
  <2>1. row \in copy[t].rows
    BY DEF Unscored
  <2>2. new \in SUBSET EvalAnswer /\ WellBuilt(new)
    BY <2>1, HeldRows, RescoredRows
  <2>3. IdsOf({}) \subseteq IdsOf(new)
    BY DEF IdsOf
  <2> HIDE DEF new
  <2>4. DumpIsCut(new)
    BY <1>4 DEF new
  <2> QED BY <1>1, <1>2, <2>2, <2>3, <2>4, RowsAreDumped
<1> QED BY <1>3, <1>4 DEF KillSaving

(* No terminal changes what it holds.                                      *)
LEMMA CopiesStay ==
  ASSUME EvalInv, copy' = copy
  PROVE  copy' \in [Terminals -> Desk] /\ \A u \in Terminals : WellBuilt(copy'[u].rows)
  BY DEF EvalInv, EvalTypeOK

LEMMA LabelFromFileKeeps ==
  ASSUME EvalInv, NEW row \in dataset, NEW score \in Scores,
         NEW source \in {"human", "model"}, LabelFromFile(row, score, source)
  PROVE  EvalInv'
<1> DEFINE new == Rescore(dataset, row, score, source)
<1>1. /\ DumpAnswers(dataset, new) \/ DumpIsCut(new)
      /\ UNCHANGED <<labels, worklist>> /\ copy' = copy
  BY DEF LabelFromFile
<1>2. new \in SUBSET EvalAnswer /\ WellBuilt(new)
  BY HeldRows, RescoredRows
<1>3. PICK labelled \in EvalAnswer :
        new = (dataset \ {row}) \cup {labelled} /\ labelled.id = row.id
  BY HeldRows, RescoredRows
<1> HIDE DEF new
<1>4. IdsOf(dataset) \subseteq IdsOf(new)
  BY <1>3 DEF IdsOf
<1> QED BY <1>1, <1>2, <1>4, CopiesStay, RowsAreDumped

LEMMA RetireKeeps ==
  ASSUME EvalInv, RetireModelLabels PROVE EvalInv'
<1> DEFINE model == {row \in dataset : row.label_source = "model"}
           Retired(row) == [row EXCEPT !.model_score = row.human_score, !.human_score = NoScore,
                                       !.label_source = "none"]
           new == (dataset \ model) \cup {Retired(row) : row \in model}
<1>1. /\ DumpAnswers(dataset, new) \/ DumpIsCut(new)
      /\ UNCHANGED <<labels, worklist>> /\ copy' = copy
  BY DEF RetireModelLabels
<1>2. model \in SUBSET dataset
  OBVIOUS
<1> HIDE DEF model
<1>3. /\ new \in SUBSET EvalAnswer /\ WellBuilt(new)
      /\ \A row \in model : Retired(row).id = row.id
  BY <1>2, HeldRows, RetiredRows
<1> HIDE DEF Retired
<1>4. IdsOf(dataset) \subseteq IdsOf(new)
  BY <1>2, <1>3 DEF IdsOf
<1> HIDE DEF new
<1> QED BY <1>1, <1>3, <1>4, CopiesStay, RowsAreDumped

LEMMA WorklistKeeps ==
  ASSUME EvalInv, WriteWorklist PROVE EvalInv'
<1>1. /\ dataset \subseteq EvalAnswer /\ worklist' = IdsOf(dataset)
      /\ UNCHANGED <<dataset, labels, copy, spoiled>>
  BY DEF EvalInv, EvalTypeOK, WriteWorklist
<1>2. worklist' \subseteq Nat
  BY <1>1 DEF IdsOf, EvalAnswer
<1>3. EvalTypeOK'
  BY <1>1, <1>2 DEF EvalInv, EvalTypeOK
<1>4. LabelsFollowTheirAnswer' /\ AdjudicationIsOnFile'
  BY <1>1 DEF EvalInv, LabelsFollowTheirAnswer, AdjudicationIsOnFile, LabelsOf, IdsOf
<1> QED BY <1>1, <1>3, <1>4 DEF EvalInv, WellBuilt, LabelsOf

(***************************************************************************)
(* Reference passes leave the answers alone.                               *)
(***************************************************************************)
LEMMA ReferencesWritten ==
  ASSUME EvalInv, labels' \in SUBSET ReferenceLabel,
         UNCHANGED <<dataset, copy, worklist>>, spoiled' \in 0..MaxSpoiled,
         \A label \in labels' : \E q \in 1..Len(Sample), l \in 1..Len(Levels) :
           label.answer_id = Number(q, l) /\ label.question_id = Sample[q],
         spoiled' = 0 =>
           /\ \A label \in labels' : label.answer_id \in IdsOf(dataset)
           /\ \A third \in LabelsOf("adjudication")' : \E blind \in LabelsOf("blind")' :
                blind.answer_id = third.answer_id /\ blind.adjudication # "none",
         AdjudicationIsOnFile'
  PROVE  EvalInv'
<1>1. EvalTypeOK'
  BY DEF EvalInv, EvalTypeOK
<1>2. LabelsFollowTheirAnswer'
  <2>1. WellBuilt(dataset) /\ dataset' = dataset
    BY DEF EvalInv
  <2>2. \A label \in labels' : \A row \in dataset :
          row.id = label.answer_id => row.question = label.question_id
    BY <2>1, PlacedLabelsFollow
  <2>3. \A row, other \in dataset : row.id = other.id => row = other
    BY <2>1 DEF WellBuilt
  <2> QED BY <2>1, <2>2, <2>3 DEF LabelsFollowTheirAnswer, IdsOf
<1>3. WellBuilt(dataset)' /\ \A t \in Terminals : WellBuilt(copy[t].rows)'
  BY DEF EvalInv, WellBuilt, Placed
<1> QED BY <1>1, <1>2, <1>3 DEF EvalInv

(* An answer of the file has a place, and so has what is labelled of it.   *)
LEMMA LabelOfRow ==
  ASSUME EvalInv, NEW row \in dataset, NEW score \in Scores,
         NEW name \in {"blind", "concept_aware", "adjudication"}
  PROVE  LET new == LabelFor(row, name, score)
         IN  /\ new \in ReferenceLabel /\ new.answer_id = row.id
             /\ new.question_id = row.question /\ new.pass_name = name /\ new.score = score
             /\ new.adjudication = "none" /\ new.adjudicated_score = NoScore
             /\ \E q \in 1..Len(Sample), l \in 1..Len(Levels) :
                  new.answer_id = Number(q, l) /\ new.question_id = Sample[q]
             /\ new.answer_id \in IdsOf(dataset)
<1>1. row \in EvalAnswer
  BY HeldRows
<1>2. \E q \in 1..Len(Sample), l \in 1..Len(Levels) :
        row.id = Number(q, l) /\ row.question = Sample[q]
  BY DEF EvalInv, WellBuilt, Placed
<1>3. row.id \in IdsOf(dataset)
  BY DEF IdsOf
<1> QED BY <1>1, <1>2, <1>3 DEF LabelFor, ReferenceLabel, EvalAnswer

LEMMA ReferenceLandsKeeps ==
  ASSUME EvalInv, NEW row \in dataset, NEW score \in Scores,
         NEW name \in {"blind", "concept_aware"}, ReferenceLands(row, name, score)
  PROVE  EvalInv'
<1> DEFINE new == LabelFor(row, name, score)
<1>1. /\ labels' = labels \cup {new} /\ UNCHANGED <<dataset, copy, worklist>>
      /\ spoiled' = spoiled
      /\ \A label \in labels : label.pass_name = name => label.answer_id # row.id
  BY DEF ReferenceLands, LabelsOf
<1>2. /\ new \in ReferenceLabel /\ new.answer_id = row.id /\ new.question_id = row.question
      /\ new.pass_name = name /\ new.adjudication = "none" /\ new.adjudicated_score = NoScore
      /\ \E q \in 1..Len(Sample), l \in 1..Len(Levels) :
           new.answer_id = Number(q, l) /\ new.question_id = Sample[q]
      /\ new.answer_id \in IdsOf(dataset)
  BY LabelOfRow
<1>3. /\ labels \subseteq ReferenceLabel /\ spoiled \in 0..MaxSpoiled
      /\ LabelsFollowTheirAnswer /\ AdjudicationIsOnFile
      /\ \A label \in labels : \E q \in 1..Len(Sample), l \in 1..Len(Levels) :
           label.answer_id = Number(q, l) /\ label.question_id = Sample[q]
  BY DEF EvalInv, EvalTypeOK
<1> HIDE DEF new
<1>4. LabelsOf("adjudication")' = LabelsOf("adjudication")
  BY <1>1, <1>2 DEF LabelsOf
<1>5. \A third \in LabelsOf("adjudication") : third.score # NoScore
  BY <1>3, ScaleAssumption DEF LabelsOf, ReferenceLabel
<1>6. AdjudicationIsOnFile'
  <2> SUFFICES ASSUME spoiled' = 0
               PROVE  /\ \A blind \in LabelsOf("blind")' :
                           blind.adjudication # "none"
                             <=> \E third \in LabelsOf("adjudication")' :
                                   /\ third.answer_id = blind.answer_id
                                   /\ third.score = blind.adjudicated_score
                      /\ \A label, other \in labels' :
                           /\ label.pass_name = other.pass_name
                           /\ label.answer_id = other.answer_id
                           => label = other
    BY DEF AdjudicationIsOnFile
  <2>1. \A blind \in LabelsOf("blind")' : blind \in LabelsOf("blind") \/ blind = new
    BY <1>1 DEF LabelsOf
  <2>2. \A blind \in LabelsOf("blind")' :
          blind.adjudication # "none"
            <=> \E third \in LabelsOf("adjudication") :
                  third.answer_id = blind.answer_id /\ third.score = blind.adjudicated_score
    BY <1>1, <1>2, <1>3, <1>5, <2>1 DEF AdjudicationIsOnFile
  <2>3. \A label, other \in labels' :
          label.pass_name = other.pass_name /\ label.answer_id = other.answer_id => label = other
    BY <1>1, <1>2, <1>3 DEF AdjudicationIsOnFile
  <2> QED BY <1>4, <2>2, <2>3
<1>7. spoiled' = 0 =>
        /\ \A label \in labels' : label.answer_id \in IdsOf(dataset)
        /\ \A third \in LabelsOf("adjudication")' : \E blind \in LabelsOf("blind")' :
             blind.answer_id = third.answer_id /\ blind.adjudication # "none"
  <2>1. \A blind \in LabelsOf("blind") : blind \in LabelsOf("blind")'
    BY <1>1 DEF LabelsOf
  <2>2. spoiled' = 0 =>
          \A third \in LabelsOf("adjudication") : \E blind \in LabelsOf("blind") :
            blind.answer_id = third.answer_id /\ blind.adjudication # "none"
    BY <1>1 DEF EvalInv
  <2>3. spoiled' = 0 => \A label \in labels' : label.answer_id \in IdsOf(dataset)
    BY <1>1, <1>2, <1>3 DEF LabelsFollowTheirAnswer
  <2> QED BY <1>4, <2>1, <2>2, <2>3
<1>8. labels' \in SUBSET ReferenceLabel
  BY <1>1, <1>2, <1>3
<1>9. \A label \in labels' : \E q \in 1..Len(Sample), l \in 1..Len(Levels) :
        label.answer_id = Number(q, l) /\ label.question_id = Sample[q]
  BY <1>1, <1>2, <1>3
<1> QED BY <1>1, <1>3, <1>6, <1>7, <1>8, <1>9, ReferencesWritten

LEMMA AdjudicateKeeps ==
  ASSUME EvalInv, NEW row \in dataset, NEW score \in Scores, Adjudicate(row, score)
  PROVE  EvalInv'
<1>1. PICK blind \in LabelsOf("blind") :
        /\ blind.answer_id = row.id /\ blind.adjudication = "none"
        /\ labels' = (labels \ {blind})
                       \cup {LabelFor(row, "adjudication", score),
                             [blind EXCEPT !.adjudicated_score = score,
                                           !.adjudication = IF score = blind.score THEN "agreed"
                                                            ELSE "revised"]}
        /\ UNCHANGED <<dataset, copy, worklist>> /\ spoiled' = spoiled
  BY DEF Adjudicate
<1> DEFINE opinion == LabelFor(row, "adjudication", score)
           marked == [blind EXCEPT !.adjudicated_score = score,
                                   !.adjudication = IF score = blind.score THEN "agreed"
                                                    ELSE "revised"]
<1>2. /\ labels \subseteq ReferenceLabel /\ spoiled \in 0..MaxSpoiled
      /\ LabelsFollowTheirAnswer /\ AdjudicationIsOnFile
      /\ \A label \in labels : \E q \in 1..Len(Sample), l \in 1..Len(Levels) :
           label.answer_id = Number(q, l) /\ label.question_id = Sample[q]
  BY DEF EvalInv, EvalTypeOK
<1>3. blind \in labels /\ blind \in ReferenceLabel /\ blind.pass_name = "blind"
  BY <1>1, <1>2 DEF LabelsOf
<1>4. /\ opinion \in ReferenceLabel /\ opinion.answer_id = row.id
      /\ opinion.pass_name = "adjudication" /\ opinion.score = score
      /\ \E q \in 1..Len(Sample), l \in 1..Len(Levels) :
           opinion.answer_id = Number(q, l) /\ opinion.question_id = Sample[q]
      /\ opinion.answer_id \in IdsOf(dataset)
  BY LabelOfRow
<1>5. /\ marked \in ReferenceLabel /\ marked.answer_id = blind.answer_id
      /\ marked.question_id = blind.question_id /\ marked.pass_name = "blind"
      /\ marked.adjudicated_score = score /\ marked.adjudication # "none"
  BY <1>3 DEF ReferenceLabel
<1>6. labels' = (labels \ {blind}) \cup {opinion, marked}
  BY <1>1
<1> HIDE DEF opinion, marked
<1>7. labels' \in SUBSET ReferenceLabel
  BY <1>2, <1>4, <1>5, <1>6
<1>8. \A label \in labels' : \E q \in 1..Len(Sample), l \in 1..Len(Levels) :
        label.answer_id = Number(q, l) /\ label.question_id = Sample[q]
  BY <1>2, <1>3, <1>4, <1>5, <1>6
<1>9. /\ LabelsOf("adjudication")' = LabelsOf("adjudication") \cup {opinion}
      /\ LabelsOf("blind")' = (LabelsOf("blind") \ {blind}) \cup {marked}
  BY <1>3, <1>4, <1>5, <1>6 DEF LabelsOf
<1>10. ASSUME spoiled' = 0
       PROVE  /\ \A label \in labels' : label.answer_id \in IdsOf(dataset)
              /\ \A third \in LabelsOf("adjudication")' : \E b \in LabelsOf("blind")' :
                   b.answer_id = third.answer_id /\ b.adjudication # "none"
              /\ AdjudicationIsOnFile'
  <2>1. \A label, other \in labels :
          label.pass_name = other.pass_name /\ label.answer_id = other.answer_id => label = other
    BY <1>1, <1>2, <1>10 DEF AdjudicationIsOnFile
  <2>2. \A b \in LabelsOf("blind") : b.answer_id = row.id => b = blind
    BY <1>1, <1>3, <2>1 DEF LabelsOf
  <2>3. \A third \in LabelsOf("adjudication") : \E b \in LabelsOf("blind") :
          b.answer_id = third.answer_id /\ b.adjudication # "none"
    BY <1>1, <1>10 DEF EvalInv
  <2>4. \A third \in LabelsOf("adjudication") : third.answer_id # row.id
    BY <1>1, <2>2, <2>3
  <2>5. \A b \in LabelsOf("blind")' :
          b.adjudication # "none"
            <=> \E third \in LabelsOf("adjudication")' :
                  third.answer_id = b.answer_id /\ third.score = b.adjudicated_score
    <3>1. ASSUME NEW b \in LabelsOf("blind"), b # blind
          PROVE  b.adjudication # "none"
                   <=> \E third \in LabelsOf("adjudication")' :
                         third.answer_id = b.answer_id /\ third.score = b.adjudicated_score
      <4>1. b.answer_id # row.id
        BY <2>2, <3>1
      <4> QED BY <1>1, <1>2, <1>4, <1>9, <1>10, <4>1 DEF AdjudicationIsOnFile
    <3>2. opinion \in LabelsOf("adjudication")' /\ opinion.answer_id = marked.answer_id
      BY <1>1, <1>4, <1>5, <1>9
    <3> QED BY <1>4, <1>5, <1>9, <3>1, <3>2
  <2>6. \A label, other \in labels' :
          label.pass_name = other.pass_name /\ label.answer_id = other.answer_id => label = other
    <3>1. \A label \in labels \ {blind} :
            label.pass_name = "blind" => label.answer_id # marked.answer_id
      BY <1>3, <1>5, <2>1
    <3>2. \A label \in labels :
            label.pass_name = "adjudication" => label.answer_id # opinion.answer_id
      BY <1>4, <2>4 DEF LabelsOf
    <3> QED BY <1>4, <1>5, <1>6, <2>1, <3>1, <3>2
  <2>7. \A third \in LabelsOf("adjudication")' : \E b \in LabelsOf("blind")' :
          b.answer_id = third.answer_id /\ b.adjudication # "none"
    <3>1. ASSUME NEW third \in LabelsOf("adjudication")
          PROVE  \E b \in LabelsOf("blind")' :
                   b.answer_id = third.answer_id /\ b.adjudication # "none"
      <4>1. PICK b \in LabelsOf("blind") : b.answer_id = third.answer_id /\ b.adjudication # "none"
        BY <2>3
      <4>2. b # blind
        BY <1>1, <4>1
      <4> QED BY <1>9, <4>1, <4>2
    <3> QED BY <1>1, <1>4, <1>5, <1>9, <3>1
  <2>8. \A label \in labels' : label.answer_id \in IdsOf(dataset)
    BY <1>1, <1>2, <1>3, <1>4, <1>5, <1>6, <1>10 DEF LabelsFollowTheirAnswer
  <2> QED BY <2>5, <2>6, <2>7, <2>8 DEF AdjudicationIsOnFile
<1>11. AdjudicationIsOnFile'
  BY <1>10 DEF AdjudicationIsOnFile
<1> QED BY <1>1, <1>2, <1>7, <1>8, <1>10, <1>11, ReferencesWritten

LEMMA KillLabellingKeeps ==
  ASSUME EvalInv, KillLabelling PROVE EvalInv'
<1>1. /\ labels' \subseteq labels /\ UNCHANGED <<dataset, copy, worklist>>
      /\ spoiled' \in 0..MaxSpoiled /\ spoiled' # 0
  BY SpoiledAssumption DEF KillLabelling, Spoil, EvalInv, EvalTypeOK
<1>2. /\ labels' \in SUBSET ReferenceLabel
      /\ \A label \in labels' : \E q \in 1..Len(Sample), l \in 1..Len(Levels) :
           label.answer_id = Number(q, l) /\ label.question_id = Sample[q]
  BY <1>1 DEF EvalInv, EvalTypeOK
<1>3. AdjudicationIsOnFile'
  BY <1>1 DEF AdjudicationIsOnFile
<1> QED BY <1>1, <1>2, <1>3, ReferencesWritten

LEMMA EvalStep == EvalInv /\ [EvalNext]_evalVars => EvalInv'
<1> SUFFICES ASSUME EvalInv, [EvalNext]_evalVars PROVE EvalInv'
  OBVIOUS
<1>1. \A n \in 1..Cardinality(worklist), score \in Scores, source \in {"human", "model"} :
        LabelByPosition(n, score, source) => EvalInv'
  BY LabelFromFileKeeps DEF LabelByPosition
<1>2. CASE UNCHANGED evalVars
  BY <1>2 DEF evalVars, EvalInv, EvalTypeOK, LabelsFollowTheirAnswer, AdjudicationIsOnFile,
              LabelsOf, IdsOf, WellBuilt
<1>3. \A t \in Terminals : StartBuild(t) \/ StartSitting(t) => EvalInv'
  BY OpenKeeps DEF StartBuild, StartSitting
<1> QED BY <1>1, <1>2, <1>3, EndBuildKeeps, CloseKeeps, KillSavingKeeps, LabelInSittingKeeps,
           LabelFromFileKeeps, ReferenceLandsKeeps, AdjudicateKeeps, WorklistKeeps, RetireKeeps,
           KillLabellingKeeps
        DEF EvalNext

(* A write that loses nothing is of the rows that the file has.            *)
LEMMA NothingIsSpoiled ==
  ASSUME EvalInv, spoiled' = spoiled
  PROVE  /\ ~Spoil /\ \A new : ~DumpIsCut(new)
         /\ \A held, new : DumpAnswers(held, new) => held = dataset /\ dataset' = new
<1>1. spoiled \in Nat
  BY SpoiledAssumption DEF EvalInv, EvalTypeOK
<1> QED BY <1>1 DEF Spoil, DumpIsCut, DumpAnswers

(* A row's successor has its id, and its score where it was or retired.    *)
LEMMA ScoreOfRowIsKept ==
  ASSUME EvalInv, [EvalNext]_evalVars, spoiled' = spoiled, NEW row \in dataset
  PROVE  \E new \in dataset' :
           /\ new.id = row.id /\ new.question = row.question
           /\ row.model_score # NoScore => new.model_score = row.model_score
           /\ row.human_score # NoScore =>
                \/ new.human_score = row.human_score /\ new.label_source = row.label_source
                \/ new.model_score = row.human_score /\ row.label_source = "model"
<1>1. dataset \in SUBSET EvalAnswer /\ WellBuilt(dataset)
  BY HeldRows
<1>2. CASE row \in dataset'
  BY <1>2
<1>3. ASSUME NEW labelled \in Unscored(dataset), NEW score \in Scores,
             NEW source \in {"human", "model"},
             dataset' = Rescore(dataset, labelled, score, source), row \notin dataset'
      PROVE  \E new \in dataset' :
               /\ new.id = row.id /\ new.question = row.question
               /\ new.model_score = row.model_score /\ row.human_score = NoScore
  <2>1. labelled \in dataset /\ labelled.human_score = NoScore
    BY DEF Unscored
  <2>2. PICK new \in EvalAnswer :
          /\ Rescore(dataset, labelled, score, source) = (dataset \ {labelled}) \cup {new}
          /\ new.id = labelled.id /\ new.question = labelled.question
          /\ new.model_score = labelled.model_score
    BY <1>1, <2>1, RescoredRows
  <2> QED BY <1>3, <2>1, <2>2
<1>4. ASSUME RetireModelLabels, row \notin dataset'
      PROVE  \E new \in dataset' :
               /\ new.id = row.id /\ new.question = row.question
               /\ row.model_score = NoScore /\ new.model_score = row.human_score
               /\ row.label_source = "model"
  <2> DEFINE model == {r \in dataset : r.label_source = "model"}
             Retired(r) == [r EXCEPT !.model_score = r.human_score, !.human_score = NoScore,
                                     !.label_source = "none"]
  <2>1. /\ dataset' = (dataset \ model) \cup {Retired(r) : r \in model}
        /\ \A r \in model : r.model_score = NoScore
    BY <1>4, NothingIsSpoiled DEF RetireModelLabels
  <2>2. row \in model
    BY <1>4, <2>1
  <2>3. /\ Retired(row).id = row.id /\ Retired(row).question = row.question
        /\ Retired(row).model_score = row.human_score
    BY <1>1 DEF EvalAnswer
  <2> HIDE DEF Retired
  <2> QED BY <2>1, <2>2, <2>3
<1>5. \A t \in Terminals : ~KillSaving(t)
  BY NothingIsSpoiled DEF KillSaving
<1>6. ASSUME NEW t \in Terminals, EndBuild(t) PROVE row \in dataset'
  <2>1. PICK new \in BuildWrites(copy[t].rows) : DumpAnswers(copy[t].rows, new)
    BY <1>6 DEF EndBuild
  <2>2. copy[t].rows = dataset /\ dataset' = new
    BY <2>1, NothingIsSpoiled
  <2> QED BY <1>1, <2>1, <2>2, BuiltRows
<1>7. ASSUME NEW t \in Terminals, NEW labelled \in copy[t].rows, NEW score \in Scores,
             NEW source \in {"human", "model"}, LabelInSitting(t, labelled, score, source)
      PROVE  labelled \in Unscored(dataset) /\ dataset' = Rescore(dataset, labelled, score, source)
  <2>1. /\ DumpAnswers(copy[t].rows, Rescore(copy[t].rows, labelled, score, source))
        /\ labelled \in Unscored(copy[t].rows)
    BY <1>7 DEF LabelInSitting
  <2> QED BY <2>1, NothingIsSpoiled
<1>8. \A r \in dataset, score \in Scores, source \in {"human", "model"} :
        LabelFromFile(r, score, source) =>
          r \in Unscored(dataset) /\ dataset' = Rescore(dataset, r, score, source)
  BY NothingIsSpoiled DEF LabelFromFile
<1>9. \A n \in 1..Cardinality(worklist), score \in Scores, source \in {"human", "model"} :
        LabelByPosition(n, score, source) => \E r \in dataset : LabelFromFile(r, score, source)
  BY DEF LabelByPosition
<1>10. \A t \in Terminals :
         StartBuild(t) \/ StartSitting(t) \/ CloseTerminal(t) => row \in dataset'
  BY DEF StartBuild, StartSitting, Open, CloseTerminal
<1>11. WriteWorklist \/ KillLabelling \/ UNCHANGED evalVars => row \in dataset'
  BY DEF WriteWorklist, KillLabelling, evalVars
<1>12. \A r \in dataset, score \in Scores, p \in {"blind", "concept_aware"} :
         ReferenceLands(r, p, score) \/ Adjudicate(r, score) => row \in dataset'
  BY DEF ReferenceLands, Adjudicate
<1>13. \/ row \in dataset' \/ RetireModelLabels
       \/ \E labelled \in Unscored(dataset), score \in Scores, source \in {"human", "model"} :
            dataset' = Rescore(dataset, labelled, score, source)
  <2>1. CASE \E t \in Terminals :
               \/ StartBuild(t) \/ EndBuild(t) \/ StartSitting(t) \/ CloseTerminal(t)
               \/ KillSaving(t)
               \/ \E r \in copy[t].rows, score \in Scores, source \in {"human", "model"} :
                    LabelInSitting(t, r, score, source)
    BY <1>5, <1>6, <1>7, <1>10, <2>1
  <2>2. CASE \E r \in dataset, score \in Scores :
               \/ \E source \in {"human", "model"} : LabelFromFile(r, score, source)
               \/ \E name \in {"blind", "concept_aware"} : ReferenceLands(r, name, score)
               \/ Adjudicate(r, score)
    BY <1>8, <1>12, <2>2
  <2>3. CASE \E n \in 1..Cardinality(worklist), score \in Scores, source \in {"human", "model"} :
               LabelByPosition(n, score, source)
    <3>1. PICK n \in 1..Cardinality(worklist), score \in Scores, source \in {"human", "model"} :
            LabelByPosition(n, score, source)
      BY <2>3
    <3>2. PICK r \in dataset : LabelFromFile(r, score, source)
      BY <1>9, <3>1
    <3> QED BY <1>8, <3>2
  <2> QED BY <1>11, <2>1, <2>2, <2>3 DEF EvalNext
<1> QED BY <1>2, <1>3, <1>4, <1>13

(* No sitting closes the gate on a set that was fit for it.                *)
LEMMA EligibleSetIsFinished ==
  ASSUME EvalInv, [EvalNext]_evalVars, spoiled' = spoiled, GateEligible
  PROVE  dataset' = dataset
<1>1. Unfilled(dataset) = {} /\ Unscored(dataset) = {}
  BY HeldRows, CompleteSetIsFilled DEF GateEligible, Unscored
<1>2. ASSUME NEW t \in Terminals, EndBuild(t) PROVE dataset' = dataset
  <2>1. PICK new \in BuildWrites(copy[t].rows) : DumpAnswers(copy[t].rows, new)
    BY <1>2 DEF EndBuild
  <2>2. new \in BuildWrites(dataset) /\ dataset' = new
    BY <2>1, NothingIsSpoiled
  <2> QED BY <1>1, <2>2 DEF BuildWrites
<1>3. \A t \in Terminals : ~KillSaving(t)
  BY NothingIsSpoiled DEF KillSaving
<1>4. ASSUME NEW t \in Terminals, NEW row \in copy[t].rows, NEW score \in Scores,
             NEW source \in {"human", "model"}, LabelInSitting(t, row, score, source)
      PROVE  FALSE
  <2>1. copy[t].rows = dataset /\ row \in Unscored(copy[t].rows)
    BY <1>4, NothingIsSpoiled DEF LabelInSitting
  <2> QED BY <1>1, <2>1
<1>5. \A row \in dataset, score \in Scores, source \in {"human", "model"} :
        ~LabelFromFile(row, score, source)
  BY <1>1 DEF LabelFromFile
<1>6. \A n \in 1..Cardinality(worklist), score \in Scores, source \in {"human", "model"} :
        ~LabelByPosition(n, score, source)
  BY <1>5 DEF LabelByPosition
<1>7. ~RetireModelLabels
  BY DEF GateEligible, RetireModelLabels
<1>8. \A t \in Terminals :
        StartBuild(t) \/ StartSitting(t) \/ CloseTerminal(t) => dataset' = dataset
  BY DEF StartBuild, StartSitting, Open, CloseTerminal
<1>9. WriteWorklist \/ KillLabelling \/ UNCHANGED evalVars => dataset' = dataset
  BY DEF WriteWorklist, KillLabelling, evalVars
<1>10. \A row \in dataset, score \in Scores, name \in {"blind", "concept_aware"} :
         ReferenceLands(row, name, score) \/ Adjudicate(row, score) => dataset' = dataset
  BY DEF ReferenceLands, Adjudicate
<1> QED BY <1>2, <1>3, <1>4, <1>5, <1>6, <1>7, <1>8, <1>9, <1>10 DEF EvalNext

(* A position that is taken among the ids of the worklist is of the answer *)
(* that the worklist shows there.                                          *)
LEMMA PositionIsOfTheWorklist ==
  ASSUME EvalInv, NEW n \in 1..Cardinality(worklist), NEW score \in Scores,
         NEW source \in {"human", "model"}, LabelByPosition(n, score, source),
         spoiled' = spoiled, IdsOf(dataset) = worklist
  PROVE  \E row \in Unscored(dataset), new \in dataset' :
           /\ row.id = LabellingOrder(worklist)[n] /\ new.id = row.id
           /\ new.human_score = score
<1>1. PICK row \in dataset : IsAt(row, n, dataset) /\ LabelFromFile(row, score, source)
  BY DEF LabelByPosition
<1>2. row \in Unscored(dataset) /\ dataset' = Rescore(dataset, row, score, source)
  BY <1>1, NothingIsSpoiled DEF LabelFromFile
<1>3. row.id = LabellingOrder(worklist)[n]
  BY <1>1 DEF IsAt
<1>4. PICK new \in EvalAnswer :
        /\ Rescore(dataset, row, score, source) = (dataset \ {row}) \cup {new}
        /\ new.id = row.id /\ new.human_score = score
  BY HeldRows, RescoredRows
<1> QED BY <1>2, <1>3, <1>4

(* Nothing is labelled yet.                                                *)
LEMMA EvalInitInv == EvalInit => EvalInv
<1> SUFFICES ASSUME EvalInit PROVE EvalInv
  OBVIOUS
<1>1. /\ dataset = {} /\ labels = {} /\ worklist = {} /\ spoiled \in 0..MaxSpoiled
      /\ copy \in [Terminals -> Desk] /\ \A t \in Terminals : copy[t].rows = {}
  BY SpoiledAssumption, ClosedDesk DEF EvalInit, Closed
<1> QED BY <1>1 DEF EvalInv, EvalTypeOK, LabelsFollowTheirAnswer, AdjudicationIsOnFile, LabelsOf,
                    WellBuilt

(* Builds, labelling sittings, files of scores, retirements and reference  *)
(* passes in any order, one writing over the other and killed inside a     *)
(* write, keep every label on the answer it names and give a score for a   *)
(* position to the answer the worklist shows there, while the file has the *)
(* worklist's answers; and they lose no score and keep the gate open, but  *)
(* by a write over rows that changed since they were read and a cut one    *)
(* (evalset.py, reflabel.py and their scripts).                            *)
THEOREM LabelsTrue == EvalSpec => LabelsStayTrue
<1>1. EvalInit => EvalInv
  BY EvalInitInv
<1>2. EvalInv /\ [EvalNext]_evalVars => EvalInv'
  BY EvalStep
<1>3. EvalInv => LabelsFollowTheirAnswer /\ AdjudicationIsOnFile
  BY DEF EvalInv
<1>4. EvalInv /\ [EvalNext]_evalVars =>
        [spoiled' = spoiled =>
           \A row \in dataset : \E new \in dataset' :
             /\ new.id = row.id /\ new.question = row.question
             /\ row.model_score # NoScore => new.model_score = row.model_score
             /\ row.human_score # NoScore =>
                  \/ new.human_score = row.human_score /\ new.label_source = row.label_source
                  \/ new.model_score = row.human_score /\ row.label_source = "model"]_evalVars
  BY ScoreOfRowIsKept
<1>5. EvalInv /\ [EvalNext]_evalVars =>
        [spoiled' = spoiled /\ GateEligible => GateEligible']_evalVars
  BY EligibleSetIsFinished DEF GateEligible
<1>6. EvalInv /\ [EvalNext]_evalVars =>
        [\A n \in 1..Cardinality(worklist), score \in Scores, source \in {"human", "model"} :
           LabelByPosition(n, score, source) /\ spoiled' = spoiled /\ IdsOf(dataset) = worklist =>
             \E row \in Unscored(dataset), new \in dataset' :
               /\ row.id = LabellingOrder(worklist)[n] /\ new.id = row.id
               /\ new.human_score = score]_evalVars
  BY PositionIsOfTheWorklist
<1> QED BY <1>1, <1>2, <1>3, <1>4, <1>5, <1>6, PTL
      DEF EvalSpec, LabelsStayTrue, ScoresAreKept, GateStaysOpen, PositionsKeepTheirAnswer

-----------------------------------------------------------------------------
(***************************************************************************)
(* The quotas of a blueprint.                                              *)
(***************************************************************************)
LEMMA TotalIsSum ==
  ASSUME NEW f, NEW S PROVE Total(f, S) = SumOf(f, S)
  BY DEF Total, SumOf

LEMMA MinOfTwo ==
  ASSUME NEW a \in Int, NEW b \in Int PROVE Min({a, b}) = IF a <= b THEN a ELSE b
<1> DEFINE m == IF a <= b THEN a ELSE b
<1>1. m \in {a, b} /\ \A y \in {a, b} : m <= y
  OBVIOUS
<1>2. \A x \in {a, b} : (\A y \in {a, b} : x <= y) => x = m
  OBVIOUS
<1> HIDE DEF m
<1>3. Min({a, b}) = m
  BY <1>1, <1>2 DEF Min
<1> QED BY <1>3 DEF m

LEMMA MaxOfTwo ==
  ASSUME NEW a \in Int, NEW b \in Int PROVE Max({a, b}) = IF a >= b THEN a ELSE b
<1> DEFINE m == IF a >= b THEN a ELSE b
<1>1. m \in {a, b} /\ \A y \in {a, b} : m >= y
  OBVIOUS
<1>2. \A x \in {a, b} : (\A y \in {a, b} : x >= y) => x = m
  OBVIOUS
<1> HIDE DEF m
<1>3. Max({a, b}) = m
  BY <1>1, <1>2 DEF Max
<1> QED BY <1>3 DEF m

(* What a valid request says of its topics and of its budget.              *)
LEMMA RequestFacts ==
  ASSUME request \in PlanRequests, ValidRequest(request)
  PROVE  /\ \A t \in PlanTopics : /\ TopicWeight(t) \in Nat /\ Floor(t) \in Nat
                                  /\ Cap(t) # Uncapped => Cap(t) \in Nat
         /\ Weights \in [PlanTopics -> Nat] /\ Floors \in [PlanTopics -> Nat]
         /\ Budget(request) \in 0..MaxItemBudget /\ request.seconds \in Nat
<1>1. ASSUME NEW t \in PlanTopics
      PROVE  /\ TopicWeight(t) \in Nat /\ Floor(t) \in Nat
             /\ Cap(t) # Uncapped => Cap(t) \in Nat
  <2>1. request.topics[t] \in Topic
    BY DEF PlanRequests
  <2>2. /\ request.topics[t].weight \in JdWeights /\ request.topics[t].min \in Minimums
        /\ request.topics[t].max \in Maximums
    BY <2>1 DEF Topic
  <2> DEFINE one == IF request.topics[t].required THEN 1 ELSE 0
  <2>3. request.topics[t].min \in Nat /\ one \in Nat
    BY <2>2, PlanConstants
  <2>4. Max({request.topics[t].min, one}) \in Nat
    <3> HIDE DEF one
    <3> QED BY <2>3, MaxOfTwo
  <2> QED BY <2>2, <2>4, PlanConstants DEF TopicWeight, Cap, Floor
<1>2. request.seconds \in Nat
  BY PlanConstants DEF PlanRequests
<1>3. Budget(request) \in 0..MaxItemBudget
  <2>1. CASE request.items # Derived
    BY <2>1, PlanConstants DEF ValidRequest, Budget
  <2>2. CASE request.items = Derived
    <3> DEFINE fits == request.seconds \div SecondsPerItem
    <3>1. fits \in Nat /\ MaxItemBudget \in Nat
      BY <1>2, PlanConstants, DivisionFacts
    <3>2. Budget(request) = Min({fits, MaxItemBudget})
      BY <2>2 DEF Budget
    <3> HIDE DEF fits
    <3> QED BY <3>1, <3>2, MinOfTwo
  <2> QED BY <2>1, <2>2
<1> QED BY <1>1, <1>2, <1>3 DEF Weights, Floors

(* A fair division of a budget: all shares together are no more than it,   *)
(* somebody gets something, and the heavier topic no less than the lighter. *)
Divides(share, budget, S) ==
  /\ share \in [S -> Nat] /\ SumOf(share, S) <= budget
  /\ \E t \in S : share[t] >= 1
  /\ \A s, t \in S :
       TopicWeight(s) > TopicWeight(t) \/ (TopicWeight(s) = TopicWeight(t) /\ s < t)
         => share[s] >= share[t]

(* _largest_remainder is one.                                              *)
LEMMA LargestRemainderDivides ==
  ASSUME request \in PlanRequests, ValidRequest(request), NEW S \in SUBSET PlanTopics,
         NEW budget \in Nat \ {0}, \E t \in S : TopicWeight(t) > 0
  PROVE  Divides(LargestRemainder(budget, S), budget, S)
<1> DEFINE all      == Total(Weights, S)
           gain(t)  == budget * TopicWeight(t)
           whole    == [t \in S |-> (budget * TopicWeight(t)) \div all]
           rest(t)  == (budget * TopicWeight(t)) % all
           ahead(t) == {s \in S : rest(s) > rest(t) \/ (rest(s) = rest(t) /\ s < t)}
           R == {p \in S \X S : \/ rest(p[1]) > rest(p[2])
                                \/ rest(p[1]) = rest(p[2]) /\ p[1] < p[2]}
           n        == budget - Total(whole, S)
           share    == LargestRemainder(budget, S)
<1>1. share = [t \in S |-> whole[t] + IF Cardinality(ahead(t)) < n THEN 1 ELSE 0]
  BY DEF LargestRemainder
<1>2. /\ IsFiniteSet(S) /\ S \subseteq Nat /\ \A t \in S : TopicWeight(t) \in Nat
      /\ Weights \in [PlanTopics -> Nat] /\ \A t \in S : Weights[t] = TopicWeight(t)
  BY RequestFacts, PlanConstants, FS_Subset DEF Weights
<1>3. all \in Nat \ {0}
  <2>1. PICK x \in S : TopicWeight(x) > 0
    OBVIOUS
  <2>2. IsFiniteSet(S \ {x}) /\ S \ {x} \in SUBSET PlanTopics
    BY <1>2, FS_RemoveElement
  <2>3. /\ SumOf(Weights, S) \in Nat /\ SumOf(Weights, S \ {x}) \in Nat
        /\ SumOf(Weights, S) = Weights[x] + SumOf(Weights, S \ {x})
    <3>1. \A T \in SUBSET PlanTopics : IsFiniteSet(T) =>
            /\ SumOf(Weights, T) \in Nat
            /\ \A y \in T : SumOf(Weights, T) = Weights[y] + SumOf(Weights, T \ {y})
      <4>1. Weights \in [PlanTopics -> Nat]
        BY <1>2
      <4> QED BY ONLY <4>1, SumTakesAny
    <3> QED BY <1>2, <2>2, <3>1
  <2> QED BY <1>2, <2>1, <2>3, TotalIsSum
<1>4. \A t \in S : gain(t) \in Nat
  <2>1. \A a, b \in Nat : a * b \in Nat
    OBVIOUS
  <2> QED BY <1>2, <2>1
<1> HIDE DEF all, share
<1>5. \A t \in S : /\ whole[t] \in Nat /\ rest(t) \in 0..(all - 1)
                   /\ all * whole[t] \in Nat /\ all * whole[t] <= gain(t)
  <2> SUFFICES ASSUME NEW t \in S
               PROVE  /\ whole[t] \in Nat /\ rest(t) \in 0..(all - 1)
                      /\ all * whole[t] \in Nat /\ all * whole[t] <= gain(t)
    OBVIOUS
  <2>1. gain(t) \in Nat
    BY <1>4
  <2> HIDE DEF gain
  <2>2. /\ gain(t) \div all \in Nat /\ gain(t) % all \in 0..(all - 1)
        /\ all * (gain(t) \div all) \in Nat
        /\ gain(t) = all * (gain(t) \div all) + (gain(t) % all)
    BY <1>3, <2>1, DivisionFacts
  <2>3. whole[t] = gain(t) \div all /\ rest(t) = gain(t) % all
    BY DEF gain
  <2> QED BY <2>1, <2>2, <2>3
<1>6. whole \in [S -> Nat]
  BY <1>5
<1>7. SumOf(whole, S) \in Nat /\ SumOf(whole, S) <= budget
  <2> DEFINE weight == [t \in S |-> TopicWeight(t)]
             scaled == [t \in S |-> all * whole[t]]
             gains == [t \in S |-> gain(t)]
             given == SumOf(whole, S)
  <2>1. /\ weight \in [S -> Nat] /\ scaled \in [S -> Nat] /\ gains \in [S -> Nat]
        /\ \A t \in S : gains[t] = budget * weight[t] /\ scaled[t] <= gains[t]
        /\ \A t \in S : scaled[t] = all * whole[t] /\ weight[t] = TopicWeight(t)
    BY <1>2, <1>4, <1>5
  <2> HIDE DEF weight, scaled, gains, whole, gain
  <2>2. SumOf(scaled, S) = all * given
    <3>1. IsFiniteSet(S) /\ all \in Nat
      BY <1>2, <1>3
    <3> QED BY <1>6, <2>1, <3>1, SumScale
  <2>3. SumOf(gains, S) = budget * SumOf(weight, S)
    <3>1. IsFiniteSet(S) /\ budget \in Nat
      BY <1>2
    <3> QED BY <2>1, <3>1, SumScale
  <2>4. SumOf(weight, S) = all
    <3>1. SumOf(weight, S) = SumOf(Weights, S)
      <4>1. /\ S \in SUBSET S /\ S \subseteq PlanTopics /\ IsFiniteSet(S)
            /\ \A t \in S : weight[t] = Weights[t]
        BY <1>2, <2>1
      <4>2. weight \in [S -> Nat] /\ Weights \in [PlanTopics -> Nat]
        BY <1>2, <2>1
      <4> QED BY ONLY <4>1, <4>2, SumSame
    <3> QED BY <3>1, TotalIsSum DEF all
  <2>5. SumOf(scaled, S) <= SumOf(gains, S)
    BY <1>2, <2>1, SumMonotone
  <2>6. given \in Nat
    BY <1>2, <1>6, SumTakesAny
  <2>7. given <= budget
    <3>1. all * given <= budget * all
      BY <2>2, <2>3, <2>4, <2>5
    <3> HIDE DEF given
    <3>2. SUFFICES ASSUME given >= budget + 1 PROVE FALSE
      BY <2>6
    <3>3. given - budget - 1 \in Nat /\ given = budget + 1 + (given - budget - 1)
      BY <2>6, <3>2
    <3>4. all * given = budget * all + all + all * (given - budget - 1)
      BY <1>3, <2>6, <3>3
    <3>5. \A a, b \in Nat : a * b \in Nat
      OBVIOUS
    <3>6. all * (given - budget - 1) \in Nat /\ budget * all \in Nat
      BY <1>3, <3>3, <3>5
    <3> QED BY <1>3, <3>1, <3>4, <3>6
  <2> QED BY <2>6, <2>7
<1>8. n \in Nat /\ n = budget - SumOf(whole, S)
  <2> HIDE DEF whole
  <2> QED BY <1>7, TotalIsSum
<1>9. OrderOn(R, S)
  <2> HIDE DEF rest
  <2>1. \A x, y \in S : <<x, y>> \in R <=> (rest(x) > rest(y) \/ (rest(x) = rest(y) /\ x < y))
    OBVIOUS
  <2>2. \A t \in S : rest(t) \in Nat /\ t \in Nat
    <3>1. \A t \in S : t \in Nat
      BY <1>2
    <3>2. \A t \in S : rest(t) \in 0..(all - 1)
      BY ONLY <1>5
    <3>3. \A k \in 0..(all - 1) : k \in Nat
      BY <1>3
    <3> QED BY ONLY <3>1, <3>2, <3>3
  <2> HIDE DEF R
  <2> QED BY <2>1, <2>2 DEF OrderOn
<1>10. \A t \in S : ahead(t) = Earlier(R, S, t)
  <2> HIDE DEF rest
  <2>1. \A x, y \in S : <<x, y>> \in R <=> (rest(x) > rest(y) \/ (rest(x) = rest(y) /\ x < y))
    OBVIOUS
  <2>2. \A t \in S : ahead(t) = {s \in S : rest(s) > rest(t) \/ (rest(s) = rest(t) /\ s < t)}
    OBVIOUS
  <2> HIDE DEF R, ahead
  <2> QED BY <2>1, <2>2 DEF Earlier
<1>11. share = [t \in S |-> whole[t] + IF PlaceIn(R, S, t) < n THEN 1 ELSE 0]
  <2>1. \A t \in S : Cardinality(ahead(t)) = PlaceIn(R, S, t)
    BY <1>10 DEF PlaceIn
  <2> HIDE DEF ahead, whole, n, R
  <2> QED BY <1>1, <2>1
<1>12. \A s, t \in S : /\ gain(s) >= gain(t) => whole[s] >= whole[t]
                       /\ gain(s) > gain(t) /\ whole[s] = whole[t] => <<s, t>> \in R
                       /\ gain(s) = gain(t) /\ s < t => <<s, t>> \in R
  <2> SUFFICES ASSUME NEW s \in S, NEW t \in S
               PROVE  /\ gain(s) >= gain(t) => whole[s] >= whole[t]
                      /\ gain(s) > gain(t) /\ whole[s] = whole[t] => <<s, t>> \in R
                      /\ gain(s) = gain(t) /\ s < t => <<s, t>> \in R
    OBVIOUS
  <2>1. /\ whole[s] = gain(s) \div all /\ rest(s) = gain(s) % all
        /\ whole[t] = gain(t) \div all /\ rest(t) = gain(t) % all
    OBVIOUS
  <2>2. <<s, t>> \in R <=> (rest(s) > rest(t) \/ (rest(s) = rest(t) /\ s < t))
    OBVIOUS
  <2>3. gain(s) \in Nat /\ gain(t) \in Nat
    BY <1>4
  <2> HIDE DEF whole, rest, gain, R
  <2>4. gain(s) >= gain(t) => /\ gain(s) \div all >= gain(t) \div all
                              /\ gain(s) > gain(t) /\ gain(s) \div all = gain(t) \div all
                                   => gain(s) % all > gain(t) % all
    BY <1>3, <2>3, DivisionKeepsOrder
  <2> QED BY <2>1, <2>2, <2>3, <2>4
<1>13. \A s, t \in S : /\ TopicWeight(s) > TopicWeight(t) => gain(s) > gain(t)
                       /\ TopicWeight(s) = TopicWeight(t) => gain(s) = gain(t)
  <2>1. \A a, b \in Nat : a > b => budget * a > budget * b
    <3> SUFFICES ASSUME NEW a \in Nat, NEW b \in Nat, a > b PROVE budget * a > budget * b
      OBVIOUS
    <3>1. a - b - 1 \in Nat /\ budget * a = budget * b + budget + budget * (a - b - 1)
      OBVIOUS
    <3>2. \A x, y \in Nat : x * y \in Nat
      OBVIOUS
    <3>3. budget * (a - b - 1) \in Nat /\ budget * b \in Nat
      BY <3>1, <3>2
    <3> QED BY <3>1, <3>3
  <2> QED BY <1>2, <2>1
<1> HIDE DEF whole, rest, ahead, gain, R, n
<1>14. /\ share \in [S -> Nat]
       /\ SumOf(share, S) <= SumOf(whole, S) + n
       /\ n > 0 /\ S # {} => \E x \in S : share[x] >= 1
       /\ \A x, y \in S : <<x, y>> \in R /\ whole[x] >= whole[y] => share[x] >= share[y]
       /\ \A x, y \in S : whole[x] > whole[y] => share[x] >= share[y]
  <2>1. IsFiniteSet(S) /\ n \in Nat
    BY <1>2, <1>8
  <2> QED BY <1>6, <1>9, <1>11, <2>1, UnitsForTheFirst
<1>15. \E t \in S : share[t] >= 1
  <2>1. CASE n > 0
    BY <1>14, <2>1
  <2>2. CASE n = 0
    <3>1. SumOf(whole, S) # 0
      BY <1>7, <1>8, <2>2
    <3>2. PICK t \in S : whole[t] # 0
      BY <1>2, <1>6, <3>1, SumOfNothing
    <3>3. share[t] >= whole[t]
      BY <1>6, <1>11
    <3>4. whole[t] \in Nat /\ share[t] \in Nat
      BY <1>6, <1>14
    <3> QED BY <3>2, <3>3, <3>4
  <2> QED BY <1>8, <2>1, <2>2
<1>16. SumOf(share, S) <= budget
  BY <1>7, <1>8, <1>14, <1>2, SumTakesAny
<1>17. ASSUME NEW s \in S, NEW t \in S,
              TopicWeight(s) > TopicWeight(t) \/ (TopicWeight(s) = TopicWeight(t) /\ s < t)
       PROVE  share[s] >= share[t]
  <2>1. gain(s) \in Nat /\ gain(t) \in Nat /\ whole[s] \in Nat /\ whole[t] \in Nat
    BY <1>4, <1>6
  <2>2. CASE whole[s] > whole[t]
    BY <1>14, <2>2
  <2>3. CASE ~(whole[s] > whole[t])
    <3>1. whole[s] = whole[t] /\ <<s, t>> \in R
      BY <1>12, <1>13, <1>17, <2>1, <2>3
    <3> QED BY <1>14, <2>1, <3>1
  <2> QED BY <2>2, <2>3
<1> QED BY <1>14, <1>15, <1>16, <1>17 DEF Divides, share

(* _even_split is one, where no topic has a weight.                        *)
LEMMA EvenSplitDivides ==
  ASSUME request \in PlanRequests, ValidRequest(request), NEW S \in SUBSET PlanTopics, S # {},
         NEW budget \in Nat \ {0}, \A t \in S : ~(TopicWeight(t) > 0)
  PROVE  Divides(EvenSplit(budget, S), budget, S)
<1> DEFINE size    == Cardinality(S)
           each    == budget \div size
           n       == budget % size
           even    == [t \in S |-> each]
           ones    == [t \in S |-> 1]
           R       == {p \in S \X S : p[1] < p[2]}
           share   == EvenSplit(budget, S)
<1>1. /\ IsFiniteSet(S) /\ S \subseteq Nat /\ \A t \in S : TopicWeight(t) = 0
  <2>1. \A t \in S : TopicWeight(t) \in Nat
    BY RequestFacts
  <2>2. IsFiniteSet(S) /\ S \subseteq Nat
    BY PlanConstants, FS_Subset
  <2> QED BY <2>1, <2>2
<1>2. size \in Nat \ {0}
  BY <1>1, FS_CardinalityType, FS_EmptySet
<1>3. share = [t \in S |-> each + IF Cardinality({s \in S : s < t}) < n THEN 1 ELSE 0]
  BY DEF EvenSplit
<1> HIDE DEF share, size
<1>4. each \in Nat /\ n \in 0..(size - 1) /\ size * each \in Nat /\ budget = size * each + n
  BY <1>2, DivisionFacts
<1> HIDE DEF each, n
<1>5. n \in Nat /\ even \in [S -> Nat] /\ ones \in [S -> Nat]
  BY <1>2, <1>4
<1>6. SumOf(even, S) = size * each
  <2>1. /\ \A t \in S : even[t] = each * ones[t]
        /\ \A t \in S : ones[t] = 1
    BY <1>4
  <2> HIDE DEF even, ones
  <2>2. SumOf(even, S) = each * SumOf(ones, S)
    BY <1>1, <1>4, <1>5, <2>1, SumScale
  <2>3. SumOf(ones, S) = size
    BY <1>1, <1>5, <2>1, SumCounts DEF size
  <2> QED BY <1>2, <1>4, <2>2, <2>3
<1>7. OrderOn(R, S)
  <2>1. \A x, y \in S : <<x, y>> \in R <=> x < y
    OBVIOUS
  <2>2. \A x \in S : x \in Nat
    BY <1>1
  <2> HIDE DEF R
  <2> QED BY <2>1, <2>2 DEF OrderOn
<1>8. share = [t \in S |-> even[t] + IF PlaceIn(R, S, t) < n THEN 1 ELSE 0]
  <2>1. \A t \in S : {s \in S : s < t} = Earlier(R, S, t)
    BY DEF Earlier
  <2>2. \A t \in S : Cardinality({s \in S : s < t}) = PlaceIn(R, S, t)
    BY <2>1 DEF PlaceIn
  <2>3. \A t \in S : even[t] = each
    OBVIOUS
  <2> HIDE DEF R, even
  <2> QED BY <1>3, <2>2, <2>3
<1>9. \A x, y \in S : (x < y => <<x, y>> \in R) /\ even[x] = each
  OBVIOUS
<1> HIDE DEF R, even, ones
<1>10. /\ share \in [S -> Nat]
       /\ SumOf(share, S) <= SumOf(even, S) + n
       /\ n > 0 /\ S # {} => \E x \in S : share[x] >= 1
       /\ \A x, y \in S : <<x, y>> \in R /\ even[x] >= even[y] => share[x] >= share[y]
  <2>1. IsFiniteSet(S) /\ n \in Nat
    BY <1>1, <1>5
  <2>2. even \in [S -> Nat]
    BY <1>5
  <2> QED BY <1>7, <1>8, <2>1, <2>2, UnitsForTheFirst
<1>11. \E t \in S : share[t] >= 1
  <2>1. CASE n > 0
    BY <1>10, <2>1
  <2>2. CASE n = 0
    <3>1. size * each # 0
      BY <1>4, <2>2
    <3>2. each # 0
      BY <1>2, <3>1
    <3>3. ASSUME NEW t \in S PROVE share[t] >= 1
      <4>1. even[t] = each /\ even[t] \in Nat
        BY <1>5, <1>9
      <4>2. share[t] = even[t] + IF PlaceIn(R, S, t) < n THEN 1 ELSE 0
        BY <1>8
      <4> QED BY <1>4, <3>2, <4>1, <4>2
    <3>4. \A t \in S : share[t] >= 1
      BY <3>3
    <3> QED BY <3>4
  <2> QED BY <1>5, <2>1, <2>2
<1>12. SumOf(share, S) <= budget
  BY <1>4, <1>6, <1>10
<1>13. ASSUME NEW s \in S, NEW t \in S,
              TopicWeight(s) > TopicWeight(t) \/ (TopicWeight(s) = TopicWeight(t) /\ s < t)
       PROVE  share[s] >= share[t]
  <2>1. TopicWeight(s) = 0 /\ TopicWeight(t) = 0
    BY <1>1
  <2>2. s < t
    BY <1>13, <2>1
  <2>3. <<s, t>> \in R /\ even[s] = each /\ even[t] = each
    BY <1>9, <2>2
  <2> QED BY <1>4, <1>10, <2>3
<1> QED BY <1>10, <1>11, <1>12, <1>13 DEF Divides, share

(* What a round gives each topic with room, and what it leaves.            *)
LEMMA ShareDivides ==
  ASSUME QuotasInv, remaining > 0, BelowCap # {}, phase = "dividing"
  PROVE  Divides(Share, remaining, BelowCap)
<1>1. request \in PlanRequests /\ ValidRequest(request)
  BY DEF QuotasInv
<1>2. remaining \in Nat \ {0} /\ BelowCap \in SUBSET PlanTopics
  BY PlanConstants DEF QuotasInv, BlueprintTypeOK, BelowCap
<1>3. CASE \E t \in BelowCap : TopicWeight(t) > 0
  <2>1. Share = LargestRemainder(remaining, BelowCap)
    BY <1>3 DEF Share
  <2> QED BY <1>1, <1>2, <1>3, <2>1, LargestRemainderDivides
<1>4. CASE ~ \E t \in BelowCap : TopicWeight(t) > 0
  <2>1. Share = EvenSplit(remaining, BelowCap)
    BY <1>4 DEF Share
  <2> QED BY <1>1, <1>2, <1>4, <2>1, EvenSplitDivides
<1> QED BY <1>3, <1>4

LEMMA RoomFacts ==
  ASSUME QuotasInv, remaining > 0, BelowCap # {}, phase = "dividing"
  PROVE  /\ \A t \in BelowCap :
              /\ Room(t) \in Nat /\ Room(t) <= Share[t]
              /\ Share[t] \in Nat /\ (Share[t] >= 1 => Room(t) >= 1)
              /\ Cap(t) # Uncapped => quotas[t] + Room(t) <= Cap(t)
              /\ Cap(t) = Uncapped \/ quotas[t] + Room(t) < Cap(t) => Room(t) = Share[t]
<1>1. Share \in [BelowCap -> Nat]
  BY ShareDivides DEF Divides
<1> SUFFICES ASSUME NEW t \in BelowCap
             PROVE  /\ Room(t) \in Nat /\ Room(t) <= Share[t]
                    /\ Share[t] \in Nat /\ (Share[t] >= 1 => Room(t) >= 1)
                    /\ Cap(t) # Uncapped => quotas[t] + Room(t) <= Cap(t)
                    /\ Cap(t) = Uncapped \/ quotas[t] + Room(t) < Cap(t) => Room(t) = Share[t]
  OBVIOUS
<1>2. Share[t] \in Nat /\ quotas[t] \in Nat
  BY <1>1 DEF QuotasInv, BlueprintTypeOK, BelowCap
<1>3. CASE Cap(t) = Uncapped
  <2>1. Room(t) = Share[t]
    BY <1>3 DEF Room
  <2> QED BY <1>2, <1>3, <2>1
<1>4. CASE Cap(t) # Uncapped
  <2>1. Cap(t) \in Nat /\ quotas[t] < Cap(t)
    BY <1>4, RequestFacts DEF QuotasInv, BelowCap
  <2>2. Room(t) = Min({Share[t], Cap(t) - quotas[t]})
    BY <1>4 DEF Room
  <2> DEFINE give == Share[t]
             gap  == Cap(t) - quotas[t]
             cap  == Cap(t)
             had  == quotas[t]
             new  == Room(t)
  <2>3. give \in Nat /\ gap \in Nat \ {0} /\ had \in Nat /\ cap = had + gap /\ new = Min({give, gap})
    BY <1>2, <2>1, <2>2
  <2>4. cap # Uncapped
    BY <1>4
  <2> HIDE DEF give, gap, cap, had, new
  <2>5. new = IF give <= gap THEN give ELSE gap
    BY <2>3, MinOfTwo
  <2>6. /\ new \in Nat /\ new <= give /\ give \in Nat /\ (give >= 1 => new >= 1)
        /\ had + new <= cap
        /\ had + new < cap => new = give
    BY <2>3, <2>5
  <2> QED BY <2>4, <2>6 DEF give, cap, had, new
<1> QED BY <1>3, <1>4

(* A round gives out an item at least and no more than is left, within the *)
(* limits and in the order of the weights.                                 *)
LEMMA RoundKeepsQuotas ==
  ASSUME QuotasInv, Round
  PROVE  QuotasInv' /\ remaining' < remaining
<1> DEFINE rooms == [t \in BelowCap |-> Room(t)]
           added == [t \in PlanTopics |-> IF t \in BelowCap THEN Room(t) ELSE 0]
<1>1. /\ phase = "dividing" /\ remaining > 0 /\ BelowCap # {}
      /\ phase' = phase /\ request' = request
      /\ quotas' = [t \in PlanTopics |-> quotas[t] + added[t]]
      /\ remaining' = remaining - Total(rooms, BelowCap)
  BY DEF Round
<1>2. /\ request \in PlanRequests /\ ValidRequest(request)
      /\ quotas \in [PlanTopics -> Nat] /\ remaining \in 0..MaxItemBudget /\ remaining \in Nat
      /\ Total(quotas, PlanTopics) + remaining = Budget(request)
      /\ WithinLimits /\ QuotasFollowWeights
  BY <1>1, PlanConstants DEF QuotasInv, BlueprintTypeOK
<1>3. \A t \in BelowCap :
         /\ Room(t) \in Nat /\ Room(t) <= Share[t]
         /\ Share[t] \in Nat /\ (Share[t] >= 1 => Room(t) >= 1)
         /\ Cap(t) # Uncapped => quotas[t] + Room(t) <= Cap(t)
         /\ Cap(t) = Uncapped \/ quotas[t] + Room(t) < Cap(t) => Room(t) = Share[t]
  BY <1>1, RoomFacts
<1>4. Divides(Share, remaining, BelowCap)
  BY <1>1, ShareDivides
<1>5. BelowCap \in SUBSET PlanTopics /\ IsFiniteSet(PlanTopics) /\ IsFiniteSet(BelowCap)
  <2>1. BelowCap \in SUBSET PlanTopics
    BY DEF BelowCap
  <2> QED BY <2>1, PlanConstants, FS_Subset
<1>6. rooms \in [BelowCap -> Nat] /\ added \in [PlanTopics -> Nat]
  BY <1>3
<1>7. /\ \A t \in BelowCap : rooms[t] = Room(t) /\ added[t] = Room(t)
      /\ \A t \in PlanTopics : added[t] = IF t \in BelowCap THEN rooms[t] ELSE 0
  BY <1>5
<1> HIDE DEF rooms, added
<1>8. /\ quotas' \in [PlanTopics -> Nat]
      /\ \A t \in PlanTopics : quotas'[t] = quotas[t] + added[t]
  BY <1>1, <1>2, <1>6
<1>9. SumOf(rooms, BelowCap) \in Nat /\ SumOf(rooms, BelowCap) <= remaining
  <2>1. Share \in [BelowCap -> Nat] /\ SumOf(Share, BelowCap) <= remaining
    BY <1>4 DEF Divides
  <2>2. BelowCap \in SUBSET BelowCap
    OBVIOUS
  <2>3. \A t \in BelowCap : rooms[t] <= Share[t]
    BY <1>3, <1>7
  <2>4. SumOf(rooms, BelowCap) <= SumOf(Share, BelowCap)
    BY <1>5, <1>6, <2>1, <2>2, <2>3, SumMonotone
  <2>5. SumOf(rooms, BelowCap) \in Nat /\ SumOf(Share, BelowCap) \in Nat
    BY <1>5, <1>6, <2>1, <2>2, SumTakesAny
  <2> QED BY <1>2, <2>1, <2>4, <2>5
<1>10. SumOf(rooms, BelowCap) # 0
  <2>1. PICK t \in BelowCap : Share[t] >= 1
    BY <1>4 DEF Divides
  <2>2. rooms[t] # 0
    BY <1>3, <1>7, <2>1
  <2> QED BY <1>5, <1>6, <2>2, SumOfNothing
<1>11. remaining' = remaining - SumOf(rooms, BelowCap)
  BY <1>1, TotalIsSum
<1>12. remaining' < remaining /\ remaining' \in 0..MaxItemBudget
  BY <1>2, <1>9, <1>10, <1>11, PlanConstants
<1>13. Total(quotas', PlanTopics) + remaining' = Budget(request)
  <2>1. SumOf(quotas', PlanTopics) = SumOf(quotas, PlanTopics) + SumOf(added, PlanTopics)
    BY ONLY <1>2, <1>5, <1>6, <1>8, SumPlus
  <2>2. SumOf(added, PlanTopics) = SumOf(rooms, BelowCap)
    BY ONLY <1>5, <1>6, <1>7, SumOutside
  <2>3. SumOf(quotas, PlanTopics) \in Nat
    BY <1>2, <1>5, SumTakesAny
  <2> QED BY <1>2, <1>9, <1>11, <2>1, <2>2, <2>3, TotalIsSum
<1>14. \A t \in PlanTopics : /\ Cap(t)' = Cap(t) /\ Floor(t)' = Floor(t)
                             /\ TopicWeight(t)' = TopicWeight(t)
  BY <1>1 DEF Cap, Floor, TopicWeight
<1>15. /\ \A t \in PlanTopics : Floor(t) \in Nat /\ (Cap(t) # Uncapped => Cap(t) \in Nat)
  BY <1>2, RequestFacts
<1>16. WithinLimits'
  <2> SUFFICES ASSUME NEW t \in PlanTopics
               PROVE  quotas'[t] >= Floor(t) /\ (Cap(t) # Uncapped => quotas'[t] <= Cap(t))
    BY <1>14 DEF WithinLimits
  <2>0. WithinLimits
    BY <1>2
  <2>1. /\ quotas[t] >= Floor(t) /\ (Cap(t) # Uncapped => quotas[t] <= Cap(t))
        /\ quotas[t] \in Nat /\ added[t] \in Nat
        /\ quotas'[t] = quotas[t] + added[t] /\ Floor(t) \in Nat
    <3>1. quotas[t] >= Floor(t) /\ (Cap(t) # Uncapped => quotas[t] <= Cap(t))
      BY <2>0 DEF WithinLimits
    <3>2. /\ quotas[t] \in Nat /\ added[t] \in Nat
          /\ quotas'[t] = quotas[t] + added[t] /\ Floor(t) \in Nat
      BY <1>2, <1>6, <1>8, <1>15
    <3> QED BY <3>1, <3>2
  <2>2. CASE t \in BelowCap
    BY <1>3, <1>7, <2>1, <2>2
  <2>3. CASE t \notin BelowCap
    <3>1. added[t] = 0
      BY <1>7, <2>3
    <3> QED BY <2>1, <3>1
  <2> QED BY <2>2, <2>3
<1>17. ASSUME NEW t \in BelowCap'
       PROVE  t \in BelowCap /\ t \in PlanTopics /\ quotas'[t] = quotas[t] + Share[t]
  <2>1. t \in PlanTopics /\ (Cap(t) = Uncapped \/ quotas'[t] < Cap(t))
    BY <1>14 DEF BelowCap
  <2>2. quotas[t] \in Nat /\ added[t] \in Nat /\ quotas'[t] = quotas[t] + added[t]
    BY <1>2, <1>6, <1>8, <2>1
  <2>3. t \in BelowCap
    BY <1>15, <2>1, <2>2 DEF BelowCap
  <2>4. added[t] = Room(t)
    BY <1>7, <2>3
  <2>5. Room(t) = Share[t]
    BY <1>3, <2>1, <2>2, <2>3, <2>4
  <2> QED BY <2>1, <2>2, <2>3, <2>4, <2>5
<1>18. QuotasFollowWeights'
  <2> SUFFICES ASSUME NEW s \in PlanTopics, NEW t \in PlanTopics,
                      Floor(s) = Floor(t), s \in BelowCap', t \in BelowCap',
                      TopicWeight(s) > TopicWeight(t) \/ (TopicWeight(s) = TopicWeight(t) /\ s < t)
               PROVE  quotas'[s] >= quotas'[t]
    BY <1>14 DEF QuotasFollowWeights
  <2>1. /\ s \in BelowCap /\ quotas'[s] = quotas[s] + Share[s]
        /\ t \in BelowCap /\ quotas'[t] = quotas[t] + Share[t]
    BY <1>17
  <2>2. quotas[s] >= quotas[t]
    BY <1>2, <2>1 DEF QuotasFollowWeights
  <2>3. Share[s] >= Share[t]
    BY <1>4, <2>1 DEF Divides
  <2>4. quotas[s] \in Nat /\ quotas[t] \in Nat /\ Share[s] \in Nat /\ Share[t] \in Nat
    BY <1>2, <1>3, <2>1
  <2> QED BY <2>1, <2>2, <2>3, <2>4
<1>19. BlueprintTypeOK'
  BY <1>1, <1>2, <1>8, <1>12 DEF BlueprintTypeOK
<1>20. PlanFitsTheRequest' /\ RefusedWithReason'
  BY <1>1 DEF PlanFitsTheRequest, RefusedWithReason
<1>21. (Total(quotas, PlanTopics) + remaining = Budget(request))'
  BY <1>1, <1>13
<1>22. request' \in PlanRequests /\ ValidRequest(request')
  BY <1>1, <1>2
<1> QED BY <1>1, <1>12, <1>16, <1>18, <1>19, <1>20, <1>21, <1>22 DEF QuotasInv

LEMMA StartDividingKeepsQuotas ==
  ASSUME QuotasInv, StartDividing
  PROVE  QuotasInv'
<1>1. /\ phase = "validating" /\ Dividable /\ quotas' = Floors
      /\ remaining' = Budget(request) - Total(Floors, PlanTopics)
      /\ phase' = "dividing" /\ request' = request
  BY DEF StartDividing
<1>2. request \in PlanRequests /\ ValidRequest(request)
  BY <1>1 DEF QuotasInv
<1>3. /\ \A t \in PlanTopics : /\ Floor(t) \in Nat /\ TopicWeight(t) \in Nat
                               /\ Cap(t) # Uncapped => Cap(t) \in Nat
      /\ Floors \in [PlanTopics -> Nat] /\ Budget(request) \in 0..MaxItemBudget
  BY <1>2, RequestFacts
<1>4. \A t \in PlanTopics : /\ Cap(t)' = Cap(t) /\ Floor(t)' = Floor(t)
                            /\ TopicWeight(t)' = TopicWeight(t)
                            /\ quotas'[t] = Floor(t)
  BY <1>1 DEF Cap, Floor, TopicWeight, Floors
<1>5. Total(Floors, PlanTopics) \in Nat
  BY <1>3, PlanConstants, SumTakesAny, TotalIsSum
<1>6. Total(Floors, PlanTopics) <= Budget(request) /\ \A t \in PlanTopics : Cap(t) # Uncapped => Cap(t) >= Floor(t)
  BY <1>1 DEF Dividable
<1>7. remaining' \in 0..MaxItemBudget /\ Total(quotas', PlanTopics) + remaining' = Budget(request')
  BY <1>1, <1>3, <1>5, <1>6, PlanConstants
<1>8. WithinLimits'
  BY <1>3, <1>4, <1>6 DEF WithinLimits
<1>9. QuotasFollowWeights'
  BY <1>3, <1>4 DEF QuotasFollowWeights
<1>10. BlueprintTypeOK'
  BY <1>1, <1>2, <1>3, <1>7 DEF BlueprintTypeOK
<1>11. PlanFitsTheRequest' /\ RefusedWithReason'
  BY <1>1 DEF PlanFitsTheRequest, RefusedWithReason
<1>12. (Total(quotas, PlanTopics) + remaining = Budget(request))'
  BY <1>7
<1>13. request' \in PlanRequests /\ ValidRequest(request')
  BY <1>1, <1>2
<1> QED BY <1>1, <1>8, <1>9, <1>10, <1>11, <1>12, <1>13 DEF QuotasInv

(* What a refused request or plan was refused for, while it is decided.    *)
LEMMA RefusalHasReason ==
  ASSUME QuotasInv, RefuseRequest \/ RefusePlan
  PROVE  \/ Budget(request) < MinItemBudget \/ Budget(request) * SecondsPerItem > request.seconds
         \/ Total(Floors, PlanTopics) > Budget(request)
         \/ \A t \in PlanTopics : TopicWeight(t) = 0
         \/ \E t \in PlanTopics : Cap(t) # Uncapped /\ Cap(t) < Floor(t)
         \/ /\ \A t \in PlanTopics : Cap(t) # Uncapped
            /\ Total([t \in PlanTopics |-> Cap(t)], PlanTopics) < Budget(request)
<1>1. request \in PlanRequests /\ ValidRequest(request)
  BY DEF QuotasInv, RefuseRequest, RefusePlan, Divided
<1>2. /\ \A t \in PlanTopics : /\ Floor(t) \in Nat /\ TopicWeight(t) \in Nat
                               /\ Cap(t) # Uncapped => Cap(t) \in Nat
      /\ Floors \in [PlanTopics -> Nat] /\ Budget(request) \in Nat /\ request.seconds \in Nat
  BY <1>1, RequestFacts, PlanConstants
<1>3. Total(Floors, PlanTopics) \in Nat /\ MinItemBudget \in Nat /\ SecondsPerItem \in Nat
  BY <1>2, PlanConstants, SumTakesAny, TotalIsSum
<1>4. CASE RefuseRequest
  BY <1>2, <1>3, <1>4 DEF RefuseRequest, Dividable
<1>5. CASE RefusePlan
  <2> DEFINE caps == [t \in PlanTopics |-> Cap(t)]
  <2>1. phase = "dividing" /\ (remaining = 0 \/ BelowCap = {}) /\ ~Plannable
    BY <1>5 DEF RefusePlan, Divided
  <2>2. /\ quotas \in [PlanTopics -> Nat] /\ remaining \in Nat
        /\ Total(quotas, PlanTopics) + remaining = Budget(request) /\ WithinLimits
    BY <2>1, PlanConstants DEF QuotasInv, BlueprintTypeOK
  <2>3. CASE remaining = 0
    <3>1. ~(Budget(request) * SecondsPerItem <= request.seconds)
      BY <2>1, <2>3 DEF Plannable
    <3>2. \A a, b \in Nat : a * b \in Nat
      OBVIOUS
    <3>3. Budget(request) * SecondsPerItem \in Nat
      BY <1>2, <1>3, <3>2
    <3> DEFINE need == Budget(request) * SecondsPerItem
    <3>4. need \in Nat /\ ~(need <= request.seconds)
      BY <3>1, <3>3
    <3> HIDE DEF need
    <3>5. need > request.seconds
      BY <1>2, <3>4
    <3> QED BY <3>5 DEF need
  <2>4. CASE remaining # 0
    <3>1. BelowCap = {}
      BY <2>1, <2>4
    <3>2. ASSUME NEW t \in PlanTopics PROVE Cap(t) # Uncapped /\ quotas[t] = Cap(t)
      <4>1. Cap(t) # Uncapped /\ ~(quotas[t] < Cap(t))
        BY <3>1 DEF BelowCap
      <4>2. quotas[t] <= Cap(t)
        BY <2>2, <4>1 DEF WithinLimits
      <4>3. quotas[t] \in Nat /\ Cap(t) \in Nat
        BY <1>2, <2>2, <4>1
      <4> QED BY <4>1, <4>2, <4>3
    <3>3. caps = quotas
      BY <2>2, <3>2
    <3>4. Total(quotas, PlanTopics) \in Nat
      BY <2>2, PlanConstants, SumTakesAny, TotalIsSum
    <3>5. Total(caps, PlanTopics) < Budget(request)
      BY <2>2, <2>4, <3>3, <3>4
    <3> QED BY <3>2, <3>5
  <2> QED BY <2>3, <2>4
<1> QED BY <1>4, <1>5

LEMMA BlueprintStep ==
  ASSUME QuotasInv, [BlueprintNext]_blueprintVars
  PROVE  QuotasInv' /\ (phase = "dividing" /\ phase' = "dividing" => remaining' < remaining \/ UNCHANGED blueprintVars)
<1>1. CASE ReceiveRequest
  <2>1. /\ phase = "none" /\ phase' = "validating" /\ quotas' = quotas /\ remaining' = remaining
        /\ request' \in PlanRequests /\ ValidRequest(request')
    BY <1>1 DEF ReceiveRequest
  <2>2. BlueprintTypeOK' /\ PlanFitsTheRequest' /\ RefusedWithReason'
    BY <2>1 DEF QuotasInv, BlueprintTypeOK, PlanFitsTheRequest, RefusedWithReason
  <2> QED BY <2>1, <2>2 DEF QuotasInv
<1>2. CASE StartDividing
  BY <1>2, StartDividingKeepsQuotas DEF StartDividing
<1>3. CASE RefuseRequest \/ RefusePlan
  <2>1. /\ phase \in {"validating", "dividing"} /\ phase' = "refused"
        /\ request' = request /\ quotas' = quotas /\ remaining' = remaining
    BY <1>3 DEF RefuseRequest, RefusePlan, Refuse, Divided
  <2>2. \A t \in PlanTopics : /\ Cap(t)' = Cap(t) /\ Floor(t)' = Floor(t)
                              /\ TopicWeight(t)' = TopicWeight(t)
    BY <2>1 DEF Cap, Floor, TopicWeight
  <2>3. Floors' = Floors
    BY <2>2 DEF Floors
  <2>4. [t \in PlanTopics |-> Cap(t)]' = [t \in PlanTopics |-> Cap(t)]
    BY <2>2
  <2>5. RefusedWithReason'
    BY <1>3, <2>1, <2>2, <2>3, <2>4, RefusalHasReason DEF RefusedWithReason
  <2>6. BlueprintTypeOK' /\ PlanFitsTheRequest'
    BY <2>1 DEF QuotasInv, BlueprintTypeOK, PlanFitsTheRequest
  <2> QED BY <2>1, <2>5, <2>6 DEF QuotasInv
<1>4. CASE Round
  BY <1>4, RoundKeepsQuotas
<1>5. CASE Plan
  <2>1. /\ phase = "dividing" /\ phase' = "planned" /\ Plannable
        /\ request' = request /\ quotas' = quotas /\ remaining' = remaining
    BY <1>5 DEF Plan, Divided
  <2>2. \A t \in PlanTopics : /\ Cap(t)' = Cap(t) /\ Floor(t)' = Floor(t)
                              /\ TopicWeight(t)' = TopicWeight(t)
    BY <2>1 DEF Cap, Floor, TopicWeight
  <2>3. /\ quotas \in [PlanTopics -> Nat] /\ request \in PlanRequests /\ ValidRequest(request)
        /\ Total(quotas, PlanTopics) + remaining = Budget(request)
        /\ WithinLimits /\ QuotasFollowWeights
    BY <2>1 DEF QuotasInv, BlueprintTypeOK
  <2>4. BelowCap' = BelowCap
    BY <2>1, <2>2 DEF BelowCap
  <2>5. WithinLimits' /\ QuotasFollowWeights'
    BY <2>1, <2>2, <2>3, <2>4 DEF WithinLimits, QuotasFollowWeights
  <2>6. /\ remaining = 0 /\ Budget(request) * SecondsPerItem <= request.seconds
    BY <2>1 DEF Plannable
  <2>7. Total(quotas, PlanTopics) \in Nat
    BY <2>3, PlanConstants, SumTakesAny, TotalIsSum
  <2>8. Total(quotas, PlanTopics) = Budget(request)
    BY <2>3, <2>6, <2>7
  <2>9. PlanFitsTheRequest'
    BY <2>1, <2>5, <2>6, <2>8 DEF PlanFitsTheRequest
  <2>10. BlueprintTypeOK' /\ RefusedWithReason'
    BY <2>1 DEF QuotasInv, BlueprintTypeOK, RefusedWithReason
  <2>11. (Total(quotas, PlanTopics) + remaining = Budget(request))'
    BY <2>1, <2>3
  <2>12. request' \in PlanRequests /\ ValidRequest(request')
    BY <2>1, <2>3
  <2> QED BY <2>1, <2>5, <2>9, <2>10, <2>11, <2>12 DEF QuotasInv
<1>6. CASE UNCHANGED blueprintVars
  <2>1. request' = request /\ quotas' = quotas /\ remaining' = remaining /\ phase' = phase
    BY <1>6 DEF blueprintVars
  <2> QED BY <1>6, <2>1 DEF QuotasInv, BlueprintTypeOK, PlanFitsTheRequest, RefusedWithReason,
            WithinLimits, QuotasFollowWeights, Floor, Cap, TopicWeight, Floors, BelowCap
<1> QED BY <1>1, <1>2, <1>3, <1>4, <1>5, <1>6 DEF BlueprintNext

(* No request has come yet.                                                *)
LEMMA BlueprintInitInv == BlueprintInit => QuotasInv
<1> SUFFICES ASSUME BlueprintInit PROVE QuotasInv
  OBVIOUS
<1>1. /\ request = NoRequest /\ phase = "none" /\ remaining = 0
      /\ quotas \in [PlanTopics -> Nat] /\ remaining \in 0..MaxItemBudget
  BY PlanConstants DEF BlueprintInit
<1> QED BY <1>1 DEF QuotasInv, BlueprintTypeOK, PlanFitsTheRequest, RefusedWithReason

(* Whatever is asked for, in rounds that each give out an item at least, a *)
(* plan spends its budget within its limits and in the order of the        *)
(* weights, or is refused with a reason (quotas.py:allocate_quotas).       *)
THEOREM QuotasFair == BlueprintSpec => QuotasAreFair
<1>1. BlueprintInit => QuotasInv
  BY BlueprintInitInv
<1>2. QuotasInv /\ [BlueprintNext]_blueprintVars => QuotasInv'
  BY BlueprintStep
<1>3. QuotasInv => PlanFitsTheRequest /\ WeightIsRespected /\ RefusedWithReason
  BY DEF QuotasInv, WeightIsRespected
<1>4. QuotasInv /\ [BlueprintNext]_blueprintVars
        => [phase = "dividing" /\ phase' = "dividing" => remaining' < remaining]_blueprintVars
  BY BlueprintStep
<1> QED BY <1>1, <1>2, <1>3, <1>4, PTL DEF BlueprintSpec, QuotasAreFair, RoundsAdvance

-----------------------------------------------------------------------------
(***************************************************************************)
(* What the interview believes of a candidate.                             *)
(***************************************************************************)
LEMMA TogetherIsSum ==
  ASSUME NEW f, NEW S PROVE Together(f, S) = SumOf(f, S)
  BY DEF Together, SumOf

(* Every set of integers in a range has a least and a greatest.            *)
LEMMA Extremes ==
  ASSUME NEW a \in Int, NEW b \in Int, NEW S \in SUBSET (a..b), S # {}
  PROVE  /\ Min(S) \in S /\ \A x \in S : Min(S) <= x
         /\ Max(S) \in S /\ \A x \in S : x <= Max(S)
<1>1. \E x \in S : \A y \in S : x <= y
  <2> DEFINE T == {x - a : x \in S}
  <2>0. \A x \in S : x - a \in Nat
    OBVIOUS
  <2>1. T \in SUBSET Nat /\ T # {}
    BY <2>0
  <2>2. PICK n \in T : \A m \in T : n <= m
    BY <2>1, LeastNatural
  <2>3. PICK x \in S : n = x - a
    BY <2>2
  <2>4. \A y \in S : y - a \in T /\ y \in Int
    OBVIOUS
  <2>5. \A y \in S : x - a <= y - a
    BY <2>2, <2>3, <2>4
  <2>6. \A y \in S : x <= y
    BY <2>3, <2>4, <2>5
  <2> QED BY <2>6
<1>2. \E x \in S : \A y \in S : x >= y
  <2> DEFINE T == {b - x : x \in S}
  <2>0. \A x \in S : b - x \in Nat
    OBVIOUS
  <2>1. T \in SUBSET Nat /\ T # {}
    BY <2>0
  <2>2. PICK n \in T : \A m \in T : n <= m
    BY <2>1, LeastNatural
  <2>3. PICK x \in S : n = b - x
    BY <2>2
  <2>4. \A y \in S : b - y \in T /\ y \in Int
    OBVIOUS
  <2>5. \A y \in S : b - x <= b - y
    BY <2>2, <2>3, <2>4
  <2>6. \A y \in S : x >= y
    BY <2>3, <2>4, <2>5
  <2> QED BY <2>6
<1>3. Min(S) \in S /\ \A y \in S : Min(S) <= y
  BY <1>1 DEF Min
<1>4. Max(S) \in S /\ \A y \in S : Max(S) >= y
  BY <1>2 DEF Max
<1>5. \A x \in S : x \in Int
  OBVIOUS
<1> QED BY <1>3, <1>4, <1>5

LEMMA Products ==
  /\ \A x, y \in Nat : x * y \in Nat
  /\ \A x, y \in Int : x * y \in Int
  OBVIOUS

LEMMA TruncDivFacts ==
  ASSUME NEW x \in Int, NEW n \in Nat \ {0}
  PROVE  /\ TruncDiv(x, n) \in Int
         /\ \A k \in Int : k * n <= x => k <= TruncDiv(x, n)
         /\ \A k \in Int : x <= k * n => TruncDiv(x, n) <= k
<1>1. CASE x >= 0
  <2> DEFINE q == x \div n
             rest == x % n
  <2>0. x \in Nat
    BY <1>1
  <2>1. q \in Nat /\ rest \in 0..(n - 1) /\ x = n * q + rest /\ n * q \in Nat
    BY ONLY <2>0, n \in Nat \ {0}, DivisionFacts
  <2>2. TruncDiv(x, n) = q
    BY <1>1 DEF TruncDiv
  <2> HIDE DEF q, rest
  <2>3. ASSUME NEW k \in Int, k * n <= x PROVE k <= q
    <3>1. SUFFICES ASSUME k - q - 1 \in Nat PROVE FALSE
      BY <2>1
    <3>2. k * n = n * q + n + n * (k - q - 1)
      BY <2>1
    <3>3. n * (k - q - 1) \in Nat
      BY <3>1, Products
    <3> QED BY <2>1, <2>3, <3>2, <3>3
  <2>4. ASSUME NEW k \in Int, x <= k * n PROVE q <= k
    <3>1. SUFFICES ASSUME q - k - 1 \in Nat PROVE FALSE
      BY <2>1
    <3>2. n * q = k * n + n + n * (q - k - 1)
      BY <2>1
    <3>3. n * (q - k - 1) \in Nat /\ k * n \in Int
      BY <3>1, Products
    <3> QED BY <2>1, <2>4, <3>2, <3>3
  <2> QED BY <2>1, <2>2, <2>3, <2>4
<1>2. CASE x < 0
  <2> DEFINE y == -x
             q == y \div n
             rest == y % n
  <2>0. y \in Nat
    BY <1>2
  <2>1. q \in Nat /\ rest \in 0..(n - 1) /\ -x = n * q + rest /\ n * q \in Nat
    <3> HIDE DEF y
    <3>1. q \in Nat /\ rest \in 0..(n - 1) /\ y = n * q + rest /\ n * q \in Nat
      BY ONLY <2>0, n \in Nat \ {0}, DivisionFacts
    <3> QED BY <3>1 DEF y
  <2>2. TruncDiv(x, n) = -q
    BY <1>2 DEF TruncDiv
  <2> HIDE DEF q, rest, y
  <2>3. ASSUME NEW k \in Int, k * n <= x PROVE k <= -q
    <3>1. SUFFICES ASSUME k + q - 1 \in Nat PROVE FALSE
      BY <2>1
    <3>2. k * n = n + n * (k + q - 1) - n * q
      BY <2>1
    <3>3. n * (k + q - 1) \in Nat
      BY <3>1, Products
    <3> QED BY <2>1, <2>3, <3>2, <3>3
  <2>4. ASSUME NEW k \in Int, x <= k * n PROVE -q <= k
    <3>1. SUFFICES ASSUME -q - k - 1 \in Nat PROVE FALSE
      BY <2>1
    <3>2. k * n = -(n * q) - n - n * (-q - k - 1)
      BY <2>1
    <3>3. n * (-q - k - 1) \in Nat
      BY <3>1, Products
    <3> QED BY <2>1, <2>4, <3>2, <3>3
  <2> QED BY <2>1, <2>2, <2>3, <2>4
<1> QED BY <1>1, <1>2

(* Truncation is towards zero, so that the larger push never steps less.   *)
LEMMA TruncDivToZero ==
  ASSUME NEW x \in Int, NEW y \in Int, NEW n \in Nat \ {0}
  PROVE  /\ 0 <= x => 0 <= TruncDiv(x, n)
         /\ x <= 0 => TruncDiv(x, n) <= 0
         /\ 0 <= x /\ x <= y => TruncDiv(x, n) <= TruncDiv(y, n)
         /\ x <= 0 /\ y <= x => TruncDiv(y, n) <= TruncDiv(x, n)
<1>1. /\ TruncDiv(x, n) \in Int /\ TruncDiv(x, n) * n \in Int
      /\ \A k \in Int : k * n <= x => k <= TruncDiv(x, n)
      /\ \A k \in Int : x <= k * n => TruncDiv(x, n) <= k
  BY TruncDivFacts, Products
<1>2. /\ \A k \in Int : k * n <= y => k <= TruncDiv(y, n)
      /\ \A k \in Int : y <= k * n => TruncDiv(y, n) <= k
  BY TruncDivFacts
<1>3. 0 * n = 0
  OBVIOUS
<1>4. (0 <= x => 0 <= TruncDiv(x, n)) /\ (x <= 0 => TruncDiv(x, n) <= 0)
  BY <1>1, <1>3
<1>5. ASSUME 0 <= x PROVE TruncDiv(x, n) * n <= x
  <2> DEFINE q == x \div n
             rest == x % n
  <2>1. x \in Nat
    BY <1>5
  <2>2. q \in Nat /\ rest \in 0..(n - 1) /\ x = n * q + rest /\ n * q \in Nat
    BY ONLY <2>1, n \in Nat \ {0}, DivisionFacts
  <2>3. TruncDiv(x, n) = q
    BY <1>5 DEF TruncDiv
  <2> HIDE DEF q, rest
  <2> QED BY <2>2, <2>3
<1>6. ASSUME x < 0 PROVE x <= TruncDiv(x, n) * n
  <2> DEFINE z == -x
             q == z \div n
             rest == z % n
  <2>1. z \in Nat
    BY <1>6
  <2>2. TruncDiv(x, n) = -q
    BY <1>6 DEF TruncDiv
  <2>3. x = -z
    OBVIOUS
  <2> HIDE DEF z
  <2>4. q \in Nat /\ rest \in 0..(n - 1) /\ z = n * q + rest /\ n * q \in Nat
    BY ONLY <2>1, n \in Nat \ {0}, DivisionFacts
  <2> HIDE DEF q, rest
  <2>5. (-q) * n = -(n * q)
    BY <2>4
  <2> QED BY <2>1, <2>2, <2>3, <2>4, <2>5
<1>7. ASSUME 0 <= x, x <= y PROVE TruncDiv(x, n) <= TruncDiv(y, n)
  <2>1. TruncDiv(x, n) * n <= y
    BY <1>1, <1>5, <1>7
  <2> QED BY <1>1, <1>2, <2>1
<1>8. ASSUME x <= 0, y <= x PROVE TruncDiv(y, n) <= TruncDiv(x, n)
  <2>1. x <= TruncDiv(x, n) * n
    <3>1. CASE x < 0
      BY <1>6, <3>1
    <3>2. CASE x = 0
      <4>1. TruncDiv(x, n) = 0
        BY <1>1, <1>4, <3>2
      <4> QED BY <1>3, <3>2, <4>1
    <3> QED BY <1>8, <3>1, <3>2
  <2>2. y <= TruncDiv(x, n) * n
    BY <1>1, <1>8, <2>1
  <2> QED BY <1>1, <1>2, <2>2
<1> QED BY <1>4, <1>7, <1>8

LEMMA WithinBounds ==
  ASSUME NEW x \in Int, NEW low \in Int, NEW high \in Int, low <= high
  PROVE  /\ Within(x, low, high) \in low..high
         /\ \A y \in low..high : /\ y <= x => y <= Within(x, low, high)
                                 /\ x <= y => Within(x, low, high) <= y
  BY DEF Within

LEMMA ConstantsOfAbility ==
  /\ ThetaMin = -300 /\ ThetaMax = 300 /\ MaxThetaStep = 50
  /\ LeastPrecision \in Nat \ {0} /\ MostPrecision \in Nat \ {0}
  /\ LeastPrecision <= MostPrecision
  /\ \A x \in LeastPrecision..MostPrecision : x \in Nat \ {0} /\ x \in Int /\ 111111 - x \in Nat
  BY SMT DEF ThetaMin, ThetaMax, MaxThetaStep, LeastPrecision, MostPrecision

LEMMA AbilityFields ==
  ASSUME NEW a \in AbilityState
  PROVE  /\ a.theta \in -300..300 /\ a.theta \in Int
         /\ a.precision \in LeastPrecision..MostPrecision /\ a.precision \in Nat \ {0}
         /\ a.n \in Nat
<1>1. /\ a.theta \in -300..300 /\ a.precision \in LeastPrecision..MostPrecision /\ a.n \in Nat
  BY ConstantsOfAbility, SMT DEF AbilityState
<1>2. \A x \in -300..300 : x \in Int
  BY SMT
<1> QED BY <1>1, <1>2, ConstantsOfAbility, SMT

(* The RD of a precision is in its range, so a step is an integer.         *)
LEMMA RdInRange ==
  ASSUME NEW precision \in LeastPrecision..MostPrecision
  PROVE  Rd(precision) \in 30..130
<1> DEFINE big      == 100000000
           variance == big \div precision
           rest     == big % precision
           S        == {r \in 30..130 : r * r <= variance}
<1>1. /\ big \in Nat /\ big > 111111 * 900 /\ precision \in Nat \ {0}
      /\ 111111 - precision \in Nat
  BY ConstantsOfAbility, SMT
<1>2. Rd(precision) = Max(S)
  BY SMT DEF Rd
<1> HIDE DEF big
<1>3. /\ variance \in Nat /\ rest \in 0..(precision - 1) /\ precision * variance \in Nat
      /\ big = precision * variance + rest
  <2>1. big \in Nat /\ precision \in Nat \ {0}
    BY <1>1
  <2> QED BY ONLY <2>1, DivisionFacts
<1> HIDE DEF variance, rest
<1>4. variance >= 900
  <2>1. SUFFICES ASSUME 899 - variance \in Nat PROVE FALSE
    BY <1>3, SMT
  <2>2. precision * 899 = precision * variance + precision * (899 - variance)
    BY <1>1, <1>3, SMT
  <2>3. precision * (899 - variance) \in Nat
    BY <1>1, <2>1, Products, SMT
  <2>4. precision * 899 <= 111111 * 899
    BY <1>1, SMT
  <2> QED BY <1>1, <1>3, <2>2, <2>3, <2>4, SMT
<1>5. 30 \in S /\ S \in SUBSET (30..130) /\ S # {}
  <2>1. 30 * 30 <= variance
    BY <1>3, <1>4, SMT
  <2>2. 30 \in S
    BY <2>1
  <2> QED BY <2>2
<1>6. 30 \in Int /\ 130 \in Int
  OBVIOUS
<1> HIDE DEF S
<1>7. Max(S) \in S
  BY ONLY <1>5, <1>6, Extremes
<1> QED BY <1>2, <1>5, <1>7

LEMMA UncertaintyIsNatural ==
  ASSUME NEW a \in AbilityState
  PROVE  Uncertainty(a.precision) \in Nat
<1> DEFINE hundreds == (Rd(a.precision) * 100) \div 60
           factor   == Uncertainty(a.precision)
<1>1. hundreds \in Nat
  <2>1. Rd(a.precision) * 100 \in Nat
    BY AbilityFields, RdInRange, SMT
  <2> DEFINE rd == Rd(a.precision) * 100
  <2>2. rd \in Nat /\ 60 \in Nat \ {0}
    BY <2>1
  <2> HIDE DEF rd
  <2>3. rd \div 60 \in Nat
    BY ONLY <2>2, DivisionFacts
  <2> QED BY <2>3 DEF rd
<1>2. factor \in Nat
  <2>1. factor = Min({160, hundreds})
    BY DEF Uncertainty
  <2> HIDE DEF hundreds, factor
  <2>2. {160, hundreds} \in SUBSET (0..(160 + hundreds)) /\ 160 + hundreds \in Int /\ 0 \in Int
    BY <1>1
  <2> DEFINE both == {160, hundreds}
  <2>3. both \in SUBSET (0..(160 + hundreds)) /\ both # {}
    BY <2>2
  <2> HIDE DEF both
  <2>4. Min(both) \in both
    BY ONLY <2>2, <2>3, Extremes
  <2> QED BY <1>1, <2>1, <2>4 DEF both
<1> QED BY <1>2

(* A step goes the way the answer points, and a bank question's the        *)
(* further.                                                                *)
LEMMA StepFacts ==
  ASSUME NEW a \in AbilityState, NEW score \in Nat, NEW p \in 0..100,
         NEW confidence \in Nat, NEW stake \in {Bank, Generated}
  PROVE  LET step   == Step(a, score, p, confidence, stake)
             asBank == Step(a, score, p, confidence, Bank)
         IN  /\ step \in -50..50 /\ asBank \in -50..50
             /\ score >= p => 0 <= step /\ step <= asBank
             /\ score <= p => step <= 0 /\ asBank <= step
<1> DEFINE step   == Step(a, score, p, confidence, stake)
           asBank == Step(a, score, p, confidence, Bank)
<1> DEFINE factor == Uncertainty(a.precision)
           weight == 6 * confidence * factor
           push   == weight * stake * (score - p)
           most   == weight * Bank * (score - p)
<1>1. factor \in Nat
  BY UncertaintyIsNatural
<1>2. /\ RawStep(a, score, p, confidence, stake) = TruncDiv(push, 200000)
      /\ RawStep(a, score, p, confidence, Bank) = TruncDiv(most, 200000)
  BY SMT DEF RawStep
<1> HIDE DEF factor
<1>3. weight \in Nat
  <2>1. 6 * confidence \in Nat
    OBVIOUS
  <2> QED BY <1>1, <2>1, Products
<1> HIDE DEF weight
<1> DEFINE gap  == score - p
           rest == weight * (2 - stake)
<1>4. Bank = 2 /\ stake \in {1, 2} /\ gap \in Int
  BY DEF Bank, Generated
<1>5. /\ weight * stake \in Nat /\ rest \in Nat
      /\ weight * Bank = weight * stake + rest
  BY <1>3, <1>4
<1>6. push = (weight * stake) * gap /\ most = (weight * stake) * gap + rest * gap
  <2> DEFINE w == weight * stake
  <2>1. most = (w + rest) * gap
    BY <1>5
  <2>2. w \in Nat /\ rest \in Nat /\ gap \in Int
    BY <1>4, <1>5
  <2> HIDE DEF w, rest, gap
  <2>3. (w + rest) * gap = w * gap + rest * gap
    BY ONLY <2>2
  <2>4. most = w * gap + rest * gap
    BY <2>1, <2>3
  <2> QED BY <2>4 DEF w, gap
<1>7. /\ push \in Int /\ most \in Int
      /\ gap >= 0 => 0 <= push /\ push <= most
      /\ gap <= 0 => push <= 0 /\ most <= push
  <2> DEFINE w == weight * stake
             x == w * gap
             y == rest * gap
  <2>1. w \in Nat /\ rest \in Nat /\ gap \in Int /\ push = x /\ most = x + y
    BY <1>4, <1>5, <1>6
  <2> HIDE DEF w, rest, gap, push, most
  <2>2. x \in Int /\ y \in Int
    BY <2>1, Products
  <2>3. gap >= 0 => 0 <= x /\ 0 <= y
    <3>1. gap >= 0 => gap \in Nat
      BY <2>1
    <3> QED BY <2>1, <3>1, Products
  <2>4. gap <= 0 => x <= 0 /\ y <= 0
    <3>1. SUFFICES ASSUME gap <= 0 PROVE x <= 0 /\ y <= 0
      OBVIOUS
    <3>2. -gap \in Nat
      BY <2>1, <3>1
    <3>3. w * (-gap) \in Nat /\ rest * (-gap) \in Nat
      BY <2>1, <3>2, Products
    <3>4. w * (-gap) = -x /\ rest * (-gap) = -y
      BY <2>1
    <3> QED BY <2>2, <3>3, <3>4
  <2> HIDE DEF x, y
  <2> QED BY <2>1, <2>2, <2>3, <2>4
<1> DEFINE raw  == TruncDiv(push, 200000)
           full == TruncDiv(most, 200000)
<1> HIDE DEF push, most
<1>8. 200000 \in Nat \ {0}
  BY SMT
<1>9. /\ raw \in Int /\ full \in Int
      /\ gap >= 0 => 0 <= raw /\ raw <= full
      /\ gap <= 0 => raw <= 0 /\ full <= raw
  <2> DEFINE units == 200000
  <2>1. units \in Nat \ {0}
    BY <1>8
  <2> HIDE DEF units, gap
  <2>2. TruncDiv(push, units) \in Int /\ TruncDiv(most, units) \in Int
    BY ONLY <1>7, <2>1, TruncDivFacts
  <2>3. /\ 0 <= push => 0 <= TruncDiv(push, units)
        /\ push <= 0 => TruncDiv(push, units) <= 0
        /\ 0 <= push /\ push <= most => TruncDiv(push, units) <= TruncDiv(most, units)
        /\ push <= 0 /\ most <= push => TruncDiv(most, units) <= TruncDiv(push, units)
    BY ONLY <1>7, <2>1, TruncDivToZero
  <2>4. /\ gap >= 0 => 0 <= TruncDiv(push, units) /\ TruncDiv(push, units) <= TruncDiv(most, units)
        /\ gap <= 0 => TruncDiv(push, units) <= 0 /\ TruncDiv(most, units) <= TruncDiv(push, units)
    BY ONLY <1>7, <2>3
  <2> QED BY ONLY <2>2, <2>4 DEF units
<1>10. step = Within(raw, -50, 50) /\ asBank = Within(full, -50, 50)
  BY <1>2, ConstantsOfAbility, SMT DEF Step
<1> HIDE DEF raw, full, step, asBank
<1>11. step \in -50..50 /\ asBank \in -50..50
  BY ONLY <1>9, <1>10, SMT DEF Within
<1>12. gap >= 0 => 0 <= step /\ step <= asBank
  BY ONLY <1>9, <1>10, SMT DEF Within
<1>13. gap <= 0 => step <= 0 /\ asBank <= step
  BY ONLY <1>9, <1>10, SMT DEF Within
<1>14. (score >= p => gap >= 0) /\ (score <= p => gap <= 0)
  OBVIOUS
<1> QED BY <1>11, <1>12, <1>13, <1>14 DEF step, asBank

(* One answer: the right way, half a point at the most, no further than a  *)
(* bank question, no less sure, one answer more.                           *)
MovesTheRightWay(a, difficulty, score, confidence, after) ==
  LET expected == Logistic[a.theta - difficulty]
      asBank == UpdateAbility(a, difficulty, score, confidence, Bank)
  IN  /\ score >= expected => after.theta >= a.theta
      /\ score <= expected => after.theta <= a.theta
      /\ Magnitude(after.theta - a.theta) <= MaxThetaStep
      /\ Magnitude(after.theta - a.theta) <= Magnitude(asBank.theta - a.theta)
      /\ after.precision >= a.precision /\ after.n = a.n + 1

LEMMA UpdateFacts ==
  ASSUME NEW a \in AbilityState, NEW difficulty \in Difficulties, NEW score \in AnswerScores,
         NEW confidence \in Confidences, NEW stake \in {Bank, Generated},
         NEW after, after = UpdateAbility(a, difficulty, score, confidence, stake)
  PROVE  /\ after \in AbilityState /\ after.n > 0
         /\ MovesTheRightWay(a, difficulty, score, confidence, after)
<1> DEFINE p == Logistic[a.theta - difficulty]
           step == Step(a, score, p, confidence, stake)
           full == Step(a, score, p, confidence, Bank)
           asBank == UpdateAbility(a, difficulty, score, confidence, Bank)
           was == a.theta
<1>1. p \in 0..100
  <2>1. a.theta \in -300..300
    BY AbilityFields
  <2>2. a.theta - difficulty \in DOMAIN Logistic
    BY ONLY <2>1, AbilityBounds, difficulty \in Difficulties
  <2>3. Logistic \in [DOMAIN Logistic -> 0..100]
    BY AbilityBounds
  <2> QED BY <2>2, <2>3
<1>2. /\ after.theta = Within(was + step, -300, 300)
      /\ after.precision = Precision(a, p) /\ after.n = a.n + 1
      /\ after = [theta |-> after.theta, precision |-> after.precision, n |-> after.n]
  BY ConstantsOfAbility DEF UpdateAbility
<1>3. asBank.theta = Within(was + full, -300, 300)
  BY ConstantsOfAbility DEF UpdateAbility
<1> HIDE DEF asBank
<1>4. score \in Nat /\ confidence \in Nat
  BY AbilityBounds
<1>5. p = Logistic[a.theta - difficulty]
  OBVIOUS
<1> HIDE DEF p
<1>6. /\ step \in -50..50 /\ full \in -50..50
      /\ score >= p => 0 <= step /\ step <= full
      /\ score <= p => step <= 0 /\ full <= step
  BY ONLY <1>1, <1>4, a \in AbilityState, stake \in {Bank, Generated}, StepFacts
<1> HIDE DEF step, full
<1>7. was \in -300..300
  BY AbilityFields
<1> DEFINE now  == after.theta
           bank == asBank.theta
<1>8. now = Within(was + step, -300, 300) /\ bank = Within(was + full, -300, 300)
  BY <1>2, <1>3
<1> HIDE DEF now, bank, was
<1>9. /\ now \in -300..300 /\ now - was \in -50..50
      /\ 0 <= step => was <= now
      /\ step <= 0 => now <= was
      /\ 0 <= step /\ step <= full => now <= bank
      /\ step <= 0 /\ full <= step => bank <= now
  BY ONLY <1>6, <1>7, <1>8, SMT DEF Within
<1>10. bank \in -300..300
  BY ONLY <1>6, <1>7, <1>8, SMT DEF Within
<1>11. /\ score >= p => now >= was
       /\ score <= p => now <= was
  <2>1. now \in Int /\ was \in Int
    BY ONLY <1>7, <1>9, SMT
  <2> QED BY <1>6, <1>9, <2>1
<1>12. Magnitude(now - was) <= MaxThetaStep
  BY <1>7, <1>9, ConstantsOfAbility, SMT DEF Magnitude
<1>13. Magnitude(now - was) <= Magnitude(bank - was)
  <2>1. now \in Int /\ was \in Int /\ bank \in Int
    BY ONLY <1>7, <1>9, <1>10, SMT
  <2>2. CASE score >= p
    <3>1. was <= now /\ now <= bank
      BY <1>6, <1>9, <2>2
    <3> QED BY ONLY <2>1, <3>1, SMT DEF Magnitude
  <2>3. CASE score <= p
    <3>1. now <= was /\ bank <= now
      BY <1>6, <1>9, <2>3
    <3> QED BY ONLY <2>1, <3>1, SMT DEF Magnitude
  <2>4. score >= p \/ score <= p
    BY <1>1, <1>4
  <2> QED BY <2>2, <2>3, <2>4
<1>14. /\ after.precision \in LeastPrecision..MostPrecision
      /\ after.precision >= a.precision
  <2> DEFINE information == p * (100 - p)
  <2>1. information \in Nat
    BY <1>1, Products
  <2>2. after.precision = Within(a.precision + information, LeastPrecision, MostPrecision)
    BY <1>2 DEF Precision
  <2> HIDE DEF information
  <2> DEFINE had == a.precision
             sum == a.precision + information
  <2>3. /\ sum \in Int /\ had \in LeastPrecision..MostPrecision /\ had <= sum
        /\ after.precision = Within(sum, LeastPrecision, MostPrecision)
    BY <2>1, <2>2, AbilityFields, SMT
  <2> HIDE DEF had, sum
  <2>4. /\ LeastPrecision \in Int /\ MostPrecision \in Int /\ LeastPrecision <= MostPrecision
    BY ConstantsOfAbility
  <2>5. /\ after.precision \in LeastPrecision..MostPrecision
        /\ \A y \in LeastPrecision..MostPrecision : y <= sum => y <= after.precision
    BY ONLY <2>3, <2>4, WithinBounds, SMT
  <2>6. had <= after.precision /\ had \in Int /\ after.precision \in Int
    BY ONLY <2>3, <2>4, <2>5, SMT
  <2>7. after.precision >= had
    BY ONLY <2>6, SMT
  <2> QED BY <2>5, <2>7 DEF had
<1>15. after \in AbilityState
  <2>1. after.theta \in -300..300
    BY <1>9 DEF now
  <2> QED BY <1>2, <1>14, <2>1, AbilityFields, ConstantsOfAbility, SMT DEF AbilityState
<1>16. after.n > 0
  BY <1>2, AbilityFields, SMT
<1>17. MovesTheRightWay(a, difficulty, score, confidence, after)
  BY <1>2, <1>5, <1>11, <1>12, <1>13, <1>14 DEF MovesTheRightWay, now, was, bank, asBank
<1> QED BY <1>15, <1>16, <1>17

LEMMA RolledUpIsBetween ==
  ASSUME AbilityInv
  PROVE  RollUpIsBetween
<1> SUFFICES ASSUME NEW t \in DOMAIN RollUp(observed)
             PROVE  LET S == Children(observed, t)
                        thetas == {observed[s].theta : s \in S}
                    IN  /\ RollUp(observed)[t].theta \in Min(thetas)..Max(thetas)
                        /\ \A s \in S : RollUp(observed)[t].precision >= observed[s].precision
  BY DEF RollUpIsBetween
<1> DEFINE D      == DOMAIN observed
           S      == Children(observed, t)
           thetas == {observed[s].theta : s \in S}
           f      == Precisions(observed)
           g      == Pulls(observed)
           low    == Min(thetas)
           high   == Max(thetas)
<1>1. /\ observed \in [D -> AbilityState] /\ D \subseteq Subtopics
      /\ IsFiniteSet(D) /\ IsFiniteSet(S) /\ S \in SUBSET D
  <2>1. observed \in [D -> AbilityState] /\ D \subseteq Subtopics /\ S \in SUBSET D
    BY DEF AbilityInv, Children
  <2> QED BY <2>1, AbilityBounds, FS_Subset
<1>2. S # {}
  BY DEF RollUp, Children
<1>3. /\ RollUp(observed)[t].theta = TruncDiv(SumOf(g, S), SumOf(f, S))
      /\ RollUp(observed)[t].precision = SumOf(f, S)
  BY TogetherIsSum DEF RollUp, Aggregate
<1>4. \A s \in D : /\ observed[s].theta \in -300..300 /\ observed[s].theta \in Int
                   /\ observed[s].precision \in Nat \ {0}
                   /\ f[s] = observed[s].precision
                   /\ g[s] = f[s] * observed[s].theta
  BY <1>1, AbilityFields DEF Precisions, Pulls
<1>5. f \in [D -> Nat] /\ g \in [D -> Int]
  <2>1. \A s \in D : observed[s].precision * observed[s].theta \in Int
    BY <1>4, Products
  <2> QED BY <1>4, <2>1 DEF Precisions, Pulls
<1> HIDE DEF f, g, D
<1>6. /\ low \in Int /\ high \in Int
      /\ \A s \in S : low <= observed[s].theta /\ observed[s].theta <= high
  <2>1. thetas \in SUBSET (-300..300) /\ thetas # {}
    BY <1>1, <1>2, <1>4
  <2>2. \A s \in S : observed[s].theta \in thetas
    OBVIOUS
  <2>3. -300 \in Int /\ 300 \in Int
    OBVIOUS
  <2> HIDE DEF thetas
  <2>4. /\ low \in thetas /\ \A x \in thetas : low <= x
        /\ high \in thetas /\ \A x \in thetas : x <= high
    BY ONLY <2>1, <2>3, Extremes
  <2>5. \A x \in thetas : x \in Int
    BY <2>1
  <2>6. low \in Int /\ high \in Int
    BY <2>4, <2>5
  <2>7. \A s \in S : low <= observed[s].theta /\ observed[s].theta <= high
    BY <2>2, <2>4
  <2> QED BY <2>6, <2>7
<1> HIDE DEF S, thetas, low, high
<1>7. \A s \in S : low * f[s] <= g[s] /\ g[s] <= high * f[s]
  <2> SUFFICES ASSUME NEW s \in S PROVE low * f[s] <= g[s] /\ g[s] <= high * f[s]
    OBVIOUS
  <2> DEFINE p == f[s]
             x == observed[s].theta
  <2>1. p \in Nat /\ x \in Int /\ low <= x /\ x <= high /\ g[s] = p * x
    BY <1>1, <1>4, <1>5, <1>6
  <2> HIDE DEF p, x
  <2>2. (x - low) \in Nat /\ (high - x) \in Nat
    BY <1>6, <2>1
  <2>3. p * x = low * p + p * (x - low) /\ high * p = p * x + p * (high - x)
    BY <1>6, <2>1
  <2>4. p * (x - low) \in Nat /\ p * (high - x) \in Nat /\ low * p \in Int /\ p * x \in Int
    BY <1>6, <2>1, <2>2, Products
  <2>5. low * p <= p * x /\ p * x <= high * p
    BY <2>3, <2>4
  <2> QED BY <2>1, <2>5 DEF p
<1>8. /\ SumOf(g, S) \in Int /\ SumOf(f, S) \in Nat
      /\ low * SumOf(f, S) <= SumOf(g, S) /\ SumOf(g, S) <= high * SumOf(f, S)
  BY ONLY <1>1, <1>5, <1>6, <1>7, SumBetween
<1>9. \A s \in S : SumOf(f, S) >= f[s]
  <2> SUFFICES ASSUME NEW s \in S PROVE SumOf(f, S) >= f[s]
    OBVIOUS
  <2>1. IsFiniteSet(S \ {s}) /\ S \ {s} \in SUBSET D
    BY <1>1, FS_RemoveElement
  <2>2. SumOf(f, S) = f[s] + SumOf(f, S \ {s}) /\ SumOf(f, S \ {s}) \in Nat
    BY <1>1, <1>5, <2>1, SumTakesAny
  <2>3. f[s] \in Nat
    BY <1>1, <1>5
  <2> QED BY <2>2, <2>3
<1>10. SumOf(f, S) \in Nat \ {0}
  <2>1. PICK s \in S : TRUE
    BY <1>2
  <2>2. f[s] \in Nat /\ f[s] # 0
    BY <1>1, <1>4, <1>5
  <2> QED BY <1>8, <1>9, <2>2
<1>11. TruncDiv(SumOf(g, S), SumOf(f, S)) \in low..high
  <2> DEFINE a == SumOf(g, S)
             b == SumOf(f, S)
  <2>1. a \in Int /\ b \in Nat \ {0} /\ low * b <= a /\ a <= high * b
    BY <1>8, <1>10
  <2> HIDE DEF a, b
  <2>2. TruncDiv(a, b) \in Int /\ low <= TruncDiv(a, b) /\ TruncDiv(a, b) <= high
    BY <1>6, <2>1, TruncDivFacts
  <2> QED BY <1>6, <2>2 DEF a, b
<1>12. \A s \in S : RollUp(observed)[t].precision >= observed[s].precision
  BY <1>1, <1>3, <1>4, <1>9
<1> QED BY <1>3, <1>11, <1>12 DEF S, thetas, low, high

(* What is precise was asked about.                                        *)
LEMMA EarnedPrecision ==
  ASSUME AbilityInv, MayStop
  PROVE  \A t \in Required : \E s \in DOMAIN observed : ParentOf[s] = t /\ observed[s].n > 0
<1> SUFFICES ASSUME NEW t \in Required
             PROVE  \E s \in DOMAIN observed : ParentOf[s] = t /\ observed[s].n > 0
  OBVIOUS
<1>1. t \in DOMAIN RollUp(observed)
  BY DEF MayStop, PrecisionReached
<1>2. PICK s \in DOMAIN observed : ParentOf[s] = t
  BY <1>1 DEF RollUp
<1> QED BY <1>2 DEF AbilityInv

LEMMA BeforeIsAbility ==
  ASSUME AbilityInv, NEW s \in Subtopics
  PROVE  /\ Before(s) \in AbilityState
         /\ s \in DOMAIN observed => Before(s) = observed[s]
<1>1. BlueprintPrior \in AbilityState
  <2>1. LeastPrecision \in LeastPrecision..MostPrecision /\ TargetTheta \in ThetaMin..ThetaMax
    <3>1. TargetTheta \in ThetaMin..ThetaMax
      BY AbilityBounds, SMT DEF ThetaMin, ThetaMax
    <3>2. LeastPrecision \in LeastPrecision..MostPrecision
      BY SMT DEF LeastPrecision, MostPrecision
    <3> QED BY <3>1, <3>2
  <2> QED BY <2>1 DEF BlueprintPrior, AbilityState
<1>2. \A r \in DOMAIN Believed : Believed[r] \in AbilityState
  BY DEF Believed, AbilityInv
<1>3. s \in DOMAIN observed => s \in DOMAIN Believed /\ Believed[s] = observed[s]
  BY DEF Believed
<1> QED BY <1>1, <1>2, <1>3 DEF Before

LEMMA PriorsAreAbilities ==
  ASSUME NEW profile \in [Subtopics -> DOMAIN EvidencePriors],
         NEW made, made = ComputePriors(profile)
  PROVE  made \in [DOMAIN made -> AbilityState] /\ DOMAIN made \subseteq Subtopics
<1>1. \A e \in DOMAIN EvidencePriors : PriorOf(e) \in AbilityState
  <2> SUFFICES ASSUME NEW e \in DOMAIN EvidencePriors PROVE PriorOf(e) \in AbilityState
    OBVIOUS
  <2>1. /\ EvidencePriors[e].offset \in Int
        /\ EvidencePriors[e].precision \in LeastPrecision..MostPrecision
    <3>1. DOMAIN EvidencePriors = {"professional", "project", "listed", "none"}
      BY SMT DEF EvidencePriors
    <3>2. CASE e = "professional"
      <4>1. EvidencePriors.professional = [offset |-> 40, precision |-> 10000]
        BY SMT DEF EvidencePriors
      <4>2. EvidencePriors[e].offset = 40 /\ EvidencePriors[e].precision = 10000
        BY <3>2, <4>1, SMT
      <4> QED BY <4>2, SMT DEF LeastPrecision, MostPrecision
    <3>3. CASE e = "project"
      <4>1. EvidencePriors.project = [offset |-> 25, precision |-> 8264]
        BY SMT DEF EvidencePriors
      <4>2. EvidencePriors[e].offset = 25 /\ EvidencePriors[e].precision = 8264
        BY <3>3, <4>1, SMT
      <4> QED BY <4>2, SMT DEF LeastPrecision, MostPrecision
    <3>4. CASE e = "listed"
      <4>1. EvidencePriors.listed = [offset |-> 0, precision |-> 6944]
        BY SMT DEF EvidencePriors
      <4>2. EvidencePriors[e].offset = 0 /\ EvidencePriors[e].precision = 6944
        BY <3>4, <4>1, SMT
      <4> QED BY <4>2, SMT DEF LeastPrecision, MostPrecision
    <3>5. CASE e = "none"
      <4>1. EvidencePriors.none = [offset |-> -10, precision |-> 5917]
        BY SMT DEF EvidencePriors
      <4>2. EvidencePriors[e].offset = -10 /\ EvidencePriors[e].precision = 5917
        BY <3>5, <4>1, SMT
      <4> QED BY <4>2, SMT DEF LeastPrecision, MostPrecision
    <3> QED BY <3>1, <3>2, <3>3, <3>4, <3>5
  <2>2. Within(TargetTheta + EvidencePriors[e].offset, ThetaMin, ThetaMax) \in ThetaMin..ThetaMax
    <3> DEFINE x == TargetTheta + EvidencePriors[e].offset
    <3>1. TargetTheta \in Int
      BY AbilityBounds, SMT
    <3>2. x \in Int
      BY <2>1, <3>1
    <3> HIDE DEF x
    <3>3. Within(x, ThetaMin, ThetaMax) \in ThetaMin..ThetaMax
      BY ONLY <3>2, SMT DEF Within, ThetaMin, ThetaMax
    <3> QED BY <3>3 DEF x
  <2> QED BY <2>1, <2>2 DEF PriorOf, AbilityState
<1>2. CASE \A s \in Subtopics : profile[s] = "none"
  <2>1. made = <<>>
    BY <1>2 DEF ComputePriors
  <2> QED BY <2>1
<1>3. CASE ~ \A s \in Subtopics : profile[s] = "none"
  <2>1. made = [s \in Subtopics |-> PriorOf(profile[s])]
    BY <1>3 DEF ComputePriors
  <2> QED BY <1>1, <2>1
<1> QED BY <1>2, <1>3

(* What AnswersMoveWithinBounds says of one step.                          *)
MovesWithinBounds ==
  LET s == last'.subtopic
      a == Before(s)
      b == observed'[s]
      expected == Logistic[a.theta - last'.difficulty]
      asBank == UpdateAbility(a, last'.difficulty, last'.score, last'.confidence, Bank)
  IN  /\ observed' # observed => answers' = answers + 1
      /\ answers' # answers =>
           /\ last'.score >= expected => b.theta >= a.theta
           /\ last'.score <= expected => b.theta <= a.theta
           /\ Magnitude(b.theta - a.theta) <= MaxThetaStep
           /\ Magnitude(b.theta - a.theta) <= Magnitude(asBank.theta - a.theta)
           /\ b.precision >= a.precision /\ b.n = a.n + 1
           /\ \A t \in DOMAIN observed : t # s => observed'[t] = observed[t]

LEMMA GradedKeepsAbility ==
  ASSUME AbilityInv, NEW s \in Subtopics, NEW difficulty \in Difficulties,
         NEW score \in AnswerScores, NEW confidence \in Confidences,
         NEW stake \in {Bank, Generated}, Graded(s, difficulty, score, confidence, stake)
  PROVE  AbilityInv' /\ MovesWithinBounds
<1> DEFINE new == UpdateAbility(Before(s), difficulty, score, confidence, stake)
<1>1. /\ observed' = [t \in DOMAIN observed \cup {s} |-> IF t = s THEN new ELSE observed[t]]
      /\ priors' = priors /\ started' = started /\ completed' = completed /\ ~completed
      /\ answers' = answers + 1 /\ answers \in Nat
      /\ last' = [subtopic |-> s, difficulty |-> difficulty, score |-> score,
                  confidence |-> confidence, stake |-> stake]
  BY DEF Graded, AbilityInv, AbilityTypeOK
<1>2. Before(s) \in AbilityState
  BY BeforeIsAbility
<1>3. /\ new \in AbilityState /\ new.n > 0
      /\ MovesTheRightWay(Before(s), difficulty, score, confidence, new)
  BY <1>2, UpdateFacts
<1> HIDE DEF new
<1>4. DOMAIN observed' = DOMAIN observed \cup {s}
  BY <1>1
<1>5. /\ observed'[s] = new
      /\ \A t \in DOMAIN observed : t # s => observed'[t] = observed[t]
  BY <1>1
<1>6. AbilityInv'
  <2>1. observed' \in [DOMAIN observed' -> AbilityState] /\ DOMAIN observed' \subseteq Subtopics
    BY <1>1, <1>3 DEF AbilityInv
  <2>2. priors' \in [DOMAIN priors' -> AbilityState] /\ DOMAIN priors' \subseteq Subtopics
    BY <1>1 DEF AbilityInv
  <2>3. \A t \in DOMAIN observed' : observed'[t].n > 0
    BY <1>3, <1>4, <1>5 DEF AbilityInv
  <2>4. PrecisionIsEarned'
    BY <1>1 DEF PrecisionIsEarned
  <2>5. AbilityTypeOK'
    <3>1. started' \in BOOLEAN /\ completed' \in BOOLEAN /\ answers' \in Nat
      BY <1>1 DEF AbilityInv, AbilityTypeOK
    <3>2. /\ last'.subtopic \in DOMAIN observed' /\ last'.difficulty \in Difficulties
          /\ last'.score \in AnswerScores /\ last'.confidence \in Confidences
          /\ last'.stake \in {Bank, Generated}
      BY <1>1, <1>4
    <3>3. /\ \A t \in DOMAIN observed' : t \in Subtopics /\ observed'[t] \in AbilityState
          /\ \A t \in DOMAIN priors' : t \in Subtopics /\ priors'[t] \in AbilityState
      BY <2>1, <2>2
    <3> QED BY <3>1, <3>2, <3>3 DEF AbilityTypeOK
  <2> QED BY <2>1, <2>2, <2>3, <2>4, <2>5 DEF AbilityInv
<1>7. MovesWithinBounds
  <2>1. /\ last'.subtopic = s /\ last'.difficulty = difficulty /\ last'.score = score
        /\ last'.confidence = confidence
    BY <1>1
  <2> QED BY <1>1, <1>3, <1>5, <2>1 DEF MovesTheRightWay, MovesWithinBounds
<1> QED BY <1>6, <1>7

(* No answer has been graded yet.                                          *)
LEMMA AbilityInitInv == AbilityInit => AbilityInv
<1> SUFFICES ASSUME AbilityInit PROVE AbilityInv
  OBVIOUS
<1>1. /\ observed = <<>> /\ priors = <<>> /\ started = FALSE /\ completed = FALSE
      /\ answers = 0
  BY DEF AbilityInit
<1>2. DOMAIN observed = {} /\ observed \in [DOMAIN observed -> AbilityState]
  BY <1>1
<1>3. DOMAIN priors = {} /\ priors \in [DOMAIN priors -> AbilityState]
  BY <1>1
<1>4. AbilityTypeOK /\ PrecisionIsEarned
  <2>1. 0 \in Nat /\ ~(0 > 0)
    OBVIOUS
  <2>2. started \in BOOLEAN /\ completed \in BOOLEAN /\ answers \in Nat /\ ~(answers > 0)
    BY <1>1, <2>1
  <2>3. /\ \A s \in DOMAIN observed : s \in Subtopics /\ observed[s] \in AbilityState
        /\ \A s \in DOMAIN priors : s \in Subtopics /\ priors[s] \in AbilityState
    BY <1>2, <1>3
  <2>4. PrecisionIsEarned
    BY <1>1 DEF PrecisionIsEarned
  <2> QED BY ONLY <2>2, <2>3, <2>4 DEF AbilityTypeOK
<1> QED BY <1>2, <1>3, <1>4 DEF AbilityInv

(* What is believed of a candidate keeps its shape, and moves as said.     *)
LEMMA AbilityStep ==
  ASSUME AbilityInv, [AbilityNext]_abilityVars PROVE AbilityInv'
<1>1. CASE StartBelief
  <2>1. PICK profile \in [Subtopics -> DOMAIN EvidencePriors] : priors' = ComputePriors(profile)
    BY <1>1 DEF StartBelief
  <2>2. /\ observed' = observed /\ started' = TRUE /\ answers' = answers
        /\ completed' = completed /\ last' = last
    BY <1>1 DEF StartBelief
  <2>3. priors' \in [DOMAIN priors' -> AbilityState] /\ DOMAIN priors' \subseteq Subtopics
    BY <2>1, PriorsAreAbilities
  <2>4. AbilityTypeOK' /\ PrecisionIsEarned'
    BY <2>2, <2>3 DEF AbilityInv, AbilityTypeOK, PrecisionIsEarned
  <2> QED BY <2>2, <2>3, <2>4 DEF AbilityInv
<1>2. CASE \E s \in Subtopics, d \in Difficulties, x \in AnswerScores, c \in Confidences,
             stake \in {Bank, Generated} : Graded(s, d, x, c, stake)
  BY <1>2, GradedKeepsAbility
<1>3. CASE StopOnPrecision
  <2>1. MayStop /\ completed' = TRUE /\ UNCHANGED <<started, priors, observed, answers, last>>
    BY <1>3 DEF StopOnPrecision
  <2>2. PrecisionIsEarned'
    BY <2>1, EarnedPrecision DEF PrecisionIsEarned
  <2>3. AbilityTypeOK'
    BY <2>1 DEF AbilityInv, AbilityTypeOK
  <2> QED BY <2>1, <2>2, <2>3 DEF AbilityInv
<1>4. CASE UNCHANGED abilityVars
  BY <1>4 DEF abilityVars, AbilityInv, AbilityTypeOK, PrecisionIsEarned
<1> QED BY <1>1, <1>2, <1>3, <1>4 DEF AbilityNext

(* What the interview believes of a candidate follows from the answers:    *)
(* each moves one subtopic the way its score points, half a point at the   *)
(* most and a follow-up no further than a bank question; what ended on     *)
(* precision was asked about, and a topic lies among its subtopics         *)
(* (ability.py, stopping.py).                                              *)
THEOREM AbilityEarned == AbilitySpec => AbilityIsEarned
<1>1. AbilityInit => AbilityInv
  BY AbilityInitInv
<1>2. AbilityInv /\ [AbilityNext]_abilityVars => AbilityInv'
  BY AbilityStep
<1>3. AbilityInv /\ [AbilityNext]_abilityVars => [MovesWithinBounds]_abilityVars
  <2> SUFFICES ASSUME AbilityInv, AbilityNext PROVE MovesWithinBounds
    OBVIOUS
  <2>1. CASE StartBelief \/ StopOnPrecision
    <3>1. observed' = observed /\ answers' = answers
      BY <2>1 DEF StartBelief, StopOnPrecision
    <3> QED BY <3>1 DEF MovesWithinBounds
  <2>2. CASE \E s \in Subtopics, d \in Difficulties, x \in AnswerScores, c \in Confidences,
               stake \in {Bank, Generated} : Graded(s, d, x, c, stake)
    BY <2>2, GradedKeepsAbility
  <2> QED BY <2>1, <2>2 DEF AbilityNext
<1>4. AbilityInv => PrecisionIsEarned /\ RollUpIsBetween
  BY RolledUpIsBetween DEF AbilityInv
<1> QED BY <1>1, <1>2, <1>3, <1>4, PTL
        DEF AbilitySpec, AbilityIsEarned, AnswersMoveWithinBounds, MovesWithinBounds

(***************************************************************************)
(* Grading.                                                                *)
(***************************************************************************)
LEMMA TallyIsSum ==
  ASSUME NEW f, NEW S PROVE Tally(f, S) = SumOf(f, S)
  BY DEF Tally, SumOf

LEMMA ConceptsFinite == IsFiniteSet(Concepts)
<1> DEFINE S == 1..Len(BankOrder)
<1>1. Len(BankOrder) \in Nat /\ DOMAIN BankOrder = S
  BY GradingSizes
<1>2. IsFiniteSet(S)
  BY <1>1, FS_Interval
<1>3. BankOrder \in Surjection(S, Concepts)
  BY <1>1, GradingSizes DEF Concepts, Range, Surjection
<1> QED BY <1>2, <1>3, FS_Surjection

(* The element at each place of an order, and how many are on either side. *)
LEMMA EveryPlace ==
  ASSUME NEW R, NEW S, IsFiniteSet(S), OrderOn(R, S), NEW n \in 0..(Cardinality(S) - 1)
  PROVE  \E x \in S : PlaceIn(R, S, x) = n
<1> DEFINE all == 0..(Cardinality(S) - 1)
           at  == [x \in S |-> PlaceIn(R, S, x)]
<1>1. Cardinality(S) \in Nat
  BY FS_CardinalityType
<1>2. /\ \A x \in S : PlaceIn(R, S, x) \in all
      /\ \A x, y \in S : PlaceIn(R, S, x) = PlaceIn(R, S, y) => x = y
  BY Places
<1>3. IsFiniteSet(all) /\ Cardinality(all) = Cardinality(S)
  BY <1>1, FS_Interval
<1>4. at \in Injection(S, all)
  BY <1>2 DEF Injection, IsInjective
<1>5. at \in Surjection(S, all)
  BY <1>3, <1>4, FS_Injection
<1>6. n \in all /\ \A x \in S : at[x] = PlaceIn(R, S, x)
  OBVIOUS
<1> HIDE DEF at, all
<1> QED BY <1>5, <1>6 DEF Surjection

LEMMA SidesOfPlace ==
  ASSUME NEW R, NEW S, IsFiniteSet(S), OrderOn(R, S), NEW x \in S,
         NEW L \in SUBSET S, NEW G \in SUBSET S,
         \A y \in S : <<y, x>> \in R \/ y = x => y \in L,
         \A y \in S : <<x, y>> \in R \/ y = x => y \in G
  PROVE  /\ Cardinality(L) \in Nat /\ Cardinality(L) >= PlaceIn(R, S, x) + 1
         /\ Cardinality(G) \in Nat /\ Cardinality(G) >= Cardinality(S) - PlaceIn(R, S, x)
<1> DEFINE E == Earlier(R, S, x)
           E1 == E \cup {x}
           F == S \ E
<1>1. E \in SUBSET S /\ x \notin E /\ E1 \in SUBSET L /\ F \in SUBSET G
  BY DEF Earlier, OrderOn
<1>2. /\ IsFiniteSet(E) /\ IsFiniteSet(L) /\ IsFiniteSet(G) /\ IsFiniteSet(F)
      /\ Cardinality(S) \in Nat /\ Cardinality(E) \in Nat /\ Cardinality(L) \in Nat
      /\ Cardinality(G) \in Nat
  <2>1. IsFiniteSet(E) /\ IsFiniteSet(L) /\ IsFiniteSet(G) /\ IsFiniteSet(F)
    BY <1>1, FS_Subset
  <2> QED BY <2>1, FS_CardinalityType
<1>3. Cardinality(E1) = Cardinality(E) + 1
  BY <1>1, <1>2, FS_AddElement
<1>4. Cardinality(E1) <= Cardinality(L)
  BY <1>1, <1>2, FS_Subset
<1>5. Cardinality(F) = Cardinality(S) - Cardinality(E)
  <2>1. S \cap E = E
    BY <1>1
  <2> QED BY <1>2, <2>1, FS_Difference
<1>6. Cardinality(F) <= Cardinality(G)
  BY <1>1, <1>2, FS_Subset
<1> QED BY <1>2, <1>3, <1>4, <1>5, <1>6 DEF PlaceIn

(***************************************************************************)
(* The median of the rechecks.                                             *)
(***************************************************************************)
LEMMA DistanceFacts ==
  ASSUME NEW x \in Int, NEW y \in Int
  PROVE  /\ Distance(x, y) \in Nat
         /\ Distance(x, x) = 0
         /\ Distance(x, y) = 0 => x = y
         /\ x - y <= Distance(x, y) /\ y - x <= Distance(x, y)
         /\ x <= y => Distance(x, y) = y - x
         /\ y <= x => Distance(x, y) = x - y
  BY DEF Distance

(* Whatever is nearest to the median is in the middle: half are no higher, *)
(* half no lower.                                                          *)
LEMMA MedianInTheMiddle ==
  ASSUME NEW U \in SUBSET Nat, IsFiniteSet(U), U # {}, NEW scores \in [U -> Nat]
  PROVE  /\ PickMedian(scores) \in U
         /\ 2 * Cardinality({i \in U : scores[i] <= scores[PickMedian(scores)]}) >= Cardinality(U)
         /\ 2 * Cardinality({i \in U : scores[i] >= scores[PickMedian(scores)]}) >= Cardinality(U)
<1> DEFINE R    == {p \in U \X U : Lower(scores, p[1], p[2])}
           size == Cardinality(U)
           low(x)  == {i \in U : scores[i] <= x}
           high(x) == {i \in U : scores[i] >= x}
           pick == PickMedian(scores)
<1>1. size \in Nat \ {0}
  BY FS_CardinalityType, FS_EmptySet
<1>2. \A x, y \in U : <<x, y>> \in R <=>
        (scores[x] < scores[y] \/ (scores[x] = scores[y] /\ x < y))
  BY DEF Lower
<1>3. \A x \in U : scores[x] \in Nat /\ x \in Nat
  OBVIOUS
<1>4. \A x \in U : PlaceOf(scores, x) = PlaceIn(R, U, x) + 1
  <2> SUFFICES ASSUME NEW x \in U PROVE PlaceOf(scores, x) = PlaceIn(R, U, x) + 1
    OBVIOUS
  <2>1. {i \in DOMAIN scores : Lower(scores, i, x)} = Earlier(R, U, x)
    BY DEF Earlier
  <2> QED BY <2>1 DEF PlaceOf, PlaceIn
<1> HIDE DEF R, size
<1>5. OrderOn(R, U)
  BY <1>2, <1>3 DEF OrderOn
<1>6. ASSUME NEW n \in 1..size
      PROVE  \E x \in U : Sorted(scores, n) = scores[x] /\ PlaceIn(R, U, x) = n - 1
  <2>1. n - 1 \in 0..(Cardinality(U) - 1)
    BY <1>1 DEF size
  <2>2. PICK y \in U : PlaceIn(R, U, y) = n - 1
    BY <1>5, <2>1, EveryPlace
  <2>3. y \in DOMAIN scores /\ PlaceOf(scores, y) = n
    BY <1>4, <2>2
  <2> DEFINE x == CHOOSE k \in DOMAIN scores : PlaceOf(scores, k) = n
  <2>4. x \in DOMAIN scores /\ PlaceOf(scores, x) = n
    BY <2>3
  <2>5. Sorted(scores, n) = scores[x]
    BY DEF Sorted
  <2> HIDE DEF x
  <2>6. x \in U /\ PlaceIn(R, U, x) \in Nat
    <3>1. PlaceIn(R, U, x) \in 0..(Cardinality(U) - 1)
      BY <1>5, <2>4, Places
    <3> QED BY <2>4, <3>1
  <2> QED BY <1>4, <2>4, <2>5, <2>6
<1>7. ASSUME NEW x \in U
      PROVE  /\ Cardinality(low(scores[x])) \in Nat
             /\ Cardinality(low(scores[x])) >= PlaceIn(R, U, x) + 1
             /\ Cardinality(high(scores[x])) \in Nat
             /\ Cardinality(high(scores[x])) >= size - PlaceIn(R, U, x)
  <2> DEFINE L == low(scores[x])
             G == high(scores[x])
  <2>1. \A y \in U : <<y, x>> \in R \/ y = x => y \in L
    BY <1>2, <1>3
  <2>2. \A y \in U : <<x, y>> \in R \/ y = x => y \in G
    BY <1>2, <1>3
  <2>3. L \in SUBSET U /\ G \in SUBSET U
    OBVIOUS
  <2> HIDE DEF L, G
  <2>4. /\ Cardinality(L) \in Nat /\ Cardinality(L) >= PlaceIn(R, U, x) + 1
        /\ Cardinality(G) \in Nat /\ Cardinality(G) >= Cardinality(U) - PlaceIn(R, U, x)
    BY ONLY IsFiniteSet(U), x \in U, <1>5, <2>1, <2>2, <2>3, SidesOfPlace
  <2> QED BY <2>4 DEF L, G, size
<1> HIDE DEF low, high
<1>8. ASSUME NEW x \in U, NEW y \in U, PlaceIn(R, U, x) < PlaceIn(R, U, y)
      PROVE  scores[x] <= scores[y]
  <2>1. <<y, x>> \notin R
    <3>1. PlaceIn(R, U, x) \in 0..(Cardinality(U) - 1) /\ PlaceIn(R, U, y) \in 0..(Cardinality(U) - 1)
      BY <1>5, Places
    <3>2. <<y, x>> \in R => PlaceIn(R, U, y) < PlaceIn(R, U, x)
      BY <1>5, Places
    <3> QED BY <1>8, <3>1, <3>2
  <2> QED BY <1>2, <1>3, <2>1
<1> DEFINE twice == TwiceMedian(scores)
<1>9. \E x, y \in U : /\ twice = scores[x] + scores[y] /\ scores[x] <= scores[y]
                      /\ 2 * Cardinality(low(scores[x])) >= size
                      /\ 2 * Cardinality(high(scores[y])) >= size
  <2> DEFINE half == size \div 2
  <2>1. DOMAIN scores = U
    OBVIOUS
  <2>2. CASE size % 2 = 1
    <3>1. half \in Nat /\ size = 2 * half + 1 /\ (size + 1) \div 2 = half + 1
      BY <1>1, <2>2
    <3>2. twice = 2 * Sorted(scores, half + 1)
      BY <2>1, <2>2, <3>1 DEF TwiceMedian, size
    <3> DEFINE place == half + 1
    <3> HIDE DEF half, twice
    <3>3. place \in 1..size /\ place - 1 = half
      BY <1>1, <3>1
    <3> HIDE DEF place
    <3>4. PICK x \in U : Sorted(scores, place) = scores[x] /\ PlaceIn(R, U, x) = place - 1
      BY <1>6, <3>3
    <3>5. /\ Cardinality(low(scores[x])) \in Nat /\ Cardinality(high(scores[x])) \in Nat
          /\ Cardinality(low(scores[x])) >= half + 1
          /\ Cardinality(high(scores[x])) >= size - half
      BY <1>7, <3>1, <3>3, <3>4
    <3>6. 2 * Cardinality(low(scores[x])) >= size /\ 2 * Cardinality(high(scores[x])) >= size
      BY <1>1, <3>1, <3>5
    <3> QED BY <1>3, <3>2, <3>4, <3>6 DEF place
  <2>3. CASE size % 2 # 1
    <3>1. half \in Nat \ {0} /\ size = 2 * half
      BY <1>1, <2>3
    <3>2. twice = Sorted(scores, half) + Sorted(scores, half + 1)
      BY <2>1, <2>3 DEF TwiceMedian, size
    <3> HIDE DEF half, twice
    <3>3. half \in 1..size /\ half + 1 \in 1..size
      BY <1>1, <3>1
    <3>4. PICK x \in U : Sorted(scores, half) = scores[x] /\ PlaceIn(R, U, x) = half - 1
      BY <1>6, <3>3
    <3>5. PICK y \in U : Sorted(scores, half + 1) = scores[y] /\ PlaceIn(R, U, y) = half + 1 - 1
      BY <1>6, <3>3
    <3>6. PlaceIn(R, U, x) < PlaceIn(R, U, y)
      BY <3>1, <3>4, <3>5
    <3>7. scores[x] <= scores[y]
      BY <1>8, <3>6
    <3>8. /\ Cardinality(low(scores[x])) \in Nat /\ Cardinality(high(scores[y])) \in Nat
          /\ Cardinality(low(scores[x])) >= half
          /\ Cardinality(high(scores[y])) >= size - half
      BY <1>7, <3>1, <3>4, <3>5
    <3>9. 2 * Cardinality(low(scores[x])) >= size /\ 2 * Cardinality(high(scores[y])) >= size
      BY <1>1, <3>1, <3>8
    <3> QED BY <3>2, <3>4, <3>5, <3>7, <3>9
  <2> QED BY <2>2, <2>3
<1> HIDE DEF twice
<1>10. PICK x \in U, y \in U :
         /\ twice = scores[x] + scores[y] /\ scores[x] <= scores[y]
         /\ 2 * Cardinality(low(scores[x])) >= size
         /\ 2 * Cardinality(high(scores[y])) >= size
  BY <1>9
<1> DEFINE away(i) == Distance(2 * scores[i], twice)
           N       == {i \in U : \A k \in U : away(i) <= away(k)}
<1>11. pick = Min(N)
  BY DEF PickMedian, twice
<1>12. twice \in Int /\ \A i \in U : 2 * scores[i] \in Int /\ away(i) \in Nat
  <2>1. twice \in Int /\ \A i \in U : 2 * scores[i] \in Int
    BY <1>3, <1>10
  <2> QED BY <2>1, DistanceFacts
<1> HIDE DEF away
<1>13. N # {}
  <2> DEFINE A == {away(i) : i \in U}
  <2>1. A \in SUBSET Nat /\ A # {}
    BY <1>12
  <2>2. PICK a \in A : \A b \in A : a <= b
    BY <2>1, LeastNatural
  <2>3. PICK i \in U : away(i) = a
    BY <2>2
  <2>4. \A k \in U : away(k) \in A
    OBVIOUS
  <2>5. \A k \in U : away(i) <= away(k)
    BY <2>2, <2>3, <2>4
  <2> QED BY <2>5
<1>14. pick \in U /\ \A k \in U : away(pick) <= away(k)
  <2>1. N \in SUBSET Nat
    OBVIOUS
  <2>2. \E i \in N : \A k \in N : i <= k
    BY <1>13, <2>1, LeastNatural
  <2>3. Min(N) \in N
    BY <2>2 DEF Min
  <2> QED BY <1>11, <2>3
<1> HIDE DEF N, pick
<1>15. scores[x] <= scores[pick] /\ scores[pick] <= scores[y]
  <2> DEFINE a == scores[x]
             b == scores[y]
             c == scores[pick]
  <2>1. a \in Nat /\ b \in Nat /\ c \in Nat /\ a <= b /\ twice = a + b
    BY <1>3, <1>10, <1>14
  <2>2. /\ away(pick) = Distance(2 * c, twice) /\ away(x) = Distance(2 * a, twice)
        /\ away(pick) <= away(x)
    BY <1>14 DEF away
  <2> HIDE DEF a, b, c
  <2>3. /\ 2 * c - twice <= away(pick) /\ twice - 2 * c <= away(pick)
        /\ away(pick) \in Nat
    BY <2>1, <2>2, DistanceFacts
  <2>4. away(x) = twice - 2 * a
    BY <2>1, <2>2, DistanceFacts
  <2>5. a <= c /\ c <= b
    BY <2>1, <2>2, <2>3, <2>4
  <2> QED BY <2>5 DEF a, b, c
<1>16. \A X, Y \in SUBSET U : X \subseteq Y =>
         /\ Cardinality(X) \in Nat /\ Cardinality(Y) \in Nat /\ Cardinality(X) <= Cardinality(Y)
  BY FS_Subset, FS_CardinalityType
<1>17. /\ low(scores[x]) \subseteq low(scores[pick]) /\ high(scores[y]) \subseteq high(scores[pick])
       /\ low(scores[pick]) \in SUBSET U /\ high(scores[pick]) \in SUBSET U
       /\ low(scores[x]) \in SUBSET U /\ high(scores[y]) \in SUBSET U
  <2>1. \A z : low(z) \in SUBSET U /\ high(z) \in SUBSET U
    BY DEF low, high
  <2>2. \A i \in low(scores[x]) : i \in low(scores[pick])
    <3>1. scores[x] \in Nat /\ scores[pick] \in Nat
      BY <1>3, <1>14
    <3>2. \A i \in U : scores[i] <= scores[x] => scores[i] <= scores[pick]
      BY <1>3, <1>15, <3>1
    <3> QED BY <3>2 DEF low
  <2>3. \A i \in high(scores[y]) : i \in high(scores[pick])
    <3>1. scores[y] \in Nat /\ scores[pick] \in Nat
      BY <1>3, <1>14
    <3>2. \A i \in U : scores[i] >= scores[y] => scores[i] >= scores[pick]
      BY <1>3, <1>15, <3>1
    <3> QED BY <3>2 DEF high
  <2> QED BY <2>1, <2>2, <2>3
<1>18. /\ 2 * Cardinality(low(scores[pick])) >= size
       /\ 2 * Cardinality(high(scores[pick])) >= size
  <2>1. /\ Cardinality(low(scores[x])) \in Nat /\ Cardinality(low(scores[pick])) \in Nat
        /\ Cardinality(low(scores[x])) <= Cardinality(low(scores[pick]))
        /\ Cardinality(high(scores[y])) \in Nat /\ Cardinality(high(scores[pick])) \in Nat
        /\ Cardinality(high(scores[y])) <= Cardinality(high(scores[pick]))
    BY <1>16, <1>17
  <2> QED BY <1>1, <1>10, <2>1
<1> QED BY <1>14, <1>18 DEF pick, size, low, high

(***************************************************************************)
(* What a verified judgment is worth.                                      *)
(***************************************************************************)
LEMMA VerifiedFacts ==
  ASSUME NEW j \in Judgments, FitsQuestion(j), NEW v, v = Verified(j)
  PROVE  /\ j.concepts \in [Concepts -> Verdict] /\ j.errors \in Seq(Mistake) /\ j.rubric \in 0..16
         /\ v.concepts = [k \in Concepts |-> IF IsCredited(j.concepts[k].evidence)
                                             THEN j.concepts[k] ELSE Absent]
         /\ v.concepts \in [Concepts -> Verdict] /\ v.rubric = j.rubric
         /\ v.errors = [i \in {e \in DOMAIN j.errors : IsCredited(j.errors[e].evidence)} |-> j.errors[i]]
<1>1. /\ DOMAIN j = {"concepts", "errors", "rubric", "confidence", "misconceptions"}
      /\ j.concepts \in [DOMAIN j.concepts -> Verdict] /\ j.errors \in Seq(Mistake) /\ j.rubric \in 0..16
      /\ DOMAIN j.concepts = Concepts
  BY JudgmentShapes DEF FitsQuestion
<1>2. /\ v.concepts = [k \in DOMAIN j.concepts |-> IF IsCredited(j.concepts[k].evidence)
                                                   THEN j.concepts[k] ELSE Absent]
      /\ v.errors = Restrict(j.errors, {i \in DOMAIN j.errors : IsCredited(j.errors[i].evidence)})
      /\ v.rubric = j.rubric
  BY <1>1 DEF Verified
<1>3. Absent \in Verdict
  BY DEF Absent, Verdict, Evidence
<1> QED BY <1>1, <1>2, <1>3 DEF Restrict

LEMMA FullIsNatural == W \in Nat /\ Full \in Nat
<1>1. W \in Nat
  <2>1. Weight \in [Concepts -> Nat]
    BY GradingSizes
  <2> QED BY <2>1, ConceptsFinite, SumTakesAny, TallyIsSum DEF W
<1> QED BY <1>1 DEF Full

LEMMA ClampFacts ==
  ASSUME NEW x \in Int
  PROVE  Clamp(x) \in 0..Full
<1> DEFINE y == Min({Full, x})
<1>1. Full \in Nat
  BY FullIsNatural
<1>2. y \in Int /\ y <= Full
  BY <1>1, MinOfTwo
<1> HIDE DEF y
<1>3. Max({0, y}) = IF 0 >= y THEN 0 ELSE y
  BY <1>2, MaxOfTwo
<1>4. Clamp(x) = Max({0, y})
  BY DEF Clamp, y
<1> QED BY <1>1, <1>2, <1>3, <1>4

(* What the errors cost, counted or added up.                              *)
LEMMA CostsAreCounted ==
  ASSUME NEW D, IsFiniteSet(D), NEW major \in SUBSET D, NEW minor \in SUBSET D,
         major \cap minor = {}, NEW costs \in [D -> Nat],
         \A x \in major : costs[x] = 15, \A x \in minor : costs[x] = 5,
         \A x \in D \ (major \cup minor) : costs[x] = 0
  PROVE  /\ SumOf(costs, D) = 15 * Cardinality(major) + 5 * Cardinality(minor)
         /\ Cardinality(major) \in Nat /\ Cardinality(minor) \in Nat
<1>1. \A c \in Nat, T \in SUBSET D, h \in [D -> Nat] :
        (\A x \in D : h[x] = IF x \in T THEN c ELSE 0) => SumOf(h, D) = c * Cardinality(T)
  <2> SUFFICES ASSUME NEW c \in Nat, NEW T \in SUBSET D, NEW h \in [D -> Nat],
                      \A x \in D : h[x] = IF x \in T THEN c ELSE 0
               PROVE  SumOf(h, D) = c * Cardinality(T)
    OBVIOUS
  <2> DEFINE each == [x \in T |-> c]
             ones == [x \in T |-> 1]
  <2>1. IsFiniteSet(T)
    BY FS_Subset
  <2>2. /\ each \in [T -> Nat] /\ ones \in [T -> Nat] /\ \A x \in T : ones[x] = 1
        /\ \A x \in T : each[x] = c * ones[x]
        /\ \A x \in D : h[x] = IF x \in T THEN each[x] ELSE 0
    OBVIOUS
  <2> HIDE DEF each, ones
  <2>3. SumOf(each, T) = c * SumOf(ones, T)
    BY ONLY <2>1, <2>2, c \in Nat, SumScale
  <2>4. SumOf(ones, T) = Cardinality(T)
    BY ONLY <2>1, <2>2, SumCounts
  <2>5. SumOf(h, D) = SumOf(each, T)
    BY ONLY <2>2, IsFiniteSet(D), T \in SUBSET D, h \in [D -> Nat], SumOutside
  <2> QED BY <2>3, <2>4, <2>5
<1> DEFINE a == [x \in D |-> IF x \in major THEN 15 ELSE 0]
           b == [x \in D |-> IF x \in minor THEN 5 ELSE 0]
<1>2. /\ a \in [D -> Nat] /\ b \in [D -> Nat] /\ \A x \in D : costs[x] = a[x] + b[x]
      /\ \A x \in D : a[x] = IF x \in major THEN 15 ELSE 0
      /\ \A x \in D : b[x] = IF x \in minor THEN 5 ELSE 0
  OBVIOUS
<1> HIDE DEF a, b
<1>3. SumOf(costs, D) = SumOf(a, D) + SumOf(b, D)
  BY ONLY <1>2, IsFiniteSet(D), costs \in [D -> Nat], SumPlus
<1>4. SumOf(a, D) = 15 * Cardinality(major) /\ SumOf(b, D) = 5 * Cardinality(minor)
  <2>1. 15 \in Nat /\ 5 \in Nat
    OBVIOUS
  <2> QED BY <1>1, <1>2, <2>1
<1>5. Cardinality(major) \in Nat /\ Cardinality(minor) \in Nat
  BY FS_Subset, FS_CardinalityType
<1> QED BY <1>3, <1>4, <1>5

(* An invented quotation never earns.                                      *)
LEMMA EarnedIsQuoted ==
  ASSUME NEW j \in Judgments, FitsQuestion(j), WellFormed(j),
         NEW quoted, quoted = {k \in Concepts : j.concepts[k].evidence \in {"exact", "whitespace_normalised"}}
  PROVE  /\ Earned(Verified(j)) = Tally(Worths(j.concepts), quoted)
         /\ Earned(Verified(j)) \in Nat
<1> DEFINE v == Verified(j)
           f == Worths(v.concepts)
           g == Worths(j.concepts)
           q == [k \in quoted |-> g[k]]
<1>1. /\ j.concepts \in [Concepts -> Verdict] /\ v.concepts \in [Concepts -> Verdict]
      /\ v.concepts = [k \in Concepts |-> IF IsCredited(j.concepts[k].evidence)
                                          THEN j.concepts[k] ELSE Absent]
  BY VerifiedFacts
<1> HIDE DEF v
<1>2. \A c \in [Concepts -> Verdict] :
        /\ Worths(c) \in [Concepts -> Nat]
        /\ \A k \in Concepts : Worths(c)[k] = Weight[k] * Cover[c[k].label]
  <2> SUFFICES ASSUME NEW c \in [Concepts -> Verdict]
               PROVE  /\ Worths(c) \in [Concepts -> Nat]
                      /\ \A k \in Concepts : Worths(c)[k] = Weight[k] * Cover[c[k].label]
    OBVIOUS
  <2>1. \A k \in Concepts : Cover[c[k].label] \in Nat /\ Weight[k] \in Nat
    BY GradingSizes DEF Verdict, Cover
  <2>2. \A k \in Concepts : Weight[k] * Cover[c[k].label] \in Nat
    BY <2>1, Products
  <2> QED BY <2>2 DEF Worths
<1>3. ASSUME NEW k \in Concepts PROVE f[k] = IF k \in quoted THEN q[k] ELSE 0
  <2>1. /\ f[k] = Weight[k] * Cover[v.concepts[k].label]
        /\ g[k] = Weight[k] * Cover[j.concepts[k].label]
        /\ j.concepts[k] \in Verdict
    BY <1>1, <1>2
  <2>2. CASE k \in quoted
    <3>1. v.concepts[k] = j.concepts[k]
      BY <1>1, <2>2 DEF IsCredited
    <3> QED BY <2>1, <2>2, <3>1
  <2>3. CASE k \notin quoted
    <3>1. j.concepts[k].evidence \in {"fabricated", "none"}
      BY <2>1, <2>3 DEF Verdict, Evidence
    <3>2. v.concepts[k].label = "absent"
      BY <1>1, <3>1 DEF IsCredited, Absent, WellFormed
    <3>3. Cover["absent"] = 0
      BY DEF Cover
    <3>4. Weight[k] \in Nat
      BY GradingSizes
    <3> QED BY <2>1, <2>3, <3>2, <3>3, <3>4
  <2> QED BY <2>2, <2>3
<1>4. /\ f \in [Concepts -> Nat] /\ g \in [Concepts -> Nat] /\ q \in [quoted -> Nat]
      /\ quoted \in SUBSET Concepts /\ \A k \in quoted : q[k] = g[k]
  BY <1>1, <1>2
<1> HIDE DEF f, g, q
<1>5. SumOf(f, Concepts) = SumOf(q, quoted)
  BY ONLY <1>3, <1>4, ConceptsFinite, SumOutside
<1>6. SumOf(q, quoted) = SumOf(g, quoted)
  <2>1. IsFiniteSet(quoted) /\ quoted \in SUBSET quoted /\ quoted \subseteq Concepts
    BY <1>4, ConceptsFinite, FS_Subset
  <2> QED BY ONLY <1>4, <2>1, SumSame
<1>7. SumOf(f, Concepts) \in Nat
  BY <1>4, ConceptsFinite, SumTakesAny
<1> QED BY <1>5, <1>6, <1>7, TallyIsSum DEF Earned, f, g, v

(* An invented error never costs.                                          *)
LEMMA PenaltyIsCounted ==
  ASSUME NEW j \in Judgments, FitsQuestion(j),
         NEW costs, costs = [i \in DOMAIN j.errors |->
                               IF j.errors[i].evidence = "fabricated" THEN 0
                               ELSE IF j.errors[i].severity = "major" THEN 15 ELSE 5],
         NEW cost, cost = Tally(costs, DOMAIN j.errors)
  PROVE  Penalty(Verified(j)) = IF cost > 30 THEN 30 ELSE cost
<1> DEFINE v == Verified(j)
           D == DOMAIN j.errors
           real == {i \in D : IsCredited(j.errors[i].evidence)}
           major == {i \in real : j.errors[i].severity = "major"}
           minor == {i \in real : j.errors[i].severity = "minor"}
<1>1. v.errors = [i \in real |-> j.errors[i]] /\ j.errors \in Seq(Mistake)
  BY VerifiedFacts
<1> HIDE DEF v
<1>2. IsFiniteSet(D)
  <2>1. D = 1..Len(j.errors) /\ Len(j.errors) \in Nat
    BY <1>1
  <2> QED BY <2>1, FS_Interval
<1>3. \A i \in D : j.errors[i] \in Mistake
  BY <1>1
<1>4. /\ costs \in [D -> Nat] /\ major \in SUBSET D /\ minor \in SUBSET D /\ major \cap minor = {}
      /\ \A i \in D : costs[i] = IF i \in major THEN 15 ELSE IF i \in minor THEN 5 ELSE 0
  <2>1. \A i \in D : costs[i] = IF i \in major THEN 15 ELSE IF i \in minor THEN 5 ELSE 0
    BY <1>3 DEF Mistake, IsCredited
  <2> QED BY <2>1
<1>5. /\ {i \in DOMAIN v.errors : v.errors[i].severity = "major"} = major
      /\ {i \in DOMAIN v.errors : v.errors[i].severity = "minor"} = minor
  BY <1>1
<1> HIDE DEF D, real, major, minor
<1>6. /\ SumOf(costs, D) = 15 * Cardinality(major) + 5 * Cardinality(minor)
      /\ Cardinality(major) \in Nat /\ Cardinality(minor) \in Nat
  <2>1. /\ IsFiniteSet(D) /\ major \in SUBSET D /\ minor \in SUBSET D /\ major \cap minor = {}
        /\ costs \in [D -> Nat]
        /\ \A x \in major : costs[x] = 15
        /\ \A x \in minor : costs[x] = 5
        /\ \A x \in D \ (major \cup minor) : costs[x] = 0
    BY <1>2, <1>4
  <2> QED BY ONLY <2>1, CostsAreCounted
<1>7. cost = 15 * Cardinality(major) + 5 * Cardinality(minor)
  BY <1>6, TallyIsSum DEF D
<1>8. Penalty(v) = Min({30, cost})
  BY <1>5, <1>7 DEF Penalty
<1>9. cost \in Int /\ 30 \in Int
  BY <1>6, <1>7
<1> QED BY <1>8, <1>9, MinOfTwo DEF v

(* What the code scores is what the judgment is worth as it was given.     *)
LEMMA ScoreIsWorth ==
  ASSUME NEW j \in Judgments, FitsQuestion(j), WellFormed(j)
  PROVE  Score(Verified(j)) = Worth(j) /\ Score(Verified(j)) \in 0..Full
<1> DEFINE v == Verified(j)
           quoted == {k \in Concepts : j.concepts[k].evidence \in {"exact", "whitespace_normalised"}}
           costs == [i \in DOMAIN j.errors |-> IF j.errors[i].evidence = "fabricated" THEN 0
                                               ELSE IF j.errors[i].severity = "major" THEN 15 ELSE 5]
           cost == Tally(costs, DOMAIN j.errors)
           lost == IF cost > 30 THEN 30 ELSE cost
<1>1. Earned(v) = Tally(Worths(j.concepts), quoted) /\ Earned(v) \in Nat
  BY EarnedIsQuoted
<1>2. Penalty(v) = lost
  BY PenaltyIsCounted
<1>3. v.rubric = j.rubric /\ j.rubric \in 0..16
  BY VerifiedFacts
<1>4. Worth(j) = Clamp(  65 * 16 * Tally(Worths(j.concepts), quoted)
                       + 35 * 2 * W * j.rubric - 2 * W * 16 * lost)
  BY DEF Worth
<1> HIDE DEF v, quoted, cost, lost
<1>5. Raw(v) = 65 * 16 * Tally(Worths(j.concepts), quoted) + 35 * 2 * W * j.rubric - 2 * W * 16 * lost
  BY <1>1, <1>2, <1>3 DEF Raw
<1>6. Score(v) = Worth(j)
  BY <1>4, <1>5 DEF Score
<1>7. Raw(v) \in Int
  <2>1. Penalty(v) \in Int
    <3>1. Penalty(v) = Min({30, 15 * Cardinality({i \in DOMAIN v.errors : v.errors[i].severity = "major"})
                                + 5 * Cardinality({i \in DOMAIN v.errors : v.errors[i].severity = "minor"})})
      BY DEF Penalty
    <3>2. IsFiniteSet(DOMAIN v.errors)
      <4>1. /\ v.errors = [i \in {e \in DOMAIN j.errors : IsCredited(j.errors[e].evidence)} |-> j.errors[i]]
            /\ j.errors \in Seq(Mistake)
        BY VerifiedFacts DEF v
      <4>2. DOMAIN j.errors = 1..Len(j.errors) /\ Len(j.errors) \in Nat
        BY <4>1
      <4>3. IsFiniteSet(DOMAIN j.errors)
        <5> DEFINE size == Len(j.errors)
        <5>1. size \in Int /\ 1 \in Int /\ DOMAIN j.errors = 1..size
          BY <4>2
        <5> HIDE DEF size
        <5> QED BY <5>1, FS_Interval
      <4>4. DOMAIN v.errors \subseteq DOMAIN j.errors
        BY <4>1
      <4> QED BY <4>3, <4>4, FS_Subset
    <3>3. /\ Cardinality({i \in DOMAIN v.errors : v.errors[i].severity = "major"}) \in Nat
          /\ Cardinality({i \in DOMAIN v.errors : v.errors[i].severity = "minor"}) \in Nat
      BY <3>2, FS_Subset, FS_CardinalityType
    <3>4. \A a, b \in Nat : 30 \in Int /\ 15 * a + 5 * b \in Int
      OBVIOUS
    <3>5. \A a, b \in Nat : Min({30, 15 * a + 5 * b}) \in Int
      BY <3>4, MinOfTwo
    <3> QED BY <3>1, <3>3, <3>5
  <2>2. W \in Int
    BY FullIsNatural
  <2>3. 35 * 2 * W \in Int /\ v.rubric \in Int /\ 2 * W * 16 \in Int
    BY <1>3, <2>2
  <2>4. 35 * 2 * W * v.rubric \in Int /\ 2 * W * 16 * Penalty(v) \in Int
    BY <2>1, <2>3, Products
  <2>5. 65 * 16 * Earned(v) \in Int
    BY <1>1
  <2> QED BY <2>4, <2>5 DEF Raw
<1> QED BY <1>6, <1>7, ClampFacts DEF Score, v

(***************************************************************************)
(* The steps of grading.                                                   *)
(***************************************************************************)
Outcomes == {Pending, Lost, Broken} \cup {Landed(j) : j \in {k \in Judgments : WellFormed(k)}}

LEMMA OutcomeFacts ==
  /\ \A o \in Outcomes : o.kind = "judgment" =>
       /\ o.judgment \in Judgments /\ WellFormed(o.judgment) /\ o = Landed(o.judgment)
  /\ \A j \in Judgments : WellFormed(j) => Landed(j) \in Outcomes
  /\ Pending \in Outcomes /\ Lost \in Outcomes /\ Broken \in Outcomes
<1>1. ASSUME NEW o \in Outcomes, o.kind = "judgment"
      PROVE  o.judgment \in Judgments /\ WellFormed(o.judgment) /\ o = Landed(o.judgment)
  <2>1. o \notin {Pending, Lost, Broken}
    BY <1>1 DEF Pending, Lost, Broken
  <2>2. PICK j \in {k \in Judgments : WellFormed(k)} : o = Landed(j)
    BY <2>1 DEF Outcomes
  <2>3. o.judgment = j
    BY <2>2 DEF Landed
  <2> QED BY <2>2, <2>3
<1> QED BY <1>1 DEF Outcomes

(* The grade of one judgment.                                              *)
LEMMA GradeFacts ==
  ASSUME NEW j \in Fitting, NEW again \in BOOLEAN
  PROVE  LET g == GradeOf(j, again)
         IN  /\ g.judgment = Verified(j) /\ g.score = Worth(j) /\ g.score \in 0..Full
             /\ g.rechecked = again
  BY ScoreIsWorth DEF Fitting, GradeOf

(* The rechecks decide: their median is the grade.                         *)
LEMMA RegradeIsMedian ==
  ASSUME \A i \in 1..Samples : rechecks[i] \in Outcomes, Usable # {},
         NEW scores, scores = [i \in Usable |-> Score(Verified(rechecks[i].judgment))],
         NEW g, g = GradeOf(rechecks[PickMedian(scores)].judgment, TRUE)
  PROVE  /\ g.score \in 0..Full /\ g.rechecked = TRUE
         /\ \E j \in Fitting : g.judgment = Verified(j)
         /\ \E i \in Usable : /\ g.score = Worth(rechecks[i].judgment)
                              /\ g.judgment = Verified(rechecks[i].judgment)
         /\ 2 * Cardinality({i \in Usable : Worth(rechecks[i].judgment) <= g.score}) >= Cardinality(Usable)
         /\ 2 * Cardinality({i \in Usable : Worth(rechecks[i].judgment) >= g.score}) >= Cardinality(Usable)
<1> DEFINE U == Usable
           pick == PickMedian(scores)
<1>1. U \in SUBSET (1..Samples) /\ Samples \in Nat
  BY GradingSizes DEF Usable
<1>2. IsFiniteSet(U) /\ U \in SUBSET Nat
  <2>1. IsFiniteSet(1..Samples)
    BY <1>1, FS_Interval
  <2>2. \A i \in 1..Samples : i \in Nat
    BY <1>1
  <2> HIDE DEF U
  <2>3. IsFiniteSet(U)
    BY <1>1, <2>1, FS_Subset
  <2> QED BY <1>1, <2>2, <2>3
<1>3. \A i \in U : rechecks[i].judgment \in Fitting
  BY <1>1, OutcomeFacts DEF Usable, Fitting
<1>4. \A i \in U : /\ Score(Verified(rechecks[i].judgment)) = Worth(rechecks[i].judgment)
                   /\ Score(Verified(rechecks[i].judgment)) \in 0..Full
  BY <1>3, ScoreIsWorth DEF Fitting
<1>5. /\ scores \in [U -> Nat]
      /\ \A i \in U : scores[i] = Worth(rechecks[i].judgment)
  BY <1>4, FullIsNatural
<1>6. /\ pick \in U
      /\ 2 * Cardinality({i \in U : scores[i] <= scores[pick]}) >= Cardinality(U)
      /\ 2 * Cardinality({i \in U : scores[i] >= scores[pick]}) >= Cardinality(U)
  <2> HIDE DEF U
  <2> QED BY <1>2, <1>5, MedianInTheMiddle DEF U
<1> HIDE DEF pick
<1>7. rechecks[pick].judgment \in Fitting /\ scores[pick] = Worth(rechecks[pick].judgment)
  BY <1>3, <1>5, <1>6
<1>8. /\ g.judgment = Verified(rechecks[pick].judgment) /\ g.score = scores[pick]
      /\ g.score \in 0..Full /\ g.rechecked = TRUE
  BY <1>7, GradeFacts DEF pick
<1>9. /\ {i \in U : scores[i] <= scores[pick]} = {i \in U : Worth(rechecks[i].judgment) <= g.score}
      /\ {i \in U : scores[i] >= scores[pick]} = {i \in U : Worth(rechecks[i].judgment) >= g.score}
  <2>1. \A i \in U : scores[i] <= scores[pick] <=> Worth(rechecks[i].judgment) <= g.score
    BY <1>5, <1>8
  <2>2. \A i \in U : scores[i] >= scores[pick] <=> Worth(rechecks[i].judgment) >= g.score
    BY <1>5, <1>8
  <2> QED BY <2>1, <2>2
<1> QED BY <1>6, <1>7, <1>8, <1>9

(* The first of a set of concepts in the bank's order, and the heaviest.   *)
LEMMA FirstListedIsOne ==
  ASSUME NEW keys \in SUBSET Concepts, keys # {}
  PROVE  FirstListed(keys) \in keys
<1> DEFINE P == {i \in DOMAIN BankOrder : BankOrder[i] \in keys}
<1>1. DOMAIN BankOrder = 1..Len(BankOrder) /\ Len(BankOrder) \in Nat
  BY GradingSizes
<1>2. P \in SUBSET (1..Len(BankOrder)) /\ P # {}
  BY <1>1 DEF Concepts, Range
<1>3. Min(P) \in P
  <2> HIDE DEF P
  <2>1. 1 \in Int /\ Len(BankOrder) \in Int
    BY <1>1
  <2> QED BY <1>2, <2>1, Extremes
<1> QED BY <1>3 DEF FirstListed

LEMMA HeaviestIsHeaviest ==
  ASSUME NEW keys \in SUBSET Concepts, keys # {}
  PROVE  Heaviest(keys) \in keys /\ \A m \in keys : Weight[m] <= Weight[Heaviest(keys)]
<1> DEFINE T == {k \in keys : \A m \in keys : Weight[m] <= Weight[k]}
           V == {Weight[k] : k \in keys}
<1>1. \A k \in keys : Weight[k] \in 1..3
  BY GradingSizes
<1>2. V \in SUBSET (1..3) /\ V # {} /\ \A k \in keys : Weight[k] \in V
  BY <1>1
<1> HIDE DEF V
<1>3. Max(V) \in V /\ \A x \in V : x <= Max(V)
  <2>1. 1 \in Int /\ 3 \in Int
    OBVIOUS
  <2> QED BY <1>2, <2>1, Extremes
<1>4. PICK k \in keys : Weight[k] = Max(V)
  BY <1>3 DEF V
<1>5. T \in SUBSET Concepts /\ T # {}
  BY <1>2, <1>3, <1>4
<1>6. Heaviest(keys) \in T
  <2>1. Heaviest(keys) = FirstListed(T)
    BY DEF Heaviest
  <2> HIDE DEF T
  <2> QED BY <1>5, <2>1, FirstListedIsOne
<1> QED BY <1>6

(* A follow-up asks about what is missing.                                 *)
LEMMA TargetIsMissing ==
  ASSUME NEW j \in Fitting, grade.judgment = Verified(j),
         NEW target, target = IF AbsentTops # {} THEN FirstListed(AbsentTops) ELSE WeakestConcept,
         NEW judged, judged = grade.judgment.concepts
  PROVE  IF target = "none" THEN \A k \in Concepts : judged[k].label = "covered"
         ELSE /\ judged[target].label # "covered"
              /\ \A k \in Concepts : judged[k].label = "absent" =>
                   Weight[target] >= Weight[k] /\ judged[target].label = "absent"
<1>1. judged \in [Concepts -> Verdict]
  BY VerifiedFacts DEF Fitting
<1>2. \A k \in Concepts : judged[k].label \in {"covered", "partial", "absent"} /\ Weight[k] \in 1..3
  BY <1>1, GradingSizes DEF Verdict
<1>3. /\ \A label : Labelled(label) = {k \in Concepts : judged[k].label = label}
      /\ AbsentTops = {k \in Labelled("absent") : Weight[k] = 3}
  BY DEF Labelled, AbsentTops
<1>4. "none" \notin Concepts
  BY GradingSizes
<1>5. CASE AbsentTops # {}
  <2>1. AbsentTops \in SUBSET Concepts
    BY <1>3
  <2>2. target \in AbsentTops
    BY <1>5, <2>1, FirstListedIsOne
  <2>3. target \in Concepts /\ judged[target].label = "absent" /\ Weight[target] = 3
    BY <1>3, <2>2
  <2>4. \A k \in Concepts : Weight[target] >= Weight[k]
    BY <1>2, <2>3
  <2> QED BY <1>4, <2>3, <2>4
<1>6. CASE AbsentTops = {} /\ Labelled("absent") # {}
  <2> DEFINE keys == Labelled("absent")
  <2>1. keys \in SUBSET Concepts /\ keys # {}
    BY <1>3, <1>6
  <2>2. target = Heaviest(keys)
    BY <1>6 DEF WeakestConcept
  <2>3. target \in keys /\ \A m \in keys : Weight[m] <= Weight[target]
    <3> HIDE DEF keys
    <3> QED BY <2>1, <2>2, HeaviestIsHeaviest
  <2>4. target \in Concepts /\ judged[target].label = "absent"
    BY <1>3, <2>3
  <2>5. \A k \in Concepts : judged[k].label = "absent" => Weight[target] >= Weight[k]
    BY <1>2, <1>3, <2>3, <2>4
  <2> QED BY <1>4, <2>4, <2>5
<1>7. CASE AbsentTops = {} /\ Labelled("absent") = {} /\ Labelled("partial") # {}
  <2> DEFINE keys == Labelled("partial")
  <2>1. keys \in SUBSET Concepts /\ keys # {}
    BY <1>3, <1>7
  <2>2. target = Heaviest(keys)
    BY <1>7 DEF WeakestConcept
  <2>3. target \in keys
    <3> HIDE DEF keys
    <3> QED BY <2>1, <2>2, HeaviestIsHeaviest
  <2>4. target \in Concepts /\ judged[target].label = "partial"
    BY <1>3, <2>3
  <2>5. \A k \in Concepts : judged[k].label # "absent"
    BY <1>3, <1>7
  <2> QED BY <1>4, <2>4, <2>5
<1>8. CASE AbsentTops = {} /\ Labelled("absent") = {} /\ Labelled("partial") = {}
  <2>1. target = "none"
    BY <1>8 DEF WeakestConcept
  <2>2. \A k \in Concepts : judged[k].label = "covered"
    BY <1>2, <1>3, <1>8
  <2> QED BY <2>1, <2>2
<1> QED BY <1>5, <1>6, <1>7, <1>8

LEMMA NoOutcomeBefore == GradingInit => GradingInv
<1> SUFFICES ASSUME GradingInit PROVE GradingInv
  OBVIOUS
<1>1. 0 \in 0..Full
  BY FullIsNatural
<1>2. GradingTypeOK
  BY <1>1 DEF GradingInit, GradingTypeOK, NoGrade
<1>3. GradingIsSound
  BY DEF GradingInit, GradingIsSound, GradesAreOneJudgesMedian, ProbesWhatIsMissing
<1> QED BY <1>2, <1>3 DEF GradingInit, GradingInv

(* A step that leaves the grade and what it was made of.                   *)
LEMMA GradeKept ==
  ASSUME GradingInv, UNCHANGED <<first, rechecks, grade>>,
         stage' \in {"new", "asked", "rechecking", "refused"}, stage' = "rechecking" => stage = "rechecking",
         probe' = NoProbe
  PROVE  GradingInv'
<1>1. GradingTypeOK'
  BY DEF GradingInv, GradingTypeOK
<1>2. GradingIsSound'
  BY DEF GradingIsSound, GradesAreOneJudgesMedian, ProbesWhatIsMissing
<1> QED BY <1>1, <1>2 DEF GradingInv

LEMMA FirstJudgmentKeeps ==
  ASSUME GradingInv, NEW j \in Judgments, FirstJudgment(j)
  PROVE  GradingInv'
<1>1. /\ stage = "asked" /\ j \in Fitting /\ first' = j /\ UNCHANGED <<rechecks, probe>>
      /\ probe = NoProbe
  BY DEF FirstJudgment, Fitting, GradingInv
<1>2. \/ stage' = "rechecking" /\ grade' = grade
      \/ stage' = "graded" /\ grade' = GradeOf(j, FALSE)
  BY DEF FirstJudgment
<1>3. /\ GradeOf(j, FALSE).judgment = Verified(j) /\ GradeOf(j, FALSE).score = Worth(j)
      /\ GradeOf(j, FALSE).score \in 0..Full /\ GradeOf(j, FALSE).rechecked = FALSE
  BY <1>1, GradeFacts
<1>4. GradingTypeOK'
  BY <1>1, <1>2, <1>3 DEF GradingInv, GradingTypeOK, Fitting
<1>5. GradesAreOneJudgesMedian'
  BY <1>1, <1>2, <1>3 DEF GradesAreOneJudgesMedian
<1>6. ProbesWhatIsMissing'
  BY <1>2 DEF ProbesWhatIsMissing
<1> QED BY <1>1, <1>2, <1>3, <1>4, <1>5, <1>6 DEF GradingInv, GradingIsSound

LEMMA RecheckKeeps ==
  ASSUME GradingInv, NEW i \in 1..Samples, NEW o \in Outcomes, RecheckEnds(i, o)
  PROVE  GradingInv'
<1>1. /\ stage = "rechecking" /\ UNCHANGED <<stage, first, grade, probe>>
      /\ rechecks' = [rechecks EXCEPT ![i] = o]
  BY DEF RecheckEnds
<1>2. GradingTypeOK'
  BY <1>1 DEF GradingInv, GradingTypeOK
<1>3. \A k \in 1..Samples : rechecks'[k] \in Outcomes
  BY <1>1 DEF GradingInv, GradingTypeOK, Outcomes
<1>4. GradingIsSound'
  BY <1>1 DEF GradingIsSound, GradesAreOneJudgesMedian, ProbesWhatIsMissing
<1> QED BY <1>1, <1>2, <1>3, <1>4 DEF GradingInv, Outcomes

LEMMA RegradeKeeps ==
  ASSUME GradingInv, Regrade
  PROVE  GradingInv'
<1>1. /\ stage = "rechecking" /\ UNCHANGED <<first, rechecks, probe>> /\ probe = NoProbe
      /\ first \in Fitting /\ \A i \in 1..Samples : rechecks[i] \in Outcomes
  BY DEF Regrade, GradingInv, Outcomes
<1>2. CASE stage' = "refused" /\ grade' = grade
  BY <1>1, <1>2, GradeKept DEF GradingInv
<1>3. CASE stage' = "graded" /\ Usable = {} /\ grade' = GradeOf(first, FALSE)
  <2>1. /\ grade'.judgment = Verified(first) /\ grade'.score = Worth(first)
        /\ grade'.score \in 0..Full /\ grade'.rechecked = FALSE
    BY <1>1, <1>3, GradeFacts
  <2>2. GradingTypeOK'
    BY <1>1, <1>3, <2>1 DEF GradingInv, GradingTypeOK
  <2>3. GradesAreOneJudgesMedian'
    BY <1>1, <2>1 DEF GradesAreOneJudgesMedian
  <2>4. ProbesWhatIsMissing'
    BY <1>3 DEF ProbesWhatIsMissing
  <2> QED BY <1>1, <1>3, <2>1, <2>2, <2>3, <2>4 DEF GradingInv, GradingIsSound, Outcomes
<1>4. CASE /\ stage' = "graded" /\ Usable # {}
           /\ grade' = GradeOf(rechecks[PickMedian(
                [i \in Usable |-> Score(Verified(rechecks[i].judgment))])].judgment, TRUE)
  <2>1. /\ grade'.score \in 0..Full /\ grade'.rechecked = TRUE
        /\ \E j \in Fitting : grade'.judgment = Verified(j)
        /\ \E i \in Usable : /\ grade'.score = Worth(rechecks[i].judgment)
                             /\ grade'.judgment = Verified(rechecks[i].judgment)
        /\ 2 * Cardinality({i \in Usable : Worth(rechecks[i].judgment) <= grade'.score}) >= Cardinality(Usable)
        /\ 2 * Cardinality({i \in Usable : Worth(rechecks[i].judgment) >= grade'.score}) >= Cardinality(Usable)
    BY <1>1, <1>4, RegradeIsMedian
  <2>2. GradingTypeOK'
    BY <1>1, <1>4, <2>1 DEF GradingInv, GradingTypeOK
  <2>3. GradesAreOneJudgesMedian'
    BY <1>1, <1>4, <2>1 DEF GradesAreOneJudgesMedian, Usable
  <2>4. ProbesWhatIsMissing'
    BY <1>4 DEF ProbesWhatIsMissing
  <2> QED BY <1>1, <1>4, <2>1, <2>2, <2>3, <2>4 DEF GradingInv, GradingIsSound, Outcomes
<1> QED BY <1>2, <1>3, <1>4 DEF Regrade

LEMMA DecideKeeps ==
  ASSUME GradingInv, NEW ofItem, NEW ofSession, NEW unsure, Decide(ofItem, ofSession, unsure)
  PROVE  GradingInv'
<1>1. stage = "graded" /\ stage' = "decided" /\ UNCHANGED <<first, rechecks, grade>>
  BY DEF Decide
<1> DEFINE target == IF AbsentTops # {} THEN FirstListed(AbsentTops) ELSE WeakestConcept
<1>2. probe' = NoProbe \/ \E r : probe' = [reason |-> r, target |-> target]
  BY DEF Decide
<1>3. PICK j \in Fitting : grade.judgment = Verified(j)
  BY <1>1 DEF GradingInv
<1> DEFINE judged == grade.judgment.concepts
<1>4. IF target = "none" THEN \A k \in Concepts : judged[k].label = "covered"
      ELSE /\ judged[target].label # "covered"
           /\ \A k \in Concepts : judged[k].label = "absent" =>
                Weight[target] >= Weight[k] /\ judged[target].label = "absent"
  BY <1>3, TargetIsMissing
<1> HIDE DEF target
<1>5. GradingTypeOK'
  BY <1>1 DEF GradingInv, GradingTypeOK
<1>6. GradesAreOneJudgesMedian'
  BY <1>1 DEF GradingInv, GradingIsSound, GradesAreOneJudgesMedian
<1>7. ProbesWhatIsMissing'
  <2>1. CASE probe' = NoProbe
    BY <2>1 DEF ProbesWhatIsMissing, NoProbe
  <2>2. CASE probe'.target = target
    BY <1>1, <1>4, <2>2 DEF ProbesWhatIsMissing
  <2> QED BY <1>2, <2>1, <2>2
<1> QED BY <1>1, <1>5, <1>6, <1>7 DEF GradingInv, GradingIsSound

LEMMA GradingInvInductive == GradingInv /\ [GradingNext]_gradingVars => GradingInv'
<1> SUFFICES ASSUME GradingInv, [GradingNext]_gradingVars PROVE GradingInv'
  OBVIOUS
<1>1. ASSUME NEW gradable \in BOOLEAN, AskFirst(gradable) PROVE GradingInv'
  BY <1>1, GradeKept DEF AskFirst, GradingInv
<1>2. CASE FirstFails
  BY <1>2, GradeKept DEF FirstFails, GradingInv
<1>3. ASSUME NEW j \in Judgments, FirstJudgment(j) PROVE GradingInv'
  BY <1>3, FirstJudgmentKeeps
<1>4. ASSUME NEW i \in 1..Samples, NEW j \in Judgments, WellFormed(j), RecheckEnds(i, Landed(j))
      PROVE  GradingInv'
  BY <1>4, OutcomeFacts, RecheckKeeps
<1>5. ASSUME NEW i \in 1..Samples, NEW o \in {Lost, Broken}, RecheckEnds(i, o) PROVE GradingInv'
  BY <1>5, OutcomeFacts, RecheckKeeps
<1>6. CASE Regrade
  BY <1>6, RegradeKeeps
<1>7. ASSUME NEW ofItem, NEW ofSession, NEW unsure, Decide(ofItem, ofSession, unsure)
      PROVE  GradingInv'
  BY <1>7, DecideKeeps
<1>8. CASE UNCHANGED gradingVars
  BY <1>8 DEF gradingVars, GradingInv, GradingTypeOK, GradingIsSound, GradesAreOneJudgesMedian,
              ProbesWhatIsMissing
<1> QED BY <1>1, <1>2, <1>3, <1>4, <1>5, <1>6, <1>7, <1>8 DEF GradingNext

(* A grade is the worth of one judgment given for this question, in the    *)
(* middle of the rechecks that came back; no invented quotation earns, no  *)
(* invented error costs; a follow-up asks about the heaviest thing that is *)
(* missing (pipeline.py, evidence.py, scoring.py, followup.py): for any    *)
(* judgments, concepts, weights and number of rechecks.                    *)
THEOREM GradingSound == GradingSpec => []GradingIsSound
<1>1. GradingInv => GradingIsSound
  BY DEF GradingInv
<1> QED BY <1>1, NoOutcomeBefore, GradingInvInductive, PTL DEF GradingSpec

(***************************************************************************)
(* A search.                                                               *)
(***************************************************************************)
(* A sorted set.                                                           *)
LEMMA Ordered ==
  ASSUME NEW R, NEW S, IsFiniteSet(S), OrderOn(R, S),
         NEW s \in [1..Cardinality(S) -> S],
         \A n \in 1..Cardinality(S) : PlaceIn(R, S, s[n]) = n - 1
  PROVE  /\ Cardinality(S) \in Nat /\ s \in Seq(S) /\ Len(s) = Cardinality(S)
         /\ Range(s) = S /\ IsInjective(s)
         /\ \A m, n \in 1..Len(s) : m < n <=> <<s[m], s[n]>> \in R
<1> DEFINE size == Cardinality(S)
<1>1. size \in Nat
  BY FS_CardinalityType
<1>2. ASSUME NEW n \in 1..size PROVE s[n] \in S /\ PlaceIn(R, S, s[n]) = n - 1
  OBVIOUS
<1>3. /\ \A x \in S : PlaceIn(R, S, x) \in 0..(size - 1)
      /\ \A x, y \in S : <<x, y>> \in R => PlaceIn(R, S, x) < PlaceIn(R, S, y)
      /\ \A x, y \in S : PlaceIn(R, S, x) = PlaceIn(R, S, y) => x = y
  BY Places
<1>4. s \in [1..size -> S]
  BY <1>2
<1>5. s \in Seq(S) /\ Len(s) = size
  <2> HIDE DEF size
  <2>1. size \in Nat /\ s \in [1..size -> S]
    BY <1>1, <1>4
  <2> QED BY ONLY <2>1
<1>6. \A x \in S : \E n \in 1..size : s[n] = x
  <2> SUFFICES ASSUME NEW x \in S PROVE \E n \in 1..size : s[n] = x
    OBVIOUS
  <2> DEFINE n == PlaceIn(R, S, x) + 1
  <2>1. n \in 1..size /\ n - 1 = PlaceIn(R, S, x)
    BY <1>1, <1>3
  <2> HIDE DEF n
  <2> QED BY <1>2, <1>3, <2>1
<1>7. \A m, n \in 1..size : m < n <=> <<s[m], s[n]>> \in R
  <2> SUFFICES ASSUME NEW m \in 1..size, NEW n \in 1..size PROVE m < n <=> <<s[m], s[n]>> \in R
    OBVIOUS
  <2>1. /\ s[m] \in S /\ PlaceIn(R, S, s[m]) = m - 1
        /\ s[n] \in S /\ PlaceIn(R, S, s[n]) = n - 1
    BY <1>2
  <2>2. <<s[m], s[n]>> \in R => m - 1 < n - 1
    BY <1>3, <2>1
  <2>3. <<s[n], s[m]>> \in R => n - 1 < m - 1
    BY <1>3, <2>1
  <2>4. s[m] = s[n] \/ <<s[m], s[n]>> \in R \/ <<s[n], s[m]>> \in R
    BY <2>1 DEF OrderOn
  <2> QED BY <1>1, <2>1, <2>2, <2>3, <2>4
<1>8. IsInjective(s)
  <2>1. ASSUME NEW m \in 1..size, NEW n \in 1..size, s[m] = s[n] PROVE m = n
    <3>1. m - 1 = n - 1
      BY <1>2, <2>1
    <3> QED BY <1>1, <3>1
  <2> QED BY <1>4, <2>1 DEF IsInjective
<1>9. Range(s) = S
  BY <1>4, <1>6 DEF Range
<1> QED BY <1>1, <1>5, <1>7, <1>8, <1>9

(* The front of a sequence.                                                *)
LEMMA FrontOf ==
  ASSUME NEW A, NEW s \in Seq(A), NEW n \in Nat, NEW t, t = Take(s, n)
  PROVE  /\ t \in Seq(A) /\ Len(t) = IF n < Len(s) THEN n ELSE Len(s)
         /\ Len(t) <= Len(s) /\ Len(t) <= n
         /\ \A i \in 1..Len(t) : t[i] = s[i]
         /\ IsInjective(s) => IsInjective(t)
         /\ Len(s) <= n => t = s
         /\ IsPrefix(t, s)
<1> DEFINE m == IF n < Len(s) THEN n ELSE Len(s)
<1>1. m \in Nat /\ m <= Len(s) /\ m <= n /\ Len(s) \in Nat
  OBVIOUS
<1>2. t = SubSeq(s, 1, m)
  BY DEF Take
<1> HIDE DEF m
<1>3. t \in Seq(A) /\ Len(t) = m /\ \A i \in 1..m : t[i] = s[i]
  BY <1>1, <1>2
<1>4. IsInjective(s) => IsInjective(t)
  BY <1>1, <1>3 DEF IsInjective
<1>5. Len(s) <= n => t = s
  <2>1. Len(s) <= n => m = Len(s)
    BY <1>1 DEF m
  <2> QED BY <1>1, <1>2, <2>1
<1>6. IsPrefix(t, s)
  BY <1>1, <1>2, <1>3 DEF IsPrefix
<1> QED BY <1>1, <1>3, <1>4, <1>5, <1>6 DEF m

(* Where an element of a sequence is.                                      *)
LEMMA RankFacts ==
  ASSUME NEW A, NEW s \in Seq(A)
  PROVE  /\ \A q \in Range(s) : Rank(s, q) \in 1..Len(s) /\ s[Rank(s, q)] = q
         /\ IsInjective(s) => \A i \in 1..Len(s) : s[i] \in Range(s) /\ Rank(s, s[i]) = i
<1>1. ASSUME NEW q \in Range(s) PROVE Rank(s, q) \in DOMAIN s /\ s[Rank(s, q)] = q
  <2>1. \E i \in DOMAIN s : s[i] = q
    BY DEF Range
  <2> QED BY <2>1 DEF Rank
<1>2. ASSUME IsInjective(s), NEW i \in DOMAIN s PROVE s[i] \in Range(s) /\ Rank(s, s[i]) = i
  <2>1. s[i] \in Range(s)
    BY DEF Range
  <2> QED BY <1>1, <1>2, <2>1 DEF IsInjective
<1>3. DOMAIN s = 1..Len(s)
  OBVIOUS
<1> QED BY <1>1, <1>2, <1>3

(* A better rank earns more, in units of 1/Scale.                          *)
LEMMA PointsFall ==
  /\ \A r \in 1..RetrieverK : RankPoints(r) \in Nat
  /\ \A r, w \in 1..RetrieverK : r < w => RankPoints(r) > RankPoints(w)
<1>1. RrfK \in Nat /\ RetrieverK \in Nat /\ Scale \in Nat \ {0}
  BY RetrievalSizes
<1>2. ASSUME NEW r \in 1..RetrieverK
      PROVE  /\ RrfK + r \in Nat \ {0} /\ RankPoints(r) \in Nat
             /\ Scale = (RrfK + r) * RankPoints(r)
  <2>1. RrfK + r \in Nat \ {0} /\ Scale % (RrfK + r) = 0
    BY <1>1, RetrievalSizes
  <2> DEFINE d == RrfK + r
  <2>2. d \in Nat \ {0} /\ Scale % d = 0 /\ RankPoints(r) = Scale \div d
    BY <2>1 DEF RankPoints
  <2> HIDE DEF d
  <2>3. Scale \div d \in Nat /\ d * (Scale \div d) \in Nat /\ Scale = d * (Scale \div d) + (Scale % d)
    BY <1>1, <2>2, DivisionFacts
  <2>4. Scale = d * RankPoints(r) /\ RankPoints(r) \in Nat
    BY <2>2, <2>3
  <2> QED BY <2>1, <2>4 DEF d
<1>3. ASSUME NEW r \in 1..RetrieverK, NEW w \in 1..RetrieverK, r < w
      PROVE  RankPoints(r) > RankPoints(w)
  <2> DEFINE a == RankPoints(r)
             b == RankPoints(w)
             c == RrfK + r
             d == RrfK + w
  <2>1. /\ a \in Nat /\ b \in Nat /\ c \in Nat \ {0} /\ d \in Nat \ {0} /\ c < d
        /\ c * a = d * b /\ d * b > 0
    BY <1>1, <1>2, <1>3
  <2> HIDE DEF a, b, c, d
  <2>2. b > 0
    <3>1. b = 0 => d * b = 0
      BY <2>1
    <3> QED BY <2>1, <3>1
  <2>3. c * b < d * b
    BY <2>1, <2>2
  <2>4. a <= b => c * a <= c * b
    BY <2>1
  <2>5. c * a \in Nat /\ c * b \in Nat /\ d * b \in Nat
    BY <2>1, Products
  <2>6. ~(a <= b)
    BY <2>1, <2>3, <2>4, <2>5
  <2>7. a > b
    BY <2>1, <2>6
  <2> QED BY <2>7 DEF a, b
<1> QED BY <1>2, <1>3

Searched == ranked \in [Sources -> Rankings(RetrieverK)]

(* What each retriever found, at a rank it has.                            *)
LEMMA RankedFacts ==
  ASSUME Searched, NEW s \in Sources
  PROVE  /\ ranked[s] \in Seq(Ids) /\ IsInjective(ranked[s]) /\ Len(ranked[s]) <= RetrieverK
         /\ \A q : s \in FoundBy(q) => q \in Ids /\ Rank(ranked[s], q) \in 1..RetrieverK
<1>1. RetrieverK \in Nat
  BY RetrievalSizes
<1>2. ranked[s] \in SeqOf(Ids, RetrieverK) /\ IsInjective(ranked[s])
  BY DEF Searched, Rankings
<1>3. PICK n \in 0..RetrieverK : ranked[s] \in [1..n -> Ids]
  BY <1>2 DEF SeqOf
<1>4. ranked[s] \in Seq(Ids) /\ Len(ranked[s]) = n
  BY <1>1, <1>3
<1>5. ASSUME NEW q, s \in FoundBy(q) PROVE q \in Ids /\ Rank(ranked[s], q) \in 1..RetrieverK
  <2>1. q \in Range(ranked[s])
    BY <1>5 DEF FoundBy
  <2>2. Rank(ranked[s], q) \in 1..n /\ ranked[s][Rank(ranked[s], q)] = q
    BY <1>4, <2>1, RankFacts
  <2> QED BY <1>1, <1>3, <2>2
<1> QED BY <1>1, <1>2, <1>4, <1>5

(* The keys that fusion sorts by.                                          *)
LEMMA FusionKeys ==
  ASSUME Searched, NEW q \in Retrieved
  PROVE  /\ Points(q) \in [FoundBy(q) -> Nat]
         /\ \A s \in FoundBy(q) : Points(q)[s] = RankPoints(Rank(ranked[s], q))
         /\ FusedScore(q) = SumOf(Points(q), FoundBy(q)) /\ FusedScore(q) \in Nat
         /\ BestRank(q) \in Nat /\ q \in Nat
<1>1. /\ FoundBy(q) # {} /\ FoundBy(q) \subseteq Sources /\ q \in Nat
      /\ \A s \in FoundBy(q) : Rank(ranked[s], q) \in 1..RetrieverK
  BY RankedFacts, RetrievalSizes DEF Retrieved, FoundBy
<1>2. Points(q) \in [FoundBy(q) -> Nat]
  BY <1>1, PointsFall DEF Points
<1>3. FusedScore(q) = SumOf(Points(q), FoundBy(q))
  BY DEF FusedScore, SumOf
<1>4. IsFiniteSet(FoundBy(q))
  <2>1. IsFiniteSet(Sources)
    <3>1. IsFiniteSet({"vector"}) /\ IsFiniteSet({"lexical"}) /\ Sources = {"vector"} \cup {"lexical"}
      BY FS_Singleton DEF Sources
    <3> QED BY <3>1, FS_Union
  <2> QED BY <1>1, <2>1, FS_Subset
<1>5. FusedScore(q) \in Nat
  BY <1>2, <1>3, <1>4, SumTakesAny
<1>6. BestRank(q) \in Nat
  <2> DEFINE T == {Rank(ranked[s], q) : s \in FoundBy(q)}
  <2>1. T \in SUBSET (1..RetrieverK) /\ T # {}
    BY <1>1
  <2>2. 1 \in Int /\ RetrieverK \in Int
    BY RetrievalSizes
  <2>3. BestRank(q) = Min(T)
    BY DEF BestRank
  <2> HIDE DEF T
  <2>4. Min(T) \in 1..RetrieverK
    BY <2>1, <2>2, Extremes
  <2> QED BY <2>2, <2>3, <2>4
<1> QED BY <1>1, <1>2, <1>3, <1>5, <1>6 DEF Points

(* Fusion sorts: equal evidence is no tie.                                 *)
LEMMA FusedFacts ==
  ASSUME Searched
  PROVE  /\ Fused \in Seq(Ids) /\ IsInjective(Fused)
         /\ \A m \in 1..Len(Fused) : Fused[m] \in Retrieved
         /\ \A m, n \in 1..Len(Fused) : m < n => FusedBefore(Fused[m], Fused[n])
<1> DEFINE S == Retrieved
           R == {p \in S \X S : FusedBefore(p[1], p[2])}
<1>1. S \subseteq Ids /\ IsFiniteSet(S)
  BY RetrievalSizes, FS_Subset DEF Retrieved
<1>2. \A x, y \in S : <<x, y>> \in R <=> FusedBefore(x, y)
  OBVIOUS
<1>3. \A x \in S : FusedScore(x) \in Nat /\ BestRank(x) \in Nat /\ x \in Nat
  BY FusionKeys
<1> DEFINE place == [x \in S |-> Cardinality({y \in S : FusedBefore(y, x)})]
<1> HIDE DEF R
<1>4. OrderOn(R, S)
  <2>1. \A x, y \in S : <<x, y>> \in R <=>
          \/ FusedScore(x) > FusedScore(y)
          \/ FusedScore(x) = FusedScore(y) /\ BestRank(x) < BestRank(y)
          \/ FusedScore(x) = FusedScore(y) /\ BestRank(x) = BestRank(y) /\ x < y
    BY <1>2 DEF FusedBefore
  <2> QED BY <1>3, <2>1 DEF OrderOn
<1>5. /\ Fused \in [1..Cardinality(S) -> S]
      /\ \A n \in 1..Cardinality(S) : PlaceIn(R, S, Fused[n]) = n - 1
  <2>1. \A x \in S : {y \in S : FusedBefore(y, x)} = Earlier(R, S, x)
    BY <1>2 DEF Earlier
  <2>2. \A x \in S : place[x] = PlaceIn(R, S, x)
    BY <2>1 DEF PlaceIn
  <2>3. Fused = [n \in 1..Cardinality(S) |-> CHOOSE x \in S : place[x] = n - 1]
    BY DEF Fused, InOrder
  <2> HIDE DEF S, place
  <2>4. ASSUME NEW n \in 1..Cardinality(S)
        PROVE  Fused[n] \in S /\ PlaceIn(R, S, Fused[n]) = n - 1
    <3>1. Cardinality(S) \in Nat /\ n - 1 \in 0..(Cardinality(S) - 1)
      BY <1>1, FS_CardinalityType
    <3>2. \E x \in S : place[x] = n - 1
      BY <1>1, <1>4, <2>2, <3>1, EveryPlace
    <3>3. Fused[n] = CHOOSE k \in S : place[k] = n - 1
      BY <2>3
    <3>4. Fused[n] \in S /\ place[Fused[n]] = n - 1
      BY <3>2, <3>3
    <3> QED BY <2>2, <3>4
  <2> QED BY <2>3, <2>4
<1> HIDE DEF S, place
<1>6. /\ Fused \in Seq(S) /\ IsInjective(Fused)
      /\ \A m, n \in 1..Len(Fused) : m < n <=> <<Fused[m], Fused[n]>> \in R
  BY <1>1, <1>4, <1>5, Ordered
<1>7. Fused \in Seq(Ids) /\ \A m \in 1..Len(Fused) : Fused[m] \in S
  BY <1>1, <1>6
<1> QED BY <1>2, <1>6, <1>7 DEF S

(* What more retrievers rank better scores more.                           *)
LEMMA AgreementScoresMore ==
  ASSUME Searched, NEW q \in Retrieved, NEW r \in Retrieved, FoundBy(q) \subseteq FoundBy(r),
         \A s \in FoundBy(q) : Rank(ranked[s], r) < Rank(ranked[s], q)
  PROVE  FusedScore(r) > FusedScore(q)
<1> DEFINE F == FoundBy(q)
           G == FoundBy(r)
           f == Points(q)
           g == Points(r)
           h == [s \in G |-> IF s \in F THEN f[s] ELSE 0]
<1>1. /\ f \in [F -> Nat] /\ g \in [G -> Nat] /\ F \subseteq G /\ F # {}
      /\ FusedScore(q) = SumOf(f, F) /\ FusedScore(r) = SumOf(g, G)
  BY FusionKeys DEF Retrieved
<1>2. ASSUME NEW s \in F PROVE g[s] > f[s]
  <2>1. s \in Sources /\ Rank(ranked[s], r) < Rank(ranked[s], q) /\ s \in G
    BY <1>1 DEF FoundBy
  <2>2. Rank(ranked[s], r) \in 1..RetrieverK /\ Rank(ranked[s], q) \in 1..RetrieverK
    BY <2>1, RankedFacts
  <2>3. RankPoints(Rank(ranked[s], r)) > RankPoints(Rank(ranked[s], q))
    BY <2>1, <2>2, PointsFall
  <2> QED BY <2>1, <2>3, FusionKeys
<1>3. IsFiniteSet(G)
  <2>1. IsFiniteSet({"vector"}) /\ IsFiniteSet({"lexical"}) /\ Sources = {"vector"} \cup {"lexical"}
    BY FS_Singleton DEF Sources
  <2>2. IsFiniteSet(Sources) /\ G \subseteq Sources
    BY <2>1, FS_Union DEF FoundBy
  <2> QED BY <2>2, FS_Subset
<1> HIDE DEF F, G, f, g
<1>4. h \in [G -> Nat] /\ \A s \in G : h[s] = IF s \in F THEN f[s] ELSE 0
  BY <1>1
<1>5. \A s \in G : h[s] <= g[s]
  BY <1>1, <1>2, <1>4
<1> HIDE DEF h
<1>6. SumOf(h, G) = SumOf(f, F)
  BY ONLY <1>1, <1>3, <1>4, SumOutside
<1>7. PICK s \in F : TRUE
  BY <1>1
<1> DEFINE rest == G \ {s}
<1>8. s \in G /\ rest \in SUBSET G /\ IsFiniteSet(rest) /\ G \in SUBSET G
  BY <1>1, <1>3, FS_RemoveElement
<1>9. /\ SumOf(h, G) = h[s] + SumOf(h, rest) /\ SumOf(h, rest) \in Nat
      /\ SumOf(g, G) = g[s] + SumOf(g, rest) /\ SumOf(g, rest) \in Nat
  BY <1>1, <1>3, <1>4, <1>8, SumTakesAny
<1>10. SumOf(h, rest) <= SumOf(g, rest)
  <2> HIDE DEF rest
  <2> QED BY ONLY <1>1, <1>4, <1>5, <1>8, SumMonotone
<1>11. h[s] = f[s] /\ g[s] > f[s] /\ f[s] \in Nat /\ g[s] \in Nat
  BY <1>1, <1>2, <1>4, <1>8
<1>12. SumOf(g, G) > SumOf(f, F)
  <2> HIDE DEF rest
  <2> QED BY <1>6, <1>9, <1>10, <1>11
<1> QED BY <1>1, <1>12 DEF F, G, f, g

(* The reranker's order of the candidates.                                 *)
LEMMA RerankedFacts ==
  ASSUME NEW size \in Nat, NEW scores \in [1..size -> RerankScores], candidates \in Seq(Ids),
         Len(candidates) = size,
         NEW all, all = Reranked(scores)
  PROVE  \E order \in [1..size -> 1..size] :
           /\ all = [p \in 1..size |-> candidates[order[p]]]
           /\ \A i \in 1..size : \E p \in 1..size : order[p] = i
           /\ IsInjective(order)
           /\ \A o, p \in 1..size : o < p <=> RerankedBefore(scores, order[o], order[p])
<1> DEFINE S == 1..size
           R == {p \in S \X S : RerankedBefore(scores, p[1], p[2])}
           order == InOrder(S, LAMBDA i, j : RerankedBefore(scores, i, j))
           place == [x \in S |-> Cardinality({y \in S : RerankedBefore(scores, y, x)})]
<1>1. IsFiniteSet(S) /\ Cardinality(S) = size
  BY FS_Interval
<1>2. \A x, y \in S : <<x, y>> \in R <=> RerankedBefore(scores, x, y)
  OBVIOUS
<1>3. \A x \in S : scores[x] \in Int /\ x \in Nat
  <2>1. \A x \in S : scores[x] \in RerankScores /\ x \in Nat
    OBVIOUS
  <2> QED BY <2>1, RetrievalSizes
<1> HIDE DEF R
<1>4. OrderOn(R, S)
  <2>1. \A x, y \in S : <<x, y>> \in R <=> scores[x] > scores[y] \/ (scores[x] = scores[y] /\ x < y)
    BY <1>2 DEF RerankedBefore
  <2> HIDE DEF S
  <2> QED BY <1>3, <2>1 DEF OrderOn
<1>5. /\ order \in [1..Cardinality(S) -> S]
      /\ \A n \in 1..Cardinality(S) : PlaceIn(R, S, order[n]) = n - 1
  <2>1. \A x \in S : {y \in S : RerankedBefore(scores, y, x)} = Earlier(R, S, x)
    BY <1>2 DEF Earlier
  <2>2. \A x \in S : place[x] = PlaceIn(R, S, x)
    BY <2>1 DEF PlaceIn
  <2>3. order = [n \in 1..Cardinality(S) |-> CHOOSE x \in S : place[x] = n - 1]
    BY DEF InOrder
  <2> HIDE DEF S, place, order
  <2>4. ASSUME NEW n \in 1..Cardinality(S)
        PROVE  order[n] \in S /\ PlaceIn(R, S, order[n]) = n - 1
    <3>1. Cardinality(S) \in Nat /\ n - 1 \in 0..(Cardinality(S) - 1)
      BY <1>1, FS_CardinalityType
    <3>2. \E x \in S : place[x] = n - 1
      BY <1>1, <1>4, <2>2, <3>1, EveryPlace
    <3>3. order[n] = CHOOSE k \in S : place[k] = n - 1
      BY <2>3
    <3>4. order[n] \in S /\ place[order[n]] = n - 1
      BY <3>2, <3>3
    <3> QED BY <2>2, <3>4
  <2> QED BY <2>3, <2>4
<1>6. all = [p \in DOMAIN order |-> candidates[order[p]]]
  BY DEF Reranked
<1> HIDE DEF order, place
<1>7. PICK o \in [1..Cardinality(S) -> S] :
        o = order /\ \A n \in 1..Cardinality(S) : PlaceIn(R, S, o[n]) = n - 1
  BY <1>5
<1> HIDE DEF S
<1>8. /\ IsInjective(o) /\ Len(o) = Cardinality(S)
      /\ \A x \in S : \E n \in 1..Len(o) : o[n] = x
      /\ \A m, n \in 1..Len(o) : m < n <=> <<o[m], o[n]>> \in R
  <2>1. IsFiniteSet(S) /\ OrderOn(R, S) /\ o \in [1..Cardinality(S) -> S]
        /\ \A n \in 1..Cardinality(S) : PlaceIn(R, S, o[n]) = n - 1
    BY <1>1, <1>4, <1>7
  <2>2. /\ Range(o) = S /\ IsInjective(o) /\ Len(o) = Cardinality(S)
        /\ \A m, n \in 1..Len(o) : m < n <=> <<o[m], o[n]>> \in R
    BY ONLY <2>1, Ordered
  <2>3. \A x \in S : \E n \in 1..Len(o) : o[n] = x
    BY <1>7, <2>2 DEF Range
  <2> QED BY <2>2, <2>3
<1>9. /\ o \in [1..size -> 1..size] /\ \A n \in 1..size : o[n] \in S
      /\ all = [p \in 1..size |-> candidates[o[p]]]
      /\ \A i \in 1..size : \E p \in 1..size : o[p] = i
      /\ IsInjective(o) /\ \A m, n \in 1..size : m < n <=> <<o[m], o[n]>> \in R
  BY <1>1, <1>6, <1>7, <1>8 DEF S
<1>10. \A m, n \in 1..size : m < n <=> RerankedBefore(scores, o[m], o[n])
  BY <1>2, <1>9
<1> HIDE DEF R
<1> QED BY <1>9, <1>10

(***************************************************************************)
(* How a search is scored.                                                 *)
(***************************************************************************)
(* No places are worth more than as many of the first ones.                *)
LEMMA LargestPrefix ==
  ASSUME NEW N \in Nat, NEW E, NEW worth \in [E -> Nat], E = 1..N,
         \A p \in E : \A o \in 1..p : worth[o] >= worth[p]
  PROVE  \A P \in SUBSET E : \A c \in 0..N :
           Cardinality(P) <= c => SumOf(worth, P) <= SumOf(worth, 1..c)
<1> DEFINE A == {n \in Nat : n <= N => \A P \in SUBSET (1..n) : \A c \in 0..n :
                               Cardinality(P) <= c => SumOf(worth, P) <= SumOf(worth, 1..c)}
<1>0. /\ \A T \in SUBSET E : IsFiniteSet(T) =>
           /\ SumOf(worth, T) \in Nat
           /\ \A x \in T : SumOf(worth, T) = worth[x] + SumOf(worth, T \ {x})
      /\ \A T \in SUBSET E : \A x \in E \ T : IsFiniteSet(T) =>
           SumOf(worth, T \cup {x}) = SumOf(worth, T) + worth[x]
  <2>1. \A T \in SUBSET E : IsFiniteSet(T) =>
           /\ SumOf(worth, T) \in Nat
           /\ \A x \in T : SumOf(worth, T) = worth[x] + SumOf(worth, T \ {x})
    BY ONLY worth \in [E -> Nat], SumTakesAny
  <2>2. ASSUME NEW T \in SUBSET E, NEW x \in E \ T, IsFiniteSet(T)
        PROVE  SumOf(worth, T \cup {x}) = SumOf(worth, T) + worth[x]
    BY ONLY worth \in [E -> Nat], T \in SUBSET E, x \in E \ T, <2>2, SumAdd
  <2> QED BY <2>1, <2>2
<1>1. 0 \in A
  <2>1. ASSUME NEW P \in SUBSET (1..0), NEW c \in 0..0 PROVE SumOf(worth, P) <= SumOf(worth, 1..c)
    <3>1. P = {} /\ 1..c = {}
      BY <2>1
    <3>2. SumOf(worth, {}) = 0
      BY FS_EmptySet, SumUnfolds
    <3> QED BY <3>1, <3>2
  <2> QED BY <2>1
<1>2. ASSUME NEW n \in Nat, n \in A PROVE n + 1 \in A
  <2>1. ASSUME n + 1 <= N, NEW P \in SUBSET (1..(n + 1)), NEW c \in 0..(n + 1), Cardinality(P) <= c
        PROVE  SumOf(worth, P) <= SumOf(worth, 1..c)
    <3>1. \A Q \in SUBSET (1..n) : \A k \in 0..n : Cardinality(Q) <= k => SumOf(worth, Q) <= SumOf(worth, 1..k)
      BY <1>2, <2>1
    <3> DEFINE final == n + 1
    <3>2. final \in E /\ final - 1 = n
      BY <2>1
    <3>3. /\ \A k \in 0..final : 1..k \in SUBSET E /\ IsFiniteSet(1..k) /\ SumOf(worth, 1..k) \in Nat
          /\ \A k \in 1..final : SumOf(worth, 1..k) = SumOf(worth, 1..(k - 1)) + worth[k]
      <4>1. ASSUME NEW k \in 0..final
            PROVE  1..k \in SUBSET E /\ IsFiniteSet(1..k) /\ SumOf(worth, 1..k) \in Nat
        <5>1. 1..k \in SUBSET E /\ k \in Int /\ 1 \in Int
          BY <3>2
        <5>2. IsFiniteSet(1..k)
          BY <5>1, FS_Interval
        <5> QED BY <5>1, <5>2, SumTakesAny
      <4>2. ASSUME NEW k \in 1..final PROVE SumOf(worth, 1..k) = SumOf(worth, 1..(k - 1)) + worth[k]
        <5>1. k - 1 \in 0..final /\ k \in E \ (1..(k - 1)) /\ 1..k = (1..(k - 1)) \cup {k}
          BY <3>2
        <5>2. 1..(k - 1) \in SUBSET E /\ IsFiniteSet(1..(k - 1))
          BY <4>1, <5>1
        <5> DEFINE T == 1..(k - 1)
                   U == 1..k
        <5>3. /\ worth \in [E -> Nat] /\ T \in SUBSET E /\ IsFiniteSet(T) /\ k \in E \ T
              /\ U = T \cup {k}
          BY <5>1, <5>2
        <5> HIDE DEF T, U
        <5>4. SumOf(worth, U) = SumOf(worth, T) + worth[k]
          BY <1>0, <5>3
        <5> QED BY <5>4 DEF T, U
      <4> QED BY <4>1, <4>2
    <3>4. P \in SUBSET E /\ IsFiniteSet(P) /\ Cardinality(P) \in Nat
      <4>1. IsFiniteSet(1..final) /\ P \subseteq 1..final /\ 1..final \in SUBSET E
        BY <3>2, <3>3
      <4> QED BY <4>1, FS_Subset, FS_CardinalityType
    <3> HIDE DEF final
    <3>5. CASE final \in P
      <4> DEFINE Q == P \ {final}
      <4>1. Q \in SUBSET (1..n) /\ c \in 1..final /\ c - 1 \in 0..n
        <5>1. Q \in SUBSET (1..n)
          BY <2>1, <3>2 DEF final
        <5>2. Cardinality(P) # 0
          BY <3>4, <3>5, FS_EmptySet
        <5> QED BY <2>1, <3>2, <3>4, <5>1, <5>2
      <4>2. Cardinality(Q) = Cardinality(P) - 1
        BY <3>4, <3>5, FS_RemoveElement
      <4>3. SumOf(worth, Q) <= SumOf(worth, 1..(c - 1))
        <5>1. Cardinality(Q) <= c - 1
          BY <2>1, <3>4, <4>1, <4>2
        <5> QED BY <3>1, <4>1, <5>1
      <4>4. SumOf(worth, P) = worth[final] + SumOf(worth, Q) /\ SumOf(worth, Q) \in Nat
        <5>1. Q \in SUBSET E /\ IsFiniteSet(Q)
          BY <3>4, FS_RemoveElement
        <5>2. worth \in [E -> Nat] /\ P \in SUBSET E /\ Q \in SUBSET E
          BY <3>4, <5>1
        <5> QED BY <1>0, <3>4, <3>5, <5>1, <5>2
      <4>5. worth[final] <= worth[c] /\ worth[final] \in Nat /\ worth[c] \in Nat
        <5>1. c \in E /\ final \in E /\ c \in 1..final
          BY <3>2, <4>1
        <5> QED BY <5>1
      <4>6. SumOf(worth, 1..c) = SumOf(worth, 1..(c - 1)) + worth[c] /\ SumOf(worth, 1..(c - 1)) \in Nat
        <5>1. c - 1 \in 0..final
          BY <3>2, <4>1
        <5> QED BY <3>3, <4>1, <5>1
      <4> QED BY <4>3, <4>4, <4>5, <4>6
    <3>6. CASE final \notin P
      <4>1. P \in SUBSET (1..n)
        BY <2>1, <3>2, <3>6 DEF final
      <4>2. CASE c <= n
        BY <2>1, <3>1, <4>1, <4>2
      <4>3. CASE c = final
        <5>1. Cardinality(P) <= n
          <6>1. 1 \in Int /\ n \in Int /\ n >= 0
            OBVIOUS
          <6>2. IsFiniteSet(1..n) /\ Cardinality(1..n) = n
            BY FS_Interval
          <6> DEFINE U == 1..n
          <6>3. IsFiniteSet(U) /\ Cardinality(U) = n /\ P \in SUBSET U
            BY <4>1, <6>2
          <6> HIDE DEF U
          <6>4. Cardinality(P) <= Cardinality(U)
            BY <6>3, FS_Subset
          <6> QED BY <6>3, <6>4
        <5>2. SumOf(worth, P) <= SumOf(worth, 1..n)
          BY <3>1, <4>1, <5>1
        <5>3. SumOf(worth, 1..final) = SumOf(worth, 1..n) + worth[final] /\ SumOf(worth, 1..n) \in Nat /\ worth[final] \in Nat
          <6>1. final \in 1..final /\ n \in 0..final
            BY <3>2
          <6> QED BY <3>2, <3>3, <6>1
        <5>4. SumOf(worth, P) \in Nat
          BY <3>4, SumTakesAny
        <5> QED BY <4>3, <5>2, <5>3, <5>4
      <4>4. c <= n \/ c = final
        BY DEF final
      <4> QED BY <4>2, <4>3, <4>4
    <3> QED BY <3>5, <3>6
  <2> QED BY <2>1
<1> HIDE DEF A
<1>3. N \in A
  BY <1>1, <1>2, NatSetInduction
<1>4. N <= N
  OBVIOUS
<1> QED BY <1>3, <1>4 DEF A

(* The places of a ranking whose questions are graded h or better.         *)
GradedPlaces(s, h) == {p \in 1..Len(s) : Grades[s[p]] >= h}
Discounts    == [p \in 1..FinalK |-> Discount[p]]

(* What is worth 3 is worth 1 and then 2 more.                             *)
LEMMA GainsByLayer ==
  ASSUME NEW s \in Seq(Ids), Len(s) <= FinalK
  PROVE  /\ Gains(s) \in [1..Len(s) -> Nat]
         /\ \A p \in 1..Len(s) : Gains(s)[p] = 0 <=> Grades[s[p]] = 0
         /\ SumOf(Gains(s), 1..Len(s)) = SumOf(Discounts, GradedPlaces(s, 1)) + 2 * SumOf(Discounts, GradedPlaces(s, 2))
<1> DEFINE I == 1..Len(s)
           worth == Discounts
           g == Gains(s)
           part1 == GradedPlaces(s, 1)
           part2 == GradedPlaces(s, 2)
           a == [p \in I |-> IF p \in part1 THEN worth[p] ELSE 0]
           b == [p \in I |-> IF p \in part2 THEN worth[p] ELSE 0]
           c == [p \in I |-> 2 * b[p]]
<1>1. Len(s) \in Nat /\ FinalK \in Nat /\ IsFiniteSet(I)
  <2>1. Len(s) \in Nat /\ FinalK \in Nat
    BY RetrievalSizes
  <2> QED BY <2>1, FS_Interval
<1>2. worth \in [1..FinalK -> Nat] /\ \A p \in 1..FinalK : worth[p] = Discount[p] /\ worth[p] \in Nat \ {0}
  BY JudgedQuery DEF Discounts
<1>3. I \subseteq 1..FinalK /\ part1 \in SUBSET I /\ part2 \in SUBSET I
  BY <1>1 DEF GradedPlaces
<1>4. \A p \in I : Grades[s[p]] \in 0..2 /\ s[p] \in Ids
  BY JudgedQuery
<1>5. ASSUME NEW p \in I
      PROVE  /\ g[p] \in Nat /\ g[p] = a[p] + c[p] /\ (g[p] = 0 <=> Grades[s[p]] = 0)
  <2>1. worth[p] = Discount[p] /\ worth[p] \in Nat \ {0}
    BY <1>2, <1>3
  <2>2. g[p] = Gain[Grades[s[p]] + 1] * worth[p]
    BY <2>1 DEF Gains
  <2>3. CASE Grades[s[p]] = 0
    <3>1. Gain[Grades[s[p]] + 1] = 0 /\ p \notin part1 /\ p \notin part2
      BY <2>3 DEF Gain, GradedPlaces
    <3> QED BY <2>1, <2>2, <2>3, <3>1
  <2>4. CASE Grades[s[p]] = 1
    <3>1. Gain[Grades[s[p]] + 1] = 1 /\ p \in part1 /\ p \notin part2
      BY <2>4 DEF Gain, GradedPlaces
    <3> QED BY <2>1, <2>2, <2>4, <3>1
  <2>5. CASE Grades[s[p]] = 2
    <3>1. Gain[Grades[s[p]] + 1] = 3 /\ p \in part1 /\ p \in part2
      BY <2>5 DEF Gain, GradedPlaces
    <3> QED BY <2>1, <2>2, <2>5, <3>1
  <2> QED BY <1>4, <2>3, <2>4, <2>5
<1>6. /\ g \in [I -> Nat] /\ a \in [I -> Nat] /\ b \in [I -> Nat] /\ c \in [I -> Nat]
      /\ \A p \in I : g[p] = a[p] + c[p]
      /\ \A p \in I : c[p] = 2 * b[p]
      /\ \A p \in I : a[p] = IF p \in part1 THEN worth[p] ELSE 0
      /\ \A p \in I : b[p] = IF p \in part2 THEN worth[p] ELSE 0
  <2>1. \A p \in I : worth[p] \in Nat
    BY <1>2, <1>3
  <2>2. g = [p \in I |-> g[p]]
    BY DEF Gains
  <2>3. \A p \in I : g[p] \in Nat /\ g[p] = a[p] + c[p]
    BY <1>5
  <2> HIDE DEF g
  <2> QED BY <2>1, <2>2, <2>3
<1>7. \A p \in I : g[p] = 0 <=> Grades[s[p]] = 0
  BY <1>5
<1> HIDE DEF g, a, b, c, worth, I, part1, part2
<1>8. SumOf(a, I) = SumOf(worth, part1) /\ SumOf(b, I) = SumOf(worth, part2)
  <2> DEFINE E == 1..FinalK
  <2>1. worth \in [E -> Nat] /\ part1 \subseteq E /\ part2 \subseteq E
    BY <1>2, <1>3
  <2> HIDE DEF E
  <2>2. /\ IsFiniteSet(I) /\ part1 \in SUBSET I /\ part1 \subseteq E /\ worth \in [E -> Nat]
        /\ a \in [I -> Nat] /\ \A p \in I : a[p] = IF p \in part1 THEN worth[p] ELSE 0
    BY <1>1, <1>3, <1>6, <2>1
  <2>3. /\ IsFiniteSet(I) /\ part2 \in SUBSET I /\ part2 \subseteq E /\ worth \in [E -> Nat]
        /\ b \in [I -> Nat] /\ \A p \in I : b[p] = IF p \in part2 THEN worth[p] ELSE 0
    BY <1>1, <1>3, <1>6, <2>1
  <2>4. SumOf(a, I) = SumOf(worth, part1)
    BY ONLY <2>2, SumWithin, ZenonT(180)
  <2>5. SumOf(b, I) = SumOf(worth, part2)
    BY ONLY <2>3, SumWithin, ZenonT(180)
  <2> QED BY <2>4, <2>5
<1>9. SumOf(c, I) = 2 * SumOf(b, I)
  <2>1. 2 \in Nat
    OBVIOUS
  <2> QED BY ONLY <1>1, <1>6, <2>1, SumScale
<1>10. SumOf(g, I) = SumOf(a, I) + SumOf(c, I)
  <2>1. /\ IsFiniteSet(I) /\ g \in [I -> Nat] /\ a \in [I -> Nat] /\ c \in [I -> Nat]
        /\ \A p \in I : g[p] = a[p] + c[p]
    BY <1>1, <1>6
  <2>2. \A x, y, z \in [I -> Nat] :
          (\A p \in I : z[p] = x[p] + y[p]) => SumOf(z, I) = SumOf(x, I) + SumOf(y, I)
    BY <1>1, SumPlus
  <2> QED BY <2>1, <2>2
<1> QED BY <1>6, <1>7, <1>8, <1>9, <1>10 DEF g, worth, I, part1, part2

(* How many places there are.                                              *)
LEMMA PlacesUpTo ==
  ASSUME NEW n \in Nat
  PROVE  IsFiniteSet(1..n) /\ Cardinality(1..n) = n
<1>1. 1 \in Int /\ n \in Int /\ (1 > n => n = 0) /\ n - 1 + 1 = n
  OBVIOUS
<1> QED BY <1>1, FS_Interval

(* A set of places that has every earlier one is the first so many.        *)
LEMMA FirstSoMany ==
  ASSUME NEW m \in Nat, NEW Q \in SUBSET (1..m), \A p \in Q : \A o \in 1..p : o \in Q
  PROVE  Cardinality(Q) \in 0..m /\ Q = 1..Cardinality(Q)
<1>1. CASE Q = {}
  <2>1. Cardinality(Q) = 0 /\ 1..0 = {}
    BY <1>1, FS_EmptySet
  <2> QED BY <1>1, <2>1
<1>2. CASE Q # {}
  <2>1. 1 \in Int /\ m \in Int
    OBVIOUS
  <2>2. Max(Q) \in Q /\ \A x \in Q : x <= Max(Q)
    BY <1>2, <2>1, Extremes
  <2>3. Max(Q) \in 1..m
    BY <2>2
  <2>4. Q = 1..Max(Q)
    <3> DEFINE k == Max(Q)
    <3>1. k \in Q /\ k \in 1..m /\ \A x \in Q : x <= k
      BY <2>2, <2>3
    <3> HIDE DEF k
    <3>2. \A o \in 1..k : o \in Q
      BY <3>1
    <3>3. \A x \in Q : x \in 1..m /\ x <= k
      BY <3>1
    <3>4. \A x \in Q : x \in 1..k
      BY <3>1, <3>3
    <3>5. Q = 1..k
      BY <3>2, <3>4
    <3> QED BY <3>5 DEF k
  <2>5. Cardinality(1..Max(Q)) = Max(Q)
    <3>1. 1 \in Int /\ Max(Q) \in Int /\ Max(Q) - 1 + 1 = Max(Q) /\ ~(1 > Max(Q))
      BY <2>3
    <3> QED BY <3>1, FS_Interval
  <2>6. Cardinality(Q) = Max(Q)
    BY <2>4, <2>5
  <2> QED BY <2>3, <2>4, <2>6
<1> QED BY <1>1, <1>2

(* The ideal order.                                                        *)
LEMMA IdealFacts ==
  ASSUME NEW ideal, ideal = InOrder(Ids, HigherGraded)
  PROVE  /\ Cardinality(Ids) \in Nat /\ ideal \in Seq(Ids) /\ Len(ideal) = Cardinality(Ids)
         /\ Range(ideal) = Ids /\ IsInjective(ideal)
         /\ \A m, n \in 1..Len(ideal) : m < n <=> HigherGraded(ideal[m], ideal[n])
<1> DEFINE R == {p \in Ids \X Ids : HigherGraded(p[1], p[2])}
           place == [x \in Ids |-> Cardinality({y \in Ids : HigherGraded(y, x)})]
<1>1. IsFiniteSet(Ids) /\ Cardinality(Ids) \in Nat
  BY RetrievalSizes, FS_CardinalityType
<1>2. \A x, y \in Ids : <<x, y>> \in R <=> HigherGraded(x, y)
  OBVIOUS
<1>3. \A x \in Ids : Grades[x] \in 0..2 /\ x \in Nat
  BY RetrievalSizes, JudgedQuery
<1> HIDE DEF R
<1>4. OrderOn(R, Ids)
  <2>1. \A x, y \in Ids : <<x, y>> \in R <=> Grades[x] > Grades[y] \/ (Grades[x] = Grades[y] /\ x < y)
    BY <1>2 DEF HigherGraded
  <2> QED BY <1>3, <2>1 DEF OrderOn
<1>5. /\ ideal \in [1..Cardinality(Ids) -> Ids]
      /\ \A n \in 1..Cardinality(Ids) : PlaceIn(R, Ids, ideal[n]) = n - 1
  <2>1. \A x \in Ids : {y \in Ids : HigherGraded(y, x)} = Earlier(R, Ids, x)
    BY <1>2 DEF Earlier
  <2>2. \A x \in Ids : place[x] = PlaceIn(R, Ids, x)
    BY <2>1 DEF PlaceIn
  <2>3. ideal = [n \in 1..Cardinality(Ids) |-> CHOOSE x \in Ids : place[x] = n - 1]
    BY DEF InOrder
  <2> HIDE DEF place
  <2>4. ASSUME NEW n \in 1..Cardinality(Ids)
        PROVE  ideal[n] \in Ids /\ PlaceIn(R, Ids, ideal[n]) = n - 1
    <3>1. n - 1 \in 0..(Cardinality(Ids) - 1)
      BY <1>1
    <3>2. \E x \in Ids : place[x] = n - 1
      BY <1>1, <1>4, <2>2, <3>1, EveryPlace
    <3>3. ideal[n] = CHOOSE k \in Ids : place[k] = n - 1
      BY <2>3
    <3>4. ideal[n] \in Ids /\ place[ideal[n]] = n - 1
      BY <3>2, <3>3
    <3> QED BY <2>2, <3>4
  <2> QED BY <2>3, <2>4
<1> HIDE DEF place
<1>6. /\ ideal \in Seq(Ids) /\ Len(ideal) = Cardinality(Ids) /\ Range(ideal) = Ids /\ IsInjective(ideal)
      /\ \A m, n \in 1..Len(ideal) : m < n <=> <<ideal[m], ideal[n]>> \in R
  <2>1. /\ IsFiniteSet(Ids) /\ OrderOn(R, Ids) /\ ideal \in [1..Cardinality(Ids) -> Ids]
        /\ \A n \in 1..Cardinality(Ids) : PlaceIn(R, Ids, ideal[n]) = n - 1
    BY <1>1, <1>4, <1>5
  <2> QED BY ONLY <2>1, Ordered
<1>7. \A m \in 1..Len(ideal) : ideal[m] \in Ids
  BY <1>6
<1> QED BY <1>1, <1>2, <1>6, <1>7

(* At every grade, the ideal order's places are worth the most.            *)
LEMMA IdealIsBest ==
  ASSUME NEW s \in Seq(Ids), IsInjective(s), Len(s) <= FinalK, NEW h \in {1, 2},
         NEW t, t = Take(InOrder(Ids, HigherGraded), FinalK)
  PROVE  /\ SumOf(Discounts, GradedPlaces(s, h)) <= SumOf(Discounts, GradedPlaces(t, h))
         /\ SumOf(Discounts, GradedPlaces(s, h)) \in Nat /\ SumOf(Discounts, GradedPlaces(t, h)) \in Nat
<1> DEFINE ideal == InOrder(Ids, HigherGraded)
           P == GradedPlaces(s, h)
           Q == GradedPlaces(t, h)
           c == Cardinality(Q)
<1>1. /\ Cardinality(Ids) \in Nat /\ ideal \in Seq(Ids) /\ Len(ideal) = Cardinality(Ids)
      /\ Range(ideal) = Ids /\ IsInjective(ideal)
      /\ \A m, n \in 1..Len(ideal) : m < n <=> HigherGraded(ideal[m], ideal[n])
  BY IdealFacts
<1> HIDE DEF ideal
<1>2. /\ FinalK \in Nat /\ Len(s) \in Nat /\ IsFiniteSet(Ids)
      /\ \A x \in Ids : Grades[x] \in 0..2 /\ x \in Nat
  BY RetrievalSizes, JudgedQuery
<1>3. /\ t \in Seq(Ids) /\ Len(t) = (IF FinalK < Len(ideal) THEN FinalK ELSE Len(ideal))
      /\ \A i \in 1..Len(t) : t[i] = ideal[i]
  BY <1>1, <1>2, FrontOf DEF ideal
<1>4. Len(t) \in Nat /\ Len(t) <= FinalK /\ Len(t) <= Len(ideal) /\ Len(ideal) \in Nat
  BY <1>1, <1>2, <1>3
<1>5. \A i \in 1..Len(t) : /\ i \in 1..Len(ideal) /\ t[i] = ideal[i] /\ ideal[i] \in Ids
                           /\ Grades[ideal[i]] \in 0..2
  BY <1>1, <1>2, <1>3, <1>4
<1>6. c \in 0..Len(t) /\ Q = 1..c
  <2>1. ASSUME NEW p \in Q, NEW o \in 1..p PROVE o \in Q
    <3>1. p \in 1..Len(t) /\ Grades[ideal[p]] >= h /\ o \in 1..Len(t)
      BY <1>4, <1>5 DEF GradedPlaces
    <3>2. o = p \/ (o < p /\ p \in 1..Len(ideal) /\ o \in 1..Len(ideal))
      BY <1>4, <3>1
    <3>3. o = p \/ HigherGraded(ideal[o], ideal[p])
      BY <1>1, <3>2
    <3> DEFINE a == Grades[ideal[o]]
               b == Grades[ideal[p]]
    <3>4. a \in 0..2 /\ b \in 0..2 /\ h \in 1..2 /\ b >= h
      BY <1>5, <3>1
    <3>5. a > b \/ a = b
      BY <3>3 DEF HigherGraded
    <3> HIDE DEF a, b
    <3>6. a >= h
      BY <3>4, <3>5
    <3>7. Grades[ideal[o]] >= h
      BY <3>6 DEF a
    <3> QED BY <1>5, <3>1, <3>7 DEF GradedPlaces
  <2>2. Q \in SUBSET (1..Len(t))
    BY DEF GradedPlaces
  <2> HIDE DEF Q
  <2> QED BY <1>4, <2>1, <2>2, FirstSoMany
<1> HIDE DEF c
<1>7. IsFiniteSet(P) /\ Cardinality(P) \in Nat /\ Cardinality(P) <= Len(s) /\ P \subseteq 1..FinalK
  <2> DEFINE I == 1..Len(s)
  <2>1. IsFiniteSet(I) /\ Cardinality(I) = Len(s)
    BY <1>2, PlacesUpTo
  <2>2. P \in SUBSET I
    BY DEF GradedPlaces
  <2>3. I \subseteq 1..FinalK
    BY <1>2
  <2> HIDE DEF I, P
  <2> QED BY <2>1, <2>2, <2>3, FS_Subset, FS_CardinalityType
<1>8. Len(s) <= Len(t)
  <2> DEFINE I == 1..Len(s)
  <2>1. Cardinality(I) = Len(s)
    BY <1>2, PlacesUpTo
  <2>2. s \in Injection(I, Ids)
    BY DEF Injection, IsInjective
  <2> HIDE DEF I
  <2>3. Cardinality(I) <= Cardinality(Ids)
    BY <1>2, <2>2, FS_Injection
  <2> QED BY <1>1, <1>2, <1>3, <2>1, <2>3
<1>9. Cardinality(P) <= c
  <2>1. CASE c = Len(t)
    BY <1>2, <1>4, <1>7, <1>8, <2>1
  <2>2. CASE c # Len(t)
    <3> DEFINE at == [p \in P |-> Rank(ideal, s[p])]
               next == c + 1
    <3>1. next \in 1..Len(t) /\ next \notin Q /\ c \in Nat
      BY <1>4, <1>6, <2>2
    <3>2. Grades[ideal[next]] < h
      BY <1>5, <3>1 DEF GradedPlaces
    <3>3. ASSUME NEW p \in P
          PROVE  /\ Rank(ideal, s[p]) \in 1..c /\ ideal[Rank(ideal, s[p])] = s[p] /\ p \in 1..Len(s)
      <4> DEFINE k == Rank(ideal, s[p])
      <4> DEFINE worth == Grades[s[p]]
                 after == Grades[ideal[next]]
      <4>1. p \in 1..Len(s) /\ s[p] \in Ids /\ Grades[s[p]] >= h
        BY DEF GradedPlaces
      <4>2. k \in 1..Len(ideal) /\ ideal[k] = s[p]
        BY <1>1, <4>1, RankFacts
      <4>3. worth \in 0..2 /\ after \in 0..2 /\ h \in 1..2 /\ worth >= h /\ after < h
        BY <1>2, <1>5, <3>1, <3>2, <4>1
      <4>4. worth = Grades[ideal[k]] /\ after = Grades[ideal[next]] /\ next \in 1..Len(ideal)
        BY <1>5, <3>1, <4>2
      <4> HIDE DEF k, next, worth, after
      <4>5. ~(after >= worth)
        BY <4>3
      <4>6. k # next
        BY <4>3, <4>4, <4>5
      <4>7. ~(next < k)
        <5>1. next < k => HigherGraded(ideal[next], ideal[k])
          BY <1>1, <4>2, <4>4
        <5>2. next < k => after > worth \/ after = worth
          BY <4>4, <5>1 DEF HigherGraded
        <5> QED BY <4>3, <4>5, <5>2
      <4>8. k \in 1..c
        <5>1. k \in 1..Len(ideal) /\ k # next /\ ~(next < k) /\ next = c + 1 /\ c \in Nat /\ Len(ideal) \in Nat
          BY <1>4, <3>1, <4>2, <4>6, <4>7 DEF next
        <5> QED BY <5>1
      <4> QED BY <4>1, <4>2, <4>8 DEF k
    <3>4. at \in Injection(P, 1..c)
      <4>1. at \in [P -> 1..c]
        BY <3>3
      <4>2. ASSUME NEW a \in P, NEW b \in P, at[a] = at[b] PROVE a = b
        <5>1. s[a] = s[b] /\ a \in 1..Len(s) /\ b \in 1..Len(s)
          BY <3>3, <4>2
        <5> QED BY <5>1 DEF IsInjective
      <4> QED BY <4>1, <4>2 DEF Injection, IsInjective
    <3> HIDE DEF at
    <3>5. IsFiniteSet(1..c) /\ Cardinality(1..c) = c
      BY <3>1, PlacesUpTo
    <3> DEFINE T == 1..c
    <3>6. at \in Injection(P, T) /\ IsFiniteSet(T) /\ Cardinality(T) = c
      BY <3>4, <3>5
    <3> HIDE DEF T
    <3> QED BY <3>6, FS_Injection
  <2> QED BY <2>1, <2>2
<1>10. /\ Discounts \in [1..FinalK -> Nat]
       /\ \A p \in 1..FinalK : \A o \in 1..p : Discounts[o] >= Discounts[p]
  <2>1. \A p \in 1..FinalK : \A o \in 1..p : o \in 1..FinalK
    BY <1>2
  <2> QED BY <2>1, JudgedQuery DEF Discounts
<1> DEFINE E == 1..FinalK
<1>11. /\ Discounts \in [E -> Nat] /\ P \in SUBSET E /\ Q \in SUBSET E /\ IsFiniteSet(P) /\ IsFiniteSet(Q)
       /\ c \in 0..FinalK
  <2>1. 1..c \in SUBSET (1..FinalK) /\ c \in 0..FinalK
    BY <1>2, <1>4, <1>6
  <2>2. IsFiniteSet(1..c)
    <3>1. 1 \in Int /\ c \in Int
      BY <1>4, <1>6
    <3> QED BY <3>1, FS_Interval
  <2> QED BY <1>6, <1>7, <1>10, <2>1, <2>2
<1> HIDE DEF P, Q
<1>12. \A X \in SUBSET E : \A k \in 0..FinalK :
         Cardinality(X) <= k => SumOf(Discounts, X) <= SumOf(Discounts, 1..k)
  <2>1. FinalK \in Nat /\ Discounts \in [E -> Nat] /\ E = 1..FinalK
        /\ \A p \in E : \A o \in 1..p : Discounts[o] >= Discounts[p]
    BY <1>2, <1>10
  <2> HIDE DEF E
  <2> QED BY ONLY <2>1, LargestPrefix
<1> HIDE DEF E
<1>13. SumOf(Discounts, P) <= SumOf(Discounts, Q)
  BY <1>6, <1>9, <1>11, <1>12
<1>14. SumOf(Discounts, P) \in Nat /\ SumOf(Discounts, Q) \in Nat
  BY ONLY <1>11, SumTakesAny
<1> QED BY <1>13, <1>14 DEF P, Q

-----------------------------------------------------------------------------
(* Retrieval!SearchInv is inductive.                                       *)

(* What stage 1 serves is the front of the fused list.                     *)
LEMMA CandidateFacts ==
  ASSUME SearchInv
  PROVE  /\ candidates \in Seq(Ids) /\ IsInjective(candidates)
         /\ \A i \in 1..Len(candidates) : candidates[i] \in Ids
         /\ stage2 # "hybrid" => \A i, j \in 1..Len(candidates) : i < j =>
              /\ candidates[i] \in Retrieved /\ candidates[j] \in Retrieved
              /\ FusedBefore(candidates[i], candidates[j])
<1>1. Searched /\ candidates \in Seq(Ids) /\ CandidateK \in Nat
  BY RetrievalSizes DEF SearchInv, SearchTypeOK, Searched
<1>2. CASE stage2 \in {"none", "hybrid"}
  <2>1. candidates = <<>> /\ Len(candidates) = 0
    BY <1>2 DEF SearchInv
  <2> QED BY <2>1 DEF IsInjective
<1>3. CASE stage2 \notin {"none", "hybrid"}
  <2>1. candidates = Take(Fused, CandidateK)
    BY <1>3 DEF SearchInv
  <2>2. /\ Fused \in Seq(Ids) /\ IsInjective(Fused)
        /\ \A m \in 1..Len(Fused) : Fused[m] \in Retrieved
        /\ \A m, n \in 1..Len(Fused) : m < n => FusedBefore(Fused[m], Fused[n])
    BY <1>1, FusedFacts
  <2>3. /\ Len(candidates) <= Len(Fused) /\ IsInjective(candidates)
        /\ \A i \in 1..Len(candidates) : candidates[i] = Fused[i]
    BY <1>1, <2>1, <2>2, FrontOf
  <2>4. \A i \in 1..Len(candidates) : i \in 1..Len(Fused) /\ candidates[i] \in Ids
    BY <1>1, <2>2, <2>3
  <2> QED BY <1>1, <2>2, <2>3, <2>4
<1> QED BY <1>2, <1>3

(* Fusion.                                                                 *)
LEMMA FusionAgrees ==
  ASSUME SearchInv PROVE FusionRespectsAgreement
<1> SUFFICES ASSUME stage2 # "hybrid", NEW i \in DOMAIN candidates, NEW j \in DOMAIN candidates, i < j,
                    FoundBy(candidates[i]) \subseteq FoundBy(candidates[j]),
                    \A s \in FoundBy(candidates[i]) :
                      Rank(ranked[s], candidates[j]) < Rank(ranked[s], candidates[i])
             PROVE  FALSE
  BY DEF FusionRespectsAgreement
<1> DEFINE q == candidates[i]
           r == candidates[j]
<1>1. Searched
  BY DEF SearchInv, Searched
<1>2. candidates \in Seq(Ids) /\ i \in 1..Len(candidates) /\ j \in 1..Len(candidates)
  BY CandidateFacts
<1>3. q \in Retrieved /\ r \in Retrieved /\ FusedBefore(q, r)
  BY <1>2, CandidateFacts
<1> HIDE DEF q, r
<1>4. FusedScore(q) \in Nat /\ FusedScore(r) \in Nat
  BY <1>1, <1>3, FusionKeys
<1>5. FusedScore(r) > FusedScore(q)
  <2>1. FoundBy(q) \subseteq FoundBy(r) /\ \A s \in FoundBy(q) : Rank(ranked[s], r) < Rank(ranked[s], q)
    BY DEF q, r
  <2> QED BY <1>1, <1>3, <2>1, AgreementScoresMore
<1> QED BY <1>3, <1>4, <1>5 DEF FusedBefore

LEMMA RerankedSequence ==
  ASSUME candidates \in Seq(Ids), NEW new \in [1..Len(candidates) -> RerankScores]
  PROVE  Reranked(new) \in Seq(Ids)
<1> DEFINE size == Len(candidates)
           all == Reranked(new)
<1>1. size \in Nat /\ new \in [1..size -> RerankScores] /\ \A i \in 1..size : candidates[i] \in Ids
  OBVIOUS
<1> HIDE DEF size, all
<1>2. PICK order \in [1..size -> 1..size] :
        /\ all = [p \in 1..size |-> candidates[order[p]]]
        /\ \A i \in 1..size : \E p \in 1..size : order[p] = i
        /\ IsInjective(order)
        /\ \A o, p \in 1..size : o < p <=> RerankedBefore(new, order[o], order[p])
  BY <1>1, RerankedFacts DEF size, all
<1>3. all \in [1..size -> Ids]
  BY <1>1, <1>2
<1>4. all \in Seq(Ids)
  BY ONLY <1>1, <1>3
<1> QED BY <1>4 DEF all

(* What stage 2 gives, as an order of the candidates.                      *)
LEMMA ServedReranked ==
  ASSUME SearchInv, stage2 = "reranked"
  PROVE  \E order \in [1..Len(candidates) -> 1..Len(candidates)], all \in Seq(Ids) :
           /\ Len(all) = Len(candidates) /\ results = Take(all, FinalK)
           /\ \A p \in 1..Len(candidates) : all[p] = candidates[order[p]]
           /\ \A i \in 1..Len(candidates) : \E p \in 1..Len(candidates) : order[p] = i
           /\ IsInjective(order)
           /\ \A o, p \in 1..Len(candidates) : o < p <=> RerankedBefore(scored, order[o], order[p])
<1> DEFINE size == Len(candidates)
           all == Reranked(scored)
<1>1. candidates \in Seq(Ids) /\ size \in Nat /\ DOMAIN candidates = 1..size
  BY CandidateFacts
<1>2. scored \in [1..size -> RerankScores] /\ results = Take(all, FinalK)
  BY <1>1 DEF SearchInv
<1>3. \A i \in 1..size : candidates[i] \in Ids
  BY <1>1
<1> HIDE DEF size, all
<1>4. PICK order \in [1..size -> 1..size] :
        /\ all = [p \in 1..size |-> candidates[order[p]]]
        /\ \A i \in 1..size : \E p \in 1..size : order[p] = i
        /\ IsInjective(order)
        /\ \A o, p \in 1..size : o < p <=> RerankedBefore(scored, order[o], order[p])
  BY <1>1, <1>2, RerankedFacts DEF size, all
<1>5. all \in [1..size -> Ids] /\ \A p \in 1..size : all[p] = candidates[order[p]]
  BY <1>3, <1>4
<1>6. all \in Seq(Ids) /\ Len(all) = size
  BY ONLY <1>1, <1>5
<1> QED BY <1>2, <1>4, <1>5, <1>6 DEF size

(* What is served, whichever way.                                          *)
LEMMA ServedFacts ==
  ASSUME SearchInv, SearchDone
  PROVE  /\ results \in Seq(Ids) /\ IsInjective(results)
         /\ Range(results) \subseteq Range(candidates)
         /\ Len(results) = (IF FinalK < Len(candidates) THEN FinalK ELSE Len(candidates))
         /\ stage2 # "reranked" => IsPrefix(results, candidates)
<1>1. FinalK \in Nat /\ candidates \in Seq(Ids) /\ IsInjective(candidates)
  BY RetrievalSizes, CandidateFacts
<1>2. CASE stage2 # "reranked"
  <2>1. results = Take(candidates, FinalK)
    BY <1>2 DEF SearchDone, SearchInv
  <2>2. /\ results \in Seq(Ids) /\ IsInjective(results) /\ Len(results) <= Len(candidates)
        /\ Len(results) = (IF FinalK < Len(candidates) THEN FinalK ELSE Len(candidates))
        /\ \A i \in 1..Len(results) : results[i] = candidates[i]
        /\ IsPrefix(results, candidates)
    BY <1>1, <2>1, FrontOf
  <2>3. ASSUME NEW q \in Range(results) PROVE q \in Range(candidates)
    <3>1. PICK i \in 1..Len(results) : results[i] = q
      BY <2>2 DEF Range
    <3>2. i \in DOMAIN candidates /\ candidates[i] = q
      BY <1>1, <2>2, <3>1
    <3> QED BY <3>2 DEF Range
  <2> QED BY <2>2, <2>3
<1>3. CASE stage2 = "reranked"
  <2>1. PICK order \in [1..Len(candidates) -> 1..Len(candidates)], all \in Seq(Ids) :
          /\ Len(all) = Len(candidates) /\ results = Take(all, FinalK)
          /\ \A p \in 1..Len(candidates) : all[p] = candidates[order[p]]
          /\ IsInjective(order)
    BY <1>3, ServedReranked
  <2>2. IsInjective(all)
    <3>1. ASSUME NEW a \in 1..Len(all), NEW b \in 1..Len(all), all[a] = all[b] PROVE a = b
      <4> DEFINE places == 1..Len(candidates)
      <4>1. a \in places /\ b \in places /\ order \in [places -> places]
        BY <2>1
      <4>2. /\ all[a] = candidates[order[a]] /\ all[b] = candidates[order[b]]
            /\ order[a] \in places /\ order[b] \in places
        BY <2>1, <4>1
      <4>3. DOMAIN candidates = places /\ DOMAIN order = places
        BY <1>1, <2>1
      <4>4. /\ order[a] \in DOMAIN candidates /\ order[b] \in DOMAIN candidates
            /\ candidates[order[a]] = candidates[order[b]] /\ a \in DOMAIN order /\ b \in DOMAIN order
        BY <3>1, <4>1, <4>2, <4>3
      <4>5. order[a] = order[b]
        BY <1>1, <4>4 DEF IsInjective
      <4> QED BY <2>1, <4>4, <4>5 DEF IsInjective
    <3>2. DOMAIN all = 1..Len(all)
      BY <2>1
    <3> QED BY <3>1, <3>2 DEF IsInjective
  <2>3. /\ results \in Seq(Ids) /\ IsInjective(results) /\ Len(results) <= Len(all)
        /\ Len(results) = (IF FinalK < Len(all) THEN FinalK ELSE Len(all))
        /\ \A i \in 1..Len(results) : results[i] = all[i]
    BY <1>1, <2>1, <2>2, FrontOf
  <2>4. ASSUME NEW q \in Range(results) PROVE q \in Range(candidates)
    <3>1. PICK i \in 1..Len(results) : results[i] = q
      BY <2>3 DEF Range
    <3>2. i \in 1..Len(candidates) /\ q = candidates[order[i]]
      BY <1>1, <2>1, <2>3, <3>1
    <3>3. order[i] \in DOMAIN candidates
      BY <1>1, <2>1, <3>2
    <3> QED BY <3>2, <3>3 DEF Range
  <2> QED BY <1>3, <2>1, <2>3, <2>4
<1> QED BY <1>2, <1>3

(* The reranked results are the best of every candidate.                   *)
LEMMA BestAreServed ==
  ASSUME SearchInv, stage2 = "reranked", NEW q \in Range(results), NEW r \in Range(candidates) \ {q}
  PROVE  (r \in Range(results) /\ Rank(results, r) < Rank(results, q))
           <=> RerankedBefore(scored, Rank(candidates, r), Rank(candidates, q))
<1> DEFINE size == Len(candidates)
<1>1. FinalK \in Nat /\ candidates \in Seq(Ids) /\ IsInjective(candidates) /\ size \in Nat
  BY RetrievalSizes, CandidateFacts
<1>2. PICK order \in [1..size -> 1..size], all \in Seq(Ids) :
        /\ Len(all) = size /\ results = Take(all, FinalK)
        /\ \A p \in 1..size : all[p] = candidates[order[p]]
        /\ \A i \in 1..size : \E p \in 1..size : order[p] = i
        /\ IsInjective(order)
        /\ \A o, p \in 1..size : o < p <=> RerankedBefore(scored, order[o], order[p])
  BY ServedReranked
<1>3. /\ results \in Seq(Ids) /\ Len(results) \in Nat /\ Len(results) <= size
      /\ \A i \in 1..Len(results) : results[i] = all[i]
  BY <1>1, <1>2, FrontOf
<1>4. IsInjective(results) /\ Range(results) \subseteq Range(candidates)
  BY ServedFacts DEF SearchDone
<1> DEFINE i == Rank(candidates, q)
           j == Rank(candidates, r)
<1>5. i \in 1..size /\ candidates[i] = q /\ j \in 1..size /\ candidates[j] = r
  BY <1>1, <1>4, RankFacts
<1> HIDE DEF size, i, j
<1>6. PICK o \in 1..size : order[o] = i
  BY <1>2, <1>5
<1>7. PICK p \in 1..size : order[p] = j
  BY <1>2, <1>5
<1>8. all[o] = q /\ all[p] = r
  BY <1>2, <1>5, <1>6, <1>7
<1>9. \A k \in 1..Len(results) : (results[k] = q => k = o) /\ (results[k] = r => k = p)
  <2> SUFFICES ASSUME NEW k \in 1..Len(results), NEW x \in {o, p}, results[k] = all[x] PROVE k = x
    BY <1>8
  <2>1. k \in 1..size /\ x \in 1..size
    <3>1. Len(results) \in Nat /\ Len(results) <= size /\ size \in Nat
      BY <1>1, <1>3
    <3>2. k \in 1..size
      BY <3>1
    <3> QED BY <1>6, <1>7, <3>2
  <2>2. /\ results[k] = all[k] /\ all[k] = candidates[order[k]] /\ all[x] = candidates[order[x]]
        /\ order[k] \in 1..size /\ order[x] \in 1..size
    BY <1>2, <1>3, <2>1
  <2>3. DOMAIN candidates = 1..size /\ DOMAIN order = 1..size
    BY <1>1, <1>2 DEF size
  <2>4. order[k] = order[x]
    BY <1>1, <2>2, <2>3 DEF IsInjective
  <2> QED BY <1>2, <2>1, <2>3, <2>4 DEF IsInjective
<1>10. o \in 1..Len(results) /\ Rank(results, q) = o
  <2>1. Rank(results, q) \in 1..Len(results) /\ results[Rank(results, q)] = q
    BY <1>3, RankFacts
  <2> QED BY <1>9, <2>1
<1>11. r \in Range(results) => p \in 1..Len(results) /\ Rank(results, r) = p
  <2>1. r \in Range(results) => Rank(results, r) \in 1..Len(results) /\ results[Rank(results, r)] = r
    BY <1>3, RankFacts
  <2> QED BY <1>9, <2>1
<1>12. p < o => r \in Range(results)
  <2>1. p < o => p \in 1..Len(results)
    BY <1>1, <1>3, <1>10
  <2>2. p < o => p \in DOMAIN results /\ results[p] = r
    BY <1>3, <1>8, <2>1
  <2> QED BY <2>2 DEF Range
<1>13. p < o <=> RerankedBefore(scored, j, i)
  BY <1>2, <1>6, <1>7
<1> QED BY <1>10, <1>11, <1>12, <1>13 DEF i, j

(* Both stages.                                                            *)
LEMMA StagesAgree ==
  ASSUME SearchInv PROVE StagesAreHonest
<1> SUFFICES ASSUME SearchDone
             PROVE  /\ IsInjective(results) /\ Range(results) \subseteq Range(candidates)
                    /\ Len(results) = Min({FinalK, Len(candidates)})
                    /\ stage2 # "reranked" => IsPrefix(results, candidates)
                    /\ stage2 = "reranked" =>
                         \A q \in Range(results) : \A r \in Range(candidates) \ {q} :
                           (r \in Range(results) /\ Rank(results, r) < Rank(results, q))
                             <=> RerankedBefore(scored, Rank(candidates, r), Rank(candidates, q))
  BY DEF StagesAreHonest
<1>1. FinalK \in Int /\ Len(candidates) \in Int
  BY RetrievalSizes, CandidateFacts
<1>2. Min({FinalK, Len(candidates)}) = IF FinalK <= Len(candidates) THEN FinalK ELSE Len(candidates)
  BY <1>1, MinOfTwo
<1>3. Len(results) = (IF FinalK < Len(candidates) THEN FinalK ELSE Len(candidates))
  BY ServedFacts
<1>4. Len(results) = Min({FinalK, Len(candidates)})
  BY <1>1, <1>2, <1>3
<1> QED BY <1>4, ServedFacts, BestAreServed

(* No order scores above the ideal one, and a miss is a miss everywhere.   *)
LEMMA MetricsAreHonest ==
  ASSUME SearchInv PROVE MetricsAgree
<1> SUFFICES ASSUME SearchDone
             PROVE  /\ Dcg(results, FinalK) <= IdealDcg(FinalK)
                    /\ (FirstRank(results) = 0) = (Hits(results, FinalK) = {})
                    /\ (FirstRank(results) = 0) = (Dcg(results, FinalK) = 0)
  BY DEF MetricsAgree
<1> DEFINE size == Len(results)
           ideal == Take(InOrder(Ids, HigherGraded), FinalK)
           good == Range(results) \cap Relevant
<1>1. /\ FinalK \in Nat /\ Len(candidates) \in Nat
      /\ \A x \in Ids : Grades[x] \in 0..2
  BY RetrievalSizes, JudgedQuery, CandidateFacts
<1>2. /\ results \in Seq(Ids) /\ IsInjective(results) /\ size \in Nat /\ size <= FinalK
  BY <1>1, ServedFacts
<1>3. Take(results, FinalK) = results /\ Take(results, size) = results
  BY <1>1, <1>2, FrontOf
<1>4. ideal \in Seq(Ids) /\ Len(ideal) <= FinalK
  <2>1. InOrder(Ids, HigherGraded) \in Seq(Ids)
    BY IdealFacts
  <2> QED BY <1>1, <2>1, FrontOf
<1>5. ASSUME NEW s \in Seq(Ids), Len(s) <= FinalK, NEW t, Take(t, FinalK) = s
      PROVE  Dcg(t, FinalK) = SumOf(Gains(s), 1..Len(s))
  <2>1. DOMAIN s = 1..Len(s)
    OBVIOUS
  <2> QED BY <1>5, <2>1 DEF Dcg, SumOf
<1>6. /\ Dcg(results, FinalK) = SumOf(Gains(results), 1..size)
      /\ IdealDcg(FinalK) = SumOf(Gains(ideal), 1..Len(ideal))
  BY <1>2, <1>3, <1>4, <1>5 DEF IdealDcg
<1> HIDE DEF ideal
<1>7. Dcg(results, FinalK) <= IdealDcg(FinalK)
  <2> DEFINE a == SumOf(Discounts, GradedPlaces(results, 1))
             b == SumOf(Discounts, GradedPlaces(results, 2))
             c == SumOf(Discounts, GradedPlaces(ideal, 1))
             d == SumOf(Discounts, GradedPlaces(ideal, 2))
  <2>1. a <= c /\ a \in Nat /\ c \in Nat
    BY <1>2, IdealIsBest DEF ideal
  <2>2. b <= d /\ b \in Nat /\ d \in Nat
    BY <1>2, IdealIsBest DEF ideal
  <2>3. Dcg(results, FinalK) = a + 2 * b /\ IdealDcg(FinalK) = c + 2 * d
    BY <1>2, <1>4, <1>6, GainsByLayer
  <2> HIDE DEF a, b, c, d
  <2> QED BY <2>1, <2>2, <2>3
<1>8. Hits(results, FinalK) = good /\ Hits(results, size) = good
  BY <1>3 DEF Hits
<1>9. FirstRank(results) = 0 <=> good = {}
  <2>1. CASE good = {}
    BY <1>8, <2>1 DEF FirstRank
  <2>2. CASE good # {}
    <3> DEFINE T == {Rank(results, q) : q \in good}
    <3>1. T \in SUBSET (1..size) /\ T # {}
      BY <1>2, <2>2, RankFacts
    <3>2. FirstRank(results) = Min(T)
      BY <1>8, <2>2 DEF FirstRank
    <3>3. 1 \in Int /\ size \in Int
      BY <1>2
    <3> HIDE DEF T, size
    <3>4. Min(T) \in 1..size
      BY <3>1, <3>3, Extremes
    <3> QED BY <2>2, <3>2, <3>4
  <2> QED BY <2>1, <2>2
<1>10. Dcg(results, FinalK) = 0 <=> good = {}
  <2> DEFINE I == 1..size
  <2>1. IsFiniteSet(I) /\ Gains(results) \in [I -> Nat]
    BY <1>2, PlacesUpTo, GainsByLayer
  <2>2. \A p \in I : Gains(results)[p] = 0 <=> Grades[results[p]] = 0
    BY <1>2, GainsByLayer
  <2>3. Dcg(results, FinalK) = SumOf(Gains(results), I)
    BY <1>6
  <2>4. (\A p \in I : Grades[results[p]] = 0) <=> good = {}
    <3>1. \A p \in I : /\ results[p] \in Range(results) /\ results[p] \in Ids
                       /\ Grades[results[p]] \in 0..2
      BY <1>1, <1>2 DEF Range
    <3>2. \A q \in Range(results) : \E p \in I : results[p] = q
      BY <1>2 DEF Range
    <3>3. \A p \in I : results[p] \in good <=> Grades[results[p]] # 0
      BY <3>1 DEF Relevant
    <3> HIDE DEF I
    <3> QED BY <3>1, <3>2, <3>3
  <2> HIDE DEF I
  <2>5. SumOf(Gains(results), I) = 0 <=> \A p \in I : Gains(results)[p] = 0
    BY ONLY <2>1, SumOfNothing
  <2> QED BY <2>2, <2>3, <2>4, <2>5
<1> QED BY <1>7, <1>8, <1>9, <1>10

LEMMA SearchHonestly ==
  SearchInv => SearchIsHonest
  BY FusionAgrees, StagesAgree, MetricsAreHonest DEF SearchIsHonest

LEMMA SearchInitInv ==
  SearchInit => SearchInv
<1> SUFFICES ASSUME SearchInit PROVE SearchInv
  OBVIOUS
<1>1. <<>> \in Rankings(RetrieverK) /\ <<>> \in Seq(Ids)
  <2>1. 0 \in 0..RetrieverK /\ <<>> \in [1..0 -> Ids]
    BY RetrievalSizes
  <2>2. <<>> \in SeqOf(Ids, RetrieverK)
    BY <2>1 DEF SeqOf
  <2> QED BY <2>2 DEF Rankings, IsInjective
<1> QED BY <1>1 DEF SearchInit, SearchInv, SearchTypeOK

(* The fused list is a function of the rankings.                           *)
LEMMA FusedUnchanged ==
  ASSUME ranked' = ranked PROVE Fused' = Fused
<1>1. \A q : FoundBy(q)' = FoundBy(q)
  BY DEF FoundBy
<1>2. \A q : Points(q)' = Points(q)
  BY <1>1 DEF Points
<1>3. \A q : FusedScore(q)' = FusedScore(q)
  BY <1>1, <1>2 DEF FusedScore, MapThenSumSet, MapThenFoldSet
<1>4. \A q : BestRank(q)' = BestRank(q)
  BY <1>1 DEF BestRank
<1>5. \A q, r : FusedBefore(q, r)' <=> FusedBefore(q, r)
  BY <1>3, <1>4 DEF FusedBefore
<1>6. Retrieved' = Retrieved
  BY <1>1 DEF Retrieved
<1> DEFINE place == [x \in Retrieved |-> Cardinality({y \in Retrieved : FusedBefore(y, x)})]
<1>7. place' = place
  BY <1>5, <1>6
<1>8. /\ Fused = [n \in 1..Cardinality(Retrieved) |-> CHOOSE x \in Retrieved : place[x] = n - 1]
      /\ Fused' = [n \in 1..Cardinality(Retrieved') |-> CHOOSE x \in Retrieved' : place'[x] = n - 1]
  BY DEF Fused, InOrder
<1> HIDE DEF place
<1> QED BY <1>6, <1>7, <1>8

(* Each step of a search keeps the invariant.                              *)
LEMMA SearchStep ==
  ASSUME SearchInv, [SearchNext]_searchVars
  PROVE  SearchInv'
<1> USE DEF SearchInv, SearchTypeOK
<1>1. FinalK \in Nat /\ CandidateK \in Nat /\ candidates \in Seq(Ids)
  BY RetrievalSizes
<1>2. CASE RunRetrievers
  <2>1. ranked' \in [Sources -> Seq(Ids)]
    <3>1. ASSUME NEW s \in Rankings(RetrieverK) PROVE s \in Seq(Ids)
      <4>1. PICK n \in 0..RetrieverK : s \in [1..n -> Ids]
        BY DEF Rankings, SeqOf
      <4>2. n \in Nat
        BY RetrievalSizes
      <4> QED BY <4>1, <4>2
    <3> QED BY <1>2, <3>1 DEF RunRetrievers
  <2> QED BY <1>2, <2>1 DEF RunRetrievers
<1>3. CASE HybridSearch
  <2>1. Fused \in Seq(Ids) /\ candidates' = Take(Fused, CandidateK)
    BY <1>3, FusedFacts DEF HybridSearch, Searched
  <2>2. candidates' \in Seq(Ids)
    BY <1>1, <2>1, FrontOf
  <2>3. Fused' = Fused
    BY <1>3, FusedUnchanged DEF HybridSearch
  <2> QED BY <1>3, <2>1, <2>2, <2>3 DEF HybridSearch
<1>4. CASE NoReranker \/ RerankFails
  <2>1. results' \in Seq(Ids)
    BY <1>1, <1>4, FrontOf DEF NoReranker, RerankFails
  <2>2. Fused' = Fused
    BY <1>4, FusedUnchanged DEF NoReranker, RerankFails
  <2> QED BY <1>4, <2>1, <2>2 DEF NoReranker, RerankFails
<1>5. CASE Rerank
  <2>1. Fused' = Fused
    BY <1>5, FusedUnchanged DEF Rerank
  <2>2. Reranked(scored)' = Reranked(scored')
    BY <1>5 DEF Rerank, Reranked, InOrder, RerankedBefore
  <2>3. PICK new \in [DOMAIN candidates -> RerankScores] :
          scored' = new /\ results' = Take(Reranked(new), FinalK)
    BY <1>5 DEF Rerank, Reranked, InOrder, RerankedBefore
  <2>4. results' \in Seq(Ids)
    <3>1. DOMAIN candidates = 1..Len(candidates)
      BY <1>1
    <3>2. Reranked(new) \in Seq(Ids)
      BY <1>1, <3>1, RerankedSequence
    <3> QED BY <1>1, <2>3, <3>2, FrontOf
  <2> QED BY <1>5, <2>1, <2>2, <2>4 DEF Rerank
<1>6. CASE UNCHANGED searchVars
  <2>1. Fused' = Fused /\ Reranked(scored)' = Reranked(scored)
    BY <1>6, FusedUnchanged DEF searchVars, Reranked, InOrder, RerankedBefore
  <2> QED BY <1>6, <2>1 DEF searchVars
<1> QED BY <1>2, <1>3, <1>4, <1>5, <1>6 DEF SearchNext

(* A search is honest end to end: fusion keeps what the retrievers agree   *)
(* on, what is served is the best of what was found, and no order of it    *)
(* scores above the ideal one (app/retrieval, app/evaluation/metrics.py).  *)
THEOREM SearchHonest == SearchSpec => []SearchIsHonest
<1>1. SearchSpec => []SearchInv
  BY SearchInitInv, SearchStep, PTL DEF SearchSpec
<1> QED BY <1>1, SearchHonestly, PTL

-----------------------------------------------------------------------------
(***************************************************************************)
(* Simulated sessions.                                                     *)
(***************************************************************************)
(* The simulated bank.                                                     *)
TopicOf(i) == SimBank[i].topic

LEMMA BankFacts ==
  /\ Len(SimBank) \in Nat /\ Items = 1..Len(SimBank)
  /\ IsFiniteSet(Items) /\ Cardinality(Items) = Len(SimBank)
  /\ \A i \in Items : /\ TopicOf(i) \in SimTopics /\ SimBank[i].b \in Int /\ SimBank[i].time \in Nat
                      /\ SimBank[i].subtopic \in DOMAIN ParentTopic
                      /\ i \in Nat
<1> DEFINE Kind == [topic : SimTopics, subtopic : DOMAIN ParentTopic, b : Int,
                    time : Nat, like : SUBSET Nat]
<1>1. SimBank \in Seq(Kind)
  BY BankOfItems
<1> HIDE DEF Kind
<1>2. Len(SimBank) \in Nat /\ Items = 1..Len(SimBank)
  BY <1>1 DEF Items
<1>3. IsFiniteSet(Items) /\ Cardinality(Items) = Len(SimBank)
  BY <1>2, PlacesUpTo
<1>4. ASSUME NEW i \in Items
      PROVE  SimBank[i] \in Kind /\ i \in Nat
  BY <1>1, <1>2
<1> QED BY <1>2, <1>3, <1>4 DEF TopicOf, Kind

(* Sorting items by difficulty.                                            *)
LEMMA EasierSorts ==
  ASSUME NEW S \in SUBSET Items, NEW s, s = InOrder(S, Easier)
  PROVE  s \in Seq(S) /\ Len(s) = Cardinality(S) /\ Range(s) = S /\ IsInjective(s)
<1> DEFINE R == {p \in S \X S : Easier(p[1], p[2])}
           place == [x \in S |-> Cardinality({y \in S : Easier(y, x)})]
<1>1. IsFiniteSet(S) /\ Cardinality(S) \in Nat
  BY BankFacts, FS_Subset, FS_CardinalityType
<1>2. \A x, y \in S : <<x, y>> \in R <=> Easier(x, y)
  OBVIOUS
<1> HIDE DEF R
<1>3. OrderOn(R, S)
  <2>1. \A x \in S : SimBank[x].b \in Int /\ x \in Nat
    BY BankFacts
  <2>2. \A x, y \in S : <<x, y>> \in R <=>
          SimBank[x].b < SimBank[y].b \/ (SimBank[x].b = SimBank[y].b /\ x < y)
    BY <1>2 DEF Easier
  <2> QED BY <2>1, <2>2 DEF OrderOn
<1>4. \A x \in S : place[x] = PlaceIn(R, S, x)
  <2>1. \A x \in S : {y \in S : Easier(y, x)} = Earlier(R, S, x)
    BY <1>2 DEF Earlier
  <2> QED BY <2>1 DEF PlaceIn
<1>5. s = [n \in 1..Cardinality(S) |-> CHOOSE x \in S : place[x] = n - 1]
  BY DEF InOrder
<1> HIDE DEF place
<1>6. ASSUME NEW n \in 1..Cardinality(S)
      PROVE  s[n] \in S /\ PlaceIn(R, S, s[n]) = n - 1
  <2>1. n - 1 \in 0..(Cardinality(S) - 1)
    BY <1>1
  <2>2. \E x \in S : place[x] = n - 1
    BY <1>1, <1>3, <1>4, <2>1, EveryPlace
  <2>3. s[n] = CHOOSE x \in S : place[x] = n - 1
    BY <1>5
  <2>4. s[n] \in S /\ place[s[n]] = n - 1
    BY <2>2, <2>3
  <2> QED BY <1>4, <2>4
<1>7. s \in [1..Cardinality(S) -> S]
  BY <1>5, <1>6
<1> QED BY <1>1, <1>3, <1>6, <1>7, Ordered

(* A topic's part of the paper has each of its items once.                 *)
LEMMA TopicOnPaper ==
  ASSUME NEW t, NEW s, s = TopicPaper(t)
  PROVE  /\ s \in Seq(OfTopic(t)) /\ Len(s) = Cardinality(OfTopic(t))
         /\ Range(s) = OfTopic(t) /\ IsInjective(s)
<1> DEFINE A == OfTopic(t)
           C == Spread(t)
           front == InOrder(C, Easier)
           rest == InOrder(A \ C, Easier)
<1>1. A \in SUBSET Items /\ C \in SUBSET A /\ A \ C \in SUBSET Items /\ C \in SUBSET Items
  BY DEF OfTopic, Spread
<1>2. CASE s = InOrder(A, Easier)
  BY <1>1, <1>2, EasierSorts
<1>3. CASE s = front \o rest
  <2>1. /\ front \in Seq(C) /\ Len(front) = Cardinality(C) /\ Range(front) = C
        /\ IsInjective(front)
    BY <1>1, EasierSorts
  <2>2. /\ rest \in Seq(A \ C) /\ Len(rest) = Cardinality(A \ C) /\ Range(rest) = A \ C
        /\ IsInjective(rest)
    BY <1>1, EasierSorts
  <2> HIDE DEF A, C, front, rest
  <2>3. Cardinality(A) = Cardinality(C) + Cardinality(A \ C)
    <3>1. IsFiniteSet(A) /\ IsFiniteSet(C) /\ IsFiniteSet(A \ C)
      BY <1>1, BankFacts, FS_Subset
    <3>2. A = C \cup (A \ C) /\ C \cap (A \ C) = {}
      BY <1>1
    <3>3. /\ Cardinality(C \cup (A \ C))
               = Cardinality(C) + Cardinality(A \ C) - Cardinality(C \cap (A \ C))
          /\ Cardinality(C) \in Nat /\ Cardinality(A \ C) \in Nat /\ Cardinality({}) = 0
      BY <3>1, FS_Union, FS_CardinalityType, FS_EmptySet
    <3>4. Cardinality(C \cap (A \ C)) = 0 /\ Cardinality(A) = Cardinality(C \cup (A \ C))
      BY ONLY <3>2, FS_EmptySet, Zenon
    <3> QED BY ONLY <3>3, <3>4, SMT
  <2>4. front \in Seq(A) /\ rest \in Seq(A)
    BY <1>1, <2>1, <2>2
  <2>5. s \in Seq(A) /\ Len(s) = Len(front) + Len(rest) /\ DOMAIN s = 1..Len(s)
    BY <1>3, <2>4
  <2>6. /\ \A i \in 1..Len(front) : s[i] = front[i]
        /\ \A i \in 1..Len(rest) : s[Len(front) + i] = rest[i]
        /\ \A i \in 1..Len(s) : i \in 1..Len(front) \/ i - Len(front) \in 1..Len(rest)
    BY <1>3, <2>4, <2>5
  <2>7. \A i \in 1..Len(s) :
          \/ i \in 1..Len(front) /\ s[i] = front[i] /\ s[i] \in C
          \/ /\ i - Len(front) \in 1..Len(rest) /\ s[i] = rest[i - Len(front)]
             /\ s[i] \in A \ C
    <3> SUFFICES ASSUME NEW i \in 1..Len(s), i \notin 1..Len(front)
                 PROVE  /\ i - Len(front) \in 1..Len(rest) /\ s[i] = rest[i - Len(front)]
                        /\ s[i] \in A \ C
      BY <2>1, <2>6
    <3>1. i - Len(front) \in 1..Len(rest)
      BY <2>6
    <3>2. Len(front) + (i - Len(front)) = i
      BY <2>4
    <3>3. s[Len(front) + (i - Len(front))] = rest[i - Len(front)]
      BY ONLY <2>6, <3>1
    <3> QED BY <2>2, <3>1, <3>2, <3>3
  <2>8. IsInjective(s)
    <3> SUFFICES ASSUME NEW i \in 1..Len(s), NEW j \in 1..Len(s), s[i] = s[j] PROVE i = j
      BY <2>5 DEF IsInjective
    <3>1. CASE i \in 1..Len(front) /\ j \in 1..Len(front)
      BY <2>1, <2>6, <3>1 DEF IsInjective
    <3>2. CASE i - Len(front) \in 1..Len(rest) /\ j - Len(front) \in 1..Len(rest)
               /\ s[i] = rest[i - Len(front)] /\ s[j] = rest[j - Len(front)]
      <4>1. DOMAIN rest = 1..Len(rest)
        BY <2>2
      <4>2. i - Len(front) = j - Len(front)
        BY <2>2, <3>2, <4>1 DEF IsInjective
      <4> QED BY <2>4, <4>2
    <3> QED BY <2>7, <3>1, <3>2
  <2>9. Range(s) = A
    <3>1. ASSUME NEW x \in A PROVE \E i \in DOMAIN s : s[i] = x
      <4>1. CASE x \in C
        <5>1. PICK i \in DOMAIN front : front[i] = x
          BY <2>1, <4>1 DEF Range
        <5>2. i \in 1..Len(front) /\ i \in 1..Len(s)
          BY <2>4, <2>5, <5>1
        <5> QED BY <2>5, <2>6, <5>1, <5>2
      <4>2. CASE x \in A \ C
        <5>1. PICK i \in DOMAIN rest : rest[i] = x
          BY <2>2, <4>2 DEF Range
        <5>2. i \in 1..Len(rest) /\ Len(front) + i \in 1..Len(s)
          BY <2>4, <2>5, <5>1
        <5> QED BY <2>5, <2>6, <5>1, <5>2
      <4> QED BY <4>1, <4>2
    <3>2. \A i \in DOMAIN s : s[i] \in A
      BY <1>1, <2>5, <2>7
    <3> QED BY <3>1, <3>2 DEF Range
  <2> QED BY <2>1, <2>2, <2>3, <2>5, <2>8, <2>9 DEF A
<1> QED BY <1>2, <1>3 DEF TopicPaper

(* Being further behind is transitive: shares are compared as fractions.   *)
LEMMA FractionsOrdered ==
  ASSUME NEW a \in Nat, NEW b \in Nat, NEW c \in Nat,
         NEW p \in Nat \ {0}, NEW q \in Nat \ {0}, NEW r \in Nat \ {0},
         a * q <= b * p, b * r <= c * q
  PROVE  /\ a * r <= c * p
         /\ (a * q < b * p \/ b * r < c * q) => a * r < c * p
<1>1. \A x, y, z \in Nat : x * y \in Nat /\ x * y = y * x /\ (x * y) * z = x * (y * z)
  OBVIOUS
<1>2. \A x, y, z \in Nat : x <= y => x * z <= y * z
  OBVIOUS
<1>3. \A x, y \in Nat, z \in Nat \ {0} : x < y => x * z < y * z
  OBVIOUS
<1>4. (a * q) * r = (a * r) * q /\ (b * p) * r = (b * r) * p /\ (c * q) * p = (c * p) * q
  BY ONLY <1>1
<1>5. (a * q) * r <= (b * p) * r /\ (b * r) * p <= (c * q) * p
  BY ONLY <1>1, <1>2, a * q <= b * p, b * r <= c * q
<1>6. /\ a * q < b * p => (a * q) * r < (b * p) * r
      /\ b * r < c * q => (b * r) * p < (c * q) * p
  BY ONLY <1>1, <1>3
<1>7. /\ (a * q) * r \in Nat /\ (b * p) * r \in Nat /\ (b * r) * p \in Nat /\ (c * q) * p \in Nat
      /\ (a * r) * q \in Nat /\ (c * p) * q \in Nat /\ a * r \in Nat /\ c * p \in Nat
  BY ONLY <1>1
<1>8. /\ (a * r) * q <= (c * p) * q
      /\ (a * q < b * p \/ b * r < c * q) => (a * r) * q < (c * p) * q
  BY ONLY <1>4, <1>5, <1>6, <1>7
<1>9. /\ ~(a * r <= c * p) => (c * p) * q < (a * r) * q
      /\ ~(a * r < c * p) => (c * p) * q <= (a * r) * q
  <2>1. /\ ~(a * r <= c * p) => c * p < a * r
        /\ ~(a * r < c * p) => c * p <= a * r
    BY ONLY <1>7
  <2> QED BY ONLY <1>2, <1>3, <1>7, <2>1
<1> QED BY ONLY <1>7, <1>8, <1>9

LEMMA BehindOrders ==
  ASSUME NEW open \in SUBSET SimTopics, NEW taken \in [SimTopics -> Nat],
         NEW R, R = {p \in open \X open : Behind(taken, p[1], p[2])}
  PROVE  OrderOn(R, open)
<1>1. \A t \in open : t \in Nat /\ QuotaOf[t] \in Nat /\ taken[t] \in Nat
  BY SimulationSizes
<1>2. \A t, u \in open : <<t, u>> \in R <=> Behind(taken, t, u)
  OBVIOUS
<1>3. \A t \in open : ~Behind(taken, t, t)
  BY <1>1 DEF Behind
<1>4. \A t, u \in open : t = u \/ Behind(taken, t, u) \/ Behind(taken, u, t)
  <2>1. \A x, y \in Nat : x * y \in Nat
    OBVIOUS
  <2>2. \A t, u \in open : taken[t] * QuotaOf[u] \in Nat /\ taken[u] * QuotaOf[t] \in Nat
    BY ONLY <1>1, <2>1
  <2> QED BY <1>1, <2>2 DEF Behind
<1>5. ASSUME NEW t \in open, NEW u \in open, NEW v \in open,
             Behind(taken, t, u), Behind(taken, u, v)
      PROVE  Behind(taken, t, v)
  <2> DEFINE p == QuotaOf[t]  q == QuotaOf[u]  r == QuotaOf[v]
             a == taken[t]  b == taken[u]  c == taken[v]
  <2>1. /\ p \in Nat /\ q \in Nat /\ r \in Nat /\ a \in Nat /\ b \in Nat /\ c \in Nat
        /\ t \in Nat /\ u \in Nat /\ v \in Nat
    BY <1>1
  <2>2. /\ IF p = 0 THEN q = 0 /\ t < u
           ELSE IF q = 0 THEN TRUE ELSE a * q < b * p \/ (a * q = b * p /\ t < u)
        /\ IF q = 0 THEN r = 0 /\ u < v
           ELSE IF r = 0 THEN TRUE ELSE b * r < c * q \/ (b * r = c * q /\ u < v)
    BY <1>5 DEF Behind
  <2>3. Behind(taken, t, v) <=>
          IF p = 0 THEN r = 0 /\ t < v
          ELSE IF r = 0 THEN TRUE ELSE a * r < c * p \/ (a * r = c * p /\ t < v)
    BY DEF Behind
  <2> HIDE DEF p, q, r, a, b, c
  <2>4. CASE p = 0 \/ q = 0 \/ r = 0
    BY ONLY <2>1, <2>2, <2>3, <2>4
  <2>5. CASE p # 0 /\ q # 0 /\ r # 0
    <3>1. /\ a * q \in Nat /\ b * p \in Nat /\ b * r \in Nat /\ c * q \in Nat
          /\ a * r \in Nat /\ c * p \in Nat
      <4>1. \A x, y \in Nat : x * y \in Nat
        OBVIOUS
      <4> QED BY ONLY <2>1, <4>1
    <3>2. /\ a * q < b * p \/ (a * q = b * p /\ t < u)
          /\ b * r < c * q \/ (b * r = c * q /\ u < v)
      BY ONLY <2>2, <2>5
    <3>3. a * q <= b * p /\ b * r <= c * q
      BY ONLY <3>1, <3>2
    <3>4. /\ a * r <= c * p
          /\ (a * q < b * p \/ b * r < c * q) => a * r < c * p
      BY <2>1, <2>5, <3>3, FractionsOrdered
    <3>5. a * r < c * p \/ (a * r = c * p /\ t < v)
      <4>1. a * r < c * p \/ a * r = c * p
        BY ONLY <3>1, <3>4
      <4>2. (t < u /\ u < v) => t < v
        BY ONLY <2>1
      <4> QED BY ONLY <3>2, <3>4, <4>1, <4>2
    <3> QED BY ONLY <2>3, <2>5, <3>5
  <2> QED BY <2>4, <2>5
<1> QED BY <1>2, <1>3, <1>4, <1>5 DEF OrderOn

(* Some topic that has items left is the furthest behind.                  *)
LEMMA FurthestBehind ==
  ASSUME NEW open \in SUBSET SimTopics, open # {}, NEW taken \in [SimTopics -> Nat]
  PROVE  \E t \in open : \A u \in open \ {t} : Behind(taken, t, u)
<1> DEFINE R == {p \in open \X open : Behind(taken, p[1], p[2])}
<1>1. IsFiniteSet(open)
  BY SimulationSizes, FS_Subset
<1>2. \A t, u \in open : <<t, u>> \in R => Behind(taken, t, u)
  OBVIOUS
<1>3. OrderOn(R, open)
  BY BehindOrders
<1> HIDE DEF R
<1>4. PICK t \in open : PlaceIn(R, open, t) = 0
  BY <1>1, <1>3, Places
<1>5. Earlier(R, open, t) = {}
  <2>1. Earlier(R, open, t) \subseteq open
    BY DEF Earlier
  <2> QED BY <1>1, <1>4, <2>1, FS_Subset, FS_EmptySet DEF PlaceIn
<1>6. ASSUME NEW u \in open \ {t} PROVE Behind(taken, t, u)
  <2>1. <<u, t>> \notin R
    BY <1>5 DEF Earlier
  <2>2. <<t, u>> \in R
    BY <1>3, <2>1 DEF OrderOn
  <2> QED BY <1>2, <2>2
<1> QED BY <1>4, <1>6

(* The paper is built item by item.                                        *)
NoPaper == [taken |-> [t \in SimTopics |-> 0], paper |-> <<>>]

LEMMA PaperGrows ==
  /\ PaperUpTo[0] = NoPaper
  /\ \A n \in 1..Len(SimBank) : PaperUpTo[n] = AddToPaper(PaperUpTo[n - 1])
<1> DEFINE N == Len(SimBank)
           Built(m, f) == f = [n \in 0..m |-> IF n = 0 THEN NoPaper ELSE AddToPaper(f[n - 1])]
           S == {m \in Nat : \E f : Built(m, f)}
<1>1. 0 \in S
  <2>1. Built(0, [n \in 0..0 |-> NoPaper])
    OBVIOUS
  <2> QED BY <2>1
<1>2. ASSUME NEW m \in Nat, m \in S PROVE m + 1 \in S
  <2>1. PICK f : Built(m, f)
    BY <1>2
  <2> DEFINE g == [n \in 0..(m + 1) |-> IF n = m + 1 THEN AddToPaper(f[m]) ELSE f[n]]
  <2>2. ASSUME NEW n \in 0..(m + 1)
        PROVE  g[n] = IF n = 0 THEN NoPaper ELSE AddToPaper(g[n - 1])
    <3>1. CASE n = m + 1
      <4>1. n # 0 /\ n - 1 = m /\ m \in 0..(m + 1) /\ m # m + 1
        BY <3>1
      <4>2. g[n] = AddToPaper(f[m]) /\ g[n - 1] = f[m]
        BY <3>1, <4>1
      <4> QED BY <4>1, <4>2
    <3>2. CASE n # m + 1 /\ n = 0
      <4>1. n \in 0..m /\ g[n] = f[n]
        BY <3>2
      <4> QED BY <2>1, <3>2, <4>1
    <3>3. CASE n # m + 1 /\ n # 0
      <4>1. n \in 0..m /\ n - 1 \in 0..(m + 1) /\ n - 1 # m + 1
        BY <3>3
      <4>2. g[n] = f[n] /\ g[n - 1] = f[n - 1]
        BY <3>3, <4>1
      <4>3. f[n] = AddToPaper(f[n - 1])
        BY <2>1, <3>3, <4>1
      <4> QED BY <3>3, <4>2, <4>3
    <3> QED BY <3>1, <3>2, <3>3
  <2>3. g = [n \in 0..(m + 1) |-> g[n]]
    OBVIOUS
  <2> HIDE DEF g
  <2>4. Built(m + 1, g)
    BY <2>2, <2>3
  <2> HIDE DEF Built
  <2> QED BY <2>4
<1>3. N \in Nat
  BY BankFacts
<1> HIDE DEF S
<1>4. N \in S
  BY <1>1, <1>2, <1>3, NatSetInduction DEF S
<1>5. \E f : Built(N, f)
  BY <1>4 DEF S
<1>6. Built(N, PaperUpTo)
  BY <1>5, Zenon DEF PaperUpTo, NoPaper
<1> HIDE DEF N
<1>7. ASSUME NEW n \in 0..N
      PROVE  PaperUpTo[n] = IF n = 0 THEN NoPaper ELSE AddToPaper(PaperUpTo[n - 1])
  BY <1>6, Zenon
<1>8. 0 \in 0..N /\ \A n \in 1..N : n \in 0..N /\ n # 0
  BY <1>3
<1> QED BY <1>7, <1>8 DEF N

(* One more of one thing.                                                  *)
LEMMA SumBump ==
  ASSUME NEW D, IsFiniteSet(D), NEW f \in [D -> Nat], NEW x \in D,
         NEW g, g = [f EXCEPT ![x] = @ + 1]
  PROVE  g \in [D -> Nat] /\ SumOf(g, D) = SumOf(f, D) + 1 /\ SumOf(f, D) \in Nat
<1> DEFINE T == D \ {x}
<1>1. g \in [D -> Nat] /\ g[x] = f[x] + 1 /\ f[x] \in Nat /\ \A y \in T : f[y] = g[y]
  OBVIOUS
<1>2. T \in SUBSET D /\ T \subseteq D /\ D \in SUBSET D /\ D \ {x} = T
  OBVIOUS
<1> HIDE DEF T
<1>3. /\ SumOf(f, D) = f[x] + SumOf(f, T) /\ SumOf(f, D) \in Nat
      /\ SumOf(g, D) = g[x] + SumOf(g, T)
  <2>1. ASSUME NEW h \in [D -> Nat]
        PROVE  SumOf(h, D) = h[x] + SumOf(h, T) /\ SumOf(h, D) \in Nat
    <3>1. \A S \in SUBSET D : IsFiniteSet(S) =>
            /\ SumOf(h, S) \in Nat
            /\ \A y \in S : SumOf(h, S) = h[y] + SumOf(h, S \ {y})
      <4>1. h \in [D -> Nat]
        OBVIOUS
      <4> QED BY ONLY <4>1, SumTakesAny
    <3>2. SumOf(h, D) \in Nat /\ \A y \in D : SumOf(h, D) = h[y] + SumOf(h, D \ {y})
      BY <1>2, <3>1
    <3> QED BY <1>2, <3>2
  <2> QED BY <1>1, <2>1
<1>4. SumOf(f, T) = SumOf(g, T)
  BY ONLY <1>1, <1>2, SumSame, IsFiniteSet(D), f \in [D -> Nat]
<1>5. SumOf(f, T) \in Nat
  BY <1>2, FS_Subset, SumTakesAny
<1> QED BY ONLY <1>1, <1>3, <1>4, <1>5

(* As many elements as places.                                             *)
LEMMA RangeCounts ==
  ASSUME NEW A, NEW s \in Seq(A), IsInjective(s)
  PROVE  IsFiniteSet(Range(s)) /\ Cardinality(Range(s)) = Len(s)
<1>1. Len(s) \in Nat /\ s \in [1..Len(s) -> A]
  OBVIOUS
<1>2. IsFiniteSet(1..Len(s)) /\ Cardinality(1..Len(s)) = Len(s)
  BY <1>1, PlacesUpTo
<1> DEFINE D == 1..Len(s)
<1>3. s \in [D -> A] /\ IsFiniteSet(D) /\ Cardinality(D) = Len(s)
  BY <1>1, <1>2
<1> HIDE DEF D
<1>4. s \in Surjection(D, Range(s)) /\ s \in Injection(D, Range(s))
  BY <1>3 DEF Surjection, Injection, IsInjective, Range
<1> QED BY <1>3, <1>4, FS_Surjection

(* Where an item comes in its topic's part of the paper.                   *)
PlaceOnPaper(i) == Rank(TopicPaper(TopicOf(i)), i)

LEMMA PlacesOnPaper ==
  /\ \A t \in SimTopics : /\ Len(TopicPaper(t)) \in Nat
                          /\ \A k \in 1..Len(TopicPaper(t)) :
                               LET x == TopicPaper(t)[k]
                               IN  x \in Items /\ TopicOf(x) = t /\ PlaceOnPaper(x) = k
  /\ \A i \in Items : /\ PlaceOnPaper(i) \in 1..Len(TopicPaper(TopicOf(i)))
                      /\ TopicPaper(TopicOf(i))[PlaceOnPaper(i)] = i
<1>1. ASSUME NEW t \in SimTopics, NEW k \in 1..Len(TopicPaper(t)), NEW x, x = TopicPaper(t)[k]
      PROVE  x \in Items /\ TopicOf(x) = t /\ PlaceOnPaper(x) = k
  <2>1. TopicPaper(t) \in Seq(OfTopic(t)) /\ IsInjective(TopicPaper(t))
    BY TopicOnPaper
  <2>2. x \in OfTopic(t)
    BY <1>1, <2>1
  <2>3. Rank(TopicPaper(t), x) = k
    BY <1>1, <2>1, RankFacts
  <2> QED BY <2>2, <2>3 DEF OfTopic, TopicOf, PlaceOnPaper
<1>2. ASSUME NEW i \in Items
      PROVE  /\ PlaceOnPaper(i) \in 1..Len(TopicPaper(TopicOf(i)))
             /\ TopicPaper(TopicOf(i))[PlaceOnPaper(i)] = i
  <2> DEFINE t == TopicOf(i)
  <2>1. i \in OfTopic(t)
    BY DEF OfTopic, TopicOf
  <2>2. TopicPaper(t) \in Seq(OfTopic(t)) /\ Range(TopicPaper(t)) = OfTopic(t)
    BY TopicOnPaper
  <2> QED BY <2>1, <2>2, RankFacts DEF PlaceOnPaper
<1>3. \A t \in SimTopics : Len(TopicPaper(t)) \in Nat
  BY TopicOnPaper
<1> QED BY <1>1, <1>2, <1>3

(* What a paper of n items is like: of each topic it has the first ones.   *)
Laid(acc, n) ==
  /\ acc.taken \in [SimTopics -> Nat]
  /\ \A t \in SimTopics : acc.taken[t] <= Len(TopicPaper(t))
  /\ SumOf(acc.taken, SimTopics) = n
  /\ acc.paper \in Seq(Items) /\ Len(acc.paper) = n /\ IsInjective(acc.paper)
  /\ Range(acc.paper) = {i \in Items : PlaceOnPaper(i) <= acc.taken[TopicOf(i)]}

LEMMA NothingLaid == Laid(NoPaper, 0)
<1>1. /\ NoPaper.taken = [t \in SimTopics |-> 0] /\ NoPaper.taken \in [SimTopics -> Nat]
      /\ \A t \in SimTopics : NoPaper.taken[t] = 0
      /\ NoPaper.paper = <<>>
  BY DEF NoPaper
<1>2. SumOf(NoPaper.taken, SimTopics) = 0
  BY <1>1, SimulationSizes, SumOfNothing
<1>3. {i \in Items : PlaceOnPaper(i) <= NoPaper.taken[TopicOf(i)]} = {}
  <2> SUFFICES ASSUME NEW i \in Items PROVE ~(PlaceOnPaper(i) <= NoPaper.taken[TopicOf(i)])
    OBVIOUS
  <2>1. /\ TopicOf(i) \in SimTopics
        /\ PlaceOnPaper(i) \in 1..Len(TopicPaper(TopicOf(i)))
        /\ Len(TopicPaper(TopicOf(i))) \in Nat
    BY BankFacts, PlacesOnPaper
  <2> QED BY <1>1, <2>1
<1>4. \A t \in SimTopics : NoPaper.taken[t] <= Len(TopicPaper(t))
  BY <1>1, PlacesOnPaper
<1>5. Range(<<>>) = {} /\ IsInjective(<<>>) /\ <<>> \in Seq(Items) /\ Len(<<>>) = 0
  BY DEF Range, IsInjective
<1> QED BY <1>1, <1>2, <1>3, <1>4, <1>5 DEF Laid

(* As long as it is not the whole bank, it goes on, with the topic that is *)
(* furthest behind.                                                        *)
LEMMA PaperStep ==
  ASSUME NEW acc, NEW n \in Nat, Laid(acc, n), n < Len(SimBank),
         NEW new, new = AddToPaper(acc)
  PROVE  /\ Laid(new, n + 1)
         /\ \A k \in 1..n : new.paper[k] = acc.paper[k]
         /\ \E t \in SimTopics :
              /\ new.taken = [acc.taken EXCEPT ![t] = @ + 1]
              /\ \A u \in SimTopics \ {t} :
                   acc.taken[u] < Len(TopicPaper(u)) => Behind(acc.taken, t, u)
<1> DEFINE open == {t \in SimTopics : acc.taken[t] < Len(TopicPaper(t))}
           taken == acc.taken
           paper == acc.paper
<1>1. /\ taken \in [SimTopics -> Nat]
      /\ \A t \in SimTopics : taken[t] <= Len(TopicPaper(t))
      /\ SumOf(taken, SimTopics) = n
      /\ paper \in Seq(Items) /\ Len(paper) = n /\ IsInjective(paper)
      /\ Range(paper) = {i \in Items : PlaceOnPaper(i) <= taken[TopicOf(i)]}
  BY DEF Laid
<1>2. open # {}
  <2> SUFFICES ASSUME open = {} PROVE FALSE
    OBVIOUS
  <2>1. \A i \in Items : PlaceOnPaper(i) <= taken[TopicOf(i)]
    <3> SUFFICES ASSUME NEW i \in Items PROVE PlaceOnPaper(i) <= taken[TopicOf(i)]
      OBVIOUS
    <3>1. TopicOf(i) \in SimTopics
      BY BankFacts
    <3>2. /\ PlaceOnPaper(i) \in 1..Len(TopicPaper(TopicOf(i)))
          /\ Len(TopicPaper(TopicOf(i))) \in Nat
      BY <3>1, PlacesOnPaper
    <3> QED BY <1>1, <3>1, <3>2
  <2>2. Range(paper) = Items
    BY <1>1, <2>1
  <2>3. Cardinality(Range(paper)) = n
    BY <1>1, RangeCounts
  <2> QED BY <2>2, <2>3, BankFacts
<1>3. PICK t \in open : /\ \A u \in open \ {t} : Behind(taken, t, u)
                        /\ t = CHOOSE v \in open : \A u \in open \ {v} : Behind(taken, v, u)
  <2>1. \E v \in open : \A u \in open \ {v} : Behind(taken, v, u)
    BY <1>1, <1>2, FurthestBehind
  <2> QED BY <2>1
<1> DEFINE x == TopicPaper(t)[taken[t] + 1]
<1>4. new = [taken |-> [taken EXCEPT ![t] = @ + 1], paper |-> Append(paper, x)]
  BY <1>3 DEF AddToPaper
<1>5. new.taken = [taken EXCEPT ![t] = @ + 1] /\ new.paper = Append(paper, x)
  BY <1>4
<1>6. /\ t \in SimTopics /\ taken[t] \in Nat /\ taken[t] < Len(TopicPaper(t))
      /\ Len(TopicPaper(t)) \in Nat
  BY <1>1, PlacesOnPaper
<1>7. x \in Items /\ TopicOf(x) = t /\ PlaceOnPaper(x) = taken[t] + 1
  BY <1>6, PlacesOnPaper
<1>8. new.taken \in [SimTopics -> Nat] /\ SumOf(new.taken, SimTopics) = n + 1
  <2>1. IsFiniteSet(SimTopics)
    BY SimulationSizes
  <2>2. /\ taken \in [SimTopics -> Nat] /\ t \in SimTopics
        /\ new.taken = [taken EXCEPT ![t] = @ + 1]
    BY <1>1, <1>5, <1>6
  <2>3. /\ new.taken \in [SimTopics -> Nat]
        /\ SumOf(new.taken, SimTopics) = SumOf(taken, SimTopics) + 1
    BY ONLY <2>1, <2>2, SumBump
  <2> QED BY <1>1, <2>3
<1>9. \A u \in SimTopics : new.taken[u] <= Len(TopicPaper(u))
  BY <1>1, <1>5, <1>6
<1>10. x \notin Range(paper)
  BY <1>1, <1>6, <1>7
<1> HIDE DEF x
<1>11. /\ new.paper \in Seq(Items) /\ Len(new.paper) = n + 1
       /\ \A k \in 1..n : new.paper[k] = paper[k]
       /\ new.paper[n + 1] = x
  BY <1>1, <1>5, <1>7
<1>12. IsInjective(new.paper)
  <2>0. DOMAIN new.paper = 1..(n + 1)
    BY <1>11
  <2> SUFFICES ASSUME NEW i \in 1..(n + 1), NEW j \in 1..(n + 1), new.paper[i] = new.paper[j]
               PROVE  i = j
    BY <2>0 DEF IsInjective
  <2>1. \A k \in 1..n : paper[k] # x
    BY <1>1, <1>10 DEF Range
  <2>2. DOMAIN paper = 1..n
    BY <1>1
  <2>3. CASE i \in 1..n /\ j \in 1..n
    <3>1. paper[i] = paper[j]
      BY <1>11, <2>3
    <3> QED BY <1>1, <2>2, <2>3, <3>1 DEF IsInjective
  <2>4. CASE i = n + 1 /\ j \in 1..n
    BY <1>11, <2>1, <2>4
  <2>5. CASE i \in 1..n /\ j = n + 1
    BY <1>11, <2>1, <2>5
  <2>6. (i \in 1..n \/ i = n + 1) /\ (j \in 1..n \/ j = n + 1)
    OBVIOUS
  <2> QED BY <2>3, <2>4, <2>5, <2>6
<1>13. Range(new.paper) = Range(paper) \cup {x}
  <2>1. DOMAIN new.paper = 1..(n + 1) /\ DOMAIN paper = 1..n
    BY <1>1, <1>11
  <2>2. \A k \in 1..(n + 1) : k \in 1..n \/ k = n + 1
    OBVIOUS
  <2>3. (\A k \in 1..n : k \in 1..(n + 1)) /\ n + 1 \in 1..(n + 1)
    OBVIOUS
  <2> QED BY <1>11, <2>1, <2>2, <2>3 DEF Range
<1>14. \A i \in Items : PlaceOnPaper(i) <= new.taken[TopicOf(i)]
                        <=> PlaceOnPaper(i) <= taken[TopicOf(i)] \/ i = x
  <2> SUFFICES ASSUME NEW i \in Items
               PROVE  PlaceOnPaper(i) <= new.taken[TopicOf(i)]
                      <=> PlaceOnPaper(i) <= taken[TopicOf(i)] \/ i = x
    OBVIOUS
  <2>1. TopicOf(i) \in SimTopics
    BY BankFacts
  <2>2. CASE TopicOf(i) # t
    BY <1>5, <1>6, <1>7, <2>1, <2>2, <1>1
  <2>3. CASE TopicOf(i) = t
    <3>1. new.taken[t] = taken[t] + 1
      BY <1>1, <1>5, <1>6
    <3>2. /\ PlaceOnPaper(i) \in 1..Len(TopicPaper(t)) /\ TopicPaper(t)[PlaceOnPaper(i)] = i
          /\ TopicPaper(t)[PlaceOnPaper(x)] = x
      BY <1>7, <2>3, PlacesOnPaper
    <3>3. PlaceOnPaper(i) = taken[t] + 1 <=> i = x
      BY <1>7, <3>2
    <3> QED BY <1>6, <2>3, <3>1, <3>2, <3>3
  <2> QED BY <2>2, <2>3
<1>15. Range(new.paper) = {i \in Items : PlaceOnPaper(i) <= new.taken[TopicOf(i)]}
  BY <1>1, <1>7, <1>13, <1>14
<1>16. Laid(new, n + 1)
  BY <1>8, <1>9, <1>11, <1>12, <1>15 DEF Laid
<1>17. \A u \in SimTopics \ {t} :
         taken[u] < Len(TopicPaper(u)) => Behind(taken, t, u)
  BY <1>3
<1> QED BY <1>5, <1>6, <1>11, <1>16, <1>17

LEMMA PaperIsLaid ==
  \A n \in 0..Len(SimBank) :
    /\ Laid(PaperUpTo[n], n)
    /\ \A m \in 0..n : \A k \in 1..m : PaperUpTo[n].paper[k] = PaperUpTo[m].paper[k]
<1> DEFINE S == {n \in Nat : n <= Len(SimBank) =>
                   /\ Laid(PaperUpTo[n], n)
                   /\ \A m \in 0..n : \A k \in 1..m :
                        PaperUpTo[n].paper[k] = PaperUpTo[m].paper[k]}
<1>1. 0 \in S
  BY PaperGrows, NothingLaid
<1>2. ASSUME NEW n \in Nat, n \in S PROVE n + 1 \in S
  <2> SUFFICES ASSUME n + 1 <= Len(SimBank)
               PROVE  /\ Laid(PaperUpTo[n + 1], n + 1)
                      /\ \A m \in 0..(n + 1) : \A k \in 1..m :
                           PaperUpTo[n + 1].paper[k] = PaperUpTo[m].paper[k]
    OBVIOUS
  <2>1. /\ n < Len(SimBank) /\ n <= Len(SimBank) /\ n + 1 \in 1..Len(SimBank)
        /\ (n + 1) - 1 = n /\ n \in 0..n
    BY BankFacts
  <2>2. /\ Laid(PaperUpTo[n], n)
        /\ \A m \in 0..n : \A k \in 1..m : PaperUpTo[n].paper[k] = PaperUpTo[m].paper[k]
    BY <1>2, <2>1
  <2>3. PaperUpTo[n + 1] = AddToPaper(PaperUpTo[n])
    BY <2>1, PaperGrows
  <2>4. /\ Laid(PaperUpTo[n + 1], n + 1)
        /\ \A k \in 1..n : PaperUpTo[n + 1].paper[k] = PaperUpTo[n].paper[k]
    BY <2>1, <2>2, <2>3, PaperStep
  <2>5. ASSUME NEW m \in 0..(n + 1), NEW k \in 1..m
        PROVE  PaperUpTo[n + 1].paper[k] = PaperUpTo[m].paper[k]
    <3>1. CASE m = n + 1
      BY <3>1
    <3>2. CASE m # n + 1
      <4>1. m \in 0..n /\ k \in 1..n
        BY <3>2
      <4> QED BY <2>2, <2>4, <4>1
    <3> QED BY <3>1, <3>2
  <2> QED BY <2>4, <2>5
<1> HIDE DEF S
<1>3. \A n \in Nat : n \in S
  BY <1>1, <1>2, NatSetInduction
<1>4. \A n \in 0..Len(SimBank) : n \in Nat /\ n <= Len(SimBank)
  BY BankFacts
<1> QED BY <1>3, <1>4 DEF S

(* No topic gets more than its quota while another still waits for its.    *)
LEMMA QuotasComeFirst ==
  ASSUME \A t \in SimTopics : QuotaOf[t] <= Cardinality(OfTopic(t)),
         NEW total, total = SumOf(QuotaOf, SimTopics)
  PROVE  \A n \in Nat : n <= Len(SimBank) /\ n <= total =>
           \A t \in SimTopics : PaperUpTo[n].taken[t] <= QuotaOf[t]
<1> DEFINE S == {n \in Nat : n <= Len(SimBank) /\ n <= total =>
                   \A t \in SimTopics : PaperUpTo[n].taken[t] <= QuotaOf[t]}
<1>1. QuotaOf \in [SimTopics -> Nat] /\ IsFiniteSet(SimTopics) /\ SimTopics \in SUBSET SimTopics
  BY SimulationSizes
<1>2. total \in Nat
  BY <1>1, SumTakesAny
<1>3. 0 \in S
  <2>1. \A t \in SimTopics : PaperUpTo[0].taken[t] = 0
    BY PaperGrows DEF NoPaper
  <2> QED BY <1>1, <2>1
<1>4. ASSUME NEW n \in Nat, n \in S PROVE n + 1 \in S
  <2> SUFFICES ASSUME n + 1 <= Len(SimBank), n + 1 <= total,
                      NEW v \in SimTopics
               PROVE  PaperUpTo[n + 1].taken[v] <= QuotaOf[v]
    OBVIOUS
  <2> DEFINE acc == PaperUpTo[n]
             new == PaperUpTo[n + 1]
             taken == acc.taken
  <2>1. /\ n < Len(SimBank) /\ n < total /\ n <= Len(SimBank) /\ n <= total
        /\ n + 1 \in 1..Len(SimBank) /\ (n + 1) - 1 = n /\ n \in 0..Len(SimBank)
    BY <1>2, BankFacts
  <2>2. Laid(acc, n) /\ new = AddToPaper(acc)
    BY <2>1, PaperIsLaid, PaperGrows
  <2>3. \A t \in SimTopics : taken[t] <= QuotaOf[t]
    BY <1>4, <2>1
  <2>4. taken \in [SimTopics -> Nat] /\ SumOf(taken, SimTopics) = n
    BY <2>2 DEF Laid
  <2> HIDE DEF acc, new
  <2>5. PICK t \in SimTopics :
          /\ new.taken = [taken EXCEPT ![t] = @ + 1]
          /\ \A u \in SimTopics \ {t} :
               taken[u] < Len(TopicPaper(u)) => Behind(taken, t, u)
    BY <2>1, <2>2, PaperStep
  <2> HIDE DEF taken
  <2>6. PICK u \in SimTopics : taken[u] < QuotaOf[u]
    <3> SUFFICES ASSUME \A u \in SimTopics : ~(taken[u] < QuotaOf[u]) PROVE FALSE
      OBVIOUS
    <3>1. \A u \in SimTopics : QuotaOf[u] <= taken[u]
      BY <1>1, <2>4
    <3>2. SumOf(QuotaOf, SimTopics) <= SumOf(taken, SimTopics)
      BY <1>1, <2>4, <3>1, SumMonotone
    <3> QED BY <1>2, <2>1, <2>4, <3>2
  <2>7. taken[t] < QuotaOf[t]
    <3>1. CASE u = t
      BY <2>6, <3>1
    <3>2. CASE u # t
      <4>1. Len(TopicPaper(u)) = Cardinality(OfTopic(u)) /\ Len(TopicPaper(u)) \in Nat
        BY TopicOnPaper, PlacesOnPaper
      <4>2. taken[u] < Len(TopicPaper(u))
        BY <1>1, <2>4, <2>6, <4>1
      <4>3. Behind(taken, t, u)
        BY <2>5, <3>2, <4>2
      <4>4. /\ QuotaOf[t] # 0
            /\ taken[t] * QuotaOf[u] <= taken[u] * QuotaOf[t]
        <5>1. \A x, y \in Nat : x * y \in Nat
          OBVIOUS
        <5>2. QuotaOf[u] \in Nat /\ taken[u] \in Nat /\ QuotaOf[t] \in Nat /\ taken[t] \in Nat
          BY <1>1, <2>4
        <5>3. /\ taken[t] * QuotaOf[u] \in Nat /\ taken[u] * QuotaOf[t] \in Nat
              /\ QuotaOf[u] # 0
          BY ONLY <2>6, <5>1, <5>2
        <5> QED BY <4>3, <5>3 DEF Behind
      <4> DEFINE a == taken[t]  b == taken[u]  p == QuotaOf[t]  q == QuotaOf[u]
      <4>5. a \in Nat /\ b \in Nat /\ p \in Nat /\ q \in Nat /\ b < q /\ p # 0 /\ a * q <= b * p
        BY <1>1, <2>4, <2>6, <4>4
      <4> HIDE DEF a, b, p, q
      <4>6. b * p < q * p /\ (p <= a => p * q <= a * q)
        <5>1. \A x, y \in Nat, z \in Nat \ {0} : x < y => x * z < y * z
          OBVIOUS
        <5>2. \A x, y, z \in Nat : x <= y => x * z <= y * z
          OBVIOUS
        <5> QED BY ONLY <4>5, <5>1, <5>2
      <4>7. p * q = q * p /\ p * q \in Nat /\ a * q \in Nat /\ b * p \in Nat
        <5>1. \A x, y \in Nat : x * y = y * x /\ x * y \in Nat
          OBVIOUS
        <5> QED BY ONLY <4>5, <5>1
      <4>8. a < p
        BY ONLY <4>5, <4>6, <4>7
      <4> QED BY <4>8 DEF a, p
    <3> QED BY <3>1, <3>2
  <2>8. new.taken[v] <= QuotaOf[v]
    BY <1>1, <2>3, <2>4, <2>5, <2>7
  <2> QED BY <2>8 DEF new
<1> HIDE DEF S
<1>5. \A n \in Nat : n \in S
  BY <1>3, <1>4, NatSetInduction
<1> QED BY <1>5 DEF S

(* The first items of a topic, counted.                                    *)
LEMMA FirstOfTopic ==
  ASSUME NEW t \in SimTopics, NEW n \in Nat, n <= Cardinality(OfTopic(t))
  PROVE  Cardinality({i \in OfTopic(t) : PlaceOnPaper(i) <= n}) = n
<1> DEFINE s == TopicPaper(t)
           front == SubSeq(s, 1, n)
<1>1. /\ s \in Seq(OfTopic(t)) /\ Len(s) = Cardinality(OfTopic(t)) /\ IsInjective(s)
      /\ Len(s) \in Nat
  BY TopicOnPaper, PlacesOnPaper
<1>2. \A k \in 1..Len(s) : s[k] \in OfTopic(t) /\ PlaceOnPaper(s[k]) = k
  BY <1>1, PlacesOnPaper
<1>3. \A i \in OfTopic(t) : PlaceOnPaper(i) \in 1..Len(s) /\ s[PlaceOnPaper(i)] = i
  BY PlacesOnPaper DEF OfTopic, TopicOf
<1> HIDE DEF s
<1>4. front \in Seq(OfTopic(t)) /\ Len(front) = n /\ \A k \in 1..n : front[k] = s[k]
  BY <1>1
<1>5. DOMAIN front = 1..n /\ DOMAIN s = 1..Len(s)
  BY <1>1, <1>4
<1> HIDE DEF front
<1>6. IsInjective(front)
  BY <1>1, <1>4, <1>5 DEF IsInjective
<1>7. Range(front) = {i \in OfTopic(t) : PlaceOnPaper(i) <= n}
  <2>1. ASSUME NEW k \in 1..n
        PROVE  front[k] \in {i \in OfTopic(t) : PlaceOnPaper(i) <= n}
    BY <1>1, <1>2, <1>4
  <2>2. ASSUME NEW i \in OfTopic(t), PlaceOnPaper(i) <= n
        PROVE  \E k \in 1..n : front[k] = i
    <3>1. PlaceOnPaper(i) \in 1..n
      BY <1>1, <1>3, <2>2
    <3> QED BY <1>3, <1>4, <3>1
  <2> QED BY <1>5, <2>1, <2>2 DEF Range
<1> QED BY <1>4, <1>6, <1>7, RangeCounts

LEMMA TotalOfIsSum == \A f : TotalOf(f) = SumOf(f, DOMAIN f)
  BY DEF TotalOf, SumOf

(* A sum of smaller parts is equal only if the parts are.                  *)
LEMMA SameTotal ==
  ASSUME NEW D, IsFiniteSet(D), NEW f \in [D -> Nat], NEW g \in [D -> Nat],
         \A x \in D : f[x] <= g[x], SumOf(f, D) = SumOf(g, D)
  PROVE  \A x \in D : f[x] = g[x]
<1> SUFFICES ASSUME NEW x \in D PROVE f[x] = g[x]
  OBVIOUS
<1> DEFINE T == D \ {x}
<1>1. T \in SUBSET D /\ D \in SUBSET D /\ IsFiniteSet(T)
  BY FS_Subset
<1>2. SumOf(f, T) <= SumOf(g, T)
  BY <1>1, SumMonotone
<1>3. ASSUME NEW h \in [D -> Nat]
      PROVE  SumOf(h, D) = h[x] + SumOf(h, T) /\ SumOf(h, T) \in Nat /\ h[x] \in Nat
  <2>1. h \in [D -> Nat]
    OBVIOUS
  <2>2. \A S \in SUBSET D : IsFiniteSet(S) =>
          /\ SumOf(h, S) \in Nat
          /\ \A y \in S : SumOf(h, S) = h[y] + SumOf(h, S \ {y})
    BY ONLY <2>1, SumTakesAny
  <2> QED BY <1>1, <2>2
<1>4. /\ SumOf(f, D) = f[x] + SumOf(f, T) /\ SumOf(f, T) \in Nat /\ f[x] \in Nat
      /\ SumOf(g, D) = g[x] + SumOf(g, T) /\ SumOf(g, T) \in Nat /\ g[x] \in Nat
  BY <1>3
<1>5. f[x] <= g[x]
  OBVIOUS
<1> QED BY ONLY <1>2, <1>4, <1>5, SumOf(f, D) = SumOf(g, D)

(* The paper of the fixed strategy, whatever the bank and the quotas.      *)
LEMMA PaperCovers == PaperCoversTheBlueprint
<1> DEFINE N == Len(SimBank)
           acc == PaperUpTo[N]
           total == TotalOf(QuotaOf)
<1>1. N \in Nat /\ IsFiniteSet(Items) /\ Cardinality(Items) = N /\ N \in 0..N
  BY BankFacts
<1>2. /\ acc.taken \in [SimTopics -> Nat]
      /\ SumOf(acc.taken, SimTopics) = N
      /\ acc.paper \in Seq(Items) /\ Len(acc.paper) = N /\ IsInjective(acc.paper)
      /\ Range(acc.paper) = {i \in Items : PlaceOnPaper(i) <= acc.taken[TopicOf(i)]}
  BY <1>1, PaperIsLaid DEF Laid
<1>3. Range(acc.paper) = Items
  <2>1. Cardinality(Range(acc.paper)) = N
    BY <1>2, RangeCounts
  <2>2. Range(acc.paper) \in SUBSET Items
    BY <1>2
  <2> QED BY <1>1, <2>1, <2>2, FS_Subset
<1>4. FixedPaper = acc.paper
  BY DEF FixedPaper
<1>5. QuotaOf \in [SimTopics -> Nat] /\ IsFiniteSet(SimTopics) /\ SimTopics \in SUBSET SimTopics
  BY SimulationSizes
<1>6. total = SumOf(QuotaOf, SimTopics) /\ total \in Nat
  <2>1. DOMAIN QuotaOf = SimTopics
    BY <1>5
  <2>2. SumOf(QuotaOf, SimTopics) \in Nat
    BY <1>5, SumTakesAny
  <2> QED BY <2>1, <2>2, TotalOfIsSum
<1> HIDE DEF total, N, acc
<1>7. ASSUME \A t \in SimTopics : QuotaOf[t] <= Cardinality(OfTopic(t)), NEW t \in SimTopics,
             NEW front, front = SubSeq(FixedPaper, 1, total)
      PROVE  Cardinality({i \in Range(front) : SimBank[i].topic = t}) = QuotaOf[t]
  <2>1. \A n \in Nat : n <= N /\ n <= total =>
          \A u \in SimTopics : PaperUpTo[n].taken[u] <= QuotaOf[u]
    BY <1>6, <1>7, QuotasComeFirst DEF N
  <2>2. total <= N
    <3> SUFFICES ASSUME N < total PROVE FALSE
      BY <1>1, <1>6
    <3>1. ASSUME NEW u \in SimTopics PROVE QuotaOf[u] <= acc.taken[u]
      <4> SUFFICES ASSUME acc.taken[u] < QuotaOf[u] PROVE FALSE
        BY <1>2, <1>5
      <4>1. acc.taken[u] + 1 \in 1..Len(TopicPaper(u)) /\ acc.taken[u] \in Nat
        <5>1. Len(TopicPaper(u)) = Cardinality(OfTopic(u)) /\ Len(TopicPaper(u)) \in Nat
          BY TopicOnPaper, PlacesOnPaper
        <5>2. QuotaOf[u] <= Cardinality(OfTopic(u)) /\ QuotaOf[u] \in Nat /\ acc.taken[u] \in Nat
          BY <1>2, <1>5, <1>7
        <5> QED BY <5>1, <5>2
      <4>2. PICK x \in Items : TopicOf(x) = u /\ PlaceOnPaper(x) = acc.taken[u] + 1
        BY <4>1, PlacesOnPaper
      <4>3. PlaceOnPaper(x) <= acc.taken[u]
        BY <1>2, <1>3, <4>2
      <4> QED BY <4>1, <4>2, <4>3
    <3>2. SumOf(QuotaOf, SimTopics) <= SumOf(acc.taken, SimTopics)
      BY <1>2, <1>5, <3>1, SumMonotone
    <3> QED BY <1>1, <1>2, <1>6, <3>2
  <2> DEFINE then == PaperUpTo[total]
  <2>3. /\ then.taken \in [SimTopics -> Nat] /\ SumOf(then.taken, SimTopics) = total
        /\ then.paper \in Seq(Items) /\ Len(then.paper) = total
        /\ Range(then.paper) = {i \in Items : PlaceOnPaper(i) <= then.taken[TopicOf(i)]}
        /\ \A k \in 1..total : acc.paper[k] = then.paper[k]
    <3>1. total \in 0..Len(SimBank) /\ N \in 0..Len(SimBank) /\ total \in 0..N
      BY <1>1, <1>6, <2>2 DEF N
    <3>2. Laid(then, total)
      BY <3>1, PaperIsLaid
    <3>3. \A k \in 1..total : acc.paper[k] = then.paper[k]
      BY <3>1, PaperIsLaid DEF acc
    <3> QED BY <3>2, <3>3 DEF Laid
  <2>4. \A u \in SimTopics : then.taken[u] = QuotaOf[u]
    <3>1. \A u \in SimTopics : then.taken[u] <= QuotaOf[u]
      BY <1>6, <2>1, <2>2
    <3> HIDE DEF then
    <3>2. SumOf(then.taken, SimTopics) = SumOf(QuotaOf, SimTopics)
      BY <1>6, <2>3
    <3> QED BY ONLY <1>5, <2>3, <3>1, <3>2, SameTotal
  <2> HIDE DEF then
  <2>5. Range(front) = Range(then.paper)
    <3>1. front \in Seq(Items) /\ Len(front) = total /\ \A k \in 1..total : front[k] = acc.paper[k]
      <4> DEFINE p == acc.paper
      <4>1. p \in Seq(Items) /\ Len(p) = N /\ front = SubSeq(p, 1, total)
        BY <1>2, <1>4, <1>7
      <4> HIDE DEF p
      <4>2. front \in Seq(Items) /\ Len(front) = total /\ \A k \in 1..total : front[k] = p[k]
        BY <1>1, <1>6, <2>2, <4>1
      <4> QED BY <4>2 DEF p
    <3>2. DOMAIN front = 1..total /\ DOMAIN then.paper = 1..total
      BY <2>3, <3>1
    <3>3. \A k \in 1..total : front[k] = then.paper[k]
      BY <2>3, <3>1
    <3> QED BY <3>2, <3>3 DEF Range
  <2>6. {i \in Range(front) : SimBank[i].topic = t} = {i \in OfTopic(t) : PlaceOnPaper(i) <= QuotaOf[t]}
    <3>1. \A i \in Items : i \in Range(front) <=> PlaceOnPaper(i) <= QuotaOf[TopicOf(i)]
      BY <2>3, <2>4, <2>5, BankFacts
    <3>2. Range(front) \subseteq Items
      BY <2>3, <2>5
    <3> QED BY <3>1, <3>2 DEF OfTopic, TopicOf
  <2>7. Cardinality({i \in OfTopic(t) : PlaceOnPaper(i) <= QuotaOf[t]}) = QuotaOf[t]
    BY <1>5, <1>7, FirstOfTopic
  <2> QED BY <2>6, <2>7
<1> QED BY <1>2, <1>3, <1>4, <1>7 DEF PaperCoversTheBlueprint, total

(* The two figures of a study agree, on any trajectory.                    *)
LEMMA CurvesMustAgree ==
  ASSUME NEW f \in Seq(Nat), Len(f) # 0
  PROVE  \A n \in 1..ItemBudget + 2 :
           ForwardFilled(f, n) <= ErrorTarget => FirstReached(f) \in 1..n
<1> SUFFICES ASSUME NEW n \in 1..ItemBudget + 2, ForwardFilled(f, n) <= ErrorTarget
             PROVE  FirstReached(f) \in 1..n
  OBVIOUS
<1> DEFINE k == IF n <= Len(f) THEN n ELSE Len(f)
           T == {m \in 1..Len(f) : f[m] <= ErrorTarget}
<1>1. n \in Nat /\ n >= 1 /\ Len(f) \in Nat /\ DOMAIN f = 1..Len(f)
  BY SimulationSizes
<1>2. k \in 1..Len(f) /\ k <= n /\ k \in T
  BY <1>1 DEF ForwardFilled
<1>3. T \in SUBSET Nat /\ T # {}
  BY <1>1, <1>2
<1> HIDE DEF k
<1>4. PICK m \in T : \A o \in T : m <= o
  BY <1>3, LeastNatural
<1>5. m \in DOMAIN f /\ f[m] <= ErrorTarget /\ \A o \in 1..m - 1 : f[o] > ErrorTarget
  <2>1. m \in 1..Len(f) /\ f[m] <= ErrorTarget
    OBVIOUS
  <2>2. ASSUME NEW o \in 1..m - 1 PROVE f[o] > ErrorTarget
    <3>1. o \in 1..Len(f) /\ o < m /\ o \in Nat
      BY <1>1, <2>1
    <3>2. ~(f[o] <= ErrorTarget)
      BY <1>4, <2>1, <3>1
    <3>3. f[o] \in Nat /\ ErrorTarget \in Int
      BY <3>1, SimulationSizes
    <3> QED BY <3>2, <3>3
  <2> QED BY <1>1, <2>1, <2>2
<1>6. PICK r \in DOMAIN f : /\ FirstReached(f) = r /\ f[r] <= ErrorTarget
                                 /\ \A o \in 1..r - 1 : f[o] > ErrorTarget
  BY <1>5 DEF FirstReached
<1>7. r <= n
  <2> SUFFICES ASSUME r > n PROVE FALSE
    BY <1>1, <1>6
  <2>1. k \in 1..r - 1 /\ f[k] \in Nat /\ ErrorTarget \in Int
    BY <1>1, <1>2, SimulationSizes
  <2>2. f[k] > ErrorTarget /\ f[k] <= ErrorTarget
    BY <1>2, <1>6, <2>1
  <2> QED BY <2>1, <2>2
<1> QED BY <1>1, <1>6, <1>7

(* The score rises with every component.                                   *)
LEMMA WeightedRises ==
  ASSUME NEW c \in [1..6 -> Int], NEW d \in [1..6 -> Int],
         \A n \in 1..6 : d[n] >= c[n], \E n \in 1..6 : d[n] > c[n]
  PROVE  Weighted(d) > Weighted(c) /\ Weighted(c) \in Int /\ Weighted(d) \in Int
<1>1. /\ c[1] \in Int /\ c[2] \in Int /\ c[3] \in Int /\ c[4] \in Int /\ c[5] \in Int /\ c[6] \in Int
      /\ d[1] \in Int /\ d[2] \in Int /\ d[3] \in Int /\ d[4] \in Int /\ d[5] \in Int /\ d[6] \in Int
      /\ d[1] >= c[1] /\ d[2] >= c[2] /\ d[3] >= c[3] /\ d[4] >= c[4] /\ d[5] >= c[5] /\ d[6] >= c[6]
      /\ \/ d[1] > c[1] \/ d[2] > c[2] \/ d[3] > c[3]
         \/ d[4] > c[4] \/ d[5] > c[5] \/ d[6] > c[6]
  OBVIOUS
<1>2. \A e : Weighted(e) = 40 * e[1] + 25 * e[2] + 15 * e[3] + 15 * e[4] + 10 * e[5] + 5 * e[6]
  BY DEF Weighted, ObjectiveWeights
<1>3. /\ Weighted(c) = 40 * c[1] + 25 * c[2] + 15 * c[3] + 15 * c[4] + 10 * c[5] + 5 * c[6]
      /\ Weighted(d) = 40 * d[1] + 25 * d[2] + 15 * d[3] + 15 * d[4] + 10 * d[5] + 5 * d[6]
  BY <1>2
<1> QED BY ONLY <1>1, <1>3, SMT

(* What a session knows while it runs.                                     *)
LEMMA SessionFacts ==
  ASSUME SimulationTypeOK, IsInjective(asked)
  PROVE  /\ Len(asked) \in Nat /\ DOMAIN asked = 1..Len(asked) /\ Range(asked) \in SUBSET Items
         /\ IsFiniteSet(Range(asked))
         /\ TimeLeft \in Int /\ \A t \in SimTopics : QuotaLeft(t) \in Nat
         /\ \A i \in Items : Abs(SimBank[i].b - theta[SimBank[i].subtopic]) \in Nat
<1>1. /\ asked \in Seq(Items) /\ Len(asked) \in Nat /\ DOMAIN asked = 1..Len(asked)
      /\ \A n \in 1..Len(asked) : asked[n] \in Items
  BY DEF SimulationTypeOK
<1>2. Range(asked) \in SUBSET Items /\ IsFiniteSet(Range(asked))
  BY <1>1, RangeCounts DEF Range
<1>3. TimeLeft \in Int
  <2> DEFINE f == [n \in DOMAIN asked |-> SimBank[asked[n]].time]
             D == 1..Len(asked)
  <2>1. f \in [D -> Nat] /\ DOMAIN f = D
    BY <1>1, BankFacts
  <2>2. IsFiniteSet(D) /\ D \in SUBSET D
    BY <1>1, PlacesUpTo
  <2>3. TimeLeft = TimeBudget - SumOf(f, D)
    BY <2>1, TotalOfIsSum DEF TimeLeft
  <2> HIDE DEF f, D
  <2>4. SumOf(f, D) \in Nat
    BY <2>1, <2>2, SumTakesAny
  <2> QED BY <2>3, <2>4, SimulationSizes
<1>4. \A t \in SimTopics : QuotaLeft(t) \in Nat
  <2> SUFFICES ASSUME NEW t \in SimTopics PROVE QuotaLeft(t) \in Nat
    OBVIOUS
  <2>1. Cardinality({i \in Range(asked) : SimBank[i].topic = t}) \in Nat
    BY <1>2, FS_Subset, FS_CardinalityType
  <2>2. QuotaOf[t] \in Nat
    BY SimulationSizes
  <2> QED BY <2>1, <2>2 DEF QuotaLeft
<1>5. \A i \in Items : Abs(SimBank[i].b - theta[SimBank[i].subtopic]) \in Nat
  <2> SUFFICES ASSUME NEW i \in Items
               PROVE  Abs(SimBank[i].b - theta[SimBank[i].subtopic]) \in Nat
    OBVIOUS
  <2>1. SimBank[i].b \in Int /\ SimBank[i].subtopic \in DOMAIN ParentTopic
    BY BankFacts
  <2>2. theta[SimBank[i].subtopic] \in -2..2
    BY <2>1 DEF SimulationTypeOK
  <2>3. SimBank[i].b - theta[SimBank[i].subtopic] \in Int
    BY <2>1, <2>2
  <2> QED BY <2>3 DEF Abs
<1> QED BY <1>1, <1>2, <1>3, <1>4, <1>5

LEMMA ComponentsAreWhole ==
  ASSUME SimulationTypeOK, IsInjective(asked), TimeLeft > 0,
         NEW i \in Items, QuotaLeft(TopicOf(i)) > 0
  PROVE  Components(i) \in [1..6 -> Int]
<1> DEFINE t == TopicOf(i)
           gap == Abs(SimBank[i].b - theta[SimBank[i].subtopic])
<1>1. /\ t \in SimTopics /\ SimBank[i].subtopic \in DOMAIN ParentTopic
      /\ SimBank[i].time \in Nat
  BY BankFacts
<1>2. InfoTable[gap] \in Int
  <2>1. theta[SimBank[i].subtopic] \in -2..2
    BY <1>1 DEF SimulationTypeOK
  <2>2. gap \in DOMAIN InfoTable
    BY <2>1, ObjectiveTables DEF Items
  <2> QED BY <2>2, ObjectiveTables
<1>3. JdWeightOf[t] \in Int /\ Affinity[SimBank[i].subtopic] \in Int
  BY <1>1, ObjectiveTables
<1>4. QuotaLeft(t) \in Nat /\ QuotaOf[t] \in Nat \ {0}
  <2>1. QuotaLeft(t) \in Nat /\ QuotaOf[t] \in Nat
    BY <1>1, SessionFacts, SimulationSizes
  <2>2. Cardinality({j \in Range(asked) : SimBank[j].topic = t}) \in Nat
    BY SessionFacts, FS_Subset, FS_CardinalityType
  <2> QED BY <2>1, <2>2 DEF QuotaLeft
<1>5. (60 * QuotaLeft(t)) \div QuotaOf[t] \in Int
  <2> DEFINE a == 60 * QuotaLeft(t)  q == QuotaOf[t]
  <2>1. a \in Nat /\ q \in Nat \ {0}
    BY <1>4
  <2> HIDE DEF a, q
  <2>2. a \div q \in Int
    BY ONLY <2>1, DivisionFacts
  <2> QED BY <2>2 DEF a, q
<1>6. -Redundancy(i) \in Int
  BY DEF Redundancy
<1>7. -((60 * SimBank[i].time) \div TimeLeft) \in Int
  <2> DEFINE a == 60 * SimBank[i].time  q == TimeLeft
  <2>1. a \in Nat /\ q \in Nat \ {0}
    BY <1>1, SessionFacts
  <2> HIDE DEF a, q
  <2>2. a \div q \in Nat
    BY ONLY <2>1, DivisionFacts
  <2>3. -(a \div q) \in Int
    BY <2>2
  <2> QED BY <2>3 DEF a, q
<1> DEFINE u == InfoTable[gap]  v == JdWeightOf[t]  w == Affinity[SimBank[i].subtopic]
           x == (60 * QuotaLeft(t)) \div QuotaOf[t]  y == -Redundancy(i)
           z == -((60 * SimBank[i].time) \div TimeLeft)
<1>8. Components(i) = <<u, v, w, x, y, z>>
  BY DEF Components, TopicOf
<1>9. u \in Int /\ v \in Int /\ w \in Int /\ x \in Int /\ y \in Int /\ z \in Int
  BY <1>2, <1>3, <1>5, <1>6, <1>7
<1> HIDE DEF u, v, w, x, y, z
<1> QED BY ONLY <1>8, <1>9

(* The best eligible item is not dominated.                                *)
LEMMA BestIsBest ==
  ASSUME SimulationTypeOK, IsInjective(asked), TimeLeft > 0,
         NEW i \in FitItems, Place(i) = 1
  PROVE  \A j \in FitItems : ~Dominated(i, j)
<1> SUFFICES ASSUME NEW j \in FitItems, Dominated(i, j) PROVE FALSE
  OBVIOUS
<1>1. /\ i \in Items /\ QuotaLeft(TopicOf(i)) > 0
      /\ j \in Items /\ QuotaLeft(TopicOf(j)) > 0
  BY DEF FitItems, Fits, TopicOf
<1>2. Components(i) \in [1..6 -> Int] /\ Components(j) \in [1..6 -> Int]
  BY <1>1, ComponentsAreWhole
<1>3. DOMAIN Components(i) = 1..6
  BY <1>2
<1>4. /\ \A n \in 1..6 : Components(j)[n] >= Components(i)[n]
      /\ \E n \in 1..6 : Components(j)[n] > Components(i)[n]
  BY <1>3 DEF Dominated
<1>5. ScoreOf(j) > ScoreOf(i)
  BY <1>2, <1>4, WeightedRises DEF ScoreOf
<1> DEFINE before == {k \in FitItems : Ahead(k, i)}
<1>6. j \in before
  BY <1>5 DEF Ahead
<1>7. IsFiniteSet(before)
  BY BankFacts, FS_Subset DEF FitItems
<1>8. Cardinality(before) + 1 = 1
  BY DEF Place
<1> HIDE DEF before
<1>9. Cardinality(before) \in Nat /\ (Cardinality(before) = 0 => before = {})
  BY <1>7, FS_CardinalityType, FS_EmptySet
<1> QED BY <1>6, <1>8, <1>9

(* The sum of errors is a natural number.                                  *)
LEMMA ErrorIsNatural ==
  ASSUME NEW th \in [DOMAIN ParentTopic -> -2..2]
  PROVE  ErrorOf(th) \in Nat
<1> DEFINE D == DOMAIN ParentTopic
           f == [s \in D |-> Abs(th[s] - Truth[s])]
<1>1. IsFiniteSet(D) /\ D \in SUBSET D /\ \A s \in D : Truth[s] \in Int /\ th[s] \in Int
  <2>1. IsFiniteSet(D) /\ Truth \in [D -> Int]
    BY BankOfItems
  <2>2. \A x \in -2..2 : x \in Int
    OBVIOUS
  <2> QED BY <2>1, <2>2
<1>2. f \in [D -> Nat] /\ DOMAIN f = D
  <2>1. ASSUME NEW s \in D PROVE Abs(th[s] - Truth[s]) \in Nat
    <3>1. th[s] - Truth[s] \in Int
      BY <1>1
    <3> QED BY <3>1 DEF Abs
  <2> QED BY <2>1
<1>3. ErrorOf(th) = SumOf(f, D)
  BY <1>2, TotalOfIsSum DEF ErrorOf
<1> HIDE DEF f, D
<1> QED BY <1>1, <1>2, <1>3, SumTakesAny

(* Asking one more item takes its time.                                    *)
LEMMA TimeTaken ==
  ASSUME asked \in Seq(Items), NEW i \in Items, asked' = Append(asked, i)
  PROVE  TimeLeft' = TimeLeft - SimBank[i].time
<1> DEFINE n == Len(asked)
           f == [k \in DOMAIN asked |-> SimBank[asked[k]].time]
           g == [k \in DOMAIN asked' |-> SimBank[asked'[k]].time]
           D == 1..n
           E == 1..(n + 1)
<1>1. /\ n \in Nat /\ DOMAIN asked = D /\ DOMAIN asked' = E /\ D \in SUBSET E
      /\ E = D \cup {n + 1} /\ n + 1 \notin D
      /\ \A k \in D : asked'[k] = asked[k]
      /\ asked'[n + 1] = i
  OBVIOUS
<1>2. /\ f \in [D -> Nat] /\ g \in [E -> Nat] /\ g[n + 1] = SimBank[i].time
      /\ \A k \in D : g[k] = f[k]
  BY <1>1, BankFacts
<1>3. IsFiniteSet(D) /\ IsFiniteSet(E)
  BY <1>1, PlacesUpTo
<1>4. TimeLeft = TimeBudget - SumOf(f, D) /\ TimeLeft' = TimeBudget - SumOf(g, E)
  <2>1. TimeLeft = TimeBudget - TotalOf(f) /\ TimeLeft' = TimeBudget - TotalOf(g)
    BY DEF TimeLeft, TotalOf, MapThenSumSet, MapThenFoldSet
  <2>2. DOMAIN f = D /\ DOMAIN g = E
    BY <1>2
  <2> HIDE DEF f, g, D, E
  <2> QED BY <2>1, <2>2, TotalOfIsSum
<1> HIDE DEF f, g, D, E
<1>5. SumOf(g, D \cup {n + 1}) = SumOf(g, D) + g[n + 1]
  <2>1. n + 1 \in E \ D
    BY <1>1
  <2> QED BY <1>1, <1>2, <1>3, <2>1, SumAdd
<1>6. SumOf(g, D) = SumOf(f, D)
  <2>1. D \subseteq D /\ D \in SUBSET E
    BY <1>1
  <2> QED BY ONLY <1>2, <1>3, <2>1, SumSame
<1>7. SumOf(f, D) \in Nat /\ SimBank[i].time \in Nat
  <2>1. D \in SUBSET D
    OBVIOUS
  <2> QED BY <1>2, <1>3, <2>1, SumTakesAny, BankFacts
<1> QED BY <1>1, <1>2, <1>4, <1>5, <1>6, <1>7, SimulationSizes

(* One item more of one topic.                                             *)
LEMMA OneMoreAsked ==
  ASSUME asked \in Seq(Items), IsInjective(asked), NEW i \in Items, i \notin Range(asked),
         asked' = Append(asked, i)
  PROVE  /\ IsInjective(asked') /\ asked' \in Seq(Items) /\ Len(asked') = Len(asked) + 1
         /\ \A t \in SimTopics :
              Cardinality({j \in Range(asked') : SimBank[j].topic = t})
                = Cardinality({j \in Range(asked) : SimBank[j].topic = t})
                    + IF t = TopicOf(i) THEN 1 ELSE 0
<1> DEFINE n == Len(asked)
<1>1. /\ n \in Nat /\ DOMAIN asked = 1..n /\ DOMAIN asked' = 1..(n + 1)
      /\ \A k \in 1..n : asked'[k] = asked[k]
      /\ asked'[n + 1] = i /\ asked' \in Seq(Items) /\ Len(asked') = n + 1
      /\ \A k \in 1..(n + 1) : k \in 1..n \/ k = n + 1
      /\ \A k \in 1..n : k \in 1..(n + 1)
      /\ n + 1 \in 1..(n + 1)
  OBVIOUS
<1>2. Range(asked') = Range(asked) \cup {i} /\ \A k \in 1..n : asked[k] # i
  BY <1>1 DEF Range
<1>3. IsInjective(asked')
  <2> SUFFICES ASSUME NEW k \in 1..(n + 1), NEW m \in 1..(n + 1), asked'[k] = asked'[m]
               PROVE  k = m
    BY <1>1 DEF IsInjective
  <2>1. CASE k \in 1..n /\ m \in 1..n
    <3>1. asked[k] = asked[m]
      BY <1>1, <2>1
    <3> QED BY <1>1, <2>1, <3>1 DEF IsInjective
  <2>2. CASE k = n + 1 /\ m \in 1..n
    BY <1>1, <1>2, <2>2
  <2>3. CASE k \in 1..n /\ m = n + 1
    BY <1>1, <1>2, <2>3
  <2> QED BY <1>1, <2>1, <2>2, <2>3
<1>4. ASSUME NEW t \in SimTopics
      PROVE  Cardinality({j \in Range(asked') : SimBank[j].topic = t})
               = Cardinality({j \in Range(asked) : SimBank[j].topic = t})
                   + IF t = TopicOf(i) THEN 1 ELSE 0
  <2> DEFINE A == {j \in Range(asked) : SimBank[j].topic = t}
             B == {j \in Range(asked') : SimBank[j].topic = t}
  <2>1. IsFiniteSet(A) /\ i \notin A
    <3>1. IsFiniteSet(Range(asked)) /\ A \in SUBSET Range(asked)
      BY RangeCounts
    <3> QED BY <3>1, FS_Subset
  <2>2. B = IF t = TopicOf(i) THEN A \cup {i} ELSE A
    BY <1>2 DEF TopicOf
  <2> HIDE DEF A, B
  <2>3. /\ Cardinality(A \cup {i}) = Cardinality(A) + 1
        /\ Cardinality(A) \in Nat
    BY <2>1, FS_AddElement, FS_CardinalityType
  <2>4. Cardinality(B) = Cardinality(A) + IF t = TopicOf(i) THEN 1 ELSE 0
    BY <2>2, <2>3
  <2> QED BY <2>4 DEF A, B
<1> QED BY <1>1, <1>3, <1>4

LEMMA AskKeepsFair ==
  ASSUME SimulationInv, NEW i \in Items, NEW how \in {"best", "explored", "random", "fixed"},
         AskItem(i, how),
         i \notin Range(asked), QuotaLeft(TopicOf(i)) > 0, SimBank[i].time <= TimeLeft,
         how # "fixed" => Abs(SimBank[i].b - theta[SimBank[i].subtopic]) <= Window,
         how = "best" => \A j \in FitItems : ~Dominated(i, j)
  PROVE  SimulationInv'
<1>1. /\ SimulationTypeOK /\ IsInjective(asked) /\ TimeLeft >= 0
      /\ \A t \in SimTopics : Cardinality({j \in Range(asked) : SimBank[j].topic = t}) <= QuotaOf[t]
      /\ asked \in Seq(Items) /\ errors \in Seq(Nat) /\ Len(errors) = Len(asked) + 1
      /\ theta \in [DOMAIN ParentTopic -> -2..2]
  BY DEF SimulationInv, SimulationIsFair, SessionFitsTheBlueprint, SimulationTypeOK
<1>2. PICK step \in {-1, 0, 1} :
        theta' = [theta EXCEPT ![SimBank[i].subtopic] = IF @ + step \in -2..2 THEN @ + step ELSE @]
  BY DEF AskItem
<1>3. /\ asked' = Append(asked, i) /\ errors' = Append(errors, ErrorOf(theta'))
      /\ choice' = [how |-> how, gap |-> Abs(SimBank[i].b - theta[SimBank[i].subtopic]),
                    beaten |-> \E j \in FitItems : Dominated(i, j)]
      /\ UNCHANGED <<strategy, stopped>>
  BY DEF AskItem
<1>4. theta' \in [DOMAIN ParentTopic -> -2..2]
  BY <1>1, <1>2
<1>5. ErrorOf(theta') \in Nat
  BY <1>4, ErrorIsNatural
<1>6. errors' \in Seq(Nat) /\ Len(errors') = Len(errors) + 1
  BY <1>1, <1>3, <1>5
<1>7. /\ IsInjective(asked') /\ asked' \in Seq(Items) /\ Len(asked') = Len(asked) + 1
      /\ \A t \in SimTopics :
           Cardinality({j \in Range(asked') : SimBank[j].topic = t})
             = Cardinality({j \in Range(asked) : SimBank[j].topic = t})
                 + IF t = TopicOf(i) THEN 1 ELSE 0
  BY <1>1, <1>3, OneMoreAsked
<1>8. Abs(SimBank[i].b - theta[SimBank[i].subtopic]) \in Nat
  BY <1>1, SessionFacts
<1>9. /\ choice'.how = how /\ choice'.gap = Abs(SimBank[i].b - theta[SimBank[i].subtopic])
      /\ choice'.beaten <=> \E j \in FitItems : Dominated(i, j)
      /\ choice' \in [how : {"none", "best", "explored", "random", "fixed"}, gap : Nat,
                      beaten : BOOLEAN]
  BY <1>3, <1>8
<1>10. SimulationTypeOK'
  BY <1>1, <1>3, <1>4, <1>6, <1>7, <1>9 DEF SimulationTypeOK
<1>11. TimeLeft' >= 0
  <2>1. TimeLeft' = TimeLeft - SimBank[i].time
    BY <1>1, <1>3, TimeTaken
  <2>2. TimeLeft \in Int /\ SimBank[i].time \in Nat
    BY <1>1, SessionFacts, BankFacts
  <2> QED BY <2>1, <2>2
<1>12. ASSUME NEW t \in SimTopics
       PROVE  Cardinality({j \in Range(asked') : SimBank[j].topic = t}) <= QuotaOf[t]
  <2> DEFINE before == Cardinality({j \in Range(asked) : SimBank[j].topic = t})
             after == Cardinality({j \in Range(asked') : SimBank[j].topic = t})
  <2>1. before <= QuotaOf[t] /\ after = before + IF t = TopicOf(i) THEN 1 ELSE 0
    BY <1>1, <1>7
  <2>2. before \in Nat /\ QuotaOf[t] \in Nat
    BY <1>1, SessionFacts, FS_Subset, FS_CardinalityType, SimulationSizes
  <2>3. t = TopicOf(i) => before < QuotaOf[t]
    BY DEF QuotaLeft
  <2> HIDE DEF before, after
  <2>4. after <= QuotaOf[t]
    BY <2>1, <2>2, <2>3
  <2> QED BY <2>4 DEF after
<1>13. SessionFitsTheBlueprint'
  BY <1>7, <1>9, <1>11, <1>12 DEF SessionFitsTheBlueprint
<1>14. BestIsNotBeaten'
  BY <1>9 DEF BestIsNotBeaten
<1>15. CurvesAgree'
  <2>1. errors' \in Seq(Nat) /\ Len(errors') # 0
    BY <1>1, <1>6
  <2>2. PICK f \in Seq(Nat) : f = errors' /\ Len(f) # 0
    BY <2>1
  <2>3. \A n \in 1..ItemBudget + 2 :
          ForwardFilled(f, n) <= ErrorTarget => FirstReached(f) \in 1..n
    BY <2>2, CurvesMustAgree
  <2> QED BY <2>2, <2>3 DEF CurvesAgree, ForwardFilled, FirstReached
<1>16. PaperCoversTheBlueprint'
  BY PaperCovers DEF PaperCoversTheBlueprint
<1> QED BY <1>10, <1>13, <1>14, <1>15, <1>16 DEF SimulationInv, SimulationIsFair

LEMMA SimulationInitInv ==
  SimulationInit => SimulationInv
<1> SUFFICES ASSUME SimulationInit PROVE SimulationInv
  OBVIOUS
<1>1. /\ strategy \in {"adaptive", "random", "fixed"} /\ theta = [s \in DOMAIN ParentTopic |-> 0]
      /\ asked = <<>> /\ errors = <<ErrorOf(theta)>>
      /\ choice = [how |-> "none", gap |-> 0, beaten |-> FALSE] /\ stopped = "no"
  BY DEF SimulationInit
<1>2. theta \in [DOMAIN ParentTopic -> -2..2]
  BY <1>1
<1>3. ErrorOf(theta) \in Nat
  BY <1>2, ErrorIsNatural
<1>4. errors \in Seq(Nat) /\ Len(errors) = 1
  BY <1>1, <1>3
<1>5. asked \in Seq(Items) /\ Len(asked) = 0 /\ Range(asked) = {} /\ IsInjective(asked)
      /\ DOMAIN asked = {}
  BY <1>1 DEF Range, IsInjective
<1>6. SimulationTypeOK
  <2>1. Len(errors) = Len(asked) + 1
    BY <1>4, <1>5
  <2> QED BY <1>1, <1>2, <1>4, <1>5, <2>1 DEF SimulationTypeOK
<1>7. TimeLeft >= 0
  <2> DEFINE f == [k \in DOMAIN asked |-> SimBank[asked[k]].time]
  <2>1. DOMAIN f = {}
    BY <1>5
  <2>2. TimeLeft = TimeBudget - TotalOf(f)
    BY DEF TimeLeft
  <2> HIDE DEF f
  <2>3. TotalOf(f) = SumOf(f, {})
    BY <2>1, TotalOfIsSum
  <2>4. SumOf(f, {}) = 0
    BY SumUnfolds, FS_EmptySet
  <2> QED BY <2>2, <2>3, <2>4, SimulationSizes
<1>8. \A t \in SimTopics : Cardinality({i \in Range(asked) : SimBank[i].topic = t}) <= QuotaOf[t]
  <2> SUFFICES ASSUME NEW t \in SimTopics
               PROVE  Cardinality({i \in Range(asked) : SimBank[i].topic = t}) <= QuotaOf[t]
    OBVIOUS
  <2>1. {i \in Range(asked) : SimBank[i].topic = t} = {}
    BY <1>5
  <2>2. Cardinality({}) = 0 /\ QuotaOf[t] \in Nat
    BY FS_EmptySet, SimulationSizes
  <2> QED BY <2>1, <2>2
<1>9. SessionFitsTheBlueprint /\ BestIsNotBeaten
  BY <1>1, <1>5, <1>7, <1>8 DEF SessionFitsTheBlueprint, BestIsNotBeaten
<1>10. CurvesAgree
  <2>1. Len(errors) # 0
    BY <1>4
  <2> QED BY <1>4, <2>1, CurvesMustAgree DEF CurvesAgree
<1> QED BY <1>6, <1>9, <1>10, PaperCovers DEF SimulationInv, SimulationIsFair

(* What a session does not touch stays fair.                               *)
LEMMA FairIsKept ==
  ASSUME SimulationInv, UNCHANGED <<strategy, theta, asked, errors, choice>>,
         stopped' \in {"no", "precision", "item_budget", "time_budget", "no_new_information",
                       "pool_exhausted"}
  PROVE  SimulationInv'
<1>1. SimulationTypeOK'
  BY DEF SimulationInv, SimulationTypeOK
<1>2. TimeLeft' = TimeLeft
  BY DEF TimeLeft, TotalOf, MapThenSumSet, MapThenFoldSet
<1>3. SessionFitsTheBlueprint' /\ BestIsNotBeaten'
  BY <1>2 DEF SimulationInv, SimulationIsFair, SessionFitsTheBlueprint, BestIsNotBeaten
<1>4. CurvesAgree'
  BY DEF SimulationInv, SimulationIsFair, CurvesAgree, ForwardFilled, FirstReached
<1>5. PaperCoversTheBlueprint'
  BY PaperCovers DEF PaperCoversTheBlueprint
<1> QED BY <1>1, <1>3, <1>4, <1>5 DEF SimulationInv, SimulationIsFair

LEMMA SimulationStep ==
  ASSUME SimulationInv, [SimulationNext]_simVars
  PROVE  SimulationInv'
<1>1. /\ SimulationTypeOK /\ IsInjective(asked) /\ TimeLeft \in Int
      /\ stopped \in {"no", "precision", "item_budget", "time_budget", "no_new_information",
                      "pool_exhausted"}
  <2>1. SimulationTypeOK /\ IsInjective(asked)
    BY DEF SimulationInv, SimulationIsFair, SessionFitsTheBlueprint
  <2> QED BY <2>1, SessionFacts DEF SimulationTypeOK
<1>2. \A i \in FitItems :
        /\ i \in Items /\ i \notin Range(asked) /\ QuotaLeft(TopicOf(i)) > 0
        /\ Abs(SimBank[i].b - theta[SimBank[i].subtopic]) <= Window
        /\ SimBank[i].time <= TimeLeft
  BY DEF FitItems, Fits, TopicOf
<1>3. CASE AskBest
  <2>1. TimeLeft > 0
    BY <1>1, <1>3 DEF AskBest, Running, TimeSpent
  <2>2. PICK i \in FitItems : Place(i) = 1 /\ AskItem(i, "best")
    BY <1>3 DEF AskBest
  <2>3. \A j \in FitItems : ~Dominated(i, j)
    BY <1>1, <2>1, <2>2, BestIsBest
  <2> QED BY <1>2, <2>2, <2>3, AskKeepsFair
<1>4. CASE Explore
  <2>1. PICK i \in FitItems : AskItem(i, "explored")
    BY <1>4 DEF Explore
  <2> QED BY <1>2, <2>1, AskKeepsFair
<1>5. CASE AskRandom
  <2>1. PICK i \in FitItems : AskItem(i, "random")
    BY <1>5 DEF AskRandom
  <2> QED BY <1>2, <2>1, AskKeepsFair
<1>6. CASE AskFromPaper
  <2>1. PICK p \in DOMAIN FixedPaper : OnPaper(FixedPaper[p]) /\ AskItem(FixedPaper[p], "fixed")
    BY <1>6 DEF AskFromPaper
  <2>2. FixedPaper[p] \in Items
    BY PaperCovers DEF PaperCoversTheBlueprint, Range
  <2> QED BY <2>1, <2>2, AskKeepsFair DEF OnPaper, TopicOf
<1>7. CASE StopEarly \/ StopOnBudget \/ StopOnEmptyPool
  BY <1>7, FairIsKept DEF StopEarly, StopOnBudget, StopOnEmptyPool, StopSession
<1>8. CASE UNCHANGED simVars
  BY <1>1, <1>8, FairIsKept DEF simVars
<1> QED BY <1>3, <1>4, <1>5, <1>6, <1>7, <1>8 DEF SimulationNext

(* A simulated session keeps the rules whichever strategy chooses: nothing *)
(* twice, within quotas, clock and window, the best item when not          *)
(* exploring; the fixed paper has the blueprint's coverage; the two        *)
(* figures of a study agree (app/simulation, app/selection).               *)
THEOREM SimulationFair == SimulationSpec => []SimulationIsFair
<1>1. SimulationSpec => []SimulationInv
  BY SimulationInitInv, SimulationStep, PTL DEF SimulationSpec
<1>2. SimulationInv => SimulationIsFair
  BY DEF SimulationInv
<1> QED BY <1>1, <1>2, PTL

-----------------------------------------------------------------------------
(***************************************************************************)
(* The shape of the recordings.                                            *)
(***************************************************************************)
(* A call that ends well files an answer: what a call returns, and what a  *)
(* store holds, are answers of this sitting or an earlier one.             *)
LEMMA FiledIsAnAnswer ==
  ASSUME RecordingsTypeOK, NEW wanted, NEW answers_ \in Calls(wanted)
  PROVE  LastExchange(answers_) \in Answer
<1>1. ASSUME NEW repair \in BOOLEAN, NEW a \in Attempts(wanted, repair) PROVE a \in Answer
  <2>1. sittings \in 0..MaxSittings
    BY DEF RecordingsTypeOK
  <2>2. CASE a \in [by : {"nvidia"}, at : {sittings}, valid : BOOLEAN]
    BY <2>1, <2>2 DEF Answer
  <2>3. CASE a \in [by : {"synthesized"}, at : {sittings}, valid : BOOLEAN]
    BY <2>1, <2>3 DEF Answer
  <2>4. CASE /\ wanted \in DOMAIN store.fixtures
             /\ a = [store.fixtures[wanted].answer EXCEPT !.by = "replay"]
    <3> DEFINE held == store.fixtures[wanted].answer
    <3>1. held \in Answer
      BY <2>4 DEF RecordingsTypeOK, Fixture
    <3> HIDE DEF held
    <3>2. a = [held EXCEPT !.by = "replay"]
      BY <2>4 DEF held
    <3> QED BY <3>1, <3>2 DEF Answer
  <2> QED BY <1>1, <2>2, <2>3, <2>4 DEF Attempts, StubAnswers
<1>2. PICK n \in 1..(MaxRepairs + 1) : DOMAIN answers_ = 1..n
  BY DEF Calls
<1>3. n \in Nat /\ n >= 1
  BY <1>2, RecordingBounds
<1>4. ASSUME NEW i \in DOMAIN answers_ PROVE answers_[i] \in Answer
  <2>1. answers_[i] \in Attempts(wanted, i > 1) /\ (i > 1) \in BOOLEAN
    BY DEF Calls
  <2> QED BY <1>1, <2>1
<1> DEFINE stubs == {i \in DOMAIN answers_ : answers_[i].by # "nvidia"}
           S == IF stubs = {} THEN DOMAIN answers_ ELSE stubs
<1>5. stubs \subseteq 1..n /\ DOMAIN answers_ = 1..n /\ 1 \in 1..n
  <2>1. stubs \subseteq DOMAIN answers_
    OBVIOUS
  <2> HIDE DEF stubs
  <2> QED BY <1>2, <1>3, <2>1
<1> HIDE DEF stubs
<1>6. S \subseteq 1..n /\ S # {}
  BY <1>5
<1> HIDE DEF S
<1>7. Max(S) \in S
  <2>1. 1 \in Int /\ n \in Int /\ S \in SUBSET (1..n)
    BY <1>3, <1>6
  <2> QED BY ONLY <1>6, <2>1, Extremes
<1>8. Max(S) \in DOMAIN answers_
  BY <1>2, <1>6, <1>7
<1> QED BY <1>4, <1>8 DEF LastExchange, S, stubs

(* What is loaded is what was filed.                                       *)
LEMMA LoadedAreFixtures ==
  ASSUME RecordingsTypeOK
  PROVE  /\ Loaded.fixtures \in [DOMAIN Loaded.paths -> Fixture]
         /\ DOMAIN Loaded.paths \subseteq Requests
<1> DEFINE FilesOf(r) == {f \in Names : Readable(f) /\ directory[f].fixture.request = r}
           filed == {r \in Requests : FilesOf(r) # {}}
           First(r) == Min(FilesOf(r))
<1>1. ASSUME NEW f \in Names, Readable(f) PROVE directory[f].fixture \in Fixture
  <2>1. directory[f].kind # "missing" /\ directory[f].kind # "torn"
    BY <1>1 DEF Readable
  <2>2. PICK x \in Fixture : directory[f] = File(x)
    BY <2>1 DEF RecordingsTypeOK, Missing, Torn
  <2> QED BY <2>2 DEF File
<1>2. ASSUME NEW r \in filed PROVE directory[First(r)].fixture \in Fixture
  <2>1. FilesOf(r) \in SUBSET Nat /\ FilesOf(r) # {}
    BY NamesAreOrdered
  <2>2. \E f \in FilesOf(r) : \A g \in FilesOf(r) : f <= g
    BY <2>1, LeastNatural
  <2>3. First(r) \in FilesOf(r)
    BY <2>2 DEF Min
  <2> QED BY <1>1, <2>3
<1>3. Loaded = [fixtures |-> [r \in filed |-> directory[First(r)].fixture],
                paths    |-> [r \in filed |-> First(r)]]
  BY DEF Loaded
<1> HIDE DEF filed, First
<1>4. filed \subseteq Requests
  BY DEF filed
<1> QED BY <1>2, <1>3, <1>4

(* Every step of a recording keeps the types.                              *)
LEMMA RecordingsTypeStep ==
  ASSUME RecordingsInv, RecordingsTypeOK, [RecordingsNext]_recordingVars
  PROVE  RecordingsTypeOK'
<1> DEFINE Filable == {Missing, Torn} \cup {File(x) : x \in Fixture}
<1>1. /\ \A f \in Names : directory[f] \in Filable
      /\ store.fixtures \in [DOMAIN store.paths -> Fixture] /\ DOMAIN store.paths \subseteq Requests
      /\ recorder.todo \in Seq(Entry) /\ recorder.running \in BOOLEAN
      /\ sittings \in 0..MaxSittings /\ DOMAIN directory = Names
  BY DEF RecordingsTypeOK, RecordingsInv
<1>2. ASSUME NEW plan \in Plans, NEW overwrite \in BOOLEAN, NEW dryRun \in BOOLEAN,
             StartRecording(plan, overwrite, dryRun)
      PROVE  RecordingsTypeOK'
  <2>1. /\ directory' = directory /\ store' = Loaded /\ sittings' = sittings + 1
        /\ recorder'.todo = plan /\ recorder'.running = TRUE /\ sittings < MaxSittings
    BY <1>2 DEF StartRecording
  <2>2. sittings' \in 0..MaxSittings
    BY <1>1, <2>1, RecordingBounds
  <2> QED BY <1>1, <2>1, <2>2, PlansAreSequences, LoadedAreFixtures DEF RecordingsTypeOK
<1>3. ASSUME recorder.running, recorder.todo # <<>>, NextEntry
      PROVE  recorder'.todo \in Seq(Entry) /\ recorder'.running \in BOOLEAN
  <2>1. Tail(recorder.todo) \in Seq(Entry)
    BY <1>3, EntryAtHand
  <2>2. recorder' = [recorder EXCEPT !.todo = Tail(@)]
    BY <1>3 DEF NextEntry
  <2>3. recorder'.running = recorder.running
    BY <2>2
  <2>4. recorder'.todo = Tail(recorder.todo) \/ recorder' = recorder
    BY <2>2
  <2> QED BY <1>1, <2>1, <2>3, <2>4
<1>4. ASSUME recorder.running, recorder.todo # <<>>, NextEntry,
             UNCHANGED <<directory, store, sittings>>
      PROVE  RecordingsTypeOK'
  BY <1>1, <1>3, <1>4 DEF RecordingsTypeOK
<1>5. ASSUME recorder.running, recorder.todo # <<>>, RecordEntry, UNCHANGED sittings
      PROVE  RecordingsTypeOK'
  <2>1. PICK answers_ \in Calls(Current.request) :
          Save([request |-> Current.request, answer |-> LastExchange(answers_)])
    BY <1>5 DEF RecordEntry
  <2> DEFINE fixture == [request |-> Current.request, answer |-> LastExchange(answers_)]
             target == Target
  <2>2. Current.request \in Requests /\ target \in Names
    BY <1>5, EntryAtHand
  <2>3. fixture \in Fixture /\ fixture.request \in Requests
    BY <2>2, FiledIsAnAnswer DEF Fixture
  <2>4. Save(fixture)
    BY <2>1
  <2> HIDE DEF fixture
  <2>5. /\ directory' = [directory EXCEPT ![target] = File(fixture)]
        /\ store'.fixtures = [r \in DOMAIN store.fixtures \cup {fixture.request} |->
                               IF r = fixture.request THEN fixture ELSE store.fixtures[r]]
        /\ store'.paths = [r \in DOMAIN store.paths \cup {fixture.request} |->
                               IF r = fixture.request THEN target ELSE store.paths[r]]
    BY <2>4 DEF Save
  <2> HIDE DEF target
  <2>6. \A f \in Names : directory'[f] \in Filable
    BY <1>1, <2>3, <2>5
  <2>7. DOMAIN store.fixtures = DOMAIN store.paths
    BY <1>1
  <2>8. /\ DOMAIN store'.paths = DOMAIN store.paths \cup {fixture.request}
        /\ store'.fixtures \in [DOMAIN store.paths \cup {fixture.request} -> Fixture]
    BY <1>1, <2>3, <2>5, <2>7
  <2>9. recorder'.todo \in Seq(Entry) /\ recorder'.running \in BOOLEAN
    BY <1>3, <1>5 DEF RecordEntry
  <2> QED BY <1>1, <1>5, <2>3, <2>6, <2>8, <2>9 DEF RecordingsTypeOK
<1>6. ASSUME recorder.running, EndRecording, UNCHANGED sittings PROVE RecordingsTypeOK'
  <2>1. recorder' = [recorder EXCEPT !.running = FALSE] /\ UNCHANGED <<directory, store>>
    BY <1>6 DEF EndRecording
  <2>2. recorder'.todo = recorder.todo
    BY <2>1
  <2>3. recorder'.running = FALSE \/ recorder'.running = recorder.running
    BY <2>1
  <2> QED BY <1>1, <1>6, <2>1, <2>2, <2>3 DEF RecordingsTypeOK
<1>7. ASSUME recorder.running, KillRecording, UNCHANGED sittings PROVE RecordingsTypeOK'
  <2>1. /\ recorder'.todo = <<>> /\ recorder'.running = FALSE
        /\ store'.fixtures = <<>> /\ store'.paths = <<>>
    BY <1>7 DEF KillRecording, Idle, Empty
  <2>2. \A f \in Names : directory'[f] \in Filable
    <3> DEFINE target == Target
    <3> HIDE DEF target
    <3>1. UNCHANGED directory \/ directory' = [directory EXCEPT ![target] = Torn]
      BY <1>7 DEF KillRecording, target
    <3> QED BY <1>1, <3>1
  <2>3. DOMAIN store'.paths = {} /\ store'.fixtures \in [DOMAIN store'.paths -> Fixture]
    BY <2>1
  <2>4. recorder'.todo \in Seq(Entry)
    BY <2>1
  <2> QED BY <1>1, <1>7, <2>1, <2>2, <2>3, <2>4 DEF RecordingsTypeOK
<1>8. CASE UNCHANGED recordingVars
  BY <1>1, <1>8 DEF recordingVars, RecordingsTypeOK
<1> QED BY <1>2, <1>4, <1>5, <1>6, <1>7, <1>8
      DEF RecordingsNext, SkipEntry, DryRunEntry, FailEntry

(* Recordings and the recorder keep their shape.                           *)
LEMMA RecordingsTypes == RecordingsSpec => [](RecordingsInv /\ RecordingsTypeOK)
<1>1. RecordingsInit => RecordingsTypeOK
  <2>1. <<>> \in Seq(Entry) /\ DOMAIN <<>> = {} /\ <<>> \in [{} -> Fixture]
    OBVIOUS
  <2> QED BY <2>1, RecordingBounds DEF RecordingsInit, RecordingsTypeOK, Idle, Empty
<1> QED BY <1>1, RecordingsInitInv, RecordingsStep, RecordingsTypeStep, PTL DEF RecordingsSpec

-----------------------------------------------------------------------------
(***************************************************************************)
(* The nine in one state space.                                            *)
(***************************************************************************)
(* Their disjoint union moves one of them at a time: it behaves as each.   *)
LEMMA ComponentsParts ==
  ComponentsSpec => /\ BankSpec /\ SearchSpec /\ BlueprintSpec /\ AbilitySpec /\ GradingSpec
                    /\ SimulationSpec /\ RunsSpec /\ EvalSpec /\ RecordingsSpec
<1>1. ComponentsInit => /\ BankInit /\ SearchInit /\ BlueprintInit /\ AbilityInit /\ GradingInit
                        /\ SimulationInit /\ RunsInit /\ EvalInit /\ RecordingsInit
  BY DEF ComponentsInit
<1>2. [ComponentsNext]_<<part, interviewVars, studyVars>> =>
        /\ [BankNext]_bankVars /\ [SearchNext]_searchVars /\ [BlueprintNext]_blueprintVars
        /\ [AbilityNext]_abilityVars /\ [GradingNext]_gradingVars
        /\ [SimulationNext]_simVars /\ [RunsNext]_runVars /\ [EvalNext]_evalVars
        /\ [RecordingsNext]_recordingVars
  BY DEF ComponentsNext, Others, Interviewing, Studies, interviewVars, studyVars
<1> QED BY <1>1, <1>2, PTL DEF ComponentsSpec, BankSpec, SearchSpec, BlueprintSpec, AbilitySpec,
             GradingSpec, SimulationSpec, RunsSpec, EvalSpec, RecordingsSpec

(* Every component around the interview keeps its shape, for banks, plans, *)
(* rankings, papers, passes and directories of any size.                   *)
THEOREM ComponentsTypes == ComponentsSpec => []ComponentsTypeOK
<1>1. BankSpec => []BankInv
  BY BankInitInv, BankStep, PTL DEF BankSpec
<1>2. SearchSpec => []SearchInv
  BY SearchInitInv, SearchStep, PTL DEF SearchSpec
<1>3. BlueprintSpec => []QuotasInv
  BY BlueprintInitInv, BlueprintStep, PTL DEF BlueprintSpec
<1>4. AbilitySpec => []AbilityInv
  BY AbilityInitInv, AbilityStep, PTL DEF AbilitySpec
<1>5. GradingSpec => []GradingInv
  BY NoOutcomeBefore, GradingInvInductive, PTL DEF GradingSpec
<1>6. SimulationSpec => []SimulationInv
  BY SimulationInitInv, SimulationStep, PTL DEF SimulationSpec
<1>7. RunsSpec => []RunsInv
  BY RunsInitInv, RunsStep, PTL DEF RunsSpec
<1>8. EvalSpec => []EvalInv
  BY EvalInitInv, EvalStep, PTL DEF EvalSpec
<1>9. /\ BankInv => BankTypeOK
      /\ SearchInv => SearchTypeOK
      /\ QuotasInv => BlueprintTypeOK
      /\ AbilityInv => AbilityTypeOK
      /\ GradingInv => GradingTypeOK
      /\ SimulationInv => SimulationTypeOK
      /\ RunsInv => RunsTypeOK
      /\ EvalInv => EvalTypeOK
  BY DEF BankInv, SearchInv, QuotasInv, AbilityInv, AbilityTypeOK, GradingInv, SimulationInv,
         RunsInv, EvalInv
<1>10. (/\ BankTypeOK /\ SearchTypeOK /\ BlueprintTypeOK /\ AbilityTypeOK /\ GradingTypeOK
        /\ SimulationTypeOK /\ RunsTypeOK /\ EvalTypeOK /\ RecordingsTypeOK)
          => ComponentsTypeOK
  BY DEF ComponentsTypeOK
<1> QED BY <1>1, <1>2, <1>3, <1>4, <1>5, <1>6, <1>7, <1>8, <1>9, <1>10,
           RecordingsTypes, ComponentsParts, PTL
=============================================================================
