------------------------------- MODULE QuestionBank -------------------------------
(***************************************************************************)
(* The question bank: JSONL files in git, edited and reviewed by people,   *)
(* and the questions table, a materialisation of them.                     *)
(* scripts/ingest_question_bank.py loads and validates the files and then, *)
(* in one transaction, upserts the selected items and embeds those whose   *)
(* stored fingerprint no longer matches (app/bank/ingest.py,               *)
(* app/retrieval/indexing.py); scripts/review_question_bank.py marks an    *)
(* item reviewed.  An item is its wording; validation (schema, taxonomy,   *)
(* unique ids, near-duplicates) is the set of wordings it refuses.  The    *)
(* upserts of the topics come first, in one order, so transactions of two  *)
(* ingest runs take effect one after the other.                            *)
(***************************************************************************)
EXTENDS Naturals, FiniteSets

CONSTANTS
  Questions,   \* ids
  Wordings,    \* what the text of a question can be
  Refused,     \* the wordings validate_bank reports an error for
  EmbedModels, \* ids of embedding models
  Ingests,     \* ingest runs that may be under way at once
  NoEmbed,     \* whether --no-embed is used
  MaxChanges   \* bound: edits and removals in the files

ASSUME BankBounds == /\ Refused \subseteq Wordings /\ MaxChanges \in Nat
                     /\ "none" \notin Wordings

VARIABLES
  files,     \* question -> its line in the files
  rows,      \* question -> its row in the questions table
  shown,     \* what review_question_bank has on screen, waiting for "y"
  ingest,    \* ingest run -> the bank it loaded and its options
  changes    \* edits and removals so far

bankVars == <<files, rows, shown, ingest, changes>>

NoLine == [text |-> "none", status |-> "none"]
NoVector == [of |-> "none", model |-> "none"]
NoRow == [text |-> "none", vector |-> NoVector, fingerprint |-> NoVector]
NotIngesting == [under |-> FALSE, bank |-> [q \in Questions |-> NoLine],
                 reviewed |-> FALSE, embedder |-> "none", reembed |-> FALSE]

BankInit ==
  /\ files \in [Questions -> {[text |-> w, status |-> "drafted"] : w \in Wordings \ Refused}]
  /\ rows = [q \in Questions |-> NoRow]
  /\ shown = [id |-> "none", text |-> "none"]
  /\ ingest = [i \in Ingests |-> NotIngesting]
  /\ changes = 0

Lines(bank) == {q \in Questions : bank[q] # NoLine}

\* validate_bank: report.ok
ValidBank(bank) == \A q \in Lines(bank) : bank[q].text \notin Refused

-----------------------------------------------------------------------------
\* A person rewords an item, or adds one: a draft again.
Reword(q, w) ==
  /\ changes < MaxChanges
  /\ files[q].text # w
  /\ files' = [files EXCEPT ![q] = [text |-> w, status |-> "drafted"]]
  /\ changes' = changes + 1
  /\ UNCHANGED <<rows, shown, ingest>>

RemoveLine(q) ==
  /\ changes < MaxChanges
  /\ q \in Lines(files)
  /\ files' = [files EXCEPT ![q] = NoLine]
  /\ changes' = changes + 1
  /\ UNCHANGED <<rows, shown, ingest>>

\* --approve: the bank must validate; the item is printed and "y" awaited.
ShowItem(q) ==
  /\ shown.id = "none"
  /\ ValidBank(files)
  /\ q \in Lines(files) /\ files[q].status = "drafted"
  /\ shown' = [id |-> q, text |-> files[q].text]
  /\ UNCHANGED <<files, rows, ingest, changes>>

\* _rewrite_line reads the file again and looks only at the id of the line.
Approve ==
  /\ shown.id # "none"
  /\ shown' = [id |-> "none", text |-> "none"]
  /\ files' = IF shown.id \in Lines(files)
              THEN [files EXCEPT ![shown.id].status = "reviewed"] ELSE files
  /\ UNCHANGED <<rows, ingest, changes>>

-----------------------------------------------------------------------------
\* _run: load and validate; with an error nothing is written.
LoadFiles(i) ==
  /\ ~ingest[i].under
  /\ ValidBank(files)
  /\ \E reviewed, reembed \in BOOLEAN, e \in EmbedModels \cup {"none"} :
       /\ e = "none" => NoEmbed
       /\ ingest' = [ingest EXCEPT ![i] =
            [under |-> TRUE, bank |-> files, reviewed |-> reviewed, embedder |-> e,
             reembed |-> reembed]]
  /\ UNCHANGED <<files, rows, shown, changes>>

SelectedItems(run) ==
  {q \in Lines(run.bank) : run.reviewed => run.bank[q].status = "reviewed"}

(* Seeded bug: a stored vector is current if the model is the one in use.   *)
CurrentByModel(row, text, model) == row.vector # NoVector /\ row.fingerprint.model = model

\* embed_questions: the row has a vector and its fingerprint is the one wanted.
CurrentVector(row, text, model) ==
  row.vector # NoVector /\ row.fingerprint = [of |-> text, model |-> model]

\* question_row and the upsert: every column but the embedding's three.
Upserted(row, text) == [row EXCEPT !.text = text]

Embedded(row, run, text) ==
  IF run.embedder = "none" \/ (CurrentVector(row, text, run.embedder) /\ ~run.reembed) THEN row
  ELSE LET made == [of |-> text, model |-> run.embedder]
       IN [row EXCEPT !.vector = made, !.fingerprint = made]

\* ingest_bank and the commit: one transaction.  What is not in the files stays.
CommitIngest(i) ==
  LET run == ingest[i] IN
  /\ run.under
  /\ rows' = [q \in Questions |->
       IF q \in SelectedItems(run)
       THEN Embedded(Upserted(rows[q], run.bank[q].text), run, run.bank[q].text)
       ELSE rows[q]]
  /\ ingest' = [ingest EXCEPT ![i] = NotIngesting]
  /\ UNCHANGED <<files, shown, changes>>

\* The database or the model fails: the transaction is rolled back.
RollBack(i) ==
  /\ ingest[i].under
  /\ ingest' = [ingest EXCEPT ![i] = NotIngesting]
  /\ UNCHANGED <<files, rows, shown, changes>>

BankNext ==
  \/ \E q \in Questions : \/ \E w \in Wordings : Reword(q, w)
                          \/ RemoveLine(q) \/ ShowItem(q)
  \/ Approve
  \/ \E i \in Ingests : LoadFiles(i) \/ CommitIngest(i) \/ RollBack(i)

BankSpec == BankInit /\ [][BankNext]_bankVars

-----------------------------------------------------------------------------
\* Type correctness of the files, the rows and the runs.
Line == [text : Wordings, status : {"drafted", "reviewed"}] \cup {NoLine}
Vector == [of : Wordings, model : EmbedModels] \cup {NoVector}
QuestionRow == [text : Wordings \cup {"none"}, vector : Vector, fingerprint : Vector]
Ingest == [under : BOOLEAN, bank : [Questions -> Line], reviewed : BOOLEAN,
           embedder : EmbedModels \cup {"none"}, reembed : BOOLEAN]

BankTypeOK ==
  /\ files \in [Questions -> Line]
  /\ rows \in [Questions -> QuestionRow]
  /\ ingest \in [Ingests -> Ingest]
  /\ \A i \in Ingests : ValidBank(ingest[i].bank)
  /\ changes \in 0..MaxChanges

\* Nothing validation refuses is served, and a stored fingerprint tells what
\* its vector was made of.
RowsAreSound == \A q \in Questions : /\ rows[q].text \notin Refused
                                     /\ rows[q].vector = rows[q].fingerprint

\* A run that embeds leaves every row it wrote with a vector of its own text
\* by its own model, and no run drops a row.
IngestsAreWhole ==
  [][\A i \in Ingests : ingest[i].under /\ ~ingest'[i].under /\ rows' # rows =>
       /\ \A q \in SelectedItems(ingest[i]) : ingest[i].embedder # "none" =>
            rows'[q].vector = [of |-> rows'[q].text, model |-> ingest[i].embedder]
       /\ \A q \in Questions : rows[q] # NoRow => rows'[q] # NoRow]_bankVars

(***************************************************************************)
(* However runs, rewordings, models and --no-embed follow each other, the  *)
(* table holds only what was validated, and a run that embeds repairs also *)
(* the vectors an earlier run left stale (indexing.py, ingest.py).         *)
(***************************************************************************)
BankIsMaterialised == []RowsAreSound /\ IngestsAreWhole

BankInv == BankTypeOK /\ RowsAreSound

\* "in the same transaction as the rows, so the two cannot disagree"
\* (ingest_question_bank.py): a vector search ranks a question by its own text.
\* Not so after --no-embed: the upsert keeps the vector of the old wording.
RowsAndVectorsAgree ==
  \A q \in Questions : rows[q].vector # NoVector => rows[q].vector.of = rows[q].text
=============================================================================
