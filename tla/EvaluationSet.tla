--------------------------- MODULE EvaluationSet ---------------------------
(***************************************************************************)
(* The grading evaluation set and the labels attached to it: the builder   *)
(* (scripts/build_grading_evalset.py), the labelling sittings              *)
(* (scripts/label_grading_evalset.py), the reference-label passes and      *)
(* their adjudication (scripts/build_reference_labels.py), over            *)
(* app/grading/evalset.py and reflabel.py.                                 *)
(*                                                                         *)
(* A build reads the file, waits for the model and then writes all of it;  *)
(* a sitting reads it once and writes all of it after every score.  Several*)
(* may be open in terminals at once, and nothing stops one from writing    *)
(* over what another wrote.  Applying a file of scores and retiring the    *)
(* model's are one step each: they wait for nobody.                        *)
(*                                                                         *)
(* Abstracted: answer texts (an answer is its id: one that was lost and is *)
(* built again has another text), rationales and prompts; the second       *)
(* labeller's columns, which the first's repeat.  Every build samples the  *)
(* same questions (the default --seed and --questions).  One reference     *)
(* pass runs at a time.  What a kill inside a write tears, a person takes  *)
(* out of the file in the same step.                                       *)
(***************************************************************************)
EXTENDS Integers, Sequences, FiniteSets

CONSTANTS
  Sample,     \* stratified_questions: the sampled questions, sorted by id
  Levels,     \* QUALITY_LEVELS, in order
  Scores,     \* the scores that occur, out of MIN_LABEL..MAX_LABEL
  Gap,        \* ADJUDICATION_GAP
  NoScore,    \* None
  Shuffle,    \* random.Random(LABEL_SEED).shuffle, for each length
  Terminals,  \* where builds and sittings run
  MaxSpoiled  \* bound: writes that lost something

ASSUME ScaleAssumption == Scores \subseteq 0..4 /\ NoScore \notin 0..4 /\ Gap \in Nat
ASSUME PlanAssumption == Len(Sample) \in Nat /\ Len(Levels) \in Nat
ASSUME SpoiledAssumption == MaxSpoiled \in Nat

VARIABLES
  dataset,   \* answers.jsonl: the rows (EvalAnswer)
  labels,    \* reference_labels.jsonl: the rows (ReferenceLabel)
  copy,      \* what the process of each terminal does, the rows it holds
  worklist,  \* the ids of the answers the latest worklist lists
  spoiled    \* history: writes that lost rows or scores, so far

evalVars == <<dataset, labels, copy, worklist, spoiled>>

EvalAnswer == [id : Nat, question : {Sample[i] : i \in 1..Len(Sample)},
               intent : {Levels[i] : i \in 1..Len(Levels)},
               human_score : Scores \cup {NoScore},
               label_source : {"human", "model", "none"},
               model_score : Scores \cup {NoScore}]

ReferenceLabel == [answer_id : Nat, question_id : {Sample[i] : i \in 1..Len(Sample)},
                   pass_name : {"blind", "concept_aware", "adjudication"},
                   score : Scores,
                   adjudication : {"none", "agreed", "revised"},
                   adjudicated_score : Scores \cup {NoScore}]

Desk == [task : {"none", "build", "sitting"}, rows : SUBSET EvalAnswer]
Closed == [task |-> "none", rows |-> {}]

EvalInit ==
  /\ dataset = {} /\ labels = {} /\ worklist = {} /\ spoiled = 0
  /\ copy = [t \in Terminals |-> Closed]

(***************************************************************************)
(* dump_answers: a process that held `held` writes `rows`.                 *)
(***************************************************************************)
Spoil == spoiled < MaxSpoiled /\ spoiled' = spoiled + 1

(* Nothing compares the file with what was read from it.                   *)
DumpAnswers(held, rows) ==
  /\ dataset' = rows
  /\ \/ held = dataset /\ UNCHANGED spoiled
     \/ held # dataset /\ Spoil

(* A kill inside the write: the rows are in the order of their ids.        *)
DumpIsCut(rows) ==
  /\ \E cut \in rows : dataset' = {row \in rows : row.id < cut.id}
  /\ Spoil

(***************************************************************************)
(* _build: one answer for each question and level that the file lacks, its *)
(* id the place of the pair in the whole plan.                             *)
(***************************************************************************)
Number(q, l) == (q - 1) * Len(Levels) + l

Have(rows, q, l) == \E row \in rows : row.question = Sample[q] /\ row.intent = Levels[l]

Unfilled(rows) ==
  {pair \in (1..Len(Sample)) \X (1..Len(Levels)) : ~Have(rows, pair[1], pair[2])}

Fresh(pair) ==
  [id |-> Number(pair[1], pair[2]),
   question |-> Sample[pair[1]], intent |-> Levels[pair[2]],
   human_score |-> NoScore, label_source |-> "none", model_score |-> NoScore]

(* The generations that fail are left for the next build.                  *)
BuildWrites(rows) ==
  {rows \cup {Fresh(pair) : pair \in built} : built \in SUBSET Unfilled(rows)}

Open(t, task) ==
  /\ copy[t] = Closed
  /\ copy' = [copy EXCEPT ![t] = [task |-> task, rows |-> dataset]]
  /\ UNCHANGED <<dataset, labels, worklist, spoiled>>

StartBuild(t) == Open(t, "build")

EndBuild(t) ==
  /\ copy[t].task = "build"
  /\ \E rows \in BuildWrites(copy[t].rows) : DumpAnswers(copy[t].rows, rows)
  /\ copy' = [copy EXCEPT ![t] = Closed]
  /\ UNCHANGED <<labels, worklist>>

(***************************************************************************)
(* Labelling: a row that has a score is left alone.                        *)
(***************************************************************************)
Unscored(rows) == {row \in rows : row.human_score = NoScore}
Rescore(rows, row, score, source) ==
  (rows \ {row}) \cup {[row EXCEPT !.human_score = score, !.label_source = source]}

StartSitting(t) == Unscored(dataset) # {} /\ Open(t, "sitting")

(* Rows may be skipped, so that any may be the next.                       *)
LabelInSitting(t, row, score, source) ==
  /\ copy[t].task = "sitting" /\ row \in Unscored(copy[t].rows)
  /\ LET rows == Rescore(copy[t].rows, row, score, source)
     IN  /\ DumpAnswers(copy[t].rows, rows)
         /\ copy' = [copy EXCEPT ![t].rows = rows]
  /\ UNCHANGED <<labels, worklist>>

(* The sitting is over, or the process is killed between its writes.       *)
CloseTerminal(t) ==
  /\ copy[t].task # "none"
  /\ copy' = [copy EXCEPT ![t] = Closed]
  /\ UNCHANGED <<dataset, labels, worklist, spoiled>>

KillSaving(t) ==
  /\ \/ copy[t].task = "build" /\ \E rows \in BuildWrites(copy[t].rows) : DumpIsCut(rows)
     \/ /\ copy[t].task = "sitting"
        /\ \E row \in Unscored(copy[t].rows), score \in Scores, source \in {"human", "model"} :
             DumpIsCut(Rescore(copy[t].rows, row, score, source))
  /\ copy' = [copy EXCEPT ![t] = Closed]
  /\ UNCHANGED <<labels, worklist>>

(* --from-file, a line at a time.                                          *)
LabelFromFile(row, score, source) ==
  /\ row \in Unscored(dataset)
  /\ LET rows == Rescore(dataset, row, score, source)
     IN  DumpAnswers(dataset, rows) \/ DumpIsCut(rows)
  /\ UNCHANGED <<labels, copy, worklist>>

(* labelling_order: the ids in the order of the file, shuffled by a seed.  *)
IdsOf(rows) == {row.id : row \in rows}
Nth(ids, n) == CHOOSE i \in ids : Cardinality({j \in ids : j <= i}) = n
LabellingOrder(ids) ==
  [n \in 1..Cardinality(ids) |-> Nth(ids, Shuffle[Cardinality(ids)][n])]

(* --worklist: positions and texts, no ids.                                *)
WriteWorklist ==
  /\ dataset # {} /\ worklist' = IdsOf(dataset)
  /\ UNCHANGED <<dataset, labels, copy, spoiled>>

(* Seeded bug: the position is taken among the rows still to be labelled.  *)
IsAtOfTodo(row, n, rows) ==
  LET todo == IdsOf(Unscored(rows))
  IN  n <= Cardinality(todo) /\ row.id = LabellingOrder(todo)[n]

IsAt(row, n, rows) ==
  n <= Cardinality(IdsOf(rows)) /\ row.id = LabellingOrder(IdsOf(rows))[n]

(* --from-file --by-position: the position of the answer in the worklist   *)
(* is looked up among the rows of now.                                     *)
LabelByPosition(n, score, source) ==
  \E row \in dataset : IsAt(row, n, dataset) /\ LabelFromFile(row, score, source)

(* --retire-model-labels: every model label moves out of the human column, *)
(* unless one of them would overwrite a label retired before.              *)
RetireModelLabels ==
  LET model == {row \in dataset : row.label_source = "model"}
      rows == (dataset \ model)
                \cup {[row EXCEPT !.model_score = row.human_score, !.human_score = NoScore,
                                  !.label_source = "none"] : row \in model}
  IN  /\ model # {} /\ \A row \in model : row.model_score = NoScore
      /\ DumpAnswers(dataset, rows) \/ DumpIsCut(rows)
      /\ UNCHANGED <<labels, copy, worklist>>

(* gate_eligible: what the Phase-4 gate accepts.                           *)
GateEligible ==
  /\ Cardinality(dataset) = Len(Sample) * Len(Levels)
  /\ \A row \in dataset : row.human_score # NoScore /\ row.label_source = "human"

(***************************************************************************)
(* Reference labels: one for each answer and pass, and a third opinion on  *)
(* the answers the two passes disagree about.                              *)
(***************************************************************************)
LabelsOf(pass) == {label \in labels : label.pass_name = pass}

LabelFor(row, pass, score) ==
  [answer_id |-> row.id, question_id |-> row.question, pass_name |-> pass, score |-> score,
   adjudication |-> "none", adjudicated_score |-> NoScore]

ReferenceLands(row, pass, score) ==
  /\ \A label \in LabelsOf(pass) : label.answer_id # row.id
  /\ labels' = labels \cup {LabelFor(row, pass, score)}
  /\ UNCHANGED <<dataset, copy, worklist, spoiled>>

(* needs_adjudication compares what the passes said, not what was revised. *)
Contested(blind) ==
  \E aware \in LabelsOf("concept_aware") :
    /\ aware.answer_id = blind.answer_id
    /\ blind.score - aware.score >= Gap \/ aware.score - blind.score >= Gap

(* The adjudicator's row and its outcome on the blind row, in one write.   *)
Adjudicate(row, score) ==
  \E blind \in LabelsOf("blind") :
    /\ blind.answer_id = row.id /\ blind.adjudication = "none" /\ Contested(blind)
    /\ labels' = (labels \ {blind})
                   \cup {LabelFor(row, "adjudication", score),
                         [blind EXCEPT !.adjudicated_score = score,
                                       !.adjudication = IF score = blind.score THEN "agreed"
                                                        ELSE "revised"]}
    /\ UNCHANGED <<dataset, copy, worklist, spoiled>>

(* A kill inside dump_reference_labels: rows by pass, then by answer.      *)
PassRank == [adjudication |-> 1, blind |-> 2, concept_aware |-> 3]

LabelBefore(label, other) ==
  \/ PassRank[label.pass_name] < PassRank[other.pass_name]
  \/ label.pass_name = other.pass_name /\ label.answer_id < other.answer_id

KillLabelling ==
  /\ \E cut \in labels : labels' = {label \in labels : LabelBefore(label, cut)}
  /\ Spoil
  /\ UNCHANGED <<dataset, copy, worklist>>

EvalNext ==
  \/ \E t \in Terminals :
       \/ StartBuild(t) \/ EndBuild(t) \/ StartSitting(t) \/ CloseTerminal(t) \/ KillSaving(t)
       \/ \E row \in copy[t].rows, score \in Scores, source \in {"human", "model"} :
            LabelInSitting(t, row, score, source)
  \/ \E row \in dataset, score \in Scores :
       \/ \E source \in {"human", "model"} : LabelFromFile(row, score, source)
       \/ \E pass \in {"blind", "concept_aware"} : ReferenceLands(row, pass, score)
       \/ Adjudicate(row, score)
  \/ \E n \in 1..Cardinality(worklist), score \in Scores, source \in {"human", "model"} :
       LabelByPosition(n, score, source)
  \/ WriteWorklist
  \/ RetireModelLabels
  \/ KillLabelling

EvalSpec == EvalInit /\ [][EvalNext]_evalVars

(***************************************************************************)
(* Properties.                                                             *)
(***************************************************************************)
EvalTypeOK ==
  /\ dataset \subseteq EvalAnswer /\ labels \subseteq ReferenceLabel
  /\ copy \in [Terminals -> Desk] /\ worklist \subseteq Nat /\ spoiled \in 0..MaxSpoiled

(* Every label is of the answer it names: ids are handed out by several    *)
(* builds, and runs, labels and reports in other files refer to them.  A   *)
(* label's answer is only missing where a write lost it.                   *)
LabelsFollowTheirAnswer ==
  /\ \A row, other \in dataset : row.id = other.id => row = other
  /\ \A label \in labels : \A row \in dataset :
       row.id = label.answer_id => row.question = label.question_id
  /\ spoiled = 0 => \A label \in labels : label.answer_id \in IdsOf(dataset)

(* A label says it was adjudicated exactly when the third opinion that did *)
(* it is on file, and there is one opinion for each pass and answer, until *)
(* a kill cuts the file.                                                   *)
AdjudicationIsOnFile ==
  spoiled = 0 =>
    /\ \A blind \in LabelsOf("blind") :
         blind.adjudication # "none"
           <=> \E third \in LabelsOf("adjudication") :
                 third.answer_id = blind.answer_id /\ third.score = blind.adjudicated_score
    /\ \A label, other \in labels :
         label.pass_name = other.pass_name /\ label.answer_id = other.answer_id => label = other

(* A score given for a position goes to the answer that stands there in    *)
(* the worklist, and to no row that has one, as long as the file has the   *)
(* answers the worklist was written from.                                  *)
PositionsKeepTheirAnswer ==
  [][\A n \in 1..Cardinality(worklist), score \in Scores, source \in {"human", "model"} :
       LabelByPosition(n, score, source) /\ spoiled' = spoiled /\ IdsOf(dataset) = worklist =>
         \E row \in Unscored(dataset), new \in dataset' :
           /\ row.id = LabellingOrder(worklist)[n] /\ new.id = row.id
           /\ new.human_score = score]_evalVars

(* What evalset.py:671 and label_grading_evalset.py:299 say without that   *)
(* condition ("the order is a pure function of seed"): not so, once a      *)
(* build has added answers.                                                *)
PositionsAreEnough ==
  [][\A n \in 1..Cardinality(worklist), score \in Scores, source \in {"human", "model"} :
       LabelByPosition(n, score, source) /\ spoiled' = spoiled =>
         \E row \in Unscored(dataset) : row.id = LabellingOrder(worklist)[n]]_evalVars

(* No sitting, build or retirement destroys a score: it stays, or moves to *)
(* the retired column, where it stays for good.  The exceptions are a      *)
(* write over rows that changed since they were read, and a cut one.       *)
ScoresAreKept ==
  [][spoiled' = spoiled =>
       \A row \in dataset : \E new \in dataset' :
         /\ new.id = row.id /\ new.question = row.question
         /\ row.model_score # NoScore => new.model_score = row.model_score
         /\ row.human_score # NoScore =>
              \/ new.human_score = row.human_score /\ new.label_source = row.label_source
              \/ new.model_score = row.human_score /\ row.label_source = "model"]_evalVars

(* A set that is fit for the gate stays fit, whatever sitting comes next   *)
(* (evalset.py:513: "no Day-19 report has to remember the rule"), but for  *)
(* those two exceptions.                                                   *)
GateStaysOpen == [][spoiled' = spoiled /\ GateEligible => GateEligible']_evalVars

(* The labels can be trusted by everything computed from them.             *)
LabelsStayTrue ==
  /\ [](LabelsFollowTheirAnswer /\ AdjudicationIsOnFile)
  /\ PositionsKeepTheirAnswer /\ ScoresAreKept /\ GateStaysOpen

(* Inductive: a row's id is the place of its question and level, on disk   *)
(* and in every terminal, a label's likewise, and an opinion on file has   *)
(* left its mark on the blind label.                                       *)
Placed(row) ==
  \E q \in 1..Len(Sample), l \in 1..Len(Levels) :
    row.id = Number(q, l) /\ row.question = Sample[q] /\ row.intent = Levels[l]

WellBuilt(rows) ==
  /\ \A row, other \in rows : row.id = other.id => row = other
  /\ \A row \in rows : Placed(row)

EvalInv ==
  /\ EvalTypeOK /\ LabelsFollowTheirAnswer /\ AdjudicationIsOnFile
  /\ WellBuilt(dataset) /\ \A t \in Terminals : WellBuilt(copy[t].rows)
  /\ \A label \in labels : \E q \in 1..Len(Sample), l \in 1..Len(Levels) :
       label.answer_id = Number(q, l) /\ label.question_id = Sample[q]
  /\ spoiled = 0 =>
       \A third \in LabelsOf("adjudication") : \E blind \in LabelsOf("blind") :
         blind.answer_id = third.answer_id /\ blind.adjudication # "none"
=============================================================================
