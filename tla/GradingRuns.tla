---------------------------- MODULE GradingRuns ----------------------------
(***************************************************************************)
(* The grading-validity harness (scripts/run_grading_validity.py over      *)
(* app/grading/runs.py): passes over an evaluation set that pay for model  *)
(* calls, several at a time, and keep every row in runs.jsonl so that a    *)
(* later pass, or the report, starts from what is on disk.                 *)
(*                                                                         *)
(* The file is rewritten in place after every row: a process killed inside *)
(* that write leaves the rows it had come to.                              *)
(*                                                                         *)
(* Abstracted: the grade itself (a job lands or fails), one prompt version *)
(* and the three paid probes as one, "probe"; answer ids are numbers, in   *)
(* the ids' order.  A kill inside the write of failures.jsonl, which loses *)
(* entries of that file and no row, is left out.                           *)
(***************************************************************************)
EXTENDS Naturals, Sequences, FiniteSets, Functions

CONSTANTS
  Answers,      \* the evaluation set
  Order,        \* labelling_order: the answers in the seeded order
  Sampled,      \* _probe_sample: one answer for each question, in that order
  RetestRuns,   \* --runs: gradings of one answer in a test-retest pass
  Concurrency,  \* --concurrency: answers in flight at once
  MaxPasses,    \* bound: passes started
  MaxCuts       \* bound: kills inside a write of runs.jsonl

ASSUME AnswersAreOrdered == Answers \subseteq Nat
ASSUME OrderIsAnswers == /\ Order \in Seq(Answers) /\ Range(Order) = Answers
                         /\ Len(Order) = Cardinality(Answers) /\ Sampled \in Seq(Answers)
ASSUME PassBounds == RetestRuns \in Nat /\ Concurrency \in Nat /\ MaxPasses \in Nat
                      /\ MaxCuts \in Nat

VARIABLES
  runs,      \* runs.jsonl: how many rows it has of each key
  failures,  \* failures.jsonl: the keys that once produced no score
  pass,      \* the pass under way, or the last one
  passes,    \* passes started so far
  legible,   \* every line of runs.jsonl is a whole row
  cuts       \* kills inside a write of it so far

fileVars == <<legible, cuts>>
runVars == <<runs, failures, pass, passes, fileVars>>

(* GradingRun.key, for one prompt version.                                 *)
RunKey == Answers \X {"base", "probe", "concepts_shuffled"} \X (0..RetestRuns)

(* todo are the places in jobs of the ones it takes up, waiting those that *)
(* are still to be launched, flying those that wait for the model; out is  *)
(* the list the pass holds.                                                *)
Pass == [phase : {"none", "running", "ended", "killed"},
         jobs : Seq(RunKey), todo : SUBSET Nat, waiting : SUBSET Nat,
         flying : SUBSET Nat, out : [RunKey -> Nat], failed : SUBSET RunKey]

NoRows == [k \in RunKey |-> 0]

NoPass == [phase |-> "none", jobs |-> <<>>, todo |-> {}, waiting |-> {},
           flying |-> {}, out |-> NoRows, failed |-> {}]

RunsInit ==
  /\ runs = NoRows /\ failures = {} /\ pass = NoPass /\ passes = 0
  /\ legible = TRUE /\ cuts = 0

(***************************************************************************)
(* dump_runs: the rows sorted by key, written over the old file.           *)
(***************************************************************************)
VariantRank == [base |-> 1, concepts_shuffled |-> 2, probe |-> 3]

KeyBefore(j, k) ==
  \/ j[1] < k[1]
  \/ j[1] = k[1] /\ VariantRank[j[2]] < VariantRank[k[2]]
  \/ j[1] = k[1] /\ j[2] = k[2] /\ j[3] < k[3]

(* What is left of a write that ends inside, or just before, the row after *)
(* the first n of key k.                                                   *)
CutAt(rows, k, n) ==
  [j \in RunKey |-> IF KeyBefore(j, k) THEN rows[j] ELSE IF j = k THEN n ELSE 0]

CutWrite(rows) ==
  /\ cuts < MaxCuts /\ cuts' = cuts + 1
  /\ \E k \in RunKey : \E n \in 0..(rows[k] - 1) : runs' = CutAt(rows, k, n)
  /\ legible' \in BOOLEAN

(***************************************************************************)
(* The jobs the flags of one invocation ask for, in the order it queues    *)
(* them.                                                                   *)
(***************************************************************************)
Jobs(answers, variant, indices) ==
  [n \in 1..(Len(answers) * indices) |->
     <<answers[(n - 1) \div indices + 1], variant, (n - 1) % indices>>]

Queued(flags) ==
  (IF "grade"  \in flags THEN Jobs(Order, "base", 1)          ELSE <<>>)
  \o (IF "subset" \in flags THEN Jobs(Sampled, "base", 1)  ELSE <<>>)
  \o (IF "retest" \in flags THEN Jobs(Order, "base", RetestRuns) ELSE <<>>)
  \o (IF "probe"  \in flags THEN Jobs(Sampled, "probe", 1) ELSE <<>>)

(* runs_index refuses a file with two rows of one key.                     *)
Indexed(rows) == \A k \in RunKey : rows[k] <= 1

(* --probe position re-scores the stored base rows and makes no call: each *)
(* of them has one concepts_shuffled row afterwards.                       *)
Rescored(rows) ==
  [k \in RunKey |-> IF /\ k[2] = "concepts_shuffled" /\ k[3] = 0
                       /\ rows[<<k[1], "base", 0>>] > 0
                    THEN 1 ELSE rows[k]]

(***************************************************************************)
(* _grade_many.                                                            *)
(***************************************************************************)
(* What is on disk is not graded again; --limit caps the new calls.        *)
Outstanding(jobs, rows, limit) ==
  LET todo == {n \in DOMAIN jobs : rows[jobs[n]] = 0}
  IN  IF limit = 0 THEN todo
      ELSE {n \in todo : Cardinality({m \in todo : m < n}) < limit}

StartPass(flags, position, limit) ==
  LET rows == IF position THEN Rescored(runs) ELSE runs
      jobs == Queued(flags)
      todo == Outstanding(jobs, rows, limit)
  IN  /\ pass.phase # "running" /\ passes < MaxPasses
      /\ position \/ jobs # <<>>
      /\ legible /\ Indexed(runs)      \* otherwise it raises, nothing done
      /\ runs' = rows
      /\ pass' = IF jobs = <<>> THEN NoPass
                 ELSE [NoPass EXCEPT !.phase = "running", !.jobs = jobs, !.todo = todo,
                                     !.waiting = todo, !.out = rows]
      /\ passes' = passes + 1
      /\ UNCHANGED <<failures, fileVars>>

(* The semaphore lets the jobs through in the order they were queued.      *)
Launch ==
  /\ pass.phase = "running" /\ Cardinality(pass.flying) < Concurrency
  /\ \E i \in pass.waiting :
       /\ \A j \in pass.waiting : i <= j
       /\ pass' = [pass EXCEPT !.waiting = @ \ {i}, !.flying = @ \cup {i}]
  /\ UNCHANGED <<runs, failures, passes, fileVars>>

(* Seeded bug: a job writes what was on disk when the others were launched. *)
LandsAlone(i) ==
  /\ pass.phase = "running" /\ i \in pass.flying
  /\ pass' = [pass EXCEPT !.flying = @ \ {i}, !.out[pass.jobs[i]] = @ + 1]
  /\ runs' = [k \in RunKey |-> IF k = pass.jobs[i] THEN runs[k] + 1
                              ELSE IF \E j \in pass.todo \ pass.waiting : pass.jobs[j] = k
                                   THEN 0 ELSE runs[k]]
  /\ UNCHANGED <<failures, passes, fileVars>>

(* The row joins the pass's list and the whole list is written, under the  *)
(* lock.                                                                   *)
Lands(i) ==
  /\ pass.phase = "running" /\ i \in pass.flying
  /\ pass' = [pass EXCEPT !.flying = @ \ {i}, !.out[pass.jobs[i]] = @ + 1]
  /\ runs' = pass'.out
  /\ UNCHANGED <<failures, passes, fileVars>>

(* Any exception of the grader, the contract check's included.             *)
FailsToGrade(i) ==
  /\ pass.phase = "running" /\ i \in pass.flying
  /\ pass' = [pass EXCEPT !.flying = @ \ {i}, !.failed = @ \cup {pass.jobs[i]}]
  /\ UNCHANGED <<runs, failures, passes, fileVars>>

(* The list once more, and the failures merged with those on disk.         *)
EndPass ==
  /\ pass.phase = "running" /\ pass.waiting = {} /\ pass.flying = {}
  /\ runs' = pass.out
  /\ failures' = failures \cup pass.failed
  /\ pass' = [pass EXCEPT !.phase = "ended"]
  /\ UNCHANGED <<passes, fileVars>>

Killed == [NoPass EXCEPT !.phase = "killed", !.jobs = pass.jobs]

(* Ctrl-C, a lost machine, between two writes: the pass's list and its     *)
(* failures are gone.                                                      *)
KillPass ==
  /\ pass.phase = "running"
  /\ pass' = Killed
  /\ UNCHANGED <<runs, failures, passes, fileVars>>

(* The same inside the write of a row that landed, or of the last one.     *)
KillWriting ==
  /\ pass.phase = "running"
  /\ \/ \E i \in pass.flying : CutWrite([pass.out EXCEPT ![pass.jobs[i]] = @ + 1])
     \/ pass.waiting = {} /\ pass.flying = {} /\ CutWrite(pass.out)
  /\ pass' = Killed
  /\ UNCHANGED <<failures, passes>>

(* The same inside the write of the re-scored rows: no job was launched.   *)
KillRescoring ==
  /\ pass.phase # "running" /\ passes < MaxPasses
  /\ legible /\ Indexed(runs)
  /\ \E a \in Answers : runs[<<a, "base", 0>>] > 0
  /\ CutWrite(Rescored(runs))
  /\ pass' = NoPass /\ passes' = passes + 1
  /\ UNCHANGED failures

(* A person takes the torn line out.                                       *)
MendRuns ==
  /\ ~legible /\ legible' = TRUE
  /\ UNCHANGED <<runs, failures, pass, passes, cuts>>

RunsNext ==
  \/ \E flags \in SUBSET {"grade", "subset", "retest", "probe"}, position \in BOOLEAN,
        limit \in 0..1 : StartPass(flags, position, limit)
  \/ Launch
  \/ \E i \in pass.flying : Lands(i) \/ FailsToGrade(i)
  \/ EndPass
  \/ KillPass \/ KillWriting \/ KillRescoring
  \/ MendRuns

RunsSpec == RunsInit /\ [][RunsNext]_runVars

(***************************************************************************)
(* The report: build_report, from the rows alone.                          *)
(***************************************************************************)
(* select(runs, variant, run_index): the answers that have the row.        *)
Selected(variant, index) == {a \in Answers : runs[<<a, variant, index>>] > 0}

(* A probe is a difference: rows without a base row are left out.          *)
Paired(variant) == Selected(variant, 0) \cap Selected("base", 0)

(***************************************************************************)
(* Properties.                                                             *)
(***************************************************************************)
RunsTypeOK ==
  /\ runs \in [RunKey -> Nat] /\ failures \subseteq RunKey /\ pass \in Pass
  /\ pass.todo \subseteq DOMAIN pass.jobs
  /\ pass.waiting \cup pass.flying \subseteq pass.todo /\ pass.waiting \cap pass.flying = {}
  /\ passes \in 0..MaxPasses /\ legible \in BOOLEAN /\ cuts \in 0..MaxCuts

(* "A rate limit 90 answers into a 120-answer pass must cost nothing       *)
(* already paid for" (the script's docstring): no step of any pass takes a *)
(* row off the disk, nor does a kill, but for one inside the write of the  *)
(* file.                                                                   *)
PaidForIsKept ==
  [][cuts' = cuts => \A k \in RunKey : runs[k] <= runs'[k]]_runVars

(* What the docstring and evals/reports/grading/README.md say without that *)
(* exception ("the file is never left half-written"): not so.              *)
NothingPaidIsLost == [][\A k \in RunKey : runs[k] <= runs'[k]]_runVars
NeverHalfWritten == legible

(* A pass that came to its end has, for every job it took up, a row on     *)
(* disk or an entry in the failure log: no answer is silently missing.     *)
EveryJobIsAccountedFor ==
  pass.phase = "ended" =>
    \A i \in pass.todo : runs[pass.jobs[i]] > 0 \/ pass.jobs[i] \in failures

(* runs_index: "keyed by (answer_id, prompt_version, variant, run_index).  *)
(* No duplicates", or the file can be read by no later pass.  It is so     *)
(* unless one invocation queues a job twice, as --grade with --retest do.  *)
RunsAreDistinctIfQueuedOnce == IsInjective(pass.jobs) => Indexed(runs)

(* A re-scored row never outlives the base row it is compared with, not    *)
(* even where a kill cuts the file between the two.                        *)
RescoresArePaired ==
  Paired("concepts_shuffled") = Selected("concepts_shuffled", 0)

(* What makes a pass worth resuming, whatever was cut off before it:       *)
(* nothing it paid for is lost outside such a cut, nothing it took up is   *)
(* missing when it ends, and the next pass finds no row twice.             *)
PassesAreResumable ==
  /\ PaidForIsKept
  /\ [](EveryJobIsAccountedFor /\ RunsAreDistinctIfQueuedOnce /\ RescoresArePaired)

(* Inductive: while a pass runs, its list is the file, what it took up is  *)
(* waiting, flying, on disk or has failed, and every job is a model call.  *)
RunsInv ==
  /\ RunsTypeOK /\ EveryJobIsAccountedFor /\ RunsAreDistinctIfQueuedOnce
  /\ \A i \in DOMAIN pass.jobs : pass.jobs[i][2] # "concepts_shuffled"
  /\ \A a \in Answers : runs[<<a, "concepts_shuffled", 0>>] > 0 => runs[<<a, "base", 0>>] > 0
  /\ pass.phase = "running" =>
       /\ pass.out = runs
       /\ \A i \in pass.todo \ (pass.waiting \cup pass.flying) :
            runs[pass.jobs[i]] > 0 \/ pass.jobs[i] \in pass.failed
       /\ IsInjective(pass.jobs) =>
            \A i \in pass.waiting \cup pass.flying : runs[pass.jobs[i]] = 0
=============================================================================
