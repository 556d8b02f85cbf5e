# A verification development for the adaptive assessment engine

The engine conducts technical interviews: it asks a question, has a model grade
the answer, decides on a follow-up or the next question, stops, and writes a
report. Everything that happened to a session is in one append-only event log in
PostgreSQL; workers move the session on between the candidate's requests. These
TLA+ modules model that machinery, from the log's transactions to the browser
that shows it, and the parts around it: model calls, uploaded documents,
sign-in, grading, ability, blueprints, the question bank, retrieval, simulation
and the tools that evaluate the grader. TLC checks them on small instances, and
TLAPS proves the main invariants for every instance.

Contents: 1 the system, 2 the modules, 3 the runs, 4 fairness, 5 where code and
documents disagree, 6 the proofs, 7 what is not modelled, 8 the plan.
Paths are relative to the repository; `app/` is `src/backend/app/`, `web/` is
`src/frontend/src/`.

## 1. The system

### Parts, state and operations

| part | state it keeps | operations | what makes it correct |
|---|---|---|---|
| State machine and fold, `app/interview/{fsm,events,state}.py` | none: pure functions from a log to a `SessionState` | `next_state`, `validate_payload`, `apply`, `fold` | every log the store accepts replays; an event is refused unless it is legal in the state before it |
| Event store, `app/interview/{store,service}.py` | `interview_events`, `interview_sessions.state` | `lock_session`, `stage_append`, `append_event`, `commit_and_cache` | the log grows by whole decisions, each legal where it stands; the projection is never anything but the fold |
| Session cache, `app/interview/cache.py` | the Redis hash `sess:{id}` | `store`, `get`, `invalidate`, `replace`; `load_state` reads through it | holds only committed folds; a read is never older than the request |
| Interview flow, `app/interview/{lifecycle,turns,flow,probing}.py` | `turns`, `follow_ups` and the log | `start_session`, `submit_turn`, `stage_after_grade`, `stage_next_bank_question`, `_ask`, `_abandon` | no commit leaves a session undecided; a waiting session has exactly one job that will move it |
| Grading worker, `app/interview/grading.py` | `turns.grading_*`, the claims of running workers | `claim_next`, `process_job`, `_succeed`, `_schedule_retry`, `_fail`, `requeue_failed_turn`, `run_worker` | each answer is graded and charged once, however many workers race; attempts are bounded |
| Report worker, `app/reporting/jobs.py` | `reports` | `ensure_report_job`, `claim_next_report`, `process_report`, `requeue_failed_report` | a session completes exactly with its report |
| Selection and stopping, `app/selection/`, `app/blueprint/` | none: pure over the state and the blueprint | `ineligibility_reason`, `should_stop`, `select_next_item` | quotas and budgets hold on every path to a question |
| Event stream, `app/interview/stream.py` | a position in the log per connection | `event_stream`, `to_message` | after a reconnect nothing twice, nothing missed |
| Interview screen, `web/pages/interview/` | the view, the form of the current question | `fromSnapshot`, `applyEvent`, `useInterview`, `AnswerForm.send` | shows a state the log was in, never goes back; a retry is never a second answer |
| Model access, `app/llm/{router,client,cache,structured}.py`, `providers/nvidia.py` | circuit breakers, structured-output modes, response cache | `call_structured`, `complete`, retry, step-down, repair, failover | a call ends; a failing provider costs a bounded number of attempts |
| Recordings, `app/llm/{recording,fixtures}.py`, `providers/stub.py` | one fixture file per exchange | `record_plan`, `save`, the stub's `complete` | what is replayed is what was recorded for that request; nothing is paid for twice |
| Documents, `app/ingestion/`, `app/api/ingestion.py` | `resumes`, `job_descriptions` rows with their jobs | upload, `claim_next`, `process`, `_finish`, `edit_profile` | the lease protocol again; no skill, quote or title is suggested that the document does not state; only what the candidate confirmed becomes a prior |
| Sign-in, `app/api/auth.py`, `app/{token_store,google_auth,security}.py` | `users`, lockout counters, used Google tokens | register, `login`, `google_sign_in` | one account each, no wrong door, no more password checks than the limit |
| Tokens, `app/token_store.py`, `web/api/client.ts`, `web/auth/` | the allowlist of refresh tokens, the browser's cookie | `refresh`, `logout`, `withRefreshLock` | a token is exchanged once; a replay ends its family, a rotation is no replay |
| Grading, `app/grading/`, `app/interview/followup.py` | one answer's judgments while it is graded | `judge_answer`, `verify_evidence`, `score_answer`, `_regrade`, `decide` | the grade is the median of what judges said that the answer really shows; a follow-up asks for what is missing |
| Ability, `app/ability.py`, `app/interview/priors.py` | the ability vector, the priors | `compute_priors`, `update_ability`, `roll_up`, `precision_reached` | steps go the right way and are bounded; only observations end an interview |
| Blueprint, `app/blueprint/` | none: a request in, a plan out | `derive_item_budget`, `allocate_quotas`, `build_blueprint` | the budget is spent within every bound, or refused for a reason |
| Question bank, `app/bank/`, `app/retrieval/{indexing,embedding}.py`, two scripts | JSONL files, the `questions` table | edit, approve, `ingest_bank`, `embed_questions` | the table holds valid questions, and every vector a run wrote is of its row's text |
| Retrieval, `app/retrieval/`, `app/evaluation/` | none | `hybrid_search`, `rerank_candidates`, the metrics | order is kept or improved, never mixed up, whatever stage 2 does |
| Simulation, `app/simulation/`, `app/selection/` | a simulated session | `run_session`, three strategies, the figures of a trajectory | the three strategies keep the same rules; the figures agree |
| Grading studies, `app/grading/{runs,evalset,reflabel}.py`, four scripts | the evaluation set, labels, grading runs and failures, as files | build, label (in a terminal, by id, by position), retire, adjudicate, grade, resume | a label stays with its answer; a killed pass can be resumed, and loses rows only where the kill cuts a write |

### How they interact

- A request or a worker opens a transaction, takes the session's row lock, folds
  the log, stages events and job rows, and commits them together. After the
  commit it stores the new state in Redis.
- The job tables hand work from one transaction to the next: `submit_turn`
  inserts a `turns` row; the grading worker settles it and, in the same
  transaction, either inserts a `follow_ups` row (PROBING), asks the next
  question, or enters REPORTING with a `reports` row.
- A worker claims a row in one transaction, calls a model with no transaction
  open, and settles the row in another, fenced by the attempt number it claimed.
- The browser reads a snapshot through `load_state`, then follows the log
  through the stream; the candidate's answers go through `submit_turn`.
- Grading, follow-up questions, reports and extraction call a model through
  `call_structured`; its outcome is the success or failure of a job's attempt.
- A session is created from a blueprint, a confirmed profile and a job
  description; the priors are computed once, when it starts.
- The offline tools share files, and only a person's discipline keeps two of
  them from writing one file at once: a build reads the file, waits for the model
  and writes all of it, a labelling sitting reads it once and writes all of it
  after each score. `EvaluationSet` lets them overlap and counts what that spoils.

### Hard behaviours

Two workers on one row after a lease ran out; a worker that wakes up late; a
crash between claim and settlement; a re-queue by an operator while an old
worker still runs; cache writes that arrive in any order after their commits; a
database restored under a warm cache; a stream that drops while a snapshot is
being read; requests that arrive after their sender gave up; two tabs on one
interview; caps, quotas and budgets at their limits on every path; two refreshes
and a sign-out at once; a provider that is out under several calls; rechecks of
a grade that fail one by one; a study killed half-way, in the middle of a write
too, and taken up again; scores given by position to a file that was rebuilt.
`PROJECT.json`
lists each with its line and the properties that would notice it going wrong.

## 2. The modules

| module | models | its state | composes |
|---|---|---|---|
| `InterviewLog` | `fsm.py`, `events.py`, `state.py`: events, transitions, `Accepts`, `Apply`, `Fold` | none | - |
| `Selection` | the hard constraints, the stopping rule, `stage_next_bank_question` | none | `InterviewLog` |
| `Interview` | one session as PostgreSQL and the workers see it | the folded state, three job tables, the claim each worker carries | `Selection` |
| `InterviewProperties` | the properties of `Interview` and its inductive invariant | - | `Interview` |
| `SessionLog` | abstract: what the event store promises | log, projection | - |
| `EventLog` | transactions on one session: lock, staged rows, commit, rollback | log, projection, lock, transactions | `InterviewLog`, refines `SessionLog` |
| `SessionCache` | the Redis copy, `commit_and_cache`, `load_state` | committed log, cache entry, late commands, requests | `InterviewLog` |
| `InterviewScreen` | snapshot, stream and the screen's model | log, view, read under way, both ends of the stream | `InterviewLog` |
| `AnswerSubmission` | the answer form, the network, `submit_turn` | session, turns, screens, requests, responses | - |
| `TokenRotation` | refresh, replay alarm, sign-out, as tabs and Redis see them | allowlist, families, cookie jars, exchanges under way | - |
| `SignIn` | registration, passwords with lockout, Google | users, lockout, used credentials, posts under way | - |
| `ModelCalls` | one call through providers, retries, modes, repairs, cache | breakers, modes, cached answer, calls under way | - |
| `Documents` | upload, extraction jobs, confirmation, the session's snapshot | document rows, workers, the session | - |
| `Grading` | one grade from the first judgment to the follow-up decision | judgments, rechecks, grade, decision | - |
| `Ability` | priors, updates, roll-up, precision | priors, observed abilities, the last grade, whether the interview ended on precision | - |
| `Blueprint` | a request and its division into quotas | request, quotas, what remains | - |
| `QuestionBank` | bank files, review, ingest and embeddings | files, rows, runs under way | - |
| `Retrieval` | fusion, reranking, metrics | rankings, candidates, results | - |
| `Simulation` | sessions under three strategies and the objective they rank by | estimate, items asked, errors | - |
| `GradingRuns` | `run_grading_validity.py`: passes over the evaluation set | runs and failures on file, whether the file can be read, the pass under way | - |
| `EvaluationSet` | building and labelling the set, worklists, reference labels | rows, labels, what each terminal read, the latest worklist | - |
| `Recordings` | recording model exchanges and replaying them | files, a sitting under way | - |
| `MCInterview`, `MCInterviewScreen` | constants and symmetry for TLC | - | the module of that name |
| `MCSessionStore`, `MCBrowser`, `MCServices`, `MCComponents` | several modules in one state space, one moving per behaviour | `part`, which one moves | 2, 3, 2 and 9 modules |
| `Orders` | sorting by a strict order, as `list.sort` does | none | used by `Retrieval` and `Simulation` |
| `SumLemmas` | lemmas: induction over the naturals, counts and sums | - | - |
| `InterviewLogProofs` | lemmas about the log and its fold, theorem `FoldAppend` | - | `InterviewLog`, `SumLemmas` |
| `InterviewProofs` | theorems and proofs | - | `Interview` with `Selection` |
| `SessionStoreProofs` | theorems and proofs | - | `EventLog`, `SessionCache` |
| `InterviewScreenProofs` | theorems and proofs | - | `InterviewScreen` |
| `BrowserProofs` | theorems and proofs | - | `AnswerSubmission`, `TokenRotation`, `SignIn` |
| `ServicesProofs` | theorems and proofs | - | `ModelCalls`, `Documents` |
| `ComponentProofs` | theorems and proofs | - | the nine modules of `MCComponents` |

A module with a `part` is a disjoint union: the modules share no variable, every
behaviour of each is a behaviour of the union, and a property of one holds in the
union exactly if it holds alone. Where components do interact, they are composed
for real: `Selection` in `Interview`, the server's decisions in
`InterviewScreen` and `AnswerSubmission`, browser and token store in
`TokenRotation`, worker, candidate and session in `Documents`.

How the modules were read off the code:

- **One action is one transaction** in `Interview`. Every writer takes
  `lock_session` before it reads the log, so transactions on one session never
  overlap; `EventLog` is where that claim itself is modelled statement by
  statement. A transaction that raises rolls back: it is no action, and a set of
  staged states that is empty (`Stage`, `StageNextBankQuestion`) is exactly a
  transaction that raises. Everything a handler stages in one transaction is one
  action: `GradeSucceeds` settles the row, appends `ANSWER_GRADED` and makes the
  decision that follows, as `_succeed` does.
- **Two transactions are two actions**: claim and settlement are separate, and
  between them anything may happen to the row.
- **Awaits separate actions** in `SessionCache` and `InterviewScreen`.
- **Time** appears only as choice. `next_attempt_at` delays a claim, and a claim
  may be late by any amount; a lease is a boolean that may run out at any time,
  which covers every relation between lease, model call and clock.
- **Numbers from the ability model** (theta, RD) are two booleans of
  `ANSWER_GRADED` in `Interview`: whether the required topics are now precise,
  and whether the update was small. The follow-up policy is a boolean there; the
  caps on follow-ups, which are control, are modelled. What the numbers do is in
  `Ability`, what the policy does in `Grading`.
- **Floats** are fixed point. `Grading` scales scores so that every constant of
  `scoring.py` is whole; `Retrieval` scales reciprocal ranks by `Scale`, a common
  multiple of all their denominators, so that adding them is exact; `Blueprint`
  takes whole weights. `Ability` rounds: theta in
  hundredths, RD by way of its precision 1/RD^2, and the logistic as a table of
  percentages that only has to rise.
- **Model answers** are members of a small set of judgments, and a call ends in
  success, in one of the adapter's errors, or in an answer that does not parse.
- **Files** are written in place. A write is one step, or a kill cuts it: what is
  left is a part of the sorted rows from the front (`CutWrite`, `DumpIsCut`,
  `KillLabelling`), in `GradingRuns` with or without a torn last line, which no
  pass can read until a person takes it out; elsewhere that is part of the same
  step. `Recordings` lets a kill leave a torn file, as `save` can. A process that
  waits between reading and writing holds what it read (`copy`, `pass.out`).
- **Texts** are the facts they state. Those of `Checked` are what `appears_in` looks
  up: names of skills, quotes, headline, title. The years of experience and what
  the model says about a skill or requirement are not looked up.
- **Ranking**: any eligible item may be selected. The difficulty window depends
  on theta, so it may also exclude every item: the session then reports.
- `Fold` picks the state that a replay of the log ends in by `CHOOSE` over
  functions, the shape `FoldAppend` can be proved for. Modules that fold in every
  state keep the folded state beside each event instead.
- **Histories** (`grades`, `calls`, `meant`, `last`, `spoiled`, `cuts`) are
  written and read by no guard, but for the bounds on the last two.
- What the code computes by a loop over a list is a fold, a sum over a set, a sort
  (`Orders`) or a recursive function (`PaperUpTo`, the fixed paper as far as it is
  laid): no module declares a recursive operator, so that all can be proved about.
- Definitions marked *Seeded bug* are no part of the model: each is the mutated
  form of the definition after it, and shows that a property notices.

## 3. The runs

| run | instance | what it shows |
|---|---|---|
| `interview_races` | 2 workers, 2 turns, 2 items, 2 attempts, 2 faults, 1 re-queue | job tables and log stay in step; each grade, follow-up and report is settled once and for good; attempts and model calls are bounded |
| `interview_follow_ups` | 1 worker, 4 turns, 3 items of 2 topics, 1 fault | follow-up ordinals and counts agree and never collide; the blueprint holds on every path |
| `interview_live` | 2 workers, 2 turns, 1 fault, fairness | answers, follow-ups and reports are eventually settled |
| `session_store` | 3 transactions of up to 3 events on a log of 7; 2 requests, log of 3, 1 late command, 1 damaged entry, 1 restore | transactions refine `SessionLog`; Redis holds committed folds only, never regresses, and reads are current |
| `interview_screen` | 1 screen, log of 7, 2 drops, 1 reload, 1 lost request, fairness | the view is the log's, never goes back, misses nothing, catches up |
| `browser` | 2 form slots, 2 texts, 2 screens, 3 turn ids, 4 submissions, 2 questions; 2 tabs, 4 token requests; 2 posts, 4 Google credentials of 2 people, 2 failures to lock | one final answer per question; one exchange per token and no false alarm; one account each and no extra password check |
| `services` | 2 calls, 2 providers of 3 modes and 1, 2 attempts, 2 failures to open a circuit, 1 repair; 2 documents, 2 workers, 2 tries, 2 lost leases, 1 edit, 3 facts of which 2 are checked, fairness | calls end and outages cost a bounded number of attempts; documents are settled once, and what is checked in a suggestion is what the document says |
| `components` | 2 questions and 1 ingest at a time; a search over 4 questions; 3 topics to plan; 2 subtopics, 3 answers; 6 judgments, 3 rechecks; 6 simulated items; 2 answers, 2 passes, 1 cut write; 2 questions to label, 1 terminal, 1 write that loses something; 2 recordings, 3 sittings, the stub behind the provider | the nine self-contained parts keep what they promise |
| `interview_fence` | as `interview_races` | violation: a re-queue defeats the fence (section 5) |
| `interview_stop_rule` | no fault | violation: a question after the stop rule fired (section 5) |
| `answers_shown` | as `browser` | violation: an answer is recorded for another question (section 5) |
| `sign_out` | as `browser` | violation: signed out and still in (section 5) |

Several properties are conjunctions of named parts, so that a run answers one
question; the parts are defined, with a comment each, right above:
`EveryStateHasItsWork` (no undecided state; GRADING, PROBING and REPORTING each
with exactly their job), `FollowUpsFit`, `NothingWaitsForever`, `CacheIsTrue`,
`ScreenIsTrue`, `KeepsUp`, `RotationIsSound`, `SignInIsSound`, `ServicesSettle`
and those of `components`. A property with several parts has a seeded bug for
more than one of them.

**Why the bounds are enough.** Races on a row need two workers; a lease outlived
twice is two faults; two attempts are the least at which "retry" and "give up"
differ; a re-queue adds one round. Two turns let a session pass through a
follow-up or a second question, into REPORTING, with a failure on the way. Four
turns and a cap of two are the least at which an item takes two follow-ups, or an
abandoned and an asked one, and a second item comes into play. Three items of
two topics with quotas of one, times 1 and 2 and a time budget of 3 make each
constraint bind alone in some state. Three transactions let one be rolled back
while another waits and a third decides on a stale seq; a batch of three is the
largest decision the code stages. The screen's log of seven events reaches a
failed grading, a follow-up, an abandoned one and completion; two drops allow a
reconnect to be interrupted. For answers the interesting schedule needs two
screens, three forms and a request that outlives its sender.

Tokens need two tabs and a chain of sign-in, refresh, and two requests that
overlap: four. Sign-in needs two overlapping posts, two people of whom one holds
the other's address, and one unverified address. One call can exhaust a provider
(two attempts each) while another has already chosen it; the three rungs of the
adapter's ladder let one call step down past another; one repair is what the code
allows. A document needs a worker that outlives its lease, another that takes over
and a third try that is refused. Three rechecks are `REGRADE_SAMPLES`; the six
judgments include an invented quotation, an invented error, three major errors
(the penalty's cap), one misconception and one concept set that the question does
not have. Three topics with maximums 1 and 3 and minimums 0 and 2 make a round
overflow into the next. Three answers reach the stop rule from priors that would
not, and further grades come after it; with items one point from the target and
full confidence a raw step passes the cap of half a point upwards and downwards.
Two answers in an order that is not the sorted one let a cut write lose a row that
was there before, and one cut is followed by a pass that resumes. Two questions
let a build add an answer between a worklist and the scores for it: with the one
terminal that builds, applying a file of scores is the second writer, and one
spoiled write shows what an overlap does. The set moves in two parts of the state
space, labels or scores alone: no step of a reference pass reads a score, none of
a sitting reads or changes a reference label. The simulated bank has more items of
one topic than its quota, items that look alike and one out of reach. Two passes
are a killed one and the one that resumes it; three sittings are a recording, a
changed request and a run without overwriting. The Boolean abstractions cost no
bound: they are explored exhaustively.

Symmetry is used on turn ids, workers, transactions, cache requests, form slots,
texts and sign-in posts, which no definition distinguishes, and never in a run
that checks liveness. Deadlock is checked where the system cannot stop:
`EventLog` and `SessionCache` never stop. The interview ends when it is completed
and its workers idle; a search, a plan, a grade or a simulated session when it is
done; browsers, services and studies when the bounds on requests, faults and
passes are used up.

## 4. Fairness

`interview_live` assumes `WF` of each worker's claims, of the settlement of a
claimed job and of leases running out. `run_worker` (`grading.py`) loops until
the process stops and polls every queue in each iteration; each model call runs
under a timeout, so a claimed job reaches one of its outcomes (retry and failure
included) unless the worker is lost; a lease is a deadline compared with the
clock. An exception in one queue's `run_once` skips the queues after it for that
iteration only. Faults are bounded in that run: a system in which every worker
dies for ever settles nothing. Nothing obliges the candidate to start or answer,
nor an operator to re-queue.

`interview_screen` assumes `WF` of reads being answered, of the reconnect loop
of `useInterview`, of the server's poll and of the delivery of what is on the
wire. Faults are bounded; the interview itself may stop at any moment.

`services` assumes `WF` of each call's own next step: every request to a provider
runs under a deadline (`nvidia.py`, `_create_with_deadline`), so it is answered or
fails, and the loops around it are the program's own. No provider is obliged to
answer well: a call may end with `AllProvidersFailedError`. For documents it
assumes `WF` of the workers' polling, claimed jobs included, and of leases
running out, as above, with the number of lost leases bounded.

## 5. Where code and documents disagree

The first four are runs that TLC must find violated; `PROJECT.json` quotes the
lines.

1. **A re-queue defeats the fence** (`OneOwner`). `requeue_failed_turn` and
   `requeue_failed_report` reset the attempt counter, so attempt 1 exists twice. A
   worker that outlived its lease on the first attempt 1 may settle the second.
   The result is still committed once (`GradedOnce`, proved); what fails is the
   documents' "a worker may only finish the attempt it claimed".
   `OneOwnerUntilRequeued` is the part that is true, and is proved.
2. **A question after the stop rule** (`StopRuleBeforeQuestion`).
   `stage_next_bank_question` consults `should_stop` only in GRADING; after an
   abandoned follow-up the session is in SELECTING and goes on asking. The
   blueprint still holds (`WithinBlueprint`).
3. **An answer for the question before** (`AnswersWhatWasShown`). A submission
   names its turn but not its question, and any ASKING state takes it. A screen
   that is behind, or a request that outlives a reload, answers the next question.
   `OneScreenIsFaithful` holds: with one screen that is never reloaded the answer
   is recorded for the question it was typed for.
4. **Signed out and still in** (`SignOutEndsTheSession`). `logout` takes no lock
   across tabs and deletes the token it was sent. When a refresh consumed that
   token just before, the token it got in exchange lives on, and its cookie may
   arrive after the sign-out cleared the jar. `RotationIsSound` holds.

Eight more are stated as definitions that no run checks. TLC finds each violated
when it is added to the run of its module (7, `NothingPaidIsLost` and 12 as a
`PROPERTY`, the others as an `INVARIANT`):

5. **A restored database under a warm cache** (`SessionCache`, `ReadIsTheLog`).
   When new events bring the restored log back to the cached seq, the undone
   state is a hit (`app/interview/service.py:148`).
   `ReadIsTheLogUntilRestored` holds.
6. **A failed review is not shown** (`InterviewScreen`, `FailedReviewIsShown`).
   The snapshot needs a second request to know that grading was given up. When
   that request fails, the event that would say so lies before the stream's start
   (`useInterview.ts:78-79`, "Not fatal: the stream reports a failure too").
   `FailedReviewIsShownUnlessLost` holds.
7. **A rejection paid for more than once** (`ModelCalls`,
   `RejectionIsRemembered`). `providers/nvidia.py:67-79` says a rejected
   structured-output mode is remembered once per process; two calls that step
   down at once write the remembered mode in either order.
8. **A vector of another text** (`QuestionBank`, `RowsAndVectorsAgree`). With
   `--no-embed` the upsert keeps the vector of the old wording
   (`app/bank/ingest.py:161`), against `scripts/ingest_question_bank.py:21-22`, "so
   the two cannot disagree". The next run that embeds repairs it
   (`BankIsMaterialised`).
9. **A recording that is not one** (`Recordings`, `RecordingsAreReal`).
   `app/llm/recording.py:24` says only real answers are recorded; with a stub in
   the provider order, the run may save what the stub made up.
10. **A fact the document does not state** (`Documents`, `NothingIsAdded`).
   `app/ingestion/extraction.py:13` says "A parser cannot add a fact the document
   does not contain"; `verify_resume` passes the model's `years_experience` on
   (line 221) and `verify_jd` its `min_years_experience` (line 272), and what the
   model says of the evidence for a skill, or the importance and topic of a
   requirement, is not compared with the text either. `SuggestionsAreEarned` is
   about what is: names of skills, quotes, headline, title, and the topics, which
   come with a quote. None of the rest becomes a prior before it is confirmed.
11. **A kill inside the write** (`GradingRuns`, `NothingPaidIsLost` and
    `NeverHalfWritten`). `run_grading_validity.py:11-13` wants an interrupted pass
    to cost nothing already paid for, and `evals/reports/grading/README.md:66-70`
    says the file is "never left half-written". `dump_runs` truncates it and
    writes all rows (`app/grading/runs.py:134`), after every one
    (`run_grading_validity.py:292`): a kill in between loses those after the cut,
    and a torn line makes `load_runs` raise until somebody removes it.
    `PaidForIsKept` holds for every other step, and what makes a pass worth
    resuming (`EveryJobIsAccountedFor`, `RunsAreDistinctIfQueuedOnce`,
    `RescoresArePaired`) holds after such a cut too.
12. **A position is not enough** (`EvaluationSet`, `PositionsAreEnough`).
   `app/grading/evalset.py:670-672` and `label_grading_evalset.py:299-300` say that
   positions suffice to apply scores because the order is "a pure function of" the
   seed. It is a function of the ids in the file as well. When a build adds
   answers after the worklist was written, a position stands for another answer and
   the score goes there, unnoticed. `PositionsKeepTheirAnswer` holds as long as the
   file has the answers the worklist was written from.

Read off the code while modelling it, and below what the modules state:

- `build_reference_labels.py --path X` writes its incremental results to the
  default `LABELS_PATH` (lines 211, 300).
- `build_grading_evalset.py` with another `--questions` drops the rows outside the
  new sample (line 258) and numbers the new ones by their place in it, so ids can
  repeat.
- `run_injection_suite.py:228` prints PASS for a suite that line 202 calls
  INCOMPLETE.
- `grading/runs.py:145-146` promises no duplicates; `--grade` together with
  `--retest` queues the same run twice, and the next pass cannot read the file
  (`RunsAreDistinctIfQueuedOnce` is the part that holds). A report counts an
  answer that failed and later succeeded both as graded and as failed.
- A build that overlaps a labelling sitting, or an applied file of scores, writes
  back the rows it read before (`build_grading_evalset.py:256`, `:277`;
  `label_grading_evalset.py:195`, `:400`): the scores given in between are gone, and
  likewise the other way round. A write that a kill cuts loses rows, against
  `label_grading_evalset.py:30-31`, "a closed terminal costs nothing". `spoiled`
  counts both. `LabelsFollowTheirAnswer` holds all the same, but for a
  label whose answer was lost; the answer that a later build writes under
  the lost id has another text. `ScoresAreKept` and `GateStaysOpen` hold for every
  step that is not one of the two.
- A cut `reference_labels.jsonl` may keep an opinion and lose the blind label it is
  on (adjudications sort first). The blind pass then labels the answer again, and
  a second adjudication adds a second opinion (`AdjudicationIsOnFile` holds until
  such a cut).
- `_rewrite_line` (`review_question_bank.py:84-96`) marks a line reviewed by its
  id, whatever its text has become since it was shown.
- `--only-reviewed` leaves drafts of earlier runs in the table; the search
  compares vectors of different embedding models if two were used
  (`retrieval/search.py:156-169`).
- `recording.py:31`: a request whose key changed is recorded under the same file
  name, over the old exchange, which is then paid for again when it is asked for.
- `constraints.py:188-212` limits the candidates to 200 by id before they are
  ranked.
- `refresh` clears the cookie and then raises (`auth.py:436`): the header is lost
  with the response.

## 6. The proofs

Every safety invariant and every action property of a passing run is a theorem
for all values of the constants; what the runs add to them is liveness
(`interview_live`, and the second halves of `KeepsUp` and `ServicesSettle`).
`PROJECT.json` lists the theorems with what each establishes.

Assumptions are the named `ASSUME`s of the modules, and every run evaluates those
it reaches. Most say of what kind a constant is: `NoItem` and `NoTurn` are no item
and no turn, `NoWriter` is no writer and `NoCachedSeq` no number, caps, bounds,
budgets and weights are naturals, at least one attempt, topics and positive times
for every item, a quota for every topic, tables that are defined where they are
read (`PlanConstants`, `AbilityBounds`, `GradingSizes`, `JudgmentShapes`,
`SimulationSizes`, `BankOfItems`, `ObjectiveTables`, `BankBounds`, `PassBounds`,
`RecordingBounds`, `ScaleAssumption`, `PlanAssumption`, `SpoiledAssumption`).
These say more:

- `QuotasFill`: a blueprint's quotas total no more than its item budget, which
  `blueprint.py` refuses to build otherwise (lines 205-211).
- `CallersAssumption`: the calls under way are finitely many, so that their
  attempts can be counted. `FactsAssumption`: a database NULL is not a fact, and
  what is looked up in a text is one.
- `LogisticRises`: the table that stands for the logistic function rises, and
  holds percentages.
- `RetrievalSizes`: `Scale` is a common multiple of the ranks' denominators (the
  fixed point is exact), and no more is served than are candidates. `JudgedQuery`:
  the query has a relevant question (`evaluation/dataset.py:79` refuses any other)
  and nDCG's discounts do not rise.
- `OrderIsAnswers`: a pass goes through the set's answers in some order, once each.
  `AnswersAreOrdered`: answer ids are numbers, in the order the file sorts them.
- `NamesAreOrdered`: file names are numbers, in the order the directory lists them.

Nothing is assumed of the sizes: items, topics, turns, workers, tabs, browsers,
posts, documents, cache requests, banks, passes, rechecks, rankings and lengths are
whatever they are.

**Induction (`SumLemmas`).** The library's induction theorems take a predicate,
which the installed provers cannot instantiate. `LeastNatural` and
`NatSetInduction` say the same of a set of naturals, which is first-order: one
writes the set of the sizes, or positions, for which a claim holds. With it
`SumLemmas` shows what the proofs need of counts and sums: the community modules
fold a set in an order they leave open, and a sum does not depend on it
(`SumIsChosen` and the lemmas after it).

**One interview (`InterviewProofs`).** The inductive invariant is `IInv`, the
conjunction of `TypeOK`, `NeverUndecided`, `GradingHasItsTurn`,
`ProbingHasItsFollowUp`, `ReportingHasItsReport` and `GradedOnce`. None of the
last five is inductive alone. That a turn is graded once needs that only the
current turn of a session in GRADING is live. That needs that every transaction
ends in a decided state, which needs that PROBING is entered with room for a
follow-up, so that its worker can ask or abandon it. There is one lemma per action
(`StartStep`,
`SubmitStep`, `ClaimTurnStep`, ... `ReportCompletesStep`), resting on lemmas about
what a staged state can be (`StageType`, `NextBankQuestionState`,
`AfterGradeState`). From it follow `TypeCorrect`, `GradedExactlyOnce`,
`WaitingHasItsJob` and `SettledForever`.

**The blueprint (`BlueprintKept`).** No question is repeated because an eligible
item was not asked; quotas, count and time are sums over what was asked. Then one
bank question raises its topic's count and the time by its own share, which
`ineligibility_reason` checked. That the number of questions stays within the
budget is nowhere checked on the path after an abandoned follow-up: it follows
from the quotas, and needs `QuotasFill`.

**Follow-ups (`FollowUpsAgree`).** `FollowUpsAreCharted` says that every row
follows a graded turn about an asked item; that the live one has the next ordinal
of the current item; that an item whose follow-up was abandoned is either left or
about to be, so that ordinal is never asked for again; and that rows ready for an
item are as many as the log counts. The third part is what makes the insert of
`stage_after_grade` safe: without it two rows of one item could carry one
ordinal. Each handler is described by what it does to the item at hand
(`SameItem`, `NextItem`), and one lemma for each kind keeps the chart.

**The fence (`AttemptsCharted`, `FenceIsExclusive`).** `AttemptsAreCharted` is
inductive relative to `IInv`: until a re-queue, every claim a worker still carries
is at most the row's counter, and no two workers carry the same number. A claim
takes the next number, so it is new; a settlement only frees a worker. Two fences
that pass at once would compare equal to the same counter.

**The calls (`ModelCallsBounded`).** `CallsBounded` needs to know where the calls
came from: `CallsAreCharted` bounds them by `MaxAttempts` for each earlier queueing
plus the attempts counted since, of which those beyond the budget call nothing. A
claim adds one attempt and at most one call; a re-queue resets the counter and
adds one queueing, which `BudgetGrows` shows to be worth at least what was reset.

**Submission (`BrowserProofs`, `AInv`).** The inductive invariant: a form has a
turn id, a text once it has sent one, and waits only while it is sending;
what is in transit carries an attempt that was sent; the request a form waits for
carries its turn and text, and a response that accepts it means that text is in
the table; answers are recorded in the order of the questions. The last part is
what rules out two answers to one question, the two before it that a late or
duplicated response could confirm a text that was not recorded. From it
follow `AnsweredOnce` and `ReceivedIsRecorded`, and `RecordedIsFinal` for steps.
`OneScreenFaithful` needs `OneScreenInv` besides: a turn id names one form, and
with it one question; no screen is ahead of the server, and a question it has
passed is answered; and as long as there is one screen, every text sent under a
turn id is the one its form froze. The last part fails as soon as the page is
reloaded, which is why the property is about one screen, and why the one
without that condition is violated (section 5).

**The cache (`SessionStoreProofs`).** A *copy* is a state with a seq, and it is
true when it is the fold of the log up to that seq. `CacheInv` says that every
copy there is, in Redis, in a command that outlived its sender, in a request that
will store, replace or return it, is true until the database is restored; that
one transaction stages at a time; and that the log, with what is staged on it, folds
at every prefix. Copies stay true because the log only grows, and a new one is only
made by folding. `CacheTruth` reads the property off it. After a restore, copies
may be false (section 5, 5); that a read is neither older than its request nor
ahead of the log still holds, and `Sound` carries it.
`NoRegression` is about steps and needs no more than the script's comparison of
seqs, for late commands as well.

**Tokens (`BrowserProofs`, `TokenInv`).** A request is named by the token it may
be issued, so "issued once" is a matter of names. The invariant says where
a request can be and what it carries; that a token which was looked up is live no
more, which rules out a second buyer; and that a browser runs one refresh at a
time, under its lock. That a rotation is no replay needs the most: while no answer
was lost and nobody signed out, every cookie is live, but for the one a refresh
under way has just taken off the list (`QuietTokensLive`).

**Sign-in (`BrowserProofs`, `SignInInv`).** A request that checks a password was
counted before (`ChecksAreCounted`), so a window sees at most the limit. A Google
credential that was claimed is in the hands of one request, or was used
(`ClaimsAreExclusive`), so it lets nobody in twice. One account each rests on the
two unique constraints, and on `insert ... on conflict do nothing` being followed
by a search for the winner.

**Documents (`ServicesProofs`, `DocumentInv`).** A row is ready exactly if it has
a result, what is checked in a result is what the document states, and model calls
are at most claims, which are at most `MaxTries`. A session's topics are checked
facts of one job description, which never changes once it is ready. The fence
compares a worker's try with the row's, so a worker that wakes up late finds a
settled row and leaves (`SettledIsFinal`).

**Outages (`ServicesProofs`, `OutageInv`).** The bound holds in every state but is
not inductive: an open circuit keeps counting the failures of calls that chose the
provider before. `OutageIsPaidFor` adds the attempts these calls have left: a
failure uses one up, an open circuit lets no call in, and a circuit opens with at
most `MaxAttempts` left for each call.

**The log (`SessionStoreProofs`).** `LInv` says that staged rows belong to the
lock's holder and continue the log, that they were legal where they stand, and
that the projection is the fold. `CommitDecides` shows that a commit is a step of
`SessionLog`, every other action a stutter: `Refinement`. Of `Fold`,
`ReplayExists` and `ReplaysAgree` show that each log has one replay, and
`FoldAppend` that folding one more event applies it to the fold so far.

**The screen (`InterviewScreenProofs`, `ScreenInv`).** What the screen shows comes
from two sources, snapshots and events, so the invariant describes every state on
its way to it. The log is *legal*: each row is the one before with its event
applied, no turn id is submitted twice, and a graded turn stays graded. Every view,
the one shown and the one a request under way will bring, shows the log at its seq.
The wire holds consecutive messages of the log, and the first of them is at most
one past the view; that is what rules out a gap, since a snapshot only moves the
view forward and a reconnection asks from the view. Five lemmas take `applyEvent`
through the kinds of event (`AnswerGradedView`, `MoveView`, ...): a view that shows
the log, given the next message, shows it one further. The hard case is the second
request of a snapshot, which reads the turn later than the first read the session:
a review that has failed by then is about the log's last turn, and only a view
whose turn was not yet graded may show it (`FailureIsLast`, `FailuresAreSeen`).
From it follow `ScreenTruth` and, as a view never moves back, `NeverBack`.

**The components (`ComponentProofs`).** Each of the nine has an inductive invariant
of its own, at the end of its module.

- *Bank* (`BankInv`): a row's text is one that validation let through, and its
  fingerprint is that of the text and model its vector was made of. Both are kept by
  a commit because the bank a run carries was valid when it was loaded
  (`CommittedRows`), however the files have changed since.
- *Passes* (`RunsInv`): the rows a running pass holds are those on file, and a job
  that is neither waiting nor in flight has a row or a failure. A write that is
  cut ends the pass, and takes rows off the end of the sorted file only, where a
  base row stands before the re-scored row of its answer; so every re-scored row
  keeps its base. That the file holds one row of each run needs the other
  direction as well, that a job not yet done has none; it holds as long as the
  queue has no job twice (section 5).
- *Recordings* (`RecordingsInv`): while a run is under way its store knows the file
  of every readable fixture, so an overwrite goes to that file (`SavedInOneFile`)
  and only what is missing is paid for (`PaysForWhatIsMissing`). The converse fails:
  an entry may take over a file that held another request.
- *Evaluation set* (`EvalInv`): an id is the number of a question and a level, on
  disk and in the rows every terminal holds, so two answers never share one
  whichever copy is written last (`NumbersArePlaces`, `WellBuilt`), and a label
  names its question by its id alone (`PlacedLabelsFollow`). Every way to write
  the file keeps that (`RowsAreDumped`, with `BuiltRows`, `RescoredRows`,
  `RetiredRows`). That a label's answer is there, and that an opinion has left its
  mark on the blind label, is part of the invariant until a write loses something.
  A write that loses nothing was made from the rows on disk (`NothingIsSpoiled`),
  which is what keeps scores and the gate; and a position taken among the
  worklist's ids is that of the worklist (`PositionIsOfTheWorklist`).
- *Quotas* (`QuotasInv`): what is given out and what is left make up the budget. A
  round divides by largest remainder, or evenly (`LargestRemainderDivides`,
  `EvenSplitDivides`): it gives out no more than is left and something at least,
  and more to whoever weighs more, so the order of the weights survives the
  clipping at the maximums.
- *Ability* (`AbilityInv`): `StepFacts` and `UpdateFacts` give the direction of one
  update, bound it, and compare it with the update at a bank question's stake, also
  where it is capped or rounded; precision only grows by answers, an interview that
  ended on precision has observed every required topic, and a topic's estimate, a
  quotient of sums rounded towards zero, lies among its subtopics'
  (`RolledUpIsBetween`).
- *Grading* (`GradingInv`): the rechecks that a grade was the median of are still
  there to be compared with. `MedianInTheMiddle` places the element the code picks
  from the sorted scores, for odd and even numbers; `RegradeIsMedian` carries it to
  the judges that answered. `ScoreIsWorth` shows that a verified judgment scores
  what the judgment is worth, although verification moves its evidence first.
- *Search* (`SearchInv`): candidates are the front of the fused list, results the
  front of the candidates, reranked or not. A sort puts at each place the element
  with that many before it (`Ordered`), so `FusionAgrees` only has to show that
  agreement adds up (`AgreementScoresMore`). `IdealIsBest` compares any order with
  the ideal one grade by grade: the places of grade 1 and above, and of grade 2,
  are at best a prefix (`LargestPrefix`).
- *Simulation* (`SimulationInv`): the rules of a session hold by the guards, but two
  facts need an argument. The item with the highest score is not beaten on every
  component because every weight is positive (`BestIsBest`). The fixed paper is laid
  by a recursive function, position by position (`PaperGrows`, `PaperIsLaid`): the
  topic furthest behind goes next, shares being compared as fractions by
  cross-multiplication, which is a total order (`BehindOrders`); so no topic is
  past its quota while another is short of its own, and the front of the paper has
  the blueprint's coverage (`QuotasComeFirst`, `PaperCovers`).

**Types.** A composed module is a disjoint union, so a behaviour of it is one of
each part (`ServicesParts`, `ComponentsParts`), and the type invariant of the whole
follows from the parts' invariants: `StoreTypes`, `BrowserTypes`, `ServicesTypes`,
`ComponentsTypes`. For `Recordings` the types need what the store was loaded with
to be what was filed (`LoadedAreFixtures`, `FiledIsAnAnswer`).

**Only model-checked.** Liveness (`interview_live`, `CatchesUp`, `EveryCallEnds`,
`DocumentsAreSettled`), which is out of the prover's reach, and the disagreements
of section 5, each of which is a counterexample. The mappings between modules that
model the same data at two levels of detail (the booleans of `Interview` for what
`Ability` and `Grading` compute) are neither proved nor checked: the booleans are
unconstrained, so they allow every value the detailed modules can produce.

## 7. What is not modelled, and why

- Prompts, wording and the text of questions, answers and reports: data to the
  properties here.
- The statistics of the report, of the validity study and of the simulation
  (agreement, bootstrap, bands, convergence over a population) and their charts
  and tables: pure functions of a finished log or file, with no protocol, whose
  arithmetic is floating point.
- Cosine similarity, Fisher information, BM25 and the embedding and reranking
  models: rankings and scores are open, or a table.
- Parsing of PDF and DOCX files, redaction, logging, tracing, configuration.
- The bytes of the event stream: keepalives, and the limit of 8192 bytes on one
  message (`stream.py:88`), which is arithmetic on one string.
- The rest of the frontend (setup wizard, dashboard, report page): forms and
  views over single requests.
- Expiry of refresh and access tokens, and of a used Google credential: their
  times to live are longer than any overlap the models are about.
- The candidate query's LIMIT, the taxonomy tables, and the serialised form of a
  blueprint.

## 8. The plan

Nothing that a passing run checks for safety is left without a theorem. What would
say more about the system, in the order of its worth:

1. The candidate query's LIMIT of 200 by id (`constraints.py:188-212`) in
   `Selection`, and what it does to the ranking.
2. `Ability` and `Grading` in one state space with `Interview` in place of its
   booleans, so that the stop rule is about the estimates themselves.
3. A population of sessions in `Simulation`: the study's paired comparison, if its
   statistics are ever made exact.
