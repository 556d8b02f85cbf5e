----------------------------- MODULE Interview -----------------------------
(***************************************************************************)
(* One interview session as PostgreSQL and the workers see it.             *)
(*                                                                         *)
(* The candidate's requests start the session and submit answers.  Every   *)
(* other step is taken by a worker: it claims a row of one of three job    *)
(* tables (turns: grading, follow_ups: wording a follow-up, reports: the   *)
(* closing report), calls a model outside any transaction, and settles the *)
(* row in a second transaction together with the events it appends.  A     *)
(* worker may die, or outlive its lease and wake up later; an operator may *)
(* put a failed row back in its queue.                                     *)
(*                                                                         *)
(* One action is one committed transaction: each takes the session's row   *)
(* lock before it reads the log, so two of them never overlap (that is     *)
(* module EventLog's subject).  A transaction that raises rolls back and   *)
(* is no action here; a worker that raised or was cancelled has lost its   *)
(* claim without settling it, which is WorkerLost.                         *)
(*                                                                         *)
(* Abstracted: next_attempt_at only delays a claim, and claims may be late *)
(* by any amount; a lease is a boolean that may run out at any time.       *)
(***************************************************************************)
EXTENDS Selection

CONSTANTS
  Workers,       \* processes running run_worker
  MaxAttempts,   \* GRADING_MAX_ATTEMPTS
  MaxFaults,     \* bound: workers that die or outlive a lease
  MaxRequeues    \* bound: operator re-queues

ASSUME AttemptsAssumption == MaxAttempts \in Nat \ {0}
ASSUME BoundsAssumption == MaxFaults \in Nat /\ MaxRequeues \in Nat

VARIABLES
  st,          \* SessionState: the fold of the session's log
  turns,       \* table turns, by turn id
  follow_ups,  \* table follow_ups, by source_turn_id
  report,      \* the session's row of table reports
  jobs,        \* worker -> the GradingJob, FollowUpJob or ReportJob it runs
  grades,      \* history: turn -> ANSWER_GRADED committed for it (and charges)
  calls,       \* history: turn -> grading attempts that reached the model
  faults,      \* bound: faults so far
  requeues     \* bound: re-queues so far

vars == <<st, turns, follow_ups, report, jobs, grades, calls, faults, requeues>>
bounds == <<faults, requeues>>

(***************************************************************************)
(* A job row: its status, the attempt counter the fence compares, and      *)
(* whether its lease is still running.  "none" is a row not yet inserted.  *)
(***************************************************************************)
TurnStatus     == {"none", "pending", "processing", "graded", "failed"}
FollowUpStatus == {"none", "pending", "processing", "ready", "abandoned"}
ReportStatus   == {"none", "pending", "processing", "ready", "failed"}

TurnRow     == [status : TurnStatus, attempts : Nat, lease : BOOLEAN]
FollowUpRow == [status : FollowUpStatus, attempts : Nat, lease : BOOLEAN,
                item : Items \cup {NoItem}, ordinal : Nat]
ReportRow   == [status : ReportStatus, attempts : Nat, lease : BOOLEAN]

NoRow      == [status |-> "none", attempts |-> 0, lease |-> FALSE]
NoFollowUp == [status |-> "none", attempts |-> 0, lease |-> FALSE,
               item |-> NoItem, ordinal |-> 0]

(* Seeded bug: a claim that never takes over a lease that ran out.         *)
ClaimableIfPending(row) == row.status = "pending"

Claimable(row) == \/ row.status = "pending"
                  \/ row.status = "processing" /\ ~row.lease

(* Seeded bug: a claim that does not count its attempt.                    *)
ClaimedUncounted(row) == [row EXCEPT !.status = "processing", !.lease = TRUE]

Claimed(row)   == [row EXCEPT !.status = "processing", !.attempts = @ + 1,
                              !.lease = TRUE]
Settled(row, status) == [row EXCEPT !.status = status, !.lease = FALSE]
Requeued(row) == [row EXCEPT !.status = "pending", !.attempts = 0, !.lease = FALSE]
Live(row) == row.status \in {"pending", "processing"}

(* What a worker carries across its model call: which row, which attempt.  *)
Queue == {"turns", "follow_ups", "reports"}
Job == [queue : Queue \cup {"none"}, turn : Turns \cup {NoTurn}, attempt : Nat]
Idle == [queue |-> "none", turn |-> NoTurn, attempt |-> 0]

(* Seeded bug: a fence that looks at the status alone.                     *)
FencedByStatus(row, job) == row.status = "processing"

(* The fence: the row is still processing at the attempt this job claimed. *)
Fenced(row, job) == row.status = "processing" /\ row.attempts = job.attempt

OnTurn(w, t)     == jobs[w].queue = "turns" /\ jobs[w].turn = t
OnFollowUp(w, t) == jobs[w].queue = "follow_ups" /\ jobs[w].turn = t
OnReport(w)      == jobs[w].queue = "reports"

OwnsTurn(w, t)     == OnTurn(w, t) /\ Fenced(turns[t], jobs[w])
OwnsFollowUp(w, t) == OnFollowUp(w, t) /\ Fenced(follow_ups[t], jobs[w])
OwnsReport(w)      == OnReport(w) /\ Fenced(report, jobs[w])

Finish(w) == jobs' = [jobs EXCEPT ![w] = Idle]

(***************************************************************************)
(* Init: the session row and SESSION_CREATED are committed.                *)
(***************************************************************************)
Init ==
  /\ st = Apply(Initial, Plain("SESSION_CREATED"))
  /\ turns = [t \in Turns |-> NoRow]
  /\ follow_ups = [t \in Turns |-> NoFollowUp]
  /\ report = NoRow
  /\ jobs = [w \in Workers |-> Idle]
  /\ grades = [t \in Turns |-> 0]
  /\ calls = [t \in Turns |-> 0]
  /\ faults = 0
  /\ requeues = 0

(* Seeded bug: REPORTING_STARTED without its report job.                   *)
AdvanceWithoutReport(s) == st' = s /\ report' = report

(* A staged state becomes durable; REPORTING_STARTED is staged together    *)
(* with ensure_report_job (insert, on conflict do nothing).                *)
Advance(s) ==
  /\ st' = s
  /\ report' = IF s.state = "REPORTING" /\ report.status = "none"
                 THEN [report EXCEPT !.status = "pending"] ELSE report

(***************************************************************************)
(* The candidate.                                                          *)
(***************************************************************************)
(* Seeded bug: the preparation committed on its own.                       *)
StartSessionPreparing ==
  /\ st.state = "CREATED"
  /\ \E preparing \in Stage(st, Plain("PREPARATION_STARTED")) : Advance(preparing)
  /\ UNCHANGED <<turns, follow_ups, jobs, grades, calls, bounds>>

StartSession ==
  /\ st.state = "CREATED"
  /\ \E preparing \in Stage(st, Plain("PREPARATION_STARTED")) :
       \E asking \in StageNextBankQuestion(preparing) : Advance(asking)
  /\ UNCHANGED <<turns, follow_ups, jobs, grades, calls, bounds>>

(* A turn id already in the table is answered from its row and changes     *)
(* nothing, whatever the session's state.                                  *)
SubmitTurn(t) ==
  /\ turns[t].status = "none"
  /\ st' \in Stage(st, Submitted(t))
  /\ st'.current_item_id # NoItem
  /\ turns' = [turns EXCEPT ![t].status = "pending"]
  /\ UNCHANGED <<follow_ups, report, jobs, grades, calls, bounds>>

(* Seeded bug: the model is called for a claim beyond the budget.          *)
ClaimTurnCallsModel(w, t) ==
  /\ jobs[w] = Idle
  /\ Claimable(turns[t])
  /\ turns' = [turns EXCEPT ![t] = Claimed(@)]
  /\ jobs' = [jobs EXCEPT ![w] = [queue |-> "turns", turn |-> t,
                                  attempt |-> turns[t].attempts + 1]]
  /\ calls' = [calls EXCEPT ![t] = @ + 1]
  /\ UNCHANGED <<st, follow_ups, report, grades, bounds>>

(***************************************************************************)
(* Claims.  The attempt is counted when it is claimed; the model is called *)
(* for it unless earlier attempts have used the budget up.                 *)
(***************************************************************************)
ClaimTurn(w, t) ==
  /\ jobs[w] = Idle
  /\ Claimable(turns[t])
  /\ turns' = [turns EXCEPT ![t] = Claimed(@)]
  /\ jobs' = [jobs EXCEPT ![w] = [queue |-> "turns", turn |-> t,
                                  attempt |-> turns[t].attempts + 1]]
  /\ calls' = [calls EXCEPT ![t] =
                 IF turns[t].attempts + 1 > MaxAttempts THEN @ ELSE @ + 1]
  /\ UNCHANGED <<st, follow_ups, report, grades, bounds>>

ClaimFollowUp(w, t) ==
  /\ jobs[w] = Idle
  /\ Claimable(follow_ups[t])
  /\ follow_ups' = [follow_ups EXCEPT ![t] = Claimed(@)]
  /\ jobs' = [jobs EXCEPT ![w] = [queue |-> "follow_ups", turn |-> t,
                                  attempt |-> follow_ups[t].attempts + 1]]
  /\ UNCHANGED <<st, turns, report, grades, calls, bounds>>

ClaimReport(w) ==
  /\ jobs[w] = Idle
  /\ Claimable(report)
  /\ report' = Claimed(report)
  /\ jobs' = [jobs EXCEPT ![w] = [queue |-> "reports", turn |-> NoTurn,
                                  attempt |-> report.attempts + 1]]
  /\ UNCHANGED <<st, turns, follow_ups, grades, calls, bounds>>

(***************************************************************************)
(* Grading: _succeed with stage_after_grade, _schedule_retry, _fail.       *)
(***************************************************************************)
(* The uniques of follow_ups: one row per source turn, one per item and    *)
(* ordinal.                                                                *)
FollowUpSlotFree(s, t) ==
  /\ follow_ups[t].status = "none"
  /\ \A u \in Turns : ~ /\ follow_ups[u].status # "none"
                        /\ follow_ups[u].item = s.current_item_id
                        /\ follow_ups[u].ordinal
                             = s.follow_ups_by_item[s.current_item_id] + 1

(* Seeded bugs: PROBING without a follow-up row; an ordinal from zero.     *)
DecideFollowUpWithoutRow(graded, t) ==
  /\ \E probing \in Stage(graded, Plain("FOLLOW_UP_STARTED")) : Advance(probing)
  /\ UNCHANGED follow_ups
DecideFollowUpFromZero(graded, t) ==
  /\ FollowUpSlotFree(graded, t)
  /\ \E probing \in Stage(graded, Plain("FOLLOW_UP_STARTED")) : Advance(probing)
  /\ follow_ups' = [follow_ups EXCEPT ![t] =
       [status |-> "pending", attempts |-> 0, lease |-> FALSE,
        item |-> graded.current_item_id,
        ordinal |-> graded.follow_ups_by_item[graded.current_item_id]]]

DecideFollowUp(graded, t) ==
  /\ FollowUpSlotFree(graded, t)
  /\ \E probing \in Stage(graded, Plain("FOLLOW_UP_STARTED")) : Advance(probing)
  /\ follow_ups' = [follow_ups EXCEPT ![t] =
       [status |-> "pending", attempts |-> 0, lease |-> FALSE,
        item |-> graded.current_item_id,
        ordinal |-> graded.follow_ups_by_item[graded.current_item_id] + 1]]

DecideNext(graded) ==
  /\ \E s \in StageNextBankQuestion(graded) : Advance(s)
  /\ UNCHANGED follow_ups

(* follow is the policy's answer for this grade; the caps come after it.   *)
AfterGrade(graded, t, follow) ==
  IF follow /\ FollowUpRoom(graded) THEN DecideFollowUp(graded, t)
                                    ELSE DecideNext(graded)

(* Seeded bug: the grade is appended but the turn stays processing.        *)
GradeSucceedsUnsettled(w, t) ==
  /\ OwnsTurn(w, t)
  /\ jobs[w].attempt <= MaxAttempts
  /\ \E precise, small, follow \in BOOLEAN :
       \E graded \in Stage(st, Graded(t, precise, small)) :
         AfterGrade(graded, t, follow)
  /\ turns' = turns
  /\ grades' = [grades EXCEPT ![t] = @ + 1]
  /\ Finish(w)
  /\ UNCHANGED <<calls, bounds>>

GradeSucceeds(w, t) ==
  /\ OwnsTurn(w, t)
  /\ jobs[w].attempt <= MaxAttempts
  /\ \E precise, small, follow \in BOOLEAN :
       \E graded \in Stage(st, Graded(t, precise, small)) :
         AfterGrade(graded, t, follow)
  /\ turns' = [turns EXCEPT ![t] = Settled(@, "graded")]
  /\ grades' = [grades EXCEPT ![t] = @ + 1]
  /\ Finish(w)
  /\ UNCHANGED <<calls, bounds>>

GradeRetries(w, t) ==
  /\ OwnsTurn(w, t)
  /\ jobs[w].attempt < MaxAttempts
  /\ turns' = [turns EXCEPT ![t] = Settled(@, "pending")]
  /\ Finish(w)
  /\ UNCHANGED <<st, follow_ups, report, grades, calls, bounds>>

(* Seeded bug: a failure recorded without the fence.                       *)
GradeFailsUnfenced(w, t) ==
  /\ OnTurn(w, t)
  /\ st' = IF Accepts(st, GradingFailed(t)) THEN Apply(st, GradingFailed(t)) ELSE st
  /\ turns' = [turns EXCEPT ![t] = Settled(@, "failed")]
  /\ Finish(w)
  /\ UNCHANGED <<follow_ups, report, grades, calls, bounds>>

(* A permanent error on any attempt, a transient one on the last, or a     *)
(* claim beyond the budget.  The row records the failure even when the log *)
(* refuses GRADING_FAILED.                                                 *)
GradeFails(w, t) ==
  /\ OwnsTurn(w, t)
  /\ st' = IF Accepts(st, GradingFailed(t)) THEN Apply(st, GradingFailed(t)) ELSE st
  /\ turns' = [turns EXCEPT ![t] = Settled(@, "failed")]
  /\ Finish(w)
  /\ UNCHANGED <<follow_ups, report, grades, calls, bounds>>

(***************************************************************************)
(* Follow-up wording: _ask, _retry, _abandon.                              *)
(***************************************************************************)
FollowUpAsk(w, t) ==
  /\ OwnsFollowUp(w, t)
  /\ jobs[w].attempt <= MaxAttempts
  /\ st' \in Stage(st, FollowUpAsked)
  /\ follow_ups' = [follow_ups EXCEPT ![t] = Settled(@, "ready")]
  /\ Finish(w)
  /\ UNCHANGED <<turns, report, grades, calls, bounds>>

(* Seeded bug: a retry scheduled without the fence.                        *)
FollowUpRetriesUnfenced(w, t) ==
  /\ OnFollowUp(w, t)
  /\ jobs[w].attempt < MaxAttempts
  /\ follow_ups' = [follow_ups EXCEPT ![t] = Settled(@, "pending")]
  /\ Finish(w)
  /\ UNCHANGED <<st, turns, report, grades, calls, bounds>>

FollowUpRetries(w, t) ==
  /\ OwnsFollowUp(w, t)
  /\ jobs[w].attempt < MaxAttempts
  /\ follow_ups' = [follow_ups EXCEPT ![t] = Settled(@, "pending")]
  /\ Finish(w)
  /\ UNCHANGED <<st, turns, report, grades, calls, bounds>>

(* The states an abandoned follow-up leads to: normal selection, or        *)
(* nothing at all when the log is not waiting for a follow-up.             *)
AfterAbandon(s) ==
  IF s.state # "PROBING" THEN {s}
  ELSE UNION {StageNextBankQuestion(x) : x \in Stage(s, Plain("FOLLOW_UP_ABANDONED"))}

(* Seeded bugs: abandoned without the fence; under the grading queue's     *)
(* status.                                                                 *)
FollowUpAbandonedUnfenced(w, t) ==
  /\ OnFollowUp(w, t)
  /\ \E s \in AfterAbandon(st) : Advance(s)
  /\ follow_ups' = [follow_ups EXCEPT ![t] = Settled(@, "abandoned")]
  /\ Finish(w)
  /\ UNCHANGED <<turns, grades, calls, bounds>>
FollowUpAbandonedAsFailed(w, t) ==
  /\ OwnsFollowUp(w, t)
  /\ \E s \in AfterAbandon(st) : Advance(s)
  /\ follow_ups' = [follow_ups EXCEPT ![t] = Settled(@, "failed")]
  /\ Finish(w)
  /\ UNCHANGED <<turns, grades, calls, bounds>>

FollowUpAbandoned(w, t) ==
  /\ OwnsFollowUp(w, t)
  /\ \E s \in AfterAbandon(st) : Advance(s)
  /\ follow_ups' = [follow_ups EXCEPT ![t] = Settled(@, "abandoned")]
  /\ Finish(w)
  /\ UNCHANGED <<turns, grades, calls, bounds>>

(***************************************************************************)
(* The report: _complete (with the model's narrative or the template), a   *)
(* scheduled retry, and a failure of the statistics.                       *)
(***************************************************************************)
ReportCompletes(w) ==
  /\ OwnsReport(w)
  /\ st.state = "REPORTING"
  /\ st' \in Stage(st, Plain("SESSION_COMPLETED"))
  /\ report' = Settled(report, "ready")
  /\ Finish(w)
  /\ UNCHANGED <<turns, follow_ups, grades, calls, bounds>>

ReportRetries(w) ==
  /\ OwnsReport(w)
  /\ jobs[w].attempt < MaxAttempts
  /\ report' = Settled(report, "pending")
  /\ Finish(w)
  /\ UNCHANGED <<st, turns, follow_ups, grades, calls, bounds>>

ReportFails(w) ==
  /\ OwnsReport(w)
  /\ report' = Settled(report, "failed")
  /\ Finish(w)
  /\ UNCHANGED <<st, turns, follow_ups, grades, calls, bounds>>

(***************************************************************************)
(* A worker whose fence fails writes nothing: the outcome is STALE.  A     *)
(* report is also stale when the session is not REPORTING.                 *)
(***************************************************************************)
Stale(w) == \/ \E t \in Turns : OnTurn(w, t) /\ ~OwnsTurn(w, t)
            \/ \E t \in Turns : OnFollowUp(w, t) /\ ~OwnsFollowUp(w, t)
            \/ OnReport(w) /\ (OwnsReport(w) => st.state # "REPORTING")

DiscardResult(w) ==
  /\ Stale(w)
  /\ Finish(w)
  /\ UNCHANGED <<st, turns, follow_ups, report, grades, calls, bounds>>

(***************************************************************************)
(* The environment: a worker dies (or is cancelled, or its transaction     *)
(* raises), a lease runs out, an operator re-queues a failed row.  A lease *)
(* that runs out under a living owner counts as a fault.                   *)
(***************************************************************************)
WorkerLost(w) ==
  /\ jobs[w] # Idle
  /\ faults < MaxFaults
  /\ Finish(w)
  /\ faults' = faults + 1
  /\ UNCHANGED <<st, turns, follow_ups, report, grades, calls, requeues>>

Expires(row, owned) ==
  /\ row.status = "processing" /\ row.lease
  /\ owned => faults < MaxFaults
  /\ faults' = IF owned THEN faults + 1 ELSE faults

TurnLeaseExpires(t) ==
  /\ Expires(turns[t], \E w \in Workers : OwnsTurn(w, t))
  /\ turns' = [turns EXCEPT ![t].lease = FALSE]
  /\ UNCHANGED <<st, follow_ups, report, jobs, grades, calls, requeues>>

FollowUpLeaseExpires(t) ==
  /\ Expires(follow_ups[t], \E w \in Workers : OwnsFollowUp(w, t))
  /\ follow_ups' = [follow_ups EXCEPT ![t].lease = FALSE]
  /\ UNCHANGED <<st, turns, report, jobs, grades, calls, requeues>>

ReportLeaseExpires ==
  /\ Expires(report, \E w \in Workers : OwnsReport(w))
  /\ report' = [report EXCEPT !.lease = FALSE]
  /\ UNCHANGED <<st, turns, follow_ups, jobs, grades, calls, requeues>>

RequeueFailedTurn(t) ==
  /\ turns[t].status = "failed"
  /\ requeues < MaxRequeues
  /\ turns' = [turns EXCEPT ![t] = Requeued(@)]
  /\ requeues' = requeues + 1
  /\ UNCHANGED <<st, follow_ups, report, jobs, grades, calls, faults>>

RequeueFailedReport ==
  /\ report.status = "failed"
  /\ requeues < MaxRequeues
  /\ report' = Requeued(report)
  /\ requeues' = requeues + 1
  /\ UNCHANGED <<st, turns, follow_ups, jobs, grades, calls, faults>>

-----------------------------------------------------------------------------
Candidate == StartSession \/ \E t \in Turns : SubmitTurn(t)

Claim(w) == \/ \E t \in Turns : ClaimTurn(w, t) \/ ClaimFollowUp(w, t)
            \/ ClaimReport(w)

GradingJob(w, t)  == GradeSucceeds(w, t) \/ GradeRetries(w, t) \/ GradeFails(w, t)
FollowUpJob(w, t) == FollowUpAsk(w, t) \/ FollowUpRetries(w, t) \/ FollowUpAbandoned(w, t)
ReportJob(w)      == ReportCompletes(w) \/ ReportRetries(w) \/ ReportFails(w)

Process(w) == \/ \E t \in Turns : GradingJob(w, t) \/ FollowUpJob(w, t)
              \/ ReportJob(w)
              \/ DiscardResult(w)

LeaseExpires == \/ \E t \in Turns : TurnLeaseExpires(t) \/ FollowUpLeaseExpires(t)
                \/ ReportLeaseExpires

Operator == \/ \E t \in Turns : RequeueFailedTurn(t)
            \/ RequeueFailedReport

Next == \/ Candidate
        \/ \E w \in Workers : Claim(w) \/ Process(w) \/ WorkerLost(w)
        \/ LeaseExpires
        \/ Operator

Spec == Init /\ [][Next]_vars

(***************************************************************************)
(* Fairness.  run_worker polls until it is stopped, every model call has a *)
(* timeout, and a lease is a deadline: an idle worker claims what is       *)
(* claimable, a claimed job reaches some outcome, a lease nobody honours   *)
(* runs out.  Nothing obliges the candidate to start or to answer, or an   *)
(* operator to re-queue.                                                   *)
(***************************************************************************)
Fairness == /\ \A w \in Workers : WF_vars(Claim(w)) /\ WF_vars(Process(w))
            /\ WF_vars(LeaseExpires)

FairSpec == Spec /\ Fairness
=============================================================================
