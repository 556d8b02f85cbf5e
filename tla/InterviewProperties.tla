------------------------ MODULE InterviewProperties ------------------------
(***************************************************************************)
(* What must hold of one interview while its workers race, die, wake up    *)
(* late and are overruled by an operator.                                  *)
(***************************************************************************)
EXTENDS Interview

(* The values the variables may take.                                      *)
TypeOK ==
  /\ st \in SessionState
  /\ turns \in [Turns -> TurnRow]
  /\ follow_ups \in [Turns -> FollowUpRow]
  /\ report \in ReportRow
  /\ jobs \in [Workers -> Job]
  /\ grades \in [Turns -> Nat]
  /\ calls \in [Turns -> Nat]
  /\ faults \in Nat
  /\ requeues \in Nat

(* No commit leaves a session between two decisions: PREPARING and         *)
(* SELECTING exist only inside a transaction, which always goes on.        *)
NeverUndecided ==
  st.state \in {"CREATED", "ASKING", "GRADING", "PROBING", "REPORTING", "COMPLETED"}

(* A session waits in GRADING exactly as long as one turn - the one its    *)
(* log names - is queued, being graded or failed: a session can neither    *)
(* sit in GRADING with nothing that will move it, nor have a turn still    *)
(* queued, or marked failed by a late worker, after it has moved on.       *)
GradingHasItsTurn ==
  /\ \A t \in Turns : turns[t].status \in {"pending", "processing", "failed"}
                        <=> st.state = "GRADING" /\ st.current_turn_id = t
  /\ st.state = "GRADING" => st.current_turn_id \in Turns /\ ~st.current_graded

(* "The session is never left in PROBING without a job" (probing.py,       *)
(* _abandon), and no follow-up job survives the state that waits for it.   *)
ProbingHasItsFollowUp ==
  /\ \A t \in Turns : Live(follow_ups[t])
                        <=> st.state = "PROBING" /\ st.current_turn_id = t
  /\ st.state = "PROBING" => st.current_turn_id \in Turns /\ FollowUpRoom(st)

(* A session in REPORTING has a report job, a ready report belongs to a    *)
(* completed session, and a session completes only with its report.        *)
ReportingHasItsReport ==
  /\ report.status \in {"pending", "processing", "failed"} <=> st.state = "REPORTING"
  /\ report.status = "ready" <=> st.state = "COMPLETED"

(* Every state a session waits in has exactly the job that will move it.   *)
EveryStateHasItsWork ==
  NeverUndecided /\ GradingHasItsTurn /\ ProbingHasItsFollowUp /\ ReportingHasItsReport

(* However many workers grade one turn, its grade and its charge are       *)
(* committed once, and the row says graded exactly when the log does.      *)
GradedOnce ==
  \A t \in Turns : grades[t] = IF turns[t].status = "graded" THEN 1 ELSE 0

(* The inductive invariant behind the theorems about one interview.        *)
IInv == /\ TypeOK
        /\ NeverUndecided
        /\ GradingHasItsTurn
        /\ ProbingHasItsFollowUp
        /\ ReportingHasItsReport
        /\ GradedOnce

(* stage_after_grade inserts a follow-up row and raises if it conflicts;   *)
(* the worker could then never settle the turn.  The slot is always free   *)
(* when a grade may decide a follow-up, although an abandoned follow-up    *)
(* keeps its ordinal without being counted by the log.                     *)
FollowUpNeverConflicts ==
  st.state = "GRADING" /\ FollowUpRoom(st) => FollowUpSlotFree(st, st.current_turn_id)

(* The follow_ups table and the log count the same follow-ups: the ready   *)
(* rows of an item carry the ordinals 1..n, n being the log's count.       *)
FollowUpsMatchLog ==
  \A q \in Items :
    {follow_ups[t].ordinal : t \in {u \in Turns : /\ follow_ups[u].status = "ready"
                                                  /\ follow_ups[u].item = q}}
      = 1..st.follow_ups_by_item[q]

(* Follow-up rows and the log never disagree on how many there are, nor on *)
(* the slot of the next one.                                               *)
FollowUpsFit == FollowUpNeverConflicts /\ FollowUpsMatchLog

(* A worker only finishes the attempt it claimed: two workers never both   *)
(* hold a job whose fence would let them settle the same row.              *)
OneOwner ==
  \A v, w \in Workers : v # w =>
    /\ \A t \in Turns : ~(OwnsTurn(v, t) /\ OwnsTurn(w, t))
    /\ \A t \in Turns : ~(OwnsFollowUp(v, t) /\ OwnsFollowUp(w, t))
    /\ ~(OwnsReport(v) /\ OwnsReport(w))

(* The same as long as no operator has re-queued a row: a re-queue resets  *)
(* the attempt counter the fence compares.                                 *)
OneOwnerUntilRequeued == requeues = 0 => OneOwner

(* Why: a row's attempt counter only grows between two re-queues, so every *)
(* claim a worker still carries is one of the attempts counted so far, and *)
(* no two workers carry the same one.                                      *)
AttemptsOf(row, holders) ==
  /\ row.status = "none" => holders = {}
  /\ \A w \in holders : jobs[w].attempt <= row.attempts
  /\ \A v, w \in holders : v # w => jobs[v].attempt # jobs[w].attempt

TurnHolders(t)     == {w \in Workers : OnTurn(w, t)}
FollowUpHolders(t) == {w \in Workers : OnFollowUp(w, t)}
ReportHolders      == {w \in Workers : OnReport(w)}

AttemptsAreCharted ==
  requeues = 0 =>
    /\ \A t \in Turns : AttemptsOf(turns[t], TurnHolders(t))
    /\ \A t \in Turns : AttemptsOf(follow_ups[t], FollowUpHolders(t))
    /\ AttemptsOf(report, ReportHolders)

(* A turn reaches the model at most MaxAttempts times for each time it was *)
(* queued, crashes and duplicated claims included.                         *)
CallsBounded == \A t \in Turns : calls[t] <= MaxAttempts * (1 + requeues)

(* Why: each claim that calls the model is one of the attempts counted     *)
(* since the last re-queue, and claims beyond the budget do not call it.   *)
CallsAreCharted ==
  \A t \in Turns :
    LET attempts == turns[t].attempts
    IN  calls[t] <= MaxAttempts * requeues
                      + (IF attempts <= MaxAttempts THEN attempts ELSE MaxAttempts)

(* The interview keeps to its blueprint on every path to a bank question,  *)
(* the one after an abandoned follow-up included, which does not consult   *)
(* the stopping rule: no item twice, no topic over its quota, the item and *)
(* the time budget never exceeded.                                         *)
WithinBlueprint ==
  /\ Cardinality(AskedItems(st)) = Len(st.asked_question_ids)
  /\ \A topic \in Topics : AskedCount(st, topic) <= Quota[topic]
  /\ Len(st.asked_question_ids) <= ItemBudget
  /\ UsedTime(st) <= TimeBudget

(* What is settled stays settled, whoever wakes up late: a graded turn and *)
(* a ready or abandoned follow-up are never written again, nor is anything *)
(* of a completed session.                                                 *)
SettledKept ==
  /\ \A t \in Turns : turns[t].status = "graded" => turns'[t] = turns[t]
  /\ \A t \in Turns : follow_ups[t].status \in {"ready", "abandoned"}
                        => follow_ups'[t] = follow_ups[t]
  /\ st.state = "COMPLETED" => UNCHANGED <<st, turns, follow_ups, report>>

SettledIsFinal == [][SettledKept]_vars

(* flow.py and docs/follow-ups.md: after a grade or an abandoned follow-up *)
(* the stop rule is applied, and only then is a bank question asked.       *)
StopRuleBeforeQuestion ==
  [][LET asked == st.asked_question_ids
     IN  asked # <<>> /\ st'.asked_question_ids # asked
           => ~ShouldStop([st' EXCEPT !.asked_question_ids = asked])]_vars

(* An accepted answer is graded, or its failure is on the record.          *)
AnswersAreSettled ==
  \A t \in Turns : Live(turns[t]) ~> turns[t].status \in {"graded", "failed"}

(* A candidate is never left waiting for a follow-up.                      *)
ProbingEnds == st.state = "PROBING" ~> st.state # "PROBING"

(* A session that stopped asking gets its report and completes, or the     *)
(* report's failure is on the record.                                      *)
ReportsAreSettled ==
  st.state = "REPORTING" ~> st.state = "COMPLETED" \/ report.status = "failed"

(* Nothing a session waits for stays unsettled.                            *)
NothingWaitsForever == AnswersAreSettled /\ ProbingEnds /\ ReportsAreSettled
=============================================================================
