----------------------- MODULE InterviewScreenProofs -----------------------
(***************************************************************************)
(* Proofs that an interview screen shows what the log says, whatever       *)
(* mixture of snapshots and events it was built from, for every length of  *)
(* the log and any number of drops, reloads and lost requests.             *)
(***************************************************************************)
EXTENDS InterviewScreen, InterviewLogProofs, SequenceTheorems

-----------------------------------------------------------------------------
(***************************************************************************)
(* One event: what it does to a session's state, and to a view of it.      *)
(***************************************************************************)
(* An event is told by its type.                                           *)
LEMMA TypesTold ==
  ASSUME NEW e \in Validated
  PROVE  /\ e.type = "ANSWER_SUBMITTED" => \E t \in Turns : e = Submitted(t)
         /\ e.type = "GRADING_FAILED" => \E t \in Turns : e = GradingFailed(t)
<1>1. \A type \in EventType : Plain(type).type = type
  BY DEF Plain
<1>2. /\ \A q \in Items : Asked(q).type = "QUESTION_ASKED"
      /\ FollowUpAsked.type = "QUESTION_ASKED"
      /\ \A t \in Turns : /\ Submitted(t).type = "ANSWER_SUBMITTED"
                          /\ GradingFailed(t).type = "GRADING_FAILED"
      /\ \A t \in Turns : \A p, m \in BOOLEAN : Graded(t, p, m).type = "ANSWER_GRADED"
  BY DEF Plain, Asked, FollowUpAsked, Submitted, GradingFailed, Graded
<1>3. \/ \E type \in EventType \ {"QUESTION_ASKED", "ANSWER_SUBMITTED",
                                  "ANSWER_GRADED", "GRADING_FAILED"} : e = Plain(type)
      \/ \E q \in Items : e = Asked(q)
      \/ e = FollowUpAsked
      \/ \E t \in Turns : e = Submitted(t)
      \/ \E t \in Turns : \E p, m \in BOOLEAN : e = Graded(t, p, m)
      \/ \E t \in Turns : e = GradingFailed(t)
  BY DEF Validated
<1> QED BY <1>1, <1>2, <1>3

(* An answer is submitted while the question is open.                      *)
LEMMA SubmittedEffect ==
  ASSUME NEW s \in SessionState, NEW e \in Validated, NEW x \in Stage(s, e),
         e.type = "ANSWER_SUBMITTED"
  PROVE  /\ e.turn_id \in Turns /\ e = Submitted(e.turn_id) /\ s.state = "ASKING"
         /\ x.state = "GRADING" /\ x.current_turn_id = e.turn_id /\ ~x.current_graded
         /\ x.current_item_id = s.current_item_id
         /\ x.current_is_follow_up = s.current_is_follow_up
         /\ x.asked_question_ids = s.asked_question_ids
         /\ x.follow_ups_asked = s.follow_ups_asked
<1>1. \E t \in Turns : e = Submitted(t)
  BY TypesTold
<1>2. Submitted(e.turn_id) = e /\ e.turn_id \in Turns
  BY <1>1 DEF Submitted, Plain
<1>3. Accepts(s, e) /\ x = Apply(s, e)
  BY DEF Stage
<1>4. s.state = "ASKING"
  BY <1>3 DEF Accepts, Transitions
<1>5. x = [s EXCEPT !.state = "GRADING", !.current_turn_id = e.turn_id,
                    !.current_graded = FALSE]
  BY <1>3 DEF Apply
<1>6. /\ x.state = "GRADING" /\ x.current_turn_id = e.turn_id /\ ~x.current_graded
      /\ x.current_item_id = s.current_item_id
      /\ x.current_is_follow_up = s.current_is_follow_up
      /\ x.asked_question_ids = s.asked_question_ids
      /\ x.follow_ups_asked = s.follow_ups_asked
  BY <1>5 DEF SessionState
<1> QED BY <1>2, <1>4, <1>6

(* A question is asked while none is open.                                 *)
LEMMA AskedEffectOnState ==
  ASSUME NEW s \in SessionState, NEW e \in Validated, NEW x \in Stage(s, e),
         e.type = "QUESTION_ASKED"
  PROVE  /\ s.state \in {"PREPARING", "PROBING", "SELECTING"} /\ x.state = "ASKING"
         /\ x.current_turn_id = NoTurn
         /\ e.is_follow_up => /\ x.current_is_follow_up
                              /\ x.follow_ups_asked = s.follow_ups_asked + 1
                              /\ x.asked_question_ids = s.asked_question_ids
         /\ ~e.is_follow_up => /\ ~x.current_is_follow_up
                               /\ x.current_item_id = e.question_id
                               /\ x.follow_ups_asked = s.follow_ups_asked
                               /\ Len(x.asked_question_ids) = Len(s.asked_question_ids) + 1
<1>1. Accepts(s, e) /\ x = Apply(s, e) /\ e \in Event
  BY ValidatedEvents DEF Stage
<1>2. s.state \in {"PREPARING", "PROBING", "SELECTING"}
  BY <1>1 DEF Accepts, Transitions
<1>3. CASE e.is_follow_up
  <2>1. x = ApplyFollowUp(s)
    BY <1>1, <1>3 DEF Apply
  <2> QED BY <1>2, <1>3, <2>1 DEF ApplyFollowUp, SessionState
<1>4. CASE ~e.is_follow_up
  <2>1. x = ApplyAsked(s, e.question_id) /\ e.question_id \in Items
    BY <1>1, <1>4 DEF Apply, Accepts, AskAccepted, Event
  <2>2. Len(Append(s.asked_question_ids, e.question_id)) = Len(s.asked_question_ids) + 1
    BY <2>1 DEF SessionState
  <2> QED BY <1>2, <1>4, <2>1, <2>2 DEF ApplyAsked, SessionState
<1> QED BY <1>1, <1>3, <1>4 DEF Event

(* A grade belongs to the answer at hand, which had none.                  *)
LEMMA GradedEffect ==
  ASSUME NEW s \in SessionState, NEW e \in Validated, NEW x \in Stage(s, e),
         e.type = "ANSWER_GRADED"
  PROVE  /\ s.state = "GRADING" /\ x.state = "GRADING" /\ x.current_graded
         /\ x.current_turn_id = s.current_turn_id
         /\ x.current_item_id = s.current_item_id
         /\ x.current_is_follow_up = s.current_is_follow_up
         /\ x.asked_question_ids = s.asked_question_ids
         /\ x.follow_ups_asked = s.follow_ups_asked
<1>1. Accepts(s, e) /\ x = ApplyGraded(s, e)
  BY DEF Stage, Apply
<1>2. s.state = "GRADING"
  BY <1>1 DEF Accepts, Transitions
<1> QED BY <1>1, <1>2 DEF ApplyGraded, SessionState

(* The rows of the table for these events.                                 *)
LEMMA OtherMoves ==
  /\ Transitions["SESSION_CREATED"] = [from |-> {EMPTY}, to |-> "CREATED"]
  /\ Transitions["PREPARATION_STARTED"] = [from |-> {"CREATED"}, to |-> "PREPARING"]
  /\ Transitions["GRADING_FAILED"] = [from |-> {"GRADING"}, to |-> "GRADING"]
  /\ Transitions["FOLLOW_UP_STARTED"] = [from |-> {"GRADING"}, to |-> "PROBING"]
  /\ Transitions["FOLLOW_UP_ABANDONED"] = [from |-> {"PROBING"}, to |-> "SELECTING"]
  /\ Transitions["SELECTION_STARTED"] = [from |-> {"GRADING"}, to |-> "SELECTING"]
  /\ Transitions["REPORTING_STARTED"] = [from |-> {"GRADING", "SELECTING"}, to |-> "REPORTING"]
  /\ Transitions["SESSION_COMPLETED"] = [from |-> {"REPORTING"}, to |-> "COMPLETED"]
  BY DEF Transitions

(* Every other event only moves the state, and out of GRADING only what is *)
(* graded.                                                                 *)
OtherType == {"SESSION_CREATED", "PREPARATION_STARTED", "GRADING_FAILED", "FOLLOW_UP_STARTED",
              "FOLLOW_UP_ABANDONED", "SELECTION_STARTED", "REPORTING_STARTED",
              "SESSION_COMPLETED"}

LEMMA OtherEffect ==
  ASSUME NEW s \in SessionState, NEW e \in Validated, NEW x \in Stage(s, e),
         e.type \in OtherType
  PROVE  /\ x = [s EXCEPT !.state = Transitions[e.type].to]
         /\ s.state \in Transitions[e.type].from
         /\ e.type = "GRADING_FAILED" =>
              ~s.current_graded /\ e = GradingFailed(s.current_turn_id)
         /\ s.state = "GRADING" /\ e.type # "GRADING_FAILED" => s.current_graded
<1>1. Accepts(s, e) /\ x = Apply(s, e)
  BY DEF Stage
<1>2. x = [s EXCEPT !.state = Transitions[e.type].to]
  BY <1>1 DEF Apply, OtherType
<1>3. s.state \in Transitions[e.type].from
  BY <1>1 DEF Accepts
<1>4. ASSUME e.type = "GRADING_FAILED"
      PROVE  ~s.current_graded /\ e = GradingFailed(s.current_turn_id)
  <2>1. PICK t \in Turns : e = GradingFailed(t)
    BY <1>4, TypesTold
  <2>2. e.turn_id = t
    BY <2>1 DEF GradingFailed, Plain
  <2>3. ~s.current_graded /\ e.turn_id = s.current_turn_id
    BY <1>1, <1>4 DEF Accepts, GradeAccepted
  <2> QED BY <2>1, <2>2, <2>3
<1>5. ASSUME s.state = "GRADING", e.type # "GRADING_FAILED" PROVE s.current_graded
  <2>1. e.type \in {"FOLLOW_UP_STARTED", "SELECTION_STARTED", "REPORTING_STARTED"}
    BY <1>3, <1>5, OtherMoves DEF OtherType, EMPTY
  <2> QED BY <1>1, <1>5, <2>1 DEF Accepts
<1> QED BY <1>2, <1>3, <1>4, <1>5

(* Which is every type there is.                                           *)
LEMMA TypesCovered ==
  ASSUME NEW e \in Validated
  PROVE  e.type \in {"QUESTION_ASKED", "ANSWER_SUBMITTED", "ANSWER_GRADED"} \cup OtherType
  BY ValidatedEvents, EventTypes DEF Event, OtherType

-----------------------------------------------------------------------------
(* The assignments of applyEvent, in groups of two.                        *)
Moved(v, n, state)         == [v EXCEPT !.seq = n, !.state = state]
Questioned(v, question, n) == [v EXCEPT !.question = question, !.question_seq = n]
Counted(v, asked, more)    == [v EXCEPT !.asked = asked, !.follow_ups = more]
Reviewed(v, turn, review)  == [v EXCEPT !.turn = turn, !.review = review]

(* What each group leaves of a view, and that the result is a view.        *)
LEMMA MovedView ==
  ASSUME NEW v \in View, NEW n \in Nat, NEW state \in InterviewState \cup {EMPTY},
         NEW w, w = Moved(v, n, state)
  PROVE  /\ w \in View /\ w.seq = n /\ w.state = state
         /\ w.question = v.question /\ w.question_seq = v.question_seq
         /\ w.asked = v.asked /\ w.follow_ups = v.follow_ups
         /\ w.turn = v.turn /\ w.review = v.review
  BY DEF View, Moved

LEMMA QuestionedView ==
  ASSUME NEW v \in View, NEW question \in Question, NEW n \in Nat,
         NEW w, w = Questioned(v, question, n)
  PROVE  /\ w \in View /\ w.seq = v.seq /\ w.state = v.state
         /\ w.question = question /\ w.question_seq = n
         /\ w.asked = v.asked /\ w.follow_ups = v.follow_ups
  BY DEF View, Questioned

LEMMA ReviewedView ==
  ASSUME NEW v \in View, NEW turn \in Turns \cup {NoTurn}, NEW review \in Review,
         NEW w, w = Reviewed(v, turn, review)
  PROVE  /\ w \in View /\ w.seq = v.seq /\ w.state = v.state
         /\ w.question = v.question /\ w.question_seq = v.question_seq
         /\ w.asked = v.asked /\ w.follow_ups = v.follow_ups
         /\ w.turn = turn /\ w.review = review
  BY DEF View, Reviewed

(* The fields of a view of an interview that is over.                      *)
LEMMA OverView ==
  ASSUME NEW v \in View, NEW w, w = InterviewOver(v)
  PROVE  /\ w \in View /\ w.seq = v.seq /\ w.state = v.state
         /\ w.question = NoQuestion /\ w.asked = v.asked /\ w.follow_ups = v.follow_ups
         /\ w.review = "none"
<1>1. NoQuestion \in Question /\ "none" \in Review
  BY DEF NoQuestion, Question, Review
<1>2. w = [v EXCEPT !.question = NoQuestion, !.turn = NoTurn, !.review = "none"]
  BY DEF InterviewOver
<1> QED BY <1>1, <1>2 DEF View

(* The fields of a view that is given a new question.                      *)
LEMMA NextQuestionView ==
  ASSUME NEW v \in View, NEW m, m.seq \in Nat, m.event \in Event,
         NEW w, w = NextQuestion(v, m)
  PROVE  /\ w \in View /\ w.seq = v.seq /\ w.state = v.state
         /\ w.question = IF m.event.is_follow_up THEN FollowUpQuestion
                         ELSE [item |-> m.event.question_id, is_follow_up |-> FALSE]
         /\ w.question_seq = m.seq
         /\ w.asked = IF m.event.is_follow_up THEN v.asked ELSE v.asked + 1
         /\ w.follow_ups = IF m.event.is_follow_up THEN v.follow_ups + 1 ELSE v.follow_ups
         /\ w.turn = NoTurn /\ w.review = "none"
<1> DEFINE question == IF m.event.is_follow_up THEN FollowUpQuestion
                       ELSE [item |-> m.event.question_id, is_follow_up |-> FALSE]
           asked == IF m.event.is_follow_up THEN v.asked ELSE v.asked + 1
           more == IF m.event.is_follow_up THEN v.follow_ups + 1 ELSE v.follow_ups
           first == Questioned(v, question, m.seq)
           second == Counted(first, asked, more)
<1>1. question \in Question /\ asked \in Nat /\ more \in Nat
  BY DEF Event, Question, FollowUpQuestion, View
<1>2. w = Reviewed(second, NoTurn, "none")
  <2>1. w = [v EXCEPT !.question = question, !.question_seq = m.seq, !.asked = asked,
                      !.follow_ups = more, !.turn = NoTurn, !.review = "none"]
    BY DEF NextQuestion
  <2> HIDE DEF question, asked, more
  <2> QED BY <2>1 DEF Reviewed, Counted, Questioned, View
<1> HIDE DEF question, asked, more
<1>3. /\ first \in View /\ first.seq = v.seq /\ first.state = v.state
      /\ first.question = question /\ first.question_seq = m.seq
  <2>1. first = Questioned(v, question, m.seq)
    OBVIOUS
  <2> HIDE DEF first
  <2> QED BY <1>1, <2>1, QuestionedView
<1> HIDE DEF first
<1>4. /\ second \in View /\ second.seq = v.seq /\ second.state = v.state
      /\ second.question = question /\ second.question_seq = m.seq
      /\ second.asked = asked /\ second.follow_ups = more
  <2>1. second = Counted(first, asked, more)
    OBVIOUS
  <2> HIDE DEF second
  <2>2. /\ second \in View /\ second.seq = first.seq /\ second.state = first.state
        /\ second.question = first.question /\ second.question_seq = first.question_seq
        /\ second.asked = asked /\ second.follow_ups = more
    BY <1>1, <1>3, <2>1 DEF Counted, View
  <2> QED BY <1>3, <2>2
<1> HIDE DEF second
<1>5. /\ w \in View /\ w.seq = v.seq /\ w.state = v.state
      /\ w.question = question /\ w.question_seq = m.seq
      /\ w.asked = asked /\ w.follow_ups = more
      /\ w.turn = NoTurn /\ w.review = "none"
  BY <1>2, <1>4, ReviewedView DEF Review
<1> QED BY <1>5 DEF question, asked, more

(* A view that is brought forward by the next event shows what a snapshot  *)
(* taken after that event would show.                                      *)
LEMMA QuestionAskedView ==
  ASSUME NEW s \in SessionState, NEW e \in Validated, NEW x \in Stage(s, e),
         NEW v \in View, v.seq \in Nat, Matches(v, s), e.type = "QUESTION_ASKED",
         NEW m, m.seq = v.seq + 1, m.event = e, m.state = x.state,
         NEW w, w = ApplyEvent(v, m)
  PROVE  w \in View /\ w.seq = v.seq + 1 /\ Matches(w, x) /\ w.review = "none"
<1> DEFINE next == Moved(v, m.seq, m.state)
<1>1. /\ x.state = "ASKING" /\ x.current_is_follow_up = e.is_follow_up
      /\ ~e.is_follow_up => x.current_item_id = e.question_id
      /\ Len(x.asked_question_ids) = IF e.is_follow_up THEN Len(s.asked_question_ids)
                                    ELSE Len(s.asked_question_ids) + 1
      /\ x.follow_ups_asked = IF e.is_follow_up THEN s.follow_ups_asked + 1
                              ELSE s.follow_ups_asked
  <2>1. e.is_follow_up \in BOOLEAN /\ x.current_is_follow_up \in BOOLEAN
    BY ValidatedEvents, StageType DEF Event, SessionState
  <2> QED BY <2>1, AskedEffectOnState
<1>2. w = NextQuestion(next, m)
  BY <1>1 DEF ApplyEvent, Moved
<1>3. /\ m.state \in InterviewState \cup {EMPTY} /\ m.seq \in Nat /\ m.event \in Event
  BY <1>1, ValidatedEvents DEF InterviewState
<1>4. /\ next \in View /\ next.seq = v.seq + 1 /\ next.state = "ASKING"
      /\ next.asked = v.asked /\ next.follow_ups = v.follow_ups
  <2>1. next = Moved(v, m.seq, m.state) /\ m.state = "ASKING" /\ m.seq = v.seq + 1
    BY <1>1
  <2> HIDE DEF next
  <2> QED BY <1>3, <2>1, MovedView
<1> HIDE DEF next
<1>5. /\ w \in View /\ w.seq = v.seq + 1 /\ w.state = "ASKING"
      /\ w.question = IF e.is_follow_up THEN FollowUpQuestion
                      ELSE [item |-> e.question_id, is_follow_up |-> FALSE]
      /\ w.question_seq = v.seq + 1
      /\ w.asked = IF e.is_follow_up THEN v.asked ELSE v.asked + 1
      /\ w.follow_ups = IF e.is_follow_up THEN v.follow_ups + 1 ELSE v.follow_ups
      /\ w.review = "none"
  BY <1>2, <1>3, <1>4, NextQuestionView
<1>6. v.asked = Len(s.asked_question_ids) /\ v.follow_ups = s.follow_ups_asked
  BY DEF Matches, Snapshot
<1>7. w.question = QuestionOf(x)
  BY <1>1, <1>5 DEF QuestionOf
<1>8. w.asked = Len(x.asked_question_ids) /\ w.follow_ups = x.follow_ups_asked
  BY <1>1, <1>5, <1>6
<1>9. Matches(w, x)
  BY <1>1, <1>5, <1>7, <1>8 DEF Matches, Snapshot
<1> QED BY <1>5, <1>9

(* An answer, and its grade, leave the question as it is shown.            *)
LEMMA AnswerSubmittedView ==
  ASSUME NEW s \in SessionState, NEW e \in Validated, NEW x \in Stage(s, e),
         NEW v \in View, v.seq \in Nat, Matches(v, s), e.type = "ANSWER_SUBMITTED",
         NEW m, m.seq = v.seq + 1, m.event = e, m.state = x.state,
         NEW w, w = ApplyEvent(v, m)
  PROVE  w \in View /\ w.seq = v.seq + 1 /\ Matches(w, x) /\ w.review = "pending"
<1> DEFINE next == Moved(v, m.seq, m.state)
<1>1. s.state = "ASKING" /\ e.turn_id \in Turns
  BY SubmittedEffect
<1>2. /\ x.state = "GRADING" /\ x.current_turn_id = e.turn_id
      /\ x.current_item_id = s.current_item_id
      /\ x.current_is_follow_up = s.current_is_follow_up
      /\ x.asked_question_ids = s.asked_question_ids
      /\ x.follow_ups_asked = s.follow_ups_asked
  BY SubmittedEffect
<1>3. w = Reviewed(next, e.turn_id, "pending")
  BY <1>2 DEF ApplyEvent, Moved, Reviewed
<1>4. /\ next \in View /\ next.seq = v.seq + 1 /\ next.state = "GRADING"
      /\ next.question = v.question /\ next.asked = v.asked /\ next.follow_ups = v.follow_ups
  <2>1. m.state \in InterviewState \cup {EMPTY} /\ m.seq \in Nat
    BY <1>2 DEF InterviewState
  <2>2. next = Moved(v, m.seq, m.state) /\ m.state = "GRADING" /\ m.seq = v.seq + 1
    BY <1>2
  <2> HIDE DEF next
  <2> QED BY <2>1, <2>2, MovedView
<1> HIDE DEF next
<1>5. /\ w \in View /\ w.seq = v.seq + 1 /\ w.state = "GRADING"
      /\ w.question = v.question /\ w.asked = v.asked /\ w.follow_ups = v.follow_ups
      /\ w.turn = e.turn_id /\ w.review = "pending"
  <2>1. e.turn_id \in Turns /\ "pending" \in Review
    BY <1>1 DEF Review
  <2> QED BY <1>3, <1>4, <2>1, ReviewedView
<1>6. Matches(w, x)
  BY <1>1, <1>2, <1>5 DEF Matches, Snapshot, QuestionOf
<1> QED BY <1>5, <1>6

(* A view takes ANSWER_GRADED: the session's new state is shown.           *)
LEMMA AnswerGradedView ==
  ASSUME NEW s \in SessionState, NEW e \in Validated, NEW x \in Stage(s, e),
         NEW v \in View, v.seq \in Nat, Matches(v, s), e.type = "ANSWER_GRADED",
         NEW m, m.seq = v.seq + 1, m.event = e, m.state = x.state,
         NEW w, w = ApplyEvent(v, m)
  PROVE  w \in View /\ w.seq = v.seq + 1 /\ Matches(w, x) /\ w.review = "pending"
<1> DEFINE next == Moved(v, m.seq, m.state)
<1>1. s.state = "GRADING" /\ x.state = "GRADING"
  BY GradedEffect
<1>2. w = [next EXCEPT !.review = "pending"]
  BY <1>1 DEF ApplyEvent, Moved
<1>3. /\ next \in View /\ next.seq = v.seq + 1 /\ next.state = "GRADING"
      /\ next.question = v.question /\ next.asked = v.asked /\ next.follow_ups = v.follow_ups
      /\ next.turn = v.turn
  <2>1. m.state \in InterviewState \cup {EMPTY} /\ m.seq \in Nat
    BY <1>1 DEF InterviewState
  <2>2. next = Moved(v, m.seq, m.state) /\ m.state = "GRADING" /\ m.seq = v.seq + 1
    BY <1>1
  <2> HIDE DEF next
  <2> QED BY <2>1, <2>2, MovedView
<1> HIDE DEF next
<1>4. /\ w \in View /\ w.seq = v.seq + 1 /\ w.state = "GRADING"
      /\ w.question = v.question /\ w.asked = v.asked /\ w.follow_ups = v.follow_ups
      /\ w.turn = v.turn /\ w.review = "pending"
  BY <1>2, <1>3 DEF View, Review
<1>5. Matches(w, x)
  BY <1>1, <1>4, GradedEffect DEF Matches, Snapshot, QuestionOf
<1> QED BY <1>4, <1>5

(* What the other events leave of a state, and a failure of a view.        *)
LEMMA GradingFailedView ==
  ASSUME NEW s \in SessionState, NEW e \in Validated, NEW x \in Stage(s, e),
         NEW v \in View, v.seq \in Nat, Matches(v, s), e.type = "GRADING_FAILED",
         NEW m, m.seq = v.seq + 1, m.event = e, m.state = x.state,
         NEW w, w = ApplyEvent(v, m)
  PROVE  /\ w \in View /\ w.seq = v.seq + 1 /\ Matches(w, x) /\ w.review = "failed"
         /\ e = GradingFailed(w.turn)
<1> DEFINE next == Moved(v, m.seq, m.state)
<1>1. /\ s.state = "GRADING" /\ ~s.current_graded /\ e = GradingFailed(s.current_turn_id)
      /\ x = [s EXCEPT !.state = "GRADING"]
  BY OtherEffect, OtherMoves DEF OtherType
<1>2. x = s
  BY <1>1 DEF SessionState
<1>3. w = [next EXCEPT !.review = "failed"]
  BY <1>1, <1>2 DEF ApplyEvent, Moved
<1>4. /\ next \in View /\ next.seq = v.seq + 1 /\ next.state = "GRADING"
      /\ next.question = v.question /\ next.asked = v.asked /\ next.follow_ups = v.follow_ups
      /\ next.turn = v.turn
  <2>1. m.state \in InterviewState \cup {EMPTY} /\ m.seq \in Nat
    BY <1>1, <1>2 DEF InterviewState
  <2>2. next = Moved(v, m.seq, m.state) /\ m.state = "GRADING" /\ m.seq = v.seq + 1
    BY <1>1, <1>2
  <2> HIDE DEF next
  <2> QED BY <2>1, <2>2, MovedView
<1> HIDE DEF next
<1>5. /\ w \in View /\ w.seq = v.seq + 1 /\ w.state = "GRADING"
      /\ w.question = v.question /\ w.asked = v.asked /\ w.follow_ups = v.follow_ups
      /\ w.turn = v.turn /\ w.review = "failed"
  BY <1>3, <1>4 DEF View, Review
<1>6. v.turn = s.current_turn_id
  BY <1>1 DEF Matches, Snapshot
<1>7. Matches(w, x)
  BY <1>1, <1>2, <1>5 DEF Matches, Snapshot
<1> QED BY <1>1, <1>5, <1>6, <1>7

(* A view takes an event that only moves the session on.                   *)
LEMMA MoveView ==
  ASSUME NEW s \in SessionState, NEW e \in Validated, NEW x \in Stage(s, e),
         NEW v \in View, v.seq \in Nat, Matches(v, s),
         e.type \in OtherType \ {"GRADING_FAILED"},
         NEW m, m.seq = v.seq + 1, m.event = e, m.state = x.state,
         NEW w, w = ApplyEvent(v, m)
  PROVE  w \in View /\ w.seq = v.seq + 1 /\ Matches(w, x) /\ w.review # "failed"
<1> DEFINE next == Moved(v, m.seq, m.state)
<1>1. /\ x = [s EXCEPT !.state = Transitions[e.type].to]
      /\ s.state \in Transitions[e.type].from
      /\ s.state = "GRADING" => s.current_graded
  BY OtherEffect
<1>2. /\ x.state = Transitions[e.type].to
      /\ x.current_item_id = s.current_item_id
      /\ x.current_is_follow_up = s.current_is_follow_up
      /\ x.asked_question_ids = s.asked_question_ids
      /\ x.follow_ups_asked = s.follow_ups_asked
  BY <1>1 DEF SessionState
<1>3. \/ s.state = EMPTY /\ x.state = "CREATED"
      \/ s.state = "CREATED" /\ x.state = "PREPARING"
      \/ s.state \in {"GRADING", "PROBING"} /\ x.state \in {"PROBING", "SELECTING"}
      \/ x.state \in {"REPORTING", "COMPLETED"}
  BY <1>1, <1>2, OtherMoves DEF OtherType
<1>4. v.review # "failed"
  BY <1>1 DEF Matches, Snapshot
<1>5. x.state \in InterviewState
  BY <1>3 DEF InterviewState
<1>6. /\ next \in View /\ next.seq = v.seq + 1 /\ next.state = x.state
      /\ next.question = v.question /\ next.asked = v.asked /\ next.follow_ups = v.follow_ups
      /\ next.turn = v.turn /\ next.review = v.review
  <2>1. m.state \in InterviewState \cup {EMPTY} /\ m.seq \in Nat
    BY <1>5
  <2>2. next = Moved(v, m.seq, m.state) /\ m.seq = v.seq + 1
    OBVIOUS
  <2> HIDE DEF next
  <2> QED BY <2>1, <2>2, MovedView
<1>7. CASE x.state \in {"REPORTING", "COMPLETED"}
  <2>1. w = InterviewOver(next)
    BY <1>7 DEF ApplyEvent, Moved, OtherType
  <2> HIDE DEF next
  <2>2. /\ w \in View /\ w.seq = v.seq + 1 /\ w.state = x.state
        /\ w.question = NoQuestion /\ w.asked = v.asked /\ w.follow_ups = v.follow_ups
        /\ w.review = "none"
    BY <2>1, <1>6, OverView
  <2>3. Matches(w, x)
    BY <1>2, <1>7, <2>2 DEF Matches, Snapshot, QuestionOf
  <2> QED BY <2>2, <2>3
<1>8. CASE x.state \notin {"REPORTING", "COMPLETED"}
  <2>1. w = next
    BY <1>8 DEF ApplyEvent, Moved, OtherType
  <2> HIDE DEF next
  <2>2. QuestionOf(x) = QuestionOf(s)
    BY <1>2, <1>3, <1>8 DEF QuestionOf, EMPTY
  <2>3. x.state \notin {"ASKING", "GRADING"}
    BY <1>3, <1>8
  <2>4. Matches(w, x)
    BY <1>2, <1>4, <1>6, <2>1, <2>2, <2>3 DEF Matches, Snapshot
  <2> QED BY <1>4, <1>6, <2>1, <2>4
<1> QED BY <1>7, <1>8

(* All of them.                                                            *)
LEMMA EventView ==
  ASSUME NEW s \in SessionState, NEW e \in Validated, NEW x \in Stage(s, e),
         NEW v \in View, v.seq \in Nat, Matches(v, s),
         NEW m, m.seq = v.seq + 1, m.event = e, m.state = x.state,
         NEW w, w = ApplyEvent(v, m)
  PROVE  /\ w \in View /\ w.seq = v.seq + 1 /\ Matches(w, x)
         /\ w.review = "failed" => e = GradingFailed(w.turn)
         /\ e.type = "GRADING_FAILED" => w.review = "failed"
<1>1. CASE e.type = "QUESTION_ASKED"
  <2>1. w \in View /\ w.seq = v.seq + 1 /\ Matches(w, x) /\ w.review = "none"
    BY <1>1, QuestionAskedView
  <2> QED BY <1>1, <2>1
<1>2. CASE e.type = "ANSWER_SUBMITTED"
  <2>1. w \in View /\ w.seq = v.seq + 1 /\ Matches(w, x) /\ w.review = "pending"
    BY <1>2, AnswerSubmittedView
  <2> QED BY <1>2, <2>1
<1>3. CASE e.type = "ANSWER_GRADED"
  <2>1. w \in View /\ w.seq = v.seq + 1 /\ Matches(w, x) /\ w.review = "pending"
    BY <1>3, AnswerGradedView
  <2> QED BY <1>3, <2>1
<1>4. CASE e.type = "GRADING_FAILED"
  BY <1>4, GradingFailedView
<1>5. CASE e.type \in OtherType \ {"GRADING_FAILED"}
  <2>1. w \in View /\ w.seq = v.seq + 1 /\ Matches(w, x) /\ w.review # "failed"
    BY <1>5, MoveView
  <2> QED BY <1>5, <2>1
<1> QED BY <1>1, <1>2, <1>3, <1>4, <1>5, TypesCovered

-----------------------------------------------------------------------------
(***************************************************************************)
(* The log: it stays legal as decisions are committed, and what was shown  *)
(* of it stays true.                                                       *)
(***************************************************************************)
(* A new row keeps the turn ids apart and graded turns graded.             *)
LEMMA LegalAppend ==
  ASSUME NEW rows, Legal(rows), NEW e \in Validated,
         NEW x \in Stage(rows[Len(rows)].state, e),
         e.type = "ANSWER_SUBMITTED" => \A i \in 1..Len(rows) : rows[i].event # e,
         NEW longer, longer = Append(rows, [event |-> e, state |-> x])
  PROVE  Legal(longer)
<1> DEFINE n == Len(rows)
           s == rows[n].state
           row == [event |-> e, state |-> x]
<1>1. rows \in Seq(Row) /\ rows # <<>> /\ n \in Nat \ {0} /\ rows[1] = Created
  BY DEF Legal
<1>2. s \in SessionState /\ s = rows[n].state
  <2>1. n \in 1..Len(rows)
    BY <1>1
  <2>2. rows[n] \in Row
    BY <1>1, <2>1, ElementOfSeq
  <2> QED BY <2>2 DEF Row
<1>3. x \in Stage(s, e) /\ x \in SessionState /\ e \in Event
  <2>1. e \in Event
    BY ValidatedEvents
  <2> QED BY <1>2, <2>1, StageType
<1>4. /\ longer \in Seq(Row) /\ longer # <<>> /\ Len(longer) = n + 1
      /\ \A i \in 1..n : longer[i] = rows[i]
      /\ longer[n + 1] = row
  <2>1. row \in Row
    BY <1>3 DEF Row
  <2> QED BY <1>1, <2>1, AppendProperties
<1>5. row.event = e /\ row.state = x
  OBVIOUS
<1> HIDE DEF row, s
<1>6. \/ /\ e.type = "ANSWER_SUBMITTED" /\ e.turn_id \in Turns
         /\ e = Submitted(e.turn_id) /\ x.current_turn_id = e.turn_id
      \/ /\ e.type # "ANSWER_SUBMITTED" /\ x.current_turn_id = NoTurn /\ x.state = "ASKING"
      \/ /\ e.type # "ANSWER_SUBMITTED" /\ x.current_turn_id = s.current_turn_id
         /\ s.current_graded => x.current_graded
         /\ x.state = "GRADING" => s.state = "GRADING"
  <2>1. CASE e.type = "ANSWER_SUBMITTED"
    BY <1>2, <1>3, <2>1, SubmittedEffect
  <2>2. CASE e.type = "QUESTION_ASKED"
    BY <1>2, <1>3, <2>2, AskedEffectOnState
  <2>3. CASE e.type = "ANSWER_GRADED"
    BY <1>2, <1>3, <2>3, GradedEffect
  <2>4. CASE e.type \in OtherType
    <3>1. /\ x = [s EXCEPT !.state = Transitions[e.type].to]
          /\ s.state \in Transitions[e.type].from
      BY <1>2, <1>3, <2>4, OtherEffect
    <3>2. x.current_turn_id = s.current_turn_id /\ x.current_graded = s.current_graded
          /\ x.state = Transitions[e.type].to
      BY <1>2, <3>1 DEF SessionState
    <3>3. x.state = "GRADING" => s.state = "GRADING"
      <4>1. CASE e.type = "GRADING_FAILED"
        BY <3>1, <4>1, OtherMoves
      <4>2. CASE e.type \in OtherType \ {"GRADING_FAILED"}
        <5>1. Transitions[e.type].to # "GRADING"
          BY <4>2, OtherMoves DEF OtherType
        <5> QED BY <3>2, <5>1
      <4> QED BY <2>4, <4>1, <4>2
    <3> QED BY <2>4, <3>2, <3>3 DEF OtherType
  <2> QED BY <2>1, <2>2, <2>3, <2>4, TypesCovered
<1>7. ASSUME NEW i \in 1..(n + 1)
      PROVE  LET t == longer[i].state
             IN  /\ longer[i].event \in Validated
                 /\ i > 1 => t \in Stage(longer[i - 1].state, longer[i].event)
                 /\ t.state = "GRADING" => t.current_turn_id \in Turns
                 /\ t.current_turn_id # NoTurn =>
                      \E j \in 1..i : longer[j].event = Submitted(t.current_turn_id)
  <2>1. CASE i \in 1..n
    <3>1. longer[i] = rows[i] /\ i > 1 => longer[i - 1] = rows[i - 1]
      BY <1>1, <1>4, <2>1
    <3>2. \A j \in 1..i : longer[j] = rows[j]
      BY <1>1, <1>4, <2>1
    <3> QED BY <2>1, <3>1, <3>2 DEF Legal
  <2>2. CASE i = n + 1
    <3>1. longer[i].event = e /\ longer[i].state = x /\ longer[i - 1].state = s
      BY <1>1, <1>2, <1>4, <1>5, <2>2
    <3>2. /\ s.state = "GRADING" => s.current_turn_id \in Turns
          /\ s.current_turn_id # NoTurn =>
               \E j \in 1..n : rows[j].event = Submitted(s.current_turn_id)
      BY <1>1, <1>2 DEF Legal
    <3>3. x.state = "GRADING" => x.current_turn_id \in Turns
      BY <1>6, <3>2
    <3>4. ASSUME x.current_turn_id # NoTurn
          PROVE  \E j \in 1..i : longer[j].event = Submitted(x.current_turn_id)
      <4>1. CASE e = Submitted(x.current_turn_id)
        BY <1>1, <2>2, <3>1, <4>1
      <4>2. CASE x.current_turn_id = s.current_turn_id
        <5>1. PICK j \in 1..n : rows[j].event = Submitted(x.current_turn_id)
          BY <3>2, <3>4, <4>2
        <5> QED BY <1>1, <1>4, <2>2, <5>1
      <4> QED BY <1>6, <3>4, <4>1, <4>2
    <3> QED BY <1>3, <3>1, <3>3, <3>4
  <2> QED BY <1>1, <2>1, <2>2
<1>8. ASSUME NEW i \in 1..(n + 1), NEW j \in 1..(n + 1), i <= j,
             longer[i].state.current_turn_id = longer[j].state.current_turn_id,
             longer[i].state.current_turn_id # NoTurn,
             longer[i].state.current_graded
      PROVE  longer[j].state.current_graded
  <2>1. CASE j \in 1..n
    <3>1. i \in 1..n /\ longer[i] = rows[i] /\ longer[j] = rows[j]
      BY <1>1, <1>4, <1>8, <2>1
    <3> QED BY <1>8, <2>1, <3>1 DEF Legal
  <2>2. CASE j = n + 1 /\ i = n + 1
    BY <1>8, <2>2
  <2>3. CASE j = n + 1 /\ i \in 1..n
    <3>1. longer[j].state = x /\ longer[i] = rows[i]
      BY <1>4, <1>5, <2>3
    <3>2. CASE e.type = "ANSWER_SUBMITTED"
      <4>1. e = Submitted(x.current_turn_id)
        BY <1>6, <3>2
      <4>2. PICK k \in 1..i : rows[k].event = Submitted(rows[i].state.current_turn_id)
        BY <1>8, <2>3, <3>1 DEF Legal
      <4>3. k \in 1..n /\ rows[k].event = e
        BY <1>1, <1>8, <2>3, <3>1, <4>1, <4>2
      <4> QED BY <3>2, <4>3
    <3>3. CASE /\ x.current_turn_id = s.current_turn_id
               /\ s.current_graded => x.current_graded
      <4>1. /\ rows[i].state.current_turn_id = rows[n].state.current_turn_id
            /\ rows[i].state.current_turn_id # NoTurn
        BY <1>2, <1>8, <3>1, <3>3
      <4>2. rows[i].state.current_graded
        BY <1>8, <3>1, Zenon
      <4>3. i \in 1..n /\ n \in 1..n /\ i <= n
        BY <1>1, <2>3
      <4>4. rows[n].state.current_graded
        BY <4>1, <4>2, <4>3 DEF Legal
      <4>5. s.current_graded
        BY <1>2, <4>4, Zenon
      <4> QED BY <3>1, <3>3, <4>5, Zenon
    <3> QED BY <1>6, <1>8, <3>1, <3>2, <3>3
  <2> QED BY <1>1, <2>1, <2>2, <2>3
<1>9. longer[1] = Created
  BY <1>1, <1>4
<1> QED BY <1>4, <1>7, <1>8, <1>9 DEF Legal

(* A longer log shows what the log before it showed.                       *)
LEMMA ShowsLonger ==
  ASSUME NEW rows \in Seq(Row), NEW longer \in Seq(Row), Len(rows) <= Len(longer),
         \A i \in 1..Len(rows) : longer[i] = rows[i],
         NEW v, Shows(v, rows)
  PROVE  Shows(v, longer)
<1>1. Len(rows) \in Nat /\ Len(longer) \in Nat
  OBVIOUS
<1>2. v.seq \in 0..(Len(rows) - 1) /\ v.seq + 1 \in 1..Len(rows)
  BY <1>1 DEF Shows
<1>3. v.seq \in 0..(Len(longer) - 1) /\ longer[v.seq + 1] = rows[v.seq + 1]
  BY <1>1, <1>2
<1>4. ASSUME v.review = "failed"
      PROVE  \E i \in 1..Len(longer) : longer[i].event = GradingFailed(v.turn)
  <2>1. PICK i \in 1..Len(rows) : rows[i].event = GradingFailed(v.turn)
    BY <1>4 DEF Shows
  <2>2. i \in 1..Len(longer) /\ longer[i] = rows[i]
    BY <1>1
  <2> QED BY <2>1, <2>2
<1> QED BY <1>3, <1>4 DEF Shows

(* A decision is one to three validated events; what follows its first     *)
(* event is no answer, and a failure stands alone.                         *)
LEMMA DecisionShape ==
  ASSUME NEW decision \in Decisions
  PROVE  /\ decision \in Seq(Validated) /\ Len(decision) \in 1..3
         /\ \A i \in 2..Len(decision) : decision[i].type # "ANSWER_SUBMITTED"
         /\ decision[1].type = "GRADING_FAILED" => Len(decision) = 1
<1> DEFINE Fits(d) == /\ d \in Seq(Validated) /\ Len(d) \in 1..3
                      /\ \A i \in 2..Len(d) : d[i].type # "ANSWER_SUBMITTED"
                      /\ d[1].type = "GRADING_FAILED" => Len(d) = 1
           Movers == {"PREPARATION_STARTED", "FOLLOW_UP_STARTED", "FOLLOW_UP_ABANDONED",
                      "SELECTION_STARTED", "REPORTING_STARTED", "SESSION_COMPLETED"}
<1>1. /\ \A type \in Movers : Plain(type) \in Validated /\ Plain(type).type = type
      /\ \A q \in Items : Asked(q) \in Validated /\ Asked(q).type = "QUESTION_ASKED"
      /\ FollowUpAsked \in Validated /\ FollowUpAsked.type = "QUESTION_ASKED"
      /\ \A t \in Turns : /\ Submitted(t) \in Validated /\ GradingFailed(t) \in Validated
                          /\ Graded(t, FALSE, FALSE) \in Validated
                          /\ Graded(t, FALSE, FALSE).type = "ANSWER_GRADED"
  <2>1. ASSUME NEW type \in Movers
        PROVE  Plain(type) \in Validated /\ Plain(type).type = type
    <3>1. type \in EventType \ {"QUESTION_ASKED", "ANSWER_SUBMITTED",
                                "ANSWER_GRADED", "GRADING_FAILED"}
      BY EventTypes
    <3>2. Plain(type) \in Validated
      BY <3>1 DEF Validated
    <3>3. Plain(type).type = type
      BY DEF Plain
    <3> QED BY <3>2, <3>3
  <2>2. ASSUME NEW q \in Items
        PROVE  Asked(q) \in Validated /\ Asked(q).type = "QUESTION_ASKED"
    <3>1. Asked(q) \in Validated
      BY DEF Validated
    <3>2. Asked(q).type = "QUESTION_ASKED"
      BY DEF Asked, Plain
    <3> QED BY <3>1, <3>2
  <2>3. FollowUpAsked \in Validated /\ FollowUpAsked.type = "QUESTION_ASKED"
    <3>1. FollowUpAsked \in Validated
      BY DEF Validated
    <3>2. FollowUpAsked.type = "QUESTION_ASKED"
      BY DEF FollowUpAsked, Plain
    <3> QED BY <3>1, <3>2
  <2>4. \A t \in Turns : Submitted(t) \in Validated /\ GradingFailed(t) \in Validated
    BY DEF Validated
  <2>5. ASSUME NEW t \in Turns
        PROVE  /\ Graded(t, FALSE, FALSE) \in Validated
               /\ Graded(t, FALSE, FALSE).type = "ANSWER_GRADED"
    <3>1. \A p, m \in BOOLEAN : Graded(t, p, m) \in Validated
      <4> SUFFICES ASSUME NEW p \in BOOLEAN, NEW m \in BOOLEAN
                   PROVE  Graded(t, p, m) \in Validated
        OBVIOUS
      <4>1. Graded(t, p, m) \in {Graded(u, a, b) : u \in Turns, a \in BOOLEAN, b \in BOOLEAN}
        OBVIOUS
      <4> HIDE DEF Movers
      <4> QED BY <4>1 DEF Validated
    <3>2. Graded(t, FALSE, FALSE) \in Validated
      BY <3>1, Zenon
    <3>3. Graded(t, FALSE, FALSE).type = "ANSWER_GRADED"
      BY DEF Graded, Plain
    <3> QED BY <3>2, <3>3
  <2> QED BY <2>1, <2>2, <2>3, <2>4, <2>5
<1>2. \A a \in Validated : Fits(<<a>>)
  OBVIOUS
<1>3. \A a, b \in Validated :
        a.type # "GRADING_FAILED" /\ b.type # "ANSWER_SUBMITTED" => Fits(<<a, b>>)
  OBVIOUS
<1>4. \A d \in Onward : /\ d \in Seq(Validated) /\ Len(d) \in 1..2
                        /\ \A i \in 1..Len(d) : d[i].type # "ANSWER_SUBMITTED"
  <2>1. \A a \in Validated : a.type # "ANSWER_SUBMITTED" =>
          /\ <<a>> \in Seq(Validated) /\ Len(<<a>>) \in 1..2
          /\ \A i \in 1..Len(<<a>>) : <<a>>[i].type # "ANSWER_SUBMITTED"
    OBVIOUS
  <2>2. \A a, b \in Validated :
          a.type # "ANSWER_SUBMITTED" /\ b.type # "ANSWER_SUBMITTED" =>
            /\ <<a, b>> \in Seq(Validated) /\ Len(<<a, b>>) \in 1..2
            /\ \A i \in 1..Len(<<a, b>>) : <<a, b>>[i].type # "ANSWER_SUBMITTED"
    OBVIOUS
  <2> SUFFICES ASSUME NEW d \in Onward
               PROVE  /\ d \in Seq(Validated) /\ Len(d) \in 1..2
                      /\ \A i \in 1..Len(d) : d[i].type # "ANSWER_SUBMITTED"
    OBVIOUS
  <2>3. \/ \E a \in Validated : a.type # "ANSWER_SUBMITTED" /\ d = <<a>>
        \/ \E a, b \in Validated : /\ a.type # "ANSWER_SUBMITTED"
                                   /\ b.type # "ANSWER_SUBMITTED" /\ d = <<a, b>>
    <3>1. CASE d = <<Plain("FOLLOW_UP_STARTED")>> \/ d = <<Plain("REPORTING_STARTED")>>
      BY <1>1, <3>1
    <3>2. CASE d = <<Plain("SELECTION_STARTED"), Plain("REPORTING_STARTED")>>
      BY <1>1, <3>2
    <3>3. CASE \E q \in Items : d = <<Plain("SELECTION_STARTED"), Asked(q)>>
      BY <1>1, <3>3
    <3> QED BY <3>1, <3>2, <3>3 DEF Onward
  <2> QED BY <2>1, <2>2, <2>3
<1>5. ASSUME NEW a \in Validated, a.type = "ANSWER_GRADED", NEW then \in Onward
      PROVE  Fits(<<a>> \o then)
  <2> DEFINE d == <<a>> \o then
  <2>1. <<a>> \in Seq(Validated) /\ Len(<<a>>) = 1 /\ <<a>>[1] = a
    OBVIOUS
  <2>2. /\ d \in Seq(Validated) /\ Len(d) = 1 + Len(then)
        /\ \A i \in 1..(1 + Len(then)) : d[i] = IF i <= 1 THEN <<a>>[i] ELSE then[i - 1]
    BY <1>4, <2>1, ConcatProperties
  <2> HIDE DEF d
  <2>3. d[1] = a
    BY <1>4, <2>1, <2>2
  <2>4. ASSUME NEW i \in 2..Len(d) PROVE d[i].type # "ANSWER_SUBMITTED"
    BY <1>4, <2>2
  <2>5. Fits(d)
    BY <1>4, <1>5, <2>2, <2>3, <2>4
  <2> QED BY <2>5 DEF d
<1> SUFFICES Fits(decision)
  BY DEF Fits
<1> HIDE DEF Fits
<1>6. \/ \E q \in Items : decision = <<Plain("PREPARATION_STARTED"), Asked(q)>>
      \/ \E t \in Turns : decision = <<Submitted(t)>>
      \/ \E t \in Turns : decision = <<GradingFailed(t)>>
      \/ \E t \in Turns, then \in Onward : decision = GradedThen(t, then)
      \/ decision \in {<<FollowUpAsked>>, <<Plain("SESSION_COMPLETED")>>,
                       <<Plain("FOLLOW_UP_ABANDONED"), Plain("REPORTING_STARTED")>>}
      \/ \E q \in Items : decision = <<Plain("FOLLOW_UP_ABANDONED"), Asked(q)>>
  <2> DEFINE A == {<<Plain("PREPARATION_STARTED"), Asked(q)>> : q \in Items}
             B == {<<Submitted(t)>> : t \in Turns}
             C == {<<GradingFailed(t)>> : t \in Turns}
             D == {GradedThen(t, then) : t \in Turns, then \in Onward}
             E == {<<FollowUpAsked>>, <<Plain("SESSION_COMPLETED")>>,
                   <<Plain("FOLLOW_UP_ABANDONED"), Plain("REPORTING_STARTED")>>}
             F == {<<Plain("FOLLOW_UP_ABANDONED"), Asked(q)>> : q \in Items}
  <2>1. decision \in A \cup B \cup C \cup D \cup E \cup F
    BY DEF Decisions
  <2>2. decision \in A => \E q \in Items : decision = <<Plain("PREPARATION_STARTED"), Asked(q)>>
    OBVIOUS
  <2>3. /\ decision \in B => \E t \in Turns : decision = <<Submitted(t)>>
        /\ decision \in C => \E t \in Turns : decision = <<GradingFailed(t)>>
    OBVIOUS
  <2>4. decision \in D => \E t \in Turns, then \in Onward :
                            decision = GradedThen(t, then)
    OBVIOUS
  <2>5. decision \in F => \E q \in Items : decision = <<Plain("FOLLOW_UP_ABANDONED"), Asked(q)>>
    OBVIOUS
  <2> HIDE DEF A, B, C, D, F
  <2> QED BY <2>1, <2>2, <2>3, <2>4, <2>5
<1>7. CASE \E q \in Items : decision = <<Plain("PREPARATION_STARTED"), Asked(q)>>
  BY <1>1, <1>3, <1>7
<1>8. CASE \E t \in Turns : decision = <<Submitted(t)>>
  BY <1>1, <1>2, <1>8
<1>9. CASE \E t \in Turns : decision = <<GradingFailed(t)>>
  BY <1>1, <1>2, <1>9
<1>10. CASE \E t \in Turns, then \in Onward : decision = GradedThen(t, then)
  BY <1>1, <1>5, <1>10 DEF GradedThen
<1>11. CASE decision \in {<<FollowUpAsked>>, <<Plain("SESSION_COMPLETED")>>,
                          <<Plain("FOLLOW_UP_ABANDONED"), Plain("REPORTING_STARTED")>>}
  BY <1>1, <1>2, <1>3, <1>11
<1>12. CASE \E q \in Items : decision = <<Plain("FOLLOW_UP_ABANDONED"), Asked(q)>>
  BY <1>1, <1>3, <1>12
<1> QED BY <1>6, <1>7, <1>8, <1>9, <1>10, <1>11, <1>12, Zenon

(* Through follows the decision one event at a time.                       *)
Followed(f, d) == f = [i \in 0..Len(d) |-> IF i = 0 THEN {Current}
                                           ELSE StageAll(f[i - 1], d[i])]

(* A decision has at most three events: each stages on the one before.     *)
LEMMA ThroughSteps ==
  ASSUME NEW d, Len(d) \in 1..3
  PROVE  /\ Through(d)[0] = {Current}
         /\ \A i \in 1..Len(d) : Through(d)[i] = StageAll(Through(d)[i - 1], d[i])
<1> DEFINE n == Len(d)
           first == StageAll({Current}, d[1])
           second == StageAll(first, d[2])
           third == StageAll(second, d[3])
           g == [i \in 0..n |-> IF i = 0 THEN {Current} ELSE IF i = 1 THEN first
                                ELSE IF i = 2 THEN second ELSE third]
<1>1. Through(d) = CHOOSE f : Followed(f, d)
  BY DEF Through, Followed
<1>2. Followed(g, d)
  <2> HIDE DEF first, second, third
  <2>1. ASSUME NEW i \in 0..n
        PROVE  g[i] = IF i = 0 THEN {Current} ELSE StageAll(g[i - 1], d[i])
    <3>1. i = 0 \/ i = 1 \/ i = 2 \/ i = 3
      OBVIOUS
    <3>2. CASE i = 0
      BY <3>2
    <3>3. CASE i = 1
      BY <3>3 DEF first
    <3>4. CASE i = 2
      BY <3>4 DEF second
    <3>5. CASE i = 3
      BY <3>5 DEF third
    <3> QED BY <3>1, <3>2, <3>3, <3>4, <3>5
  <2> QED BY <2>1 DEF Followed
<1>3. PICK f : f = Through(d)
  OBVIOUS
<1>4. f = [i \in 0..n |-> IF i = 0 THEN {Current} ELSE StageAll(f[i - 1], d[i])]
  <2>1. Followed(f, d)
    BY <1>1, <1>2, <1>3
  <2> QED BY <2>1 DEF Followed
<1>5. \A i \in 0..n : f[i] = IF i = 0 THEN {Current} ELSE StageAll(f[i - 1], d[i])
  BY <1>4
<1>6. f[0] = {Current} /\ \A i \in 1..n : f[i] = StageAll(f[i - 1], d[i])
  BY <1>5
<1> QED BY <1>3, <1>6

(* An event has at most one outcome.                                       *)
LEMMA OneOutcome ==
  ASSUME NEW s, NEW e
  PROVE  /\ StageAll({s}, e) = Stage(s, e)
         /\ \A x \in Stage(s, e) : Stage(s, e) = {x}
  BY DEF StageAll, Stage

(* Appending one, two or three elements.                                   *)
LEMMA AppendChain ==
  ASSUME NEW S, NEW rows \in Seq(S), NEW k \in 1..3, NEW rest \in [1..k -> S]
  PROVE  /\ k = 1 => rows \o rest = Append(rows, rest[1])
         /\ k = 2 => rows \o rest = Append(Append(rows, rest[1]), rest[2])
         /\ k = 3 => rows \o rest = Append(Append(Append(rows, rest[1]), rest[2]), rest[3])
<1> DEFINE joined == rows \o rest
           one == Append(rows, rest[1])
           two == Append(one, rest[2])
           three == Append(two, rest[3])
           n == Len(rows)
<1>1. n \in Nat /\ rest \in Seq(S) /\ Len(rest) = k
  OBVIOUS
<1>2. /\ joined \in Seq(S) /\ Len(joined) = n + k
      /\ \A i \in 1..(n + k) : joined[i] = IF i <= n THEN rows[i] ELSE rest[i - n]
  BY <1>1, ConcatProperties
<1>3. /\ \A i \in 1..n : joined[i] = rows[i]
      /\ joined[n + 1] = rest[1]
      /\ k >= 2 => joined[n + 2] = rest[2]
      /\ k = 3 => joined[n + 3] = rest[3]
  <2> HIDE DEF joined, n
  <2>1. \A i \in 1..n : joined[i] = rows[i]
    BY <1>1, <1>2
  <2>2. joined[n + 1] = rest[1]
    <3>1. n + 1 \in 1..(n + k) /\ ~(n + 1 <= n) /\ (n + 1) - n = 1
      BY <1>1
    <3> QED BY <1>2, <3>1
  <2>3. ASSUME k >= 2 PROVE joined[n + 2] = rest[2]
    <3>1. n + 2 \in 1..(n + k) /\ ~(n + 2 <= n) /\ (n + 2) - n = 2
      BY <1>1, <2>3
    <3> QED BY <1>2, <3>1
  <2>4. ASSUME k = 3 PROVE joined[n + 3] = rest[3]
    <3>1. n + 3 \in 1..(n + k) /\ ~(n + 3 <= n) /\ (n + 3) - n = 3
      BY <1>1, <2>4
    <3> QED BY <1>2, <3>1
  <2> QED BY <2>1, <2>2, <2>3, <2>4
<1>4. /\ rest[1] \in S
      /\ k >= 2 => rest[2] \in S
      /\ k = 3 => rest[3] \in S
  OBVIOUS
<1>5. /\ one \in Seq(S) /\ Len(one) = n + 1 /\ one[n + 1] = rest[1]
      /\ \A i \in 1..n : one[i] = rows[i]
  BY <1>4, AppendProperties
<1>6. ASSUME k >= 2
      PROVE  /\ two \in Seq(S) /\ Len(two) = n + 2 /\ two[n + 2] = rest[2]
             /\ \A i \in 1..(n + 1) : two[i] = one[i]
  <2> HIDE DEF one, n
  <2>1. /\ two \in Seq(S) /\ Len(two) = Len(one) + 1 /\ two[Len(one) + 1] = rest[2]
        /\ \A i \in 1..Len(one) : two[i] = one[i]
    BY <1>4, <1>5, <1>6, AppendProperties
  <2> QED BY <1>1, <1>5, <2>1
<1>7. ASSUME k = 3
      PROVE  /\ three \in Seq(S) /\ Len(three) = n + 3 /\ three[n + 3] = rest[3]
             /\ \A i \in 1..(n + 2) : three[i] = two[i]
  <2> HIDE DEF two, n
  <2>1. /\ three \in Seq(S) /\ Len(three) = Len(two) + 1 /\ three[Len(two) + 1] = rest[3]
        /\ \A i \in 1..Len(two) : three[i] = two[i]
    BY <1>4, <1>6, <1>7, AppendProperties
  <2> QED BY <1>1, <1>6, <1>7, <2>1
<1> HIDE DEF joined, one, two, three, n
<1>8. ASSUME k = 1 PROVE joined = one
  <2>1. \A i \in 1..(n + 1) : i \in 1..n \/ i = n + 1
    BY <1>1
  <2>2. \A i \in 1..(n + 1) : joined[i] = one[i]
    BY <1>3, <1>5, <2>1
  <2> QED BY <1>2, <1>5, <1>8, <2>2, SeqEqual
<1>9. ASSUME k = 2 PROVE joined = two
  <2>1. \A i \in 1..(n + 2) : \/ i \in 1..n /\ i \in 1..(n + 1)
                             \/ i = n + 1 \/ i = n + 2
    BY <1>1
  <2>2. n + 1 \in 1..(n + 1)
    BY <1>1
  <2>3. \A i \in 1..(n + 2) : joined[i] = two[i]
    BY <1>3, <1>5, <1>6, <1>9, <2>1, <2>2
  <2> QED BY <1>2, <1>6, <1>9, <2>3, SeqEqual
<1>10. ASSUME k = 3 PROVE joined = three
  <2>1. \A i \in 1..(n + 3) : \/ i \in 1..n /\ i \in 1..(n + 1) /\ i \in 1..(n + 2)
                             \/ i = n + 1 \/ i = n + 2 \/ i = n + 3
    BY <1>1
  <2>2. n + 1 \in 1..(n + 1) /\ n + 1 \in 1..(n + 2) /\ n + 2 \in 1..(n + 2)
    BY <1>1
  <2>3. \A i \in 1..(n + 3) : joined[i] = three[i]
    BY <1>3, <1>5, <1>6, <1>7, <1>10, <2>1, <2>2
  <2> QED BY <1>2, <1>7, <1>10, <2>3, SeqEqual
<1> QED BY <1>8, <1>9, <1>10 DEF joined, one, two, three

(* A chain of up to three legal events leaves the log legal.               *)
Rows(d, f) == [i \in 1..Len(d) |-> [event |-> d[i], state |-> f[i]]]

(* The events d are staged one after another on rows, through states f;    *)
(* only the first may submit an answer, and it is not one of rows.         *)
Chain(rows, d, f) ==
  /\ d \in Seq(Validated) /\ Len(d) \in 1..3
  /\ f[0] = rows[Len(rows)].state
  /\ \A i \in 1..Len(d) : f[i] \in Stage(f[i - 1], d[i])
  /\ d[1].type = "ANSWER_SUBMITTED" => \A i \in 1..Len(rows) : rows[i].event # d[1]
  /\ \A i \in 2..Len(d) : d[i].type # "ANSWER_SUBMITTED"

(* What the longer log then is.                                            *)
Extended(rows, d, f) ==
  LET longer == rows \o Rows(d, f)
  IN  /\ Legal(longer) /\ Len(longer) = Len(rows) + Len(d)
      /\ \A i \in 1..Len(rows) : longer[i] = rows[i]
      /\ longer[Len(longer)] = [event |-> d[Len(d)], state |-> f[Len(d)]]

LEMMA LegalExtend ==
  ASSUME NEW rows, Legal(rows), NEW d, NEW f, Chain(rows, d, f)
  PROVE  Extended(rows, d, f)
<1> DEFINE longer == rows \o Rows(d, f)
<1> SUFFICES /\ Legal(longer) /\ Len(longer) = Len(rows) + Len(d)
             /\ \A i \in 1..Len(rows) : longer[i] = rows[i]
             /\ longer[Len(longer)] = [event |-> d[Len(d)], state |-> f[Len(d)]]
  BY DEF Extended
<1> DEFINE k == Len(d)
           row(i) == [event |-> d[i], state |-> f[i]]
           rest == [i \in 1..k |-> row(i)]
           one == Append(rows, row(1))
           two == Append(one, row(2))
           three == Append(two, row(3))
<1> HIDE DEF k, row, rest, one, two, three, longer
<1>1. rows \in Seq(Row) /\ rows # <<>> /\ Len(rows) \in Nat \ {0} /\ k \in 1..3
  BY DEF Legal, k, Chain
<1>0. /\ f[1] \in Stage(f[0], d[1])
      /\ k >= 2 => f[2] \in Stage(f[1], d[2]) /\ d[2].type # "ANSWER_SUBMITTED"
      /\ k = 3 => f[3] \in Stage(f[2], d[3]) /\ d[3].type # "ANSWER_SUBMITTED"
  <2>1. /\ 1 \in 1..k /\ 1 - 1 = 0 /\ 2 - 1 = 1 /\ 3 - 1 = 2
        /\ k >= 2 => 2 \in 1..k /\ 2 \in 2..k
        /\ k = 3 => 3 \in 1..k /\ 3 \in 2..k
    BY <1>1
  <2>2. /\ \A i \in 1..k : f[i] \in Stage(f[i - 1], d[i])
        /\ \A i \in 2..k : d[i].type # "ANSWER_SUBMITTED"
    BY DEF k, Chain
  <2> QED BY <2>1, <2>2
<1>2. \A i \in 1..k : d[i] \in Validated /\ d[i] \in Event
  BY <1>1, ValidatedEvents, ElementOfSeq DEF k, Chain
<1>3. \A i \in 0..k : f[i] \in SessionState
  <2>1. f[0] \in SessionState
    <3>1. rows[Len(rows)] \in Row
      BY <1>1, ElementOfSeq
    <3> QED BY <3>1 DEF Row, Chain
  <2>2. f[1] \in SessionState
    <3>1. d[1] \in Event
      BY <1>1, <1>2
    <3> QED BY <1>0, <2>1, <3>1, StageType
  <2>3. ASSUME k >= 2 PROVE f[2] \in SessionState
    <3>1. d[2] \in Event
      BY <1>1, <1>2, <2>3
    <3> QED BY <1>0, <2>2, <2>3, <3>1, StageType
  <2>4. ASSUME k = 3 PROVE f[3] \in SessionState
    <3>1. d[3] \in Event /\ k >= 2
      BY <1>1, <1>2, <2>4
    <3> QED BY <1>0, <2>3, <2>4, <3>1, StageType
  <2>5. \A i \in 0..k : i = 0 \/ i = 1 \/ (i = 2 /\ k >= 2) \/ (i = 3 /\ k = 3)
    BY <1>1
  <2> QED BY <2>1, <2>2, <2>3, <2>4, <2>5
<1>4. \A i \in 1..k : row(i) \in Row /\ row(i).event = d[i] /\ row(i).state = f[i]
  BY <1>1, <1>2, <1>3 DEF Row, row
<1>5. rest \in [1..k -> Row] /\ \A i \in 1..k : rest[i] = row(i)
  BY <1>4 DEF rest
<1>6. longer = rows \o rest
  BY DEF row, rest, k, Rows, longer
<1>7. /\ k = 1 => longer = one
      /\ k = 2 => longer = two
      /\ k = 3 => longer = three
  <2>1. /\ k = 1 => longer = Append(rows, rest[1])
        /\ k = 2 => longer = Append(Append(rows, rest[1]), rest[2])
        /\ k = 3 => longer = Append(Append(Append(rows, rest[1]), rest[2]), rest[3])
    <3>1. /\ k = 1 => rows \o rest = Append(rows, rest[1])
          /\ k = 2 => rows \o rest = Append(Append(rows, rest[1]), rest[2])
          /\ k = 3 => rows \o rest = Append(Append(Append(rows, rest[1]), rest[2]), rest[3])
      BY <1>1, <1>5, AppendChain
    <3> QED BY <1>6, <3>1
  <2>2. /\ rest[1] = row(1)
        /\ k = 2 => rest[2] = row(2)
        /\ k = 3 => rest[2] = row(2) /\ rest[3] = row(3)
    BY <1>1, <1>5
  <2> QED BY <2>1, <2>2 DEF one, two, three
<1>9. /\ Legal(one) /\ one \in Seq(Row) /\ Len(one) = Len(rows) + 1
      /\ one[Len(one)] = row(1)
      /\ \A i \in 1..Len(rows) : one[i] = rows[i]
  <2>1. d[1] \in Validated /\ f[1] \in Stage(rows[Len(rows)].state, d[1])
    BY <1>0, <1>1, <1>2 DEF Chain
  <2>2. one = Append(rows, [event |-> d[1], state |-> f[1]])
    BY DEF row, one
  <2>3. Legal(one)
    BY <2>1, <2>2, LegalAppend DEF Chain
  <2>4. row(1) \in Row
    BY <1>1, <1>4
  <2> QED BY <1>1, <2>3, <2>4, AppendProperties DEF one
<1>10. ASSUME k >= 2
       PROVE  /\ Legal(two) /\ two \in Seq(Row) /\ Len(two) = Len(rows) + 2
              /\ two[Len(two)] = row(2)
              /\ \A i \in 1..(Len(rows) + 1) : two[i] = one[i]
  <2>1. d[2] \in Validated /\ d[2].type # "ANSWER_SUBMITTED"
    BY <1>0, <1>1, <1>2, <1>10
  <2>2. f[2] \in Stage(one[Len(one)].state, d[2])
    BY <1>0, <1>1, <1>4, <1>9, <1>10
  <2>3. two = Append(one, [event |-> d[2], state |-> f[2]])
    BY DEF row, two
  <2>4. Legal(two)
    BY <1>9, <2>1, <2>2, <2>3, LegalAppend
  <2>5. row(2) \in Row
    <3>1. 2 \in 1..k
      BY <1>1, <1>10
    <3> QED BY <1>4, <3>1
  <2> QED BY <1>1, <1>9, <2>4, <2>5, AppendProperties DEF two
<1>11. ASSUME k = 3
       PROVE  /\ Legal(three) /\ three \in Seq(Row) /\ Len(three) = Len(rows) + 3
              /\ three[Len(three)] = row(3)
              /\ \A i \in 1..(Len(rows) + 2) : three[i] = two[i]
  <2>1. d[3] \in Validated /\ d[3].type # "ANSWER_SUBMITTED"
    BY <1>0, <1>1, <1>2, <1>11
  <2>2. f[3] \in Stage(two[Len(two)].state, d[3])
    BY <1>0, <1>1, <1>4, <1>10, <1>11
  <2>3. three = Append(two, [event |-> d[3], state |-> f[3]])
    BY DEF row, three
  <2>4. Legal(three)
    <3>1. Legal(two)
      BY <1>10, <1>11
    <3> QED BY <2>1, <2>2, <2>3, <3>1, LegalAppend
  <2>5. row(3) \in Row
    BY <1>1, <1>4, <1>11
  <2> QED BY <1>1, <1>10, <1>11, <2>4, <2>5, AppendProperties DEF three
<1>12. CASE k = 1
  <2>1. longer = one
    BY <1>7, <1>12
  <2> QED BY <1>1, <1>9, <1>12, <2>1 DEF row, k
<1>13. CASE k = 2
  <2>1. \A i \in 1..Len(rows) : two[i] = rows[i]
    BY <1>1, <1>9, <1>10, <1>13
  <2>2. longer = two
    BY <1>7, <1>13
  <2>3. Legal(longer) /\ Len(longer) = Len(rows) + 2 /\ longer[Len(longer)] = row(2)
    <3>1. k >= 2
      BY <1>13
    <3> QED BY <1>10, <2>2, <3>1
  <2>4. row(2) = [event |-> d[Len(d)], state |-> f[Len(d)]] /\ Len(d) = 2
    BY <1>13 DEF row, k
  <2>5. \A i \in 1..Len(rows) : longer[i] = rows[i]
    BY <2>1, <2>2
  <2> QED BY <2>3, <2>4, <2>5
<1>14. CASE k = 3
  <2>1. \A i \in 1..Len(rows) : three[i] = rows[i]
    BY <1>1, <1>9, <1>10, <1>11, <1>14
  <2>2. longer = three
    BY <1>7, <1>14
  <2>3. Legal(longer) /\ Len(longer) = Len(rows) + 3 /\ longer[Len(longer)] = row(3)
    BY <1>11, <1>14, <2>2
  <2>4. row(3) = [event |-> d[Len(d)], state |-> f[Len(d)]] /\ Len(d) = 3
    BY <1>14 DEF row, k
  <2>5. \A i \in 1..Len(rows) : longer[i] = rows[i]
    BY <2>1, <2>2
  <2> QED BY <2>3, <2>4, <2>5
<1> QED BY <1>1, <1>12, <1>13, <1>14

(* The rows a decision adds.                                               *)
Added(decision) == [i \in 1..Len(decision) |->
                      [event |-> decision[i],
                       state |-> CHOOSE s \in Through(decision)[i] : TRUE]]

(* A decision that is committed is a chain of legal events.                *)
LEMMA DecisionIsChain ==
  ASSUME Legal(log), NEW decision \in Decisions, TurnIsNew(decision[1]),
         Through(decision)[Len(decision)] # {}
  PROVE  \E f : Chain(log, decision, f) /\ Added(decision) = Rows(decision, f)
<1> DEFINE n == Len(decision)
           T == Through(decision)
           reached == [i \in 0..n |-> CHOOSE s \in T[i] : TRUE]
<1>1. /\ decision \in Seq(Validated) /\ n \in 1..3
      /\ \A i \in 2..n : decision[i].type # "ANSWER_SUBMITTED"
      /\ decision[1].type = "GRADING_FAILED" => n = 1
  BY DecisionShape
<1>2. /\ T[0] = {Current}
      /\ \A i \in 1..n : T[i] = StageAll(T[i - 1], decision[i])
  BY <1>1, ThroughSteps
<1>3. T[n] # {}
  OBVIOUS
<1> HIDE DEF T, n
<1>4. \A i \in 1..n : T[i] # {} => T[i - 1] # {}
  <2> SUFFICES ASSUME NEW i \in 1..n, T[i - 1] = {} PROVE T[i] = {}
    OBVIOUS
  <2>1. T[i] = StageAll(T[i - 1], decision[i])
    BY <1>2
  <2>2. StageAll({}, decision[i]) = {}
    BY DEF StageAll
  <2> QED BY <2>1, <2>2
<1>5. \A i \in 0..n : T[i] # {}
  <2>1. n = 1 \/ n = 2 \/ n = 3
    BY <1>1
  <2>2. T[n - 1] # {}
    BY <1>1, <1>3, <1>4
  <2>3. n >= 2 => T[n - 2] # {}
    <3>1. ASSUME n >= 2 PROVE n - 1 \in 1..n /\ (n - 1) - 1 = n - 2
      BY <1>1, <3>1
    <3> QED BY <1>4, <2>2, <3>1
  <2>4. T[0] # {}
    BY <1>2
  <2>5. \A i \in 0..n : i = 0 \/ i = n \/ i = n - 1 \/ (n >= 2 /\ i = n - 2)
    BY <2>1
  <2> QED BY <1>3, <2>2, <2>3, <2>4, <2>5
<1>6. \A i \in 0..n : T[i] = {reached[i]}
  <2> DEFINE P(i) == T[i] = {reached[i]}
  <2>1. P(0)
    <3>1. reached[0] = CHOOSE s \in T[0] : TRUE
      BY <1>1
    <3> QED BY <1>2, <3>1
  <2>2. ASSUME NEW i \in 1..n, P(i - 1) PROVE P(i)
    <3>1. T[i] = StageAll({reached[i - 1]}, decision[i])
      BY <1>2, <2>2
    <3>2. T[i] = Stage(reached[i - 1], decision[i])
      BY <3>1, OneOutcome
    <3>3. T[i] # {} /\ i \in 0..n
      BY <1>1, <1>5
    <3>4. reached[i] \in T[i]
      BY <3>3
    <3>5. \A x \in Stage(reached[i - 1], decision[i]) : Stage(reached[i - 1], decision[i]) = {x}
      BY OneOutcome
    <3> QED BY <3>2, <3>4, <3>5
  <2> HIDE DEF P
  <2>3. P(1)
    <3>1. 1 \in 1..n /\ 1 - 1 = 0
      BY <1>1
    <3> QED BY <2>1, <2>2, <3>1
  <2>4. ASSUME n >= 2 PROVE P(2)
    <3>1. 2 \in 1..n /\ 2 - 1 = 1
      BY <1>1, <2>4
    <3> QED BY <2>2, <2>3, <3>1
  <2>5. ASSUME n = 3 PROVE P(3)
    <3>1. 3 \in 1..n /\ 3 - 1 = 2 /\ n >= 2
      BY <1>1, <2>5
    <3> QED BY <2>2, <2>4, <3>1
  <2>6. \A i \in 0..n : i = 0 \/ i = 1 \/ (i = 2 /\ n >= 2) \/ (i = 3 /\ n = 3)
    BY <1>1
  <2>7. \A i \in 0..n : P(i)
    BY <2>1, <2>3, <2>4, <2>5, <2>6
  <2> QED BY <2>7 DEF P
<1>7. \A i \in 1..n : reached[i] = CHOOSE s \in T[i] : TRUE
  BY <1>1
<1> HIDE DEF reached
<1>8. reached[0] = log[Len(log)].state
  <2>1. Current = log[Len(log)].state
    <3>1. Len(log) \in Nat /\ (Len(log) - 1) + 1 = Len(log)
      BY DEF Legal
    <3> QED BY <3>1 DEF Current, StateAt, HeadSeq
  <2>2. 0 \in 0..n
    BY <1>1
  <2> QED BY <1>2, <1>6, <2>1, <2>2
<1>9. \A i \in 1..n : reached[i] \in Stage(reached[i - 1], decision[i])
  <2> SUFFICES ASSUME NEW i \in 1..n PROVE reached[i] \in Stage(reached[i - 1], decision[i])
    OBVIOUS
  <2>1. i \in 0..n /\ i - 1 \in 0..n
    BY <1>1
  <2>2. T[i] = {reached[i]} /\ T[i - 1] = {reached[i - 1]} /\ T[i] = StageAll(T[i - 1], decision[i])
    BY <1>2, <1>6, <2>1
  <2>3. StageAll({reached[i - 1]}, decision[i]) = Stage(reached[i - 1], decision[i])
    BY OneOutcome
  <2> QED BY <2>2, <2>3
<1>10. Added(decision) = Rows(decision, reached)
  <2>1. [i \in 1..n |-> [event |-> decision[i], state |-> CHOOSE s \in T[i] : TRUE]]
          = [i \in 1..n |-> [event |-> decision[i], state |-> reached[i]]]
    BY <1>7
  <2> QED BY <2>1 DEF T, n, Added, Rows
<1>11. Chain(log, decision, reached)
  <2>1. /\ \A i \in 1..Len(decision) : reached[i] \in Stage(reached[i - 1], decision[i])
        /\ \A i \in 2..Len(decision) : decision[i].type # "ANSWER_SUBMITTED"
        /\ decision \in Seq(Validated) /\ Len(decision) \in 1..3
    BY <1>1, <1>9 DEF n
  <2>2. decision[1].type = "ANSWER_SUBMITTED" =>
          \A i \in 1..Len(log) : log[i].event # decision[1]
    BY DEF TurnIsNew
  <2> QED BY <1>8, <2>1, <2>2 DEF Chain
<1> QED BY <1>10, <1>11

(* A log that was legal stays so, keeps what it had, and a failure leaves  *)
(* the session where it was, with that failure as its last event.          *)
LEMMA DecisionCommitted ==
  ASSUME Legal(log), NEW decision \in Decisions, TurnIsNew(decision[1]),
         Through(decision)[Len(decision)] # {},
         NEW grown, grown = log \o Added(decision)
  PROVE  /\ Legal(grown) /\ Len(grown) > Len(log)
         /\ \A i \in 1..Len(log) : grown[i] = log[i]
         /\ decision[1].type = "GRADING_FAILED" =>
              LET last == grown[Len(grown)]
              IN  /\ last.event = GradingFailed(last.state.current_turn_id)
                  /\ last.state.state = "GRADING" /\ ~last.state.current_graded
<1>1. PICK f : Chain(log, decision, f) /\ Added(decision) = Rows(decision, f)
  BY DecisionIsChain
<1>2. grown = log \o Rows(decision, f)
  BY <1>1
<1>3. /\ Legal(grown) /\ Len(grown) = Len(log) + Len(decision)
      /\ \A i \in 1..Len(log) : grown[i] = log[i]
      /\ grown[Len(grown)] = [event |-> decision[Len(decision)], state |-> f[Len(decision)]]
  <2>1. Extended(log, decision, f)
    BY <1>1, LegalExtend
  <2> QED BY <1>2, <2>1 DEF Extended
<1>4. Len(log) \in Nat /\ Len(decision) \in 1..3
  BY <1>1 DEF Legal, Chain
<1>5. ASSUME decision[1].type = "GRADING_FAILED"
      PROVE  LET last == grown[Len(grown)]
             IN  /\ last.event = GradingFailed(last.state.current_turn_id)
                 /\ last.state.state = "GRADING" /\ ~last.state.current_graded
  <2>1. Len(decision) = 1
    BY <1>5, DecisionShape
  <2>2. PICK e, s : e = decision[1] /\ s = f[0]
    OBVIOUS
  <2>3. e \in Validated /\ f[1] \in Stage(s, e)
    <3>1. 1 \in 1..Len(decision) /\ 1 - 1 = 0
      BY <2>1
    <3> QED BY <1>1, <2>2, <3>1, ElementOfSeq DEF Chain
  <2>4. s \in SessionState
    <3>1. log[Len(log)] \in Row
      BY <1>4, ElementOfSeq DEF Legal
    <3> QED BY <1>1, <2>2, <3>1 DEF Row, Chain
  <2>5. e.type = "GRADING_FAILED" /\ e.type \in OtherType
    BY <1>5, <2>2 DEF OtherType
  <2>6. /\ f[1] = [s EXCEPT !.state = Transitions[e.type].to]
        /\ s.state \in Transitions[e.type].from
        /\ ~s.current_graded /\ e = GradingFailed(s.current_turn_id)
    BY <2>3, <2>4, <2>5, OtherEffect
  <2>7. s.state = "GRADING" /\ Transitions[e.type].to = "GRADING"
    BY <2>5, <2>6, OtherMoves
  <2>8. f[1] = s
    BY <2>4, <2>6, <2>7 DEF SessionState
  <2>9. grown[Len(grown)] = [event |-> e, state |-> s]
    BY <1>3, <2>1, <2>2, <2>8
  <2>10. grown[Len(grown)].event = e /\ grown[Len(grown)].state = s
    BY <2>9
  <2> QED BY <2>6, <2>7, <2>10
<1> QED BY <1>3, <1>4, <1>5
-----------------------------------------------------------------------------
(***************************************************************************)
(* The invariant, action by action.                                        *)
(***************************************************************************)
(* What a legal log holds at each seq.                                     *)
LEMMA LogFacts ==
  ASSUME Legal(log)
  PROVE  /\ HeadSeq \in Nat /\ Len(log) = HeadSeq + 1
         /\ Current = log[Len(log)].state /\ Current = StateAt(HeadSeq)
         /\ \A seq \in 0..HeadSeq : /\ seq + 1 \in 1..Len(log)
                                    /\ EventAt(seq) \in Validated /\ EventAt(seq) \in Event
                                    /\ StateAt(seq) \in SessionState
<1>1. log \in Seq(Row) /\ Len(log) \in Nat \ {0}
  BY DEF Legal
<1>2. HeadSeq \in Nat /\ Len(log) = HeadSeq + 1
  BY <1>1 DEF HeadSeq
<1>3. Current = log[Len(log)].state /\ Current = StateAt(HeadSeq)
  BY <1>2 DEF Current, StateAt
<1>4. ASSUME NEW seq \in 0..HeadSeq
      PROVE  /\ seq + 1 \in 1..Len(log)
             /\ EventAt(seq) \in Validated /\ EventAt(seq) \in Event
             /\ StateAt(seq) \in SessionState
  <2>1. seq + 1 \in 1..Len(log)
    BY <1>2
  <2>2. log[seq + 1] \in Row
    BY <1>1, <2>1, ElementOfSeq
  <2>3. log[seq + 1].event \in Validated
    BY <2>1 DEF Legal
  <2> QED BY <2>1, <2>2, <2>3, ValidatedEvents DEF Row, EventAt, StateAt
<1> QED BY <1>2, <1>3, <1>4

(* A snapshot is a view, and shows the state it is taken of.               *)
LEMMA SnapshotMatches ==
  ASSUME NEW s \in SessionState, NEW seq \in Nat, NEW v, v = Snapshot(s, seq)
  PROVE  /\ v \in View /\ v.seq = seq /\ v.state = s.state /\ Matches(v, s)
         /\ v.review # "failed"
<1>1. QuestionOf(s) \in Question
  BY DEF QuestionOf, Question, NoQuestion, FollowUpQuestion, SessionState
<1>2. /\ v.seq = seq /\ v.state = s.state /\ v.review # "failed"
      /\ v.state = "GRADING" => v.review # "none"
  BY DEF Snapshot
<1>3. v \in View
  <2>1. /\ s.state \in InterviewState \cup {EMPTY} /\ s.current_turn_id \in Turns \cup {NoTurn}
        /\ Len(s.asked_question_ids) \in Nat /\ s.follow_ups_asked \in Nat
    BY DEF SessionState
  <2>2. /\ (IF s.state = "ASKING" THEN seq ELSE -1) \in Nat \cup {-1}
        /\ (IF s.state = "GRADING" THEN s.current_turn_id ELSE NoTurn) \in Turns \cup {NoTurn}
        /\ (IF s.state = "GRADING" THEN "pending" ELSE "none") \in Review
        /\ seq \in Nat \cup {-1}
    BY <2>1 DEF Review
  <2> QED BY <1>1, <2>1, <2>2 DEF Snapshot, View
<1>4. Matches(v, s)
  BY <1>2 DEF Matches
<1> QED BY <1>2, <1>3, <1>4

(* The snapshot the server answers with shows the end of the log.          *)
LEMMA SnapshotShows ==
  ASSUME Legal(log), NEW v, v = Snapshot(Current, HeadSeq)
  PROVE  /\ v \in View /\ Shows(v, log) /\ v.seq = HeadSeq
         /\ v.state = Current.state /\ v.review # "failed"
<1>1. HeadSeq \in Nat /\ Current \in SessionState
  BY LogFacts
<1>2. /\ v \in View /\ v.seq = HeadSeq /\ v.state = Current.state /\ Matches(v, Current)
      /\ v.review # "failed"
  BY <1>1, SnapshotMatches
<1>3. Current = log[v.seq + 1].state /\ v.seq \in 0..(Len(log) - 1)
  BY <1>1, <1>2, LogFacts
<1> QED BY <1>2, <1>3 DEF Shows

(* A stream that is closed or about to be opened has nothing on it.        *)
LEMMA NothingOnTheWire ==
  ASSUME NEW s, s \in {Closed, Waiting}
  PROVE  /\ s \in Stream /\ s.wire = <<>> /\ s.at = -1 /\ s.after = -1
         /\ s.status # "open" /\ (s.status # "closed" => s = Waiting)
<1>1. Waiting = [status |-> "waiting", after |-> -1, at |-> -1, wire |-> <<>>]
  BY DEF Waiting, Closed
<1>2. <<>> \in Seq(Message)
  OBVIOUS
<1>3. CASE s = Closed
  BY <1>2, <1>3 DEF Closed, Stream
<1>4. CASE s = Waiting
  BY <1>1, <1>2, <1>4 DEF Stream
<1> QED BY <1>3, <1>4

(* The stream's part of the invariant when the stream starts over.         *)
LEMMA StreamRestarts ==
  ASSUME TypeOK', stream' \in {Closed, Waiting}, stream' = Waiting => load' = "ready"
  PROVE  StreamFollows'
<1>1. /\ stream'.wire = <<>> /\ stream'.at = -1 /\ stream'.after = -1
      /\ stream'.status # "open" /\ (stream'.status # "closed" => stream' = Waiting)
  BY NothingOnTheWire
<1>2. view'.seq \in Nat \cup {-1} /\ Len(log') \in Nat
  BY DEF TypeOK, View
<1>3. -1 <= view'.seq /\ -1 <= Len(log') - 1
  BY <1>2
<1>4. \A i \in 1..Len(stream'.wire) : FALSE
  BY <1>1
<1> QED BY <1>1, <1>3, <1>4 DEF StreamFollows, HeadSeq

(* Only a page that is ready gets a stream.                                *)
LEMMA StreamForPage ==
  ASSUME NEW page, NEW v
  PROVE  /\ StreamFor(page, v) \in {Closed, Waiting}
         /\ StreamFor(page, v) = Waiting => page = "ready"
<1>1. Closed # Waiting
  BY DEF Closed, Waiting
<1> QED BY <1>1 DEF StreamFor

(* A view that is shown is one of a seq of the log.                        *)
LEMMA ShownSeq ==
  ASSUME Legal(log), NEW v, Shows(v, log)
  PROVE  v.seq \in 0..HeadSeq /\ v.seq \in Nat /\ Matches(v, StateAt(v.seq))
<1>1. v.seq \in 0..HeadSeq
  BY DEF Shows, HeadSeq
<1> QED BY <1>1, LogFacts DEF Shows, StateAt

(* A session begins with its first event, and a screen that has none yet.  *)
LEMMA InitScreen == Init => ScreenInv
<1> SUFFICES ASSUME Init PROVE ScreenInv
  OBVIOUS
<1> DEFINE e == Plain("SESSION_CREATED")
           s == Apply(Initial, e)
<1>1. /\ log = <<Created>> /\ turn_failed = FALSE /\ load = "loading" /\ view = NoView
      /\ request = Reading /\ stream = Closed
      /\ faults = [drops |-> 0, reloads |-> 0, lost |-> 0]
  BY DEF Init
<1>2. e \in Validated /\ e \in Event /\ e.type = "SESSION_CREATED"
  <2>1. "SESSION_CREATED" \in EventType \ {"QUESTION_ASKED", "ANSWER_SUBMITTED",
                                           "ANSWER_GRADED", "GRADING_FAILED"}
    BY EventTypes
  <2>2. e \in Validated
    BY <2>1 DEF Validated
  <2>3. e.type = "SESSION_CREATED"
    BY DEF Plain
  <2> QED BY <2>2, <2>3, ValidatedEvents
<1>3. s \in SessionState /\ s.state = "CREATED" /\ s.current_turn_id = NoTurn
  <2>1. s = [Initial EXCEPT !.state = "CREATED"]
    <3>1. Transitions["SESSION_CREATED"].to = "CREATED"
      BY OtherMoves
    <3> QED BY <1>2, <3>1 DEF Apply
  <2>2. Initial \in SessionState /\ Initial.current_turn_id = NoTurn
    BY InitialType DEF Initial
  <2>3. "CREATED" \in InterviewState \cup {EMPTY}
    BY DEF InterviewState
  <2> QED BY <2>1, <2>2, <2>3 DEF SessionState
<1>4. Created \in Row /\ Created.event = e /\ Created.state = s
  BY <1>2, <1>3 DEF Created, Row
<1> HIDE DEF e, s
<1>5. Legal(log)
  <2>1. log \in Seq(Row) /\ log # <<>> /\ Len(log) = 1 /\ log[1] = Created
    BY <1>1, <1>4
  <2>2. \A i \in 1..Len(log) : i = 1 /\ log[i] = Created
    BY <2>1
  <2> QED BY <1>2, <1>3, <1>4, <2>1, <2>2 DEF Legal
<1>6. TypeOK
  <2>1. NoView \in View
    BY DEF NoView, View, NoQuestion, Question, Review, EMPTY
  <2>2. Reading \in Request
    BY <2>1 DEF Reading, Request
  <2>3. Closed \in Stream
    BY NothingOnTheWire
  <2> QED BY <1>1, <1>5, <2>1, <2>2, <2>3 DEF TypeOK, Legal
<1>7. FailureIsLast /\ FailuresAreSeen
  BY <1>1 DEF FailureIsLast, FailuresAreSeen
<1>8. ViewsShowTheLog
  <2>1. view.seq = -1 /\ request.status = "session"
    BY <1>1 DEF NoView, Reading
  <2> QED BY <1>1, <2>1 DEF ViewsShowTheLog
<1>9. StreamFollows
  <2>1. stream.wire = <<>> /\ stream.at = -1 /\ stream.after = -1 /\ stream.status = "closed"
    BY <1>1 DEF Closed
  <2>2. view.seq = -1 /\ HeadSeq = 0
    BY <1>1 DEF NoView, HeadSeq
  <2>3. \A i \in 1..Len(stream.wire) : FALSE
    BY <2>1
  <2> QED BY <2>1, <2>2, <2>3 DEF StreamFollows
<1> QED BY <1>5, <1>6, <1>7, <1>8, <1>9 DEF ScreenInv

(* The log grows: what is shown and what is on the wire is of what it had. *)
LEMMA DecideStep ==
  ASSUME ScreenInv, Decide PROVE ScreenInv'
<1>1. PICK decision \in Decisions :
        /\ TurnIsNew(decision[1]) /\ Through(decision)[Len(decision)] # {}
        /\ log' = log \o Added(decision)
        /\ turn_failed' = (decision[1].type = "GRADING_FAILED")
  BY DEF Decide, Added
<1>2. UNCHANGED <<load, view, request, stream, faults>>
  BY DEF Decide
<1>3. TypeOK /\ Legal(log) /\ FailureIsLast /\ ViewsShowTheLog /\ StreamFollows /\ FailuresAreSeen
  BY DEF ScreenInv
<1>4. /\ Legal(log') /\ Len(log') > Len(log)
      /\ \A i \in 1..Len(log) : log'[i] = log[i]
      /\ decision[1].type = "GRADING_FAILED" =>
           LET last == log'[Len(log')]
           IN  /\ last.event = GradingFailed(last.state.current_turn_id)
               /\ last.state.state = "GRADING" /\ ~last.state.current_graded
  BY <1>1, <1>3, DecisionCommitted
<1>5. /\ log \in Seq(Row) /\ log' \in Seq(Row) /\ log' # <<>>
      /\ Len(log) \in Nat /\ Len(log') \in Nat
      /\ HeadSeq \in Nat /\ HeadSeq < HeadSeq' /\ HeadSeq' \in Nat
      /\ Len(log) = HeadSeq + 1 /\ Len(log') = HeadSeq' + 1
      /\ Len(log) <= Len(log')
  BY <1>3, <1>4 DEF Legal, HeadSeq
<1>6. TypeOK'
  <2>1. turn_failed' \in BOOLEAN
    BY <1>1
  <2> QED BY <1>2, <1>3, <1>5, <2>1 DEF TypeOK
<1>7. FailureIsLast'
  <2>1. Current' = log'[Len(log')].state
    BY <1>5 DEF Current, StateAt
  <2> QED BY <1>1, <1>4, <2>1 DEF FailureIsLast
<1>8. \A v : Shows(v, log) => Shows(v, log') /\ v.seq # HeadSeq'
  <2> SUFFICES ASSUME NEW v, Shows(v, log) PROVE Shows(v, log') /\ v.seq # HeadSeq'
    OBVIOUS
  <2>1. v.seq \in 0..HeadSeq
    BY <1>3, ShownSeq
  <2>2. Shows(v, log')
    BY <1>4, <1>5, ShowsLonger
  <2> QED BY <1>5, <2>1, <2>2
<1>9. ViewsShowTheLog'
  BY <1>2, <1>3, <1>8 DEF ViewsShowTheLog
<1>10. FailuresAreSeen'
  <2>1. view'.seq # HeadSeq'
    BY <1>2, <1>3, <1>5, <1>8 DEF ViewsShowTheLog
  <2>2. request'.status = "answered" => request'.snapshot.seq # HeadSeq'
    BY <1>2, <1>3, <1>8 DEF ViewsShowTheLog
  <2> QED BY <2>1, <2>2 DEF FailuresAreSeen
<1>11. StreamFollows'
  <2>1. \A seq \in 0..HeadSeq : MessageAt(seq)' = MessageAt(seq) /\ seq \in 0..HeadSeq'
    <3> SUFFICES ASSUME NEW seq \in 0..HeadSeq
                 PROVE  MessageAt(seq)' = MessageAt(seq) /\ seq \in 0..HeadSeq'
      OBVIOUS
    <3>1. seq + 1 \in 1..Len(log)
      BY <1>5
    <3>2. log'[seq + 1] = log[seq + 1]
      BY <1>4, <3>1
    <3> QED BY <1>5, <3>2 DEF MessageAt, EventAt, StateAt
  <2>2. stream.at <= HeadSeq => stream.at <= HeadSeq'
    <3>1. stream.at \in Nat \cup {-1}
      BY <1>3 DEF TypeOK, Stream
    <3> QED BY <1>5, <3>1
  <2> QED BY <1>2, <1>3, <2>1, <2>2 DEF StreamFollows
<1> QED BY <1>4, <1>6, <1>7, <1>9, <1>10, <1>11 DEF ScreenInv

(* A re-queued turn is one that has not failed.                            *)
LEMMA RequeueStep ==
  ASSUME ScreenInv, Requeue PROVE ScreenInv'
<1>1. turn_failed' = FALSE /\ UNCHANGED <<log, load, view, request, stream, faults>>
  BY DEF Requeue
<1>2. TypeOK'
  BY <1>1 DEF ScreenInv, TypeOK
<1>3. Legal(log)' /\ ViewsShowTheLog'
  BY <1>1 DEF ScreenInv, ViewsShowTheLog
<1>4. StreamFollows'
  BY <1>1 DEF ScreenInv, StreamFollows, HeadSeq, MessageAt, EventAt, StateAt
<1> QED BY <1>1, <1>2, <1>3, <1>4 DEF ScreenInv, FailureIsLast, FailuresAreSeen

(* The page asks for the session.                                          *)
LEMMA ReadSessionStep ==
  ASSUME ScreenInv, ReadSession PROVE ScreenInv'
<1>1. PICK v : v = Snapshot(Current, HeadSeq)
  OBVIOUS
<1>2. /\ request' = [status |-> IF v.state = "GRADING" THEN "turn" ELSE "answered",
                     snapshot |-> v]
      /\ UNCHANGED <<log, turn_failed, load, view, stream, faults>>
  BY <1>1 DEF ReadSession, server
<1>3. TypeOK /\ Legal(log) /\ FailureIsLast /\ ViewsShowTheLog /\ StreamFollows /\ FailuresAreSeen
  BY DEF ScreenInv
<1>4. v \in View /\ Shows(v, log) /\ v.state = Current.state
  BY <1>1, <1>3, SnapshotShows
<1>5. /\ request'.snapshot = v /\ request'.status \in {"turn", "answered"}
      /\ request'.status = "turn" <=> v.state = "GRADING"
  BY <1>2
<1>6. TypeOK'
  <2>1. request' \in Request
    BY <1>2, <1>4 DEF Request
  <2> QED BY <1>2, <1>3, <2>1 DEF TypeOK
<1>7. ViewsShowTheLog'
  BY <1>2, <1>3, <1>4, <1>5 DEF ViewsShowTheLog
<1>8. Legal(log)' /\ FailureIsLast' /\ StreamFollows'
  <2>1. Legal(log)'
    BY <1>2, <1>3
  <2>2. FailureIsLast'
    BY <1>2, <1>3 DEF FailureIsLast, Current, StateAt, HeadSeq
  <2>3. StreamFollows'
    BY <1>2, <1>3 DEF StreamFollows, HeadSeq, MessageAt, EventAt, StateAt
  <2> QED BY <2>1, <2>2, <2>3
<1>9. FailuresAreSeen'
  <2>1. turn_failed => request'.status # "answered"
    BY <1>3, <1>4, <1>5 DEF FailureIsLast
  <2> QED BY <1>2, <1>3, <2>1 DEF FailuresAreSeen, HeadSeq
<1> QED BY <1>6, <1>7, <1>8, <1>9 DEF ScreenInv

(* Before its grade an answer had none: the state a snapshot was taken of  *)
(* is as ungraded as the one the log ends in, if they are about one turn.  *)
LEMMA UngradedBefore ==
  ASSUME Legal(log), FailureIsLast, turn_failed, NEW seq \in 0..HeadSeq,
         StateAt(seq).state = "GRADING",
         StateAt(seq).current_turn_id = Current.current_turn_id
  PROVE  ~StateAt(seq).current_graded
<1>1. /\ HeadSeq \in Nat /\ Len(log) = HeadSeq + 1 /\ Current = log[Len(log)].state
      /\ seq + 1 \in 1..Len(log)
  BY LogFacts
<1>2. ~Current.current_graded
  BY DEF FailureIsLast
<1>3. StateAt(seq) = log[seq + 1].state
  BY DEF StateAt
<1>4. StateAt(seq).current_turn_id # NoTurn
  <2>1. StateAt(seq).current_turn_id \in Turns
    BY <1>1, <1>3 DEF Legal
  <2> QED BY <2>1, NoneIsApart
<1>5. \A i, j \in 1..Len(log) :
        LET s == log[i].state
            t == log[j].state
        IN  i <= j /\ s.current_turn_id = t.current_turn_id /\ s.current_turn_id # NoTurn
              /\ s.current_graded => t.current_graded
  BY DEF Legal
<1>6. Len(log) \in 1..Len(log) /\ seq + 1 <= Len(log)
  BY <1>1
<1>7. /\ log[seq + 1].state.current_turn_id = log[Len(log)].state.current_turn_id
      /\ log[seq + 1].state.current_turn_id # NoTurn
  BY <1>1, <1>3, <1>4
<1>8. log[seq + 1].state.current_graded => log[Len(log)].state.current_graded
  BY <1>1, <1>5, <1>6, <1>7
<1> QED BY <1>1, <1>2, <1>3, <1>8

(* A view with another review shown.                                       *)
LEMMA ViewReviewed ==
  ASSUME NEW v \in View, NEW review \in Review, NEW w, w = [v EXCEPT !.review = review]
  PROVE  /\ w \in View /\ w.seq = v.seq /\ w.state = v.state
         /\ w.question = v.question /\ w.question_seq = v.question_seq
         /\ w.asked = v.asked /\ w.follow_ups = v.follow_ups
         /\ w.turn = v.turn /\ w.review = review
  BY DEF View

(* The page asks whether the review was given up on.                       *)
LEMMA ReadTurnStep ==
  ASSUME ScreenInv, ReadTurn PROVE ScreenInv'
<1> DEFINE v == request.snapshot
           review == ReviewIn(v)
           w == [v EXCEPT !.review = review]
<1>1. /\ request.status = "turn"
      /\ request' = [status |-> "answered", snapshot |-> w]
      /\ UNCHANGED <<log, turn_failed, load, view, stream, faults>>
  BY DEF ReadTurn, server
<1>2. TypeOK /\ Legal(log) /\ FailureIsLast /\ ViewsShowTheLog /\ StreamFollows /\ FailuresAreSeen
  BY DEF ScreenInv
<1>3. v \in View /\ Shows(v, log) /\ v.state = "GRADING"
  BY <1>1, <1>2 DEF ViewsShowTheLog, TypeOK, Request
<1>4. /\ review \in {"pending", "failed"}
      /\ review = "failed" <=> turn_failed /\ Current.current_turn_id = v.turn
  BY DEF ReviewIn
<1>5. v.seq \in 0..HeadSeq /\ Matches(v, StateAt(v.seq))
  BY <1>2, <1>3, ShownSeq
<1>6. v.turn = StateAt(v.seq).current_turn_id /\ StateAt(v.seq).state = "GRADING"
  BY <1>3, <1>5 DEF Matches, Snapshot
<1>7. /\ w \in View /\ w.seq = v.seq /\ w.state = v.state
      /\ w.question = v.question /\ w.question_seq = v.question_seq
      /\ w.asked = v.asked /\ w.follow_ups = v.follow_ups
      /\ w.turn = v.turn /\ w.review = review
  <2>1. review \in Review
    BY <1>4 DEF Review
  <2> HIDE DEF review, v
  <2> QED BY <1>3, <2>1, ViewReviewed
<1> HIDE DEF w, review, v
<1>8. Shows(w, log)
  <2>1. w.review = "failed" => ~StateAt(v.seq).current_graded
    BY <1>2, <1>4, <1>5, <1>6, <1>7, UngradedBefore
  <2>2. Matches(w, StateAt(v.seq))
    BY <1>3, <1>4, <1>5, <1>7, <2>1 DEF Matches, Snapshot
  <2>3. ASSUME w.review = "failed"
        PROVE  \E i \in 1..Len(log) : log[i].event = GradingFailed(w.turn)
    <3>1. log[Len(log)].event = GradingFailed(w.turn)
      BY <1>2, <1>4, <1>7, <2>3 DEF FailureIsLast
    <3>2. Len(log) \in 1..Len(log)
      BY <1>2, LogFacts
    <3> QED BY <3>1, <3>2
  <2>4. w.seq \in 0..(Len(log) - 1) /\ StateAt(v.seq) = log[w.seq + 1].state
    BY <1>5, <1>7 DEF HeadSeq, StateAt
  <2> QED BY <2>2, <2>3, <2>4, <1>7 DEF Shows
<1>9. request'.status = "answered" /\ request'.snapshot = w
  BY <1>1
<1>10. TypeOK'
  <2>1. request' \in Request
    BY <1>1, <1>7 DEF Request
  <2> QED BY <1>1, <1>2, <2>1 DEF TypeOK
<1>11. ViewsShowTheLog'
  BY <1>1, <1>2, <1>8, <1>9 DEF ViewsShowTheLog
<1>12. Legal(log)' /\ FailureIsLast' /\ StreamFollows'
  <2>1. Legal(log)'
    BY <1>1, <1>2
  <2>2. FailureIsLast'
    BY <1>1, <1>2 DEF FailureIsLast, Current, StateAt, HeadSeq
  <2>3. StreamFollows'
    BY <1>1, <1>2 DEF StreamFollows, HeadSeq, MessageAt, EventAt, StateAt
  <2> QED BY <2>1, <2>2, <2>3
<1>13. FailuresAreSeen'
  <2>1. turn_failed /\ w.seq = HeadSeq => w.review = "failed"
    BY <1>2, <1>4, <1>6, <1>7, LogFacts
  <2> QED BY <1>1, <1>2, <1>9, <2>1 DEF FailuresAreSeen, HeadSeq
<1> QED BY <1>10, <1>11, <1>12, <1>13 DEF ScreenInv

(* The page cannot find that out, and goes on without.                     *)
LEMMA LostOneMore ==
  ASSUME faults \in [drops : Nat, reloads : Nat, lost : Nat],
         faults' = [faults EXCEPT !.lost = faults.lost + 1]
  PROVE  faults' \in [drops : Nat, reloads : Nat, lost : Nat] /\ faults'.lost # 0
  OBVIOUS

(* The request for the turn's status is lost: the snapshot stands alone.   *)
LEMMA ReadTurnFailsStep ==
  ASSUME ScreenInv, ReadTurnFails PROVE ScreenInv'
<1>1. /\ request.status = "turn" /\ request' = [request EXCEPT !.status = "answered"]
      /\ faults' = [faults EXCEPT !.lost = faults.lost + 1]
      /\ UNCHANGED <<log, turn_failed, load, view, stream>>
  BY DEF ReadTurnFails, server
<1>2. TypeOK /\ Legal(log) /\ FailureIsLast /\ ViewsShowTheLog /\ StreamFollows
  BY DEF ScreenInv
<1>3. /\ request' \in Request /\ request'.status = "answered"
      /\ request'.snapshot = request.snapshot
  BY <1>1, <1>2 DEF TypeOK, Request
<1>4. faults' \in [drops : Nat, reloads : Nat, lost : Nat] /\ faults'.lost # 0
  BY <1>1, <1>2, LostOneMore DEF TypeOK
<1>5. TypeOK'
  BY <1>1, <1>2, <1>3, <1>4 DEF TypeOK
<1>6. ViewsShowTheLog'
  BY <1>1, <1>2, <1>3 DEF ViewsShowTheLog
<1>7. Legal(log)' /\ FailureIsLast' /\ StreamFollows'
  <2>1. Legal(log)'
    BY <1>1, <1>2
  <2>2. FailureIsLast'
    BY <1>1, <1>2 DEF FailureIsLast, Current, StateAt, HeadSeq
  <2>3. StreamFollows'
    BY <1>1, <1>2 DEF StreamFollows, HeadSeq, MessageAt, EventAt, StateAt
  <2> QED BY <2>1, <2>2, <2>3
<1>8. FailuresAreSeen'
  BY <1>4 DEF FailuresAreSeen
<1> QED BY <1>5, <1>6, <1>7, <1>8 DEF ScreenInv

(* What the screen's own steps leave alone.                                *)
LEMMA LogKept ==
  ASSUME UNCHANGED <<log, turn_failed>>, Legal(log), FailureIsLast
  PROVE  /\ Legal(log)' /\ FailureIsLast' /\ HeadSeq' = HeadSeq
         /\ \A seq : MessageAt(seq)' = MessageAt(seq)
  BY DEF FailureIsLast, Current, StateAt, EventAt, MessageAt, HeadSeq

(* A step that leaves the log and the stream, and turns no view back.      *)
LEMMA StreamKept ==
  ASSUME UNCHANGED <<log, turn_failed, stream>>, Legal(log), FailureIsLast, TypeOK, TypeOK',
         StreamFollows, view.seq <= view'.seq, load = "ready" => load' = "ready"
  PROVE  StreamFollows'
<1>1. HeadSeq' = HeadSeq /\ \A seq : MessageAt(seq)' = MessageAt(seq)
  BY LogKept
<1>2. /\ view.seq \in Nat \cup {-1} /\ view'.seq \in Nat \cup {-1}
      /\ stream.at \in Nat \cup {-1} /\ stream.after \in Nat \cup {-1}
  BY DEF TypeOK, View, Stream
<1>3. /\ stream.after <= view'.seq
      /\ stream.wire = <<>> => stream.at <= view'.seq
  BY <1>2 DEF StreamFollows
<1>4. stream.wire # <<>> => stream.wire[1].seq <= view'.seq + 1
  <2> SUFFICES ASSUME stream.wire # <<>> PROVE stream.wire[1].seq <= view'.seq + 1
    OBVIOUS
  <2>1. stream.wire[1] \in Message /\ stream.wire[1].seq <= view.seq + 1
    <3>1. 1 \in 1..Len(stream.wire) /\ stream.wire \in Seq(Message)
      BY EmptySeq DEF TypeOK, Stream
    <3> QED BY <3>1, ElementOfSeq DEF StreamFollows
  <2>2. stream.wire[1].seq \in Nat
    BY <2>1 DEF Message
  <2> QED BY <1>2, <2>1, <2>2
<1> QED BY <1>1, <1>3, <1>4 DEF StreamFollows

(* The page takes what it was answered, unless it has moved past it.       *)
LEMMA TakeSnapshotStep ==
  ASSUME ScreenInv, TakeSnapshot PROVE ScreenInv' /\ view'.seq >= view.seq
<1> DEFINE v == request.snapshot
<1>1. /\ request.status = "answered" /\ load' = "ready" /\ request' = NoRequest
      /\ view' = IF v.seq >= view.seq THEN v ELSE view
      /\ \/ stream' = StreamFor("ready", view')
         \/ stream' = stream
      /\ UNCHANGED <<log, turn_failed, faults>>
  BY DEF TakeSnapshot, SnapshotIsCurrent, server
<1>2. TypeOK /\ Legal(log) /\ FailureIsLast /\ ViewsShowTheLog /\ StreamFollows /\ FailuresAreSeen
  BY DEF ScreenInv
<1>3. v \in View /\ Shows(v, log) /\ view \in View
  BY <1>1, <1>2 DEF ViewsShowTheLog, TypeOK, Request
<1>4. v.seq \in 0..HeadSeq /\ v.seq \in Nat /\ view.seq \in Nat \cup {-1}
  BY <1>2, <1>3, ShownSeq DEF View
<1> HIDE DEF v
<1>5. view' \in View /\ view'.seq >= view.seq /\ view'.seq # -1
  BY <1>1, <1>3, <1>4
<1>6. Shows(view', log)
  <2>1. CASE v.seq >= view.seq
    BY <1>1, <1>3, <2>1
  <2>2. CASE ~(v.seq >= view.seq)
    BY <1>1, <1>2, <1>4, <2>2 DEF ViewsShowTheLog
  <2> QED BY <2>1, <2>2
<1>7. TypeOK'
  <2>1. NoRequest \in Request
    <3>1. NoView \in View
      BY DEF NoView, View, NoQuestion, Question, Review, EMPTY
    <3> QED BY <3>1 DEF NoRequest, Request
  <2>2. stream' \in Stream
    BY <1>1, <1>2, StreamForPage, NothingOnTheWire DEF TypeOK
  <2> QED BY <1>1, <1>2, <1>5, <2>1, <2>2 DEF TypeOK
<1>8. StreamFollows'
  <2>1. CASE stream' = StreamFor("ready", view')
    <3>1. stream' \in {Closed, Waiting}
      BY <2>1, StreamForPage
    <3> QED BY <1>1, <1>7, <3>1, StreamRestarts
  <2>2. CASE stream' = stream
    <3>1. view.seq <= view'.seq
      BY <1>1, <1>4, <1>5
    <3> QED BY <1>1, <1>2, <1>7, <2>2, <3>1, StreamKept
  <2> QED BY <1>1, <2>1, <2>2
<1>9. request'.status = "none"
  BY <1>1 DEF NoRequest
<1>10. ViewsShowTheLog'
  BY <1>1, <1>5, <1>6, <1>9 DEF ViewsShowTheLog
<1>11. Legal(log)' /\ FailureIsLast' /\ HeadSeq' = HeadSeq
  BY <1>1, <1>2, LogKept
<1>12. FailuresAreSeen'
  <2>1. turn_failed /\ faults.lost = 0 /\ v.seq = HeadSeq => v.review = "failed"
    BY <1>1, <1>2 DEF FailuresAreSeen, v
  <2>2. turn_failed /\ faults.lost = 0 /\ view.seq = HeadSeq => view.review = "failed"
    BY <1>2 DEF FailuresAreSeen
  <2> QED BY <1>1, <1>9, <1>11, <2>1, <2>2 DEF FailuresAreSeen
<1> QED BY <1>5, <1>7, <1>8, <1>10, <1>11, <1>12 DEF ScreenInv

(* A page that starts over keeps its view and begins a new stream.         *)
LEMMA StartOverStep ==
  ASSUME ScreenInv, StartOver(view), UNCHANGED <<log, turn_failed, view>>,
         faults' \in [drops : Nat, reloads : Nat, lost : Nat], faults'.lost = faults.lost
  PROVE  ScreenInv'
<1>1. /\ load' = IF load = "ready" THEN "ready" ELSE "loading"
      /\ request' = Reading /\ stream' = StreamFor(load', view)
  BY DEF StartOver
<1>2. TypeOK /\ Legal(log) /\ FailureIsLast /\ ViewsShowTheLog /\ FailuresAreSeen
  BY DEF ScreenInv
<1>3. stream' \in {Closed, Waiting} /\ (stream' = Waiting => load' = "ready")
  BY <1>1, StreamForPage
<1>4. TypeOK'
  <2>1. Reading \in Request
    <3>1. NoView \in View
      BY DEF NoView, View, NoQuestion, Question, Review, EMPTY
    <3> QED BY <3>1 DEF Reading, Request
  <2>2. stream' \in Stream
    BY <1>3, NothingOnTheWire
  <2> QED BY <1>1, <1>2, <2>1, <2>2 DEF TypeOK
<1>5. StreamFollows'
  BY <1>3, <1>4, StreamRestarts
<1>6. request'.status = "session"
  BY <1>1 DEF Reading
<1>7. ViewsShowTheLog'
  BY <1>1, <1>2, <1>6 DEF ViewsShowTheLog
<1>8. Legal(log)' /\ FailureIsLast' /\ HeadSeq' = HeadSeq
  BY <1>2, LogKept
<1>9. FailuresAreSeen'
  BY <1>2, <1>6, <1>8 DEF FailuresAreSeen
<1> QED BY <1>4, <1>5, <1>7, <1>8, <1>9 DEF ScreenInv

(* The snapshot is asked for again; the view is kept until the answer.     *)
LEMMA ReloadStep ==
  ASSUME ScreenInv, Reload PROVE ScreenInv'
<1>1. /\ StartOver(view) /\ UNCHANGED <<log, turn_failed, view>>
      /\ faults' = [faults EXCEPT !.reloads = faults.reloads + 1]
  BY DEF Reload, server
<1>2. faults \in [drops : Nat, reloads : Nat, lost : Nat]
  BY DEF ScreenInv, TypeOK
<1>3. faults' \in [drops : Nat, reloads : Nat, lost : Nat] /\ faults'.lost = faults.lost
  BY <1>1, <1>2
<1> QED BY <1>1, <1>3, StartOverStep

(* The session cannot be read: the page says so and closes its stream.     *)
LEMMA ReadSessionFailsStep ==
  ASSUME ScreenInv, ReadSessionFails PROVE ScreenInv'
<1>1. /\ load' = "error" /\ request' = NoRequest /\ stream' = Closed
      /\ faults' = [faults EXCEPT !.lost = faults.lost + 1]
      /\ UNCHANGED <<log, turn_failed, view>>
  BY DEF ReadSessionFails, server
<1>2. TypeOK /\ Legal(log) /\ FailureIsLast /\ ViewsShowTheLog
  BY DEF ScreenInv
<1>3. faults' \in [drops : Nat, reloads : Nat, lost : Nat] /\ faults'.lost # 0
  BY <1>1, <1>2, LostOneMore DEF TypeOK
<1>4. TypeOK'
  <2>1. NoRequest \in Request
    <3>1. NoView \in View
      BY DEF NoView, View, NoQuestion, Question, Review, EMPTY
    <3> QED BY <3>1 DEF NoRequest, Request
  <2>2. stream' \in Stream
    BY <1>1, NothingOnTheWire
  <2> QED BY <1>1, <1>2, <1>3, <2>1, <2>2 DEF TypeOK
<1>5. StreamFollows'
  <2>1. stream' # Waiting
    BY <1>1 DEF Closed, Waiting
  <2> QED BY <1>1, <1>4, <2>1, StreamRestarts
<1>6. request'.status = "none"
  BY <1>1 DEF NoRequest
<1>7. ViewsShowTheLog'
  BY <1>1, <1>2, <1>6 DEF ViewsShowTheLog
<1>8. Legal(log)' /\ FailureIsLast'
  BY <1>1, <1>2, LogKept
<1>9. FailuresAreSeen'
  BY <1>3 DEF FailuresAreSeen
<1> QED BY <1>4, <1>5, <1>7, <1>8, <1>9 DEF ScreenInv

(* What a step of the connection alone leaves of the invariant.            *)
LEMMA OnlyStream ==
  ASSUME ScreenInv, UNCHANGED <<log, turn_failed, load, view, request>>,
         faults' \in [drops : Nat, reloads : Nat, lost : Nat], faults'.lost = faults.lost,
         stream' \in Stream
  PROVE  /\ TypeOK' /\ Legal(log)' /\ FailureIsLast' /\ ViewsShowTheLog' /\ FailuresAreSeen'
         /\ HeadSeq' = HeadSeq /\ \A seq : MessageAt(seq)' = MessageAt(seq)
<1>1. TypeOK /\ Legal(log) /\ FailureIsLast /\ ViewsShowTheLog /\ FailuresAreSeen
  BY DEF ScreenInv
<1>2. /\ Legal(log)' /\ FailureIsLast' /\ HeadSeq' = HeadSeq
      /\ \A seq : MessageAt(seq)' = MessageAt(seq)
  BY <1>1, LogKept
<1>3. TypeOK'
  BY <1>1 DEF TypeOK
<1>4. ViewsShowTheLog'
  BY <1>1 DEF ViewsShowTheLog
<1>5. FailuresAreSeen'
  BY <1>1, <1>2 DEF FailuresAreSeen
<1> QED BY <1>2, <1>3, <1>4, <1>5

(* A page connects with the seq its view shows.                            *)
LEMMA ConnectStep ==
  ASSUME ScreenInv, Connect PROVE ScreenInv'
<1>1. /\ stream.status = "waiting"
      /\ stream' = [Closed EXCEPT !.status = "open", !.after = view.seq]
      /\ UNCHANGED <<log, turn_failed, load, view, request, faults>>
  BY DEF Connect, server
<1>2. TypeOK /\ StreamFollows /\ Legal(log)
  BY DEF ScreenInv
<1>3. view.seq \in Nat \cup {-1} /\ HeadSeq \in Nat
  BY <1>2, LogFacts DEF TypeOK, View
<1>4. stream' = [status |-> "open", after |-> view.seq, at |-> -1, wire |-> <<>>]
  BY <1>1 DEF Closed
<1>5. /\ stream'.status = "open" /\ stream'.after = view.seq /\ stream'.at = -1
      /\ stream'.wire = <<>>
  BY <1>4
<1>6. stream' \in Stream
  <2>1. <<>> \in Seq(Message)
    OBVIOUS
  <2> QED BY <1>3, <1>4, <2>1 DEF Stream
<1>7. /\ TypeOK' /\ Legal(log)' /\ FailureIsLast' /\ ViewsShowTheLog' /\ FailuresAreSeen'
      /\ HeadSeq' = HeadSeq
  BY <1>1, <1>2, <1>6, OnlyStream DEF TypeOK
<1>8. StreamFollows'
  <2>1. load' = "ready"
    BY <1>1, <1>2 DEF StreamFollows
  <2>2. view.seq <= view.seq /\ -1 <= view.seq /\ -1 <= HeadSeq
    BY <1>3
  <2>3. \A i \in 1..Len(stream'.wire) : FALSE
    BY <1>5
  <2> QED BY <1>1, <1>5, <1>7, <2>1, <2>2, <2>3 DEF StreamFollows
<1> QED BY <1>7, <1>8 DEF ScreenInv

(* A dropped connection leaves a page that waits to connect.               *)
LEMMA DropStep ==
  ASSUME ScreenInv, Drop PROVE ScreenInv'
<1>1. /\ stream.status = "open" /\ stream' = Waiting
      /\ faults' = [faults EXCEPT !.drops = faults.drops + 1]
      /\ UNCHANGED <<log, turn_failed, load, view, request>>
  BY DEF Drop, server
<1>2. TypeOK /\ StreamFollows
  BY DEF ScreenInv
<1>3. faults' \in [drops : Nat, reloads : Nat, lost : Nat] /\ faults'.lost = faults.lost
  BY <1>1, <1>2 DEF TypeOK
<1>4. stream' \in Stream
  BY <1>1, NothingOnTheWire
<1>5. TypeOK' /\ Legal(log)' /\ FailureIsLast' /\ ViewsShowTheLog' /\ FailuresAreSeen'
  BY <1>1, <1>3, <1>4, OnlyStream
<1>6. StreamFollows'
  <2>1. load' = "ready"
    BY <1>1, <1>2 DEF StreamFollows
  <2> QED BY <1>1, <1>5, <2>1, StreamRestarts
<1> QED BY <1>5, <1>6 DEF ScreenInv

(* What a poll yields is what lies beyond both ends of the stream.         *)
Further(after, at) == IF after > at THEN after ELSE at

LEMMA UnreadMessages ==
  ASSUME Legal(log), NEW after \in Nat \cup {-1}, NEW at \in Nat \cup {-1},
         after <= HeadSeq, at <= HeadSeq
  PROVE  LET read == Further(after, at)
             unread == Unread(after, at)
         IN  /\ unread \in Seq(Message) /\ Len(unread) = HeadSeq - read
             /\ \A i \in 1..Len(unread) : /\ unread[i] = MessageAt(read + i)
                                          /\ read + i \in 0..HeadSeq
<1> DEFINE read == Further(after, at)
           unread == Unread(after, at)
<1>1. HeadSeq \in Nat /\ read \in Nat \cup {-1} /\ HeadSeq - read \in Nat
  BY LogFacts DEF Further
<1>2. \A seq \in 0..HeadSeq : MessageAt(seq) \in Message
  <2> SUFFICES ASSUME NEW seq \in 0..HeadSeq PROVE MessageAt(seq) \in Message
    OBVIOUS
  <2>1. seq + 1 \in 1..Len(log) /\ EventAt(seq) \in Event /\ StateAt(seq) \in SessionState
    BY LogFacts
  <2>2. StateAt(seq).state \in InterviewState
    <3>1. CASE seq = 0
      <4>1. StateAt(seq) = Created.state
        BY <3>1 DEF StateAt, Legal
      <4>2. Apply(Initial, Plain("SESSION_CREATED")).state = "CREATED"
        <5>1. Plain("SESSION_CREATED").type = "SESSION_CREATED"
          BY DEF Plain
        <5>2. Transitions["SESSION_CREATED"].to = "CREATED"
          BY OtherMoves
        <5> QED BY <5>1, <5>2 DEF Apply, Initial
      <4> QED BY <4>1, <4>2 DEF Created, InterviewState
    <3>2. CASE seq > 0
      <4>1. seq - 1 \in 0..HeadSeq /\ (seq - 1) + 1 = seq /\ seq + 1 > 1 /\ (seq + 1) - 1 = seq
        BY <1>1, <3>2
      <4>2. StateAt(seq) \in Stage(log[seq].state, EventAt(seq))
        BY <2>1, <4>1 DEF Legal, StateAt, EventAt
      <4>3. log[seq].state \in SessionState
        BY <4>1, LogFacts DEF StateAt
      <4>4. /\ StateAt(seq) = Apply(log[seq].state, EventAt(seq))
            /\ Accepts(log[seq].state, EventAt(seq))
        BY <2>1, <4>2, <4>3, StageType
      <4> QED BY <2>1, <4>3, <4>4, ApplyLeavesEmpty
    <3> QED BY <3>1, <3>2
  <2> QED BY <2>1, <2>2 DEF MessageAt, Message
<1>3. \A i \in 1..(HeadSeq - read) : read + i \in 0..HeadSeq
  BY <1>1
<1>4. unread = [i \in 1..(HeadSeq - read) |-> MessageAt(read + i)]
  BY DEF Unread, Further
<1> HIDE DEF read, unread
<1>5. unread \in [1..(HeadSeq - read) -> Message]
  BY <1>2, <1>3, <1>4
<1>6. unread \in Seq(Message) /\ Len(unread) = HeadSeq - read
  BY <1>1, <1>5
<1> QED BY <1>3, <1>4, <1>6 DEF read, unread

(* The server reads the log to its end and sends what the page lacks.      *)
LEMMA PollStep ==
  ASSUME ScreenInv, Poll PROVE ScreenInv'
<1> DEFINE wire == stream.wire
           unread == Unread(stream.after, stream.at)
           longer == wire \o unread
           read == Further(stream.after, stream.at)
           n == Len(wire)
<1>1. /\ stream.status = "open" /\ stream.at < HeadSeq
      /\ stream' = [stream EXCEPT !.at = HeadSeq, !.wire = longer]
      /\ UNCHANGED <<log, turn_failed, load, view, request, faults>>
  BY DEF Poll, server
<1>2. TypeOK /\ Legal(log) /\ ViewsShowTheLog /\ StreamFollows
  BY DEF ScreenInv
<1>3. /\ stream \in Stream /\ wire \in Seq(Message) /\ n \in Nat
      /\ stream.after \in Nat \cup {-1} /\ stream.at \in Nat \cup {-1}
      /\ HeadSeq \in Nat /\ view.seq \in Nat \cup {-1}
  BY <1>2, LogFacts DEF TypeOK, Stream, View
<1>4. view.seq <= HeadSeq /\ stream.after <= view.seq /\ stream.after <= HeadSeq
  <2>1. view.seq <= HeadSeq
    BY <1>2, <1>3, ShownSeq DEF ViewsShowTheLog
  <2>2. stream.after <= view.seq
    BY <1>2 DEF StreamFollows
  <2> QED BY <1>3, <2>1, <2>2
<1>5. /\ unread \in Seq(Message) /\ Len(unread) = HeadSeq - read
      /\ \A i \in 1..Len(unread) : unread[i] = MessageAt(read + i) /\ read + i \in 0..HeadSeq
  <2>1. stream.at <= HeadSeq
    BY <1>1, <1>3
  <2> QED BY <1>2, <1>3, <1>4, <2>1, UnreadMessages
<1>6. read \in Nat \cup {-1} /\ read <= HeadSeq /\ stream.after <= read /\ stream.at <= read
  BY <1>1, <1>3, <1>4 DEF Further
<1> HIDE DEF unread, read, wire, longer, n
<1>7. /\ longer \in Seq(Message) /\ Len(longer) = n + (HeadSeq - read)
      /\ \A i \in 1..(n + (HeadSeq - read)) :
           longer[i] = IF i <= n THEN wire[i] ELSE unread[i - n]
  <2>1. /\ wire \o unread \in Seq(Message) /\ Len(wire \o unread) = Len(wire) + Len(unread)
        /\ \A i \in 1..(Len(wire) + Len(unread)) :
             (wire \o unread)[i] = IF i <= Len(wire) THEN wire[i] ELSE unread[i - Len(wire)]
    BY <1>3, <1>5, ConcatProperties
  <2> QED BY <1>5, <2>1 DEF longer, n
<1>8. /\ stream' \in Stream /\ stream'.status = "open" /\ stream'.after = stream.after
      /\ stream'.at = HeadSeq /\ stream'.wire = longer
  <2>1. stream' = [stream EXCEPT !.at = HeadSeq, !.wire = longer]
    BY <1>1
  <2>2. HeadSeq \in Nat \cup {-1}
    BY <1>3
  <2> QED BY <1>1, <1>3, <1>7, <2>1, <2>2 DEF Stream
<1>9. /\ TypeOK' /\ Legal(log)' /\ FailureIsLast' /\ ViewsShowTheLog' /\ FailuresAreSeen'
      /\ HeadSeq' = HeadSeq /\ \A seq : MessageAt(seq)' = MessageAt(seq)
  BY <1>1, <1>2, <1>8, OnlyStream DEF TypeOK
<1>10. /\ wire = <<>> => stream.at <= view.seq
       /\ wire # <<>> => wire[1].seq <= view.seq + 1 /\ stream.after < stream.at
       /\ \A i \in 1..n : LET seq == stream.at - n + i
                          IN  seq \in 0..HeadSeq /\ wire[i] = MessageAt(seq)
       /\ load = "ready"
  BY <1>1, <1>2 DEF StreamFollows, wire, n
<1>11. /\ wire = <<>> <=> n = 0
       /\ longer = <<>> <=> Len(longer) = 0
  BY <1>3, <1>7, EmptySeq DEF n
<1>12. CASE wire = <<>>
  <2>1. n = 0 /\ read <= view.seq
    BY <1>3, <1>4, <1>10, <1>11, <1>12 DEF read, Further
  <2>2. \A i \in 1..Len(longer) : longer[i] = unread[i] /\ i \in 1..Len(unread)
    BY <1>3, <1>5, <1>6, <1>7, <2>1
  <2>3. \A i \in 1..Len(longer) : LET seq == HeadSeq - Len(longer) + i
                                  IN  seq \in 0..HeadSeq /\ longer[i] = MessageAt(seq)
    <3> SUFFICES ASSUME NEW i \in 1..Len(longer)
                 PROVE  LET seq == HeadSeq - Len(longer) + i
                        IN  seq \in 0..HeadSeq /\ longer[i] = MessageAt(seq)
      OBVIOUS
    <3>1. HeadSeq - Len(longer) + i = read + i
      BY <1>3, <1>6, <1>7, <2>1
    <3>2. longer[i] = MessageAt(read + i) /\ read + i \in 0..HeadSeq
      BY <1>5, <2>2
    <3> QED BY <3>1, <3>2
  <2>4. longer = <<>> => HeadSeq <= view.seq
    BY <1>3, <1>6, <1>7, <1>11, <2>1
  <2>5. ASSUME longer # <<>>
        PROVE  longer[1].seq <= view.seq + 1 /\ stream.after < HeadSeq
    <3>1. Len(longer) > 0 /\ 1 \in 1..Len(longer)
      BY <1>3, <1>6, <1>7, <1>11, <2>5
    <3>2. longer[1] = MessageAt(read + 1)
      BY <1>5, <2>2, <3>1
    <3>3. longer[1].seq = read + 1
      BY <3>2 DEF MessageAt
    <3> QED BY <1>3, <1>6, <1>7, <2>1, <3>1, <3>3
  <2>6. StreamFollows'
    <3>1. /\ stream'.after <= view.seq /\ stream'.at <= HeadSeq
      BY <1>3, <1>4, <1>8
    <3> QED BY <1>1, <1>8, <1>9, <1>10, <2>3, <2>4, <2>5, <3>1 DEF StreamFollows
  <2> QED BY <1>9, <2>6 DEF ScreenInv
<1>13. CASE wire # <<>>
  <2>1. n > 0 /\ read = stream.at /\ stream.after < stream.at
    BY <1>3, <1>10, <1>11, <1>13 DEF read, Further
  <2>2. longer # <<>> /\ longer[1] = wire[1]
    <3>1. Len(longer) # 0 /\ 1 \in 1..(n + (HeadSeq - read)) /\ 1 <= n
      BY <1>3, <1>6, <1>7, <2>1
    <3> QED BY <1>7, <1>11, <3>1
  <2>3. \A i \in 1..Len(longer) : LET seq == HeadSeq - Len(longer) + i
                                  IN  seq \in 0..HeadSeq /\ longer[i] = MessageAt(seq)
    <3> SUFFICES ASSUME NEW i \in 1..Len(longer)
                 PROVE  LET seq == HeadSeq - Len(longer) + i
                        IN  seq \in 0..HeadSeq /\ longer[i] = MessageAt(seq)
      OBVIOUS
    <3>1. HeadSeq - Len(longer) + i = stream.at - n + i
      BY <1>3, <1>7, <2>1
    <3>2. CASE i <= n
      <4>1. longer[i] = wire[i] /\ i \in 1..n
        BY <1>3, <1>7, <3>2
      <4> QED BY <1>10, <3>1, <4>1
    <3>3. CASE i > n
      <4>1. longer[i] = unread[i - n] /\ i - n \in 1..Len(unread)
        BY <1>3, <1>5, <1>6, <1>7, <2>1, <3>3
      <4>2. unread[i - n] = MessageAt(read + (i - n)) /\ read + (i - n) \in 0..HeadSeq
        BY <1>5, <4>1
      <4>3. read + (i - n) = stream.at - n + i
        BY <1>3, <2>1
      <4> QED BY <3>1, <4>1, <4>2, <4>3
    <3> QED BY <1>3, <1>7, <3>2, <3>3
  <2>4. longer[1].seq <= view.seq + 1 /\ stream.after < HeadSeq
    BY <1>1, <1>3, <1>10, <1>13, <2>1, <2>2
  <2>5. StreamFollows'
    <3>1. /\ stream'.after <= view.seq /\ stream'.at <= HeadSeq
      BY <1>3, <1>4, <1>8
    <3> QED BY <1>1, <1>8, <1>9, <1>10, <2>2, <2>3, <2>4, <3>1 DEF StreamFollows
  <2> QED BY <1>9, <2>5 DEF ScreenInv
<1> QED BY <1>12, <1>13

(* The next message is the log's, and at most one past the view.           *)
LEMMA NextMessage ==
  ASSUME ScreenInv, stream.wire # <<>>
  PROVE  LET m == Head(stream.wire)
             seq == stream.at - Len(stream.wire) + 1
         IN  /\ seq \in 0..HeadSeq /\ m = MessageAt(seq) /\ m.seq = seq
             /\ m.event = EventAt(seq) /\ m.state = StateAt(seq).state
             /\ m.seq <= view.seq + 1 /\ view.seq \in Nat
             /\ load = "ready" /\ stream.status = "open"
<1>1. TypeOK /\ Legal(log) /\ ViewsShowTheLog /\ StreamFollows
  BY DEF ScreenInv
<1>2. stream.wire \in Seq(Message) /\ 1 \in 1..Len(stream.wire)
  BY <1>1, EmptySeq DEF TypeOK, Stream
<1>3. Head(stream.wire) = stream.wire[1]
  BY <1>2
<1>4. stream.status = "open" /\ load = "ready"
  BY <1>1 DEF StreamFollows, TypeOK, Stream
<1>5. view.seq \in Nat
  BY <1>1, <1>4 DEF ViewsShowTheLog, TypeOK, View
<1>6. LET seq == stream.at - Len(stream.wire) + 1
      IN  seq \in 0..HeadSeq /\ stream.wire[1] = MessageAt(seq)
  BY <1>1, <1>2 DEF StreamFollows
<1>7. stream.wire[1].seq <= view.seq + 1
  BY <1>1 DEF StreamFollows
<1>8. \A seq : /\ MessageAt(seq).seq = seq /\ MessageAt(seq).event = EventAt(seq)
               /\ MessageAt(seq).state = StateAt(seq).state
  BY DEF MessageAt
<1> QED BY <1>3, <1>4, <1>5, <1>6, <1>7, <1>8

(* The event it brings follows from the state the view shows.              *)
LEMMA NextEventFollows ==
  ASSUME Legal(log), NEW seq \in 0..HeadSeq, seq > 0
  PROVE  StateAt(seq) \in Stage(StateAt(seq - 1), EventAt(seq))
<1>1. seq + 1 \in 1..Len(log) /\ seq + 1 > 1 /\ (seq + 1) - 1 = seq /\ (seq - 1) + 1 = seq
  BY LogFacts
<1>2. log[seq + 1].state \in Stage(log[(seq + 1) - 1].state, log[seq + 1].event)
  BY <1>1 DEF Legal
<1> QED BY <1>1, <1>2 DEF StateAt, EventAt

(* One message fewer on the wire.                                          *)
LEMMA TailOfWire ==
  ASSUME NEW s \in Stream, s.wire # <<>>, NEW t, t = [s EXCEPT !.wire = Tail(s.wire)]
  PROVE  /\ t \in Stream /\ t.status = s.status /\ t.after = s.after /\ t.at = s.at
         /\ t.wire = Tail(s.wire) /\ Len(t.wire) = Len(s.wire) - 1 /\ Len(s.wire) \in Nat \ {0}
         /\ \A i \in 1..Len(t.wire) : t.wire[i] = s.wire[i + 1]
<1>1. s.wire \in Seq(Message) /\ Len(s.wire) \in Nat \ {0}
  BY EmptySeq DEF Stream
<1>2. /\ Tail(s.wire) \in Seq(Message) /\ Len(Tail(s.wire)) = Len(s.wire) - 1
      /\ \A i \in 1..Len(Tail(s.wire)) : Tail(s.wire)[i] = s.wire[i + 1]
  BY <1>1, HeadTailProperties
<1>3. /\ t \in Stream /\ t.status = s.status /\ t.after = s.after /\ t.at = s.at
      /\ t.wire = Tail(s.wire)
  BY <1>2 DEF Stream
<1> QED BY <1>1, <1>2, <1>3

(* What a message does to the view: nothing, or one step forward.          *)
LEMMA ViewAdvances ==
  ASSUME ScreenInv, stream.wire # <<>>, UNCHANGED <<log, turn_failed>>,
         LET m == Head(stream.wire)
         IN  view' = IF AlreadyApplied(view, m) \/ Gap(view, m) THEN view
                     ELSE ApplyEvent(view, m)
  PROVE  /\ ~Gap(view, Head(stream.wire))
         /\ view' \in View /\ Shows(view', log) /\ view.seq <= view'.seq
         /\ Head(stream.wire).seq <= view'.seq
         /\ view'.seq # -1
         /\ turn_failed /\ faults.lost = 0 /\ view'.seq = HeadSeq => view'.review = "failed"
<1> DEFINE m == Head(stream.wire)
           seq == stream.at - Len(stream.wire) + 1
<1>1. /\ seq \in 0..HeadSeq /\ m = MessageAt(seq) /\ m.seq = seq
      /\ m.event = EventAt(seq) /\ m.state = StateAt(seq).state
      /\ m.seq <= view.seq + 1 /\ view.seq \in Nat
  BY NextMessage
<1>2. view' = IF AlreadyApplied(view, m) \/ Gap(view, m) THEN view ELSE ApplyEvent(view, m)
  OBVIOUS
<1>3. TypeOK /\ Legal(log) /\ FailureIsLast /\ ViewsShowTheLog /\ FailuresAreSeen
  BY DEF ScreenInv
<1> HIDE DEF m, seq
<1>4. HeadSeq \in Nat /\ seq \in Nat
  BY <1>1, <1>3, LogFacts
<1>5. ~Gap(view, m)
  BY <1>1, <1>4 DEF Gap
<1>6. view \in View /\ Shows(view, log) /\ Matches(view, StateAt(view.seq)) /\ view.seq \in 0..HeadSeq
  <2>1. view \in View /\ Shows(view, log)
    BY <1>1, <1>3 DEF TypeOK, ViewsShowTheLog
  <2> QED BY <1>3, <2>1, ShownSeq
<1>7. CASE AlreadyApplied(view, m)
  <2>1. view' = view /\ m.seq <= view.seq
    BY <1>2, <1>7 DEF AlreadyApplied
  <2>2. turn_failed /\ faults.lost = 0 /\ view.seq = HeadSeq => view.review = "failed"
    BY <1>3 DEF FailuresAreSeen
  <2> QED BY <1>1, <1>4, <1>5, <1>6, <2>1, <2>2 DEF m
<1>8. CASE ~AlreadyApplied(view, m)
  <2>1. view' = ApplyEvent(view, m) /\ m.seq = view.seq + 1 /\ seq = view.seq + 1
    BY <1>1, <1>2, <1>4, <1>5, <1>8 DEF AlreadyApplied
  <2>2. StateAt(seq) \in Stage(StateAt(view.seq), EventAt(seq))
    <3>1. seq > 0 /\ seq - 1 = view.seq
      BY <1>1, <2>1
    <3>2. StateAt(seq) \in Stage(StateAt(seq - 1), EventAt(seq))
      BY <1>1, <1>3, <3>1, NextEventFollows
    <3> QED BY <3>1, <3>2
  <2>3. StateAt(view.seq) \in SessionState /\ EventAt(seq) \in Validated
    BY <1>1, <1>3, <1>6, LogFacts
  <2>4. PICK w : w = view'
    OBVIOUS
  <2>5. /\ w \in View /\ w.seq = view.seq + 1 /\ Matches(w, StateAt(seq))
        /\ w.review = "failed" => EventAt(seq) = GradingFailed(w.turn)
        /\ EventAt(seq).type = "GRADING_FAILED" => w.review = "failed"
    <3>1. PICK s, e, x : s = StateAt(view.seq) /\ e = EventAt(seq) /\ x = StateAt(seq)
      OBVIOUS
    <3>2. /\ s \in SessionState /\ e \in Validated /\ x \in Stage(s, e) /\ Matches(view, s)
          /\ m.seq = view.seq + 1 /\ m.event = e /\ m.state = x.state
          /\ w = ApplyEvent(view, m) /\ view \in View /\ view.seq \in Nat
      BY <1>1, <1>6, <2>1, <2>2, <2>3, <2>4, <3>1
    <3>3. /\ w \in View /\ w.seq = view.seq + 1 /\ Matches(w, x)
          /\ w.review = "failed" => e = GradingFailed(w.turn)
          /\ e.type = "GRADING_FAILED" => w.review = "failed"
      BY <3>2, EventView
    <3> QED BY <3>1, <3>3
  <2>6. Shows(w, log)
    <3>1. w.seq \in 0..(Len(log) - 1) /\ StateAt(seq) = log[w.seq + 1].state
      BY <1>1, <2>1, <2>5 DEF HeadSeq, StateAt
    <3>2. w.review = "failed" => \E i \in 1..Len(log) : log[i].event = GradingFailed(w.turn)
      <4>1. seq + 1 \in 1..Len(log) /\ EventAt(seq) = log[seq + 1].event
        BY <1>1, <1>3, LogFacts DEF EventAt
      <4> QED BY <2>5, <4>1
    <3> QED BY <2>5, <3>1, <3>2 DEF Shows
  <2>7. turn_failed /\ w.seq = HeadSeq => w.review = "failed"
    <3> SUFFICES ASSUME turn_failed, w.seq = HeadSeq PROVE w.review = "failed"
      OBVIOUS
    <3>1. EventAt(seq) = log[Len(log)].event
      BY <1>3, <2>1, <2>5, LogFacts DEF EventAt
    <3>2. EventAt(seq).type = "GRADING_FAILED"
      BY <1>3, <3>1 DEF FailureIsLast, GradingFailed, Plain
    <3> QED BY <2>5, <3>2
  <2> QED BY <1>1, <1>4, <1>5, <2>1, <2>4, <2>5, <2>6, <2>7 DEF m
<1> QED BY <1>7, <1>8

(* The page reads a message.                                               *)
LEMMA DeliverStep ==
  ASSUME ScreenInv, Deliver PROVE ScreenInv' /\ view'.seq >= view.seq
<1> DEFINE m == Head(stream.wire)
           seq == stream.at - Len(stream.wire) + 1
<1>1. /\ stream.wire # <<>> /\ UNCHANGED <<log, turn_failed, faults>>
      /\ view' = IF AlreadyApplied(view, m) \/ Gap(view, m) THEN view ELSE ApplyEvent(view, m)
      /\ ~Gap(view, m) =>
           /\ stream' = IF m.event.type = "SESSION_COMPLETED" THEN Closed
                        ELSE [stream EXCEPT !.wire = Tail(stream.wire)]
           /\ UNCHANGED <<load, request>>
  BY DEF Deliver, server
<1>2. TypeOK /\ Legal(log) /\ FailureIsLast /\ ViewsShowTheLog /\ StreamFollows /\ FailuresAreSeen
  BY DEF ScreenInv
<1>3. /\ seq \in 0..HeadSeq /\ m.seq = seq /\ view.seq \in Nat
      /\ load = "ready" /\ stream.status = "open"
  BY <1>1, NextMessage
<1>4. /\ ~Gap(view, m) /\ view' \in View /\ Shows(view', log) /\ view.seq <= view'.seq
      /\ m.seq <= view'.seq /\ view'.seq # -1
      /\ turn_failed /\ faults.lost = 0 /\ view'.seq = HeadSeq => view'.review = "failed"
  BY <1>1, ViewAdvances
<1>5. /\ UNCHANGED <<load, request>>
      /\ \/ stream' = Closed
         \/ stream' = [stream EXCEPT !.wire = Tail(stream.wire)]
  BY <1>1, <1>4
<1>6. stream \in Stream /\ HeadSeq \in Nat /\ view'.seq \in Nat
  BY <1>2, <1>4, LogFacts DEF TypeOK, View
<1>7. stream' \in Stream
  BY <1>1, <1>5, <1>6, NothingOnTheWire, TailOfWire
<1>8. TypeOK'
  BY <1>1, <1>2, <1>4, <1>5, <1>7 DEF TypeOK
<1>9. ViewsShowTheLog'
  BY <1>1, <1>2, <1>4, <1>5 DEF ViewsShowTheLog
<1>10. /\ Legal(log)' /\ FailureIsLast' /\ HeadSeq' = HeadSeq
       /\ \A n : MessageAt(n)' = MessageAt(n)
  BY <1>1, <1>2, LogKept
<1>11. FailuresAreSeen'
  BY <1>1, <1>2, <1>4, <1>5, <1>10 DEF FailuresAreSeen
<1>12. StreamFollows'
  <2>1. CASE stream' = Closed
    <3>1. stream' # Waiting
      BY <2>1 DEF Closed, Waiting
    <3> QED BY <1>8, <2>1, <3>1, StreamRestarts
  <2>2. CASE stream' = [stream EXCEPT !.wire = Tail(stream.wire)]
    <3> DEFINE n == Len(stream.wire)
               wire == stream'.wire
    <3>1. /\ stream'.status = "open" /\ stream'.after = stream.after /\ stream'.at = stream.at
          /\ wire \in Seq(Message) /\ Len(wire) = n - 1 /\ n \in Nat \ {0}
          /\ \A i \in 1..Len(wire) : wire[i] = stream.wire[i + 1]
      BY <1>1, <1>3, <1>6, <2>2, TailOfWire DEF Stream
    <3>2. /\ stream.after \in Nat \cup {-1} /\ stream.at \in Nat \cup {-1}
          /\ stream.after <= view.seq /\ stream.at <= HeadSeq
          /\ stream.after < stream.at
          /\ \A i \in 1..n : LET k == stream.at - n + i
                             IN  k \in 0..HeadSeq /\ stream.wire[i] = MessageAt(k)
      BY <1>1, <1>2, <1>6 DEF StreamFollows, Stream
    <3> HIDE DEF wire, n
    <3>3. \A i \in 1..Len(wire) : LET k == stream.at - Len(wire) + i
                                  IN  k \in 0..HeadSeq /\ wire[i] = MessageAt(k)
      <4> SUFFICES ASSUME NEW i \in 1..Len(wire)
                   PROVE  LET k == stream.at - Len(wire) + i
                          IN  k \in 0..HeadSeq /\ wire[i] = MessageAt(k)
        OBVIOUS
      <4>1. i + 1 \in 1..n /\ stream.at - n + (i + 1) = stream.at - Len(wire) + i
        <5>1. Len(wire) = n - 1 /\ n \in Nat \ {0} /\ stream.at \in Int
          BY <3>1, <3>2
        <5>2. i \in Int /\ 1 <= i /\ i <= n - 1
          BY <5>1
        <5>3. i + 1 \in 1..n
          BY <5>1, <5>2
        <5> HIDE DEF wire
        <5>4. \A L, a : L = n - 1 /\ a \in Int => a - n + (i + 1) = a - L + i
          BY <5>1, <5>2
        <5> QED BY <5>1, <5>3, <5>4
      <4> QED BY <3>1, <3>2, <4>1
    <3>4. seq = stream.at - n + 1
      BY DEF n
    <3>5. wire = <<>> => stream.at <= view'.seq
      <4> SUFFICES ASSUME wire = <<>> PROVE stream.at <= view'.seq
        OBVIOUS
      <4>1. n = 1
        BY <3>1
      <4> QED BY <1>3, <1>4, <3>2, <3>4, <4>1
    <3>6. wire # <<>> => wire[1].seq <= view'.seq + 1
      <4> SUFFICES ASSUME wire # <<>> PROVE wire[1].seq <= view'.seq + 1
        OBVIOUS
      <4>1. 1 \in 1..Len(wire) /\ 2 \in 1..n
        BY <3>1, EmptySeq
      <4>2. wire[1] = MessageAt(stream.at - n + 2)
        BY <3>1, <3>2, <4>1
      <4>3. wire[1].seq = seq + 1
        <5>1. wire[1].seq = stream.at - n + 2
          BY <4>2 DEF MessageAt
        <5> QED BY <3>1, <3>2, <3>4, <5>1
      <4> QED BY <1>3, <1>4, <1>6, <4>3
    <3>7. stream.after <= view'.seq
      BY <1>3, <1>4, <1>6, <3>2
    <3>8. load' = "ready"
      BY <1>3, <1>5
    <3> QED BY <1>10, <3>1, <3>2, <3>3, <3>5, <3>6, <3>7, <3>8 DEF StreamFollows, wire
  <2> QED BY <1>5, <2>1, <2>2
<1>13. view'.seq >= view.seq
  BY <1>3, <1>4, <1>6
<1> QED BY <1>8, <1>9, <1>10, <1>11, <1>12, <1>13 DEF ScreenInv

-----------------------------------------------------------------------------
(* No step takes the view back, and every step keeps the invariant.        *)
LEMMA ScreenStep ==
  ASSUME ScreenInv, [Next]_vars
  PROVE  ScreenInv' /\ view'.seq >= view.seq
<1>1. view.seq \in Nat \cup {-1} /\ view.seq >= view.seq
  BY DEF ScreenInv, TypeOK, View
<1>2. CASE Decide
  BY <1>1, <1>2, DecideStep DEF Decide
<1>3. CASE Requeue
  BY <1>1, <1>3, RequeueStep DEF Requeue
<1>4. CASE ReadSession
  BY <1>1, <1>4, ReadSessionStep DEF ReadSession
<1>5. CASE ReadTurn
  BY <1>1, <1>5, ReadTurnStep DEF ReadTurn
<1>6. CASE TakeSnapshot
  BY <1>6, TakeSnapshotStep
<1>7. CASE Connect
  BY <1>1, <1>7, ConnectStep DEF Connect
<1>8. CASE Poll
  BY <1>1, <1>8, PollStep DEF Poll
<1>9. CASE Deliver
  BY <1>9, DeliverStep
<1>10. CASE ReadSessionFails
  BY <1>1, <1>10, ReadSessionFailsStep DEF ReadSessionFails
<1>11. CASE ReadTurnFails
  BY <1>1, <1>11, ReadTurnFailsStep DEF ReadTurnFails
<1>12. CASE Drop
  BY <1>1, <1>12, DropStep DEF Drop
<1>13. CASE Reload
  BY <1>1, <1>13, ReloadStep DEF Reload
<1>14. CASE UNCHANGED vars
  <2>1. UNCHANGED <<log, turn_failed, load, view, request, stream, faults>>
    BY <1>14 DEF vars
  <2>2. TypeOK' /\ Legal(log)' /\ FailureIsLast' /\ ViewsShowTheLog' /\ FailuresAreSeen'
        /\ HeadSeq' = HeadSeq /\ \A seq : MessageAt(seq)' = MessageAt(seq)
    BY <2>1, OnlyStream DEF ScreenInv, TypeOK
  <2>3. StreamFollows'
    BY <2>1, <2>2 DEF ScreenInv, StreamFollows
  <2> QED BY <1>1, <2>1, <2>2, <2>3 DEF ScreenInv
<1> QED BY <1>2, <1>3, <1>4, <1>5, <1>6, <1>7, <1>8, <1>9, <1>10, <1>11, <1>12, <1>13, <1>14
        DEF Next, Server, Screen, Faults

(* The invariant of a screen and the server it follows: every view it has  *)
(* or will take shows the log at its seq, and what is on the wire is the   *)
(* log's, in order, with nothing left out between the view and the wire    *)
(* (get_session, event_stream, useInterview, applyEvent).                  *)
THEOREM ScreenInvariance == Spec => []ScreenInv
<1>1. Init => ScreenInv
  BY InitScreen
<1>2. ScreenInv /\ [Next]_vars => ScreenInv'
  BY ScreenStep
<1> QED BY <1>1, <1>2, PTL DEF Spec

(* Log, view, requests and stream keep their shape, for a log of any       *)
(* length (SessionEvent, InterviewModel in interviewModel.ts).             *)
THEOREM ScreenTypes == Spec => []TypeOK
<1>1. ScreenInv => TypeOK
  BY DEF ScreenInv
<1> QED BY <1>1, ScreenInvariance, PTL

(* The screen shows what the server recorded, an event is never missed,    *)
(* and a review that was given up on is shown as such unless a request was *)
(* lost; whatever is dropped, reloaded or late, and for any length of log  *)
(* (useInterview.ts and interviewModel.ts against stream.py).              *)
THEOREM ScreenTruth == Spec => []ScreenIsTrue
<1>1. ScreenInv => ScreenIsTrue
  <2> SUFFICES ASSUME ScreenInv PROVE ScreenIsTrue
    OBVIOUS
  <2>1. TypeOK /\ Legal(log) /\ ViewsShowTheLog /\ FailuresAreSeen
    BY DEF ScreenInv
  <2>2. ViewIsTheLog
    <3> SUFFICES ASSUME view.seq # -1 PROVE ViewIsTheLog
      BY DEF ViewIsTheLog
    <3>1. Shows(view, log)
      BY <2>1 DEF ViewsShowTheLog
    <3>2. Matches(view, StateAt(view.seq))
      BY <2>1, <3>1, ShownSeq
    <3>3. view.review = "failed" => \E i \in 1..Len(log) : log[i].event = GradingFailed(view.turn)
      BY <3>1 DEF Shows
    <3> QED BY <3>2, <3>3 DEF ViewIsTheLog, Matches
  <2>3. NeverAGap
    <3> SUFFICES ASSUME stream.wire # <<>> PROVE ~Gap(view, Head(stream.wire))
      BY DEF NeverAGap
    <3>1. /\ Head(stream.wire).seq \in 0..HeadSeq /\ view.seq \in Nat
          /\ Head(stream.wire).seq <= view.seq + 1
      BY NextMessage
    <3>2. HeadSeq \in Nat
      BY <2>1, LogFacts
    <3> QED BY <3>1, <3>2 DEF Gap
  <2>4. FailedReviewIsShownUnlessLost
    BY <2>1 DEF FailedReviewIsShownUnlessLost, FailedReviewIsShown, FailuresAreSeen
  <2> QED BY <2>2, <2>3, <2>4 DEF ScreenIsTrue
<1> QED BY <1>1, ScreenInvariance, PTL

(* However slow a snapshot and however many reloads, the screen never goes *)
(* back behind an event it has shown (useInterview.ts, load).              *)
THEOREM NeverBack == Spec => NeverRollsBack
<1>1. ScreenInv /\ [Next]_vars => [view'.seq >= view.seq]_vars
  BY ScreenStep
<1> QED BY <1>1, ScreenInvariance, PTL DEF Spec, NeverRollsBack
=============================================================================
