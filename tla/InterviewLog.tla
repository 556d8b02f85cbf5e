---------------------------- MODULE InterviewLog ----------------------------
(***************************************************************************)
(* The event log of one interview as pure definitions: which event the     *)
(* state machine admits from which state (app/interview/fsm.py), and the   *)
(* state one event leads to (app/interview/state.py, apply).  A session's  *)
(* state is the fold of Apply over its log; nothing else decides whether a *)
(* session may move.                                                       *)
(*                                                                         *)
(* Abstracted: the wording of a question, the numbers of a grade and the   *)
(* priors.  What later decisions read of a grade is kept as two booleans:  *)
(* precise (the required topics have reached their RD target, a function   *)
(* of the ability map) and small (this step moved theta by less than the   *)
(* stopping rule's threshold).                                             *)
(***************************************************************************)
EXTENDS Naturals, Sequences

CONSTANTS
  Items,          \* bank question ids
  Turns,          \* turn ids a client may choose
  NoItem,         \* "no bank item": None in the code
  NoTurn,         \* "no turn": None in the code
  MaxPerItem,     \* MAX_FOLLOW_UPS_PER_ITEM (2)
  MaxPerSession   \* MAX_FOLLOW_UPS_PER_SESSION (6)

ASSUME CapsAreNaturals == MaxPerItem \in Nat /\ MaxPerSession \in Nat
ASSUME NoneIsApart == NoItem \notin Items /\ NoTurn \notin Turns

(* Every persisted state; EMPTY is the empty log, before SESSION_CREATED. *)
InterviewState == {"CREATED", "PREPARING", "ASKING", "GRADING", "PROBING",
                   "SELECTING", "REPORTING", "COMPLETED"}
EMPTY == "EMPTY"

(* TRANSITIONS, keyed by event: the states it may leave and the one it     *)
(* enters.  Every row of the table for one event has the same target.      *)
Transitions ==
  [SESSION_CREATED     |-> [from |-> {EMPTY},       to |-> "CREATED"],
   PREPARATION_STARTED |-> [from |-> {"CREATED"},   to |-> "PREPARING"],
   QUESTION_ASKED      |-> [from |-> {"PREPARING", "PROBING", "SELECTING"},
                            to |-> "ASKING"],
   ANSWER_SUBMITTED    |-> [from |-> {"ASKING"},    to |-> "GRADING"],
   ANSWER_GRADED       |-> [from |-> {"GRADING"},   to |-> "GRADING"],
   GRADING_FAILED      |-> [from |-> {"GRADING"},   to |-> "GRADING"],
   FOLLOW_UP_STARTED   |-> [from |-> {"GRADING"},   to |-> "PROBING"],
   FOLLOW_UP_ABANDONED |-> [from |-> {"PROBING"},   to |-> "SELECTING"],
   SELECTION_STARTED   |-> [from |-> {"GRADING"},   to |-> "SELECTING"],
   REPORTING_STARTED   |-> [from |-> {"GRADING", "SELECTING"}, to |-> "REPORTING"],
   SESSION_COMPLETED   |-> [from |-> {"REPORTING"}, to |-> "COMPLETED"]]

EventType == DOMAIN Transitions

(***************************************************************************)
(* Events.  One record shape for all of them; a field an event does not    *)
(* carry has its neutral value.                                            *)
(***************************************************************************)
Event == [type : EventType, question_id : Items \cup {NoItem},
          is_follow_up : BOOLEAN, turn_id : Turns \cup {NoTurn},
          precise : BOOLEAN, small : BOOLEAN]

Plain(type) == [type |-> type, question_id |-> NoItem, is_follow_up |-> FALSE,
                turn_id |-> NoTurn, precise |-> FALSE, small |-> FALSE]
Asked(q)         == [Plain("QUESTION_ASKED") EXCEPT !.question_id = q]
FollowUpAsked    == [Plain("QUESTION_ASKED") EXCEPT !.is_follow_up = TRUE]
Submitted(t)     == [Plain("ANSWER_SUBMITTED") EXCEPT !.turn_id = t]
Graded(t, p, s)  == [Plain("ANSWER_GRADED") EXCEPT !.turn_id = t,
                                                   !.precise = p, !.small = s]
GradingFailed(t) == [Plain("GRADING_FAILED") EXCEPT !.turn_id = t]

(***************************************************************************)
(* SessionState: what the fold knows.  seq is the length of the log less   *)
(* one and is kept by the modules that hold a log; theta_deltas is kept as *)
(* the length of its trailing run of small steps, which is all the         *)
(* stopping rule reads of it.                                              *)
(***************************************************************************)
SessionState ==
  [state                : InterviewState \cup {EMPTY},
   asked_question_ids   : Seq(Items),
   follow_ups_asked     : Nat,
   follow_ups_by_item   : [Items -> Nat],
   current_item_id      : Items \cup {NoItem},
   current_is_follow_up : BOOLEAN,
   current_turn_id      : Turns \cup {NoTurn},
   current_graded       : BOOLEAN,
   precise              : BOOLEAN,
   small_run            : Nat]

Initial ==
  [state |-> EMPTY, asked_question_ids |-> <<>>, follow_ups_asked |-> 0,
   follow_ups_by_item |-> [q \in Items |-> 0], current_item_id |-> NoItem,
   current_is_follow_up |-> FALSE, current_turn_id |-> NoTurn,
   current_graded |-> FALSE, precise |-> FALSE, small_run |-> 0]

WasAsked(s, q) == \E i \in 1..Len(s.asked_question_ids) : s.asked_question_ids[i] = q

(* follow_up_room: one more follow-up on the current item fits both caps.  *)
FollowUpRoom(s) ==
  /\ s.current_item_id # NoItem
  /\ s.follow_ups_by_item[s.current_item_id] < MaxPerItem
  /\ s.follow_ups_asked < MaxPerSession

(***************************************************************************)
(* What apply demands of an event: the table, then the rules a table       *)
(* cannot express because they depend on earlier events.                   *)
(***************************************************************************)
AskAccepted(s, e) ==
  /\ e.is_follow_up <=> s.state = "PROBING"
  /\ e.is_follow_up  => e.question_id = NoItem /\ FollowUpRoom(s)
  /\ ~e.is_follow_up => e.question_id # NoItem /\ ~WasAsked(s, e.question_id)

GradeAccepted(s, e) == ~s.current_graded /\ e.turn_id = s.current_turn_id

Accepts(s, e) ==
  /\ s.state \in Transitions[e.type].from
  /\ e.type = "QUESTION_ASKED" => AskAccepted(s, e)
  /\ e.type \in {"ANSWER_GRADED", "GRADING_FAILED"} => GradeAccepted(s, e)
  /\ e.type \in {"FOLLOW_UP_STARTED", "SELECTION_STARTED"} => s.current_graded
  /\ e.type = "FOLLOW_UP_STARTED" => FollowUpRoom(s)
  /\ e.type = "REPORTING_STARTED" /\ s.state = "GRADING" => s.current_graded

(***************************************************************************)
(* What apply does with an accepted event.                                 *)
(***************************************************************************)
(* Seeded bug: the follow-up is not counted against its item.              *)
ApplyFollowUpUncounted(s) ==
  [s EXCEPT !.state = "ASKING",
            !.follow_ups_asked = @ + 1,
            !.current_is_follow_up = TRUE,
            !.current_turn_id = NoTurn,
            !.current_graded = FALSE]

ApplyFollowUp(s) ==
  [s EXCEPT !.state = "ASKING",
            !.follow_ups_asked = @ + 1,
            !.follow_ups_by_item[s.current_item_id] = @ + 1,
            !.current_is_follow_up = TRUE,
            !.current_turn_id = NoTurn,
            !.current_graded = FALSE]

ApplyAsked(s, q) ==
  [s EXCEPT !.state = "ASKING",
            !.asked_question_ids = Append(@, q),
            !.current_item_id = q,
            !.current_is_follow_up = FALSE,
            !.current_turn_id = NoTurn,
            !.current_graded = FALSE]

(* A follow-up's half-stake step is not a new item: it leaves the run of   *)
(* small steps alone.                                                      *)
ApplyGraded(s, e) ==
  [s EXCEPT !.current_graded = TRUE,
            !.precise = e.precise,
            !.small_run = IF s.current_is_follow_up THEN @
                          ELSE IF e.small THEN @ + 1 ELSE 0]

Apply(s, e) ==
  CASE e.type = "QUESTION_ASKED" /\ e.is_follow_up  -> ApplyFollowUp(s)
    [] e.type = "QUESTION_ASKED" /\ ~e.is_follow_up -> ApplyAsked(s, e.question_id)
    [] e.type = "ANSWER_SUBMITTED" ->
         [s EXCEPT !.state = "GRADING", !.current_turn_id = e.turn_id,
                   !.current_graded = FALSE]
    [] e.type = "ANSWER_GRADED" -> ApplyGraded(s, e)
    [] OTHER -> [s EXCEPT !.state = Transitions[e.type].to]

(* stage_append: the states an event can be staged into - none when apply  *)
(* raises, which rolls the caller's transaction back.                      *)
Stage(s, e) == IF Accepts(s, e) THEN {Apply(s, e)} ELSE {}
StageAll(S, e) == UNION {Stage(s, e) : s \in S}

(* The events PAYLOAD_MODELS lets through: each type with its own fields.  *)
Validated ==
  {Plain(type) : type \in EventType \ {"QUESTION_ASKED", "ANSWER_SUBMITTED",
                                       "ANSWER_GRADED", "GRADING_FAILED"}}
    \cup {Asked(q) : q \in Items} \cup {FollowUpAsked}
    \cup {Submitted(t) : t \in Turns}
    \cup {Graded(t, p, s) : t \in Turns, p \in BOOLEAN, s \in BOOLEAN}
    \cup {GradingFailed(t) : t \in Turns}

(* fold: the state a log replays to.                                       *)
Fold(events) ==
  LET after[n \in 0..Len(events)] ==
        IF n = 0 THEN Initial ELSE Apply(after[n - 1], events[n])
  IN  after[Len(events)]
=============================================================================
