------------------------ MODULE InterviewLogProofs ------------------------
(***************************************************************************)
(* What one event does to a session's state, and what a log folds to: the  *)
(* lemmas every proof about sessions rests on.                             *)
(***************************************************************************)
EXTENDS InterviewLog, SumLemmas

(* The domain of the transition table, written out.                        *)
LEMMA EventTypes ==
  EventType = {"SESSION_CREATED", "PREPARATION_STARTED", "QUESTION_ASKED",
               "ANSWER_SUBMITTED", "ANSWER_GRADED", "GRADING_FAILED",
               "FOLLOW_UP_STARTED", "FOLLOW_UP_ABANDONED", "SELECTION_STARTED",
               "REPORTING_STARTED", "SESSION_COMPLETED"}
  BY DEF EventType, Transitions

(* Every state the table enters is a state of the machine.                 *)
LEMMA TransitionTargets ==
  ASSUME NEW e \in EventType
  PROVE  Transitions[e].to \in InterviewState
  BY EventTypes DEF Transitions, InterviewState

(* The constructors build events.                                          *)
LEMMA Constructors ==
  /\ \A type \in EventType : Plain(type) \in Event /\ Plain(type).type = type
  /\ \A q \in Items : Asked(q) \in Event
  /\ FollowUpAsked \in Event
  /\ \A t \in Turns : /\ Submitted(t) \in Event
                      /\ GradingFailed(t) \in Event
                      /\ \A p, m \in BOOLEAN : Graded(t, p, m) \in Event
  BY EventTypes DEF Plain, Asked, FollowUpAsked, Submitted, GradingFailed, Graded, Event

(* The empty log folds to a well-formed state.                             *)
LEMMA InitialType == Initial \in SessionState
  BY DEF Initial, SessionState

(* apply keeps a session state well-formed whatever event it accepts.      *)
LEMMA ApplyType ==
  ASSUME NEW s \in SessionState, NEW e \in Event, Accepts(s, e)
  PROVE  Apply(s, e) \in SessionState
<1>1. CASE e.type = "QUESTION_ASKED" /\ e.is_follow_up
  <2>1. s.current_item_id \in Items
    BY <1>1 DEF Accepts, AskAccepted, FollowUpRoom, SessionState
  <2>2. [s.follow_ups_by_item EXCEPT ![s.current_item_id] = @ + 1] \in [Items -> Nat]
    BY <2>1 DEF SessionState
  <2>3. \A counts \in [Items -> Nat], total \in Nat :
          [s EXCEPT !.state = "ASKING", !.follow_ups_asked = total,
                    !.follow_ups_by_item = counts, !.current_is_follow_up = TRUE,
                    !.current_turn_id = NoTurn, !.current_graded = FALSE] \in SessionState
    BY DEF SessionState, InterviewState
  <2>4. s.follow_ups_asked + 1 \in Nat
    BY DEF SessionState
  <2>5. ApplyFollowUp(s) \in SessionState
    BY <2>2, <2>3, <2>4 DEF ApplyFollowUp, SessionState
  <2> QED BY <1>1, <2>5 DEF Apply
<1>2. CASE e.type = "QUESTION_ASKED" /\ ~e.is_follow_up
  <2>1. e.question_id \in Items
    BY <1>2 DEF Accepts, AskAccepted, Event
  <2>2. Append(s.asked_question_ids, e.question_id) \in Seq(Items)
    BY <2>1 DEF SessionState
  <2>3. ApplyAsked(s, e.question_id) \in SessionState
    BY <2>1, <2>2 DEF ApplyAsked, SessionState, InterviewState
  <2> QED BY <1>2, <2>3 DEF Apply
<1>3. CASE e.type = "ANSWER_SUBMITTED"
  BY <1>3 DEF Apply, SessionState, InterviewState, Event
<1>4. CASE e.type = "ANSWER_GRADED"
  <2> DEFINE run == IF s.current_is_follow_up THEN s.small_run
                    ELSE IF e.small THEN s.small_run + 1 ELSE 0
  <2>1. run \in Nat
    BY DEF SessionState
  <2>2. Apply(s, e) = [s EXCEPT !.current_graded = TRUE, !.precise = e.precise,
                                !.small_run = run]
    BY <1>4 DEF Apply, ApplyGraded
  <2> HIDE DEF run
  <2> QED BY <2>1, <2>2 DEF SessionState, Event
<1>5. CASE e.type \notin {"QUESTION_ASKED", "ANSWER_SUBMITTED", "ANSWER_GRADED"}
  <2>1. Transitions[e.type].to \in InterviewState
    BY TransitionTargets DEF Event
  <2> QED BY <1>5, <2>1 DEF Apply, SessionState
<1> QED BY <1>1, <1>2, <1>3, <1>4, <1>5 DEF Event

(* A staged event was accepted and its state is well-formed.               *)
LEMMA StageType ==
  ASSUME NEW s \in SessionState, NEW e \in Event, NEW x \in Stage(s, e)
  PROVE  Accepts(s, e) /\ x = Apply(s, e) /\ x \in SessionState
  BY ApplyType DEF Stage

(* An accepted event never leads back to the empty log's state.            *)
LEMMA ApplyLeavesEmpty ==
  ASSUME NEW s \in SessionState, NEW e \in Event, Accepts(s, e)
  PROVE  Apply(s, e).state \in InterviewState
<1>1. CASE e.type = "QUESTION_ASKED"
  BY <1>1 DEF Apply, ApplyFollowUp, ApplyAsked, SessionState, InterviewState, Event
<1>2. CASE e.type = "ANSWER_SUBMITTED"
  BY <1>2 DEF Apply, SessionState, InterviewState
<1>3. CASE e.type = "ANSWER_GRADED"
  <2>1. s.state = "GRADING"
    BY <1>3 DEF Accepts, Transitions
  <2>2. Apply(s, e).state = s.state
    BY <1>3 DEF Apply, ApplyGraded, SessionState
  <2> QED BY <2>1, <2>2 DEF InterviewState
<1>4. CASE e.type \notin {"QUESTION_ASKED", "ANSWER_SUBMITTED", "ANSWER_GRADED"}
  <2>1. Transitions[e.type].to \in InterviewState
    BY TransitionTargets DEF Event
  <2>2. Apply(s, e).state = Transitions[e.type].to
    BY <1>4 DEF Apply, SessionState
  <2> QED BY <2>1, <2>2
<1> QED BY <1>1, <1>2, <1>3, <1>4

(* A plain event only moves the state, to the table's target.              *)
LEMMA StagePlain ==
  ASSUME NEW s \in SessionState, NEW type \in EventType,
         type \notin {"QUESTION_ASKED", "ANSWER_SUBMITTED", "ANSWER_GRADED"},
         NEW x \in Stage(s, Plain(type))
  PROVE  /\ x \in SessionState
         /\ s.state \in Transitions[type].from
         /\ x = [s EXCEPT !.state = Transitions[type].to]
<1>1. Plain(type) \in Event /\ Plain(type).type = type
  BY Constructors
<1>2. Accepts(s, Plain(type)) /\ x = Apply(s, Plain(type)) /\ x \in SessionState
  BY <1>1, StageType
<1> QED BY <1>1, <1>2 DEF Accepts, Apply

(* A bank question asked leads to ASKING.                                  *)
LEMMA StageAskedState ==
  ASSUME NEW s \in SessionState, NEW q \in Items, NEW x \in Stage(s, Asked(q))
  PROVE  x \in SessionState /\ x.state = "ASKING"
<1>1. Asked(q) \in Event
  BY Constructors
<1>2. x = Apply(s, Asked(q)) /\ x \in SessionState
  BY <1>1, StageType
<1>3. Asked(q).type = "QUESTION_ASKED" /\ ~Asked(q).is_follow_up
      /\ Asked(q).question_id = q
  BY DEF Asked, Plain
<1>4. x = ApplyAsked(s, q)
  BY <1>2, <1>3 DEF Apply
<1> QED BY <1>2, <1>4 DEF ApplyAsked, SessionState

(* The states after each event of a log, as far as the n-th.               *)
Replay(f, events, n) ==
  f = [i \in 0..n |-> IF i = 0 THEN Initial ELSE Apply(f[i - 1], events[i])]

(* Fold is the last state of a replay; this only unfolds its definition.   *)
LEMMA FoldIsChosen ==
  ASSUME NEW events
  PROVE  Fold(events) = (CHOOSE f : Replay(f, events, Len(events)))[Len(events)]
  BY DEF Fold, Replay

(* Every log can be replayed to any point.                                 *)
LEMMA ReplayExists ==
  ASSUME NEW events
  PROVE  \A n \in Nat : \E f : Replay(f, events, n)
<1> DEFINE S == {n \in Nat : \E f : Replay(f, events, n)}
<1>1. 0 \in S
  <2> DEFINE f == [i \in 0..0 |-> Initial]
  <2>1. Replay(f, events, 0)
    BY DEF Replay
  <2> QED BY <2>1
<1>2. ASSUME NEW n \in Nat, n \in S
      PROVE  n + 1 \in S
  <2>1. PICK f : Replay(f, events, n)
    BY <1>2
  <2> DEFINE g == [i \in 0..(n + 1) |-> IF i <= n THEN f[i] ELSE Apply(f[n], events[n + 1])]
  <2>2. \A i \in 0..n : f[i] = IF i = 0 THEN Initial ELSE Apply(f[i - 1], events[i])
    BY <2>1 DEF Replay
  <2>3. \A i \in 0..n : g[i] = f[i]
    OBVIOUS
  <2>4. g[n + 1] = Apply(f[n], events[n + 1])
    OBVIOUS
  <2>5. \A i \in 0..(n + 1) : g[i] = IF i = 0 THEN Initial ELSE Apply(g[i - 1], events[i])
    <3> TAKE i \in 0..(n + 1)
    <3>1. CASE i = 0
      BY <3>1, <2>2, <2>3
    <3>2. CASE i \in 1..n
      <4>1. i - 1 \in 0..n /\ i \in 0..n /\ i # 0
        BY <3>2
      <4>2. g[i - 1] = f[i - 1] /\ g[i] = f[i]
        BY <4>1, <2>3
      <4>3. f[i] = Apply(f[i - 1], events[i])
        BY <4>1, <2>2
      <4> HIDE DEF g
      <4> QED BY <4>1, <4>2, <4>3
    <3>3. CASE i = n + 1
      <4>1. i # 0 /\ i - 1 = n /\ n \in 0..n
        BY <3>3
      <4>2. g[i - 1] = f[n]
        BY <4>1, <2>3
      <4>3. g[i] = Apply(f[n], events[i])
        BY <3>3, <2>4
      <4> HIDE DEF g
      <4> QED BY <4>1, <4>2, <4>3
    <3> QED BY <3>1, <3>2, <3>3
  <2>6. Replay(g, events, n + 1)
    <3>1. g = [i \in 0..(n + 1) |-> g[i]]
      OBVIOUS
    <3> HIDE DEF g
    <3> QED BY <3>1, <2>5 DEF Replay
  <2> QED BY <2>6
<1> HIDE DEF S
<1>3. \A n \in Nat : n \in S
  BY <1>1, <1>2, NatSetInduction
<1> QED BY <1>3 DEF S

(* Replays of two logs agree as far as the logs do.                        *)
LEMMA ReplaysAgree ==
  ASSUME NEW d, NEW e, NEW m \in Nat, NEW k \in Nat, m <= k,
         \A i \in 1..m : d[i] = e[i],
         NEW f, Replay(f, d, m), NEW g, Replay(g, e, k)
  PROVE  f[m] = g[m]
<1> DEFINE S == {n \in Nat : n <= m => f[n] = g[n]}
<1>1. \A n \in 0..m : f[n] = IF n = 0 THEN Initial ELSE Apply(f[n - 1], d[n])
  BY DEF Replay
<1>2. \A n \in 0..k : g[n] = IF n = 0 THEN Initial ELSE Apply(g[n - 1], e[n])
  BY DEF Replay
<1>3. 0 \in S
  <2>1. 0 \in 0..m /\ 0 \in 0..k
    OBVIOUS
  <2> QED BY <1>1, <1>2, <2>1
<1>4. ASSUME NEW n \in Nat, n \in S
      PROVE  n + 1 \in S
  <2> SUFFICES ASSUME n + 1 <= m PROVE f[n + 1] = g[n + 1]
    OBVIOUS
  <2>1. n + 1 \in 0..m /\ n + 1 \in 0..k /\ n + 1 \in 1..m /\ n <= m
    OBVIOUS
  <2>2. n + 1 # 0 /\ (n + 1) - 1 = n
    OBVIOUS
  <2>3. f[n + 1] = Apply(f[n], d[n + 1])
    BY <1>1, <2>1, <2>2
  <2>4. g[n + 1] = Apply(g[n], e[n + 1])
    BY <1>2, <2>1, <2>2
  <2>5. f[n] = g[n] /\ d[n + 1] = e[n + 1]
    BY <1>4, <2>1
  <2> QED BY <2>3, <2>4, <2>5
<1> HIDE DEF S
<1>5. m \in S
  BY <1>3, <1>4, NatSetInduction
<1> QED BY <1>5 DEF S

(* fold from the left: one more event applies to what came before.         *)
LEMMA FoldAppend ==
  ASSUME NEW events \in Seq(Event), NEW e \in Event
  PROVE  Fold(Append(events, e)) = Apply(Fold(events), e)
<1> DEFINE longer == Append(events, e)
           n == Len(events)
           f == CHOOSE f : Replay(f, events, n)
           g == CHOOSE g : Replay(g, longer, n + 1)
<1>1. n \in Nat /\ Len(longer) = n + 1 /\ longer[n + 1] = e
  OBVIOUS
<1>2. \A i \in 1..n : events[i] = longer[i]
  OBVIOUS
<1>3. Fold(events) = f[n]
  BY FoldIsChosen
<1>4. Fold(longer) = g[n + 1]
  <2>1. Fold(longer) = (CHOOSE h : Replay(h, longer, Len(longer)))[Len(longer)]
    BY FoldIsChosen
  <2> QED BY <2>1, <1>1
<1>5. Replay(f, events, n)
  <2>1. \E h : Replay(h, events, n)
    BY <1>1, ReplayExists
  <2> QED BY <2>1
<1>6. Replay(g, longer, n + 1)
  <2>1. \A m \in Nat : \E h : Replay(h, longer, m)
    BY ReplayExists
  <2>2. n + 1 \in Nat
    BY <1>1
  <2> HIDE DEF longer, n
  <2>3. \E h : Replay(h, longer, n + 1)
    BY <2>1, <2>2
  <2> QED BY <2>3
<1> HIDE DEF f, g, longer, n
<1>7. f[n] = g[n]
  <2>1. n <= n + 1 /\ n + 1 \in Nat
    BY <1>1
  <2> QED BY <1>1, <1>2, <1>5, <1>6, <2>1, ReplaysAgree
<1>8. g[n + 1] = Apply(g[n], longer[n + 1])
  <2>1. n + 1 \in 0..(n + 1) /\ n + 1 # 0 /\ (n + 1) - 1 = n
    BY <1>1
  <2> QED BY <1>6, <2>1 DEF Replay
<1> QED BY <1>1, <1>3, <1>4, <1>7, <1>8 DEF longer

(* A log of one event folds to that event applied to nothing.              *)
LEMMA FoldOne ==
  ASSUME NEW e \in Event
  PROVE  Fold(<<e>>) = Apply(Initial, e)
<1>1. Fold(<<>>) = Initial
  <2> DEFINE f == CHOOSE f : Replay(f, <<>>, 0)
  <2>1. Fold(<<>>) = f[0]
    <3>1. Len(<<>>) = 0
      OBVIOUS
    <3> QED BY <3>1, FoldIsChosen
  <2>2. \E h : Replay(h, <<>>, 0)
    BY ReplayExists
  <2>3. Replay(f, <<>>, 0)
    BY <2>2
  <2> HIDE DEF f
  <2>4. f[0] = Initial
    BY <2>3 DEF Replay
  <2> QED BY <2>1, <2>4
<1>2. <<e>> = Append(<<>>, e) /\ <<>> \in Seq(Event)
  OBVIOUS
<1> QED BY <1>1, <1>2, FoldAppend

(* The states of a legal log are well-formed.                              *)
LEMMA FoldAppendType ==
  ASSUME NEW events \in Seq(Event), NEW e \in Event,
         Fold(events) \in SessionState, Accepts(Fold(events), e)
  PROVE  Fold(Append(events, e)) \in SessionState
  BY FoldAppend, ApplyType

(* What validate_payload lets through is an event.                         *)
LEMMA ValidatedEvents == Validated \subseteq Event
  BY Constructors DEF Validated

=============================================================================
