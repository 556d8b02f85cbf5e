--------------------------- MODULE InterviewScreen ---------------------------
(***************************************************************************)
(* One interview screen and the server it follows: the snapshot it renders *)
(* from (GET /api/sessions/{id}), the stream of events it advances by      *)
(* (GET .../stream, app/interview/stream.py) and the model it keeps        *)
(* (frontend, pages/interview/useInterview.ts and interviewModel.ts).      *)
(*                                                                         *)
(* Every await of the screen separates two actions: a snapshot may arrive  *)
(* after the stream has moved on, a connection may drop with messages      *)
(* under way, a reload aborts what was in flight.                          *)
(*                                                                         *)
(* The log grows by the decisions the handlers of module Interview commit. *)
(* Left out: keepalives, how bytes become messages, and a log that cannot  *)
(* be read (which ends the stream with an error message).                  *)
(***************************************************************************)
EXTENDS InterviewLog, Integers

CONSTANTS
  MaxLog,      \* bound: events in the log
  MaxDrops,    \* bound: connections that drop
  MaxReloads,  \* bound: re-reads of the snapshot asked for by the candidate
  MaxLost      \* bound: requests for a session or a turn that fail

ASSUME ScreenBounds == /\ MaxLog \in Nat /\ MaxDrops \in Nat
                       /\ MaxReloads \in Nat /\ MaxLost \in Nat

VARIABLES
  log,           \* committed interview_events, in seq order
  turn_failed,   \* the current turn's row says grading failed
  load,          \* what the page shows: loading, ready or error
  view,          \* the applied view (viewRef)
  request,       \* the read of the snapshot under way
  stream,        \* the event stream, both of its ends
  faults         \* bounds: how often each fault has happened

vars == <<log, turn_failed, load, view, request, stream, faults>>
server == <<log, turn_failed>>

(* A row of the log, with the state the log replays to after it.           *)
Row == [event : Event, state : SessionState]
Created == [event |-> Plain("SESSION_CREATED"),
            state |-> Apply(Initial, Plain("SESSION_CREATED"))]

HeadSeq == Len(log) - 1
EventAt(seq) == log[seq + 1].event
StateAt(seq) == log[seq + 1].state
Current      == StateAt(HeadSeq)

(***************************************************************************)
(* What the screen knows.  A follow-up has wording but no bank item.       *)
(* question_seq names the question: the answer form is mounted afresh when *)
(* it changes.                                                             *)
(***************************************************************************)
Question == [item : Items \cup {NoItem}, is_follow_up : BOOLEAN]
NoQuestion == [item |-> NoItem, is_follow_up |-> FALSE]
FollowUpQuestion == [item |-> NoItem, is_follow_up |-> TRUE]

Review == {"none", "pending", "failed"}

View == [seq : Nat \cup {-1}, state : InterviewState \cup {EMPTY},
         question : Question, question_seq : Nat \cup {-1},
         asked : Nat, follow_ups : Nat, turn : Turns \cup {NoTurn},
         review : Review]
NoView == [seq |-> -1, state |-> EMPTY, question |-> NoQuestion,
           question_seq |-> -1, asked |-> 0, follow_ups |-> 0,
           turn |-> NoTurn, review |-> "none"]

(* get_session's _question: what the candidate is answering or has just    *)
(* answered, nothing before the first question and after the last.         *)
QuestionOf(s) ==
  IF s.state \notin {"ASKING", "GRADING", "PROBING", "SELECTING"} THEN NoQuestion
  ELSE IF s.current_is_follow_up THEN FollowUpQuestion
  ELSE [item |-> s.current_item_id, is_follow_up |-> FALSE]

(* get_session, then fromSnapshot.                                         *)
Snapshot(s, seq) ==
  [seq |-> seq, state |-> s.state, question |-> QuestionOf(s),
   question_seq |-> IF s.state = "ASKING" THEN seq ELSE -1,
   asked |-> Len(s.asked_question_ids), follow_ups |-> s.follow_ups_asked,
   turn |-> IF s.state = "GRADING" THEN s.current_turn_id ELSE NoTurn,
   review |-> IF s.state = "GRADING" THEN "pending" ELSE "none"]

(***************************************************************************)
(* applyEvent: the view after the next event of the log.                   *)
(***************************************************************************)
Message == [seq : Nat, event : Event, state : InterviewState]
MessageAt(seq) ==
  [seq |-> seq, event |-> EventAt(seq), state |-> StateAt(seq).state]

(* Seeded bug: an event that was already applied is applied again.         *)
NothingAlreadyApplied(v, m) == FALSE

AlreadyApplied(v, m) == m.seq <= v.seq
Gap(v, m) == m.seq > v.seq + 1

NextQuestion(v, m) ==
  [v EXCEPT !.question = IF m.event.is_follow_up THEN FollowUpQuestion
                         ELSE [item |-> m.event.question_id, is_follow_up |-> FALSE],
            !.question_seq = m.seq,
            !.asked = IF m.event.is_follow_up THEN @ ELSE @ + 1,
            !.follow_ups = IF m.event.is_follow_up THEN @ + 1 ELSE @,
            !.turn = NoTurn, !.review = "none"]

InterviewOver(v) == [v EXCEPT !.question = NoQuestion, !.turn = NoTurn, !.review = "none"]

ApplyEvent(v, m) ==
  LET next == [v EXCEPT !.seq = m.seq, !.state = m.state]
  IN  CASE m.event.type = "ANSWER_SUBMITTED" ->
             [next EXCEPT !.turn = m.event.turn_id, !.review = "pending"]
        [] m.event.type = "ANSWER_GRADED"  -> [next EXCEPT !.review = "pending"]
        [] m.event.type = "GRADING_FAILED" -> [next EXCEPT !.review = "failed"]
        [] m.event.type = "QUESTION_ASKED" -> NextQuestion(next, m)
        [] m.state \in {"REPORTING", "COMPLETED"} -> InterviewOver(next)
        [] OTHER -> next

-----------------------------------------------------------------------------
(***************************************************************************)
(* The server's log: the decisions of module Interview, each committed as  *)
(* a whole.                                                                *)
(***************************************************************************)
Onward ==
  {<<Plain("FOLLOW_UP_STARTED")>>, <<Plain("REPORTING_STARTED")>>,
   <<Plain("SELECTION_STARTED"), Plain("REPORTING_STARTED")>>}
    \cup {<<Plain("SELECTION_STARTED"), Asked(q)>> : q \in Items}

GradedThen(t, then) == <<Graded(t, FALSE, FALSE)>> \o then

Decisions ==
  {<<Plain("PREPARATION_STARTED"), Asked(q)>> : q \in Items}
    \cup {<<Submitted(t)>> : t \in Turns}
    \cup {<<GradingFailed(t)>> : t \in Turns}
    \cup {GradedThen(t, then) : t \in Turns, then \in Onward}
    \cup {<<FollowUpAsked>>, <<Plain("SESSION_COMPLETED")>>,
          <<Plain("FOLLOW_UP_ABANDONED"), Plain("REPORTING_STARTED")>>}
    \cup {<<Plain("FOLLOW_UP_ABANDONED"), Asked(q)>> : q \in Items}

(* The states a decision leads through, each in a set that is empty when   *)
(* its event is not legal there.                                           *)
Through(decision) ==
  LET after[i \in 0..Len(decision)] ==
        IF i = 0 THEN {Current} ELSE StageAll(after[i - 1], decision[i])
  IN  after

(* A turn id is used once (turns has it unique).                           *)
TurnIsNew(event) ==
  event.type = "ANSWER_SUBMITTED" =>
    \A i \in 1..Len(log) : log[i].event # event

Decide ==
  /\ \E decision \in Decisions :
       /\ Len(log) + Len(decision) <= MaxLog
       /\ ~turn_failed
       /\ TurnIsNew(decision[1])
       /\ Through(decision)[Len(decision)] # {}
       /\ log' = log \o [i \in 1..Len(decision) |->
                           [event |-> decision[i],
                            state |-> CHOOSE s \in Through(decision)[i] : TRUE]]
       /\ turn_failed' = (decision[1].type = "GRADING_FAILED")
  /\ UNCHANGED <<load, view, request, stream, faults>>

(* An operator re-queues the failed turn; the log does not say so.         *)
Requeue ==
  /\ turn_failed
  /\ turn_failed' = FALSE
  /\ UNCHANGED <<log, load, view, request, stream, faults>>

(***************************************************************************)
(* The stream.  "waiting" is a client about to connect (again); what is on *)
(* the wire is what the server has yielded and the client has not read.    *)
(***************************************************************************)
Stream == [status : {"closed", "waiting", "open"}, after : Nat \cup {-1},
           at : Nat \cup {-1}, wire : Seq(Message)]
Closed  == [status |-> "closed", after |-> -1, at |-> -1, wire |-> <<>>]
Waiting == [Closed EXCEPT !.status = "waiting"]

(* The stream a page in this condition runs: none before a snapshot has    *)
(* been read, while it cannot be read, and once the interview is over.     *)
StreamFor(page, v) ==
  IF page = "ready" /\ v.state # "COMPLETED" THEN Waiting ELSE Closed

(* Seeded bug: a reconnecting client asks for one event too few.           *)
ConnectAfterNext ==
  /\ stream.status = "waiting"
  /\ stream' = [Closed EXCEPT !.status = "open", !.after = view.seq + 1]
  /\ UNCHANGED <<server, load, view, request, faults>>

(* Last-Event-ID is the last seq applied.                                  *)
Connect ==
  /\ stream.status = "waiting"
  /\ stream' = [Closed EXCEPT !.status = "open", !.after = view.seq]
  /\ UNCHANGED <<server, load, view, request, faults>>

(* One poll of event_stream: apply every new event of the log, yield those *)
(* after the one the client has, which is all beyond both of its ends.     *)
Unread(after, from) ==
  LET read == IF after > from THEN after ELSE from
  IN  [i \in 1..(HeadSeq - read) |-> MessageAt(read + i)]

Poll ==
  /\ stream.status = "open"
  /\ stream.at < HeadSeq
  /\ stream' = [stream EXCEPT !.at = HeadSeq,
                              !.wire = @ \o Unread(stream.after, stream.at)]
  /\ UNCHANGED <<server, load, view, request, faults>>

(* Seeded bug: a dropped connection is taken for the end of the stream.    *)
DropForGood ==
  /\ stream.status = "open"
  /\ faults.drops < MaxDrops
  /\ stream' = Closed
  /\ faults' = [faults EXCEPT !.drops = @ + 1]
  /\ UNCHANGED <<server, load, view, request>>

Drop ==
  /\ stream.status = "open"
  /\ faults.drops < MaxDrops
  /\ stream' = Waiting
  /\ faults' = [faults EXCEPT !.drops = @ + 1]
  /\ UNCHANGED <<server, load, view, request>>

(***************************************************************************)
(* The snapshot: read the session; in GRADING, ask whether the review was  *)
(* already given up on; then replace the view unless it has moved past.    *)
(***************************************************************************)
Request == [status : {"none", "session", "turn", "answered"}, snapshot : View]
NoRequest == [status |-> "none", snapshot |-> NoView]
Reading   == [status |-> "session", snapshot |-> NoView]

ReadSession ==
  /\ request.status = "session"
  /\ LET snapshot == Snapshot(Current, HeadSeq)
     IN  request' = [status |-> IF snapshot.state = "GRADING" THEN "turn" ELSE "answered",
                     snapshot |-> snapshot]
  /\ UNCHANGED <<server, load, view, stream, faults>>

(* Seeded bugs: the row's own status is shown, or no status at all.        *)
ReviewInRow(snapshot) == IF turn_failed THEN "failed" ELSE "processing"
ReviewIgnored(snapshot) == "pending"

(* withTurnStatus                                                          *)
ReviewIn(snapshot) ==
  IF turn_failed /\ Current.current_turn_id = snapshot.turn THEN "failed" ELSE "pending"

ReadTurn ==
  /\ request.status = "turn"
  /\ request' = [status |-> "answered",
                 snapshot |-> [request.snapshot EXCEPT !.review = ReviewIn(request.snapshot)]]
  /\ UNCHANGED <<server, load, view, stream, faults>>

(* "Not fatal": the screen goes on with the snapshot as it is.             *)
ReadTurnFails ==
  /\ request.status = "turn"
  /\ faults.lost < MaxLost
  /\ request' = [request EXCEPT !.status = "answered"]
  /\ faults' = [faults EXCEPT !.lost = @ + 1]
  /\ UNCHANGED <<server, load, view, stream>>

(* Seeded bug: the newest answer wins, however old its snapshot.           *)
SnapshotAlwaysCurrent(snapshot) == TRUE

SnapshotIsCurrent(snapshot) == snapshot.seq >= view.seq

TakeSnapshot ==
  /\ request.status = "answered"
  /\ view' = IF SnapshotIsCurrent(request.snapshot) THEN request.snapshot ELSE view
  /\ load' = "ready"
  /\ stream' = IF load # "ready" \/ view'.state = "COMPLETED"
                 THEN StreamFor("ready", view') ELSE stream
  /\ request' = NoRequest
  /\ UNCHANGED <<server, faults>>

ReadSessionFails ==
  /\ request.status = "session"
  /\ faults.lost < MaxLost
  /\ faults' = [faults EXCEPT !.lost = @ + 1]
  /\ load' = "error"
  /\ request' = NoRequest
  /\ stream' = Closed
  /\ UNCHANGED <<server, view>>

(* A reload aborts the read and the stream under way and starts both anew. *)
StartOver(v) ==
  /\ load' = IF load = "ready" THEN "ready" ELSE "loading"
  /\ request' = Reading
  /\ stream' = StreamFor(load', v)

Reload ==
  /\ load # "loading"
  /\ faults.reloads < MaxReloads
  /\ faults' = [faults EXCEPT !.reloads = @ + 1]
  /\ StartOver(view)
  /\ UNCHANGED <<server, view>>

(* The screen reads one message: it ignores what it has, re-reads the      *)
(* snapshot when something is missing, and otherwise applies it.  The      *)
(* stream ends with session_complete.                                      *)
Deliver ==
  /\ stream.wire # <<>>
  /\ LET m == Head(stream.wire)
         next == IF AlreadyApplied(view, m) \/ Gap(view, m) THEN view
                                                            ELSE ApplyEvent(view, m)
     IN  /\ view' = next
         /\ IF Gap(view, m) /\ ~AlreadyApplied(view, m) THEN StartOver(view)
            ELSE /\ stream' = IF m.event.type = "SESSION_COMPLETED" THEN Closed
                              ELSE [stream EXCEPT !.wire = Tail(@)]
                 /\ UNCHANGED <<load, request>>
  /\ UNCHANGED <<server, faults>>

-----------------------------------------------------------------------------
Init ==
  /\ log = <<Created>>
  /\ turn_failed = FALSE
  /\ load = "loading"
  /\ view = NoView
  /\ request = Reading
  /\ stream = Closed
  /\ faults = [drops |-> 0, reloads |-> 0, lost |-> 0]

Server == Decide \/ Requeue

Screen == \/ ReadSession \/ ReadTurn \/ TakeSnapshot
          \/ Connect \/ Poll \/ Deliver

Faults == ReadSessionFails \/ ReadTurnFails \/ Drop \/ Reload

Next == Server \/ Screen \/ Faults

Spec == Init /\ [][Next]_vars

(* Requests are answered, the reconnect loop retries and the server polls; *)
(* nothing obliges the interview to go on or the candidate to reload.      *)
FairSpec == /\ Spec
            /\ WF_vars(ReadSession) /\ WF_vars(ReadTurn) /\ WF_vars(TakeSnapshot)
            /\ WF_vars(Connect) /\ WF_vars(Poll) /\ WF_vars(Deliver)

-----------------------------------------------------------------------------
(* The values the variables may take.                                      *)
TypeOK ==
  /\ log \in Seq(Row) /\ log # <<>>
  /\ turn_failed \in BOOLEAN
  /\ load \in {"loading", "ready", "error"}
  /\ view \in View
  /\ request \in Request
  /\ stream \in Stream
  /\ faults \in [drops : Nat, reloads : Nat, lost : Nat]

(* The screen shows what the server recorded: whatever mixture of          *)
(* snapshots and events led to it, the view is the one a fresh snapshot at *)
(* its seq would give, the question keeps the name its answer form is      *)
(* mounted under, and only a recorded failure is shown as one.             *)
ViewIsTheLog ==
  view.seq # -1 =>
    LET fresh == Snapshot(StateAt(view.seq), view.seq)
    IN  /\ view.state = fresh.state /\ view.question = fresh.question
        /\ view.asked = fresh.asked /\ view.follow_ups = fresh.follow_ups
        /\ view.state = "ASKING"  => view.question_seq = fresh.question_seq
        /\ view.state = "GRADING" => view.turn = fresh.turn /\ view.review # "none"
        /\ view.review = "failed" =>
             /\ view.state = "GRADING"
             /\ \E i \in 1..Len(log) : log[i].event = GradingFailed(view.turn)

(* "Nothing twice, nothing missed": the next message is never past the one *)
(* the screen waits for, whatever was read, dropped or reloaded meanwhile, *)
(* so an event never has to be guessed or re-read.                         *)
NeverAGap == stream.wire # <<>> => ~Gap(view, Head(stream.wire))

(* A slow snapshot never rolls the screen back behind what it has shown.   *)
NeverRollsBack == [][view'.seq >= view.seq]_vars

(* A screen that has read everything says so when a review was given up    *)
(* on, instead of waiting for a grade nobody is working on.                *)
FailedReviewIsShown ==
  load = "ready" /\ request.status = "none" /\ turn_failed
    /\ view.state = "GRADING" /\ view.seq = HeadSeq => view.review = "failed"

(* The same as long as no request was lost.                                *)
FailedReviewIsShownUnlessLost == faults.lost = 0 => FailedReviewIsShown

(* What the screen shows is what the log said, and the next message fits.  *)
ScreenIsTrue == ViewIsTheLog /\ NeverAGap /\ FailedReviewIsShownUnlessLost

(* The screen catches up with every event, drops and reloads included,     *)
(* unless it says that the interview could not be loaded.                  *)
CatchesUp == []<>(view.seq = HeadSeq \/ load = "error")

(* The screen only moves forward, and it gets there.                       *)
KeepsUp == NeverRollsBack /\ CatchesUp

(***************************************************************************)
(* The inductive invariant behind the theorems.                            *)
(***************************************************************************)
(* Every row follows from the one before it; a turn id names one answer,   *)
(* and once that is graded it stays so.                                    *)
Legal(rows) ==
  /\ rows \in Seq(Row) /\ rows # <<>> /\ rows[1] = Created
  /\ \A i \in 1..Len(rows) :
       LET s == rows[i].state
       IN  /\ rows[i].event \in Validated
           /\ i > 1 => s \in Stage(rows[i - 1].state, rows[i].event)
           /\ s.state = "GRADING" => s.current_turn_id \in Turns
           /\ s.current_turn_id # NoTurn =>
                \E j \in 1..i : rows[j].event = Submitted(s.current_turn_id)
  /\ \A i, j \in 1..Len(rows) :
       LET s == rows[i].state
           t == rows[j].state
       IN  i <= j /\ s.current_turn_id = t.current_turn_id /\ s.current_turn_id # NoTurn
             /\ s.current_graded => t.current_graded

(* A row that says failed is about the answer the log failed last.         *)
FailureIsLast ==
  turn_failed => /\ log[Len(log)].event = GradingFailed(Current.current_turn_id)
                 /\ Current.state = "GRADING" /\ ~Current.current_graded

(* A view of the state a session had at the view's seq.  A review that is  *)
(* shown as failed had no grade then, so no later event leaves it behind.  *)
Matches(v, s) ==
  LET fresh == Snapshot(s, v.seq)
  IN  /\ v.state = fresh.state /\ v.question = fresh.question
      /\ v.asked = fresh.asked /\ v.follow_ups = fresh.follow_ups
      /\ v.state = "ASKING"  => v.question_seq = fresh.question_seq
      /\ v.state = "GRADING" => v.turn = fresh.turn /\ v.review # "none"
      /\ v.review = "failed" => v.state = "GRADING" /\ ~s.current_graded

Shows(v, rows) ==
  /\ v.seq \in 0..(Len(rows) - 1)
  /\ Matches(v, rows[v.seq + 1].state)
  /\ v.review = "failed" => \E i \in 1..Len(rows) : rows[i].event = GradingFailed(v.turn)

ViewsShowTheLog ==
  /\ view.seq # -1 => Shows(view, log)
  /\ load = "ready" => view.seq # -1
  /\ request.status \in {"turn", "answered"} => Shows(request.snapshot, log)
  /\ request.status = "turn" => request.snapshot.state = "GRADING"

(* The wire holds the log's messages in order, up to what was polled; an   *)
(* empty one leaves nothing out, and a full one begins where the view ends *)
(* or before.                                                              *)
StreamFollows ==
  LET wire == stream.wire
  IN  /\ stream.status # "closed" => load = "ready"
      /\ stream.status # "open" => wire = <<>> /\ stream.at = -1 /\ stream.after = -1
      /\ stream.after <= view.seq /\ stream.at <= HeadSeq
      /\ wire = <<>> => stream.at <= view.seq
      /\ wire # <<>> => /\ wire[1].seq <= view.seq + 1
                        /\ stream.after < stream.at
      /\ \A i \in 1..Len(wire) : LET seq == stream.at - Len(wire) + i
                                  IN  seq \in 0..HeadSeq /\ wire[i] = MessageAt(seq)

(* Whoever has read the log to its end knows that the review failed, if no *)
(* request was lost.                                                       *)
FailuresAreSeen ==
  turn_failed /\ faults.lost = 0 =>
    /\ view.seq = HeadSeq => view.review = "failed"
    /\ request.status = "answered" /\ request.snapshot.seq = HeadSeq
         => request.snapshot.review = "failed"

ScreenInv == /\ TypeOK /\ Legal(log) /\ FailureIsLast /\ ViewsShowTheLog
             /\ StreamFollows /\ FailuresAreSeen
=============================================================================
