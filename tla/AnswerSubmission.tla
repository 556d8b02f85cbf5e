-------------------------- MODULE AnswerSubmission --------------------------
(***************************************************************************)
(* How an answer reaches the server: the form of a question on one or more *)
(* screens (frontend, pages/interview/AnswerForm.tsx and InterviewPage),   *)
(* requests that are delayed, lost or sent again, and the idempotent       *)
(* handler behind POST /api/sessions/{id}/turns (app/interview/turns.py).  *)
(*                                                                         *)
(* A screen shows the server's state with some delay.  A request whose     *)
(* sender stopped waiting may still arrive, at any time or never; one that *)
(* is never handled is a lost request, a response never read a lost one.   *)
(*                                                                         *)
(* Left out: answers the server refuses for their content (422), which     *)
(* write nothing and leave the form as it was.                             *)
(***************************************************************************)
EXTENDS Naturals, FiniteSets

CONSTANTS
  Slots,         \* browser tabs or devices that may show the interview
  Texts,         \* answers a candidate may write
  NoText,        \* nothing written yet
  MaxQuestions,  \* bound: questions asked
  MaxScreens,    \* bound: screens opened, reloads included
  MaxTurns,      \* bound: turn ids generated
  MaxSends       \* bound: requests sent

ASSUME TextAssumption == NoText \notin Texts
ASSUME SubmissionBounds == /\ MaxQuestions \in Nat \ {0} /\ MaxScreens \in Nat
                           /\ MaxTurns \in Nat /\ MaxSends \in Nat

VARIABLES
  server,     \* the session: its state and the question it is at
  turns,      \* table turns, by turn id
  screen,     \* slot -> what it shows, and its form
  requests,   \* requests on their way
  responses,  \* responses on their way
  meant,      \* history: turn id -> the question its form was shown for
  count       \* bounds: screens opened, ids generated, requests sent

vars == <<server, turns, screen, requests, responses, meant, count>>

TurnIds   == 1..MaxTurns
Attempts  == 1..MaxSends
Questions == 1..MaxQuestions

(* question 0 is a row not inserted.                                       *)
TurnRow == [question : Questions \cup {0}, text : Texts \cup {NoText}]
NoRow   == [question |-> 0, text |-> NoText]
Recorded(t) == turns[t] # NoRow

Session == [state : {"ASKING", "GRADING"}, question : Questions]

(* How far the interview is: each question is asked, then graded.          *)
Position(s) == 2 * s.question + (IF s.state = "GRADING" THEN 1 ELSE 0)

(* AnswerForm: its turn id, its phase, the text it holds or has sent, and  *)
(* the request it waits for (0: none).  "none" is a screen without a form. *)
Phase == {"none", "editing", "sending", "unknown", "accepted"}
Form == [turn : TurnIds \cup {0}, phase : Phase, text : Texts \cup {NoText},
         attempt : Attempts \cup {0}]
NoForm == [turn |-> 0, phase |-> "none", text |-> NoText, attempt |-> 0]
EmptyForm(t) == [turn |-> t, phase |-> "editing", text |-> NoText, attempt |-> 0]

Screen == [open : BOOLEAN, shown : Session, form : Form]
NoScreen == [open |-> FALSE, shown |-> [state |-> "ASKING", question |-> 1],
             form |-> NoForm]

InPhase(i, phase) == screen[i].open /\ screen[i].form.phase = phase

(***************************************************************************)
(* A screen mounts a form, under a new turn id, whenever it starts to show *)
(* a question that is being asked, and drops it with any other state.      *)
(***************************************************************************)
Show(i, session) ==
  IF session.state # "ASKING"
    THEN /\ screen' = [screen EXCEPT ![i] = [open |-> TRUE, shown |-> session,
                                             form |-> NoForm]]
         /\ UNCHANGED meant
    ELSE /\ count.turns < MaxTurns
         /\ screen' = [screen EXCEPT ![i] =
              [open |-> TRUE, shown |-> session,
               form |-> EmptyForm(count.turns + 1)]]
         /\ meant' = [meant EXCEPT ![count.turns + 1] = session.question]

IdsUsed(session) == IF session.state = "ASKING" THEN count.turns + 1 ELSE count.turns

Open(i) ==
  /\ ~screen[i].open
  /\ count.screens < MaxScreens
  /\ Show(i, server)
  /\ count' = [count EXCEPT !.screens = @ + 1, !.turns = IdsUsed(server)]
  /\ UNCHANGED <<server, turns, requests, responses>>

(* A closed tab, or the first half of a reload: what it sent is on its way.*)
Close(i) ==
  /\ screen[i].open
  /\ screen' = [screen EXCEPT ![i] = NoScreen]
  /\ UNCHANGED <<server, turns, requests, responses, meant, count>>

(* The screen learns of a later state, by an event or a fresh snapshot.    *)
Follow(i) ==
  /\ screen[i].open
  /\ \E session \in Session :
       /\ Position(session) > Position(screen[i].shown)
       /\ Position(session) <= Position(server)
       /\ Show(i, session)
       /\ count' = [count EXCEPT !.turns = IdsUsed(session)]
  /\ UNCHANGED <<server, turns, requests, responses>>

(***************************************************************************)
(* Sending.  Once a request may have reached the server only the identical *)
(* one is sent again.                                                      *)
(***************************************************************************)
Send(i, text) ==
  /\ count.sends < MaxSends
  /\ requests' = requests \cup {[attempt |-> count.sends + 1,
                                 turn |-> screen[i].form.turn, text |-> text]}
  /\ screen' = [screen EXCEPT ![i].form.phase = "sending",
                              ![i].form.text = text,
                              ![i].form.attempt = count.sends + 1]
  /\ count' = [count EXCEPT !.sends = @ + 1]
  /\ UNCHANGED <<server, turns, responses, meant>>

(* Seeded bug: an empty answer may be sent.                                *)
SubmitAnything(i) ==
  InPhase(i, "editing") /\ \E text \in Texts \cup {NoText} : Send(i, text)

Submit(i) == InPhase(i, "editing") /\ \E text \in Texts : Send(i, text)

(* Seeded bug: the answer may be edited before it is sent again.           *)
ResendEdited(i) == InPhase(i, "unknown") /\ \E text \in Texts : Send(i, text)

Resend(i) == InPhase(i, "unknown") /\ Send(i, screen[i].form.text)

(* No response: a network failure, the timeout, a 5xx, a lost sign-in.     *)
GiveUp(i) ==
  /\ InPhase(i, "sending")
  /\ screen' = [screen EXCEPT ![i].form.phase = "unknown", ![i].form.attempt = 0]
  /\ UNCHANGED <<server, turns, requests, responses, meant, count>>

(* Seeded bug: any response is taken for success.                          *)
AnyStatusAccepts(status) == TRUE

Accepts(status) == status \in {"created", "replayed"}

(* A response counts only for the request the form waits for.              *)
Receive(i, r) ==
  /\ InPhase(i, "sending")
  /\ r.attempt = screen[i].form.attempt
  /\ responses' = responses \ {r}
  /\ screen' = [screen EXCEPT ![i].form.phase = IF Accepts(r.status) THEN "accepted"
                                                                     ELSE "editing",
                              ![i].form.attempt = 0]
  /\ UNCHANGED <<server, turns, requests, meant, count>>

-----------------------------------------------------------------------------
(***************************************************************************)
(* submit_turn, under the session's row lock.                              *)
(***************************************************************************)
Reply(request, status) ==
  /\ requests' = requests \ {request}
  /\ responses' = responses \cup {[attempt |-> request.attempt, status |-> status]}
  /\ UNCHANGED <<screen, meant, count>>

(* Seeded bug: an answer is taken in any state.                            *)
AnyState == TRUE

TakesAnswers == server.state = "ASKING"

Record(request) ==
  /\ ~Recorded(request.turn)
  /\ TakesAnswers
  /\ turns' = [turns EXCEPT ![request.turn] = [question |-> server.question,
                                               text |-> request.text]]
  /\ server' = [server EXCEPT !.state = "GRADING"]
  /\ Reply(request, "created")

Replay(request) ==
  /\ Recorded(request.turn) /\ turns[request.turn].text = request.text
  /\ Reply(request, "replayed")
  /\ UNCHANGED <<server, turns>>

(* Seeded bug: the last text sent under a turn id wins.                    *)
RefuseOverwrites(request) ==
  /\ \/ Recorded(request.turn) /\ turns[request.turn].text # request.text
     \/ ~Recorded(request.turn) /\ ~TakesAnswers
  /\ turns' = [turns EXCEPT ![request.turn].text =
                 IF Recorded(request.turn) THEN request.text ELSE @]
  /\ Reply(request, "conflict")
  /\ UNCHANGED server

(* TurnIdConflict, or IllegalTransition: the session is not ASKING.        *)
Refuse(request) ==
  /\ \/ Recorded(request.turn) /\ turns[request.turn].text # request.text
     \/ ~Recorded(request.turn) /\ ~TakesAnswers
  /\ Reply(request, "conflict")
  /\ UNCHANGED <<server, turns>>

Handle(request) == Record(request) \/ Replay(request) \/ Refuse(request)

(* The worker grades the answer and the next question is asked.            *)
AskNext ==
  /\ server.state = "GRADING"
  /\ server.question < MaxQuestions
  /\ server' = [state |-> "ASKING", question |-> server.question + 1]
  /\ UNCHANGED <<turns, screen, requests, responses, meant, count>>

-----------------------------------------------------------------------------
Init ==
  /\ server = [state |-> "ASKING", question |-> 1]
  /\ turns = [t \in TurnIds |-> NoRow]
  /\ screen = [i \in Slots |-> NoScreen]
  /\ requests = {}
  /\ responses = {}
  /\ meant = [t \in TurnIds |-> 0]
  /\ count = [screens |-> 0, turns |-> 0, sends |-> 0]

Candidate(i) == Open(i) \/ Close(i) \/ Submit(i) \/ Resend(i)

Page(i) == Follow(i) \/ GiveUp(i) \/ \E r \in responses : Receive(i, r)

Next == \/ \E i \in Slots : Candidate(i) \/ Page(i)
        \/ \E request \in requests : Handle(request)
        \/ AskNext

Spec == Init /\ [][Next]_vars

-----------------------------------------------------------------------------
(* The values the variables may take.                                      *)
TypeOK ==
  /\ server \in Session
  /\ turns \in [TurnIds -> TurnRow]
  /\ screen \in [Slots -> Screen]
  /\ requests \subseteq [attempt : Attempts, turn : TurnIds, text : Texts]
  /\ responses \subseteq [attempt : Attempts,
                          status : {"created", "replayed", "conflict"}]
  /\ meant \in [TurnIds -> Questions \cup {0}]
  /\ count \in [screens : 0..MaxScreens, turns : 0..MaxTurns, sends : 0..MaxSends]

(* A screen that says "Answer received" is right: the server has exactly   *)
(* the text that was typed, under the form's turn id.                      *)
AcceptedIsRecorded ==
  \A i \in Slots :
    InPhase(i, "accepted") => turns[screen[i].form.turn].text = screen[i].form.text

(* However many screens and retries there are, a question is answered      *)
(* once.                                                                   *)
OneAnswerPerQuestion ==
  \A t, u \in TurnIds :
    t # u /\ Recorded(t) /\ Recorded(u) => turns[t].question # turns[u].question

(* "Answers cannot be changed after they are submitted", by whatever       *)
(* arrives later under the same turn id.                                   *)
SubmittedIsFinal ==
  [][\A t \in TurnIds : Recorded(t) => turns'[t] = turns[t]]_vars

(* "A retry can never become a second, different answer": while its        *)
(* outcome is unknown, the form holds the very text the server has, if it  *)
(* has any.                                                                *)
UnknownIsIdentical ==
  \A i \in Slots :
    InPhase(i, "unknown") /\ Recorded(screen[i].form.turn)
      => turns[screen[i].form.turn].text = screen[i].form.text

(* "The turn records what was actually shown" (turns.py): an answer is     *)
(* recorded for the question its form was shown for.                       *)
AnswersWhatWasShown ==
  \A t \in TurnIds : Recorded(t) => turns[t].question = meant[t]

(* "A response that proves nothing was written" (AnswerForm.tsx): an       *)
(* answer that may be edited has not been recorded.                        *)
EditableIsUnrecorded ==
  \A i \in Slots : InPhase(i, "editing") => ~Recorded(screen[i].form.turn)

(* All three hold as long as the interview has only ever been open on one  *)
(* screen that was never reloaded.                                         *)
OneScreenIsFaithful ==
  count.screens <= 1 =>
    AnswersWhatWasShown /\ EditableIsUnrecorded /\ UnknownIsIdentical
(***************************************************************************)
(* The inductive invariant behind the theorems.                            *)
(***************************************************************************)
(* A form has a turn id, and a text once it has sent one; it waits for a   *)
(* request exactly while it is sending.                                    *)
FormsAreWhole ==
  \A i \in Slots :
    LET form == screen[i].form
    IN  /\ form.phase # "none" => form.turn \in TurnIds
        /\ form.phase \in {"sending", "unknown", "accepted"} => form.text \in Texts
        /\ form.attempt # 0 => form.phase = "sending"

(* Nothing on its way carries an attempt that was not sent.                *)
AttemptsWereSent ==
  /\ \A r \in requests \cup responses : r.attempt <= count.sends
  /\ \A i \in Slots : screen[i].form.attempt <= count.sends

(* What a form waits for is its own request, and a response that accepts   *)
(* it came with the text in the table.                                     *)
AttemptsAreOwn ==
  \A i \in Slots :
    LET form == screen[i].form
    IN  /\ \A r \in requests : r.attempt = form.attempt
                                => r.turn = form.turn /\ r.text = form.text
        /\ \A r \in responses : r.attempt = form.attempt /\ Accepts(r.status)
                                => turns[form.turn].text = form.text

(* Answers are recorded in the order the questions are asked.              *)
RecordedInOrder ==
  \A t \in TurnIds :
    Recorded(t) => \/ turns[t].question < server.question
                   \/ turns[t].question = server.question /\ server.state = "GRADING"

AInv == /\ TypeOK /\ FormsAreWhole /\ AttemptsWereSent /\ AttemptsAreOwn
        /\ RecordedInOrder /\ OneAnswerPerQuestion /\ AcceptedIsRecorded
(***************************************************************************)
(* What is added to it for the interview that is open on one screen.       *)
(***************************************************************************)
(* A turn id is the form's that was shown for a question, or not used.     *)
IdsAreShown ==
  /\ \A t \in TurnIds : meant[t] # 0 => t <= count.turns
  /\ \A t \in TurnIds : Recorded(t) => meant[t] # 0
  /\ \A r \in requests : meant[r.turn] # 0
  /\ \A i \in Slots : screen[i].form.phase # "none" =>
       /\ screen[i].open /\ screen[i].shown.state = "ASKING"
       /\ meant[screen[i].form.turn] # 0

(* Nobody is shown more than there is, and no question is passed           *)
(* unanswered.                                                             *)
ScreensLag ==
  /\ \A i \in Slots : screen[i].open => Position(screen[i].shown) <= Position(server)
  /\ \A t \in TurnIds : meant[t] <= server.question

PassedIsAnswered ==
  \A q \in Questions :
    q < server.question \/ (q = server.question /\ server.state = "GRADING")
      => \E t \in TurnIds : turns[t].question = q

(* The one screen shows a question once, under one turn id.                *)
SoleScreen ==
  /\ \A i, j \in Slots : screen[i].open /\ screen[j].open => i = j
  /\ count.screens = 0 => (\A i \in Slots : ~screen[i].open) /\ \A t \in TurnIds : meant[t] = 0
  /\ \A t, u \in TurnIds : meant[t] = meant[u] /\ meant[t] # 0 => t = u
  /\ \A i \in Slots, t \in TurnIds :
       screen[i].open => 2 * meant[t] <= Position(screen[i].shown)

(* One turn id carries one text, and no answer meets a conflict.           *)
OneText ==
  /\ \A r \in responses : r.status # "conflict"
  /\ \A r, q \in requests : r.turn = q.turn => r.text = q.text
  /\ \A r \in requests : Recorded(r.turn) => turns[r.turn].text = r.text
  /\ \A i \in Slots :
       LET form == screen[i].form
       IN  /\ form.phase \in {"sending", "unknown", "accepted"} =>
                /\ \A r \in requests : r.turn = form.turn => r.text = form.text
                /\ Recorded(form.turn) => turns[form.turn].text = form.text
           /\ form.phase = "editing" =>
                /\ ~Recorded(form.turn)
                /\ \A r \in requests : r.turn # form.turn

OneScreenInv ==
  /\ IdsAreShown /\ ScreensLag /\ PassedIsAnswered
  /\ count.screens <= 1 => SoleScreen /\ OneText /\ AnswersWhatWasShown
=============================================================================
