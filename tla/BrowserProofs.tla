--------------------------- MODULE BrowserProofs ---------------------------
(***************************************************************************)
(* Proofs about what a browser sends: that a question is answered once,    *)
(* for good, and with the text the screen says was received, for every     *)
(* number of screens, retries and lost or late requests, and that one      *)
(* screen is never wrong about it; that refresh tokens rotate without a    *)
(* second buyer, a false alarm or a survivor, for every number of tabs,    *)
(* browsers and requests; and that sign-ups and sign-ins open the right    *)
(* door only, for every number of requests, addresses and credentials.     *)
(***************************************************************************)
EXTENDS MCBrowser, TLAPS

-----------------------------------------------------------------------------
(***************************************************************************)
(* Submitting answers.                                                     *)
(***************************************************************************)
(* A form that waits for an answer to its request, or has one, was filled. *)
LEMMA FilledForm ==
  ASSUME AInv, NEW i \in Slots,
         screen[i].form.attempt # 0 \/ screen[i].form.phase = "accepted"
  PROVE  screen[i].form.text \in Texts /\ screen[i].form.turn \in TurnIds
  BY DEF AInv, FormsAreWhole

(* An unrecorded row has no text.                                          *)
LEMMA UnrecordedText ==
  ASSUME AInv, NEW t \in TurnIds, ~Recorded(t)
  PROVE  turns[t].text \notin Texts
  BY TextAssumption DEF Recorded, NoRow

(* A new, empty server satisfies the invariant.                            *)
LEMMA InitAInv == Init => AInv
<1> SUFFICES ASSUME Init PROVE AInv
  OBVIOUS
<1> USE SubmissionBounds DEF Init, NoScreen, NoForm, NoRow
<1>1. TypeOK
  <2>1. server \in Session /\ turns \in [TurnIds -> TurnRow]
    BY DEF Session, Questions, TurnRow
  <2>2. NoScreen \in Screen
    BY DEF Screen, Session, Form, Phase, Questions
  <2>3. screen \in [Slots -> Screen]
    BY <2>2
  <2>4. meant \in [TurnIds -> Questions \cup {0}]
    OBVIOUS
  <2>5. count \in [screens : 0..MaxScreens, turns : 0..MaxTurns, sends : 0..MaxSends]
    OBVIOUS
  <2> QED BY <2>1, <2>3, <2>4, <2>5 DEF TypeOK
<1>2. FormsAreWhole /\ AttemptsWereSent /\ AttemptsAreOwn
  BY DEF FormsAreWhole, AttemptsWereSent, AttemptsAreOwn
<1>3. RecordedInOrder /\ OneAnswerPerQuestion /\ AcceptedIsRecorded
  BY DEF RecordedInOrder, OneAnswerPerQuestion, AcceptedIsRecorded, Recorded, InPhase
<1> QED BY <1>1, <1>2, <1>3 DEF AInv

-----------------------------------------------------------------------------
(* What a step of one screen must ensure: the new form is well-formed, it  *)
(* waits for nothing that is not its own, and if it is accepted so was its *)
(* text.                                                                   *)
FormIsFaithful(form) ==
  /\ form.phase # "none" => form.turn \in TurnIds
  /\ form.phase \in {"sending", "unknown", "accepted"} => form.text \in Texts
  /\ form.attempt = 0
  /\ form.phase = "accepted" => turns[form.turn].text = form.text

(* A screen that sends nothing keeps the invariant when its new form is    *)
(* faithful.                                                               *)
LEMMA ScreenStep ==
  ASSUME AInv, NEW i \in Slots, NEW new \in Screen,
         screen' = [screen EXCEPT ![i] = new],
         FormIsFaithful(new.form),
         UNCHANGED <<server, turns, requests>>,
         responses' \subseteq responses,
         meant' \in [TurnIds -> Questions \cup {0}],
         count' \in [screens : 0..MaxScreens, turns : 0..MaxTurns, sends : 0..MaxSends],
         count'.sends = count.sends
  PROVE  AInv'
<1>1. screen \in [Slots -> Screen] /\ screen' \in [Slots -> Screen]
  BY DEF AInv, TypeOK
<1>2. screen'[i] = new /\ \A j \in Slots \ {i} : screen'[j] = screen[j]
  BY <1>1
<1>3. TypeOK'
  BY <1>1 DEF AInv, TypeOK
<1>4. FormsAreWhole'
  BY <1>2 DEF AInv, FormsAreWhole, FormIsFaithful
<1>5. AttemptsWereSent'
  <2>1. count.sends \in Nat
    BY DEF AInv, TypeOK
  <2>2. \A r \in (requests \cup responses)' : r.attempt <= count'.sends
    BY DEF AInv, AttemptsWereSent
  <2>3. \A j \in Slots : screen'[j].form.attempt <= count'.sends
    BY <1>2, <2>1 DEF AInv, AttemptsWereSent, FormIsFaithful
  <2> QED BY <2>2, <2>3 DEF AttemptsWereSent
<1>6. AttemptsAreOwn'
  <2>1. \A r \in (requests \cup responses)' : r.attempt # 0
    BY DEF AInv, TypeOK, Attempts
  <2> QED BY <1>2, <2>1 DEF AInv, AttemptsAreOwn, FormIsFaithful
<1>7. (RecordedInOrder /\ OneAnswerPerQuestion)'
  BY DEF AInv, RecordedInOrder, OneAnswerPerQuestion, Recorded
<1>8. AcceptedIsRecorded'
  BY <1>2 DEF AInv, AcceptedIsRecorded, InPhase, FormIsFaithful
<1> QED BY <1>3, <1>4, <1>5, <1>6, <1>7, <1>8 DEF AInv

(* Showing another state of the session mounts an empty form or none.      *)
LEMMA ShowStep ==
  ASSUME AInv, NEW i \in Slots, NEW session \in Session, Show(i, session),
         UNCHANGED <<server, turns, requests, responses>>,
         count'.turns = IdsUsed(session), count'.sends = count.sends,
         count' \in [screens : 0..MaxScreens, turns : Nat, sends : 0..MaxSends]
  PROVE  AInv'
<1>1. /\ count.turns \in 0..MaxTurns /\ MaxTurns \in Nat
      /\ meant \in [TurnIds -> Questions \cup {0}]
      /\ session.question \in Questions
  BY SubmissionBounds DEF AInv, TypeOK, Session
<1>2. CASE session.state # "ASKING"
  <2> DEFINE new == [open |-> TRUE, shown |-> session, form |-> NoForm]
  <2>1. new \in Screen /\ FormIsFaithful(new.form)
    BY DEF Screen, Form, NoForm, Phase, FormIsFaithful
  <2>2. count' \in [screens : 0..MaxScreens, turns : 0..MaxTurns, sends : 0..MaxSends]
    BY <1>1, <1>2 DEF IdsUsed
  <2>3. screen' = [screen EXCEPT ![i] = new] /\ meant' = meant
    BY <1>2 DEF Show
  <2> HIDE DEF new
  <2> QED BY <1>1, <2>1, <2>2, <2>3, ScreenStep
<1>3. CASE session.state = "ASKING"
  <2> DEFINE form == EmptyForm(count.turns + 1)
             new == [open |-> TRUE, shown |-> session, form |-> form]
  <2>1. count.turns + 1 \in TurnIds
    BY <1>1, <1>3 DEF Show, TurnIds
  <2>3. form \in Form /\ FormIsFaithful(form)
    BY <2>1 DEF EmptyForm, Form, Phase, FormIsFaithful
  <2>4. new \in Screen /\ FormIsFaithful(new.form)
    BY <2>3 DEF Screen
  <2>5. count' \in [screens : 0..MaxScreens, turns : 0..MaxTurns, sends : 0..MaxSends]
    BY <1>1, <1>3, <2>1 DEF IdsUsed, TurnIds
  <2>6. /\ screen' = [screen EXCEPT ![i] = new]
        /\ meant' = [meant EXCEPT ![count.turns + 1] = session.question]
    BY <1>3 DEF Show
  <2>7. meant' \in [TurnIds -> Questions \cup {0}]
    BY <1>1, <2>6
  <2> HIDE DEF new
  <2> QED BY <2>4, <2>5, <2>6, <2>7, ScreenStep
<1> QED BY <1>2, <1>3

(* Sending: the attempt is new, so nobody else's request or response       *)
(* carries it.                                                             *)
LEMMA SendStep ==
  ASSUME AInv, NEW i \in Slots, NEW text \in Texts, Send(i, text),
         screen[i].form.phase # "none"
  PROVE  AInv'
<1> DEFINE n == count.sends + 1
           form == screen[i].form
           sent == [attempt |-> n, turn |-> form.turn, text |-> text]
<1>1. /\ screen \in [Slots -> Screen]
      /\ count \in [screens : 0..MaxScreens, turns : 0..MaxTurns, sends : 0..MaxSends]
      /\ requests \subseteq [attempt : Attempts, turn : TurnIds, text : Texts]
  BY DEF AInv, TypeOK
<1>2. n \in Attempts /\ count.sends \in Nat
  BY <1>1, SubmissionBounds DEF Send, Attempts
<1>3. form.turn \in TurnIds
  BY DEF AInv, FormsAreWhole
<1>4. /\ requests' = requests \cup {sent}
      /\ count' = [count EXCEPT !.sends = n]
      /\ UNCHANGED <<server, turns, responses, meant>>
  BY DEF Send
<1>5. /\ screen' \in [Slots -> Screen]
      /\ screen'[i].form = [turn |-> form.turn, phase |-> "sending", text |-> text,
                            attempt |-> n]
      /\ \A j \in Slots \ {i} : screen'[j] = screen[j]
  <2>1. screen[i] \in Screen /\ form \in Form
    BY <1>1 DEF Screen
  <2>2. screen' = [screen EXCEPT ![i].form.phase = "sending", ![i].form.text = text,
                                 ![i].form.attempt = n]
    BY DEF Send
  <2>3. screen'[i].form = [form EXCEPT !.phase = "sending", !.text = text,
                                       !.attempt = n]
    BY <1>1, <2>1, <2>2 DEF Screen
  <2>4. screen'[i].form = [turn |-> form.turn, phase |-> "sending", text |-> text,
                           attempt |-> n]
    BY <2>1, <2>3 DEF Form
  <2>5. screen'[i].form \in Form
    BY <1>2, <1>3, <2>4 DEF Form, Phase
  <2>6. screen'[i] = [open |-> screen[i].open, shown |-> screen[i].shown,
                      form |-> screen'[i].form]
    BY <1>1, <2>1, <2>2 DEF Screen
  <2>7. screen'[i] \in Screen
    BY <2>1, <2>5, <2>6 DEF Screen
  <2>8. /\ DOMAIN screen' = Slots
        /\ \A j \in Slots \ {i} : screen'[j] = screen[j]
        /\ screen' = [j \in Slots |-> screen'[j]]
    BY <1>1, <2>2
  <2> QED BY <1>1, <2>4, <2>7, <2>8
<1> HIDE DEF n, form
<1>6. TypeOK'
  <2>1. count' \in [screens : 0..MaxScreens, turns : 0..MaxTurns, sends : 0..MaxSends]
    BY <1>1, <1>2, <1>4, SubmissionBounds DEF Attempts
  <2>2. requests' \subseteq [attempt : Attempts, turn : TurnIds, text : Texts]
    BY <1>1, <1>2, <1>3, <1>4
  <2> QED BY <1>4, <1>5, <2>1, <2>2 DEF AInv, TypeOK
<1>7. FormsAreWhole'
  BY <1>3, <1>5 DEF AInv, FormsAreWhole
<1>8. \A j \in Slots : screen[j].form.attempt \in Nat /\ screen[j].form.attempt < n
  <2>1. \A j \in Slots : screen[j].form.attempt \in Nat
    BY <1>1, SubmissionBounds DEF Screen, Form, Attempts
  <2> QED BY <1>1, <1>2, <2>1 DEF AInv, AttemptsWereSent, n
<1>9. \A r \in requests \cup responses : r.attempt \in Nat /\ r.attempt < n
  <2>1. \A r \in requests \cup responses : r.attempt \in Nat
    BY SubmissionBounds DEF AInv, TypeOK, Attempts
  <2> QED BY <1>2, <2>1 DEF AInv, AttemptsWereSent, n
<1>10. AttemptsWereSent'
  <2>1. count'.sends = n /\ n \in Nat
    BY <1>1, <1>2, <1>4 DEF Attempts
  <2>2. \A r \in (requests \cup responses)' : r.attempt <= n
    BY <1>2, <1>4, <1>9, <2>1
  <2>3. \A j \in Slots : screen'[j].form.attempt <= n
    BY <1>5, <1>8, <2>1
  <2> QED BY <2>1, <2>2, <2>3 DEF AttemptsWereSent
<1>11. AttemptsAreOwn'
  <2>1. \A j \in Slots, r \in requests' :
          r.attempt = screen'[j].form.attempt
            => r.turn = screen'[j].form.turn /\ r.text = screen'[j].form.text
    <3>1. \A r \in requests : r.attempt # n
      BY <1>9
    <3>2. \A j \in Slots : screen[j].form.attempt # n
      BY <1>8
    <3> QED BY <1>4, <1>5, <3>1, <3>2 DEF AInv, AttemptsAreOwn
  <2>2. \A j \in Slots, r \in responses' :
          r.attempt = screen'[j].form.attempt /\ Accepts(r.status)
            => turns'[screen'[j].form.turn].text = screen'[j].form.text
    <3>1. \A r \in responses : r.attempt # n
      BY <1>9
    <3> QED BY <1>4, <1>5, <3>1 DEF AInv, AttemptsAreOwn
  <2> QED BY <2>1, <2>2 DEF AttemptsAreOwn
<1>12. (RecordedInOrder /\ OneAnswerPerQuestion)'
  BY <1>4 DEF AInv, RecordedInOrder, OneAnswerPerQuestion, Recorded
<1>13. AcceptedIsRecorded'
  BY <1>4, <1>5 DEF AInv, AcceptedIsRecorded, InPhase
<1> QED BY <1>6, <1>7, <1>10, <1>11, <1>12, <1>13 DEF AInv

-----------------------------------------------------------------------------
(* Opening, closing and following: the screen gets a new form or none.     *)
LEMMA OpenStep == ASSUME AInv, NEW i \in Slots, Open(i) PROVE AInv'
<1>1. /\ server \in Session
      /\ count \in [screens : 0..MaxScreens, turns : 0..MaxTurns, sends : 0..MaxSends]
  BY DEF AInv, TypeOK
<1>2. count' = [count EXCEPT !.screens = @ + 1, !.turns = IdsUsed(server)]
  BY DEF Open
<1>3. IdsUsed(server) \in Nat /\ count.screens + 1 \in 0..MaxScreens
  BY <1>1, SubmissionBounds DEF IdsUsed, Open
<1>4. /\ count'.turns = IdsUsed(server) /\ count'.sends = count.sends
      /\ count' \in [screens : 0..MaxScreens, turns : Nat, sends : 0..MaxSends]
  BY <1>1, <1>2, <1>3
<1> QED BY <1>1, <1>4, ShowStep DEF Open

(* A closed screen has no form.                                            *)
LEMMA CloseStep == ASSUME AInv, NEW i \in Slots, Close(i) PROVE AInv'
<1>1. NoScreen \in Screen /\ FormIsFaithful(NoScreen.form)
  BY SubmissionBounds DEF NoScreen, NoForm, Screen, Session, Questions, Form, Phase, FormIsFaithful
<1>2. /\ meant' \in [TurnIds -> Questions \cup {0}]
      /\ count' \in [screens : 0..MaxScreens, turns : 0..MaxTurns, sends : 0..MaxSends]
  BY DEF AInv, TypeOK, Close
<1> QED BY <1>1, <1>2, ScreenStep DEF Close

(* A screen that learns of a later state mounts that state's form.         *)
LEMMA FollowStep == ASSUME AInv, NEW i \in Slots, Follow(i) PROVE AInv'
<1>1. PICK session \in Session : /\ Show(i, session)
                                 /\ count' = [count EXCEPT !.turns = IdsUsed(session)]
  BY DEF Follow
<1>2. count \in [screens : 0..MaxScreens, turns : 0..MaxTurns, sends : 0..MaxSends]
  BY DEF AInv, TypeOK
<1>3. IdsUsed(session) \in Nat
  BY <1>2, SubmissionBounds DEF IdsUsed
<1>4. /\ count'.turns = IdsUsed(session) /\ count'.sends = count.sends
      /\ count' \in [screens : 0..MaxScreens, turns : Nat, sends : 0..MaxSends]
  BY <1>1, <1>2, <1>3
<1> QED BY <1>1, <1>4, ShowStep DEF Follow

(* Sending for the first time, or the identical text again.                *)
LEMMA SubmitStep == ASSUME AInv, NEW i \in Slots, Submit(i) \/ Resend(i) PROVE AInv'
<1>1. CASE Submit(i)
  BY <1>1, SendStep DEF Submit, InPhase
<1>2. CASE Resend(i)
  BY <1>2, SendStep DEF Resend, InPhase, AInv, FormsAreWhole
<1> QED BY <1>1, <1>2

(* A form that leaves "sending" keeps its turn id and its text.            *)
LEMMA FormWrite ==
  ASSUME screen \in [Slots -> Screen], NEW i \in Slots, NEW phase \in Phase,
         screen' = [screen EXCEPT ![i].form.phase = phase, ![i].form.attempt = 0]
  PROVE  screen' = [screen EXCEPT ![i] =
           [open |-> screen[i].open, shown |-> screen[i].shown,
            form |-> [turn |-> screen[i].form.turn, phase |-> phase,
                      text |-> screen[i].form.text, attempt |-> 0]]]
<1> DEFINE form == screen[i].form
<1>1. screen[i] \in Screen /\ form \in Form
  BY DEF Screen
<1>2. screen'[i].form = [form EXCEPT !.phase = phase, !.attempt = 0]
  BY <1>1 DEF Screen
<1>3. screen'[i].form = [turn |-> form.turn, phase |-> phase, text |-> form.text,
                         attempt |-> 0]
  <2> DEFINE left == [form EXCEPT !.phase = phase]
  <2>1. /\ left \in Form /\ left.turn = form.turn /\ left.phase = phase
        /\ left.text = form.text
    BY <1>1 DEF Form
  <2>2. \A f \in Form :
          [f EXCEPT !.attempt = 0]
            = [turn |-> f.turn, phase |-> f.phase, text |-> f.text, attempt |-> 0]
    BY DEF Form
  <2>3. [left EXCEPT !.attempt = 0]
          = [turn |-> left.turn, phase |-> left.phase, text |-> left.text, attempt |-> 0]
    <3> HIDE DEF left
    <3> QED BY <2>1, <2>2
  <2>4. screen'[i].form = [left EXCEPT !.attempt = 0]
    BY <1>2 
  <2> QED BY <2>1, <2>3, <2>4
<1>4. screen'[i] = [open |-> screen[i].open, shown |-> screen[i].shown,
                    form |-> screen'[i].form]
  BY <1>1 DEF Screen
<1>5. /\ DOMAIN screen' = Slots
      /\ \A j \in Slots \ {i} : screen'[j] = screen[j]
      /\ screen' = [j \in Slots |-> screen'[j]]
  OBVIOUS
<1> QED BY <1>3, <1>4, <1>5

(* A form that gives up keeps its text.                                    *)
LEMMA GiveUpStep == ASSUME AInv, NEW i \in Slots, GiveUp(i) PROVE AInv'
<1> DEFINE form == screen[i].form
           new == [open |-> screen[i].open, shown |-> screen[i].shown,
                   form |-> [turn |-> form.turn, phase |-> "unknown",
                             text |-> form.text, attempt |-> 0]]
<1>1. screen \in [Slots -> Screen] /\ screen[i] \in Screen /\ form \in Form
  BY DEF AInv, TypeOK, Screen
<1>2. screen' = [screen EXCEPT ![i].form.phase = "unknown", ![i].form.attempt = 0]
  BY DEF GiveUp
<1>3. screen' = [screen EXCEPT ![i] = new]
  BY <1>1, <1>2, FormWrite DEF Phase
<1>4. form.turn \in TurnIds /\ form.text \in Texts
  BY DEF AInv, FormsAreWhole, GiveUp, InPhase
<1>5. new \in Screen /\ FormIsFaithful(new.form)
  BY <1>1, <1>4 DEF Screen, Form, Phase, FormIsFaithful
<1>6. /\ meant' \in [TurnIds -> Questions \cup {0}]
      /\ count' \in [screens : 0..MaxScreens, turns : 0..MaxTurns, sends : 0..MaxSends]
  BY DEF AInv, TypeOK, GiveUp
<1> HIDE DEF new
<1> QED BY <1>3, <1>5, <1>6, ScreenStep DEF GiveUp

(* A response is taken for success only if it says so, and then the table  *)
(* has the form's text.                                                    *)
LEMMA ReceiveStep ==
  ASSUME AInv, NEW i \in Slots, NEW r \in responses, Receive(i, r)
  PROVE  AInv'
<1> DEFINE form == screen[i].form
           phase == IF Accepts(r.status) THEN "accepted" ELSE "editing"
           new == [open |-> screen[i].open, shown |-> screen[i].shown,
                   form |-> [turn |-> form.turn, phase |-> phase,
                             text |-> form.text, attempt |-> 0]]
<1>1. screen \in [Slots -> Screen] /\ screen[i] \in Screen /\ form \in Form
  BY DEF AInv, TypeOK, Screen
<1>2. screen' = [screen EXCEPT ![i].form.phase = phase, ![i].form.attempt = 0]
  BY DEF Receive
<1>3. screen' = [screen EXCEPT ![i] = new]
  <2>1. phase \in Phase
    BY DEF Phase
  <2> HIDE DEF phase
  <2> QED BY <1>1, <1>2, <2>1, FormWrite
<1>4. form.turn \in TurnIds /\ form.text \in Texts
  BY DEF AInv, FormsAreWhole, Receive, InPhase
<1>5. phase = "accepted" => turns[form.turn].text = form.text
  BY DEF AInv, AttemptsAreOwn, Receive
<1>6. phase \in {"accepted", "editing"}
  OBVIOUS
<1>7. new \in Screen /\ FormIsFaithful(new.form)
  <2> HIDE DEF phase
  <2> QED BY <1>1, <1>4, <1>5, <1>6 DEF Screen, Form, Phase, FormIsFaithful
<1>8. /\ meant' \in [TurnIds -> Questions \cup {0}]
      /\ count' \in [screens : 0..MaxScreens, turns : 0..MaxTurns, sends : 0..MaxSends]
  BY DEF AInv, TypeOK, Receive
<1> HIDE DEF new
<1> QED BY <1>3, <1>7, <1>8, ScreenStep DEF Receive

-----------------------------------------------------------------------------
(* The server's side: what a reply must ensure.  It carries the attempt of *)
(* its request, and a status that accepts it only when the table has the   *)
(* request's text under the request's turn id.                             *)
LEMMA ReplyStep ==
  ASSUME AInv, NEW q \in requests, NEW status \in {"created", "replayed", "conflict"},
         Reply(q, status),
         server' \in Session, turns' \in [TurnIds -> TurnRow],
         Accepts(status) => turns'[q.turn].text = q.text,
         \A t \in TurnIds : turns[t].text \in Texts => turns'[t].text = turns[t].text,
         RecordedInOrder', OneAnswerPerQuestion'
  PROVE  AInv'
<1> DEFINE reply == [attempt |-> q.attempt, status |-> status]
<1>1. /\ requests' = requests \ {q} /\ responses' = responses \cup {reply}
      /\ UNCHANGED <<screen, meant, count>>
  BY DEF Reply
<1>2. /\ q \in [attempt : Attempts, turn : TurnIds, text : Texts]
      /\ \A r \in responses : r \in [attempt : Attempts,
                                      status : {"created", "replayed", "conflict"}]
  BY DEF AInv, TypeOK
<1>3. TypeOK'
  BY <1>1, <1>2 DEF AInv, TypeOK
<1>4. FormsAreWhole' /\ AttemptsWereSent'
  <2>1. FormsAreWhole'
    BY <1>1 DEF AInv, FormsAreWhole
  <2>2. reply.attempt <= count.sends
    BY DEF AInv, AttemptsWereSent
  <2>3. \A r \in requests' \cup responses' : r.attempt <= count.sends
    <3> HIDE DEF reply
    <3> QED BY <1>1, <2>2 DEF AInv, AttemptsWereSent
  <2>4. \A i \in Slots : screen[i].form.attempt <= count.sends
    BY DEF AInv, AttemptsWereSent
  <2> QED BY <1>1, <2>1, <2>3, <2>4 DEF AttemptsWereSent
<1>5. \A i \in Slots : screen[i].form.attempt # 0 \/ screen[i].form.phase = "accepted"
        => screen[i].form.text \in Texts /\ screen[i].form.turn \in TurnIds
  BY FilledForm
<1>6. AttemptsAreOwn'
  <2>1. ASSUME NEW i \in Slots, NEW r \in requests', r.attempt = screen[i].form.attempt
        PROVE  r.turn = screen[i].form.turn /\ r.text = screen[i].form.text
    BY <1>1, <2>1 DEF AInv, AttemptsAreOwn
  <2>2. ASSUME NEW i \in Slots, NEW r \in responses', r.attempt = screen[i].form.attempt,
               Accepts(r.status)
        PROVE  turns'[screen[i].form.turn].text = screen[i].form.text
    <3>1. CASE r \in responses
      <4>1. r.attempt # 0
        BY <1>2, <3>1 DEF Attempts
      <4>2. turns[screen[i].form.turn].text = screen[i].form.text
        BY <2>2, <3>1 DEF AInv, AttemptsAreOwn
      <4> QED BY <1>5, <2>2, <4>1, <4>2
    <3>2. CASE r = reply
      <4>1. q.attempt = screen[i].form.attempt /\ Accepts(status)
        BY <2>2, <3>2
      <4>2. q.turn = screen[i].form.turn /\ q.text = screen[i].form.text
        BY <4>1 DEF AInv, AttemptsAreOwn
      <4> QED BY <4>1, <4>2
    <3> QED BY <1>1, <2>2, <3>1, <3>2
  <2> QED BY <1>1, <2>1, <2>2 DEF AttemptsAreOwn
<1>7. AcceptedIsRecorded'
  BY <1>1, <1>5 DEF AInv, AcceptedIsRecorded, InPhase
<1> QED BY <1>3, <1>4, <1>6, <1>7 DEF AInv

(* A new answer is recorded for the question being asked, which has none.  *)
LEMMA RecordStep == ASSUME AInv, NEW q \in requests, Record(q) PROVE AInv'
<1>1. /\ q \in [attempt : Attempts, turn : TurnIds, text : Texts]
      /\ turns \in [TurnIds -> TurnRow] /\ server \in Session
  BY DEF AInv, TypeOK
<1>2. /\ server.state = "ASKING" /\ server.question \in Questions
      /\ server' \in Session /\ server'.state = "GRADING"
      /\ server'.question = server.question
  BY <1>1 DEF Record, TakesAnswers, Session
<1>3. /\ turns' = [turns EXCEPT ![q.turn] = [question |-> server.question, text |-> q.text]]
      /\ turns' \in [TurnIds -> TurnRow]
  BY <1>1, <1>2 DEF Record, TurnRow
<1>4. /\ turns'[q.turn] = [question |-> server.question, text |-> q.text]
      /\ \A t \in TurnIds : t # q.turn => turns'[t] = turns[t]
  BY <1>1, <1>3
<1>5. \A t \in TurnIds : turns[t].text \in Texts => turns'[t].text = turns[t].text
  BY <1>1, <1>4, UnrecordedText DEF Record
<1>6. \A t \in TurnIds : Recorded(t) => turns[t].question < server.question
  BY <1>2 DEF AInv, RecordedInOrder
<1>7. RecordedInOrder'
  BY <1>2, <1>4, <1>6 DEF RecordedInOrder, Recorded
<1>8. OneAnswerPerQuestion'
  <2>1. server.question \in Nat /\ \A t \in TurnIds : turns[t].question \in Nat
    BY <1>1, <1>2, SubmissionBounds DEF TurnRow, Questions
  <2>2. \A t \in TurnIds : Recorded(t) => turns[t].question # server.question
    BY <1>6, <2>1
  <2>3. ASSUME NEW t \in TurnIds, NEW u \in TurnIds, t # u, Recorded(t)', Recorded(u)'
        PROVE  turns'[t].question # turns'[u].question
    <3>1. CASE t = q.turn
      BY <1>4, <2>2, <2>3, <3>1 DEF Recorded
    <3>2. CASE u = q.turn
      BY <1>4, <2>2, <2>3, <3>2 DEF Recorded
    <3>3. CASE t # q.turn /\ u # q.turn
      BY <1>4, <2>3, <3>3 DEF AInv, OneAnswerPerQuestion, Recorded
    <3> QED BY <3>1, <3>2, <3>3
  <2> QED BY <2>3 DEF OneAnswerPerQuestion
<1>9. turns'[q.turn].text = q.text
  BY <1>4
<1> QED BY <1>2, <1>3, <1>5, <1>7, <1>8, <1>9, ReplyStep DEF Record

(* An answer sent again, or refused, changes no row.                       *)
LEMMA UnchangedTableStep ==
  ASSUME AInv, NEW q \in requests, Replay(q) \/ Refuse(q)
  PROVE  AInv'
<1>1. UNCHANGED <<server, turns>>
  BY DEF Replay, Refuse
<1>2. server' \in Session /\ turns' \in [TurnIds -> TurnRow]
  BY <1>1 DEF AInv, TypeOK
<1>3. (RecordedInOrder /\ OneAnswerPerQuestion)'
  BY <1>1 DEF AInv, RecordedInOrder, OneAnswerPerQuestion, Recorded
<1>4. CASE Replay(q)
  BY <1>1, <1>2, <1>3, <1>4, ReplyStep DEF Replay
<1>5. CASE Refuse(q)
  <2>1. ~Accepts("conflict")
    BY DEF Accepts
  <2> QED BY <1>1, <1>2, <1>3, <1>5, <2>1, ReplyStep DEF Refuse
<1> QED BY <1>4, <1>5

(* The next question is asked after every answer so far.                   *)
LEMMA AskNextStep == ASSUME AInv, AskNext PROVE AInv'
<1>1. /\ server \in Session /\ server.question \in Questions
      /\ turns \in [TurnIds -> TurnRow]
  BY DEF AInv, TypeOK, Session
<1>2. /\ server' = [state |-> "ASKING", question |-> server.question + 1]
      /\ UNCHANGED <<turns, screen, requests, responses, meant, count>>
  BY DEF AskNext
<1>3. server' \in Session
  BY <1>1, <1>2, SubmissionBounds DEF AskNext, Session, Questions
<1>4. RecordedInOrder'
  <2>1. server.question \in Nat /\ \A t \in TurnIds : turns[t].question \in Nat
    BY <1>1, SubmissionBounds DEF TurnRow, Questions
  <2> QED BY <1>2, <2>1 DEF AInv, RecordedInOrder, Recorded
<1>5. (FormsAreWhole /\ AttemptsWereSent /\ AttemptsAreOwn)'
  BY <1>2 DEF AInv, FormsAreWhole, AttemptsWereSent, AttemptsAreOwn
<1>6. (OneAnswerPerQuestion /\ AcceptedIsRecorded)'
  BY <1>2 DEF AInv, OneAnswerPerQuestion, AcceptedIsRecorded, Recorded, InPhase
<1>7. TypeOK'
  BY <1>2, <1>3 DEF AInv, TypeOK
<1> QED BY <1>4, <1>5, <1>6, <1>7 DEF AInv

-----------------------------------------------------------------------------
(* Every step of the system keeps the invariant.                           *)
LEMMA NextAInv == AInv /\ [Next]_vars => AInv'
<1> SUFFICES ASSUME AInv, [Next]_vars PROVE AInv'
  OBVIOUS
<1>1. CASE \E i \in Slots : Candidate(i)
  BY <1>1, OpenStep, CloseStep, SubmitStep DEF Candidate
<1>2. CASE \E i \in Slots : Page(i)
  BY <1>2, FollowStep, GiveUpStep, ReceiveStep DEF Page
<1>3. CASE \E q \in requests : Handle(q)
  BY <1>3, RecordStep, UnchangedTableStep DEF Handle
<1>4. CASE AskNext
  BY <1>4, AskNextStep
<1>5. CASE UNCHANGED vars
  BY <1>5 DEF vars, AInv, TypeOK, FormsAreWhole, AttemptsWereSent, AttemptsAreOwn,
              RecordedInOrder, OneAnswerPerQuestion, AcceptedIsRecorded, Recorded, InPhase
<1> QED BY <1>1, <1>2, <1>3, <1>4, <1>5 DEF Next

(* The invariant behind the others holds in every reachable state.         *)
THEOREM SubmissionInvariance == Spec => []AInv
<1>1. AInv /\ [Next]_vars => AInv'
  BY NextAInv
<1> QED BY InitAInv, <1>1, PTL DEF Spec

(* However many screens and retries there are, a question is answered once *)
(* (submit_turn: one row per turn id, one turn per ASKING state).          *)
THEOREM AnsweredOnce == Spec => []OneAnswerPerQuestion
<1>1. AInv => OneAnswerPerQuestion
  BY DEF AInv
<1> QED BY SubmissionInvariance, <1>1, PTL

(* "Answer received" is never shown for a text the server does not have    *)
(* (AnswerForm's success branch).                                          *)
THEOREM ReceivedIsRecorded == Spec => []AcceptedIsRecorded
<1>1. AInv => AcceptedIsRecorded
  BY DEF AInv
<1> QED BY SubmissionInvariance, <1>1, PTL

(* A recorded answer is never changed by whatever arrives later under its  *)
(* turn id (TurnIdConflict and the replay of identical text).              *)
THEOREM RecordedIsFinal == Spec => SubmittedIsFinal
<1> DEFINE Kept == \A t \in TurnIds : Recorded(t) => turns'[t] = turns[t]
<1>1. AInv /\ [Next]_vars => [Kept]_vars
  <2> SUFFICES ASSUME AInv, Next PROVE Kept
    BY DEF vars
  <2>1. CASE UNCHANGED turns
    BY <2>1
  <2>2. CASE \E q \in requests : Record(q)
    <3>1. PICK q \in requests : Record(q)
      BY <2>2
    <3>2. turns \in [TurnIds -> TurnRow] /\ q.turn \in TurnIds /\ ~Recorded(q.turn)
      BY <3>1 DEF AInv, TypeOK, Record
    <3> QED BY <3>1, <3>2 DEF Record
  <2> QED BY <2>1, <2>2 DEF Next, Candidate, Page, Handle, Open, Close, Submit, Resend,
             Send, Follow, GiveUp, Receive, Replay, Refuse, AskNext
<1> QED BY SubmissionInvariance, <1>1, PTL DEF Spec, SubmittedIsFinal

-----------------------------------------------------------------------------
(***************************************************************************)
(* The interview that is open on one screen.                               *)
(***************************************************************************)
(* What the proofs below need of the types.                                *)
LEMMA Typed ==
  ASSUME AInv
  PROVE  /\ server \in Session /\ server.question \in Nat \ {0}
         /\ \A t \in TurnIds : meant[t] \in Nat /\ turns[t].question \in Nat
         /\ meant \in [TurnIds -> Questions \cup {0}] /\ turns \in [TurnIds -> TurnRow]
         /\ count.turns \in Nat /\ count.screens \in Nat
         /\ \A i \in Slots : screen[i] \in Screen /\ screen[i].shown \in Session
         /\ \A r \in requests : r.turn \in TurnIds
         /\ \A i \in Slots : screen[i].form.phase # "none" => screen[i].form.turn \in TurnIds
<1>1. /\ server \in Session /\ meant \in [TurnIds -> Questions \cup {0}]
      /\ turns \in [TurnIds -> TurnRow] /\ screen \in [Slots -> Screen]
      /\ requests \subseteq [attempt : Attempts, turn : TurnIds, text : Texts]
      /\ count \in [screens : 0..MaxScreens, turns : 0..MaxTurns, sends : 0..MaxSends]
  BY DEF AInv, TypeOK
<1>2. \A q \in Questions : q \in Nat \ {0}
  BY SubmissionBounds DEF Questions
<1>3. server.question \in Nat \ {0}
  BY <1>1, <1>2 DEF Session
<1>4. \A t \in TurnIds : meant[t] \in Nat /\ turns[t].question \in Nat
  BY <1>1, <1>2 DEF TurnRow
<1>5. \A i \in Slots : screen[i] \in Screen /\ screen[i].shown \in Session
  BY <1>1 DEF Screen
<1> QED BY <1>1, <1>3, <1>4, <1>5 DEF AInv, FormsAreWhole

(* A position is where a question stands.                                  *)
LEMMA Positions ==
  ASSUME NEW s \in Session
  PROVE  /\ s.question \in Nat \ {0} /\ Position(s) \in Nat
         /\ s.state = "ASKING" => Position(s) = 2 * s.question
         /\ s.state = "GRADING" => Position(s) = 2 * s.question + 1
         /\ s.state \in {"ASKING", "GRADING"}
  BY SubmissionBounds DEF Session, Position, Questions

(* A screen that starts to show another state, when that state is later    *)
(* than all it has shown.                                                  *)
LEMMA ShowFaithful ==
  ASSUME AInv, OneScreenInv, NEW i \in Slots, NEW session \in Session, Show(i, session),
         UNCHANGED <<server, turns, requests, responses>>,
         count'.turns = IdsUsed(session), count'.screens \in Nat,
         Position(session) <= Position(server),
         count'.screens <= 1 => /\ count.screens <= 1 /\ count'.screens = 1
                                /\ \A j \in Slots : screen[j].open => j = i
                                /\ \A t \in TurnIds : 2 * meant[t] < Position(session)
  PROVE  OneScreenInv'
<1> DEFINE n == count.turns + 1
<1>1. /\ server \in Session /\ server.question \in Nat \ {0}
      /\ \A t \in TurnIds : meant[t] \in Nat /\ turns[t].question \in Nat
      /\ meant \in [TurnIds -> Questions \cup {0}]
      /\ count.turns \in Nat
      /\ \A r \in requests : r.turn \in TurnIds
      /\ \A j \in Slots : screen[j].form.phase # "none" => screen[j].form.turn \in TurnIds
      /\ screen \in [Slots -> Screen]
  BY Typed DEF AInv, TypeOK
<1>2. PICK new : /\ screen' = [screen EXCEPT ![i] = new]
                 /\ new.open /\ new.shown = session
                 /\ \/ /\ session.state # "ASKING" /\ meant' = meant
                       /\ new.form.phase = "none" /\ count'.turns = count.turns
                    \/ /\ session.state = "ASKING" /\ n \in TurnIds
                       /\ new.form.phase = "editing" /\ new.form.turn = n
                       /\ meant' = [meant EXCEPT ![n] = session.question]
                       /\ count'.turns = n
  <2>1. CASE session.state # "ASKING"
    <3> DEFINE w == [open |-> TRUE, shown |-> session, form |-> NoForm]
    <3>1. /\ screen' = [screen EXCEPT ![i] = w] /\ meant' = meant
          /\ w.open /\ w.shown = session /\ w.form.phase = "none"
          /\ count'.turns = count.turns
      BY <2>1 DEF Show, NoForm, IdsUsed
    <3> HIDE DEF w
    <3> QED BY <2>1, <3>1
  <2>2. CASE session.state = "ASKING"
    <3> DEFINE w == [open |-> TRUE, shown |-> session, form |-> EmptyForm(n)]
    <3>1. n \in TurnIds
      BY <1>1, <2>2, SubmissionBounds DEF Show, TurnIds
    <3>2. /\ screen' = [screen EXCEPT ![i] = w]
          /\ meant' = [meant EXCEPT ![n] = session.question]
          /\ w.open /\ w.shown = session /\ w.form.phase = "editing" /\ w.form.turn = n
          /\ count'.turns = n
      BY <2>2 DEF Show, EmptyForm, IdsUsed
    <3> HIDE DEF w
    <3> QED BY <2>2, <3>1, <3>2
  <2> QED BY <2>1, <2>2
<1>3. /\ session.question \in Nat \ {0} /\ Position(session) \in Nat
      /\ session.state = "ASKING" => Position(session) = 2 * session.question
      /\ session.question <= server.question
  BY <1>1, Positions
<1>4. screen'[i] = new /\ \A j \in Slots : j # i => screen'[j] = screen[j]
  BY <1>1, <1>2
<1>5. n \in TurnIds => meant[n] = 0 /\ ~Recorded(n) /\ \A r \in requests : r.turn # n
  BY <1>1 DEF OneScreenInv, IdsAreShown
<1>6. \A t \in TurnIds : /\ meant'[t] = meant[t] \/ (t = n /\ meant'[t] = session.question
                                                    /\ session.state = "ASKING")
                         /\ meant[t] # 0 => meant'[t] = meant[t]
                         /\ meant'[t] \in Nat
  BY <1>1, <1>2, <1>3, <1>5
<1>7. \A t \in TurnIds : Recorded(t)' <=> Recorded(t)
  BY DEF Recorded
<1>8. IdsAreShown'
  <2>1. \A t \in TurnIds : meant'[t] # 0 => t <= count'.turns
    <3>1. ASSUME NEW t \in TurnIds, meant'[t] # 0 PROVE t <= count'.turns
      <4>1. t \in Nat
        BY SubmissionBounds DEF TurnIds
      <4>2. CASE meant[t] # 0
        <5>1. t <= count.turns
          BY <4>2 DEF OneScreenInv, IdsAreShown
        <5> QED BY <1>1, <1>2, <4>1, <5>1
      <4>3. CASE meant[t] = 0
        <5>1. t = n /\ session.state = "ASKING"
          BY <1>6, <3>1, <4>3
        <5> QED BY <1>1, <1>2, <5>1
      <4> QED BY <4>2, <4>3
    <3> QED BY <3>1
  <2>2. \A t \in TurnIds : Recorded(t)' => meant'[t] # 0
    BY <1>6, <1>7 DEF OneScreenInv, IdsAreShown
  <2>3. \A r \in requests : meant'[r.turn] # 0
    BY <1>1, <1>6 DEF OneScreenInv, IdsAreShown
  <2>4. ASSUME NEW j \in Slots, screen'[j].form.phase # "none"
        PROVE  /\ screen'[j].open /\ screen'[j].shown.state = "ASKING"
               /\ meant'[screen'[j].form.turn] # 0
    <3>1. CASE j = i
      BY <1>1, <1>2, <1>3, <1>4, <2>4, <3>1
    <3>2. CASE j # i
      BY <1>1, <1>4, <1>6, <2>4, <3>2 DEF OneScreenInv, IdsAreShown
    <3> QED BY <3>1, <3>2
  <2> QED BY <2>1, <2>2, <2>3, <2>4 DEF IdsAreShown
<1>9. ScreensLag'
  <2>1. \A j \in Slots : screen'[j].open => Position(screen'[j].shown) <= Position(server)
    BY <1>2, <1>4 DEF OneScreenInv, ScreensLag
  <2>2. \A t \in TurnIds : meant'[t] <= server.question
    BY <1>3, <1>6 DEF OneScreenInv, ScreensLag
  <2> QED BY <2>1, <2>2 DEF ScreensLag, Position
<1>10. PassedIsAnswered'
  BY DEF OneScreenInv, PassedIsAnswered
<1>11. ASSUME count'.screens <= 1 PROVE SoleScreen' /\ OneText' /\ AnswersWhatWasShown'
  <2>1. /\ SoleScreen /\ OneText /\ AnswersWhatWasShown /\ count'.screens = 1
        /\ \A j \in Slots : screen[j].open => j = i
        /\ \A t \in TurnIds : 2 * meant[t] < Position(session)
    BY <1>11 DEF OneScreenInv
  <2>2. \A j \in Slots : screen'[j].open => j = i
    BY <1>4, <2>1
  <2>3. ASSUME NEW t \in TurnIds, NEW u \in TurnIds, meant'[t] = meant'[u], meant'[t] # 0
        PROVE  t = u
    <3>1. session.state = "ASKING" => \A x \in TurnIds : meant[x] < session.question
      BY <1>1, <1>3, <2>1
    <3> QED BY <1>1, <1>3, <1>6, <2>1, <2>3, <3>1 DEF SoleScreen
  <2>4. \A t \in TurnIds : 2 * meant'[t] <= Position(session)
    BY <1>1, <1>3, <1>6, <2>1
  <2>5. SoleScreen'
    BY <1>2, <1>4, <2>1, <2>2, <2>3, <2>4 DEF SoleScreen, Position
  <2>6. ASSUME NEW j \in Slots, NEW form, form = screen'[j].form
        PROVE  /\ form.phase \in {"sending", "unknown", "accepted"} =>
                    /\ \A r \in requests : r.turn = form.turn => r.text = form.text
                    /\ Recorded(form.turn) => turns[form.turn].text = form.text
               /\ form.phase = "editing" =>
                    /\ ~Recorded(form.turn)
                    /\ \A r \in requests : r.turn # form.turn
    <3>1. CASE j = i
      BY <1>2, <1>4, <1>5, <2>6, <3>1
    <3>2. CASE j # i
      <4>1. form = screen[j].form
        BY <1>4, <2>6, <3>2
      <4> QED BY <2>1, <4>1 DEF OneText
    <3> QED BY <3>1, <3>2
  <2>7. OneText'
    BY <2>1, <2>6 DEF OneText, Recorded
  <2>8. AnswersWhatWasShown'
    BY <1>1, <1>6, <1>7, <2>1 DEF AnswersWhatWasShown, OneScreenInv, IdsAreShown
  <2> QED BY <2>5, <2>7, <2>8
<1> QED BY <1>8, <1>9, <1>10, <1>11 DEF OneScreenInv

(* The first screen opened finds nothing shown before.                     *)
LEMMA OpenFaithful ==
  ASSUME AInv, OneScreenInv, NEW i \in Slots, Open(i) PROVE OneScreenInv'
<1>1. /\ Show(i, server) /\ UNCHANGED <<server, turns, requests, responses>>
      /\ count' = [count EXCEPT !.screens = @ + 1, !.turns = IdsUsed(server)]
  BY DEF Open
<1>2. /\ server \in Session /\ count.screens \in Nat
      /\ \A t \in TurnIds : meant[t] \in Nat
      /\ count \in [screens : 0..MaxScreens, turns : 0..MaxTurns, sends : 0..MaxSends]
  BY Typed DEF AInv, TypeOK
<1>3. count'.screens = count.screens + 1 /\ count'.turns = IdsUsed(server)
  BY <1>1, <1>2
<1>4. Position(server) \in Nat /\ Position(server) > 0
  BY <1>2, Positions
<1>5. count'.screens <= 1 => count.screens = 0
  BY <1>2, <1>3
<1>6. count.screens = 0 => (\A j \in Slots : ~screen[j].open) /\ \A t \in TurnIds : meant[t] = 0
  BY DEF OneScreenInv, SoleScreen
<1> QED BY <1>1, <1>2, <1>3, <1>4, <1>5, <1>6, ShowFaithful

(* A screen follows to a later state than all it has shown.                *)
LEMMA FollowFaithful ==
  ASSUME AInv, OneScreenInv, NEW i \in Slots, Follow(i) PROVE OneScreenInv'
<1>1. PICK session \in Session : /\ Position(session) > Position(screen[i].shown)
                                 /\ Position(session) <= Position(server)
                                 /\ Show(i, session)
                                 /\ count' = [count EXCEPT !.turns = IdsUsed(session)]
  BY DEF Follow
<1>2. /\ screen[i].open /\ UNCHANGED <<server, turns, requests, responses>>
      /\ count.screens \in Nat /\ screen[i].shown \in Session
      /\ \A t \in TurnIds : meant[t] \in Nat
      /\ count \in [screens : 0..MaxScreens, turns : 0..MaxTurns, sends : 0..MaxSends]
  BY Typed DEF AInv, TypeOK, Follow
<1>3. count'.screens = count.screens /\ count'.turns = IdsUsed(session)
  BY <1>1, <1>2
<1>4. count.screens <= 1 =>
        /\ count.screens = 1 /\ \A j \in Slots : screen[j].open => j = i
        /\ \A t \in TurnIds : 2 * meant[t] <= Position(screen[i].shown)
  BY <1>2 DEF OneScreenInv, SoleScreen
<1>5. Position(session) \in Nat /\ Position(screen[i].shown) \in Nat
  BY <1>2, Positions
<1>6. \A t \in TurnIds : 2 * meant[t] <= Position(screen[i].shown)
                           => 2 * meant[t] < Position(session)
  BY <1>1, <1>2, <1>5
<1> QED BY <1>1, <1>2, <1>3, <1>4, <1>6, ShowFaithful

(* A closed screen shows nothing.                                          *)
LEMMA CloseFaithful ==
  ASSUME AInv, OneScreenInv, NEW i \in Slots, Close(i) PROVE OneScreenInv'
<1>1. screen \in [Slots -> Screen]
  BY DEF AInv, TypeOK
<1>2. /\ screen' = [screen EXCEPT ![i] = NoScreen]
      /\ UNCHANGED <<server, turns, requests, responses, meant, count>>
  BY DEF Close
<1>3. /\ ~screen'[i].open /\ screen'[i].form.phase = "none"
      /\ \A j \in Slots : j # i => screen'[j] = screen[j]
  BY <1>1, <1>2 DEF NoScreen, NoForm
<1>4. IdsAreShown'
  BY <1>2, <1>3 DEF OneScreenInv, IdsAreShown, Recorded
<1>5. ScreensLag' /\ PassedIsAnswered'
  BY <1>2, <1>3 DEF OneScreenInv, ScreensLag, PassedIsAnswered, Position
<1>6. ASSUME count'.screens <= 1 PROVE SoleScreen' /\ OneText' /\ AnswersWhatWasShown'
  <2>1. SoleScreen /\ OneText /\ AnswersWhatWasShown
    BY <1>2, <1>6 DEF OneScreenInv
  <2>2. SoleScreen'
    BY <1>2, <1>3, <2>1 DEF SoleScreen, Position
  <2>3. OneText'
    BY <1>2, <1>3, <2>1 DEF OneText, Recorded
  <2> QED BY <1>2, <2>1, <2>2, <2>3 DEF AnswersWhatWasShown, Recorded
<1> QED BY <1>4, <1>5, <1>6 DEF OneScreenInv

(* A form that sends, gives up or hears a response: the one screen's form  *)
(* keeps to the text that every request under its turn id carries.         *)
LEMMA FormFaithful ==
  ASSUME AInv, OneScreenInv, NEW i \in Slots, screen[i].form.phase # "none",
         \A j \in Slots : j # i => screen'[j] = screen[j],
         screen'[i].open = screen[i].open, screen'[i].shown = screen[i].shown,
         screen'[i].form.turn = screen[i].form.turn,
         \A r \in requests' :
           \/ r \in requests
           \/ r.turn = screen[i].form.turn /\ r.text = screen'[i].form.text,
         UNCHANGED <<server, turns, meant>>, responses' \subseteq responses,
         count'.turns = count.turns, count'.screens = count.screens,
         count.screens <= 1 =>
           /\ screen'[i].form.phase \in {"sending", "unknown", "accepted"}
           /\ \A r \in requests : r.turn = screen[i].form.turn
                                    => r.text = screen'[i].form.text
           /\ Recorded(screen[i].form.turn)
                => turns[screen[i].form.turn].text = screen'[i].form.text
  PROVE  OneScreenInv'
<1> DEFINE mine == screen[i].form.turn
           typed == screen'[i].form.text
<1>1. \A t : Recorded(t)' <=> Recorded(t)
  BY DEF Recorded
<1>2. meant[mine] # 0
  BY DEF OneScreenInv, IdsAreShown
<1>3. IdsAreShown'
  BY <1>1, <1>2 DEF OneScreenInv, IdsAreShown
<1>4. ScreensLag' /\ PassedIsAnswered'
  <2>1. \A j \in Slots : screen'[j].open => /\ screen[j].open
                                            /\ screen'[j].shown = screen[j].shown
    OBVIOUS
  <2> QED BY <2>1 DEF OneScreenInv, ScreensLag, PassedIsAnswered, Position
<1>5. ASSUME count'.screens <= 1 PROVE SoleScreen' /\ OneText' /\ AnswersWhatWasShown'
  <2>1. SoleScreen /\ OneText /\ AnswersWhatWasShown
    BY <1>5 DEF OneScreenInv
  <2>2. SoleScreen'
    <3>1. \A j \in Slots : /\ screen'[j].open = screen[j].open
                           /\ screen'[j].shown = screen[j].shown
      OBVIOUS
    <3> QED BY <2>1, <3>1 DEF SoleScreen, Position
  <2>3. /\ screen'[i].form.phase \in {"sending", "unknown", "accepted"}
        /\ \A r \in requests' : r.turn = mine => r.text = typed
        /\ Recorded(mine) => turns[mine].text = typed
    BY <1>5
  <2>4. \A r, q \in requests' : r.turn = q.turn => r.text = q.text
    BY <2>1, <2>3 DEF OneText
  <2>5. \A r \in requests' : Recorded(r.turn) => turns[r.turn].text = r.text
    BY <2>1, <2>3 DEF OneText
  <2>6. ASSUME NEW j \in Slots, j # i, screen[j].form.phase # "none"
        PROVE  FALSE
    BY <2>1, <2>6 DEF SoleScreen, OneScreenInv, IdsAreShown
  <2>7. ASSUME NEW j \in Slots, NEW form, form = screen'[j].form
        PROVE  /\ form.phase \in {"sending", "unknown", "accepted"} =>
                    /\ \A r \in requests' : r.turn = form.turn => r.text = form.text
                    /\ Recorded(form.turn) => turns[form.turn].text = form.text
               /\ form.phase = "editing" =>
                    /\ ~Recorded(form.turn)
                    /\ \A r \in requests' : r.turn # form.turn
    <3>1. CASE j = i
      BY <2>3, <2>7, <3>1
    <3>2. CASE j # i
      <4>1. form = screen[j].form
        BY <2>7, <3>2
      <4>2. form.phase = "none"
        BY <2>6, <3>2, <4>1
      <4> QED BY <4>2
    <3> QED BY <3>1, <3>2
  <2>8. \A r \in responses' : r.status # "conflict"
    BY <2>1 DEF OneText
  <2>9. OneText'
    BY <2>4, <2>5, <2>7, <2>8 DEF OneText, Recorded
  <2> QED BY <2>1, <2>2, <2>9 DEF AnswersWhatWasShown, Recorded
<1> QED BY <1>3, <1>4, <1>5 DEF OneScreenInv

(* Sending leaves the form with the text it sends.                         *)
LEMMA SendWrites ==
  ASSUME screen \in [Slots -> Screen], NEW i \in Slots, NEW text \in Texts, Send(i, text)
  PROVE  /\ screen'[i].open = screen[i].open /\ screen'[i].shown = screen[i].shown
         /\ screen'[i].form.turn = screen[i].form.turn
         /\ screen'[i].form.phase = "sending" /\ screen'[i].form.text = text
         /\ \A j \in Slots : j # i => screen'[j] = screen[j]
<1> DEFINE form == screen[i].form
           n == count.sends + 1
<1>1. screen[i] \in Screen /\ form \in Form
  BY DEF Screen
<1>2. screen' = [screen EXCEPT ![i].form.phase = "sending", ![i].form.text = text,
                               ![i].form.attempt = n]
  BY DEF Send
<1>3. screen'[i].form = [form EXCEPT !.phase = "sending", !.text = text, !.attempt = n]
  BY <1>1, <1>2 DEF Screen
<1>4. screen'[i].form = [turn |-> form.turn, phase |-> "sending", text |-> text,
                         attempt |-> n]
  BY <1>1, <1>3 DEF Form
<1>5. screen'[i] = [open |-> screen[i].open, shown |-> screen[i].shown,
                    form |-> screen'[i].form]
  BY <1>1, <1>2 DEF Screen
<1>6. \A j \in Slots : j # i => screen'[j] = screen[j]
  BY <1>2
<1> HIDE DEF n, form
<1>7. /\ screen'[i].open = screen[i].open /\ screen'[i].shown = screen[i].shown
  BY <1>5
<1>8. /\ screen'[i].form.turn = form.turn /\ screen'[i].form.phase = "sending"
      /\ screen'[i].form.text = text
  BY <1>4
<1> QED BY <1>6, <1>7, <1>8 DEF form

(* On one screen, what is sent agrees with what was sent before.           *)
LEMMA SendFaithful ==
  ASSUME AInv, OneScreenInv, NEW i \in Slots, NEW text \in Texts, Send(i, text),
         screen[i].form.phase # "none",
         count.screens <= 1 =>
           /\ \A r \in requests : r.turn = screen[i].form.turn => r.text = text
           /\ Recorded(screen[i].form.turn) => turns[screen[i].form.turn].text = text
  PROVE  OneScreenInv'
<1>1. /\ screen \in [Slots -> Screen]
      /\ count \in [screens : 0..MaxScreens, turns : 0..MaxTurns, sends : 0..MaxSends]
  BY DEF AInv, TypeOK
<1>2. /\ UNCHANGED <<server, turns, responses, meant>>
      /\ count' = [count EXCEPT !.sends = @ + 1]
      /\ \A r \in requests' : r \in requests \/ (r.turn = screen[i].form.turn /\ r.text = text)
  BY DEF Send
<1>3. count'.turns = count.turns /\ count'.screens = count.screens
  BY <1>1, <1>2
<1>4. /\ screen'[i].open = screen[i].open /\ screen'[i].shown = screen[i].shown
      /\ screen'[i].form.turn = screen[i].form.turn
      /\ screen'[i].form.phase = "sending" /\ screen'[i].form.text = text
      /\ \A j \in Slots : j # i => screen'[j] = screen[j]
  BY <1>1, SendWrites
<1> QED BY <1>2, <1>3, <1>4, FormFaithful

(* A first answer, or the identical one again.                             *)
LEMMA SubmitFaithful ==
  ASSUME AInv, OneScreenInv, NEW i \in Slots, Submit(i) \/ Resend(i)
  PROVE  OneScreenInv'
<1>1. CASE Submit(i)
  <2>1. PICK text \in Texts : Send(i, text)
    BY <1>1 DEF Submit
  <2>2. screen[i].form.phase = "editing"
    BY <1>1 DEF Submit, InPhase
  <2>3. count.screens <= 1 => /\ ~Recorded(screen[i].form.turn)
                              /\ \A r \in requests : r.turn # screen[i].form.turn
    BY <2>2 DEF OneScreenInv, OneText
  <2> QED BY <2>1, <2>2, <2>3, SendFaithful
<1>2. CASE Resend(i)
  <2>1. screen[i].form.phase = "unknown" /\ Send(i, screen[i].form.text)
    BY <1>2 DEF Resend, InPhase
  <2>2. screen[i].form.text \in Texts
    BY <2>1 DEF AInv, FormsAreWhole
  <2>3. count.screens <= 1 =>
          /\ \A r \in requests : r.turn = screen[i].form.turn => r.text = screen[i].form.text
          /\ Recorded(screen[i].form.turn)
               => turns[screen[i].form.turn].text = screen[i].form.text
    BY <2>1 DEF OneScreenInv, OneText
  <2> QED BY <2>1, <2>2, <2>3, SendFaithful
<1> QED BY <1>1, <1>2

(* A form that stops waiting keeps the text it sent: on one screen no      *)
(* response is a conflict.                                                 *)
LEMMA WaitFaithful ==
  ASSUME AInv, OneScreenInv, NEW i \in Slots, NEW phase \in Phase, InPhase(i, "sending"),
         screen' = [screen EXCEPT ![i].form.phase = phase, ![i].form.attempt = 0],
         UNCHANGED <<server, turns, requests, meant, count>>, responses' \subseteq responses,
         count.screens <= 1 => phase \in {"unknown", "accepted"}
  PROVE  OneScreenInv'
<1> DEFINE form == screen[i].form
           w == [open |-> screen[i].open, shown |-> screen[i].shown,
                 form |-> [turn |-> form.turn, phase |-> phase,
                           text |-> form.text, attempt |-> 0]]
<1>1. screen \in [Slots -> Screen]
  BY DEF AInv, TypeOK
<1>2. screen' = [screen EXCEPT ![i] = w]
  BY <1>1, FormWrite
<1>3. /\ w.open = screen[i].open /\ w.shown = screen[i].shown /\ w.form.turn = form.turn
      /\ w.form.phase = phase /\ w.form.text = form.text
  OBVIOUS
<1> HIDE DEF w
<1>4. screen'[i] = w /\ \A j \in Slots : j # i => screen'[j] = screen[j]
  BY <1>1, <1>2
<1>5. form.phase = "sending"
  BY DEF InPhase
<1>6. count.screens <= 1 =>
        /\ \A r \in requests : r.turn = form.turn => r.text = form.text
        /\ Recorded(form.turn) => turns[form.turn].text = form.text
  BY <1>5 DEF OneScreenInv, OneText
<1> HIDE DEF form
<1>7. /\ screen'[i].open = screen[i].open /\ screen'[i].shown = screen[i].shown
      /\ screen'[i].form.turn = form.turn
      /\ screen'[i].form.phase = phase /\ screen'[i].form.text = form.text
  BY <1>3, <1>4
<1> QED BY <1>4, <1>5, <1>6, <1>7, FormFaithful DEF form

(* Giving up, and hearing a response.                                      *)
LEMMA PageFaithful ==
  ASSUME AInv, OneScreenInv, NEW i \in Slots,
         GiveUp(i) \/ \E r \in responses : Receive(i, r)
  PROVE  OneScreenInv'
<1>1. CASE GiveUp(i)
  BY <1>1, WaitFaithful DEF GiveUp, Phase
<1>2. CASE \E r \in responses : Receive(i, r)
  <2>1. PICK r \in responses : Receive(i, r)
    BY <1>2
  <2> DEFINE phase == IF Accepts(r.status) THEN "accepted" ELSE "editing"
  <2>2. /\ InPhase(i, "sending") /\ responses' = responses \ {r}
        /\ screen' = [screen EXCEPT ![i].form.phase = phase, ![i].form.attempt = 0]
        /\ UNCHANGED <<server, turns, requests, meant, count>>
    BY <2>1 DEF Receive
  <2>3. phase \in Phase
    BY DEF Phase
  <2>4. r.status \in {"created", "replayed", "conflict"}
    BY DEF AInv, TypeOK
  <2>5. count.screens <= 1 => phase = "accepted"
    BY <2>4 DEF OneScreenInv, OneText, Accepts
  <2> HIDE DEF phase
  <2> QED BY <2>2, <2>3, <2>5, WaitFaithful
<1> QED BY <1>1, <1>2

-----------------------------------------------------------------------------
(* On one screen, a turn id still unanswered belongs to the question being *)
(* asked, and while an answer is graded there is none.                     *)
LEMMA UnansweredIsAsked ==
  ASSUME AInv, OneScreenInv, count.screens <= 1, NEW t \in TurnIds, meant[t] # 0,
         ~Recorded(t)
  PROVE  meant[t] = server.question /\ server.state = "ASKING"
<1> SUFFICES ASSUME meant[t] < server.question
                      \/ (meant[t] = server.question /\ server.state = "GRADING")
             PROVE  FALSE
  <2>1. meant[t] <= server.question /\ meant[t] \in Nat /\ server.question \in Nat
    BY Typed DEF OneScreenInv, ScreensLag
  <2>2. server.state \in {"ASKING", "GRADING"}
    BY Typed, Positions
  <2> QED BY <2>1, <2>2
<1>1. meant[t] \in Questions
  BY Typed
<1>2. PICK u \in TurnIds : turns[u].question = meant[t]
  BY <1>1 DEF OneScreenInv, PassedIsAnswered
<1>3. Recorded(u)
  BY <1>2 DEF Recorded, NoRow
<1>4. meant[u] = meant[t]
  BY <1>2, <1>3 DEF OneScreenInv, AnswersWhatWasShown
<1>5. u = t
  BY <1>4 DEF OneScreenInv, SoleScreen
<1> QED BY <1>3, <1>5

(* An answer is recorded for the question its form was shown for.          *)
LEMMA RecordFaithful ==
  ASSUME AInv, OneScreenInv, NEW q \in requests, Record(q) PROVE OneScreenInv'
<1>1. /\ server \in Session /\ turns \in [TurnIds -> TurnRow]
      /\ server.question \in Questions /\ server.question \in Nat \ {0}
      /\ \A t \in TurnIds : meant[t] \in Nat
      /\ q.turn \in TurnIds
      /\ \A r \in requests : r.turn \in TurnIds
      /\ \A i \in Slots : screen[i].form.phase # "none" => screen[i].form.turn \in TurnIds
  BY Typed DEF Session
<1>2. /\ server' = [server EXCEPT !.state = "GRADING"] /\ server.state = "ASKING"
      /\ ~Recorded(q.turn)
      /\ requests' = requests \ {q}
      /\ responses' = responses \cup {[attempt |-> q.attempt, status |-> "created"]}
      /\ UNCHANGED <<screen, meant, count>>
  BY DEF Record, TakesAnswers, Reply
<1>3. /\ turns'[q.turn] = [question |-> server.question, text |-> q.text]
      /\ \A t \in TurnIds : t # q.turn => turns'[t] = turns[t]
  BY <1>1 DEF Record
<1>4. server' \in Session /\ server'.state = "GRADING" /\ server'.question = server.question
  BY <1>1, <1>2 DEF Session
<1>5. \A t \in TurnIds : Recorded(t)' <=> Recorded(t) \/ t = q.turn
  BY <1>1, <1>3 DEF Recorded, NoRow
<1>6. meant[q.turn] # 0
  BY DEF OneScreenInv, IdsAreShown
<1>7. IdsAreShown'
  <2>1. \A t \in TurnIds : Recorded(t)' => meant'[t] # 0
    BY <1>2, <1>5, <1>6 DEF OneScreenInv, IdsAreShown
  <2> QED BY <1>2, <2>1 DEF OneScreenInv, IdsAreShown
<1>8. ScreensLag'
  <2>1. Position(server') = Position(server) + 1 /\ Position(server) \in Nat
    BY <1>1, <1>2, <1>4, Positions
  <2>2. \A i \in Slots : screen[i].open => Position(screen[i].shown) \in Nat
    BY Typed, Positions
  <2>3. \A i \in Slots : screen[i].open => Position(screen[i].shown) <= Position(server')
    BY <2>1, <2>2 DEF OneScreenInv, ScreensLag
  <2> QED BY <1>2, <1>4, <2>3 DEF OneScreenInv, ScreensLag, Position
<1>9. PassedIsAnswered'
  <2>1. ASSUME NEW x \in Questions, x <= server.question, x # server.question
        PROVE  \E t \in TurnIds : turns'[t].question = x
    <3>1. x \in Nat \ {0}
      BY SubmissionBounds DEF Questions
    <3>2. PICK t \in TurnIds : turns[t].question = x
      BY <1>1, <2>1, <3>1 DEF OneScreenInv, PassedIsAnswered
    <3>3. t # q.turn
      BY <1>2, <3>1, <3>2 DEF Recorded, NoRow
    <3> QED BY <1>3, <3>2, <3>3
  <2>2. \E t \in TurnIds : turns'[t].question = server.question
    BY <1>1, <1>3
  <2>3. \A x \in Questions : x \in Nat
    BY SubmissionBounds DEF Questions
  <2> QED BY <1>1, <1>4, <2>1, <2>2, <2>3 DEF PassedIsAnswered
<1>10. ASSUME count'.screens <= 1 PROVE SoleScreen' /\ OneText' /\ AnswersWhatWasShown'
  <2>1. count.screens <= 1 /\ SoleScreen /\ OneText /\ AnswersWhatWasShown
    BY <1>2, <1>10 DEF OneScreenInv
  <2>2. SoleScreen'
    BY <1>2, <2>1 DEF SoleScreen, Position
  <2>3. meant[q.turn] = server.question
    BY <1>1, <1>2, <1>6, <2>1, UnansweredIsAsked
  <2>4. AnswersWhatWasShown'
    <3>1. \A t \in TurnIds : Recorded(t)' => turns'[t].question = meant[t]
      BY <1>1, <1>3, <1>5, <2>1, <2>3 DEF AnswersWhatWasShown
    <3> QED BY <1>2, <3>1 DEF AnswersWhatWasShown
  <2>5. \A r \in responses' : r.status # "conflict"
    BY <1>2, <2>1 DEF OneText
  <2>6. \A r, p \in requests' : r.turn = p.turn => r.text = p.text
    BY <1>2, <2>1 DEF OneText
  <2>7. \A r \in requests' : Recorded(r.turn)' => turns'[r.turn].text = r.text
    <3>1. ASSUME NEW r \in requests, Recorded(r.turn)' PROVE turns'[r.turn].text = r.text
      <4>1. CASE r.turn = q.turn
        BY <1>1, <1>3, <2>1, <4>1 DEF OneText
      <4>2. CASE r.turn # q.turn
        BY <1>1, <1>3, <1>5, <2>1, <3>1, <4>2 DEF OneText
      <4> QED BY <4>1, <4>2
    <3> QED BY <1>2, <3>1
  <2>8. ASSUME NEW i \in Slots, NEW form, form = screen[i].form
        PROVE  /\ form.phase \in {"sending", "unknown", "accepted"} =>
                    /\ \A r \in requests' : r.turn = form.turn => r.text = form.text
                    /\ Recorded(form.turn)' => turns'[form.turn].text = form.text
               /\ form.phase = "editing" =>
                    /\ ~Recorded(form.turn)'
                    /\ \A r \in requests' : r.turn # form.turn
    <3>1. CASE form.phase \in {"sending", "unknown", "accepted"}
      <4>1. /\ form.turn \in TurnIds
            /\ \A r \in requests : r.turn = form.turn => r.text = form.text
            /\ Recorded(form.turn) => turns[form.turn].text = form.text
        BY <1>1, <2>1, <2>8, <3>1 DEF OneText
      <4>2. ASSUME Recorded(form.turn)' PROVE turns'[form.turn].text = form.text
        <5>1. CASE form.turn = q.turn
          BY <1>1, <1>3, <4>1, <5>1
        <5>2. CASE form.turn # q.turn
          BY <1>3, <1>5, <4>1, <4>2, <5>2
        <5> QED BY <5>1, <5>2
      <4> QED BY <1>2, <3>1, <4>1, <4>2
    <3>2. CASE form.phase = "editing"
      <4>1. /\ form.turn \in TurnIds /\ ~Recorded(form.turn)
            /\ \A r \in requests : r.turn # form.turn
        BY <1>1, <2>1, <2>8, <3>2 DEF OneText
      <4> QED BY <1>2, <1>5, <3>2, <4>1
    <3> QED BY <3>1, <3>2
  <2>9. OneText'
    BY <1>2, <2>5, <2>6, <2>7, <2>8 DEF OneText
  <2> QED BY <2>2, <2>4, <2>9
<1> QED BY <1>7, <1>8, <1>9, <1>10 DEF OneScreenInv

(* A reply that writes nothing; on one screen it is never a refusal.       *)
LEMMA ReplyFaithful ==
  ASSUME AInv, OneScreenInv, NEW q \in requests, Replay(q) \/ Refuse(q)
  PROVE  OneScreenInv'
<1>1. count.screens <= 1 => ~Refuse(q)
  <2> SUFFICES ASSUME count.screens <= 1, Refuse(q) PROVE FALSE
    OBVIOUS
  <2>1. CASE Recorded(q.turn) /\ turns[q.turn].text # q.text
    BY <2>1 DEF OneScreenInv, OneText
  <2>2. CASE ~Recorded(q.turn) /\ ~TakesAnswers
    <3>1. q.turn \in TurnIds /\ meant[q.turn] # 0
      BY Typed DEF OneScreenInv, IdsAreShown
    <3>2. server.state = "ASKING"
      BY <2>2, <3>1, UnansweredIsAsked
    <3> QED BY <2>2, <3>2 DEF TakesAnswers
  <2> QED BY <2>1, <2>2 DEF Refuse
<1>2. PICK status : /\ Reply(q, status)
                    /\ count.screens <= 1 => status # "conflict"
  <2>1. CASE Replay(q)
    BY <2>1 DEF Replay
  <2>2. CASE Refuse(q)
    BY <1>1, <2>2 DEF Refuse
  <2> QED BY <2>1, <2>2
<1>3. /\ UNCHANGED <<server, turns, screen, meant, count>>
      /\ requests' = requests \ {q}
      /\ responses' = responses \cup {[attempt |-> q.attempt, status |-> status]}
  BY <1>2 DEF Reply, Replay, Refuse
<1>4. (IdsAreShown /\ ScreensLag /\ PassedIsAnswered)'
  BY <1>3 DEF OneScreenInv, IdsAreShown, ScreensLag, PassedIsAnswered, Recorded, Position
<1>5. ASSUME count'.screens <= 1 PROVE SoleScreen' /\ OneText' /\ AnswersWhatWasShown'
  <2>1. SoleScreen /\ OneText /\ AnswersWhatWasShown /\ status # "conflict"
    BY <1>2, <1>3, <1>5 DEF OneScreenInv
  <2>2. SoleScreen' /\ AnswersWhatWasShown'
    BY <1>3, <2>1 DEF SoleScreen, AnswersWhatWasShown, Recorded, Position
  <2>3. \A r \in responses' : r.status # "conflict"
    BY <1>3, <2>1 DEF OneText
  <2>4. OneText'
    BY <1>3, <2>1, <2>3 DEF OneText, Recorded
  <2> QED BY <2>2, <2>4
<1> QED BY <1>4, <1>5 DEF OneScreenInv

(* The next question is asked once this one is answered.                   *)
LEMMA AskNextFaithful ==
  ASSUME AInv, OneScreenInv, AskNext PROVE OneScreenInv'
<1>1. /\ server.question \in Nat \ {0} /\ server \in Session
      /\ \A t \in TurnIds : meant[t] \in Nat
      /\ server.state = "GRADING"
      /\ server' = [state |-> "ASKING", question |-> server.question + 1]
      /\ UNCHANGED <<turns, screen, requests, responses, meant, count>>
  BY Typed DEF AskNext
<1>2. server' \in Session /\ server'.state = "ASKING" /\ server'.question = server.question + 1
  BY <1>1, SubmissionBounds DEF AskNext, Session, Questions
<1>3. IdsAreShown'
  BY <1>1 DEF OneScreenInv, IdsAreShown, Recorded
<1>4. ScreensLag'
  <2>1. Position(server') = Position(server) + 1 /\ Position(server) \in Nat
    BY <1>1, <1>2, Positions
  <2>2. \A i \in Slots : screen[i].open => Position(screen[i].shown) \in Nat
    BY Typed, Positions
  <2>3. \A i \in Slots : screen[i].open => Position(screen[i].shown) <= Position(server')
    BY <2>1, <2>2 DEF OneScreenInv, ScreensLag
  <2>4. \A t \in TurnIds : meant[t] <= server'.question
    BY <1>1, <1>2 DEF OneScreenInv, ScreensLag
  <2> QED BY <1>1, <2>3, <2>4 DEF ScreensLag, Position
<1>5. PassedIsAnswered'
  <2>1. \A x \in Questions : x \in Nat
    BY SubmissionBounds DEF Questions
  <2>2. \A x \in Questions : x < server.question + 1 => x < server.question \/ x = server.question
    BY <1>1, <2>1
  <2>3. \A x \in Questions : x < server.question + 1 => \E t \in TurnIds : turns[t].question = x
    BY <1>1, <2>2 DEF OneScreenInv, PassedIsAnswered
  <2> QED BY <1>1, <1>2, <2>3 DEF PassedIsAnswered
<1>6. ASSUME count'.screens <= 1 PROVE SoleScreen' /\ OneText' /\ AnswersWhatWasShown'
  <2>1. SoleScreen /\ OneText /\ AnswersWhatWasShown
    BY <1>1, <1>6 DEF OneScreenInv
  <2>2. SoleScreen' /\ AnswersWhatWasShown'
    BY <1>1, <2>1 DEF SoleScreen, AnswersWhatWasShown, Recorded, Position
  <2>3. OneText'
    BY <1>1, <2>1 DEF OneText, Recorded
  <2> QED BY <2>2, <2>3
<1> QED BY <1>3, <1>4, <1>5, <1>6 DEF OneScreenInv

-----------------------------------------------------------------------------
(* Before anything is shown there is nothing to be wrong about.            *)
LEMMA InitOneScreen == Init => OneScreenInv
<1> SUFFICES ASSUME Init PROVE OneScreenInv
  OBVIOUS
<1>1. /\ server = [state |-> "ASKING", question |-> 1] /\ requests = {} /\ responses = {}
      /\ \A t \in TurnIds : ~Recorded(t) /\ meant[t] = 0
      /\ \A i \in Slots : ~screen[i].open /\ screen[i].form.phase = "none"
  BY DEF Init, Recorded, NoScreen, NoForm
<1>2. IdsAreShown /\ ScreensLag
  BY <1>1 DEF IdsAreShown, ScreensLag
<1>3. PassedIsAnswered
  BY <1>1, SubmissionBounds DEF PassedIsAnswered, Questions
<1>4. SoleScreen
  BY <1>1 DEF SoleScreen
<1>5. OneText
  BY <1>1 DEF OneText
<1>6. AnswersWhatWasShown
  BY <1>1 DEF AnswersWhatWasShown
<1> QED BY <1>2, <1>3, <1>4, <1>5, <1>6 DEF OneScreenInv

(* Every step of the system keeps what one screen relies on.               *)
LEMMA NextOneScreen == AInv /\ OneScreenInv /\ [Next]_vars => OneScreenInv'
<1> SUFFICES ASSUME AInv, OneScreenInv, [Next]_vars PROVE OneScreenInv'
  OBVIOUS
<1>1. CASE \E i \in Slots : Candidate(i)
  BY <1>1, OpenFaithful, CloseFaithful, SubmitFaithful DEF Candidate
<1>2. CASE \E i \in Slots : Page(i)
  BY <1>2, FollowFaithful, PageFaithful DEF Page
<1>3. CASE \E q \in requests : Handle(q)
  BY <1>3, RecordFaithful, ReplyFaithful DEF Handle
<1>4. CASE AskNext
  BY <1>4, AskNextFaithful
<1>5. CASE UNCHANGED vars
  BY <1>5 DEF vars, OneScreenInv, IdsAreShown, ScreensLag, PassedIsAnswered, SoleScreen,
              OneText, AnswersWhatWasShown, Recorded, Position
<1> QED BY <1>1, <1>2, <1>3, <1>4, <1>5 DEF Next

(* While the interview has been open on one screen only and was never      *)
(* reloaded: an answer is recorded for the question its form was shown     *)
(* for, one that may be edited is not recorded, and one of unknown outcome *)
(* is the server's (AnswerForm.tsx's phases and turns.py).                 *)
THEOREM OneScreenFaithful == Spec => []OneScreenIsFaithful
<1>1. OneScreenInv => OneScreenIsFaithful
  <2> SUFFICES ASSUME OneScreenInv, count.screens <= 1
               PROVE  AnswersWhatWasShown /\ EditableIsUnrecorded /\ UnknownIsIdentical
    BY DEF OneScreenIsFaithful
  <2>1. OneText /\ AnswersWhatWasShown
    BY DEF OneScreenInv
  <2>2. EditableIsUnrecorded
    BY <2>1 DEF EditableIsUnrecorded, OneText, InPhase
  <2>3. UnknownIsIdentical
    BY <2>1 DEF UnknownIsIdentical, OneText, InPhase
  <2> QED BY <2>1, <2>2, <2>3
<1> QED BY InitOneScreen, NextOneScreen, SubmissionInvariance, <1>1, PTL DEF Spec

-----------------------------------------------------------------------------
(***************************************************************************)
(* Refresh tokens.                                                         *)
(***************************************************************************)
(* The states of a request, and what a step of the server leaves of it.    *)
Pc == {"sent", "unlist", "issue", "list", "revoke", "granted", "refused"}
SameRequest(r, x) == /\ x.kind = r.kind /\ x.tab = r.tab
                     /\ x.token = r.token /\ x.heard = r.heard

(* A request that bought a pair of tokens with its own.                    *)
Buys(r) == r.kind = "refresh" /\ r.pc \in {"unlist", "issue", "granted"}

SingleUse ==
  \A i, j \in DOMAIN exchanges :
    i # j /\ Buys(exchanges[i]) /\ Buys(exchanges[j])
      => exchanges[i].token # exchanges[j].token

(* The part of the property about two buyers, in the form used here.       *)
LEMMA SingleUseIs == ExchangedOnce <=> SingleUse
<1>1. \A a, b : {a, b} = {"refresh"} <=> a = "refresh" /\ b = "refresh"
  OBVIOUS
<1> QED BY <1>1 DEF ExchangedOnce, SingleUse, Buys

(* One record of the sequence is rewritten.                                *)
LEMMA Rewritten ==
  ASSUME exchanges \in Seq(Request), NEW i \in DOMAIN exchanges, NEW new \in Request,
         exchanges' = [exchanges EXCEPT ![i] = new]
  PROVE  /\ exchanges' \in Seq(Request) /\ Len(exchanges') = Len(exchanges)
         /\ DOMAIN exchanges' = DOMAIN exchanges
         /\ \A j \in DOMAIN exchanges :
              exchanges'[j] = IF j = i THEN new ELSE exchanges[j]
  OBVIOUS

(* What is in the sequence is a request, and its place is a token.         *)
LEMMA Requests ==
  ASSUME TokenTypeOK, NEW i \in DOMAIN exchanges
  PROVE  exchanges[i] \in Request /\ i \in Token /\ i # None
  BY RequestBound DEF TokenTypeOK, Token, None

(***************************************************************************)
(* A step of the server on request i: it moves, perhaps having read the    *)
(* family; cookies and screens stay.                                       *)
(***************************************************************************)
Served(i, new) ==
  /\ exchanges' = [exchanges EXCEPT ![i] = new]
  /\ new \in Request /\ SameRequest(exchanges[i], new)
  /\ exchanges[i].pc \notin {"granted", "refused"} /\ new.pc # "sent"
  /\ new.kind = "sign_in" => new.pc \in {"issue", "granted"}
  /\ new.kind = "logout" => new.pc \in {"sent", "unlist", "granted"}
  /\ new.pc \in {"list", "revoke"} => new.token # None
  /\ new.pc \notin {"revoke", "refused"} => new.seen = {}
  /\ new.seen \subseteq Issued
  /\ UNCHANGED <<jar, access>>

(* Serving a request writes its own record, and of it what the server owns.*)
LEMMA ServedFields ==
  ASSUME TokenInv, NEW i \in DOMAIN exchanges, NEW new, Served(i, new)
  PROVE  /\ exchanges' \in Seq(Request) /\ Len(exchanges') = Len(exchanges)
         /\ DOMAIN exchanges' = DOMAIN exchanges
         /\ exchanges'[i] = new
         /\ \A j \in DOMAIN exchanges :
              /\ SameRequest(exchanges[j], exchanges'[j])
              /\ j # i => exchanges'[j] = exchanges[j]
         /\ Issued \subseteq Issued'
         /\ Issued' \subseteq Issued \cup {i}
<1>1. /\ exchanges' \in Seq(Request) /\ Len(exchanges') = Len(exchanges)
      /\ DOMAIN exchanges' = DOMAIN exchanges
      /\ \A j \in DOMAIN exchanges :
           exchanges'[j] = IF j = i THEN new ELSE exchanges[j]
  BY Rewritten DEF TokenInv, TokenTypeOK, Served
<1>2. \A j \in DOMAIN exchanges : SameRequest(exchanges[j], exchanges'[j])
  BY <1>1 DEF Served, SameRequest
<1>3. Issued \subseteq Issued' /\ Issued' \subseteq Issued \cup {i}
  BY <1>1 DEF Issued, Served
<1> QED BY <1>1, <1>2, <1>3

(* What serving a request leaves of the cookies and of every request.      *)
LEMMA ServedStep ==
  ASSUME TokenInv, NEW i \in DOMAIN exchanges, NEW new, Served(i, new)
  PROVE  /\ RequestsAreWhole' /\ OneRefresh' /\ UnheardIsUnused'
         /\ \A b \in Browsers : Cookie(b, jar[b])'
         /\ exchanges' \in Seq(Request) /\ Len(exchanges') <= MaxRequests
         /\ jar' \in [Browsers -> Token] /\ access' \in [Tabs -> Token]
<1>1. /\ exchanges' \in Seq(Request) /\ Len(exchanges') = Len(exchanges)
      /\ DOMAIN exchanges' = DOMAIN exchanges
      /\ exchanges'[i] = new
      /\ \A j \in DOMAIN exchanges :
           /\ SameRequest(exchanges[j], exchanges'[j])
           /\ j # i => exchanges'[j] = exchanges[j]
      /\ Issued \subseteq Issued'
  BY ServedFields
<1>2. ASSUME NEW b, NEW n, Cookie(b, n), n # None
      PROVE  n \in Issued' /\ BrowserOf[exchanges'[n].tab] = b
  <2>1. n \in Issued /\ BrowserOf[exchanges[n].tab] = b /\ n \in DOMAIN exchanges
    BY <1>2 DEF Cookie, Issued
  <2> QED BY <1>1, <2>1 DEF SameRequest
<1>3. ASSUME NEW j \in DOMAIN exchanges,
             NEW x, x = exchanges'[j]
      PROVE  /\ x.token # None => /\ x.token \in Issued'
                                  /\ BrowserOf[exchanges'[x.token].tab] = BrowserOf[x.tab]
             /\ x.heard = "yes" => x.pc \in {"granted", "refused"}
             /\ x.kind = "sign_in" => x.pc \in {"issue", "granted"}
             /\ x.kind = "logout" => x.pc \in {"sent", "unlist", "granted"}
             /\ x.pc \in {"list", "revoke"} => x.token # None
             /\ x.pc \notin {"revoke", "refused"} => x.seen = {}
             /\ x.seen \subseteq Issued'
  <2> DEFINE r == exchanges[j]
  <2>1. /\ Cookie(BrowserOf[r.tab], r.token)
        /\ r.heard = "yes" => r.pc \in {"granted", "refused"}
        /\ r.kind = "sign_in" => r.pc \in {"issue", "granted"}
        /\ r.kind = "logout" => r.pc \in {"sent", "unlist", "granted"}
        /\ r.pc \in {"list", "revoke"} => r.token # None
        /\ r.pc \notin {"revoke", "refused"} => r.seen = {}
        /\ r.seen \subseteq Issued
    BY <1>3 DEF TokenInv, RequestsAreWhole
  <2>2. SameRequest(r, x)
    BY <1>1, <1>3
  <2> HIDE DEF r
  <2>3. x.token # None => /\ x.token \in Issued'
                          /\ BrowserOf[exchanges'[x.token].tab] = BrowserOf[x.tab]
    BY <1>2, <2>1, <2>2 DEF SameRequest
  <2>4. CASE j = i
    <3>1. x = new /\ r = exchanges[i]
      BY <1>1, <1>3, <2>4 DEF r
    <3>2. x.heard # "yes"
      BY <2>1, <2>2, <3>1 DEF Served, SameRequest
    <3> QED BY <1>1, <2>3, <3>1, <3>2 DEF Served
  <2>5. CASE j # i
    <3>1. x = r
      BY <1>1, <1>3, <2>5 DEF r
    <3> QED BY <1>1, <2>1, <2>3, <3>1
  <2> QED BY <2>4, <2>5
<1>4. RequestsAreWhole'
  BY <1>1, <1>3 DEF RequestsAreWhole, Cookie
<1>5. OneRefresh'
  BY <1>1 DEF TokenInv, OneRefresh, SameRequest
<1>6. UnheardIsUnused'
  BY <1>1 DEF TokenInv, UnheardIsUnused, SameRequest, Served
<1>7. ASSUME NEW b \in Browsers PROVE Cookie(b, jar[b])'
  <2>1. Cookie(b, jar[b]) /\ jar' = jar
    BY DEF TokenInv, TokensAreIssued, Served
  <2> QED BY <1>2, <2>1 DEF Cookie
<1> QED BY <1>1, <1>4, <1>5, <1>6, <1>7 DEF TokenInv, TokenTypeOK, Served

(* What is left to show of such a step.                                    *)
LEMMA ServedInv ==
  ASSUME TokenInv, NEW i \in DOMAIN exchanges, NEW new, Served(i, new),
         live' \subseteq Issued', family' \subseteq Issued',
         LookedUpIsSpent', SingleUse', FamilyIsRevoked', QuietTokensLive'
  PROVE  TokenInv'
<1>1. /\ RequestsAreWhole' /\ OneRefresh' /\ UnheardIsUnused'
      /\ \A b \in Browsers : Cookie(b, jar[b])'
      /\ exchanges' \in Seq(Request) /\ Len(exchanges') <= MaxRequests
      /\ jar' \in [Browsers -> Token] /\ access' \in [Tabs -> Token]
  BY ServedStep
<1>2. Issued' \subseteq Token
  <2>1. DOMAIN exchanges' = 1..Len(exchanges') /\ Len(exchanges') \in Nat
    BY <1>1
  <2> QED BY <1>1, <2>1, RequestBound DEF Issued, Token
<1>3. TokenTypeOK'
  BY <1>1, <1>2 DEF TokenTypeOK
<1>4. ExchangedOnce'
  BY SingleUseIs, PTL
<1>5. TokensAreIssued'
  BY <1>1 DEF TokensAreIssued
<1> QED BY <1>1, <1>3, <1>4, <1>5 DEF TokenInv

(* What was exchanged stays so, and what was quiet.                        *)
LEMMA ServedQuiet ==
  ASSUME TokenInv, NEW i \in DOMAIN exchanges, NEW new, Served(i, new)
  PROVE  /\ Quiet' <=> Quiet
         /\ \A k \in DOMAIN exchanges, b \in Browsers :
              Exchanging(k, b) => Exchanging(k, b)'
<1>1. /\ DOMAIN exchanges' = DOMAIN exchanges
      /\ exchanges'[i] = new
      /\ \A j \in DOMAIN exchanges :
           /\ SameRequest(exchanges[j], exchanges'[j])
           /\ j # i => exchanges'[j] = exchanges[j]
  BY ServedFields
<1>2. Quiet' <=> Quiet
  BY <1>1 DEF Quiet, SameRequest
<1>3. ASSUME NEW k \in DOMAIN exchanges, NEW b \in Browsers, Exchanging(k, b)
      PROVE  Exchanging(k, b)'
  <2>1. exchanges'[k].pc # "sent"
    BY <1>1, <1>3 DEF Exchanging, Served
  <2>2. jar' = jar
    BY DEF Served
  <2> QED BY <1>1, <1>3, <2>1, <2>2 DEF Exchanging, SameRequest
<1> QED BY <1>2, <1>3

(* The record a Move writes.                                               *)
LEMMA Moved ==
  ASSUME TokenTypeOK, NEW i \in DOMAIN exchanges, NEW pc \in Pc, Move(i, pc)
  PROVE  LET new == [exchanges[i] EXCEPT !.pc = pc]
         IN  /\ exchanges' = [exchanges EXCEPT ![i] = new]
             /\ new \in Request /\ SameRequest(exchanges[i], new)
             /\ new.pc = pc /\ new.seen = exchanges[i].seen
<1>1. exchanges[i] \in Request
  BY Requests
<1>2. exchanges' = [exchanges EXCEPT ![i] = [exchanges[i] EXCEPT !.pc = pc]]
  BY DEF Move
<1> QED BY <1>1, <1>2 DEF Request, SameRequest, Pc

(* The lookup finds the token: the one request that presents it goes on.   *)
LEMMA ConsumeStep == ASSUME TokenInv, NEW i \in DOMAIN exchanges, Consume(i) PROVE TokenInv'
<1> DEFINE r == exchanges[i]
           new == [r EXCEPT !.pc = "unlist"]
<1>1. /\ r.pc = "sent" /\ r.token \in live /\ live' = live \ {r.token}
      /\ Move(i, "unlist") /\ UNCHANGED <<family, jar, access>>
  BY DEF Consume
<1>2. /\ exchanges' = [exchanges EXCEPT ![i] = new]
      /\ new \in Request /\ SameRequest(r, new)
      /\ new.pc = "unlist" /\ new.seen = r.seen
  BY <1>1, Moved DEF TokenInv, Pc
<1>3. r.kind # "sign_in" /\ r.seen = {} /\ r \in Request
  BY <1>1, Requests DEF TokenInv, RequestsAreWhole
<1> HIDE DEF new
<1>4. Served(i, new)
  BY <1>1, <1>2, <1>3 DEF Served, SameRequest
<1>5. /\ DOMAIN exchanges' = DOMAIN exchanges
      /\ exchanges'[i] = new
      /\ \A j \in DOMAIN exchanges :
           /\ SameRequest(exchanges[j], exchanges'[j])
           /\ j # i => exchanges'[j] = exchanges[j]
      /\ Issued \subseteq Issued'
  BY <1>4, ServedFields
<1>6. live' \subseteq Issued' /\ family' \subseteq Issued'
  BY <1>1, <1>5 DEF TokenInv, TokensAreIssued
<1>7. LookedUpIsSpent'
  BY <1>1, <1>2, <1>5 DEF TokenInv, LookedUpIsSpent, SameRequest
<1>8. SingleUse'
  <2>1. SingleUse
    BY SingleUseIs DEF TokenInv
  <2>2. \A j \in DOMAIN exchanges : Buys(exchanges[j]) => exchanges[j].token # r.token
    BY <1>1 DEF TokenInv, LookedUpIsSpent, Buys
  <2> QED BY <1>5, <2>1, <2>2 DEF SingleUse, SameRequest
<1>9. FamilyIsRevoked'
  <2>1. \A j \in DOMAIN exchanges : /\ exchanges'[j].pc = "refused" <=> exchanges[j].pc = "refused"
                                    /\ exchanges'[j].seen = exchanges[j].seen
    BY <1>1, <1>2, <1>5
  <2> QED BY <1>1, <1>5, <2>1 DEF TokenInv, FamilyIsRevoked, SameRequest
<1>10. ASSUME Quiet' PROVE QuietTokensLive'
  <2>1. Quiet
    BY <1>4, <1>10, ServedQuiet
  <2>2. r.kind = "refresh" /\ r.heard = "waiting" /\ r.token # None
    BY <1>1, <1>3, <2>1, Requests DEF Quiet, TokenInv, RequestsAreWhole, Request,
       TokensAreIssued, Issued
  <2>3. Cookie(BrowserOf[r.tab], r.token)
    BY DEF TokenInv, RequestsAreWhole
  <2>4. ASSUME NEW j \in DOMAIN exchanges, exchanges[j].kind = "refresh",
               exchanges[j].pc = "sent", exchanges[j].token = r.token
        PROVE  j = i
    <3>1. exchanges[j].heard = "waiting"
      BY <2>1, <2>4, Requests DEF Quiet, TokenInv, RequestsAreWhole, Request
    <3>2. BrowserOf[exchanges[j].tab] = BrowserOf[r.tab]
      BY <2>2, <2>3, <2>4 DEF TokenInv, RequestsAreWhole, Cookie
    <3> QED BY <2>2, <2>4, <3>1, <3>2 DEF TokenInv, OneRefresh
  <2>5. ASSUME NEW j \in DOMAIN exchanges, NEW x, x = exchanges'[j]
        PROVE  /\ x.pc \notin {"list", "revoke"}
               /\ x.pc = "refused" => x.token = None
               /\ x.kind = "refresh" /\ x.pc = "sent" /\ x.token # None => x.token \in live'
               /\ x.pc = "granted" /\ x.heard = "waiting" => j \in live'
    <3>1. CASE j = i
      BY <1>2, <1>5, <2>5, <3>1
    <3>2. CASE j # i
      <4>1. x = exchanges[j]
        BY <1>5, <2>5, <3>2
      <4>2. /\ x.pc \notin {"list", "revoke"}
            /\ x.pc = "refused" => x.token = None
            /\ x.kind = "refresh" /\ x.pc = "sent" /\ x.token # None => x.token \in live
            /\ x.pc = "granted" /\ x.heard = "waiting" => j \in live
        BY <2>1, <4>1 DEF TokenInv, QuietTokensLive
      <4>3. x.heard = "waiting" => j # r.token
        BY <4>1 DEF TokenInv, UnheardIsUnused
      <4> QED BY <1>1, <2>4, <3>2, <4>1, <4>2, <4>3
    <3> QED BY <3>1, <3>2
  <2>6. ASSUME NEW b \in Browsers
        PROVE  \/ jar'[b] = None \/ jar'[b] \in live'
               \/ \E k \in DOMAIN exchanges' : Exchanging(k, b)'
    <3>1. CASE jar[b] = r.token
      <4>1. BrowserOf[r.tab] = b
        BY <2>2, <2>3, <3>1 DEF TokenInv, TokensAreIssued, Cookie
      <4>2. Exchanging(i, b)'
        BY <1>1, <1>2, <1>5, <2>2, <3>1, <4>1 DEF Exchanging, SameRequest
      <4> QED BY <1>5, <4>2
    <3>2. CASE jar[b] # r.token
      <4>1. \/ jar[b] = None \/ jar[b] \in live
            \/ \E k \in DOMAIN exchanges : Exchanging(k, b)
        BY <2>1 DEF TokenInv, QuietTokensLive
      <4>2. \A k \in DOMAIN exchanges : Exchanging(k, b) => Exchanging(k, b)'
        BY <1>4, ServedQuiet
      <4> QED BY <1>1, <1>5, <3>2, <4>1, <4>2
    <3> QED BY <3>1, <3>2
  <2> QED BY <1>5, <2>5, <2>6 DEF QuietTokensLive
<1>11. QuietTokensLive'
  BY <1>10 DEF QuietTokensLive
<1> QED BY <1>4, <1>6, <1>7, <1>8, <1>9, <1>11, ServedInv

(* A step of the server that spends nothing keeps the quiet, unless it     *)
(* revokes; what it issues is live.                                        *)
LEMMA QuietKept ==
  ASSUME TokenInv, NEW i \in DOMAIN exchanges, NEW new, Served(i, new),
         Quiet => /\ live \subseteq live'
                  /\ new.pc \notin {"list", "revoke"}
                  /\ new.pc = "refused" => new.token = None
                  /\ new.pc = "granted" => i \in live'
  PROVE  QuietTokensLive'
<1> SUFFICES ASSUME Quiet' PROVE QuietTokensLive'
  BY DEF QuietTokensLive
<1>1. /\ DOMAIN exchanges' = DOMAIN exchanges
      /\ exchanges'[i] = new
      /\ \A j \in DOMAIN exchanges : j # i => exchanges'[j] = exchanges[j]
  BY ServedFields
<1>2. Quiet /\ live \subseteq live'
  BY ServedQuiet
<1>3. ASSUME NEW j \in DOMAIN exchanges, NEW x, x = exchanges'[j]
      PROVE  /\ x.pc \notin {"list", "revoke"}
             /\ x.pc = "refused" => x.token = None
             /\ x.kind = "refresh" /\ x.pc = "sent" /\ x.token # None => x.token \in live'
             /\ x.pc = "granted" /\ x.heard = "waiting" => j \in live'
  <2>1. CASE j = i
    BY <1>1, <1>2, <1>3, <2>1 DEF Served
  <2>2. CASE j # i
    <3>1. x = exchanges[j]
      BY <1>1, <1>3, <2>2
    <3> QED BY <1>2, <3>1 DEF TokenInv, QuietTokensLive
  <2> QED BY <2>1, <2>2
<1>4. ASSUME NEW b \in Browsers
      PROVE  \/ jar'[b] = None \/ jar'[b] \in live'
             \/ \E k \in DOMAIN exchanges' : Exchanging(k, b)'
  <2>1. \/ jar[b] = None \/ jar[b] \in live
        \/ \E k \in DOMAIN exchanges : Exchanging(k, b)
    BY <1>2 DEF TokenInv, QuietTokensLive
  <2>2. \A k \in DOMAIN exchanges : Exchanging(k, b) => Exchanging(k, b)'
    BY ServedQuiet
  <2> QED BY <1>1, <1>2, <2>1, <2>2 DEF Served
<1> QED BY <1>1, <1>3, <1>4 DEF QuietTokensLive

(* No such key: refused, or taken for a replay.                            *)
LEMMA SpentStep == ASSUME TokenInv, NEW i \in DOMAIN exchanges, Spent(i) PROVE TokenInv'
<1> DEFINE r == exchanges[i]
           pc == IF r.kind = "logout" THEN "granted"
                 ELSE IF r.token = None THEN "refused" ELSE "list"
           new == [r EXCEPT !.pc = pc]
<1>1. /\ r.pc = "sent" /\ r.token \notin live
      /\ Move(i, pc) /\ UNCHANGED <<live, family, jar, access>>
  BY DEF Spent
<1>2. /\ exchanges' = [exchanges EXCEPT ![i] = new]
      /\ new \in Request /\ SameRequest(r, new)
      /\ new.pc = pc /\ new.seen = r.seen
  <2>1. pc \in Pc
    BY DEF Pc
  <2> HIDE DEF pc
  <2> QED BY <1>1, <2>1, Moved DEF TokenInv
<1>3. r.kind # "sign_in" /\ r.seen = {} /\ r \in Request
  BY <1>1, Requests DEF TokenInv, RequestsAreWhole
<1> HIDE DEF new
<1>4. Served(i, new)
  BY <1>1, <1>2, <1>3 DEF Served, SameRequest
<1>5. /\ DOMAIN exchanges' = DOMAIN exchanges
      /\ exchanges'[i] = new
      /\ \A j \in DOMAIN exchanges :
           /\ SameRequest(exchanges[j], exchanges'[j])
           /\ j # i => exchanges'[j] = exchanges[j]
      /\ Issued \subseteq Issued'
  BY <1>4, ServedFields
<1>6. live' \subseteq Issued' /\ family' \subseteq Issued'
  BY <1>1, <1>5 DEF TokenInv, TokensAreIssued
<1>7. LookedUpIsSpent'
  BY <1>1, <1>2, <1>5 DEF TokenInv, LookedUpIsSpent, SameRequest
<1>8. SingleUse'
  <2>1. SingleUse
    BY SingleUseIs DEF TokenInv
  <2>2. ~Buys(new)
    BY <1>2 DEF Buys, SameRequest
  <2> QED BY <1>5, <2>1, <2>2 DEF SingleUse
<1>9. FamilyIsRevoked'
  <2>1. \A j \in DOMAIN exchanges :
          /\ exchanges[j].pc = "refused" => exchanges'[j].pc = "refused"
          /\ exchanges'[j].seen = exchanges[j].seen
          /\ exchanges'[j].pc = "refused" => exchanges[j].pc = "refused" \/ exchanges'[j].seen = {}
    BY <1>1, <1>2, <1>3, <1>5
  <2> QED BY <1>1, <1>5, <2>1 DEF TokenInv, FamilyIsRevoked, SameRequest
<1>10. Quiet => r.kind = "refresh" /\ r.token = None
  BY <1>1, <1>3 DEF Quiet, Request, TokenInv, QuietTokensLive
<1>11. QuietTokensLive'
  BY <1>1, <1>2, <1>4, <1>10, QuietKept DEF SameRequest
<1> QED BY <1>4, <1>6, <1>7, <1>8, <1>9, <1>11, ServedInv

(* The spent token leaves the family.                                      *)
LEMMA UnlistStep == ASSUME TokenInv, NEW i \in DOMAIN exchanges, Unlist(i) PROVE TokenInv'
<1> DEFINE r == exchanges[i]
           pc == IF r.kind = "logout" THEN "granted" ELSE "issue"
           new == [r EXCEPT !.pc = pc]
<1>1. /\ r.pc = "unlist" /\ family' = family \ {r.token}
      /\ Move(i, pc) /\ UNCHANGED <<live, jar, access>>
  BY DEF Unlist
<1>2. /\ exchanges' = [exchanges EXCEPT ![i] = new]
      /\ new \in Request /\ SameRequest(r, new)
      /\ new.pc = pc /\ new.seen = r.seen
  <2>1. pc \in Pc
    BY DEF Pc
  <2> HIDE DEF pc
  <2> QED BY <1>1, <2>1, Moved DEF TokenInv
<1>3. r.kind # "sign_in" /\ r.seen = {} /\ r \in Request /\ r.token \notin live
  BY <1>1, Requests DEF TokenInv, RequestsAreWhole, LookedUpIsSpent
<1> HIDE DEF new
<1>4. Served(i, new)
  BY <1>1, <1>2, <1>3 DEF Served, SameRequest
<1>5. /\ DOMAIN exchanges' = DOMAIN exchanges
      /\ exchanges'[i] = new
      /\ \A j \in DOMAIN exchanges :
           /\ SameRequest(exchanges[j], exchanges'[j])
           /\ j # i => exchanges'[j] = exchanges[j]
      /\ Issued \subseteq Issued'
  BY <1>4, ServedFields
<1>6. live' \subseteq Issued' /\ family' \subseteq Issued'
  BY <1>1, <1>5 DEF TokenInv, TokensAreIssued
<1>7. LookedUpIsSpent'
  BY <1>1, <1>2, <1>5 DEF TokenInv, LookedUpIsSpent, SameRequest
<1>8. SingleUse'
  <2>1. SingleUse
    BY SingleUseIs DEF TokenInv
  <2>2. Buys(new) => Buys(r) /\ new.token = r.token
    BY <1>1, <1>2 DEF Buys, SameRequest
  <2> QED BY <1>5, <2>1, <2>2 DEF SingleUse, SameRequest
<1>9. FamilyIsRevoked'
  <2>1. \A j \in DOMAIN exchanges : /\ exchanges'[j].pc = "refused" <=> exchanges[j].pc = "refused"
                                    /\ exchanges'[j].seen = exchanges[j].seen
    BY <1>1, <1>2, <1>5
  <2> QED BY <1>1, <1>3, <1>5, <2>1 DEF TokenInv, FamilyIsRevoked, SameRequest
<1>10. QuietTokensLive'
  BY <1>1, <1>2, <1>4, QuietKept DEF SameRequest, Quiet
<1> QED BY <1>4, <1>6, <1>7, <1>8, <1>9, <1>10, ServedInv

(* A new token enters the allowlist and the family together.               *)
LEMMA IssueStep == ASSUME TokenInv, NEW i \in DOMAIN exchanges, Issue(i) PROVE TokenInv'
<1> DEFINE r == exchanges[i]
           new == [r EXCEPT !.pc = "granted"]
<1>1. /\ r.pc = "issue" /\ live' = live \cup {i} /\ family' = family \cup {i}
      /\ Move(i, "granted") /\ UNCHANGED <<jar, access>>
  BY DEF Issue
<1>2. /\ exchanges' = [exchanges EXCEPT ![i] = new]
      /\ new \in Request /\ SameRequest(r, new)
      /\ new.pc = "granted" /\ new.seen = r.seen
  BY <1>1, Moved DEF TokenInv, Pc
<1>3. r.kind # "logout" /\ r.seen = {} /\ r.heard # "yes"
  BY <1>1 DEF TokenInv, RequestsAreWhole
<1> HIDE DEF new
<1>4. Served(i, new)
  BY <1>1, <1>2, <1>3 DEF Served, SameRequest
<1>5. /\ DOMAIN exchanges' = DOMAIN exchanges
      /\ exchanges'[i] = new
      /\ \A j \in DOMAIN exchanges :
           /\ SameRequest(exchanges[j], exchanges'[j])
           /\ j # i => exchanges'[j] = exchanges[j]
      /\ Issued \subseteq Issued'
  BY <1>4, ServedFields
<1>6. i \in Issued' /\ i \notin Issued
  BY <1>1, <1>2, <1>3, <1>5 DEF Issued, SameRequest
<1>7. live' \subseteq Issued' /\ family' \subseteq Issued'
  BY <1>1, <1>5, <1>6 DEF TokenInv, TokensAreIssued
<1>8. \A j \in DOMAIN exchanges : exchanges[j].token # i
  <2>1. i # None
    BY Requests DEF TokenInv
  <2> QED BY <1>6, <2>1 DEF TokenInv, RequestsAreWhole, Cookie
<1>9. LookedUpIsSpent'
  <2>1. \A j \in DOMAIN exchanges : exchanges'[j].pc = "sent" <=> exchanges[j].pc = "sent"
    BY <1>1, <1>2, <1>5
  <2> QED BY <1>1, <1>5, <1>8, <2>1 DEF TokenInv, LookedUpIsSpent, SameRequest
<1>10. SingleUse'
  <2>1. SingleUse
    BY SingleUseIs DEF TokenInv
  <2>2. Buys(new) => Buys(r) /\ new.token = r.token
    BY <1>1, <1>2 DEF Buys, SameRequest
  <2> QED BY <1>5, <2>1, <2>2 DEF SingleUse, SameRequest
<1>11. FamilyIsRevoked'
  <2>1. \A j \in DOMAIN exchanges : /\ exchanges'[j].pc = "refused" <=> exchanges[j].pc = "refused"
                                    /\ exchanges'[j].seen = exchanges[j].seen
                                    /\ i \notin exchanges[j].seen
    BY <1>1, <1>2, <1>5, <1>6 DEF TokenInv, RequestsAreWhole
  <2> QED BY <1>1, <1>5, <2>1 DEF TokenInv, FamilyIsRevoked, SameRequest
<1>12. QuietTokensLive'
  BY <1>1, <1>2, <1>4, QuietKept
<1> QED BY <1>4, <1>7, <1>9, <1>10, <1>11, <1>12, ServedInv

(* A replay: the family is read.                                           *)
LEMMA ReadFamilyStep ==
  ASSUME TokenInv, NEW i \in DOMAIN exchanges, ReadFamily(i) PROVE TokenInv'
<1> DEFINE r == exchanges[i]
           new == [r EXCEPT !.pc = "revoke", !.seen = family]
<1>1. /\ r.pc = "list" /\ UNCHANGED <<live, family, jar, access>>
      /\ exchanges' = [exchanges EXCEPT ![i] = new]
  BY DEF ReadFamily
<1>2. /\ new \in Request /\ SameRequest(r, new)
      /\ new.pc = "revoke" /\ new.seen = family
  <2>1. r \in Request /\ family \subseteq Token
    BY Requests DEF TokenInv, TokenTypeOK
  <2> QED BY <2>1 DEF Request, SameRequest
<1>3. /\ r.kind = "refresh" /\ r.token # None /\ r \in Request
  BY <1>1, Requests DEF TokenInv, RequestsAreWhole, Request
<1> HIDE DEF new
<1>4. Served(i, new)
  BY <1>1, <1>2, <1>3 DEF Served, SameRequest, TokenInv, TokensAreIssued
<1>5. /\ DOMAIN exchanges' = DOMAIN exchanges
      /\ exchanges'[i] = new
      /\ \A j \in DOMAIN exchanges :
           /\ SameRequest(exchanges[j], exchanges'[j])
           /\ j # i => exchanges'[j] = exchanges[j]
      /\ Issued \subseteq Issued'
  BY <1>4, ServedFields
<1>6. live' \subseteq Issued' /\ family' \subseteq Issued'
  BY <1>1, <1>5 DEF TokenInv, TokensAreIssued
<1>7. LookedUpIsSpent'
  <2>1. \A j \in DOMAIN exchanges : exchanges'[j].pc = "sent" <=> exchanges[j].pc = "sent"
    BY <1>1, <1>2, <1>5
  <2> QED BY <1>1, <1>5, <2>1 DEF TokenInv, LookedUpIsSpent, SameRequest
<1>8. SingleUse'
  <2>1. SingleUse
    BY SingleUseIs DEF TokenInv
  <2>2. ~Buys(new)
    BY <1>2 DEF Buys
  <2> QED BY <1>5, <2>1, <2>2 DEF SingleUse
<1>9. FamilyIsRevoked'
  <2>1. \A j \in DOMAIN exchanges :
          /\ exchanges'[j].pc = "refused" <=> exchanges[j].pc = "refused"
          /\ exchanges'[j].pc = "refused" => exchanges'[j].seen = exchanges[j].seen
    BY <1>1, <1>2, <1>5
  <2> QED BY <1>1, <1>5, <2>1 DEF TokenInv, FamilyIsRevoked, SameRequest
<1>10. ~Quiet
  BY <1>1 DEF TokenInv, QuietTokensLive
<1>11. QuietTokensLive'
  BY <1>4, <1>10, QuietKept
<1> QED BY <1>4, <1>6, <1>7, <1>8, <1>9, <1>11, ServedInv

(* What was read is revoked.                                               *)
LEMMA RevokeStep == ASSUME TokenInv, NEW i \in DOMAIN exchanges, Revoke(i) PROVE TokenInv'
<1> DEFINE r == exchanges[i]
           new == [r EXCEPT !.pc = "refused"]
<1>1. /\ r.pc = "revoke" /\ live' = live \ r.seen /\ family' = {}
      /\ Move(i, "refused") /\ UNCHANGED <<jar, access>>
  BY DEF Revoke
<1>2. /\ exchanges' = [exchanges EXCEPT ![i] = new]
      /\ new \in Request /\ SameRequest(r, new)
      /\ new.pc = "refused" /\ new.seen = r.seen
  BY <1>1, Moved DEF TokenInv, Pc
<1>3. /\ r.kind = "refresh" /\ r.token # None /\ r.seen \subseteq Issued /\ r \in Request
  BY <1>1, Requests DEF TokenInv, RequestsAreWhole, Request
<1> HIDE DEF new
<1>4. Served(i, new)
  BY <1>1, <1>2, <1>3 DEF Served, SameRequest
<1>5. /\ DOMAIN exchanges' = DOMAIN exchanges
      /\ exchanges'[i] = new
      /\ \A j \in DOMAIN exchanges :
           /\ SameRequest(exchanges[j], exchanges'[j])
           /\ j # i => exchanges'[j] = exchanges[j]
      /\ Issued \subseteq Issued'
  BY <1>4, ServedFields
<1>6. live' \subseteq Issued' /\ family' \subseteq Issued'
  BY <1>1, <1>5 DEF TokenInv, TokensAreIssued
<1>7. LookedUpIsSpent'
  <2>1. \A j \in DOMAIN exchanges : exchanges'[j].pc = "sent" <=> exchanges[j].pc = "sent"
    BY <1>1, <1>2, <1>5
  <2> QED BY <1>1, <1>5, <2>1 DEF TokenInv, LookedUpIsSpent, SameRequest
<1>8. SingleUse'
  <2>1. SingleUse
    BY SingleUseIs DEF TokenInv
  <2>2. ~Buys(new)
    BY <1>2 DEF Buys
  <2> QED BY <1>5, <2>1, <2>2 DEF SingleUse
<1>9. FamilyIsRevoked'
  <2>1. \A j \in DOMAIN exchanges :
          /\ exchanges'[j].pc = "refused" => exchanges[j].pc = "refused" \/ j = i
          /\ exchanges'[j].seen = exchanges[j].seen
    BY <1>2, <1>5
  <2>2. i \in DOMAIN exchanges' /\ exchanges'[i].pc = "refused" /\ exchanges'[i].token # None
    BY <1>2, <1>3, <1>5 DEF SameRequest
  <2> QED BY <1>1, <1>5, <2>1, <2>2 DEF TokenInv, FamilyIsRevoked, SameRequest
<1>10. ~Quiet
  BY <1>1 DEF TokenInv, QuietTokensLive
<1>11. QuietTokensLive'
  BY <1>4, <1>10, QuietKept
<1> QED BY <1>4, <1>6, <1>7, <1>8, <1>9, <1>11, ServedInv

-----------------------------------------------------------------------------
(***************************************************************************)
(* A step of the browser on what it sent: answers are heard or lost.       *)
(***************************************************************************)
Heard(r, x) == /\ x.kind = r.kind /\ x.tab = r.tab /\ x.token = r.token
               /\ x.pc = r.pc /\ x.seen = r.seen
               /\ x.heard # r.heard => r.heard = "waiting"
               /\ x.heard = "yes" => x.pc \in {"granted", "refused"}

(* A step that only hears or loses answers keeps the invariant.            *)
LEMMA HeardStep ==
  ASSUME TokenInv,
         exchanges' \in Seq(Request), Len(exchanges') = Len(exchanges),
         \A j \in DOMAIN exchanges : Heard(exchanges[j], exchanges'[j]),
         UNCHANGED <<live, family>>,
         jar' \in [Browsers -> Token], access' \in [Tabs -> Token],
         \A b \in Browsers : Cookie(b, jar'[b]),
         \A b \in Browsers : \A j \in DOMAIN exchanges :
           exchanges'[j].heard = "waiting" => jar'[b] # j,
         QuietTokensLive'
  PROVE  TokenInv'
<1>1. DOMAIN exchanges' = DOMAIN exchanges
  BY DEF TokenInv, TokenTypeOK
<1>2. Issued' = Issued
  BY <1>1 DEF Issued, Heard
<1>3. ASSUME NEW b, NEW n, Cookie(b, n), n # None
      PROVE  n \in Issued' /\ BrowserOf[exchanges'[n].tab] = b
  <2>1. n \in Issued /\ BrowserOf[exchanges[n].tab] = b /\ n \in DOMAIN exchanges
    BY <1>3 DEF Cookie, Issued
  <2> QED BY <1>2, <2>1 DEF Heard
<1>4. TokenTypeOK' /\ TokensAreIssued'
  <2>1. TokenTypeOK'
    BY DEF TokenInv, TokenTypeOK
  <2>2. live' \cup family' \subseteq Issued'
    BY <1>2 DEF TokenInv, TokensAreIssued
  <2>3. ASSUME NEW b \in Browsers PROVE Cookie(b, jar[b])'
    BY <1>3 DEF Cookie
  <2> QED BY <2>1, <2>2, <2>3 DEF TokensAreIssued
<1>5. ASSUME NEW j \in DOMAIN exchanges, NEW x, x = exchanges'[j]
      PROVE  /\ x.token # None => /\ x.token \in Issued'
                                  /\ BrowserOf[exchanges'[x.token].tab] = BrowserOf[x.tab]
             /\ x.heard = "yes" => x.pc \in {"granted", "refused"}
             /\ x.kind = "sign_in" => x.pc \in {"issue", "granted"}
             /\ x.kind = "logout" => x.pc \in {"sent", "unlist", "granted"}
             /\ x.pc \in {"list", "revoke"} => x.token # None
             /\ x.pc \notin {"revoke", "refused"} => x.seen = {}
             /\ x.seen \subseteq Issued'
  <2> DEFINE r == exchanges[j]
  <2>1. /\ Cookie(BrowserOf[r.tab], r.token)
        /\ r.kind = "sign_in" => r.pc \in {"issue", "granted"}
        /\ r.kind = "logout" => r.pc \in {"sent", "unlist", "granted"}
        /\ r.pc \in {"list", "revoke"} => r.token # None
        /\ r.pc \notin {"revoke", "refused"} => r.seen = {}
        /\ r.seen \subseteq Issued
    BY DEF TokenInv, RequestsAreWhole
  <2>2. Heard(r, x)
    BY <1>5
  <2> HIDE DEF r
  <2> QED BY <1>2, <1>3, <2>1, <2>2 DEF Heard
<1>6. RequestsAreWhole'
  BY <1>1, <1>5 DEF RequestsAreWhole, Cookie
<1>7. LookedUpIsSpent'
  BY <1>1 DEF TokenInv, LookedUpIsSpent, Heard
<1>8. OneRefresh'
  BY <1>1 DEF TokenInv, OneRefresh, Heard
<1>9. UnheardIsUnused'
  BY <1>1 DEF TokenInv, UnheardIsUnused, Heard
<1>10. FamilyIsRevoked'
  BY <1>1 DEF TokenInv, FamilyIsRevoked, Heard
<1>11. ExchangedOnce'
  <2>1. SingleUse
    BY SingleUseIs DEF TokenInv
  <2>2. SingleUse'
    BY <1>1, <2>1 DEF SingleUse, Buys, Heard
  <2> QED BY <2>2, SingleUseIs, PTL
<1> QED BY <1>4, <1>6, <1>7, <1>8, <1>9, <1>10, <1>11 DEF TokenInv

(* One answer is heard or lost.                                            *)
LEMMA HeardOne ==
  ASSUME TokenInv, NEW i \in DOMAIN exchanges, NEW heard \in {"yes", "lost"},
         exchanges[i].heard = "waiting",
         heard = "yes" => exchanges[i].pc \in {"granted", "refused"},
         exchanges' = [exchanges EXCEPT ![i].heard = heard]
  PROVE  /\ exchanges' \in Seq(Request) /\ Len(exchanges') = Len(exchanges)
         /\ DOMAIN exchanges' = DOMAIN exchanges
         /\ \A j \in DOMAIN exchanges : Heard(exchanges[j], exchanges'[j])
         /\ \A j \in DOMAIN exchanges : j # i => exchanges'[j] = exchanges[j]
         /\ exchanges'[i].heard = heard
<1> DEFINE new == [exchanges[i] EXCEPT !.heard = heard]
<1>1. exchanges[i] \in Request
  BY Requests DEF TokenInv
<1>2. /\ new \in Request /\ Heard(exchanges[i], new) /\ new.heard = heard
  BY <1>1 DEF Request, Heard
<1>3. exchanges' = [exchanges EXCEPT ![i] = new]
  OBVIOUS
<1> HIDE DEF new
<1>4. /\ exchanges' \in Seq(Request) /\ Len(exchanges') = Len(exchanges)
      /\ DOMAIN exchanges' = DOMAIN exchanges
      /\ \A j \in DOMAIN exchanges :
           exchanges'[j] = IF j = i THEN new ELSE exchanges[j]
  BY <1>2, <1>3, Rewritten DEF TokenInv, TokenTypeOK
<1>5. \A j \in DOMAIN exchanges : Heard(exchanges[j], exchanges[j])
  BY DEF Heard, TokenInv, RequestsAreWhole
<1> QED BY <1>2, <1>4, <1>5

(* What the quiet is made of stays, if the cookies stay live.              *)
LEMMA HeardQuiet ==
  ASSUME TokenInv, DOMAIN exchanges' = DOMAIN exchanges,
         \A j \in DOMAIN exchanges : Heard(exchanges[j], exchanges'[j]),
         UNCHANGED <<live, family>>,
         Quiet' => \A b \in Browsers :
           \/ jar'[b] = None \/ jar'[b] \in live'
           \/ \E k \in DOMAIN exchanges : Exchanging(k, b)'
  PROVE  QuietTokensLive'
<1> SUFFICES ASSUME Quiet' PROVE QuietTokensLive'
  BY DEF QuietTokensLive
<1>1. Quiet
  BY DEF Quiet, Heard
<1>2. ASSUME NEW j \in DOMAIN exchanges, NEW x, x = exchanges'[j]
      PROVE  /\ x.pc \notin {"list", "revoke"}
             /\ x.pc = "refused" => x.token = None
             /\ x.kind = "refresh" /\ x.pc = "sent" /\ x.token # None => x.token \in live'
             /\ x.pc = "granted" /\ x.heard = "waiting" => j \in live'
  <2>1. Heard(exchanges[j], x)
    BY <1>2
  <2> QED BY <1>1, <2>1 DEF Heard, TokenInv, QuietTokensLive
<1> QED BY <1>2 DEF QuietTokensLive

(* A tab that hears of its new tokens keeps the invariant.                 *)
LEMMA HearTokensStep ==
  ASSUME TokenInv, NEW i \in DOMAIN exchanges, HearTokens(i) PROVE TokenInv'
<1> DEFINE r == exchanges[i]
           home == BrowserOf[r.tab]
<1>1. /\ r.heard = "waiting" /\ r.pc = "granted" /\ r.kind # "logout"
      /\ jar' = [jar EXCEPT ![home] = i] /\ access' = [access EXCEPT ![r.tab] = i]
      /\ exchanges' = [exchanges EXCEPT ![i].heard = "yes"]
      /\ UNCHANGED <<live, family>>
  BY DEF HearTokens
<1>2. r \in Request /\ i \in Token /\ i # None
  BY Requests DEF TokenInv
<1>3. /\ exchanges' \in Seq(Request) /\ Len(exchanges') = Len(exchanges)
      /\ DOMAIN exchanges' = DOMAIN exchanges
      /\ \A j \in DOMAIN exchanges : Heard(exchanges[j], exchanges'[j])
      /\ \A j \in DOMAIN exchanges : j # i => exchanges'[j] = exchanges[j]
      /\ exchanges'[i].heard = "yes"
  BY <1>1, HeardOne
<1>4. jar \in [Browsers -> Token] /\ access \in [Tabs -> Token]
  BY DEF TokenInv, TokenTypeOK
<1>5. jar' \in [Browsers -> Token] /\ access' \in [Tabs -> Token]
  BY <1>1, <1>2, <1>4
<1>6. \A b \in Browsers : jar'[b] = IF b = home THEN i ELSE jar[b]
  BY <1>1, <1>4
<1>7. i \in Issued
  BY <1>1 DEF Issued
<1>8. \A b \in Browsers : Cookie(b, jar'[b])
  BY <1>6, <1>7 DEF Cookie, TokenInv, TokensAreIssued
<1>9. \A b \in Browsers : \A j \in DOMAIN exchanges :
        exchanges'[j].heard = "waiting" => jar'[b] # j
  BY <1>3, <1>6 DEF TokenInv, UnheardIsUnused
<1>10. ASSUME Quiet', NEW b \in Browsers
       PROVE  \/ jar'[b] = None \/ jar'[b] \in live'
              \/ \E k \in DOMAIN exchanges : Exchanging(k, b)'
  <2>1. Quiet
    BY <1>3, <1>10 DEF Quiet, Heard
  <2>2. CASE b = home
    BY <1>1, <1>6, <2>1, <2>2 DEF TokenInv, QuietTokensLive
  <2>3. CASE b # home
    <3>1. \/ jar[b] = None \/ jar[b] \in live
          \/ \E k \in DOMAIN exchanges : Exchanging(k, b)
      BY <2>1 DEF TokenInv, QuietTokensLive
    <3>2. \A k \in DOMAIN exchanges : Exchanging(k, b) => Exchanging(k, b)'
      BY <1>3, <1>6, <2>3 DEF Exchanging
    <3> QED BY <1>1, <1>6, <2>3, <3>1, <3>2
  <2> QED BY <2>2, <2>3
<1>11. QuietTokensLive'
  BY <1>1, <1>3, <1>10, HeardQuiet
<1> QED BY <1>1, <1>3, <1>5, <1>8, <1>9, <1>11, HeardStep

(* A tab that hears of a refusal or a sign-out keeps the invariant.        *)
LEMMA HearTheEndStep ==
  ASSUME TokenInv, NEW i \in DOMAIN exchanges, HearTheEnd(i) PROVE TokenInv'
<1> DEFINE r == exchanges[i]
           home == BrowserOf[r.tab]
<1>1. /\ r.heard = "waiting" /\ r.pc \in {"granted", "refused"}
      /\ \/ r.pc = "refused" /\ jar' = jar
         \/ r.kind = "logout" /\ jar' = [jar EXCEPT ![home] = None]
      /\ access' = [access EXCEPT ![r.tab] = None]
      /\ exchanges' = [exchanges EXCEPT ![i].heard = "yes"]
      /\ UNCHANGED <<live, family>>
  BY DEF HearTheEnd
<1>2. None \in Token
  BY RequestBound DEF None, Token
<1>3. /\ exchanges' \in Seq(Request) /\ Len(exchanges') = Len(exchanges)
      /\ DOMAIN exchanges' = DOMAIN exchanges
      /\ \A j \in DOMAIN exchanges : Heard(exchanges[j], exchanges'[j])
      /\ \A j \in DOMAIN exchanges : j # i => exchanges'[j] = exchanges[j]
      /\ exchanges'[i].heard = "yes"
  BY <1>1, HeardOne
<1>4. jar \in [Browsers -> Token] /\ access \in [Tabs -> Token]
  BY DEF TokenInv, TokenTypeOK
<1>5. jar' \in [Browsers -> Token] /\ access' \in [Tabs -> Token]
  BY <1>1, <1>2, <1>4
<1>6. \A b \in Browsers : jar'[b] = jar[b] \/ jar'[b] = None
  BY <1>1, <1>4
<1>7. \A b \in Browsers : Cookie(b, jar'[b])
  BY <1>6 DEF Cookie, TokenInv, TokensAreIssued
<1>8. \A b \in Browsers : \A j \in DOMAIN exchanges :
        exchanges'[j].heard = "waiting" => jar'[b] # j
  <2>1. \A j \in DOMAIN exchanges : j # None
    BY Requests DEF TokenInv
  <2> QED BY <1>3, <1>6, <2>1 DEF TokenInv, UnheardIsUnused
<1>9. ASSUME Quiet', NEW b \in Browsers
      PROVE  \/ jar'[b] = None \/ jar'[b] \in live'
             \/ \E k \in DOMAIN exchanges : Exchanging(k, b)'
  <2>1. Quiet /\ r.kind # "logout"
    BY <1>3, <1>9 DEF Quiet, Heard
  <2>2. r.pc = "refused" /\ jar' = jar /\ r.token = None
    BY <1>1, <2>1 DEF TokenInv, QuietTokensLive
  <2>3. \/ jar[b] = None \/ jar[b] \in live
        \/ \E k \in DOMAIN exchanges : Exchanging(k, b)
    BY <2>1 DEF TokenInv, QuietTokensLive
  <2>4. ASSUME NEW k \in DOMAIN exchanges, Exchanging(k, b), jar[b] # None
        PROVE  Exchanging(k, b)'
    <3>1. k # i
      BY <2>2, <2>4 DEF Exchanging
    <3> QED BY <1>3, <2>2, <2>4, <3>1 DEF Exchanging
  <2> QED BY <1>1, <2>2, <2>3, <2>4
<1>10. QuietTokensLive'
  BY <1>1, <1>3, <1>9, HeardQuiet
<1> QED BY <1>1, <1>3, <1>5, <1>7, <1>8, <1>10, HeardStep

(* An answer lost on its way keeps the invariant.                          *)
LEMMA LoseStep == ASSUME TokenInv, NEW i \in DOMAIN exchanges, Lose(i) PROVE TokenInv'
<1> DEFINE r == exchanges[i]
<1>1. /\ r.heard = "waiting" /\ exchanges' = [exchanges EXCEPT ![i].heard = "lost"]
      /\ access' = [access EXCEPT ![r.tab] = None] \/ access' = access
      /\ UNCHANGED <<live, family, jar>>
  BY DEF Lose
<1>2. /\ exchanges' \in Seq(Request) /\ Len(exchanges') = Len(exchanges)
      /\ DOMAIN exchanges' = DOMAIN exchanges
      /\ \A j \in DOMAIN exchanges : Heard(exchanges[j], exchanges'[j])
      /\ exchanges'[i].heard = "lost"
  BY <1>1, HeardOne
<1>3. jar' \in [Browsers -> Token] /\ access' \in [Tabs -> Token]
  BY <1>1, RequestBound DEF TokenInv, TokenTypeOK, Token, None
<1>4. \A b \in Browsers : Cookie(b, jar'[b])
  BY <1>1 DEF TokenInv, TokensAreIssued
<1>5. \A b \in Browsers : \A j \in DOMAIN exchanges :
        exchanges'[j].heard = "waiting" => jar'[b] # j
  BY <1>1, <1>2 DEF TokenInv, UnheardIsUnused, Heard
<1>6. QuietTokensLive'
  BY <1>2 DEF QuietTokensLive, Quiet
<1> QED BY <1>1, <1>2, <1>3, <1>4, <1>5, <1>6, HeardStep

(* A reloaded tab keeps the invariant.                                     *)
LEMMA ReloadStep == ASSUME TokenInv, NEW t \in Tabs, Reload(t) PROVE TokenInv'
<1>1. /\ exchanges' = [j \in DOMAIN exchanges |->
                         IF j \in Waiting(t) THEN [exchanges[j] EXCEPT !.heard = "lost"]
                         ELSE exchanges[j]]
      /\ access' = [access EXCEPT ![t] = None]
      /\ UNCHANGED <<live, family, jar>>
  BY DEF Reload
<1>2. ASSUME NEW j \in DOMAIN exchanges
      PROVE  /\ exchanges'[j] \in Request /\ Heard(exchanges[j], exchanges'[j])
             /\ j \in Waiting(t) => exchanges'[j].heard = "lost"
             /\ j \notin Waiting(t) => exchanges'[j] = exchanges[j]
  <2>1. exchanges[j] \in Request
    BY Requests DEF TokenInv
  <2>2. CASE j \in Waiting(t)
    <3>1. exchanges'[j] = [exchanges[j] EXCEPT !.heard = "lost"] /\ exchanges[j].heard = "waiting"
      BY <1>1, <2>2 DEF Waiting
    <3> QED BY <2>1, <2>2, <3>1 DEF Request, Heard
  <2>3. CASE j \notin Waiting(t)
    <3>1. exchanges'[j] = exchanges[j]
      BY <1>1, <2>3
    <3>2. Heard(exchanges[j], exchanges[j])
      BY DEF Heard, TokenInv, RequestsAreWhole
    <3> QED BY <2>1, <2>3, <3>1, <3>2
  <2> QED BY <2>2, <2>3
<1>3. /\ exchanges' \in Seq(Request) /\ Len(exchanges') = Len(exchanges)
      /\ DOMAIN exchanges' = DOMAIN exchanges
  <2>1. DOMAIN exchanges = 1..Len(exchanges) /\ Len(exchanges) \in Nat
    BY DEF TokenInv, TokenTypeOK
  <2>2. exchanges' \in [1..Len(exchanges) -> Request]
    BY <1>1, <1>2, <2>1
  <2> QED BY <2>1, <2>2
<1>4. jar' \in [Browsers -> Token] /\ access' \in [Tabs -> Token]
  BY <1>1, RequestBound DEF TokenInv, TokenTypeOK, Token, None
<1>5. \A b \in Browsers : Cookie(b, jar'[b])
  BY <1>1 DEF TokenInv, TokensAreIssued
<1>6. \A b \in Browsers : \A j \in DOMAIN exchanges :
        exchanges'[j].heard = "waiting" => jar'[b] # j
  BY <1>1, <1>2 DEF TokenInv, UnheardIsUnused, Heard
<1>7. ASSUME Quiet', NEW b \in Browsers
      PROVE  \/ jar'[b] = None \/ jar'[b] \in live'
             \/ \E k \in DOMAIN exchanges : Exchanging(k, b)'
  <2>1. \A j \in DOMAIN exchanges : exchanges'[j] = exchanges[j]
    BY <1>2, <1>3, <1>7 DEF Quiet
  <2>2. Quiet
    BY <1>3, <1>7, <2>1 DEF Quiet
  <2>3. \A k \in DOMAIN exchanges : Exchanging(k, b) => Exchanging(k, b)'
    BY <1>1, <2>1 DEF Exchanging
  <2>4. \/ jar[b] = None \/ jar[b] \in live
        \/ \E k \in DOMAIN exchanges : Exchanging(k, b)
    BY <2>2 DEF TokenInv, QuietTokensLive
  <2> QED BY <1>1, <2>3, <2>4
<1>8. QuietTokensLive'
  BY <1>1, <1>2, <1>3, <1>7, HeardQuiet
<1> QED BY <1>1, <1>2, <1>3, <1>4, <1>5, <1>6, <1>8, HeardStep

-----------------------------------------------------------------------------
(* A request leaves with the cookie of its browser; a refresh only when    *)
(* the browser has none under way.                                         *)
LEMMA DispatchStep ==
  ASSUME TokenInv, NEW t \in Tabs, NEW kind, NEW pc, Dispatch(t, kind, pc),
         <<kind, pc>> \in {<<"sign_in", "issue">>, <<"refresh", "sent">>, <<"logout", "sent">>},
         kind = "refresh" => ~LockHeld(BrowserOf[t]),
         UNCHANGED access
  PROVE  TokenInv'
<1> DEFINE home == BrowserOf[t]
           new == [kind |-> kind, tab |-> t, token |-> jar[home],
                   pc |-> pc, heard |-> "waiting", seen |-> {}]
           n == Len(exchanges) + 1
<1>1. /\ exchanges' = Append(exchanges, new) /\ Len(exchanges) < MaxRequests
      /\ UNCHANGED <<live, family, jar, access>>
  BY DEF Dispatch
<1>2. home \in Browsers /\ exchanges \in Seq(Request) /\ jar \in [Browsers -> Token]
  BY DEF TokenInv, TokenTypeOK, Browsers
<1>3. /\ kind \in {"sign_in", "refresh", "logout"} /\ pc \in {"issue", "sent"}
      /\ kind = "sign_in" <=> pc = "issue"
  OBVIOUS
<1>4. new \in Request
  BY <1>2, <1>3 DEF Request
<1>5. /\ new.kind = kind /\ new.tab = t /\ new.token = jar[home] /\ new.pc = pc
      /\ new.heard = "waiting" /\ new.seen = {}
  OBVIOUS
<1> HIDE DEF new
<1>6. /\ exchanges' \in Seq(Request) /\ Len(exchanges') = n /\ n \in 1..MaxRequests
      /\ DOMAIN exchanges' = DOMAIN exchanges \cup {n} /\ n \notin DOMAIN exchanges
      /\ exchanges'[n] = new
      /\ \A j \in DOMAIN exchanges : exchanges'[j] = exchanges[j]
  BY <1>1, <1>2, <1>4, RequestBound
<1> HIDE DEF n
<1>7. Issued' = Issued /\ Issued \subseteq DOMAIN exchanges
  BY <1>3, <1>5, <1>6 DEF Issued
<1>8. ASSUME NEW b, NEW m, Cookie(b, m), m # None
      PROVE  m \in Issued' /\ BrowserOf[exchanges'[m].tab] = b /\ m # n
  BY <1>6, <1>7, <1>8 DEF Cookie
<1>9. Cookie(home, jar[home])
  BY <1>2 DEF TokenInv, TokensAreIssued
<1>10. TokenTypeOK' /\ TokensAreIssued'
  <2>1. TokenTypeOK'
    BY <1>1, <1>6 DEF TokenInv, TokenTypeOK
  <2>2. live' \cup family' \subseteq Issued'
    BY <1>1, <1>7 DEF TokenInv, TokensAreIssued
  <2>3. ASSUME NEW b \in Browsers PROVE Cookie(b, jar[b])'
    BY <1>1, <1>8 DEF Cookie, TokenInv, TokensAreIssued
  <2> QED BY <2>1, <2>2, <2>3 DEF TokensAreIssued
<1>11. RequestsAreWhole'
  <2>1. ASSUME NEW j \in DOMAIN exchanges', NEW x, x = exchanges'[j]
        PROVE  /\ x.token # None => /\ x.token \in Issued'
                                    /\ BrowserOf[exchanges'[x.token].tab] = BrowserOf[x.tab]
               /\ x.heard = "yes" => x.pc \in {"granted", "refused"}
               /\ x.kind = "sign_in" => x.pc \in {"issue", "granted"}
               /\ x.kind = "logout" => x.pc \in {"sent", "unlist", "granted"}
               /\ x.pc \in {"list", "revoke"} => x.token # None
               /\ x.pc \notin {"revoke", "refused"} => x.seen = {}
               /\ x.seen \subseteq Issued'
    <3>1. CASE j = n
      <4>1. x = new
        BY <1>6, <2>1, <3>1
      <4> QED BY <1>3, <1>5, <1>8, <1>9, <4>1
    <3>2. CASE j # n
      <4>1. x = exchanges[j] /\ j \in DOMAIN exchanges
        BY <1>6, <2>1, <3>2
      <4>2. /\ Cookie(BrowserOf[x.tab], x.token)
            /\ x.heard = "yes" => x.pc \in {"granted", "refused"}
            /\ x.kind = "sign_in" => x.pc \in {"issue", "granted"}
            /\ x.kind = "logout" => x.pc \in {"sent", "unlist", "granted"}
            /\ x.pc \in {"list", "revoke"} => x.token # None
            /\ x.pc \notin {"revoke", "refused"} => x.seen = {}
            /\ x.seen \subseteq Issued
        BY <4>1 DEF TokenInv, RequestsAreWhole
      <4> QED BY <1>7, <1>8, <4>2
    <3> QED BY <3>1, <3>2
  <2> QED BY <2>1 DEF RequestsAreWhole, Cookie
<1>12. LookedUpIsSpent'
  BY <1>1, <1>3, <1>5, <1>6 DEF TokenInv, LookedUpIsSpent
<1>13. OneRefresh'
  <2>1. ASSUME kind = "refresh", NEW j \in DOMAIN exchanges,
               exchanges[j].kind = "refresh", exchanges[j].heard = "waiting"
        PROVE  BrowserOf[exchanges[j].tab] # home
    <3>1. exchanges[j].tab \in Tabs /\ j \in WaitingFor(exchanges[j].tab, {"refresh"})
      BY <2>1, Requests DEF TokenInv, Request, WaitingFor, Waiting
    <3> QED BY <2>1, <3>1 DEF LockHeld
  <2> QED BY <1>5, <1>6, <2>1 DEF TokenInv, OneRefresh
<1>14. UnheardIsUnused'
  <2>1. \A b \in Browsers : jar[b] # n
    BY <1>6, <1>8, RequestBound DEF TokenInv, TokensAreIssued, None
  <2>2. \A j \in DOMAIN exchanges : exchanges[j].token # n
    <3>1. n # None
      BY <1>6, RequestBound DEF None
    <3> QED BY <1>8, <3>1 DEF TokenInv, RequestsAreWhole
  <2> QED BY <1>1, <1>2, <1>5, <1>6, <2>1, <2>2 DEF TokenInv, UnheardIsUnused
<1>15. FamilyIsRevoked'
  BY <1>1, <1>3, <1>5, <1>6 DEF TokenInv, FamilyIsRevoked
<1>16. ExchangedOnce'
  <2>1. SingleUse
    BY SingleUseIs DEF TokenInv
  <2>2. ~Buys(new)
    BY <1>3, <1>5 DEF Buys
  <2>3. SingleUse'
    BY <1>6, <2>1, <2>2 DEF SingleUse
  <2> QED BY <2>3, SingleUseIs, PTL
<1>17. ASSUME Quiet' PROVE QuietTokensLive'
  <2>1. Quiet
    BY <1>6, <1>17 DEF Quiet
  <2>2. kind = "refresh" => ~\E k \in DOMAIN exchanges : Exchanging(k, home)
    <3>1. ASSUME kind = "refresh", NEW k \in DOMAIN exchanges, Exchanging(k, home)
          PROVE  FALSE
      <4>1. exchanges[k].tab \in Tabs /\ k \in WaitingFor(exchanges[k].tab, {"refresh"})
        BY <3>1, Requests DEF TokenInv, Request, WaitingFor, Waiting, Exchanging
      <4> QED BY <3>1, <4>1 DEF LockHeld, Exchanging
    <3> QED BY <3>1
  <2>3. ASSUME NEW j \in DOMAIN exchanges', NEW x, x = exchanges'[j]
        PROVE  /\ x.pc \notin {"list", "revoke"}
               /\ x.pc = "refused" => x.token = None
               /\ x.kind = "refresh" /\ x.pc = "sent" /\ x.token # None => x.token \in live'
               /\ x.pc = "granted" /\ x.heard = "waiting" => j \in live'
    <3>1. CASE j = n
      <4>1. x = new
        BY <1>6, <2>3, <3>1
      <4>2. kind = "refresh" => jar[home] = None \/ jar[home] \in live
        BY <1>2, <2>1, <2>2 DEF TokenInv, QuietTokensLive
      <4> QED BY <1>1, <1>3, <1>5, <4>1, <4>2
    <3>2. CASE j # n
      <4>1. x = exchanges[j] /\ j \in DOMAIN exchanges
        BY <1>6, <2>3, <3>2
      <4> QED BY <1>1, <2>1, <4>1 DEF TokenInv, QuietTokensLive
    <3> QED BY <3>1, <3>2
  <2>4. ASSUME NEW b \in Browsers
        PROVE  \/ jar'[b] = None \/ jar'[b] \in live'
               \/ \E k \in DOMAIN exchanges' : Exchanging(k, b)'
    <3>1. \A k \in DOMAIN exchanges : Exchanging(k, b) => Exchanging(k, b)'
      BY <1>1, <1>6 DEF Exchanging
    <3> QED BY <1>1, <1>6, <2>1, <3>1 DEF TokenInv, QuietTokensLive
  <2> QED BY <2>3, <2>4 DEF QuietTokensLive
<1>18. QuietTokensLive'
  BY <1>17 DEF QuietTokensLive
<1> QED BY <1>10, <1>11, <1>12, <1>13, <1>14, <1>15, <1>16, <1>18 DEF TokenInv

(* Empty jars and no request satisfy the invariant.                        *)
LEMMA TokenInitInv == TokenInit => TokenInv
<1> SUFFICES ASSUME TokenInit PROVE TokenInv
  OBVIOUS
<1>1. DOMAIN exchanges = {} /\ exchanges \in Seq(Request) /\ Len(exchanges) = 0
  BY DEF TokenInit
<1>2. TokenTypeOK
  BY <1>1, RequestBound DEF TokenInit, TokenTypeOK, Token, None
<1> QED BY <1>1, <1>2 DEF TokenInit, TokenInv, RequestsAreWhole, TokensAreIssued, Cookie,
          LookedUpIsSpent, OneRefresh, UnheardIsUnused, QuietTokensLive, ExchangedOnce,
          FamilyIsRevoked

(* Every step of a tab, of the server or of the network keeps it.          *)
LEMMA TokenNextInv == TokenInv /\ [TokenNext]_tokenVars => TokenInv'
<1> SUFFICES ASSUME TokenInv, [TokenNext]_tokenVars PROVE TokenInv'
  OBVIOUS
<1>1. CASE UNCHANGED tokenVars
  <2> USE <1>1 DEF tokenVars
  <2>1. TokenTypeOK' /\ LookedUpIsSpent' /\ OneRefresh' /\ UnheardIsUnused'
    BY DEF TokenInv, TokenTypeOK, LookedUpIsSpent, OneRefresh, UnheardIsUnused
  <2>2. ExchangedOnce' /\ FamilyIsRevoked'
    BY DEF TokenInv, ExchangedOnce, FamilyIsRevoked
  <2>3. RequestsAreWhole' /\ TokensAreIssued'
    BY DEF TokenInv, RequestsAreWhole, TokensAreIssued, Cookie, Issued
  <2>4. QuietTokensLive'
    BY DEF TokenInv, QuietTokensLive, Quiet, Exchanging
  <2> QED BY <2>1, <2>2, <2>3, <2>4 DEF TokenInv
<1>2. ASSUME NEW t \in Tabs, SignIn(t) \/ Refresh(t) \/ SignOut(t) PROVE TokenInv'
  BY <1>2, DispatchStep DEF SignIn, Refresh, SignOut
<1>3. ASSUME NEW t \in Tabs, Reload(t) PROVE TokenInv'
  BY <1>3, ReloadStep
<1>4. ASSUME NEW i \in DOMAIN exchanges,
             \/ Consume(i) \/ Spent(i) \/ Unlist(i) \/ Issue(i) \/ ReadFamily(i) \/ Revoke(i)
             \/ HearTokens(i) \/ HearTheEnd(i) \/ Lose(i)
      PROVE  TokenInv'
  BY <1>4, ConsumeStep, SpentStep, UnlistStep, IssueStep, ReadFamilyStep, RevokeStep,
     HearTokensStep, HearTheEndStep, LoseStep
<1> QED BY <1>1, <1>2, <1>3, <1>4 DEF TokenNext

(* The allowlist, the cookies and the requests under way stay in step.     *)
THEOREM TokenInvariance == TokenSpec => []TokenInv
<1> QED BY TokenInitInv, TokenNextInv, PTL DEF TokenSpec

(* A refresh token buys one pair of tokens; tabs that only refresh are     *)
(* never taken for a replay; a revocation ends every session it found.     *)
THEOREM RotationSound == TokenSpec => []RotationIsSound
<1>1. TokenInv => RotationIsSound
  <2> SUFFICES ASSUME TokenInv, Quiet,
                      NEW i \in DOMAIN exchanges
               PROVE  exchanges[i].pc \notin {"list", "revoke"}
    BY DEF TokenInv, RotationIsSound, RotationIsNoReplay, Quiet
  <2> QED BY DEF TokenInv, QuietTokensLive
<1> QED BY <1>1, TokenInvariance, PTL

(***************************************************************************)
(* Becoming somebody.                                                      *)
(***************************************************************************)
LEMMA Credential ==
  ASSUME NEW c \in Credentials
  PROVE  c.id \in Nat /\ c.sub \in Subs /\ c.email \in Emails
  BY CredentialAssumption

(* What a request's write leaves of the others.                            *)
LEMMA Written ==
  ASSUME PostsAreWhole, NEW p \in Posts, NEW new \in Post, post' = [post EXCEPT ![p] = new]
  PROVE  /\ post' \in [Posts -> Post]
         /\ \A q \in Posts : post'[q] = IF q = p THEN new ELSE post[q]
  BY DEF PostsAreWhole

(* A request that moves on with what it carries, or is done.               *)
LEMMA Proceeded ==
  ASSUME PostsAreWhole, NEW p \in Posts,
         NEW pc \in {"idle", "verify", "clear", "claim"} \cup Claiming
  PROVE  /\ Proceed(p, pc) =>
              /\ post' \in [Posts -> Post]
              /\ post'[p].pc = pc /\ post'[p].email = post[p].email
              /\ post'[p].credential = post[p].credential
              /\ \A q \in Posts : q # p => post'[q] = post[q]
         /\ Done(p) =>
              /\ post' \in [Posts -> Post]
              /\ post'[p].pc = "idle"
              /\ \A q \in Posts : q # p => post'[q] = post[q]
<1>1. post \in [Posts -> Post]
  BY DEF PostsAreWhole
<1>2. ASSUME Proceed(p, pc)
      PROVE  /\ post' \in [Posts -> Post]
             /\ post'[p].pc = pc /\ post'[p].email = post[p].email
             /\ post'[p].credential = post[p].credential
             /\ \A q \in Posts : q # p => post'[q] = post[q]
  <2> DEFINE new == [post[p] EXCEPT !.pc = pc]
  <2>1. post' = [post EXCEPT ![p] = new]
    BY <1>2 DEF Proceed
  <2>2. /\ new \in Post /\ new.pc = pc /\ new.email = post[p].email
        /\ new.credential = post[p].credential
    BY <1>1 DEF Post
  <2> HIDE DEF new
  <2> QED BY <2>1, <2>2, Written
<1>3. ASSUME Done(p)
      PROVE  /\ post' \in [Posts -> Post]
             /\ post'[p].pc = "idle"
             /\ \A q \in Posts : q # p => post'[q] = post[q]
  <2>1. Nobody \in Post /\ Nobody.pc = "idle"
    BY DEF Nobody, Post
  <2> QED BY <1>3, <2>1, Written DEF Done
<1> QED BY <1>2, <1>3

(* The requests but p are as they were.                                    *)
Others(p) == \A q \in Posts : q # p => post'[q] = post[q]

(* Accounts are only added, so what a request has found stays.             *)
LEMMA PostsKept ==
  ASSUME PostsAreWhole, NEW p \in Posts, Others(p), post' \in [Posts -> Post],
         users \subseteq users',
         post'[p].pc \in {"verify", "clear"} => post'[p].email \in Emails,
         post'[p].pc = "clear" => \E u \in HasEmail(post'[p].email) : u.password,
         post'[p].pc \in Claiming \cup {"claim"}
           => post'[p].credential \in Credentials /\ post'[p].credential.verified
  PROVE  PostsAreWhole'
<1>1. \A e : HasEmail(e) \subseteq HasEmail(e)'
  BY DEF HasEmail
<1>2. ASSUME NEW q \in Posts, NEW x, x = post'[q]
      PROVE  /\ x.pc \in {"verify", "clear"} => x.email \in Emails
             /\ x.pc = "clear" => \E u \in users' : u.email = x.email /\ u.password
             /\ x.pc \in Claiming \cup {"claim"}
                  => x.credential \in Credentials /\ x.credential.verified
  <2>1. CASE q = p
    BY <1>2, <2>1 DEF HasEmail
  <2>2. CASE q # p
    <3>1. x = post[q]
      BY <1>2, <2>2 DEF Others
    <3> QED BY <3>1 DEF PostsAreWhole, HasEmail
  <2> QED BY <2>1, <2>2
<1> QED BY <1>2 DEF PostsAreWhole, HasEmail

(* A request that claims nothing keeps the claims.                         *)
LEMMA ClaimsKept ==
  ASSUME ClaimsAreExclusive, NEW p \in Posts, Others(p),
         post'[p].pc \in Claiming
           => post[p].pc \in Claiming /\ post'[p].credential = post[p].credential,
         claimed' = claimed, entered' = entered
  PROVE  ClaimsAreExclusive'
<1>1. \A q \in Posts : post'[q].pc \in Claiming =>
        post[q].pc \in Claiming /\ post'[q].credential = post[q].credential
  BY DEF Others
<1> QED BY <1>1 DEF ClaimsAreExclusive

(* The account a request enters, and on the strength of what.              *)
LEMMA LetInStep ==
  ASSUME SignInInv, NEW p \in Posts, NEW u \in users', NEW proof \in Credentials \cup {NoCredential},
         LetIn(p, u, proof), users \subseteq users', OneAccountEach',
         claimed' = claimed,
         IF proof = NoCredential THEN u.password
         ELSE /\ u.sub = proof.sub /\ post[p].pc \in Claiming
              /\ post[p].credential = proof
  PROVE  PostsAreWhole' /\ ClaimsAreExclusive' /\ EntersOwnAccount'
<1> DEFINE new == [user |-> u, proof |-> proof, post |-> p]
<1>1. /\ entered' = entered \cup {new} /\ Done(p)
      /\ new.user = u /\ new.proof = proof
  BY DEF LetIn
<1> HIDE DEF new
<1>2. PostsAreWhole
  BY DEF SignInInv
<1>3. post' \in [Posts -> Post] /\ post'[p].pc = "idle" /\ Others(p)
  BY <1>1, <1>2, Proceeded DEF Others
<1>4. PostsAreWhole'
  BY <1>2, <1>3, PostsKept DEF Claiming
<1>5. ClaimsAreExclusive'
  <2>1. \A q \in Posts : post'[q].pc \in Claiming => q # p /\ post'[q] = post[q]
    BY <1>3 DEF Others, Claiming
  <2>2. proof # NoCredential => proof.id \in claimed
    BY DEF SignInInv, ClaimsAreExclusive
  <2>3. \A q \in Posts : q # p /\ post[q].pc \in Claiming /\ proof # NoCredential
                           => proof.id # post[q].credential.id
    BY DEF SignInInv, ClaimsAreExclusive
  <2> QED BY <1>1, <2>1, <2>2, <2>3 DEF SignInInv, ClaimsAreExclusive
<1>6. EntersOwnAccount'
  <2>1. \A e \in entered' : /\ e.user \in users'
                            /\ IF e.proof = NoCredential THEN e.user.password
                               ELSE e.user.sub = e.proof.sub
    BY <1>1 DEF SignInInv, EntersOwnAccount
  <2>2. \A e \in entered : proof # NoCredential => e.proof # proof
    BY DEF SignInInv, ClaimsAreExclusive
  <2>3. \A d, e \in entered' : d.proof = e.proof /\ d # e => d.proof = NoCredential
    BY <1>1, <2>2 DEF SignInInv, EntersOwnAccount
  <2> QED BY <2>1, <2>3 DEF EntersOwnAccount
<1> QED BY <1>4, <1>5, <1>6

(* POST /register.                                                         *)
LEMMA RegisterStep ==
  ASSUME SignInInv, NEW p \in Posts, NEW e \in Emails, Register(p, e) PROVE SignInInv'
<1>1. /\ UNCHANGED <<lockout, claimed, checked, entered, post>>
      /\ \/ users' = users
         \/ /\ HasEmail(e) = {}
            /\ users' = users \cup {[email |-> e, password |-> TRUE, sub |-> "none"]}
  BY DEF Register
<1>2. OneAccountEach' /\ users \subseteq users' /\ users' \subseteq User
  <2> DEFINE new == [email |-> e, password |-> TRUE, sub |-> "none"]
  <2>1. new \in User /\ new.email = e /\ new.sub = "none"
    BY DEF User
  <2> HIDE DEF new
  <2>2. OneAccountEach /\ users \subseteq User
    BY DEF SignInInv, EntersOwnAccount, SignInTypeOK
  <2>3. CASE users' = users
    BY <2>2, <2>3 DEF OneAccountEach
  <2>4. CASE HasEmail(e) = {} /\ users' = users \cup {new}
    <3>1. \A u \in users : u.email # e
      BY <2>4 DEF HasEmail
    <3>2. \A u, v \in users : u # v => u.email # v.email /\ (u.sub = v.sub => u.sub = "none")
      BY <2>2 DEF OneAccountEach
    <3>3. \A u, v \in users' :
            u # v => u.email # v.email /\ (u.sub = v.sub => u.sub = "none")
      BY <2>1, <2>4, <3>1, <3>2
    <3> QED BY <2>1, <2>2, <2>4, <3>3 DEF OneAccountEach
  <2> QED BY <1>1, <2>3, <2>4 DEF new
<1>3. PostsAreWhole'
  BY <1>1, <1>2 DEF SignInInv, PostsAreWhole, HasEmail
<1>4. EntersOwnAccount'
  BY <1>1, <1>2 DEF SignInInv, EntersOwnAccount
<1> QED BY <1>1, <1>2, <1>3, <1>4
        DEF SignInInv, SignInTypeOK, ClaimsAreExclusive, ChecksAreCounted, ChecksPerWindow

(* POST /login: the attempt is counted before it may be checked.           *)
LEMMA ReserveStep ==
  ASSUME SignInInv, NEW p \in Posts, NEW e \in Emails, NEW right \in BOOLEAN,
         Reserve(p, e, right)
  PROVE  SignInInv'
<1> DEFINE new == [Nobody EXCEPT !.pc = "verify", !.email = e, !.right = right]
<1>1. /\ post[p].pc = "idle" /\ lockout' = [lockout EXCEPT ![e] = Counted(@)]
      /\ \/ /\ lockout[e] < MaxFailures /\ post' = [post EXCEPT ![p] = new]
            /\ checked' = [checked EXCEPT ![e] = @ + 1]
         \/ post' = post /\ checked' = checked
      /\ UNCHANGED <<users, claimed, entered>>
  BY DEF Reserve, Unused, Allowed
<1>2. new \in Post /\ new.pc = "verify" /\ new.email = e
  BY DEF Nobody, Post
<1> HIDE DEF new
<1>3. /\ lockout \in [Emails -> 0..(MaxFailures + 1)] /\ checked \in [Emails -> Nat]
      /\ MaxFailures \in Nat
  BY FailureBound DEF SignInInv, SignInTypeOK
<1>4. /\ lockout' \in [Emails -> 0..(MaxFailures + 1)] /\ checked' \in [Emails -> Nat]
      /\ ChecksAreCounted' /\ ChecksPerWindow'
  <2>1. \A x \in Emails : lockout[x] \in 0..(MaxFailures + 1)
    BY <1>3
  <2>2. Counted(lockout[e]) \in 0..(MaxFailures + 1) /\ Counted(lockout[e]) >= lockout[e]
    BY <1>3, <2>1 DEF Counted
  <2>3. lockout' \in [Emails -> 0..(MaxFailures + 1)]
    BY <1>1, <1>3, <2>2
  <2>4. checked' \in [Emails -> Nat]
    BY <1>1, <1>3
  <2>5. lockout[e] < MaxFailures => Counted(lockout[e]) = lockout[e] + 1
    BY <1>3, <2>1 DEF Counted
  <2>6. ASSUME NEW x \in Emails PROVE checked'[x] <= lockout'[x] /\ checked'[x] <= MaxFailures
    <3>1. checked[x] <= lockout[x] /\ checked[x] <= MaxFailures /\ checked[x] \in Nat
      BY <1>3 DEF SignInInv, ChecksAreCounted, ChecksPerWindow
    <3>2. CASE x # e
      BY <1>1, <1>3, <3>1, <3>2
    <3>3. CASE x = e
      <4>1. lockout'[e] = Counted(lockout[e])
        BY <1>1, <1>3
      <4>2. \/ lockout[e] < MaxFailures /\ checked'[e] = checked[e] + 1
            \/ checked'[e] = checked[e]
        BY <1>1, <1>3
      <4>3. lockout[e] \in Nat /\ Counted(lockout[e]) \in Nat
        BY <2>1, <2>2, <1>3
      <4> QED BY <1>3, <2>2, <2>5, <3>1, <3>3, <4>1, <4>2, <4>3
    <3> QED BY <3>2, <3>3
  <2> QED BY <2>3, <2>4, <2>6 DEF ChecksAreCounted, ChecksPerWindow
<1>5. /\ post' \in [Posts -> Post] /\ Others(p)
      /\ post'[p] = new \/ post' = post
  BY <1>1, <1>2, Written DEF SignInInv, PostsAreWhole, Others
<1>6. PostsAreWhole'
  BY <1>1, <1>2, <1>5, PostsKept DEF SignInInv, Claiming, PostsAreWhole, HasEmail
<1>7. ClaimsAreExclusive'
  BY <1>1, <1>2, <1>5, ClaimsKept DEF SignInInv, Claiming
<1> QED BY <1>1, <1>4, <1>6, <1>7
        DEF SignInInv, SignInTypeOK, EntersOwnAccount, OneAccountEach

(* The password is compared with the account's, or a decoy's.              *)
LEMMA VerifyStep == ASSUME SignInInv, NEW p \in Posts, Verify(p) PROVE SignInInv'
<1>1. /\ post[p].pc = "verify" /\ UNCHANGED <<users, lockout, claimed, checked, entered>>
      /\ \/ (\E u \in HasEmail(post[p].email) : u.password) /\ Proceed(p, "clear")
         \/ Done(p)
  BY DEF Verify
<1>2. /\ post' \in [Posts -> Post] /\ Others(p)
      /\ \/ /\ post'[p].pc = "clear" /\ post'[p].email = post[p].email
            /\ \E u \in HasEmail(post[p].email) : u.password
         \/ post'[p].pc = "idle"
  BY <1>1, Proceeded DEF SignInInv, Others
<1>3. PostsAreWhole'
  <2>1. post[p].email \in Emails
    BY <1>1 DEF SignInInv, PostsAreWhole
  <2> QED BY <1>1, <1>2, <2>1, PostsKept DEF SignInInv, Claiming
<1>4. ClaimsAreExclusive'
  BY <1>1, <1>2, ClaimsKept DEF SignInInv, Claiming
<1> QED BY <1>1, <1>3, <1>4 DEF SignInInv, SignInTypeOK, EntersOwnAccount, OneAccountEach,
        ChecksAreCounted, ChecksPerWindow

(* A window that is cleared or runs out.                                   *)
LEMMA WindowIsFresh ==
  ASSUME SignInInv, NEW e,
         lockout' = [lockout EXCEPT ![e] = 0], checked' = [checked EXCEPT ![e] = 0]
  PROVE  /\ lockout' \in [Emails -> 0..(MaxFailures + 1)] /\ checked' \in [Emails -> Nat]
         /\ ChecksAreCounted' /\ ChecksPerWindow'
<1>1. /\ lockout \in [Emails -> 0..(MaxFailures + 1)] /\ checked \in [Emails -> Nat]
      /\ MaxFailures \in Nat
  BY FailureBound DEF SignInInv, SignInTypeOK
<1>2. lockout' \in [Emails -> 0..(MaxFailures + 1)] /\ checked' \in [Emails -> Nat]
  <2> DEFINE Counts == 0..(MaxFailures + 1)
  <2>1. 0 \in Counts /\ lockout \in [Emails -> Counts]
    BY <1>1
  <2> HIDE DEF Counts
  <2>2. lockout' \in [Emails -> Counts]
    BY <2>1
  <2>3. checked' \in [Emails -> Nat]
    BY <1>1
  <2> QED BY <2>2, <2>3 DEF Counts
<1>3. ASSUME NEW x \in Emails PROVE checked'[x] <= lockout'[x] /\ checked'[x] <= MaxFailures
  <2>1. checked[x] <= lockout[x] /\ checked[x] <= MaxFailures
    BY DEF SignInInv, ChecksAreCounted, ChecksPerWindow
  <2>2. CASE x = e
    BY <1>1, <2>2
  <2>3. CASE x # e
    BY <1>1, <2>1, <2>3
  <2> QED BY <2>2, <2>3
<1> QED BY <1>2, <1>3 DEF ChecksAreCounted, ChecksPerWindow

(* The window is cleared, and the one account of the address entered.      *)
LEMMA ClearStep == ASSUME SignInInv, NEW p \in Posts, Clear(p) PROVE SignInInv'
<1> DEFINE e == post[p].email
<1>1. /\ post[p].pc = "clear" /\ UNCHANGED <<users, claimed>>
      /\ lockout' = [lockout EXCEPT ![e] = 0] /\ checked' = [checked EXCEPT ![e] = 0]
  BY DEF Clear
<1>2. PICK u \in HasEmail(e) : LetIn(p, u, NoCredential)
  BY DEF Clear
<1>3. u \in users /\ u.password
  <2>1. PICK v \in HasEmail(e) : v.password
    BY <1>1 DEF SignInInv, PostsAreWhole
  <2>2. u = v
    BY <2>1 DEF SignInInv, EntersOwnAccount, OneAccountEach, HasEmail
  <2> QED BY <2>1, <2>2 DEF HasEmail
<1>4. OneAccountEach'
  BY <1>1 DEF SignInInv, EntersOwnAccount, OneAccountEach
<1>5. PostsAreWhole' /\ ClaimsAreExclusive' /\ EntersOwnAccount'
  BY <1>1, <1>2, <1>3, <1>4, LetInStep
<1>6. /\ lockout' \in [Emails -> 0..(MaxFailures + 1)] /\ checked' \in [Emails -> Nat]
      /\ ChecksAreCounted' /\ ChecksPerWindow'
  BY <1>1, WindowIsFresh
<1> QED BY <1>1, <1>5, <1>6 DEF SignInInv, SignInTypeOK

(* The lockout window runs out.                                            *)
LEMMA WindowStep == ASSUME SignInInv, NEW e \in Emails, WindowEnds(e) PROVE SignInInv'
<1>1. /\ UNCHANGED <<users, claimed, post, entered>>
      /\ lockout' = [lockout EXCEPT ![e] = 0] /\ checked' = [checked EXCEPT ![e] = 0]
  BY DEF WindowEnds
<1>2. /\ lockout' \in [Emails -> 0..(MaxFailures + 1)] /\ checked' \in [Emails -> Nat]
      /\ ChecksAreCounted' /\ ChecksPerWindow'
  BY <1>1, WindowIsFresh
<1> QED BY <1>1, <1>2 DEF SignInInv, SignInTypeOK, PostsAreWhole, HasEmail,
        ClaimsAreExclusive, EntersOwnAccount, OneAccountEach

(* A Google credential that verifies.                                      *)
LEMMA GoogleStep ==
  ASSUME SignInInv, NEW p \in Posts, NEW c \in Credentials, GoogleVerified(p, c)
  PROVE  SignInInv'
<1> DEFINE new == [Nobody EXCEPT !.pc = "claim", !.credential = c]
<1>1. /\ c.verified /\ post' = [post EXCEPT ![p] = new]
      /\ UNCHANGED <<users, lockout, claimed, checked, entered>>
  BY DEF GoogleVerified
<1>2. new \in Post /\ new.pc = "claim" /\ new.credential = c
  BY DEF Nobody, Post
<1> HIDE DEF new
<1>3. post' \in [Posts -> Post] /\ Others(p) /\ post'[p] = new
  BY <1>1, <1>2, Written DEF SignInInv, Others
<1>4. PostsAreWhole'
  BY <1>1, <1>2, <1>3, PostsKept DEF SignInInv
<1>5. ClaimsAreExclusive'
  BY <1>1, <1>2, <1>3, ClaimsKept DEF SignInInv, Claiming
<1> QED BY <1>1, <1>4, <1>5 DEF SignInInv, SignInTypeOK, EntersOwnAccount, OneAccountEach,
        ChecksAreCounted, ChecksPerWindow

(* SET NX: one request claims the credential.                              *)
LEMMA ClaimStep == ASSUME SignInInv, NEW p \in Posts, Claim(p) PROVE SignInInv'
<1> DEFINE c == post[p].credential
<1>1. /\ post[p].pc = "claim" /\ claimed' = claimed \cup {c.id}
      /\ UNCHANGED <<users, lockout, checked, entered>>
      /\ \/ c.id \notin claimed /\ Proceed(p, "select")
         \/ Done(p)
  BY DEF Claim
<1>2. /\ post' \in [Posts -> Post] /\ Others(p)
      /\ \/ /\ c.id \notin claimed
            /\ post'[p].pc = "select" /\ post'[p].credential = c
         \/ post'[p].pc = "idle"
  BY <1>1, Proceeded DEF SignInInv, Others, Claiming
<1>3. c \in Credentials /\ c.verified
  BY <1>1 DEF SignInInv, PostsAreWhole
<1>4. PostsAreWhole'
  BY <1>1, <1>2, <1>3, PostsKept DEF SignInInv, Claiming
<1>5. ClaimsAreExclusive'
  <2>1. \A q \in Posts : q # p => post'[q] = post[q]
    BY <1>2 DEF Others
  <2>2. \A q \in Posts : post[q].pc \in Claiming => post[q].credential.id \in claimed
    BY DEF SignInInv, ClaimsAreExclusive
  <2>3. "idle" \notin Claiming
    BY DEF Claiming
  <2>4. \A e \in entered : e.proof # NoCredential => e.proof.id \in claimed
    BY DEF SignInInv, ClaimsAreExclusive
  <2>5. ASSUME NEW q \in Posts, post'[q].pc \in Claiming
        PROVE  /\ post'[q].credential.id \in claimed'
               /\ \A e \in entered' : e.proof # NoCredential
                                        => e.proof.id # post'[q].credential.id
    <3>1. CASE q = p
      BY <1>1, <1>2, <2>3, <2>4, <2>5, <3>1
    <3>2. CASE q # p
      BY <1>1, <2>1, <2>5, <3>2 DEF SignInInv, ClaimsAreExclusive
    <3> QED BY <3>1, <3>2
  <2>6. ASSUME NEW q \in Posts, NEW r \in Posts, q # r,
               post'[q].pc \in Claiming, post'[r].pc \in Claiming
        PROVE  post'[q].credential.id # post'[r].credential.id
    <3>1. CASE q = p
      BY <1>2, <2>1, <2>2, <2>3, <2>6, <3>1
    <3>2. CASE r = p
      BY <1>2, <2>1, <2>2, <2>3, <2>6, <3>2
    <3>3. CASE q # p /\ r # p
      BY <2>1, <2>6, <3>3 DEF SignInInv, ClaimsAreExclusive
    <3> QED BY <3>1, <3>2, <3>3
  <2> QED BY <1>1, <2>4, <2>5, <2>6 DEF ClaimsAreExclusive
<1> QED BY <1>1, <1>3, <1>4, <1>5 DEF SignInInv, SignInTypeOK, EntersOwnAccount,
        OneAccountEach, ChecksAreCounted, ChecksPerWindow

(* What a credential in the hands of a request is.                         *)
LEMMA InHand ==
  ASSUME SignInInv, NEW p \in Posts, post[p].pc \in Claiming
  PROVE  LET c == post[p].credential
         IN  c \in Credentials /\ c # NoCredential /\ c.email \in Emails /\ c.sub \in Subs
<1>1. post[p].credential \in Credentials /\ post[p].credential.verified
  BY DEF SignInInv, PostsAreWhole
<1> QED BY <1>1, Credential DEF NoCredential

(* _google_user: find the account, add one, or find the winner's.          *)
LEMMA AccountStep ==
  ASSUME SignInInv, NEW p \in Posts, SelectBySub(p) \/ Winner(p) PROVE SignInInv'
<1> DEFINE c == post[p].credential
<1>1. /\ post[p].pc \in Claiming /\ UNCHANGED <<users, lockout, claimed, checked>>
      /\ \/ \E u \in HasSub(c.sub) : LetIn(p, u, c)
         \/ (Proceed(p, "insert") \/ Done(p)) /\ entered' = entered
  BY DEF SelectBySub, Winner, Claiming
<1>2. c \in Credentials /\ c # NoCredential
  BY <1>1, InHand
<1>3. OneAccountEach'
  BY <1>1 DEF SignInInv, EntersOwnAccount, OneAccountEach
<1>4. CASE \E u \in HasSub(c.sub) : LetIn(p, u, c)
  <2>1. PICK u \in HasSub(c.sub) : LetIn(p, u, c)
    BY <1>4
  <2>2. u \in users' /\ u.sub = c.sub
    BY <1>1 DEF HasSub
  <2>3. PostsAreWhole' /\ ClaimsAreExclusive' /\ EntersOwnAccount'
    BY <1>1, <1>2, <1>3, <2>1, <2>2, LetInStep
  <2> QED BY <1>1, <2>3 DEF SignInInv, SignInTypeOK, ChecksAreCounted, ChecksPerWindow
<1>5. CASE (Proceed(p, "insert") \/ Done(p)) /\ entered' = entered
  <2>1. /\ post' \in [Posts -> Post] /\ Others(p)
        /\ \/ post'[p].pc = "insert" /\ post'[p].credential = c
           \/ post'[p].pc = "idle"
    BY <1>5, Proceeded DEF SignInInv, Others, Claiming
  <2>2. PostsAreWhole'
    BY <1>1, <2>1, PostsKept DEF SignInInv, PostsAreWhole, Claiming
  <2>3. ClaimsAreExclusive'
    BY <1>1, <1>5, <2>1, ClaimsKept DEF SignInInv, Claiming
  <2> QED BY <1>1, <1>5, <2>2, <2>3 DEF SignInInv, SignInTypeOK, EntersOwnAccount,
        OneAccountEach, ChecksAreCounted, ChecksPerWindow
<1> QED BY <1>1, <1>4, <1>5

(* A new Google account keeps the invariant.                               *)
LEMMA InsertStep == ASSUME SignInInv, NEW p \in Posts, InsertGoogle(p) PROVE SignInInv'
<1> DEFINE c == post[p].credential
           u == [email |-> c.email, password |-> FALSE, sub |-> c.sub]
<1>1. /\ post[p].pc \in Claiming /\ UNCHANGED <<lockout, claimed, checked>>
      /\ \/ /\ HasEmail(c.email) \cup HasSub(c.sub) = {}
            /\ users' = users \cup {u} /\ LetIn(p, u, c)
         \/ Proceed(p, "winner") /\ UNCHANGED <<users, entered>>
  BY DEF InsertGoogle, Claiming
<1>2. c \in Credentials /\ c # NoCredential /\ c.email \in Emails /\ c.sub \in Subs
  BY <1>1, InHand
<1>3. u \in User /\ u.email = c.email /\ u.sub = c.sub
  BY <1>2 DEF User
<1> HIDE DEF u
<1>4. CASE /\ HasEmail(c.email) \cup HasSub(c.sub) = {}
           /\ users' = users \cup {u} /\ LetIn(p, u, c)
  <2>1. OneAccountEach'
    BY <1>3, <1>4 DEF SignInInv, EntersOwnAccount, OneAccountEach, HasEmail, HasSub
  <2>2. PostsAreWhole' /\ ClaimsAreExclusive' /\ EntersOwnAccount'
    BY <1>1, <1>2, <1>3, <1>4, <2>1, LetInStep
  <2> QED BY <1>1, <1>3, <1>4, <2>2 DEF SignInInv, SignInTypeOK, ChecksAreCounted,
        ChecksPerWindow
<1>5. CASE Proceed(p, "winner") /\ UNCHANGED <<users, entered>>
  <2>1. /\ post' \in [Posts -> Post] /\ Others(p)
        /\ post'[p].pc = "winner" /\ post'[p].credential = c
    BY <1>5, Proceeded DEF SignInInv, Others, Claiming
  <2>2. PostsAreWhole'
    BY <1>1, <1>5, <2>1, PostsKept DEF SignInInv, PostsAreWhole, Claiming
  <2>3. ClaimsAreExclusive'
    BY <1>1, <1>5, <2>1, ClaimsKept DEF SignInInv, Claiming
  <2> QED BY <1>1, <1>5, <2>2, <2>3 DEF SignInInv, SignInTypeOK, EntersOwnAccount,
        OneAccountEach, ChecksAreCounted, ChecksPerWindow
<1> QED BY <1>1, <1>4, <1>5

(* Accounts, claims and lockouts stay in step.                             *)
THEOREM SignInInvariance == SignInSpec => []SignInInv
<1>1. SignInInit => SignInInv
  <2> SUFFICES ASSUME SignInInit PROVE SignInInv
    OBVIOUS
  <2>1. Nobody \in Post /\ Nobody.pc = "idle"
    BY DEF Nobody, Post
  <2>2. PostsAreWhole /\ ClaimsAreExclusive
    BY <2>1 DEF SignInInit, PostsAreWhole, ClaimsAreExclusive, Claiming
  <2>3. SignInTypeOK /\ ChecksAreCounted /\ ChecksPerWindow
    BY FailureBound DEF SignInInit, SignInTypeOK, ChecksAreCounted, ChecksPerWindow
  <2> QED BY <2>2, <2>3 DEF SignInInit, SignInInv, EntersOwnAccount, OneAccountEach
<1>2. SignInInv /\ [SignInNext]_signInVars => SignInInv'
  <2> SUFFICES ASSUME SignInInv, [SignInNext]_signInVars PROVE SignInInv'
    OBVIOUS
  <2>1. CASE UNCHANGED signInVars
    BY <2>1 DEF signInVars, SignInInv, SignInTypeOK, PostsAreWhole, HasEmail,
       ClaimsAreExclusive, ChecksAreCounted, EntersOwnAccount, OneAccountEach, ChecksPerWindow
  <2>2. ASSUME NEW p \in Posts,
               \/ \E e \in Emails : Register(p, e) \/ \E right \in BOOLEAN : Reserve(p, e, right)
               \/ \E c \in Credentials : GoogleVerified(p, c)
               \/ Verify(p) \/ Clear(p) \/ Claim(p) \/ SelectBySub(p) \/ InsertGoogle(p)
               \/ Winner(p)
        PROVE  SignInInv'
    BY <2>2, RegisterStep, ReserveStep, GoogleStep, VerifyStep, ClearStep, ClaimStep,
       AccountStep, InsertStep
  <2>3. ASSUME NEW e \in Emails, WindowEnds(e) PROVE SignInInv'
    BY <2>3, WindowStep
  <2> QED BY <2>1, <2>2, <2>3 DEF SignInNext
<1> QED BY <1>1, <1>2, PTL DEF SignInSpec

(* The right door, and not too many knocks.                                *)
THEOREM SignInSound == SignInSpec => []SignInIsSound
<1>1. SignInInv => SignInIsSound
  BY DEF SignInInv, SignInIsSound
<1> QED BY <1>1, SignInInvariance, PTL

-----------------------------------------------------------------------------
(***************************************************************************)
(* The three in one state space.                                           *)
(***************************************************************************)
(* Their disjoint union moves one of them at a time: it behaves as each.   *)
LEMMA BrowserParts == BrowserSpec => Spec /\ TokenSpec /\ SignInSpec
<1>1. BrowserInit => Init /\ TokenInit /\ SignInInit
  BY DEF BrowserInit
<1>2. [BrowserNext]_browserVars => [Next]_vars /\ [TokenNext]_tokenVars /\ [SignInNext]_signInVars
  <2>1. UNCHANGED browserVars => UNCHANGED <<vars, tokenVars, signInVars>>
    BY DEF browserVars
  <2> QED BY <2>1 DEF BrowserNext
<1> QED BY <1>1, <1>2, PTL DEF BrowserSpec, Spec, TokenSpec, SignInSpec

(* Screens, tokens, accounts and requests keep their shape, for every      *)
(* number of each (AnswerForm, authSession.ts, auth/service.py).           *)
THEOREM BrowserTypes == BrowserSpec => []BrowserTypeOK
<1>1. AInv /\ TokenInv /\ SignInInv => BrowserTypeOK
  BY DEF AInv, TokenInv, SignInInv, BrowserTypeOK
<1> QED BY <1>1, BrowserParts, SubmissionInvariance, TokenInvariance, SignInInvariance, PTL
=============================================================================
