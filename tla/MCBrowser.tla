------------------------------ MODULE MCBrowser ------------------------------
(***************************************************************************)
(* The requests of browsers that may overlap, one kind per behaviour:      *)
(* `part` says whether answers are submitted, tokens exchanged or people   *)
(* signed in; the other two modules stay in their initial states.          *)
(***************************************************************************)
EXTENDS AnswerSubmission, TokenRotation, SignIn, TLC

VARIABLE part

browserVars == <<part, vars, tokenVars, signInVars>>

BrowserInit ==
  part \in {"answers", "tokens", "sign_in"} /\ Init /\ TokenInit /\ SignInInit

BrowserNext ==
  \/ part = "answers" /\ Next /\ UNCHANGED <<part, tokenVars, signInVars>>
  \/ part = "tokens" /\ TokenNext /\ UNCHANGED <<part, vars, signInVars>>
  \/ part = "sign_in" /\ SignInNext /\ UNCHANGED <<part, vars, tokenVars>>

BrowserSpec == BrowserInit /\ [][BrowserNext]_browserVars

BrowserTypeOK == TypeOK /\ TokenTypeOK /\ SignInTypeOK

-----------------------------------------------------------------------------
(* Two tabs of one browser; a person with two credentials, another one who *)
(* shares her address and has one of his own that is not verified.         *)
MCBrowserOf == [t \in Tabs |-> "b"]
MCCredentials ==
  { [id |-> 1, sub |-> "ann", email |-> "a", verified |-> TRUE],
    [id |-> 2, sub |-> "ann", email |-> "a", verified |-> TRUE],
    [id |-> 3, sub |-> "bob", email |-> "a", verified |-> TRUE],
    [id |-> 4, sub |-> "bob", email |-> "b", verified |-> FALSE] }

(* What is interchangeable, among the answers' parameters and elsewhere.   *)
Symmetric == Permutations(Slots) \cup Permutations(Texts) \cup Permutations(Posts)
=============================================================================
