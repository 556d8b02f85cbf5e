------------------------------- MODULE SignIn -------------------------------
(***************************************************************************)
(* Becoming somebody: registration, password login with its lockout, and   *)
(* Google sign-in (app/api/auth.py, app/token_store.py,                    *)
(* app/google_auth.py), as requests that interleave at every database and  *)
(* Redis command.                                                          *)
(*                                                                         *)
(* Abstracted: hashes and signatures (a password is right or wrong, a      *)
(* credential verifies or not), the tokens issued at the end (module       *)
(* TokenRotation), and time (a lockout window may end at any moment; a     *)
(* claimed Google token outlives its credential, as its TTL says).         *)
(***************************************************************************)
EXTENDS Naturals, FiniteSets

CONSTANTS
  Posts,        \* requests that can be under way at the same time
  Emails,       \* addresses, after CITEXT's case folding
  Credentials,  \* Google ID tokens: records with id, sub, email, verified
  MaxFailures   \* settings.login_max_failures

Subs == {c.sub : c \in Credentials}

ASSUME CredentialAssumption ==
  Credentials \subseteq [id : Nat, sub : Subs, email : Emails, verified : BOOLEAN]
ASSUME FailureBound == MaxFailures \in Nat \ {0}

VARIABLES
  users,     \* the users table
  lockout,  \* email -> the value of login_fail:{email}; 0 when absent
  claimed,   \* google_jti:{jti} keys
  post,      \* request -> where it is
  checked,   \* history: email -> passwords checked in this window
  entered    \* history: who was let in, and as whom

signInVars == <<users, lockout, claimed, post, checked, entered>>

(* A row; the email is its key.  "none" is NULL.                           *)
User == [email : Emails, password : BOOLEAN, sub : Subs \cup {"none"}]
NoCredential == [id |-> 0, sub |-> "none", email |-> "none", verified |-> FALSE]
Unused(p) == post[p].pc = "idle"
Nobody == [pc |-> "idle", email |-> "none", right |-> FALSE, credential |-> NoCredential]

HasEmail(e) == {u \in users : u.email = e}
HasSub(s) == {u \in users : u.sub = s}

SignInInit ==
  /\ users = {} /\ claimed = {} /\ entered = {}
  /\ lockout = [e \in Emails |-> 0] /\ checked = [e \in Emails |-> 0]
  /\ post = [p \in Posts |-> Nobody]

Done(p) == post' = [post EXCEPT ![p] = Nobody]
Proceed(p, pc) == post' = [post EXCEPT ![p].pc = pc]

(* _issue_tokens for u, on the strength of `proof`.                        *)
LetIn(p, u, proof) ==
  /\ entered' = entered \cup {[user |-> u, proof |-> proof, post |-> p]}
  /\ Done(p)

(***************************************************************************)
(* POST /register: the unique index decides.                               *)
(***************************************************************************)
Register(p, e) ==
  /\ Unused(p)
  /\ IF HasEmail(e) = {}
     THEN /\ users' = users \cup {[email |-> e, password |-> TRUE, sub |-> "none"]}
          /\ UNCHANGED post
     ELSE UNCHANGED <<users, post>>                                    \* 409
  /\ UNCHANGED <<lockout, claimed, checked, entered>>

(***************************************************************************)
(* POST /login.                                                            *)
(***************************************************************************)
(* INCR, counted no further than the first refusal.                        *)
Counted(n) == IF n > MaxFailures THEN n ELSE n + 1

(* Seeded bug: the value before the INCR is compared.                      *)
AllowedBefore(n) == n <= MaxFailures

(* The attempt that INCR counts from n is let through to the check.        *)
Allowed(n) == n < MaxFailures

(* reserve_login_attempt: window, count and check are one transaction.     *)
Reserve(p, e, right) ==
  /\ Unused(p)
  /\ lockout' = [lockout EXCEPT ![e] = Counted(@)]
  /\ IF Allowed(lockout[e])
     THEN /\ post' = [post EXCEPT ![p] = [Nobody EXCEPT !.pc = "verify", !.email = e,
                                                        !.right = right]]
          /\ checked' = [checked EXCEPT ![e] = @ + 1]
     ELSE UNCHANGED <<post, checked>>                                  \* 429
  /\ UNCHANGED <<users, claimed, entered>>

(* The account is read and the password hashed against it, or a decoy.     *)
Verify(p) ==
  LET r == post[p]
      known == \E u \in HasEmail(r.email) : u.password
  IN  /\ r.pc = "verify"
      /\ IF known /\ r.right THEN Proceed(p, "clear") ELSE Done(p)         \* 401
      /\ UNCHANGED <<users, lockout, claimed, checked, entered>>

(* clear_login_failures, and the tokens.                                   *)
Clear(p) ==
  LET r == post[p]
  IN  /\ r.pc = "clear"
      /\ lockout' = [lockout EXCEPT ![r.email] = 0]
      /\ checked' = [checked EXCEPT ![r.email] = 0]
      /\ \E u \in HasEmail(r.email) : LetIn(p, u, NoCredential)
      /\ UNCHANGED <<users, claimed>>

(* The window started by SET NX, or renewed when it tripped, runs out.     *)
WindowEnds(e) ==
  /\ lockout[e] > 0
  /\ lockout' = [lockout EXCEPT ![e] = 0]
  /\ checked' = [checked EXCEPT ![e] = 0]
  /\ UNCHANGED <<users, claimed, post, entered>>

(***************************************************************************)
(* POST /google.                                                           *)
(***************************************************************************)
(* Verified off the event loop; the claims decide what is left of it.      *)
GoogleVerified(p, c) ==
  /\ Unused(p) /\ c.verified
  /\ post' = [post EXCEPT ![p] = [Nobody EXCEPT !.pc = "claim", !.credential = c]]
  /\ UNCHANGED <<users, lockout, claimed, checked, entered>>

(* Seeded bug: a token that was exchanged before is let through.           *)
ClaimAgain(p) ==
  /\ post[p].pc = "claim"
  /\ claimed' = claimed \cup {post[p].credential.id}
  /\ Proceed(p, "select")
  /\ UNCHANGED <<users, lockout, checked, entered>>

(* claim_google_token: SET NX is the check and the claim.                  *)
Claim(p) ==
  /\ post[p].pc = "claim"
  /\ claimed' = claimed \cup {post[p].credential.id}
  /\ IF post[p].credential.id \in claimed THEN Done(p) ELSE Proceed(p, "select")
  /\ UNCHANGED <<users, lockout, checked, entered>>

(* _google_user: the account that holds this Google id, if there is one.   *)
SelectBySub(p) ==
  LET c == post[p].credential
  IN  /\ post[p].pc = "select"
      /\ IF HasSub(c.sub) # {}
         THEN \E u \in HasSub(c.sub) : LetIn(p, u, c)
         ELSE Proceed(p, "insert") /\ UNCHANGED entered
      /\ UNCHANGED <<users, lockout, claimed, checked>>

(* Otherwise a new one, unless a unique constraint refuses the row.        *)
InsertGoogle(p) ==
  LET c == post[p].credential
      u == [email |-> c.email, password |-> FALSE, sub |-> c.sub]
  IN  /\ post[p].pc = "insert"
      /\ IF HasEmail(c.email) \cup HasSub(c.sub) = {}
         THEN users' = users \cup {u} /\ LetIn(p, u, c)
         ELSE Proceed(p, "winner") /\ UNCHANGED <<users, entered>>
      /\ UNCHANGED <<lockout, claimed, checked>>

(* Seeded bug: the account with the same address wins.                     *)
WinnerByEmail(p) ==
  LET c == post[p].credential
  IN  /\ post[p].pc = "winner"
      /\ \E u \in HasSub(c.sub) \cup HasEmail(c.email) : LetIn(p, u, c)
      /\ UNCHANGED <<users, lockout, claimed, checked>>

(* A concurrent first sign-in of the same person created it; or else the   *)
(* address is somebody else's: 409.                                        *)
Winner(p) ==
  LET c == post[p].credential
  IN  /\ post[p].pc = "winner"
      /\ IF HasSub(c.sub) # {}
         THEN \E u \in HasSub(c.sub) : LetIn(p, u, c)
         ELSE Done(p) /\ UNCHANGED entered
      /\ UNCHANGED <<users, lockout, claimed, checked>>

SignInNext ==
  \/ \E p \in Posts :
       \/ \E e \in Emails : Register(p, e) \/ \E right \in BOOLEAN : Reserve(p, e, right)
       \/ \E c \in Credentials : GoogleVerified(p, c)
       \/ Verify(p) \/ Clear(p) \/ Claim(p) \/ SelectBySub(p) \/ InsertGoogle(p) \/ Winner(p)
  \/ \E e \in Emails : WindowEnds(e)

SignInSpec == SignInInit /\ [][SignInNext]_signInVars

(***************************************************************************)
(* Properties.                                                             *)
(***************************************************************************)
SignInTypeOK ==
  /\ users \subseteq User
  /\ lockout \in [Emails -> 0..(MaxFailures + 1)]
  /\ claimed \subseteq {c.id : c \in Credentials}
  /\ checked \in [Emails -> Nat]

(* However sign-ups, logins and first Google sign-ins overlap, an address  *)
(* and a Google id have one account each, a Google credential lets its own *)
(* person in and nobody else ("a matching email alone is never treated as  *)
(* proof of owning an account"), and no credential lets anyone in twice.   *)
OneAccountEach ==
  \A u, v \in users : u # v => u.email # v.email /\ (u.sub = v.sub => u.sub = "none")

EntersOwnAccount ==
  /\ OneAccountEach
  /\ \A e \in entered :
       e.user \in users /\ IF e.proof = NoCredential THEN e.user.password
                           ELSE e.user.sub = e.proof.sub
  /\ \A d, e \in entered : d.proof = e.proof /\ d # e => d.proof = NoCredential

(* Overlapping attempts cannot all see "not locked yet": per window at     *)
(* most login_max_failures of them reach the password check.               *)
ChecksPerWindow == \A e \in Emails : checked[e] <= MaxFailures

(* Both: the right door, and not too many knocks.                          *)
SignInIsSound == EntersOwnAccount /\ ChecksPerWindow
(***************************************************************************)
(* The inductive invariant behind the theorem.                             *)
(***************************************************************************)
Claiming == {"select", "insert", "winner"}
Post == [pc : {"idle", "verify", "clear", "claim"} \cup Claiming,
         email : Emails \cup {"none"}, right : BOOLEAN,
         credential : Credentials \cup {NoCredential}]

(* Where a request can be, and what it carries there.                      *)
PostsAreWhole ==
  /\ post \in [Posts -> Post]
  /\ \A p \in Posts :
       LET r == post[p]
       IN  /\ r.pc \in {"verify", "clear"} => r.email \in Emails
           /\ r.pc = "clear" => \E u \in HasEmail(r.email) : u.password
           /\ r.pc \in Claiming \cup {"claim"}
                => r.credential \in Credentials /\ r.credential.verified

(* A claimed credential is in the hands of one request, or was used.       *)
ClaimsAreExclusive ==
  /\ \A p \in Posts : post[p].pc \in Claiming =>
       /\ post[p].credential.id \in claimed
       /\ \A e \in entered : e.proof # NoCredential => e.proof.id # post[p].credential.id
  /\ \A p, q \in Posts : post[p].pc \in Claiming /\ post[q].pc \in Claiming /\ p # q
       => post[p].credential.id # post[q].credential.id
  /\ \A e \in entered : e.proof # NoCredential => e.proof.id \in claimed

(* A check was counted before it was made.                                 *)
ChecksAreCounted == \A e \in Emails : checked[e] <= lockout[e]

SignInInv == /\ SignInTypeOK /\ PostsAreWhole /\ ClaimsAreExclusive /\ ChecksAreCounted
             /\ EntersOwnAccount /\ ChecksPerWindow
=============================================================================
