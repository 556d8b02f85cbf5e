--------------------------- MODULE TokenRotation ---------------------------
(***************************************************************************)
(* Sessions of one account: single-use refresh tokens, kept in a browser's *)
(* cookie jar and in a Redis allowlist (app/token_store.py, the refresh    *)
(* and logout routes of app/api/auth.py), and the tabs that exchange them  *)
(* (frontend api/client.ts, auth/AuthProvider.tsx).                        *)
(*                                                                         *)
(* A request is in the sequence `exchanges` from when a tab sends it; the  *)
(* token it issues is named by its number.  One Redis command or pipeline  *)
(* is one step.                                                            *)
(*                                                                         *)
(* Abstracted: signatures and claims of a token (a presented refresh token *)
(* decodes: it is the server's own), the passwords of a sign-in (module    *)
(* SignIn), and the thirty days after which Redis forgets an entry.        *)
(***************************************************************************)
EXTENDS Naturals, Sequences, FiniteSets

CONSTANTS
  Tabs,         \* open pages of the application
  BrowserOf,    \* tab -> the browser whose cookie jar and Web Locks it shares
  MaxRequests   \* bound: auth requests sent altogether

Browsers == {BrowserOf[t] : t \in Tabs}
None == 0
Token == 0..MaxRequests

ASSUME BrowserAssumption == BrowserOf \in [Tabs -> Browsers]
ASSUME RequestBound == MaxRequests \in Nat

VARIABLES
  live,      \* refresh:{jti} keys: the tokens that may still be exchanged
  family,    \* refresh_user:{uid}: the tokens a revocation would end
  jar,       \* browser -> its refresh_token cookie
  access,    \* tab -> the access token it holds, by the request that got it
  exchanges \* what was sent, in order

tokenVars == <<live, family, jar, access, exchanges>>

Request == [kind  : {"sign_in", "refresh", "logout"},
            tab   : Tabs,
            token : Token,            \* the cookie it presents
            pc    : {"sent", "unlist", "issue", "list", "revoke", "granted", "refused"},
            heard : {"waiting", "yes", "lost"},   \* by the tab that sent it
            seen  : SUBSET Token]     \* the family its revocation read

Waiting(t) == {i \in DOMAIN exchanges : exchanges[i].tab = t /\ exchanges[i].heard = "waiting"}
WaitingFor(t, kinds) == {i \in Waiting(t) : exchanges[i].kind \in kinds}

(* The Web Lock of withRefreshLock is held while a refresh is unanswered.  *)
LockHeld(b) == \E t \in Tabs : BrowserOf[t] = b /\ WaitingFor(t, {"refresh"}) # {}

TokenInit ==
  /\ live = {} /\ family = {}
  /\ jar = [b \in Browsers |-> None]
  /\ access = [t \in Tabs |-> None]
  /\ exchanges = <<>>

(***************************************************************************)
(* What a tab sends.  The cookie is read when the request leaves.          *)
(***************************************************************************)
Dispatch(t, kind, pc) ==
  /\ Len(exchanges) < MaxRequests
  /\ exchanges' = Append(exchanges, [kind |-> kind, tab |-> t, token |-> jar[BrowserOf[t]],
                                   pc |-> pc, heard |-> "waiting", seen |-> {}])
  /\ UNCHANGED <<live, family, jar>>

(* The credentials were accepted: the server is about to issue tokens.     *)
SignIn(t) ==
  /\ access[t] = None /\ Waiting(t) = {}
  /\ Dispatch(t, "sign_in", "issue")
  /\ UNCHANGED access

(* Seeded bug: nothing keeps two tabs from refreshing at once.             *)
RefreshUnlocked(t) ==
  /\ WaitingFor(t, {"refresh", "sign_in"}) = {}
  /\ Dispatch(t, "refresh", "sent")
  /\ UNCHANGED access

(* On page load, or when a request was answered 401: one refresh per tab   *)
(* (refreshInFlight) and one per browser (the Web Lock).                   *)
Refresh(t) ==
  /\ WaitingFor(t, {"refresh", "sign_in"}) = {}
  /\ ~LockHeld(BrowserOf[t])
  /\ Dispatch(t, "refresh", "sent")
  /\ UNCHANGED access

(* signOut waits for no refresh of its own or of another tab.              *)
SignOut(t) ==
  /\ access[t] # None
  /\ WaitingFor(t, {"sign_in", "logout"}) = {}
  /\ Dispatch(t, "logout", "sent")
  /\ UNCHANGED access

(* A reload abandons what is under way and forgets the access token.       *)
Reload(t) ==
  /\ Waiting(t) # {} \/ access[t] # None
  /\ exchanges' = [i \in DOMAIN exchanges |->
                   IF i \in Waiting(t) THEN [exchanges[i] EXCEPT !.heard = "lost"]
                   ELSE exchanges[i]]
  /\ access' = [access EXCEPT ![t] = None]
  /\ UNCHANGED <<live, family, jar>>

(***************************************************************************)
(* What the server does with request i.                                    *)
(***************************************************************************)
Move(i, pc) == exchanges' = [exchanges EXCEPT ![i].pc = pc]

(* Seeded bug: what DELETE returned is not looked at.                      *)
ConsumeUnchecked(i) ==
  LET r == exchanges[i]
  IN  /\ r.pc = "sent" /\ r.token # None
      /\ live' = live \ {r.token}
      /\ Move(i, "unlist")
      /\ UNCHANGED <<family, jar, access>>

(* consume_refresh_token: the DELETE is the check.                         *)
Consume(i) ==
  LET r == exchanges[i]
  IN  /\ r.pc = "sent" /\ r.token \in live
      /\ live' = live \ {r.token}
      /\ Move(i, "unlist")
      /\ UNCHANGED <<family, jar, access>>

(* No such key.  A refresh that presents a spent token is taken for a      *)
(* replay; without a cookie it is only refused; a logout does not mind.    *)
Spent(i) ==
  LET r == exchanges[i]
  IN  /\ r.pc = "sent" /\ r.token \notin live
      /\ Move(i, IF r.kind = "logout" THEN "granted"
                 ELSE IF r.token = None THEN "refused" ELSE "list")
      /\ UNCHANGED <<live, family, jar, access>>

(* The SREM that follows the DELETE.                                       *)
Unlist(i) ==
  LET r == exchanges[i]
  IN  /\ r.pc = "unlist"
      /\ family' = family \ {r.token}
      /\ Move(i, IF r.kind = "logout" THEN "granted" ELSE "issue")
      /\ UNCHANGED <<live, jar, access>>

(* remember_refresh_token: one pipeline.                                   *)
Issue(i) ==
  /\ exchanges[i].pc = "issue"
  /\ live' = live \cup {i}
  /\ family' = family \cup {i}
  /\ Move(i, "granted")
  /\ UNCHANGED <<jar, access>>

(* revoke_all_refresh_tokens: SMEMBERS ...                                 *)
ReadFamily(i) ==
  /\ exchanges[i].pc = "list"
  /\ exchanges' = [exchanges EXCEPT ![i].pc = "revoke", ![i].seen = family]
  /\ UNCHANGED <<live, family, jar, access>>

(* Seeded bug: the family's key is dropped, its tokens are not.            *)
RevokeKeyOnly(i) ==
  /\ exchanges[i].pc = "revoke"
  /\ family' = {}
  /\ Move(i, "refused")
  /\ UNCHANGED <<live, jar, access>>

(* ... then one pipeline that deletes what was read, and the set.          *)
Revoke(i) ==
  /\ exchanges[i].pc = "revoke"
  /\ live' = live \ exchanges[i].seen
  /\ family' = {}
  /\ Move(i, "refused")
  /\ UNCHANGED <<jar, access>>

(***************************************************************************)
(* What reaches the tab.                                                   *)
(***************************************************************************)
(* Tokens arrive: the jar takes the cookie and the tab the access token.   *)
HearTokens(i) ==
  LET r == exchanges[i]
  IN  /\ r.heard = "waiting" /\ r.pc = "granted" /\ r.kind # "logout"
      /\ jar' = [jar EXCEPT ![BrowserOf[r.tab]] = i]
      /\ access' = [access EXCEPT ![r.tab] = i]
      /\ exchanges' = [exchanges EXCEPT ![i].heard = "yes"]
      /\ UNCHANGED <<live, family>>

(* A 204 clears the cookie.  A refused refresh leaves it where it is: the  *)
(* headers set on the injected response are lost with the exception.       *)
HearTheEnd(i) ==
  LET r == exchanges[i]
  IN  /\ r.heard = "waiting"
      /\ \/ r.pc = "refused" /\ UNCHANGED jar
         \/ /\ r.pc = "granted" /\ r.kind = "logout"
            /\ jar' = [jar EXCEPT ![BrowserOf[r.tab]] = None]
      /\ access' = [access EXCEPT ![r.tab] = None]
      /\ exchanges' = [exchanges EXCEPT ![i].heard = "yes"]
      /\ UNCHANGED <<live, family>>

(* The connection fails; the server goes on.  logout clears the access     *)
(* token all the same.                                                     *)
Lose(i) ==
  LET r == exchanges[i]
  IN  /\ r.heard = "waiting"
      /\ exchanges' = [exchanges EXCEPT ![i].heard = "lost"]
      /\ access' = IF r.kind = "logout" THEN [access EXCEPT ![r.tab] = None] ELSE access
      /\ UNCHANGED <<live, family, jar>>

TokenNext ==
  \/ \E t \in Tabs : SignIn(t) \/ Refresh(t) \/ SignOut(t) \/ Reload(t)
  \/ \E i \in DOMAIN exchanges :
       \/ Consume(i) \/ Spent(i) \/ Unlist(i) \/ Issue(i) \/ ReadFamily(i) \/ Revoke(i)
       \/ HearTokens(i) \/ HearTheEnd(i) \/ Lose(i)

TokenSpec == TokenInit /\ [][TokenNext]_tokenVars

(***************************************************************************)
(* Properties.                                                             *)
(***************************************************************************)
TokenTypeOK ==
  /\ live \subseteq Token /\ family \subseteq Token
  /\ jar \in [Browsers -> Token]
  /\ access \in [Tabs -> Token]
  /\ exchanges \in Seq(Request) /\ Len(exchanges) <= MaxRequests

(* A refresh token buys one new pair, whoever presents it and however the  *)
(* requests overlap (consume_refresh_token: "the single-use guarantee has  *)
(* to be one operation").                                                  *)
ExchangedOnce ==
  \A i, j \in DOMAIN exchanges :
    ( /\ i # j
      /\ {exchanges[i].kind, exchanges[j].kind} = {"refresh"}
      /\ {exchanges[i].pc, exchanges[j].pc} \subseteq {"unlist", "issue", "granted"} )
    => exchanges[i].token # exchanges[j].token

(* Tabs that only refresh never end the user's sessions: unless an answer  *)
(* was lost or someone signed out, no refresh presents a spent token       *)
(* (docs/frontend.md: "refreshes must never overlap").                     *)
RotationIsNoReplay ==
  (\A i \in DOMAIN exchanges : exchanges[i].heard # "lost" /\ exchanges[i].kind # "logout")
    => \A i \in DOMAIN exchanges : exchanges[i].pc \notin {"list", "revoke"}

(* A revocation ends every session it found for good, and finds every      *)
(* session but those issued while it, or another one, was under way.       *)
FamilyIsRevoked ==
  /\ \A i \in DOMAIN exchanges :
       exchanges[i].kind = "refresh" /\ exchanges[i].pc = "refused"
         => exchanges[i].seen \cap live = {}
  /\ live \ family # {} => \E i \in DOMAIN exchanges : exchanges[i].pc = "refused"
                                                        /\ exchanges[i].token # None

(* All three: one exchange per token, no false alarm, no survivor.         *)
RotationIsSound == ExchangedOnce /\ RotationIsNoReplay /\ FamilyIsRevoked

(* Signing out ends the session: once the answer is there, the browser is  *)
(* not left with a live token that a refresh got for the one signed out    *)
(* with (logout: "the user's intent is 'end my session'").                 *)
SignOutEndsTheSession ==
  \A i, j \in DOMAIN exchanges :
    ( /\ exchanges[i].kind = "logout" /\ exchanges[i].heard = "yes"
      /\ exchanges[j].kind = "refresh" /\ exchanges[j].token = exchanges[i].token
      /\ jar[BrowserOf[exchanges[i].tab]] = j )
    => j \notin live
(***************************************************************************)
(* The inductive invariant behind the theorem.                             *)
(***************************************************************************)
(* The tokens that were issued, each in the name of its request.           *)
Issued == {i \in DOMAIN exchanges : /\ exchanges[i].pc = "granted"
                                    /\ exchanges[i].kind # "logout"}

(* A cookie of browser b: none, or a token issued to one of its tabs.      *)
Cookie(b, n) == n # None => n \in Issued /\ BrowserOf[exchanges[n].tab] = b

(* Where a request can be, and what it carries there.                      *)
RequestsAreWhole ==
  \A i \in DOMAIN exchanges :
    LET r == exchanges[i]
    IN  /\ Cookie(BrowserOf[r.tab], r.token)
        /\ r.heard = "yes" => r.pc \in {"granted", "refused"}
        /\ r.kind = "sign_in" => r.pc \in {"issue", "granted"}
        /\ r.kind = "logout" => r.pc \in {"sent", "unlist", "granted"}
        /\ r.pc \in {"list", "revoke"} => r.token # None
        /\ r.pc \notin {"revoke", "refused"} => r.seen = {}
        /\ r.seen \subseteq Issued

TokensAreIssued == /\ live \cup family \subseteq Issued
                   /\ \A b \in Browsers : Cookie(b, jar[b])

(* A token that was looked up is live no more.                             *)
LookedUpIsSpent ==
  \A i \in DOMAIN exchanges :
    exchanges[i].kind # "sign_in" /\ exchanges[i].pc # "sent"
      => exchanges[i].token \notin live

(* One refresh at a time per browser.                                      *)
OneRefresh ==
  \A i, j \in DOMAIN exchanges :
    ( /\ exchanges[i].kind = "refresh" /\ exchanges[i].heard = "waiting"
      /\ exchanges[j].kind = "refresh" /\ exchanges[j].heard = "waiting"
      /\ BrowserOf[exchanges[i].tab] = BrowserOf[exchanges[j].tab] ) => i = j

(* A token nobody has heard of yet is in no cookie.                        *)
UnheardIsUnused ==
  \A i \in DOMAIN exchanges : exchanges[i].heard = "waiting" =>
    /\ \A j \in DOMAIN exchanges : exchanges[j].token # i
    /\ \A b \in Browsers : jar[b] # i

(* No answer was lost and nobody signed out.                               *)
Quiet == \A i \in DOMAIN exchanges : /\ exchanges[i].heard # "lost"
                                     /\ exchanges[i].kind # "logout"

(* The refresh that is exchanging browser b's cookie.                      *)
Exchanging(i, b) == /\ exchanges[i].kind = "refresh" /\ exchanges[i].heard = "waiting"
                    /\ BrowserOf[exchanges[i].tab] = b /\ exchanges[i].token = jar[b]
                    /\ exchanges[i].pc # "sent"

(* While it is quiet every cookie, sent or about to be sent, is live but   *)
(* for the one that is being exchanged.                                    *)
QuietTokensLive ==
  Quiet =>
    /\ \A i \in DOMAIN exchanges :
         LET r == exchanges[i]
         IN  /\ r.pc \notin {"list", "revoke"}
             /\ r.pc = "refused" => r.token = None
             /\ r.kind = "refresh" /\ r.pc = "sent" /\ r.token # None => r.token \in live
             /\ r.pc = "granted" /\ r.heard = "waiting" => i \in live
    /\ \A b \in Browsers : \/ jar[b] = None \/ jar[b] \in live
                           \/ \E i \in DOMAIN exchanges : Exchanging(i, b)

TokenInv == /\ TokenTypeOK /\ RequestsAreWhole /\ TokensAreIssued /\ LookedUpIsSpent
            /\ OneRefresh /\ UnheardIsUnused /\ QuietTokensLive
            /\ ExchangedOnce /\ FamilyIsRevoked
=============================================================================
