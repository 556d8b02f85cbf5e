----------------------------- MODULE ModelCalls -----------------------------
(***************************************************************************)
(* How a call reaches a language model: call_structured                    *)
(* (app/llm/client.py), the response cache (app/llm/cache.py), the router  *)
(* with its circuit breaker (app/llm/router.py) and the adapter that steps *)
(* down a ladder of structured-output modes (app/llm/providers/nvidia.py). *)
(* Several callers share one process; everything between two awaits is one *)
(* step.                                                                   *)
(*                                                                         *)
(* Abstracted: prompts, schemas and text (an answer validates or does      *)
(* not), times (a cooldown and a backoff may end at any moment), tokens    *)
(* (one per completion), and every cacheable call asks the same question.  *)
(***************************************************************************)
EXTENDS Naturals, Sequences, FiniteSets

CONSTANTS
  Callers,      \* tasks of the process that may have a call under way
  Order,        \* settings.llm_providers: the providers, first choice first
  Rungs,        \* provider -> number of structured-output modes it knows
  MaxAttempts,  \* llm_max_attempts_per_provider
  Threshold,    \* llm_breaker_failure_threshold
  MaxRepairs    \* llm_schema_max_retries

Providers == {Order[i] : i \in 1..Len(Order)}

ASSUME CallersAssumption == IsFiniteSet(Callers)
ASSUME OrderAssumption == Len(Order) \in Nat \ {0} /\ Order \in [1..Len(Order) -> Providers]
ASSUME RungsAssumption == Rungs \in [Providers -> Nat \ {0}]
ASSUME CallBounds == /\ MaxAttempts \in Nat \ {0} /\ Threshold \in Nat \ {0}
                     /\ MaxRepairs \in Nat

VARIABLES
  breaker,  \* provider -> its entry: consecutive failures, opened_until
  mode,     \* provider -> the rung calls start on (_structured_mode)
  cached,   \* the question's Redis entry: "answer", or none that can be read
  call      \* caller -> the call it has under way

callVars == <<breaker, mode, cached, call>>

(* opened_until: None, in the future, or passed without anyone looking.    *)
Entry == [failures : Nat, open : {"no", "open", "elapsed"}]
Closed == [failures |-> 0, open |-> "no"]

Call == [pc : {"idle", "lookup", "ask", "backoff", "store"},
         cacheable : BOOLEAN,
         at      : Nat,    \* index of the provider being tried
         attempt : Nat,    \* attempts on it before this one
         rung    : Nat,    \* the mode of the outstanding request
         repairs : Nat]    \* schema_attempt

Idle == [pc |-> "idle", cacheable |-> FALSE, at |-> 0, attempt |-> 0, rung |-> 0,
         repairs |-> 0]

RouterInit ==
  /\ breaker = [p \in Providers |-> Closed]
  /\ mode = [p \in Providers |-> 1]
  /\ cached = "none"
  /\ call = [c \in Callers |-> Idle]

(***************************************************************************)
(* The circuit breaker.                                                    *)
(***************************************************************************)
IsOpen(b, p) == b[p].open = "open"

(* is_open also closes a circuit whose cooldown has passed.                *)
Looked(b, p) == [b EXCEPT ![p] = IF b[p].open = "elapsed" THEN Closed ELSE @]

(* Seeded bug: the count is compared before it is raised.                  *)
FailureLate(b, p) ==
  [b EXCEPT ![p] = [failures |-> @.failures + 1,
                    open |-> IF @.failures >= Threshold /\ @.open = "no"
                             THEN "open" ELSE @.open]]

(* record_failure: opens the circuit unless it was opened before.          *)
Failure(b, p) ==
  [b EXCEPT ![p] = [failures |-> @.failures + 1,
                    open |-> IF @.failures + 1 >= Threshold /\ @.open = "no"
                             THEN "open" ELSE @.open]]

(* record_success forgets everything.                                      *)
Success(b, p) == [b EXCEPT ![p] = Closed]

(***************************************************************************)
(* ProviderRouter.complete from provider number i on: providers whose      *)
(* circuit is open are skipped without waiting, the next one is asked.     *)
(* The breaker entries looked at on the way are those of i..Reached.       *)
(***************************************************************************)
Reached(b, i) ==
  CHOOSE j \in i..(Len(Order) + 1) :
    /\ \A k \in i..(j - 1) : IsOpen(b, Order[k])
    /\ j <= Len(Order) => ~IsOpen(b, Order[j])

(* Asking a provider starts an attempt on the mode it is set to.           *)
Asked(k, j) == [k EXCEPT !.pc = "ask", !.at = j, !.attempt = 0, !.rung = mode[Order[j]]]

Route(c, k, b, i) ==
  LET j == Reached(b, i)
  IN  IF j > Len(Order)
      THEN /\ call' = [call EXCEPT ![c] = Idle]     \* AllProvidersFailedError
           /\ breaker' = b
      ELSE /\ call' = [call EXCEPT ![c] = Asked(k, j)]
           /\ breaker' = Looked(b, Order[j])

(***************************************************************************)
(* call_structured: the cache first, when the task may use it.             *)
(***************************************************************************)
StartCached(c) ==
  /\ call[c].pc = "idle"
  /\ call' = [call EXCEPT ![c] = [Idle EXCEPT !.pc = "lookup", !.cacheable = TRUE]]
  /\ UNCHANGED <<breaker, mode, cached>>

StartUncached(c) ==
  /\ call[c].pc = "idle"
  /\ Route(c, Idle, breaker, 1)
  /\ UNCHANGED <<mode, cached>>

(* A hit that still validates ends the call.                               *)
CacheHit(c) ==
  /\ call[c].pc = "lookup" /\ cached = "answer"
  /\ call' = [call EXCEPT ![c] = Idle]
  /\ UNCHANGED <<breaker, mode, cached>>

(* Absent, unreadable, no longer valid, or Redis did not answer.           *)
CacheMiss(c) ==
  /\ call[c].pc = "lookup"
  /\ Route(c, call[c], breaker, 1)
  /\ UNCHANGED <<mode, cached>>

(***************************************************************************)
(* What the endpoint may answer to the outstanding request.                *)
(***************************************************************************)
At(c) == Order[call[c].at]

(* A completion that validates.                                            *)
Answered(c) ==
  /\ call[c].pc = "ask"
  /\ breaker' = Success(breaker, At(c))
  /\ call' = [call EXCEPT ![c] = IF @.cacheable THEN [@ EXCEPT !.pc = "store"] ELSE Idle]
  /\ UNCHANGED <<mode, cached>>

(* Seeded bug: the repair is not counted.                                  *)
InvalidUncounted(c) ==
  /\ call[c].pc = "ask"
  /\ IF call[c].repairs < MaxRepairs
     THEN Route(c, call[c], Success(breaker, At(c)), 1)
     ELSE /\ call' = [call EXCEPT ![c] = Idle]
          /\ breaker' = Success(breaker, At(c))
  /\ UNCHANGED <<mode, cached>>

(* A completion that does not: a repair asks the router afresh, from the   *)
(* first provider on, until the repairs are used up.                       *)
Invalid(c) ==
  /\ call[c].pc = "ask"
  /\ IF call[c].repairs < MaxRepairs
     THEN Route(c, [call[c] EXCEPT !.repairs = @ + 1], Success(breaker, At(c)), 1)
     ELSE /\ call' = [call EXCEPT ![c] = Idle]      \* SchemaValidationFailedError
          /\ breaker' = Success(breaker, At(c))
  /\ UNCHANGED <<mode, cached>>

(* The provider is given up for this request: the next one is tried.       *)
GiveUpOn(c) == Route(c, call[c], Failure(breaker, At(c)), call[c].at + 1)

(* 401, 403, a 400 that is not about the mode, an empty or unusable body.  *)
Refused(c) ==
  /\ call[c].pc = "ask"
  /\ GiveUpOn(c)
  /\ UNCHANGED <<mode, cached>>

(* Seeded bug: the attempt that failed is not counted.                     *)
FailedOnceMore(c) ==
  /\ call[c].pc = "ask"
  /\ IF call[c].attempt < MaxAttempts
     THEN /\ call' = [call EXCEPT ![c].pc = "backoff"]
          /\ breaker' = Failure(breaker, At(c))
     ELSE GiveUpOn(c)
  /\ UNCHANGED <<mode, cached>>

(* A timeout, a 429 or a 5xx: another attempt after a backoff.             *)
Failed(c) ==
  /\ call[c].pc = "ask"
  /\ IF call[c].attempt + 1 < MaxAttempts
     THEN /\ call' = [call EXCEPT ![c].pc = "backoff"]
          /\ breaker' = Failure(breaker, At(c))
     ELSE GiveUpOn(c)
  /\ UNCHANGED <<mode, cached>>

(* The next attempt does not ask the breaker again.                        *)
Retry(c) ==
  /\ call[c].pc = "backoff"
  /\ call' = [call EXCEPT ![c] = [@ EXCEPT !.pc = "ask", !.rung = mode[At(c)],
                                           !.attempt = call[c].attempt + 1]]
  /\ UNCHANGED <<breaker, mode, cached>>

(* A 400 about the mode itself: the adapter steps down and asks again; it  *)
(* is no failure to the router, and later calls start one rung lower.      *)
StepDown(c) ==
  /\ call[c].pc = "ask"
  /\ call[c].rung < Rungs[At(c)]
  /\ mode' = [mode EXCEPT ![At(c)] = call[c].rung + 1]
  /\ call' = [call EXCEPT ![c].rung = @ + 1]
  /\ UNCHANGED <<breaker, cached>>

(* The answer is written to Redis, or the write fails; the call succeeds.  *)
Store(c) ==
  /\ call[c].pc = "store"
  /\ cached' \in {cached, "answer"}
  /\ call' = [call EXCEPT ![c] = Idle]
  /\ UNCHANGED <<breaker, mode>>

(***************************************************************************)
(* The surroundings.                                                       *)
(***************************************************************************)
CooldownEnds(p) ==
  /\ breaker[p].open = "open"
  /\ breaker' = [breaker EXCEPT ![p].open = "elapsed"]
  /\ UNCHANGED <<mode, cached, call>>

(* /readyz reads every provider's state, which closes what has cooled down. *)
HealthProbe ==
  /\ \E p \in Providers : breaker[p].open = "elapsed"
  /\ breaker' = [p \in Providers |-> Looked(breaker, p)[p]]
  /\ UNCHANGED <<mode, cached, call>>

(* The entry expires, or a deployment can no longer read it.               *)
CacheEntryLost ==
  /\ cached = "answer"
  /\ cached' = "none"
  /\ UNCHANGED <<breaker, mode, call>>

CallStep(c) ==
  \/ CacheHit(c) \/ CacheMiss(c)
  \/ Answered(c) \/ Invalid(c) \/ Refused(c) \/ Failed(c) \/ StepDown(c)
  \/ Retry(c)
  \/ Store(c)

RouterNext ==
  \/ \E c \in Callers : StartCached(c) \/ StartUncached(c) \/ CallStep(c)
  \/ \E p \in Providers : CooldownEnds(p)
  \/ HealthProbe
  \/ CacheEntryLost

(* Every request has a deadline and every backoff ends: a call under way   *)
(* goes on.                                                                *)
RouterFairness == \A c \in Callers : WF_callVars(CallStep(c))

RouterSpec == RouterInit /\ [][RouterNext]_callVars /\ RouterFairness

(***************************************************************************)
(* Properties.                                                             *)
(***************************************************************************)
RouterTypeOK ==
  /\ breaker \in [Providers -> Entry]
  /\ mode \in [Providers -> Nat] /\ \A p \in Providers : mode[p] \in 1..Rungs[p]
  /\ cached \in {"none", "answer"}
  /\ call \in [Callers -> Call]
  /\ \A c \in Callers : /\ call[c].at <= Len(Order) /\ call[c].attempt < MaxAttempts
                        /\ call[c].repairs <= MaxRepairs

(* A provider that is down costs a bounded number of failures in a row     *)
(* before it is left alone for a cooldown: fewer than Threshold while its  *)
(* circuit is closed, and after that the attempts of the calls that had    *)
(* chosen it before (CircuitBreaker: "stops a known-dead provider from     *)
(* being retried on every request").                                       *)
OutageCostIsBounded ==
  \A p \in Providers :
    /\ breaker[p].open = "no" => breaker[p].failures < Threshold
    /\ breaker[p].failures <= Threshold - 1 + MaxAttempts * Cardinality(Callers)

(* A call ends, whatever the providers answer: retries, failovers, mode    *)
(* changes and repairs all run out.                                        *)
EveryCallEnds == \A c \in Callers : []<>(call[c].pc = "idle")

(* nvidia.py: the adapter "steps down once when the endpoint rejects" a    *)
(* mode, "then remembers, so the rejection is paid once per process".      *)
RejectionIsRemembered ==
  [][\A p \in Providers : mode'[p] >= mode[p]]_callVars

(***************************************************************************)
(* The inductive invariant behind the bound on an outage: once a circuit   *)
(* is open, the attempts still to be made on its provider pay for the      *)
(* failures still to be counted.                                           *)
(***************************************************************************)
Trying == {"ask", "backoff"}

(* A call that asks has a provider, and one that waits an attempt left.    *)
CallsAreRouted ==
  \A c \in Callers :
    /\ call[c].pc \in Trying => call[c].at \in 1..Len(Order)
    /\ call[c].pc = "backoff" => call[c].attempt + 1 < MaxAttempts

(* The attempts a call has used, the outstanding backoff's included.       *)
Used(k) == k.attempt + (IF k.pc = "backoff" THEN 1 ELSE 0)

AttemptsLeft(p) ==
  {a \in Callers \X (1..MaxAttempts) :
     LET k == call[a[1]]
     IN  k.pc \in Trying /\ Order[k.at] = p /\ Used(k) < a[2]}

OutageIsPaidFor ==
  \A p \in Providers :
    IF breaker[p].open = "no"
    THEN breaker[p].failures < Threshold
    ELSE breaker[p].failures + Cardinality(AttemptsLeft(p))
           <= Threshold - 1 + MaxAttempts * Cardinality(Callers)

OutageInv == RouterTypeOK /\ CallsAreRouted /\ OutageIsPaidFor
=============================================================================
