---------------------------- MODULE SessionCache ----------------------------
(***************************************************************************)
(* The Redis copy of a session's folded state and the two paths that touch *)
(* it (app/interview/service.py, app/interview/cache.py):                  *)
(*                                                                         *)
(*   write  commit the staged events, then store the new state             *)
(*   read   compare the cached seq with the log's head; trust the copy or  *)
(*          fold the log and cache the result                              *)
(*                                                                         *)
(* Each step between two awaits is an action.  A request may die between   *)
(* any two.  A Redis call may fail, or time out with the command already   *)
(* sent, which then runs late or never; an entry may expire or become      *)
(* unreadable (another schema version); an operator may restore the        *)
(* database from a backup while nothing runs.                              *)
(*                                                                         *)
(* The log is the one module SessionLog promises: EventLog shows how the   *)
(* session lock lets only one transaction at a time have events staged.    *)
(***************************************************************************)
EXTENDS InterviewLog, Integers, FiniteSets

CONSTANTS
  Procs,        \* requests and workers that may run at once
  MaxStored,    \* bound: events in the log
  MaxLate,      \* bound: commands that timed out and have not run
  MaxDamage,    \* bound: entries that become unreadable
  MaxRestores   \* bound: database restores

ASSUME CacheBounds == /\ MaxStored \in Nat /\ MaxLate \in Nat
                      /\ MaxDamage \in Nat /\ MaxRestores \in Nat

VARIABLES
  committed,  \* committed interview_events, in seq order
  cache,      \* the hash sess:{session_id}
  late,       \* commands sent to Redis whose sender gave up waiting
  proc,       \* what each request is doing
  damage,     \* bound: entries damaged so far
  restores    \* bound: restores so far

cacheVars == <<committed, cache, late, proc, damage, restores>>
bounds == <<damage, restores>>

NoCachedSeq == -1

(* A folded state and the seq of the last event in it.                     *)
Copy == [seq : Nat \cup {NoCachedSeq}, state : SessionState]
Folded(events) == [seq |-> Len(events) - 1, state |-> Fold(events)]
NoState == [seq |-> NoCachedSeq, state |-> Initial]

(* The entry: absent, readable, or unreadable with whatever its seq field  *)
(* says (NoCachedSeq when that is no number either).                             *)
Entry == [status : {"miss", "hit", "invalid"}, copy : Copy]
NoEntry == [status |-> "miss", copy |-> NoState]
EntryOf(copy) == [status |-> "hit", copy |-> copy]

(* A request: where it is, whether it writes, the head it read, the seq it *)
(* found cached, the events it staged, and the state it staged, folded or  *)
(* is about to return.                                                     *)
CachePhase == {"idle", "staged", "store", "get", "invalidate", "rebuild",
          "replace", "returned"}
Proc == [pc : CachePhase, writes : BOOLEAN, head : Nat \cup {NoCachedSeq},
         cached_seq : Nat \cup {NoCachedSeq}, events : Seq(Event), copy : Copy]
NoProc == [pc |-> "idle", writes |-> FALSE, head |-> NoCachedSeq,
           cached_seq |-> NoCachedSeq, events |-> <<>>, copy |-> NoState]

StoredHead == Len(committed) - 1

Goto(p, r) == proc' = [proc EXCEPT ![p] = r]

CacheInit ==
  /\ committed = <<Plain("SESSION_CREATED")>>
  /\ cache = NoEntry
  /\ late = {}
  /\ proc = [p \in Procs |-> NoProc]
  /\ damage = 0
  /\ restores = 0

(***************************************************************************)
(* The cache's operations.  store writes only over an older seq; one that  *)
(* is not a number counts as nothing there.  A command takes effect, or    *)
(* fails, or is left behind by a sender that stopped waiting.              *)
(***************************************************************************)
(* Seeded bugs: whoever writes last wins; an entry emptied, not deleted.   *)
StoreAlways(copy) == EntryOf(copy)
EmptiedEntry == EntryOf(NoState)

StoreIfNewer(copy) ==
  IF cache.copy.seq >= copy.seq THEN cache ELSE EntryOf(copy)
DeletedEntry == NoEntry

Storing(copy) == [op |-> "store", copy |-> copy]
Deleting      == [op |-> "delete", copy |-> NoState]

Run(command) == cache' = IF command.op = "store" THEN StoreIfNewer(command.copy)
                                                 ELSE DeletedEntry

Done(command)   == Run(command) /\ UNCHANGED late
Failed          == UNCHANGED <<cache, late>>
TimedOut(command) == /\ Cardinality(late) < MaxLate
                     /\ late' = late \cup {command}
                     /\ UNCHANGED cache

(***************************************************************************)
(* Writing: events are staged under the session lock, committed, and only  *)
(* then cached.                                                            *)
(***************************************************************************)
StageEvents(p) ==
  /\ proc[p].pc = "idle"
  /\ \A q \in Procs : proc[q].pc # "staged"
  /\ Len(committed) < MaxStored
  /\ \E e \in Validated :
       /\ Accepts(Fold(committed), e)
       /\ Goto(p, [NoProc EXCEPT !.pc = "staged", !.writes = TRUE,
                                 !.events = Append(committed, e),
                                 !.copy = Folded(Append(committed, e))])
  /\ UNCHANGED <<committed, cache, late, bounds>>

CommitEvents(p) ==
  /\ proc[p].pc = "staged"
  /\ committed' = proc[p].events
  /\ Goto(p, [proc[p] EXCEPT !.pc = "store", !.events = <<>>])
  /\ UNCHANGED <<cache, late, bounds>>

(* Seeded bug: the state is cached before its events are committed.        *)
MayStoreUncommitted(p) == proc[p].pc \in {"staged", "store"}

MayStore(p) == proc[p].pc = "store"

Store(p) ==
  /\ MayStore(p)
  /\ Done(Storing(proc[p].copy)) \/ Failed \/ TimedOut(Storing(proc[p].copy))
  /\ Goto(p, IF proc[p].writes THEN NoProc ELSE [proc[p] EXCEPT !.pc = "returned"])
  /\ UNCHANGED <<committed, bounds>>

(***************************************************************************)
(* Reading: load_state.                                                    *)
(***************************************************************************)
ReadHead(p) ==
  /\ proc[p].pc = "idle"
  /\ Goto(p, [NoProc EXCEPT !.pc = "get", !.head = StoredHead])
  /\ UNCHANGED <<committed, cache, late, bounds>>

(* Seeded bug: any readable copy is trusted.                               *)
TrustedIfReadable(p) == cache.status = "hit"

Trusted(p) == cache.status = "hit" /\ cache.copy.seq = proc[p].head

Get(p) ==
  /\ proc[p].pc = "get"
  /\ \/ /\ Trusted(p)
        /\ Goto(p, [proc[p] EXCEPT !.pc = "returned", !.copy = cache.copy])
     \/ /\ cache.status = "hit" /\ ~Trusted(p)
        /\ Goto(p, [proc[p] EXCEPT !.pc = "rebuild", !.cached_seq = cache.copy.seq])
     \/ /\ cache.status = "invalid"
        /\ Goto(p, [proc[p] EXCEPT !.pc = "invalidate"])
     \/ Goto(p, [proc[p] EXCEPT !.pc = "rebuild"])   \* a miss, or Redis unavailable
  /\ UNCHANGED <<committed, cache, late, bounds>>

Invalidate(p) ==
  /\ proc[p].pc = "invalidate"
  /\ Done(Deleting) \/ Failed \/ TimedOut(Deleting)
  /\ Goto(p, [proc[p] EXCEPT !.pc = "rebuild"])
  /\ UNCHANGED <<committed, bounds>>

(* A copy that was ahead of the log is replaced, any other is stored over. *)
Rebuild(p) ==
  /\ proc[p].pc = "rebuild"
  /\ Goto(p, [proc[p] EXCEPT !.copy = Folded(committed),
                             !.pc = IF StoredHead < proc[p].cached_seq
                                      THEN "replace" ELSE "store"])
  /\ UNCHANGED <<committed, cache, late, bounds>>

(* Delete, then store; without the delete there is nothing to store over.  *)
Replace(p) ==
  /\ proc[p].pc = "replace"
  /\ \/ Done(Deleting) /\ Goto(p, [proc[p] EXCEPT !.pc = "store"])
     \/ (Failed \/ TimedOut(Deleting)) /\ Goto(p, [proc[p] EXCEPT !.pc = "returned"])
  /\ UNCHANGED <<committed, bounds>>

(* The request ends: answered, cancelled or killed, rolled back if it had  *)
(* only staged.                                                            *)
End(p) ==
  /\ proc[p].pc # "idle"
  /\ Goto(p, NoProc)
  /\ UNCHANGED <<committed, cache, late, bounds>>

(***************************************************************************)
(* Redis and the operator.                                                 *)
(***************************************************************************)
RunLate ==
  /\ \E command \in late : Run(command) /\ late' = late \ {command}
  /\ UNCHANGED <<committed, proc, bounds>>

LoseLate ==
  /\ late # {}
  /\ late' = {}
  /\ UNCHANGED <<committed, cache, proc, bounds>>

Expire ==
  /\ cache.status # "miss"
  /\ cache' = NoEntry
  /\ UNCHANGED <<committed, late, proc, bounds>>

Damage ==
  /\ cache.status = "hit" /\ damage < MaxDamage
  /\ \E copy \in {cache.copy, NoState} : cache' = [status |-> "invalid", copy |-> copy]
  /\ damage' = damage + 1
  /\ UNCHANGED <<committed, late, proc, restores>>

Restore ==
  /\ restores < MaxRestores
  /\ late = {} /\ \A p \in Procs : proc[p].pc = "idle"
  /\ \E n \in 1..(Len(committed) - 1) : committed' = SubSeq(committed, 1, n)
  /\ restores' = restores + 1
  /\ UNCHANGED <<cache, late, proc, damage>>

-----------------------------------------------------------------------------
Request(p) == \/ StageEvents(p) \/ CommitEvents(p) \/ Store(p)
              \/ ReadHead(p) \/ Get(p) \/ Invalidate(p) \/ Rebuild(p) \/ Replace(p)
              \/ End(p)

Environment == RunLate \/ LoseLate \/ Expire \/ Damage \/ Restore

CacheNext == (\E p \in Procs : Request(p)) \/ Environment

CacheSpec == CacheInit /\ [][CacheNext]_cacheVars

-----------------------------------------------------------------------------
(* The values the variables may take; the empty pre-creation state is      *)
(* never cached.                                                           *)
CacheTypeOK ==
  /\ committed \in Seq(Event) /\ committed # <<>>
  /\ cache \in Entry
  /\ cache.status = "hit" => cache.copy.seq \in Nat
  /\ \A command \in late : command \in [op : {"store", "delete"}, copy : Copy]
  /\ proc \in [Procs -> Proc]
  /\ damage \in Nat /\ restores \in Nat

(* A copy is the fold of a prefix of the committed log.                    *)
IsPrefixOfLog(copy) ==
  copy.seq \in 0..StoredHead /\ copy = Folded(SubSeq(committed, 1, copy.seq + 1))

(* "Redis is never the source of truth": whatever the order in which slow  *)
(* requests, late commands and crashes reach it, Redis only ever holds the *)
(* fold of committed events.                                               *)
CacheIsCommitted ==
  restores = 0 /\ cache.status = "hit" => IsPrefixOfLog(cache.copy)

(* load_state never answers with a state older than the log was when it    *)
(* was asked, nor with one the log does not reach.                         *)
ReadIsCurrent ==
  \A p \in Procs : proc[p].pc = "returned" => proc[p].copy.seq \in proc[p].head..StoredHead

(* What load_state returns is what the log replays to at that seq: "Redis  *)
(* being down makes a session slower, never wrong".                        *)
ReadIsTheLog ==
  \A p \in Procs : proc[p].pc = "returned" => IsPrefixOfLog(proc[p].copy)

(* The same until a restore of the database, which leaves Redis behind     *)
(* with states of a log that no longer is.                                 *)
ReadIsTheLogUntilRestored == restores = 0 => ReadIsTheLog

(* Redis and its readers only ever see the log: all three.                 *)
CacheIsTrue == CacheIsCommitted /\ ReadIsCurrent /\ ReadIsTheLogUntilRestored

(* A slow request with an old fold, or a late command, never overwrites a  *)
(* newer copy: seq only falls by way of an absent entry.                   *)
CacheNeverRegresses ==
  [][cache.status = "hit" /\ cache'.status = "hit"
       => cache'.copy = cache.copy \/ cache'.copy.seq > cache.copy.seq]_cacheVars
=============================================================================
