------------------------------ MODULE EventLog ------------------------------
(***************************************************************************)
(* How transactions extend the log of one session (app/interview/store.py, *)
(* app/interview/service.py): lock the session row, fold the log, stage    *)
(* events one by one, commit them together with the projection.            *)
(*                                                                         *)
(* PostgreSQL runs at READ COMMITTED, so each statement reads the log as   *)
(* it is then, and a transaction's own staged rows on top of it.  Any      *)
(* transaction may end without committing at any moment: an exception, a   *)
(* cancelled request, a lost connection or a killed process all roll back  *)
(* and release the lock.                                                   *)
(***************************************************************************)
EXTENDS InterviewLog

CONSTANTS
  Writers,    \* transactions that may be open at once
  NoWriter,   \* the row is not locked
  NoSeq,      \* expected_seq is None
  MaxBatch,   \* bound: events one transaction stages
  MaxLog      \* bound: events in the log

ASSUME WriterAssumption == NoWriter \notin Writers /\ NoSeq \notin Nat
ASSUME LogBounds == MaxBatch \in Nat /\ MaxLog \in Nat

VARIABLES
  log,         \* committed interview_events, in seq order
  projection,  \* committed interview_sessions.state
  lock,        \* who holds the session row FOR UPDATE
  txn          \* writer -> its transaction

vars == <<log, projection, lock, txn>>

(* phase; the seq its caller decided on (or NoSeq); the rows it staged.    *)
Row   == [seq : Nat, event : Event]
Txn   == [phase : {"idle", "begun", "locked"}, expected : Nat \cup {NoSeq},
          staged : Seq(Row)]
NoTxn == [phase |-> "idle", expected |-> NoSeq, staged |-> <<>>]

Events(rows) == [i \in 1..Len(rows) |-> rows[i].event]

(* The log as a transaction sees it: committed events, then its own.       *)
Visible(w) == log \o Events(txn[w].staged)

(* Seeded bug: a head one too low.                                         *)
HeadSeqTooLow == Len(log) - 2

HeadSeq == Len(log) - 1

Init ==
  /\ log = <<Plain("SESSION_CREATED")>>
  /\ projection = Fold(log).state
  /\ lock = NoWriter
  /\ txn = [w \in Writers |-> NoTxn]

(* A caller may have decided on a state it read without the lock.          *)
Begin(w) ==
  /\ txn[w].phase = "idle"
  /\ \E expected \in {NoSeq, HeadSeq} :
       txn' = [txn EXCEPT ![w] = [NoTxn EXCEPT !.phase = "begun",
                                               !.expected = expected]]
  /\ UNCHANGED <<log, projection, lock>>

(* Seeded bug: the session row is read without FOR UPDATE.                 *)
SelectSession(w) ==
  /\ txn[w].phase = "begun"
  /\ lock' = w
  /\ txn' = [txn EXCEPT ![w].phase = "locked"]
  /\ UNCHANGED <<log, projection>>

LockSession(w) ==
  /\ txn[w].phase = "begun"
  /\ lock = NoWriter
  /\ lock' = w
  /\ txn' = [txn EXCEPT ![w].phase = "locked"]
  /\ UNCHANGED <<log, projection>>

(* Seeded bugs: legality judged on the committed log alone; expected_seq   *)
(* ignored.                                                                *)
StageAppendOnCommitted(w, e) ==
  /\ txn[w].phase = "locked"
  /\ Len(txn[w].staged) < MaxBatch /\ Len(Visible(w)) < MaxLog
  /\ txn[w].staged = <<>> => txn[w].expected \in {NoSeq, HeadSeq}
  /\ Accepts(Fold(log), e)
  /\ txn' = [txn EXCEPT ![w].staged = Append(@, [seq |-> Len(Visible(w)), event |-> e])]
  /\ UNCHANGED <<log, projection, lock>>
StageAppendBlindly(w, e) ==
  /\ txn[w].phase = "locked"
  /\ Len(txn[w].staged) < MaxBatch /\ Len(Visible(w)) < MaxLog
  /\ Accepts(Fold(Visible(w)), e)
  /\ txn' = [txn EXCEPT ![w].staged = Append(@, [seq |-> Len(Visible(w)), event |-> e])]
  /\ UNCHANGED <<log, projection, lock>>

(* stage_append: fold what is visible, check expected_seq against it,      *)
(* validate, insert the row at the next seq.  A second event of the same   *)
(* transaction expects the seq of the first.                               *)
StageAppend(w, e) ==
  /\ txn[w].phase = "locked"
  /\ Len(txn[w].staged) < MaxBatch /\ Len(Visible(w)) < MaxLog
  /\ txn[w].staged = <<>> => txn[w].expected \in {NoSeq, HeadSeq}
  /\ Accepts(Fold(Visible(w)), e)
  /\ txn' = [txn EXCEPT ![w].staged = Append(@, [seq |-> Len(Visible(w)), event |-> e])]
  /\ UNCHANGED <<log, projection, lock>>

Release(w) == lock' = IF lock = w THEN NoWriter ELSE lock

(* Rows and projection become visible together; the lock goes with them.   *)
(* The unique (session_id, seq) admits no row at a seq that is taken.      *)
SeqIsFree(row) == row.seq >= Len(log)

Commit(w) ==
  /\ txn[w].staged # <<>>
  /\ \A i \in 1..Len(txn[w].staged) : SeqIsFree(txn[w].staged[i])
  /\ log' = Visible(w)
  /\ projection' = Fold(Visible(w)).state
  /\ txn' = [txn EXCEPT ![w] = NoTxn]
  /\ Release(w)

Rollback(w) ==
  /\ txn[w].phase # "idle"
  /\ txn' = [txn EXCEPT ![w] = NoTxn]
  /\ Release(w)
  /\ UNCHANGED <<log, projection>>

Transaction(w) == \/ Begin(w)
                  \/ LockSession(w)
                  \/ \E e \in Validated : StageAppend(w, e)
                  \/ Commit(w)
                  \/ Rollback(w)

Next == \E w \in Writers : Transaction(w)

Spec == Init /\ [][Next]_vars

-----------------------------------------------------------------------------
(* The values the variables may take.                                      *)
TypeOK ==
  /\ log \in Seq(Event) /\ log # <<>>
  /\ projection \in InterviewState
  /\ lock \in Writers \cup {NoWriter}
  /\ txn \in [Writers -> Txn]

(* The row lock makes the unique constraint a backstop: whoever has staged *)
(* rows holds the lock, and its rows are exactly the next ones of the log  *)
(* as it is now, so no commit can meet a taken seq (SeqConflict from the   *)
(* constraint is "only reachable if something appended without the lock"). *)
StagedRowsAreNext ==
  \A w \in Writers :
    /\ txn[w].phase = "locked" => lock = w
    /\ txn[w].staged # <<>> => txn[w].phase = "locked"
    /\ \A i \in 1..Len(txn[w].staged) : txn[w].staged[i].seq = Len(log) + i - 1

(* A caller that passed expected_seq never has a row staged on a log that  *)
(* has moved on since it decided.                                          *)
DecidedOnHead ==
  \A w \in Writers :
    txn[w].staged # <<>> => txn[w].expected \in {NoSeq, HeadSeq}

(* Transactions implement the abstract log, lock and rollback included.    *)
Abstract == INSTANCE SessionLog WITH Created <- Plain("SESSION_CREATED")
ImplementsSessionLog == Abstract!Spec

(* What a transaction sees replays, and every row it staged was legal      *)
(* after everything before it.                                             *)
VisibleReplays ==
  \A w \in Writers : /\ Fold(Visible(w)) \in SessionState
                     /\ Fold(Visible(w)).state # EMPTY
                     /\ Abstract!LegalFrom(Visible(w), Len(log))

(* The inductive invariant behind the theorems about the log.              *)
LInv == /\ TypeOK
        /\ StagedRowsAreNext
        /\ DecidedOnHead
        /\ VisibleReplays
        /\ Fold(log) \in SessionState
        /\ projection = Fold(log).state
=============================================================================
