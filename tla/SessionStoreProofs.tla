------------------------- MODULE SessionStoreProofs -------------------------
(***************************************************************************)
(* Proofs about where a session is kept: that the transactions on one log  *)
(* keep their promises, for every number of writers, batch size and log    *)
(* length; and that Redis and its readers only ever see that log, for      *)
(* every number of requests.                                               *)
(***************************************************************************)
EXTENDS MCSessionStore, InterviewLogProofs, SequenceTheorems

-----------------------------------------------------------------------------
(***************************************************************************)
(* The event log.                                                          *)
(***************************************************************************)
(* The events of a transaction's rows.                                     *)
LEMMA EventsType ==
  ASSUME NEW rows \in Seq(Row)
  PROVE  /\ Events(rows) \in Seq(Event)
         /\ Len(Events(rows)) = Len(rows)
         /\ \A i \in 1..Len(rows) : Events(rows)[i] = rows[i].event
<1>1. \A i \in 1..Len(rows) : rows[i] \in Row
  BY ElementOfSeq
<1>2. \A i \in 1..Len(rows) : rows[i].event \in Event
  BY <1>1 DEF Row
<1>3. Len(rows) \in Nat
  OBVIOUS
<1> QED BY <1>2, <1>3 DEF Events

(* One more row is one more event.                                         *)
LEMMA EventsAppend ==
  ASSUME NEW rows \in Seq(Row), NEW n \in Nat, NEW e \in Event
  PROVE  Events(Append(rows, [seq |-> n, event |-> e])) = Append(Events(rows), e)
<1> DEFINE row == [seq |-> n, event |-> e]
<1>1. row \in Row /\ row.event = e
  BY DEF Row
<1> HIDE DEF row
<1>2. Append(rows, row) \in Seq(Row) /\ Len(Append(rows, row)) = Len(rows) + 1
  BY <1>1
<1>3. /\ Events(Append(rows, row)) \in Seq(Event)
      /\ Len(Events(Append(rows, row))) = Len(rows) + 1
      /\ \A i \in 1..(Len(rows) + 1) :
           Events(Append(rows, row))[i] = Append(rows, row)[i].event
  BY <1>2, EventsType
<1>4. /\ Append(Events(rows), e) \in Seq(Event)
      /\ Len(Append(Events(rows), e)) = Len(rows) + 1
  BY EventsType
<1>5. ASSUME NEW i \in 1..(Len(rows) + 1)
      PROVE  Events(Append(rows, row))[i] = Append(Events(rows), e)[i]
  <2>1. CASE i = Len(rows) + 1
    <3>1. Append(rows, row)[i] = row
      BY <1>1, <2>1
    <3>2. Append(Events(rows), e)[i] = e
      BY <2>1, EventsType
    <3> QED BY <1>1, <1>3, <3>1, <3>2
  <2>2. CASE i \in 1..Len(rows)
    <3>1. Append(rows, row)[i] = rows[i]
      BY <1>1, <2>2
    <3>2. Append(Events(rows), e)[i] = rows[i].event
      BY <2>2, EventsType
    <3> QED BY <1>3, <3>1, <3>2
  <2>3. i = Len(rows) + 1 \/ i \in 1..Len(rows)
    <3>1. Len(rows) \in Nat
      OBVIOUS
    <3> QED BY <3>1
  <2> QED BY <2>1, <2>2, <2>3
<1>6. Events(Append(rows, row)) = Append(Events(rows), e)
  <2> DEFINE x == Events(Append(rows, row))
             y == Append(Events(rows), e)
  <2>1. /\ x \in Seq(Event) /\ y \in Seq(Event)
        /\ Len(x) = Len(y)
        /\ \A i \in 1..Len(x) : x[i] = y[i]
    BY <1>3, <1>4, <1>5
  <2> HIDE DEF x, y
  <2>2. x = y
    BY <2>1, SeqEqual
  <2> QED BY <2>2 DEF x, y
<1> QED BY <1>6 DEF row

(* A log extended by a legal event is legal where it was, and there too.   *)
LEMMA LegalAppend ==
  ASSUME NEW events \in Seq(Event), NEW e \in Event, NEW n \in Nat,
         Abstract!LegalFrom(events, n), Accepts(Fold(events), e)
  PROVE  Abstract!LegalFrom(Append(events, e), n)
<1> DEFINE longer == Append(events, e)
<1>1. Len(events) \in Nat /\ Len(longer) = Len(events) + 1
  OBVIOUS
<1>2. ASSUME NEW i \in 1..Len(longer), i > n
      PROVE  Accepts(Fold(Abstract!Prefix(longer, i - 1)), longer[i])
  <2>1. CASE i = Len(events) + 1
    <3>1. SubSeq(longer, 1, i - 1) = events /\ longer[i] = e
      BY <2>1
    <3> HIDE DEF longer
    <3> QED BY <3>1 DEF Abstract!Prefix
  <2>2. CASE i \in 1..Len(events)
    <3>1. SubSeq(longer, 1, i - 1) = SubSeq(events, 1, i - 1)
      BY <2>2
    <3>2. longer[i] = events[i]
      BY <2>2
    <3>3. Accepts(Fold(SubSeq(events, 1, i - 1)), events[i])
      BY <1>2, <2>2 DEF Abstract!LegalFrom, Abstract!Prefix
    <3> HIDE DEF longer
    <3> QED BY <3>1, <3>2, <3>3 DEF Abstract!Prefix
  <2> QED BY <1>1, <2>1, <2>2
<1> QED BY <1>2 DEF Abstract!LegalFrom

(* A log followed by staged rows is a sequence of events.                  *)
LEMMA LogAndRows ==
  ASSUME NEW events \in Seq(Event), NEW rows \in Seq(Row)
  PROVE  /\ events \o Events(rows) \in Seq(Event)
         /\ Len(events \o Events(rows)) = Len(events) + Len(rows)
         /\ SubSeq(events \o Events(rows), 1, Len(events)) = events
         /\ rows = <<>> => events \o Events(rows) = events
<1>1. Events(rows) \in Seq(Event) /\ Len(Events(rows)) = Len(rows)
  BY EventsType
<1>2. \A x, y \in Seq(Event) : /\ x \o y \in Seq(Event)
                               /\ Len(x \o y) = Len(x) + Len(y)
                               /\ SubSeq(x \o y, 1, Len(x)) = x
                               /\ Len(y) = 0 => x \o y = x
  OBVIOUS
<1>3. rows = <<>> => Len(rows) = 0
  OBVIOUS
<1> DEFINE y == Events(rows)
<1>4. y \in Seq(Event) /\ Len(y) = Len(rows)
  BY <1>1
<1> HIDE DEF y
<1>5. /\ events \o y \in Seq(Event)
      /\ Len(events \o y) = Len(events) + Len(rows)
      /\ SubSeq(events \o y, 1, Len(events)) = events
      /\ rows = <<>> => events \o y = events
  BY <1>2, <1>3, <1>4
<1> QED BY <1>5 DEF y

(* What a writer sees starts with the log.                                 *)
LEMMA VisibleType ==
  ASSUME TypeOK, NEW w \in Writers
  PROVE  /\ txn[w].staged \in Seq(Row) /\ log \in Seq(Event)
         /\ Visible(w) \in Seq(Event)
         /\ Len(Visible(w)) = Len(log) + Len(txn[w].staged)
         /\ Abstract!Prefix(Visible(w), Len(log)) = log
         /\ txn[w].staged = <<>> => Visible(w) = log
<1>1. txn[w].staged \in Seq(Row) /\ log \in Seq(Event)
  BY DEF TypeOK, Txn
<1> QED BY <1>1, LogAndRows DEF Visible, Abstract!Prefix

(* A transaction that ends takes its rows and its lock with it, and leaves *)
(* everyone else's view as it was.                                         *)
LEMMA EndType ==
  ASSUME LInv, NEW w \in Writers,
         txn' = [txn EXCEPT ![w] = NoTxn], Release(w)
  PROVE  /\ txn' \in [Writers -> Txn]
         /\ lock' \in Writers \cup {NoWriter}
         /\ txn'[w] = NoTxn
         /\ \A v \in Writers : v # w => txn'[v] = txn[v]
         /\ \A v \in Writers : txn'[v].phase = "locked" => lock' = v
<1>1. NoTxn \in Txn
  <2>1. <<>> \in Seq(Row)
    OBVIOUS
  <2> QED BY <2>1 DEF NoTxn, Txn
<1>2. txn \in [Writers -> Txn] /\ lock \in Writers \cup {NoWriter}
  BY DEF LInv, TypeOK
<1>3. /\ txn' \in [Writers -> Txn]
      /\ txn'[w] = NoTxn
      /\ \A v \in Writers : v # w => txn'[v] = txn[v]
  BY <1>1, <1>2
<1>4. lock' \in Writers \cup {NoWriter}
  BY <1>2 DEF Release
<1>5. ASSUME NEW v \in Writers, txn'[v].phase = "locked"
      PROVE  lock' = v
  <2>1. v # w
    BY <1>3, <1>5 DEF NoTxn
  <2>2. lock = v
    BY <1>3, <1>5, <2>1 DEF LInv, StagedRowsAreNext
  <2> QED BY <2>1, <2>2 DEF Release
<1> QED BY <1>3, <1>4, <1>5

(* Locking exposes no row: what a fresh lock holder sees is the log.       *)
LEMMA VisibleOfUnstaged ==
  ASSUME LInv
  PROVE  Abstract!LegalFrom(log, Len(log))
<1>1. Len(log) \in Nat
  BY DEF LInv, TypeOK
<1> QED BY <1>1 DEF Abstract!LegalFrom

(* The initial state.                                                      *)
LEMMA InitLInv == Init => LInv
<1> SUFFICES ASSUME Init PROVE LInv
  OBVIOUS
<1> DEFINE created == Plain("SESSION_CREATED")
<1>1. created \in Event /\ created.type = "SESSION_CREATED"
  BY Constructors, EventTypes
<1>2. log = <<created>> /\ log \in Seq(Event) /\ Len(log) = 1
  BY <1>1 DEF Init
<1>3. Accepts(Initial, created)
  BY <1>1 DEF Accepts, Initial, Transitions, EMPTY
<1> HIDE DEF created
<1>4. Fold(log) = Apply(Initial, created)
  BY <1>1, <1>2, FoldOne
<1>5. Fold(log) \in SessionState /\ Fold(log).state \in InterviewState
  BY <1>1, <1>3, <1>4, InitialType, ApplyType, ApplyLeavesEmpty
<1>6. NoTxn \in Txn
  <2>1. <<>> \in Seq(Row)
    OBVIOUS
  <2> QED BY <2>1 DEF NoTxn, Txn
<1>7. TypeOK
  BY <1>2, <1>5, <1>6 DEF Init, TypeOK
<1>8. \A w \in Writers : txn[w] = NoTxn
  BY DEF Init
<1>9. ASSUME NEW w \in Writers
      PROVE  Visible(w) = log
  BY <1>7, <1>8, VisibleType DEF NoTxn
<1>10. VisibleReplays
  <2>1. "EMPTY" \notin InterviewState
    BY DEF InterviewState
  <2>2. Abstract!LegalFrom(log, Len(log))
    BY <1>2 DEF Abstract!LegalFrom
  <2> QED BY <1>5, <1>9, <2>1, <2>2 DEF VisibleReplays, EMPTY
<1>11. StagedRowsAreNext /\ DecidedOnHead
  BY <1>8 DEF StagedRowsAreNext, DecidedOnHead, NoTxn
<1> QED BY <1>5, <1>7, <1>10, <1>11 DEF LInv, Init


(* A step that leaves log, projection and every staged row alone keeps     *)
(* what was said of them.                                                  *)
LEMMA SameRows ==
  ASSUME LInv, log' = log, projection' = projection,
         \A v \in Writers : txn'[v].staged = txn[v].staged
  PROVE  /\ VisibleReplays'
         /\ Fold(log)' \in SessionState
         /\ projection' = Fold(log)'.state
         /\ projection' \in InterviewState
         /\ log' \in Seq(Event) /\ log' # <<>>
<1>1. \A v \in Writers : Visible(v)' = Visible(v)
  BY DEF Visible
<1>2. VisibleReplays'
  BY <1>1 DEF LInv, VisibleReplays, Abstract!LegalFrom, Abstract!Prefix
<1> QED BY <1>2 DEF LInv, TypeOK

(* A transaction that begins keeps the invariant.                          *)
LEMMA BeginStep ==
  ASSUME LInv, NEW w \in Writers, Begin(w)
  PROVE  LInv'
<1>1. txn \in [Writers -> Txn] /\ lock \in Writers \cup {NoWriter}
  BY DEF LInv, TypeOK
<1>2. txn[w].phase = "idle" /\ txn[w].staged = <<>>
  BY DEF Begin, LInv, StagedRowsAreNext
<1>3. PICK expected \in {NoSeq, HeadSeq} :
        txn' = [txn EXCEPT ![w] = [NoTxn EXCEPT !.phase = "begun", !.expected = expected]]
  BY DEF Begin
<1> DEFINE begun == [NoTxn EXCEPT !.phase = "begun", !.expected = expected]
<1>4. begun \in Txn /\ begun.phase = "begun" /\ begun.staged = <<>>
  <2>1. Len(log) \in Nat /\ Len(log) # 0
    BY DEF LInv, TypeOK
  <2>2. expected \in Nat \cup {NoSeq}
    BY <1>3, <2>1 DEF HeadSeq
  <2>3. <<>> \in Seq(Row)
    OBVIOUS
  <2> QED BY <2>2, <2>3 DEF NoTxn, Txn
<1> HIDE DEF begun
<1>5. /\ txn' \in [Writers -> Txn]
      /\ txn'[w] = begun
      /\ \A v \in Writers : v # w => txn'[v] = txn[v]
  BY <1>1, <1>3, <1>4 DEF begun
<1>6. log' = log /\ projection' = projection /\ lock' = lock
  BY DEF Begin
<1>7. \A v \in Writers : txn'[v].staged = txn[v].staged
  BY <1>2, <1>4, <1>5
<1>8. TypeOK'
  BY <1>1, <1>5, <1>6, <1>7, SameRows DEF TypeOK
<1>9. StagedRowsAreNext'
  <2>1. StagedRowsAreNext
    BY DEF LInv
  <2> QED BY <1>2, <1>4, <1>5, <1>6, <1>7, <2>1 DEF StagedRowsAreNext
<1>10. DecidedOnHead'
  <2>1. DecidedOnHead
    BY DEF LInv
  <2> QED BY <1>4, <1>5, <1>6, <2>1 DEF DecidedOnHead, HeadSeq
<1> QED BY <1>6, <1>7, <1>8, <1>9, <1>10, SameRows DEF LInv

(* Taking the lock keeps the invariant.                                    *)
LEMMA LockStep ==
  ASSUME LInv, NEW w \in Writers, LockSession(w)
  PROVE  LInv'
<1>1. txn \in [Writers -> Txn]
  BY DEF LInv, TypeOK
<1>2. txn[w].phase = "begun" /\ lock = NoWriter /\ lock' = w
  BY DEF LockSession
<1>3. log' = log /\ projection' = projection
  BY DEF LockSession
<1>4. /\ txn' \in [Writers -> Txn]
      /\ txn'[w] = [txn[w] EXCEPT !.phase = "locked"]
      /\ \A v \in Writers : v # w => txn'[v] = txn[v]
  <2>1. txn[w] \in Txn
    BY <1>1
  <2>2. [txn[w] EXCEPT !.phase = "locked"] \in Txn
    BY <2>1 DEF Txn
  <2>3. txn' = [txn EXCEPT ![w] = [txn[w] EXCEPT !.phase = "locked"]]
    BY DEF LockSession
  <2> QED BY <1>1, <2>2, <2>3
<1>5. /\ \A v \in Writers : txn'[v].staged = txn[v].staged
      /\ \A v \in Writers : txn'[v].expected = txn[v].expected
      /\ txn'[w].phase = "locked"
  <2>1. txn[w] \in Txn
    BY <1>1
  <2>2. /\ txn'[w].staged = txn[w].staged
        /\ txn'[w].expected = txn[w].expected
        /\ txn'[w].phase = "locked"
    BY <1>4, <2>1 DEF Txn
  <2> QED BY <1>4, <2>2
<1>6. TypeOK'
  BY <1>2, <1>3, <1>4, <1>5, SameRows DEF TypeOK
<1>7. \A v \in Writers : txn[v].phase # "locked" /\ txn[v].staged = <<>>
  BY <1>2, WriterAssumption DEF LInv, StagedRowsAreNext
<1>8. StagedRowsAreNext'
  <2>1. ASSUME NEW v \in Writers
        PROVE  /\ txn'[v].phase = "locked" => lock' = v
               /\ txn'[v].staged = <<>>
    BY <1>2, <1>4, <1>5, <1>7
  <2> QED BY <2>1 DEF StagedRowsAreNext
<1>9. DecidedOnHead'
  BY <1>5, <1>7 DEF DecidedOnHead
<1> QED BY <1>3, <1>5, <1>6, <1>8, <1>9, SameRows DEF LInv


(* Staging a decision keeps the invariant.                                 *)
LEMMA StageStep ==
  ASSUME LInv, NEW w \in Writers, NEW e \in Validated, StageAppend(w, e)
  PROVE  LInv'
<1>1. /\ txn \in [Writers -> Txn] /\ txn[w] \in Txn
      /\ log \in Seq(Event) /\ Len(log) \in Nat /\ log # <<>>
  BY DEF LInv, TypeOK
<1>2. e \in Event
  BY ValidatedEvents
<1>3. log' = log /\ projection' = projection /\ lock' = lock
  BY DEF StageAppend
<1>4. txn[w].phase = "locked" /\ lock = w /\ Accepts(Fold(Visible(w)), e)
  BY DEF StageAppend, LInv, StagedRowsAreNext
<1> DEFINE rows == txn[w].staged
           row  == [seq |-> Len(Visible(w)), event |-> e]
<1>5. /\ rows \in Seq(Row) /\ Visible(w) \in Seq(Event)
      /\ Len(Visible(w)) = Len(log) + Len(rows) /\ Len(rows) \in Nat
  BY <1>1, VisibleType DEF LInv, Txn
<1>6. row \in Row /\ row.seq = Len(log) + Len(rows)
  BY <1>1, <1>2, <1>5 DEF Row
<1>7. Append(rows, row) \in Seq(Row)
  BY <1>5, <1>6, AppendProperties
<1>8. /\ txn' \in [Writers -> Txn]
      /\ txn'[w] = [txn[w] EXCEPT !.staged = Append(rows, row)]
      /\ \A v \in Writers : v # w => txn'[v] = txn[v]
  <2>1. [txn[w] EXCEPT !.staged = Append(rows, row)] \in Txn
    BY <1>1, <1>7 DEF Txn
  <2>2. txn' = [txn EXCEPT ![w] = [txn[w] EXCEPT !.staged = Append(rows, row)]]
    BY DEF StageAppend
  <2> HIDE DEF row, rows
  <2> QED BY <1>1, <2>1, <2>2
<1>9. /\ txn'[w].staged = Append(rows, row)
      /\ txn'[w].phase = "locked"
      /\ txn'[w].expected = txn[w].expected
  <2> HIDE DEF row, rows
  <2> QED BY <1>1, <1>4, <1>8 DEF Txn
<1>10. ASSUME NEW v \in Writers, v # w
       PROVE  txn[v].phase # "locked" /\ txn[v].staged = <<>>
  BY <1>4, <1>10 DEF LInv, StagedRowsAreNext
<1>11. Visible(w)' = Append(Visible(w), e)
  <2>1. Events(Append(rows, row)) = Append(Events(rows), e)
    BY <1>1, <1>2, <1>5, EventsAppend
  <2>2. \A x, y \in Seq(Event) : x \o Append(y, e) = Append(x \o y, e)
    BY <1>2
  <2>3. Events(rows) \in Seq(Event)
    BY <1>5, EventsType
  <2>4. Visible(w)' = log \o Events(Append(rows, row))
    BY <1>3, <1>9 DEF Visible
  <2>5. Visible(w) = log \o Events(rows)
    BY DEF Visible
  <2> HIDE DEF row, rows
  <2> QED BY <1>1, <2>1, <2>2, <2>3, <2>4, <2>5
<1>12. \A v \in Writers : v # w => Visible(v)' = Visible(v)
  BY <1>3, <1>8 DEF Visible
<1>13. VisibleReplays'
  <2>1. /\ Fold(Visible(w)) \in SessionState
        /\ Abstract!LegalFrom(Visible(w), Len(log))
    BY DEF LInv, VisibleReplays
  <2>2. /\ Fold(Append(Visible(w), e)) = Apply(Fold(Visible(w)), e)
        /\ Fold(Append(Visible(w), e)) \in SessionState
    BY <1>2, <1>4, <1>5, <2>1, FoldAppend, FoldAppendType
  <2>3. Fold(Append(Visible(w), e)).state # EMPTY
    BY <1>2, <1>4, <2>1, <2>2, ApplyLeavesEmpty DEF InterviewState, EMPTY
  <2>4. Abstract!LegalFrom(Append(Visible(w), e), Len(log))
    BY <1>1, <1>2, <1>4, <1>5, <2>1, LegalAppend
  <2>5. ASSUME NEW v \in Writers
        PROVE  /\ Fold(Visible(v)') \in SessionState
               /\ Fold(Visible(v)').state # EMPTY
               /\ Abstract!LegalFrom(Visible(v)', Len(log))
    <3>1. CASE v = w
      BY <1>11, <2>2, <2>3, <2>4, <3>1
    <3>2. CASE v # w
      BY <1>12, <3>2 DEF LInv, VisibleReplays
    <3> QED BY <3>1, <3>2
  <2> QED BY <1>3, <2>5 DEF VisibleReplays, Abstract!LegalFrom, Abstract!Prefix
<1>14. TypeOK'
  BY <1>3, <1>8 DEF LInv, TypeOK
<1>15. StagedRowsAreNext'
  <2>1. ASSUME NEW i \in 1..Len(Append(rows, row))
        PROVE  Append(rows, row)[i] .seq = Len(log) + i - 1
    <3>1. Len(Append(rows, row)) = Len(rows) + 1
      BY <1>5, <1>6, AppendProperties
    <3>2. CASE i = Len(rows) + 1
      <4>1. Append(rows, row)[i] = row
        BY <1>5, <1>6, <3>2, AppendProperties
      <4> HIDE DEF row, rows
      <4> QED BY <1>1, <1>5, <1>6, <3>2, <4>1
    <3>3. CASE i \in 1..Len(rows)
      <4>1. Append(rows, row)[i] = rows[i]
        BY <1>5, <1>6, <3>3, AppendProperties
      <4>2. rows[i].seq = Len(log) + i - 1
        BY <3>3 DEF LInv, StagedRowsAreNext
      <4> QED BY <4>1, <4>2
    <3>4. i = Len(rows) + 1 \/ i \in 1..Len(rows)
      <4> HIDE DEF rows
      <4> QED BY <1>5, <3>1
    <3> QED BY <3>2, <3>3, <3>4
  <2> HIDE DEF row, rows
  <2>2. ASSUME NEW v \in Writers
        PROVE  /\ txn'[v].phase = "locked" => lock' = v
               /\ txn'[v].staged # <<>> => txn'[v].phase = "locked"
               /\ \A i \in 1..Len(txn'[v].staged) : txn'[v].staged[i].seq = Len(log') + i - 1
    <3>1. CASE v = w
      BY <1>3, <1>4, <1>9, <2>1, <3>1
    <3>2. CASE v # w
      <4>1. txn'[v] = txn[v]
        BY <1>8, <3>2
      <4> QED BY <1>3, <4>1 DEF LInv, StagedRowsAreNext
    <3> QED BY <3>1, <3>2
  <2> QED BY <2>2 DEF StagedRowsAreNext
<1>16. DecidedOnHead'
  <2>1. txn[w].expected \in {NoSeq, HeadSeq}
    BY DEF StageAppend, LInv, DecidedOnHead
  <2>2. ASSUME NEW v \in Writers, txn'[v].staged # <<>>
        PROVE  txn'[v].expected \in {NoSeq, HeadSeq}
    <3>1. v = w
      BY <1>8, <1>10, <2>2
    <3> QED BY <1>9, <2>1, <3>1
  <2> QED BY <1>3, <2>2 DEF DecidedOnHead, HeadSeq
<1> QED BY <1>3, <1>13, <1>14, <1>15, <1>16 DEF LInv, TypeOK


(* A commit is one decision of the abstract log.                           *)
LEMMA CommitDecides ==
  ASSUME LInv, NEW w \in Writers, Commit(w)
  PROVE  /\ Abstract!Decide
         /\ log' = Visible(w) /\ log' \in Seq(Event) /\ log' # <<>>
         /\ projection' \in InterviewState
<1>1. /\ log' = Visible(w)
      /\ projection' = Fold(Visible(w)).state
      /\ txn[w].staged # <<>>
  BY DEF Commit
<1>2. /\ txn[w].staged \in Seq(Row) /\ log \in Seq(Event)
      /\ Visible(w) \in Seq(Event)
      /\ Len(Visible(w)) = Len(log) + Len(txn[w].staged)
      /\ Abstract!Prefix(Visible(w), Len(log)) = log
  BY VisibleType DEF LInv
<1>3. Len(txn[w].staged) \in Nat \ {0} /\ Len(log) \in Nat
  BY <1>1, <1>2, EmptySeq
<1>4. Len(Visible(w)) > Len(log)
  BY <1>2, <1>3
<1>5. /\ Fold(Visible(w)) \in SessionState
      /\ Fold(Visible(w)).state # EMPTY
      /\ Abstract!LegalFrom(Visible(w), Len(log))
  BY DEF LInv, VisibleReplays
<1>6. Abstract!Decide
  BY <1>1, <1>2, <1>4, <1>5 DEF Abstract!Decide
<1>7. Visible(w) # <<>>
  BY <1>2, <1>3, <1>4, EmptySeq
<1>8. projection' \in InterviewState
  BY <1>1, <1>5 DEF SessionState
<1> QED BY <1>1, <1>2, <1>6, <1>7, <1>8

(* A commit keeps the invariant.                                           *)
LEMMA CommitStep ==
  ASSUME LInv, NEW w \in Writers, Commit(w)
  PROVE  LInv'
<1>1. txn' = [txn EXCEPT ![w] = NoTxn] /\ Release(w)
  BY DEF Commit
<1>2. /\ txn' \in [Writers -> Txn]
      /\ lock' \in Writers \cup {NoWriter}
      /\ txn'[w] = NoTxn
      /\ \A v \in Writers : v # w => txn'[v] = txn[v]
      /\ \A v \in Writers : txn'[v].phase = "locked" => lock' = v
  BY <1>1, EndType
<1>3. \A v \in Writers : txn'[v].staged = <<>>
  <2>1. lock = w
    BY DEF Commit, LInv, StagedRowsAreNext
  <2>2. ASSUME NEW v \in Writers, v # w
        PROVE  txn[v].staged = <<>>
    BY <2>1, <2>2 DEF LInv, StagedRowsAreNext
  <2> QED BY <1>2, <2>2 DEF NoTxn
<1>4. /\ log' = Visible(w) /\ log' \in Seq(Event) /\ log' # <<>>
      /\ projection' \in InterviewState
      /\ projection' = Fold(log').state
      /\ Fold(log') \in SessionState /\ Fold(log').state # EMPTY
  <2>1. Fold(Visible(w)) \in SessionState /\ Fold(Visible(w)).state # EMPTY
    BY DEF LInv, VisibleReplays
  <2> QED BY <2>1, CommitDecides DEF Abstract!Decide
<1>5. ASSUME NEW v \in Writers
      PROVE  Visible(v)' = log'
  <2>1. <<>> \in Seq(Row)
    OBVIOUS
  <2>2. log' \o Events(<<>>) = log'
    BY <1>4, <2>1, LogAndRows
  <2> QED BY <1>3, <2>2 DEF Visible
<1>6. VisibleReplays'
  <2>1. Abstract!LegalFrom(log', Len(log'))
    <3>1. Len(log') \in Nat
      BY <1>4
    <3> QED BY <3>1 DEF Abstract!LegalFrom
  <2>2. ASSUME NEW v \in Writers
        PROVE  /\ Fold(Visible(v)') \in SessionState
               /\ Fold(Visible(v)').state # EMPTY
               /\ Abstract!LegalFrom(Visible(v)', Len(log'))
    BY <1>4, <1>5, <2>1
  <2> QED BY <2>2 DEF VisibleReplays, Abstract!LegalFrom, Abstract!Prefix
<1>7. TypeOK'
  BY <1>2, <1>4 DEF TypeOK
<1>8. StagedRowsAreNext' /\ DecidedOnHead'
  BY <1>2, <1>3 DEF StagedRowsAreNext, DecidedOnHead
<1> QED BY <1>4, <1>6, <1>7, <1>8 DEF LInv

(* A rollback keeps the invariant.                                         *)
LEMMA RollbackStep ==
  ASSUME LInv, NEW w \in Writers, Rollback(w)
  PROVE  LInv'
<1>1. /\ txn' = [txn EXCEPT ![w] = NoTxn] /\ Release(w)
      /\ log' = log /\ projection' = projection
  BY DEF Rollback
<1>2. /\ txn' \in [Writers -> Txn]
      /\ lock' \in Writers \cup {NoWriter}
      /\ txn'[w] = NoTxn /\ txn'[w].staged = <<>>
      /\ \A v \in Writers : v # w => txn'[v] = txn[v]
      /\ \A v \in Writers : txn'[v].phase = "locked" => lock' = v
  BY <1>1, EndType DEF NoTxn
<1>3. log \in Seq(Event) /\ Len(log) \in Nat
  BY DEF LInv, TypeOK
<1>4. /\ Visible(w)' = log
      /\ \A v \in Writers : v # w => Visible(v)' = Visible(v)
  <2>1. <<>> \in Seq(Row)
    OBVIOUS
  <2>2. log \o Events(<<>>) = log
    BY <1>3, <2>1, LogAndRows
  <2> QED BY <1>1, <1>2, <2>2 DEF Visible
<1>5. VisibleReplays'
  <2>1. Fold(log) \in SessionState /\ Fold(log).state # EMPTY
    <3>1. Fold(log).state \in InterviewState
      BY DEF LInv, TypeOK
    <3> QED BY <3>1 DEF LInv, InterviewState, EMPTY
  <2>2. Abstract!LegalFrom(log, Len(log))
    BY VisibleOfUnstaged
  <2>3. ASSUME NEW v \in Writers
        PROVE  /\ Fold(Visible(v)') \in SessionState
               /\ Fold(Visible(v)').state # EMPTY
               /\ Abstract!LegalFrom(Visible(v)', Len(log))
    <3>1. CASE v = w
      BY <1>4, <2>1, <2>2, <3>1
    <3>2. CASE v # w
      BY <1>4, <3>2 DEF LInv, VisibleReplays
    <3> QED BY <3>1, <3>2
  <2> QED BY <1>1, <2>3 DEF VisibleReplays, Abstract!LegalFrom, Abstract!Prefix
<1>6. TypeOK'
  BY <1>1, <1>2 DEF LInv, TypeOK
<1>7. ASSUME NEW v \in Writers
      PROVE  /\ txn'[v].staged # <<>> => txn'[v].phase = "locked"
             /\ \A i \in 1..Len(txn'[v].staged) : txn'[v].staged[i].seq = Len(log') + i - 1
             /\ txn'[v].staged # <<>> => txn'[v].expected \in {NoSeq, Len(log') - 1}
  <2>1. CASE v = w
    BY <1>2, <2>1
  <2>2. CASE v # w
    <3>1. txn'[v] = txn[v]
      BY <1>2, <2>2
    <3> QED BY <1>1, <3>1 DEF LInv, StagedRowsAreNext, DecidedOnHead, HeadSeq
  <2> QED BY <2>1, <2>2
<1>8. StagedRowsAreNext' /\ DecidedOnHead'
  BY <1>2, <1>7 DEF StagedRowsAreNext, DecidedOnHead, HeadSeq
<1> QED BY <1>1, <1>5, <1>6, <1>8 DEF LInv

-----------------------------------------------------------------------------
(* The invariant holds of every number of concurrent transactions.         *)
THEOREM LogInvariance == Spec => []LInv
<1>1. Init => LInv
  BY InitLInv
<1>2. LInv /\ [Next]_vars => LInv'
  <2> SUFFICES ASSUME LInv, [Next]_vars PROVE LInv'
    OBVIOUS
  <2>1. ASSUME NEW w \in Writers, Transaction(w)
        PROVE  LInv'
    BY <2>1, BeginStep, LockStep, StageStep, CommitStep, RollbackStep DEF Transaction
  <2>2. CASE UNCHANGED vars
    BY <2>2 DEF vars, LInv, TypeOK, StagedRowsAreNext, DecidedOnHead, VisibleReplays,
                HeadSeq, Visible, Abstract!LegalFrom, Abstract!Prefix
  <2> QED BY <2>1, <2>2 DEF Next
<1> QED BY <1>1, <1>2, PTL DEF Spec

(* The session lock makes the unique constraint a backstop that is never   *)
(* reached (store.py, stage_append), whatever the number of writers.       *)
THEOREM SeqNeverConflicts == Spec => []StagedRowsAreNext
<1>1. LInv => StagedRowsAreNext
  BY DEF LInv
<1> QED BY <1>1, LogInvariance, PTL

(* A decision made on a state its caller read is never staged on another   *)
(* (store.py, expected_seq).                                               *)
THEOREM DecisionsAreFresh == Spec => []DecidedOnHead
<1>1. LInv => DecidedOnHead
  BY DEF LInv
<1> QED BY <1>1, LogInvariance, PTL

(* Locking, staging, committing and rolling back implement the abstract    *)
(* log: it only grows, by whole decisions, each legal where it stands, and *)
(* the projection is what the log replays to.                              *)
THEOREM Refinement == Spec => ImplementsSessionLog
<1>1. Init => Abstract!Init
  BY DEF Init, Abstract!Init
<1>2. LInv /\ [Next]_vars => [Abstract!Decide]_<<log, projection>>
  <2> SUFFICES ASSUME LInv, [Next]_vars
               PROVE  [Abstract!Decide]_<<log, projection>>
    OBVIOUS
  <2>1. ASSUME NEW w \in Writers, Commit(w)
        PROVE  Abstract!Decide
    BY <2>1, CommitDecides
  <2>2. ASSUME NEW w \in Writers, Transaction(w), ~Commit(w)
        PROVE  UNCHANGED <<log, projection>>
    BY <2>2 DEF Transaction, Begin, LockSession, StageAppend, Rollback
  <2>3. CASE UNCHANGED vars
    BY <2>3 DEF vars
  <2> QED BY <2>1, <2>2, <2>3 DEF Next
<1> QED BY <1>1, <1>2, LogInvariance, PTL DEF Spec, ImplementsSessionLog, Abstract!Spec

-----------------------------------------------------------------------------
(***************************************************************************)
(* The session cache.  The argument is about copies: a copy of a session's *)
(* state is true when it is the fold of a prefix of the committed log.     *)
(* Every copy there is - in Redis, in a command under way, in a request    *)
(* that will store, replace or return it - is true until the database is   *)
(* restored, because the log only grows until then, and a copy is made     *)
(* from nothing but the log.                                               *)
(***************************************************************************)
(* A log is well-formed when each of its prefixes folds to a state.        *)
GoodLog(events) ==
  /\ events \in Seq(Event) /\ events # <<>>
  /\ \A n \in 1..Len(events) : Fold(SubSeq(events, 1, n)) \in SessionState

(* A copy of the state one prefix of a log folds to.                       *)
CopyOf(copy, events) ==
  /\ copy.seq \in 0..(Len(events) - 1)
  /\ copy = Folded(SubSeq(events, 1, copy.seq + 1))

Reading(r) == r.pc \in {"get", "invalidate", "rebuild"}
Holding(r) == r.pc \in {"store", "replace", "returned"}

(* A request's part of the invariant, given the log.  What a writer staged *)
(* continues the log by one event.  A reader's head is behind the log, and *)
(* so is what it holds; what it holds is not behind its head.              *)
Sound(r, events) ==
  /\ r.pc = "staged" => /\ r.writes
                        /\ \E e \in Event : r.events = Append(events, e)
                        /\ GoodLog(r.events)
                        /\ r.copy = Folded(r.events)
  /\ Reading(r) => ~r.writes /\ r.head <= Len(events) - 1
  /\ Holding(r) => r.copy.seq \in 0..(Len(events) - 1)
  /\ Holding(r) /\ ~r.writes => r.head <= r.copy.seq
  /\ r.pc \in {"replace", "returned"} => ~r.writes

OneStages ==
  \A p, q \in Procs : proc[p].pc = "staged" /\ proc[q].pc = "staged" => p = q

(* Until a restore, every copy is true.                                    *)
CopiesAreTrue ==
  restores = 0 =>
    /\ cache.status = "hit" => CopyOf(cache.copy, committed)
    /\ \A command \in late : command.op = "store" => CopyOf(command.copy, committed)
    /\ \A p \in Procs : Holding(proc[p]) => CopyOf(proc[p].copy, committed)

(* The inductive invariant.                                                *)
CacheInv ==
  /\ CacheTypeOK
  /\ GoodLog(committed)
  /\ OneStages
  /\ \A p \in Procs : Sound(proc[p], committed)
  /\ \A command \in late : command.op = "store" => command.copy.seq \in Nat
  /\ CopiesAreTrue
-----------------------------------------------------------------------------
(* A session starts with a well-formed log.                                *)
LEMMA GoodStart == GoodLog(<<Plain("SESSION_CREATED")>>)
<1> DEFINE e == Plain("SESSION_CREATED")
<1>1. e \in Event /\ e.type = "SESSION_CREATED"
  BY Constructors, EventTypes
<1>2. Initial \in SessionState
  BY InitialType
<1>3. Accepts(Initial, e)
  BY <1>1 DEF Accepts, Initial, Transitions
<1>4. Apply(Initial, e) \in SessionState
  BY <1>1, <1>2, <1>3, ApplyType
<1> HIDE DEF e
<1>5. Fold(<<e>>) \in SessionState
  BY <1>1, <1>4, FoldOne
<1>6. <<e>> \in Seq(Event) /\ Len(<<e>>) = 1 /\ <<e>> # <<>>
  BY <1>1
<1>7. SubSeq(<<e>>, 1, 1) = <<e>>
  BY <1>6, SubSeqFull
<1> DEFINE first == <<e>>
<1>8. /\ first \in Seq(Event) /\ first # <<>> /\ Len(first) = 1
      /\ SubSeq(first, 1, 1) = first /\ Fold(first) \in SessionState
  BY <1>5, <1>6, <1>7
<1> HIDE DEF first
<1>9. GoodLog(first)
  <2>1. \A n \in 1..Len(first) : n = 1
    BY <1>8
  <2> QED BY <1>8, <2>1 DEF GoodLog
<1> QED BY <1>9 DEF first, e

(* A prefix of a first, and of the first with one more event.                  *)
LEMMA PrefixFacts ==
  ASSUME NEW events \in Seq(Event), NEW n \in 1..Len(events)
  PROVE  /\ SubSeq(events, 1, n) \in Seq(Event)
         /\ Len(SubSeq(events, 1, n)) = n
         /\ \A m \in 1..n : SubSeq(SubSeq(events, 1, n), 1, m) = SubSeq(events, 1, m)
         /\ \A e \in Event : SubSeq(Append(events, e), 1, n) = SubSeq(events, 1, n)
  OBVIOUS

(* A well-formed log stays so when an event it accepts follows.            *)
LEMMA GoodAppend ==
  ASSUME NEW events, GoodLog(events), NEW e \in Event, Accepts(Fold(events), e)
  PROVE  GoodLog(Append(events, e))
<1> DEFINE longer == Append(events, e)
<1>1. events \in Seq(Event) /\ Len(events) \in 1..Len(events)
      /\ SubSeq(events, 1, Len(events)) = events
  <2>1. events \in Seq(Event) /\ events # <<>>
    BY DEF GoodLog
  <2>2. Len(events) \in Nat /\ Len(events) # 0
    BY <2>1
  <2> QED BY <2>1, <2>2, SubSeqFull
<1>2. Fold(events) \in SessionState
  BY <1>1 DEF GoodLog
<1>3. Fold(longer) \in SessionState
  BY <1>1, <1>2, FoldAppendType
<1>4. longer \in Seq(Event) /\ longer # <<>> /\ Len(longer) = Len(events) + 1
      /\ SubSeq(longer, 1, Len(longer)) = longer
  BY <1>1, AppendProperties, SubSeqFull
<1>5. ASSUME NEW n \in 1..Len(longer) PROVE Fold(SubSeq(longer, 1, n)) \in SessionState
  <2>1. CASE n = Len(longer)
    <3> HIDE DEF longer
    <3> QED BY <1>3, <1>4, <2>1
  <2>2. CASE n \in 1..Len(events)
    <3>1. SubSeq(longer, 1, n) = SubSeq(events, 1, n)
      BY <1>1, <2>2, PrefixFacts
    <3> QED BY <2>2, <3>1 DEF GoodLog
  <2>3. n = Len(longer) \/ n \in 1..Len(events)
    BY <1>1, <1>4
  <2> QED BY <2>1, <2>2, <2>3
<1> HIDE DEF longer
<1>6. GoodLog(longer)
  BY <1>4, <1>5 DEF GoodLog
<1> QED BY <1>6 DEF longer

(* A backup of a well-formed log is one.                                   *)
LEMMA GoodPrefix ==
  ASSUME NEW events, GoodLog(events), NEW n \in 1..Len(events)
  PROVE  GoodLog(SubSeq(events, 1, n)) /\ Len(SubSeq(events, 1, n)) = n
<1>1. events \in Seq(Event)
  BY DEF GoodLog
<1> DEFINE shorter == SubSeq(events, 1, n)
<1>2. shorter \in Seq(Event) /\ Len(shorter) = n
  BY <1>1, PrefixFacts
<1>3. shorter # <<>>
  BY <1>2
<1>4. ASSUME NEW m \in 1..Len(shorter) PROVE Fold(SubSeq(shorter, 1, m)) \in SessionState
  <2>1. m \in 1..n /\ m \in 1..Len(events)
    BY <1>1, <1>2
  <2>2. SubSeq(shorter, 1, m) = SubSeq(events, 1, m)
    BY <1>1, <2>1, PrefixFacts
  <2> QED BY <2>1, <2>2 DEF GoodLog
<1> HIDE DEF shorter
<1>5. GoodLog(shorter)
  BY <1>2, <1>3, <1>4 DEF GoodLog
<1> QED BY <1>2, <1>5 DEF shorter

(* The fold of a well-formed log is a true copy of it.                     *)
LEMMA FoldedIsCopy ==
  ASSUME NEW events, GoodLog(events)
  PROVE  /\ Folded(events) \in Copy
         /\ Folded(events).seq = Len(events) - 1
         /\ Len(events) - 1 \in Nat
         /\ CopyOf(Folded(events), events)
<1>1. events \in Seq(Event) /\ events # <<>>
  BY DEF GoodLog
<1>2. Len(events) \in Nat /\ Len(events) # 0
  BY <1>1
<1>3. Len(events) \in 1..Len(events) /\ Len(events) - 1 \in Nat
      /\ (Len(events) - 1) + 1 = Len(events)
  BY <1>2
<1>4. SubSeq(events, 1, Len(events)) = events
  BY <1>1, SubSeqFull
<1>5. Fold(events) \in SessionState
  BY <1>3, <1>4 DEF GoodLog
<1>6. Folded(events) \in Copy /\ Folded(events).seq = Len(events) - 1
  BY <1>3, <1>5 DEF Folded, Copy
<1>7. Folded(events).seq + 1 = Len(events)
      /\ Folded(events).seq \in 0..(Len(events) - 1)
  BY <1>3, <1>6
<1>8. CopyOf(Folded(events), events)
  BY <1>4, <1>7, Zenon DEF CopyOf
<1> QED BY <1>3, <1>6, <1>8

(* A true copy of a log is a true copy of what the log grows to.           *)
LEMMA CopyOfLonger ==
  ASSUME NEW events \in Seq(Event), NEW e \in Event, NEW copy, CopyOf(copy, events)
  PROVE  CopyOf(copy, Append(events, e))
<1> DEFINE longer == Append(events, e)
           prefix == SubSeq(events, 1, copy.seq + 1)
<1>1. Len(events) \in Nat /\ Len(longer) = Len(events) + 1
  OBVIOUS
<1>2. copy.seq \in 0..(Len(events) - 1) /\ copy = Folded(prefix)
  BY DEF CopyOf
<1>3. copy.seq + 1 \in 1..Len(events)
  BY <1>1, <1>2
<1>4. SubSeq(longer, 1, copy.seq + 1) = prefix
  BY <1>3, PrefixFacts
<1> HIDE DEF longer, prefix
<1>5. copy.seq \in 0..(Len(longer) - 1)
  BY <1>1, <1>2
<1>6. CopyOf(copy, longer)
  BY <1>2, <1>4, <1>5, Zenon DEF CopyOf
<1> QED BY <1>6 DEF longer
-----------------------------------------------------------------------------
(* One request moves and nothing else does but, perhaps, Redis: the parts  *)
(* of the invariant that are about requests.                               *)
LEMMA RequestMoves ==
  ASSUME CacheInv, NEW p \in Procs, NEW r \in Proc, Goto(p, r),
         UNCHANGED <<committed, restores>>,
         Sound(r, committed),
         r.pc = "staged" => \A q \in Procs : proc[q].pc # "staged",
         restores = 0 /\ Holding(r) => CopyOf(r.copy, committed)
  PROVE  /\ proc' \in [Procs -> Proc]
         /\ OneStages'
         /\ \A q \in Procs : Sound(proc'[q], committed')
         /\ restores' = 0 => \A q \in Procs : Holding(proc'[q])
                                => CopyOf(proc'[q].copy, committed')
<1>1. proc \in [Procs -> Proc]
  BY DEF CacheInv, CacheTypeOK
<1>2. \A q \in Procs : proc'[q] = IF q = p THEN r ELSE proc[q]
  BY <1>1 DEF Goto
<1>3. proc' \in [Procs -> Proc]
  BY <1>1 DEF Goto
<1>4. OneStages'
  BY <1>2 DEF OneStages, CacheInv
<1>5. \A q \in Procs : Sound(proc'[q], committed')
  BY <1>2 DEF CacheInv
<1>6. restores' = 0 => \A q \in Procs : Holding(proc'[q]) => CopyOf(proc'[q].copy, committed')
  BY <1>2 DEF CacheInv, CopiesAreTrue
<1> QED BY <1>3, <1>4, <1>5, <1>6

(* A command does something to Redis that keeps the invariant.             *)
LEMMA CommandRuns ==
  ASSUME CacheInv, NEW command \in [op : {"store", "delete"}, copy : Copy],
         command.op = "store" => command.copy.seq \in Nat,
         restores = 0 /\ command.op = "store" => CopyOf(command.copy, committed),
         Run(command)
  PROVE  /\ cache' \in Entry
         /\ cache'.status = "hit" => cache'.copy.seq \in Nat
         /\ restores = 0 /\ cache'.status = "hit" => CopyOf(cache'.copy, committed)
<1>1. cache \in Entry /\ (cache.status = "hit" => cache.copy.seq \in Nat)
      /\ (restores = 0 /\ cache.status = "hit" => CopyOf(cache.copy, committed))
  BY DEF CacheInv, CacheTypeOK, CopiesAreTrue
<1>2. CASE cache' = cache
  BY <1>1, <1>2
<1>3. CASE command.op = "store" /\ cache' = EntryOf(command.copy)
  <2>1. cache' \in Entry /\ cache'.status = "hit" /\ cache'.copy = command.copy
    BY <1>3 DEF EntryOf, Entry
  <2> QED BY <1>3, <2>1
<1>4. CASE cache' = NoEntry
  <2>1. NoEntry \in Entry /\ NoEntry.status = "miss"
    BY InitialType DEF NoEntry, Entry, NoState, Copy
  <2> QED BY <1>4, <2>1
<1> QED BY <1>2, <1>3, <1>4 DEF Run, StoreIfNewer, DeletedEntry

(* A call to Redis, whatever becomes of it, keeps the invariant of the     *)
(* entry and of the commands left behind.                                  *)
LEMMA RedisCall ==
  ASSUME CacheInv, NEW command \in [op : {"store", "delete"}, copy : Copy],
         command.op = "store" => command.copy.seq \in Nat,
         restores = 0 /\ command.op = "store" => CopyOf(command.copy, committed),
         Done(command) \/ Failed \/ TimedOut(command),
         UNCHANGED <<committed, bounds>>
  PROVE  /\ cache' \in Entry
         /\ cache'.status = "hit" => cache'.copy.seq \in Nat
         /\ \A c \in late' : /\ c \in [op : {"store", "delete"}, copy : Copy]
                             /\ c.op = "store" => c.copy.seq \in Nat
         /\ restores' = 0 =>
              /\ cache'.status = "hit" => CopyOf(cache'.copy, committed')
              /\ \A c \in late' : c.op = "store" => CopyOf(c.copy, committed')
<1>1. UNCHANGED <<committed, restores>>
  BY DEF bounds
<1>2. \A c \in late : /\ c \in [op : {"store", "delete"}, copy : Copy]
                      /\ c.op = "store" => c.copy.seq \in Nat
                      /\ restores = 0 /\ c.op = "store" => CopyOf(c.copy, committed)
  BY DEF CacheInv, CacheTypeOK, CopiesAreTrue
<1>3. late' \subseteq late \cup {command}
  BY DEF Done, Failed, TimedOut
<1>4. cache' = cache \/ Run(command)
  BY DEF Done, Failed, TimedOut
<1>5. CASE cache' = cache
  <2>1. cache \in Entry /\ (cache.status = "hit" => cache.copy.seq \in Nat)
        /\ (restores = 0 /\ cache.status = "hit" => CopyOf(cache.copy, committed))
    BY DEF CacheInv, CacheTypeOK, CopiesAreTrue
  <2> QED BY <1>1, <1>2, <1>3, <1>5, <2>1
<1>6. CASE Run(command)
  <2>1. /\ cache' \in Entry
        /\ cache'.status = "hit" => cache'.copy.seq \in Nat
        /\ restores = 0 /\ cache'.status = "hit" => CopyOf(cache'.copy, committed)
    BY <1>6, CommandRuns
  <2> QED BY <1>1, <1>2, <1>3, <2>1
<1> QED BY <1>4, <1>5, <1>6
-----------------------------------------------------------------------------
(* The type invariant, restated for a step of a request.                   *)
LEMMA Assembled ==
  ASSUME cache' \in Entry,
         cache'.status = "hit" => cache'.copy.seq \in Nat,
         \A c \in late' : /\ c \in [op : {"store", "delete"}, copy : Copy]
                          /\ c.op = "store" => c.copy.seq \in Nat,
         restores' = 0 =>
              /\ cache'.status = "hit" => CopyOf(cache'.copy, committed')
              /\ \A c \in late' : c.op = "store" => CopyOf(c.copy, committed'),
         proc' \in [Procs -> Proc], OneStages',
         \A q \in Procs : Sound(proc'[q], committed'),
         restores' = 0 => \A q \in Procs : Holding(proc'[q])
                                => CopyOf(proc'[q].copy, committed'),
         GoodLog(committed'), damage' \in Nat, restores' \in Nat
  PROVE  CacheInv'
<1>1. committed' \in Seq(Event) /\ committed' # <<>>
  BY DEF GoodLog
<1>2. CacheTypeOK'
  BY <1>1 DEF CacheTypeOK
<1>3. CopiesAreTrue'
  BY DEF CopiesAreTrue
<1> QED BY <1>2, <1>3 DEF CacheInv

(* A request moves between two states of its own; nothing else does.       *)
LEMMA RequestAlone ==
  ASSUME CacheInv, NEW p \in Procs, NEW r \in Proc, Goto(p, r),
         UNCHANGED <<committed, cache, late, bounds>>,
         Sound(r, committed),
         r.pc = "staged" => \A q \in Procs : proc[q].pc # "staged",
         restores = 0 /\ Holding(r) => CopyOf(r.copy, committed)
  PROVE  CacheInv'
<1>1. UNCHANGED <<committed, cache, late, damage, restores>>
  BY DEF bounds
<1>2. /\ proc' \in [Procs -> Proc]
      /\ OneStages'
      /\ \A q \in Procs : Sound(proc'[q], committed')
      /\ restores' = 0 => \A q \in Procs : Holding(proc'[q])
                             => CopyOf(proc'[q].copy, committed')
  BY <1>1, RequestMoves
<1>3. /\ cache \in Entry /\ (cache.status = "hit" => cache.copy.seq \in Nat)
      /\ \A c \in late : /\ c \in [op : {"store", "delete"}, copy : Copy]
                         /\ c.op = "store" => c.copy.seq \in Nat
      /\ restores = 0 =>
           /\ cache.status = "hit" => CopyOf(cache.copy, committed)
           /\ \A c \in late : c.op = "store" => CopyOf(c.copy, committed)
      /\ GoodLog(committed) /\ damage \in Nat /\ restores \in Nat
  BY DEF CacheInv, CacheTypeOK, CopiesAreTrue
<1> QED BY <1>1, <1>2, <1>3, Assembled

(* A request calls Redis and moves.                                        *)
LEMMA RequestCalls ==
  ASSUME CacheInv, NEW p \in Procs, NEW r \in Proc, Goto(p, r),
         NEW command \in [op : {"store", "delete"}, copy : Copy],
         command.op = "store" => command.copy.seq \in Nat,
         restores = 0 /\ command.op = "store" => CopyOf(command.copy, committed),
         Done(command) \/ Failed \/ TimedOut(command),
         UNCHANGED <<committed, bounds>>,
         Sound(r, committed),
         r.pc # "staged",
         restores = 0 /\ Holding(r) => CopyOf(r.copy, committed)
  PROVE  CacheInv'
<1>1. UNCHANGED <<committed, damage, restores>>
  BY DEF bounds
<1>2. /\ proc' \in [Procs -> Proc]
      /\ OneStages'
      /\ \A q \in Procs : Sound(proc'[q], committed')
      /\ restores' = 0 => \A q \in Procs : Holding(proc'[q])
                             => CopyOf(proc'[q].copy, committed')
  BY <1>1, RequestMoves
<1>3. GoodLog(committed) /\ damage \in Nat /\ restores \in Nat
  BY DEF CacheInv, CacheTypeOK
<1>4. /\ cache' \in Entry
      /\ cache'.status = "hit" => cache'.copy.seq \in Nat
      /\ \A c \in late' : /\ c \in [op : {"store", "delete"}, copy : Copy]
                          /\ c.op = "store" => c.copy.seq \in Nat
      /\ restores' = 0 =>
           /\ cache'.status = "hit" => CopyOf(cache'.copy, committed')
           /\ \A c \in late' : c.op = "store" => CopyOf(c.copy, committed')
  BY RedisCall
<1> QED BY <1>1, <1>2, <1>3, <1>4, Assembled

(* A request that has ended, or not begun.                                 *)
LEMMA NoProcFacts ==
  /\ NoProc \in Proc /\ NoProc.pc = "idle"
  /\ \A events : Sound(NoProc, events)
  /\ ~Holding(NoProc)
<1>1. NoState \in Copy
  BY InitialType DEF NoState, Copy
<1>2. <<>> \in Seq(Event)
  OBVIOUS
<1>3. NoProc \in Proc /\ NoProc.pc = "idle"
  BY <1>1, <1>2 DEF NoProc, Proc, CachePhase
<1> QED BY <1>3 DEF Sound, Holding, Reading
-----------------------------------------------------------------------------
(* What the invariant says of one request.                                 *)
LEMMA RequestFacts ==
  ASSUME CacheInv, NEW p \in Procs
  PROVE  /\ proc[p] \in Proc /\ Sound(proc[p], committed)
         /\ restores = 0 /\ Holding(proc[p]) => CopyOf(proc[p].copy, committed)
         /\ GoodLog(committed) /\ Len(committed) - 1 \in Nat /\ StoredHead = Len(committed) - 1
  BY FoldedIsCopy DEF CacheInv, CacheTypeOK, CopiesAreTrue, StoredHead

(* Staging events keeps the invariant.                                     *)
LEMMA StageEventsInv ==
  ASSUME CacheInv, NEW p \in Procs, StageEvents(p)
  PROVE  CacheInv'
<1>1. PICK e \in Validated :
        /\ Accepts(Fold(committed), e)
        /\ Goto(p, [NoProc EXCEPT !.pc = "staged", !.writes = TRUE,
                                  !.events = Append(committed, e),
                                  !.copy = Folded(Append(committed, e))])
  BY DEF StageEvents
<1> DEFINE longer == Append(committed, e)
<1>2. e \in Event
  BY ValidatedEvents
<1>3. GoodLog(longer) /\ longer \in Seq(Event)
  <2>1. GoodLog(committed)
    BY DEF CacheInv
  <2> QED BY <1>1, <1>2, <2>1, GoodAppend DEF GoodLog
<1> DEFINE r == [NoProc EXCEPT !.pc = "staged", !.writes = TRUE,
                               !.events = longer, !.copy = Folded(longer)]
<1>4. Goto(p, r) /\ \E x \in Event : longer = Append(committed, x)
  BY <1>1, <1>2
<1> HIDE DEF longer
<1>5. r \in Proc /\ r.pc = "staged" /\ r.writes /\ r.events = longer /\ r.copy = Folded(longer)
  BY <1>3, FoldedIsCopy, NoProcFacts DEF NoProc, Proc, CachePhase
<1> HIDE DEF r
<1>6. Sound(r, committed) /\ ~Holding(r)
  BY <1>3, <1>4, <1>5 DEF Sound, Reading, Holding
<1>7. /\ \A q \in Procs : proc[q].pc # "staged"
      /\ UNCHANGED <<committed, cache, late, bounds>>
  BY DEF StageEvents
<1> QED BY <1>4, <1>5, <1>6, <1>7, RequestAlone

(* A request that stores its copy keeps it.                                *)
LEMMA StoreInv ==
  ASSUME CacheInv, NEW p \in Procs, Store(p)
  PROVE  CacheInv'
<1> DEFINE old == proc[p]
           command == Storing(old.copy)
           r == IF old.writes THEN NoProc ELSE [old EXCEPT !.pc = "returned"]
<1>1. /\ Goto(p, r) /\ UNCHANGED <<committed, bounds>>
      /\ old.pc = "store"
      /\ Done(command) \/ Failed \/ TimedOut(command)
  BY DEF Store, MayStore
<1>2. /\ old \in Proc /\ Sound(old, committed)
      /\ restores = 0 /\ Holding(old) => CopyOf(old.copy, committed)
      /\ Len(committed) - 1 \in Nat
  BY RequestFacts
<1> HIDE DEF old
<1>3. Holding(old) /\ old.copy \in Copy /\ old.copy.seq \in Nat
  BY <1>1, <1>2 DEF Holding, Sound, Proc
<1>4. command \in [op : {"store", "delete"}, copy : Copy] /\ command.copy = old.copy
  BY <1>3 DEF Storing
<1>5. CASE old.writes
  <2>1. r = NoProc
    BY <1>5
  <2> HIDE DEF r, command
  <2> QED BY <1>1, <1>2, <1>3, <1>4, <2>1, NoProcFacts, RequestCalls
<1>6. CASE ~old.writes
  <2>1. /\ r \in Proc /\ r.pc = "returned" /\ r.copy = old.copy
        /\ r.head = old.head /\ r.writes = old.writes
    BY <1>2, <1>6 DEF Proc, CachePhase
  <2> HIDE DEF r, command
  <2>2. Sound(r, committed)
    BY <1>2, <1>3, <1>6, <2>1 DEF Sound, Holding, Reading
  <2> QED BY <1>1, <1>2, <1>3, <1>4, <2>1, <2>2, RequestCalls
<1> QED BY <1>5, <1>6

(* A request that reads the head of the log keeps it.                      *)
LEMMA ReadHeadInv ==
  ASSUME CacheInv, NEW p \in Procs, ReadHead(p)
  PROVE  CacheInv'
<1> DEFINE r == [NoProc EXCEPT !.pc = "get", !.head = StoredHead]
<1>1. Goto(p, r) /\ UNCHANGED <<committed, cache, late, bounds>>
  BY DEF ReadHead
<1>2. StoredHead = Len(committed) - 1 /\ Len(committed) - 1 \in Nat
  BY RequestFacts
<1>3. r \in Proc /\ r.pc = "get" /\ ~r.writes /\ r.head = Len(committed) - 1
  BY <1>2, NoProcFacts DEF NoProc, Proc, CachePhase
<1> HIDE DEF r
<1>4. Sound(r, committed) /\ ~Holding(r)
  BY <1>2, <1>3 DEF Sound, Reading, Holding
<1> QED BY <1>1, <1>3, <1>4, RequestAlone

(* A request that ends keeps it.                                           *)
LEMMA EndInv ==
  ASSUME CacheInv, NEW p \in Procs, End(p)
  PROVE  CacheInv'
  BY NoProcFacts, RequestAlone DEF End

(* A request that reads Redis keeps it.                                    *)
LEMMA GetInv ==
  ASSUME CacheInv, NEW p \in Procs, Get(p)
  PROVE  CacheInv'
<1> DEFINE old == proc[p]
<1>1. old.pc = "get" /\ UNCHANGED <<committed, cache, late, bounds>>
  BY DEF Get
<1>2. old \in Proc /\ Sound(old, committed) /\ Len(committed) - 1 \in Nat
  BY RequestFacts
<1>3. /\ cache \in Entry /\ (cache.status = "hit" => cache.copy.seq \in Nat)
      /\ (restores = 0 /\ cache.status = "hit" => CopyOf(cache.copy, committed))
  BY DEF CacheInv, CacheTypeOK, CopiesAreTrue
<1>4. Reading(old) /\ ~old.writes /\ old.head <= Len(committed) - 1
      /\ old.head \in Nat \cup {NoCachedSeq}
  BY <1>1, <1>2 DEF Reading, Sound, Proc
<1>5. CASE Trusted(p) /\ Goto(p, [proc[p] EXCEPT !.pc = "returned", !.copy = cache.copy])
  <2> DEFINE r == [old EXCEPT !.pc = "returned", !.copy = cache.copy]
  <2>1. Goto(p, r) /\ cache.status = "hit" /\ cache.copy.seq = old.head
    BY <1>5 DEF Trusted
  <2> HIDE DEF old
  <2>2. r \in Proc /\ r.pc = "returned" /\ r.copy = cache.copy
        /\ r.head = old.head /\ r.writes = old.writes
    BY <1>2, <1>3 DEF Proc, CachePhase, Entry
  <2> HIDE DEF r
  <2>3. Sound(r, committed)
    BY <1>2, <1>3, <1>4, <2>1, <2>2 DEF Sound, Reading, Holding
  <2> QED BY <1>1, <1>3, <2>1, <2>2, <2>3, RequestAlone
<1>6. ASSUME NEW r \in Proc, Goto(p, r), r.pc \in {"rebuild", "invalidate"},
             r.head = old.head, r.writes = old.writes
      PROVE  CacheInv'
  <2> HIDE DEF old
  <2>1. Sound(r, committed) /\ ~Holding(r) /\ r.pc # "staged"
    BY <1>4, <1>6 DEF Sound, Reading, Holding
  <2> QED BY <1>1, <1>6, <2>1, RequestAlone
<1>7. CASE cache.status = "hit"
             /\ Goto(p, [proc[p] EXCEPT !.pc = "rebuild", !.cached_seq = cache.copy.seq])
  <2> DEFINE r == [old EXCEPT !.pc = "rebuild", !.cached_seq = cache.copy.seq]
  <2>1. r \in Proc /\ r.pc = "rebuild" /\ r.head = old.head /\ r.writes = old.writes
    BY <1>2, <1>3, <1>7 DEF Proc, CachePhase
  <2>2. Goto(p, r)
    BY <1>7
  <2> QED BY <1>6, <2>1, <2>2
<1>8. ASSUME NEW pc \in {"rebuild", "invalidate"}, Goto(p, [proc[p] EXCEPT !.pc = pc])
      PROVE  CacheInv'
  <2> DEFINE r == [old EXCEPT !.pc = pc]
  <2>1. r \in Proc /\ r.pc = pc /\ r.head = old.head /\ r.writes = old.writes
    BY <1>2 DEF Proc, CachePhase
  <2>2. Goto(p, r)
    BY <1>8
  <2> QED BY <1>6, <2>1, <2>2
<1> QED BY <1>5, <1>7, <1>8 DEF Get

(* A delete command is a command.                                          *)
LEMMA DeletingFacts ==
  Deleting \in [op : {"store", "delete"}, copy : Copy] /\ Deleting.op = "delete"
  BY InitialType DEF Deleting, NoState, Copy

(* Invalidating an entry that cannot be used keeps the invariant.          *)
LEMMA InvalidateInv ==
  ASSUME CacheInv, NEW p \in Procs, Invalidate(p)
  PROVE  CacheInv'
<1> DEFINE old == proc[p]
           r == [old EXCEPT !.pc = "rebuild"]
<1>1. /\ old.pc = "invalidate" /\ Goto(p, r) /\ UNCHANGED <<committed, bounds>>
      /\ Done(Deleting) \/ Failed \/ TimedOut(Deleting)
  BY DEF Invalidate
<1>2. old \in Proc /\ Sound(old, committed)
  BY RequestFacts
<1> HIDE DEF old
<1>3. r \in Proc /\ r.pc = "rebuild" /\ r.head = old.head /\ r.writes = old.writes
  BY <1>2 DEF Proc, CachePhase
<1> HIDE DEF r
<1>4. Sound(r, committed) /\ ~Holding(r)
  BY <1>1, <1>2, <1>3 DEF Sound, Reading, Holding
<1> QED BY <1>1, <1>3, <1>4, DeletingFacts, RequestCalls

(* A rebuild from the log keeps it.                                        *)
LEMMA RebuildInv ==
  ASSUME CacheInv, NEW p \in Procs, Rebuild(p)
  PROVE  CacheInv'
<1> DEFINE old == proc[p]
           pc == IF StoredHead < old.cached_seq THEN "replace" ELSE "store"
           copy == Folded(committed)
           r == [old EXCEPT !.copy = copy, !.pc = pc]
<1>1. old.pc = "rebuild" /\ Goto(p, r) /\ UNCHANGED <<committed, cache, late, bounds>>
  BY DEF Rebuild
<1>2. old \in Proc /\ Sound(old, committed) /\ GoodLog(committed)
  BY RequestFacts
<1>3. /\ copy \in Copy /\ copy.seq = Len(committed) - 1 /\ Len(committed) - 1 \in Nat
      /\ CopyOf(copy, committed)
  BY <1>2, FoldedIsCopy
<1>4. pc \in {"replace", "store"}
  OBVIOUS
<1> HIDE DEF old, copy, pc
<1>5. r \in Proc /\ r.pc = pc /\ r.copy = copy /\ r.head = old.head /\ r.writes = old.writes
  BY <1>2, <1>3, <1>4 DEF Proc, CachePhase
<1> HIDE DEF r
<1>6. Sound(r, committed) /\ r.pc # "staged"
  BY <1>1, <1>2, <1>3, <1>4, <1>5 DEF Sound, Reading, Holding
<1> QED BY <1>1, <1>3, <1>5, <1>6, RequestAlone

(* A replaced entry keeps it.                                              *)
LEMMA ReplaceInv ==
  ASSUME CacheInv, NEW p \in Procs, Replace(p)
  PROVE  CacheInv'
<1> DEFINE old == proc[p]
<1>1. PICK pc \in {"store", "returned"} : Goto(p, [old EXCEPT !.pc = pc])
  BY DEF Replace
<1>2. /\ old.pc = "replace" /\ UNCHANGED <<committed, bounds>>
      /\ Done(Deleting) \/ Failed \/ TimedOut(Deleting)
  BY DEF Replace
<1>3. /\ old \in Proc /\ Sound(old, committed)
      /\ restores = 0 /\ Holding(old) => CopyOf(old.copy, committed)
  BY RequestFacts
<1> DEFINE r == [old EXCEPT !.pc = pc]
<1> HIDE DEF old
<1>4. /\ r \in Proc /\ r.pc = pc /\ r.copy = old.copy
      /\ r.head = old.head /\ r.writes = old.writes
  BY <1>3 DEF Proc, CachePhase
<1>5. Goto(p, r)
  BY <1>1
<1> HIDE DEF r
<1>6. Sound(r, committed) /\ Holding(old) /\ r.pc # "staged"
  BY <1>2, <1>3, <1>4 DEF Sound, Reading, Holding
<1> QED BY <1>2, <1>3, <1>4, <1>5, <1>6, DeletingFacts, RequestCalls

(* A commit is the one step that grows the log: every true copy stays one, *)
(* no request's head is ahead of it, and nobody else has events staged.    *)
LEMMA CommitEventsInv ==
  ASSUME CacheInv, NEW p \in Procs, CommitEvents(p)
  PROVE  CacheInv'
<1> DEFINE old == proc[p]
           r == [old EXCEPT !.pc = "store", !.events = <<>>]
<1>1. /\ old.pc = "staged" /\ Goto(p, r) /\ committed' = old.events
      /\ UNCHANGED <<cache, late, damage, restores>>
  BY DEF CommitEvents, bounds
<1>2. old \in Proc /\ Sound(old, committed) /\ GoodLog(committed)
  BY RequestFacts
<1>3. proc \in [Procs -> Proc] /\ OneStages /\ \A q \in Procs : Sound(proc[q], committed)
  BY DEF CacheInv, CacheTypeOK
<1>4. \A q \in Procs : proc'[q] = IF q = p THEN r ELSE proc[q]
  BY <1>1, <1>3 DEF Goto
<1>5. \A q \in Procs : q # p => proc[q].pc # "staged"
  BY <1>1, <1>3 DEF OneStages
<1> HIDE DEF old
<1>6. PICK e \in Event : old.events = Append(committed, e)
  BY <1>1, <1>2 DEF Sound
<1>7. /\ GoodLog(old.events) /\ old.copy = Folded(old.events) /\ old.writes
  BY <1>1, <1>2 DEF Sound
<1> DEFINE longer == old.events
<1>8. /\ committed \in Seq(Event) /\ Len(committed) \in Nat
      /\ Len(longer) = Len(committed) + 1
  BY <1>2, <1>6 DEF GoodLog
<1>9. \A copy : CopyOf(copy, committed) => CopyOf(copy, longer)
  BY <1>6, <1>8, CopyOfLonger
<1>10. r \in Proc /\ r.pc = "store" /\ r.copy = old.copy /\ r.writes
  <2>1. <<>> \in Seq(Event)
    OBVIOUS
  <2>2. "store" \in CachePhase
    BY DEF CachePhase
  <2> QED BY <1>2, <1>7, <2>1, <2>2 DEF Proc
<1>11. old.copy.seq = Len(longer) - 1 /\ CopyOf(old.copy, longer)
  BY <1>7, FoldedIsCopy
<1> HIDE DEF r, longer
<1>12. Sound(r, longer)
  BY <1>8, <1>10, <1>11 DEF Sound, Reading, Holding
<1>13. ASSUME NEW q \in Procs PROVE Sound(proc'[q], longer)
  <2>1. CASE q = p
    BY <1>4, <1>12, <2>1
  <2>2. CASE q # p
    <3>1. proc'[q] = proc[q] /\ proc[q].pc # "staged" /\ Sound(proc[q], committed)
          /\ proc[q] \in Proc
      BY <1>3, <1>4, <1>5, <2>2
    <3> DEFINE x == proc[q]
    <3>2. x.pc # "staged" /\ Sound(x, committed) /\ x.head \in Int
      BY <3>1 DEF Proc, NoCachedSeq
    <3> HIDE DEF x
    <3>3. Sound(x, longer)
      BY <1>8, <3>2 DEF Sound
    <3> QED BY <3>1, <3>3 DEF x
  <2> QED BY <2>1, <2>2
<1>14. committed' = longer
  BY <1>1 DEF longer
<1>15. OneStages' /\ proc' \in [Procs -> Proc]
  <2>1. \A q \in Procs : proc'[q].pc # "staged"
    BY <1>4, <1>5, <1>10
  <2> QED BY <1>1, <1>3, <1>10, <2>1 DEF OneStages, Goto
<1>16. ASSUME restores = 0, NEW q \in Procs, Holding(proc'[q])
       PROVE  CopyOf(proc'[q].copy, longer)
  <2>1. CASE q = p
    BY <1>4, <1>10, <1>11, <2>1
  <2>2. CASE q # p
    <3>1. Holding(proc[q]) => CopyOf(proc[q].copy, committed)
      BY <1>16 DEF CacheInv, CopiesAreTrue
    <3> QED BY <1>4, <1>9, <1>16, <2>2, <3>1
  <2> QED BY <2>1, <2>2
<1>17. /\ cache \in Entry /\ (cache.status = "hit" => cache.copy.seq \in Nat)
       /\ \A c \in late : /\ c \in [op : {"store", "delete"}, copy : Copy]
                          /\ c.op = "store" => c.copy.seq \in Nat
       /\ restores = 0 =>
            /\ cache.status = "hit" => CopyOf(cache.copy, committed)
            /\ \A c \in late : c.op = "store" => CopyOf(c.copy, committed)
       /\ damage \in Nat /\ restores \in Nat
  BY DEF CacheInv, CacheTypeOK, CopiesAreTrue
<1>18. GoodLog(longer)
  BY <1>7 DEF longer
<1>19. /\ cache' \in Entry
       /\ cache'.status = "hit" => cache'.copy.seq \in Nat
       /\ \A c \in late' : /\ c \in [op : {"store", "delete"}, copy : Copy]
                           /\ c.op = "store" => c.copy.seq \in Nat
       /\ damage' \in Nat /\ restores' \in Nat
  BY <1>1, <1>17
<1>20. restores' = 0 =>
         /\ cache'.status = "hit" => CopyOf(cache'.copy, committed')
         /\ \A c \in late' : c.op = "store" => CopyOf(c.copy, committed')
  BY <1>1, <1>9, <1>14, <1>17
<1>21. restores' = 0 => \A q \in Procs : Holding(proc'[q]) => CopyOf(proc'[q].copy, committed')
  BY <1>1, <1>14, <1>16
<1> QED BY <1>13, <1>14, <1>15, <1>18, <1>19, <1>20, <1>21, Assembled
-----------------------------------------------------------------------------
(* Redis and the operator move; no request does.                           *)
LEMMA RequestsStand ==
  ASSUME CacheInv, UNCHANGED proc
  PROVE  /\ proc' \in [Procs -> Proc] /\ OneStages'
         /\ committed' = committed => \A q \in Procs : Sound(proc'[q], committed')
         /\ committed' = committed /\ restores' = restores =>
              (restores' = 0 => \A q \in Procs : Holding(proc'[q])
                                   => CopyOf(proc'[q].copy, committed'))
  BY DEF CacheInv, CacheTypeOK, CopiesAreTrue, OneStages

(* Whatever Redis and the network do keeps it.                             *)
LEMMA EnvironmentInv ==
  ASSUME CacheInv, RunLate \/ LoseLate \/ Expire \/ Damage
  PROVE  CacheInv'
<1>1. UNCHANGED <<committed, proc, restores>>
  BY DEF RunLate, LoseLate, Expire, Damage, bounds
<1>2. /\ cache \in Entry /\ (cache.status = "hit" => cache.copy.seq \in Nat)
      /\ \A c \in late : /\ c \in [op : {"store", "delete"}, copy : Copy]
                         /\ c.op = "store" => c.copy.seq \in Nat
      /\ restores = 0 =>
           /\ cache.status = "hit" => CopyOf(cache.copy, committed)
           /\ \A c \in late : c.op = "store" => CopyOf(c.copy, committed)
      /\ GoodLog(committed) /\ damage \in Nat /\ restores \in Nat
  BY DEF CacheInv, CacheTypeOK, CopiesAreTrue
<1>3. damage' \in Nat
  BY <1>2 DEF RunLate, LoseLate, Expire, Damage, bounds
<1>4. late' \subseteq late
  BY DEF RunLate, LoseLate, Expire, Damage
<1>5. /\ cache' \in Entry
      /\ cache'.status = "hit" => cache'.copy.seq \in Nat
      /\ restores = 0 /\ cache'.status = "hit" => CopyOf(cache'.copy, committed)
  <2>1. CASE RunLate
    <3>1. PICK c \in late : Run(c)
      BY <2>1 DEF RunLate
    <3> QED BY <1>2, <3>1, CommandRuns
  <2>2. CASE LoseLate
    BY <1>2, <2>2 DEF LoseLate
  <2>3. CASE Expire
    <3>1. NoEntry \in Entry /\ NoEntry.status = "miss"
      BY InitialType DEF NoEntry, Entry, NoState, Copy
    <3> QED BY <2>3, <3>1 DEF Expire
  <2>4. CASE Damage
    <3>1. PICK copy \in {cache.copy, NoState} : cache' = [status |-> "invalid", copy |-> copy]
      BY <2>4 DEF Damage
    <3>2. copy \in Copy
      BY <1>2, InitialType DEF Entry, NoState, Copy
    <3>3. cache' \in Entry /\ cache'.status = "invalid"
      BY <3>1, <3>2 DEF Entry
    <3> QED BY <3>3
  <2> QED BY <2>1, <2>2, <2>3, <2>4
<1>6. /\ proc' \in [Procs -> Proc] /\ OneStages'
      /\ \A q \in Procs : Sound(proc'[q], committed')
      /\ restores' = 0 => \A q \in Procs : Holding(proc'[q])
                             => CopyOf(proc'[q].copy, committed')
  BY <1>1, RequestsStand
<1>7. /\ \A c \in late' : /\ c \in [op : {"store", "delete"}, copy : Copy]
                          /\ c.op = "store" => c.copy.seq \in Nat
      /\ restores' = 0 =>
           /\ cache'.status = "hit" => CopyOf(cache'.copy, committed')
           /\ \A c \in late' : c.op = "store" => CopyOf(c.copy, committed')
      /\ GoodLog(committed') /\ restores' \in Nat
  BY <1>1, <1>2, <1>4, <1>5
<1> QED BY <1>3, <1>5, <1>6, <1>7, Assembled

(* After a restore a copy may be of a log that is no more: what is left of *)
(* the invariant is that the log, and nothing under way, is well-formed.   *)
LEMMA RestoreInv ==
  ASSUME CacheInv, Restore
  PROVE  CacheInv'
<1>1. PICK n \in 1..(Len(committed) - 1) : committed' = SubSeq(committed, 1, n)
  BY DEF Restore
<1>2. /\ late = {} /\ \A p \in Procs : proc[p].pc = "idle"
      /\ restores' = restores + 1 /\ UNCHANGED <<cache, late, proc, damage>>
  BY DEF Restore
<1>3. /\ cache \in Entry /\ (cache.status = "hit" => cache.copy.seq \in Nat)
      /\ GoodLog(committed) /\ damage \in Nat /\ restores \in Nat
  BY DEF CacheInv, CacheTypeOK
<1>4. n \in 1..Len(committed)
  <2>1. Len(committed) - 1 \in Nat
    BY <1>3, FoldedIsCopy
  <2> QED BY <2>1
<1>5. GoodLog(committed')
  BY <1>1, <1>3, <1>4, GoodPrefix
<1>6. \A q \in Procs : Sound(proc'[q], committed')
  <2>1. \A r, events : r.pc = "idle" => Sound(r, events)
    BY DEF Sound, Reading, Holding
  <2> QED BY <1>2, <2>1
<1>7. restores' \in Nat /\ restores' # 0
  BY <1>2, <1>3
<1>8. proc' \in [Procs -> Proc] /\ OneStages'
  BY <1>2, RequestsStand
<1> QED BY <1>2, <1>3, <1>5, <1>6, <1>7, <1>8, Assembled

(* A new session satisfies it.                                             *)
LEMMA InitCacheInv ==
  ASSUME CacheInit
  PROVE  CacheInv
<1>1. GoodLog(committed) /\ committed \in Seq(Event) /\ committed # <<>>
  <2>1. GoodLog(committed)
    BY GoodStart DEF CacheInit
  <2> QED BY <2>1 DEF GoodLog
<1>2. cache \in Entry /\ cache.status = "miss"
  BY InitialType DEF CacheInit, NoEntry, Entry, NoState, Copy
<1>3. proc \in [Procs -> Proc] /\ \A p \in Procs : proc[p] = NoProc
  BY NoProcFacts DEF CacheInit
<1>4. \A p \in Procs : Sound(proc[p], committed) /\ ~Holding(proc[p]) /\ proc[p].pc = "idle"
  BY <1>3, NoProcFacts
<1>5. late = {} /\ damage = 0 /\ restores = 0
  BY DEF CacheInit
<1>6. CacheTypeOK
  BY <1>1, <1>2, <1>3, <1>5 DEF CacheTypeOK
<1>7. OneStages /\ CopiesAreTrue
  BY <1>2, <1>4, <1>5 DEF OneStages, CopiesAreTrue
<1> QED BY <1>1, <1>4, <1>5, <1>6, <1>7 DEF CacheInv

(* Every step keeps it.                                                    *)
LEMMA NextCacheInv ==
  ASSUME CacheInv, [CacheNext]_cacheVars
  PROVE  CacheInv'
<1>1. CASE CacheNext
  <2>1. ASSUME NEW p \in Procs, Request(p) PROVE CacheInv'
    BY <2>1, StageEventsInv, CommitEventsInv, StoreInv, ReadHeadInv, GetInv,
       InvalidateInv, RebuildInv, ReplaceInv, EndInv DEF Request
  <2>2. ASSUME Environment PROVE CacheInv'
    BY <2>2, EnvironmentInv, RestoreInv DEF Environment
  <2> QED BY <1>1, <2>1, <2>2 DEF CacheNext
<1>2. CASE UNCHANGED cacheVars
  BY <1>2 DEF cacheVars, CacheInv, CacheTypeOK, OneStages, CopiesAreTrue
<1> QED BY <1>1, <1>2
-----------------------------------------------------------------------------
(* The invariant holds in every state: whatever requests, commands, crashes *)
(* and restores do, and in whatever order.                                 *)
THEOREM CacheInvariance == CacheSpec => []CacheInv
<1>1. CacheInit => CacheInv
  BY InitCacheInv
<1>2. CacheInv /\ [CacheNext]_cacheVars => CacheInv'
  BY NextCacheInv
<1> QED BY <1>1, <1>2, PTL DEF CacheSpec

(* Redis holds nothing but folds of committed events, and load_state       *)
(* answers with a state no older than the log was when it was asked, and   *)
(* that the log replays to (service.py load_state, commit_events).         *)
THEOREM CacheTruth == CacheSpec => []CacheIsTrue
<1>1. CacheInv => CacheIsTrue
  <2> SUFFICES ASSUME CacheInv PROVE CacheIsTrue
    OBVIOUS
  <2>1. CacheIsCommitted
    BY DEF CacheInv, CopiesAreTrue, CacheIsCommitted, CopyOf, IsPrefixOfLog, StoredHead
  <2>2. ReadIsCurrent
    <3>1. ASSUME NEW p \in Procs, proc[p].pc = "returned"
          PROVE  proc[p].copy.seq \in proc[p].head..StoredHead
      <4> DEFINE r == proc[p]
      <4>1. /\ r \in Proc /\ Sound(r, committed) /\ StoredHead = Len(committed) - 1
            /\ Len(committed) - 1 \in Nat /\ r.pc = "returned"
        BY <3>1, RequestFacts
      <4> HIDE DEF r
      <4>2. r.head \in Int
        BY <4>1 DEF Proc, NoCachedSeq
      <4>3. r.copy.seq \in r.head..StoredHead
        BY <4>1, <4>2 DEF Sound, Holding
      <4> QED BY <4>3 DEF r
    <3> QED BY <3>1 DEF ReadIsCurrent
  <2>3. ReadIsTheLogUntilRestored
    <3>1. \A p \in Procs : restores = 0 /\ proc[p].pc = "returned"
                            => CopyOf(proc[p].copy, committed)
      BY DEF CacheInv, CopiesAreTrue, Holding
    <3> QED BY <3>1 DEF ReadIsTheLogUntilRestored, ReadIsTheLog, IsPrefixOfLog, CopyOf, StoredHead
  <2> QED BY <2>1, <2>2, <2>3 DEF CacheIsTrue
<1> QED BY <1>1, CacheInvariance, PTL

(* No step puts an older copy over a newer one: not a slow request's, nor  *)
(* a command that runs after its sender gave up (cache.py, the Lua script).*)
THEOREM NoRegression == CacheSpec => CacheNeverRegresses
<1> DEFINE Step == cache.status = "hit" /\ cache'.status = "hit"
                     => cache'.copy = cache.copy \/ cache'.copy.seq > cache.copy.seq
<1>1. ASSUME CacheInv, [CacheNext]_cacheVars PROVE Step
  <2>1. ASSUME NEW command \in [op : {"store", "delete"}, copy : Copy], Run(command),
               command.op = "store" => command.copy.seq \in Nat
        PROVE  Step
    <3>1. cache.status = "hit" => cache.copy.seq \in Nat
      BY <1>1 DEF CacheInv, CacheTypeOK
    <3> QED BY <2>1, <3>1 DEF Run, StoreIfNewer, DeletedEntry, NoEntry, EntryOf
  <2>2. UNCHANGED cache => Step
    OBVIOUS
  <2>3. \A p \in Procs : StageEvents(p) \/ CommitEvents(p) \/ ReadHead(p) \/ Get(p)
                           \/ Rebuild(p) \/ End(p) => UNCHANGED cache
    BY DEF StageEvents, CommitEvents, ReadHead, Get, Rebuild, End
  <2>4. ASSUME NEW p \in Procs, Store(p) PROVE Step
    <3> DEFINE command == Storing(proc[p].copy)
    <3>1. /\ proc[p].pc = "store"
          /\ Done(command) \/ UNCHANGED cache
      BY <2>4 DEF Store, MayStore, Failed, TimedOut
    <3>2. /\ proc[p] \in Proc /\ Sound(proc[p], committed)
          /\ Len(committed) - 1 \in Nat
      BY <1>1, RequestFacts
    <3>3. proc[p].copy \in Copy /\ proc[p].copy.seq \in Nat
      BY <3>1, <3>2 DEF Sound, Holding, Proc
    <3>4. command \in [op : {"store", "delete"}, copy : Copy]
          /\ command.copy.seq \in Nat
      BY <3>3 DEF Storing
    <3> HIDE DEF command
    <3> QED BY <2>1, <2>2, <3>1, <3>4 DEF Done
  <2>5. ASSUME NEW p \in Procs, Invalidate(p) \/ Replace(p) PROVE Step
    <3>1. Done(Deleting) \/ UNCHANGED cache
      BY <2>5 DEF Invalidate, Replace, Failed, TimedOut
    <3> QED BY <2>1, <2>2, <3>1, DeletingFacts DEF Done
  <2>6. ASSUME RunLate PROVE Step
    <3>1. PICK c \in late : Run(c)
      BY <2>6 DEF RunLate
    <3>2. /\ c \in [op : {"store", "delete"}, copy : Copy]
          /\ c.op = "store" => c.copy.seq \in Nat
      BY <1>1 DEF CacheInv, CacheTypeOK
    <3> QED BY <2>1, <3>1, <3>2
  <2>7. LoseLate \/ Restore => UNCHANGED cache
    BY DEF LoseLate, Restore
  <2>8. Expire \/ Damage => cache'.status # "hit"
    BY DEF Expire, Damage, NoEntry
  <2>9. ASSUME NEW p \in Procs, Request(p) PROVE Step
    BY <2>9, <2>2, <2>3, <2>4, <2>5 DEF Request
  <2>10. ASSUME Environment PROVE Step
    <3>1. RunLate \/ UNCHANGED cache \/ cache'.status # "hit"
      BY <2>10, <2>7, <2>8 DEF Environment
    <3> QED BY <2>2, <2>6, <3>1
  <2>11. UNCHANGED cacheVars => UNCHANGED cache
    BY DEF cacheVars
  <2> HIDE DEF Step
  <2> QED BY <1>1, <2>2, <2>9, <2>10, <2>11 DEF CacheNext
<1>2. CacheInv /\ [CacheNext]_cacheVars => [Step]_cacheVars
  BY <1>1
<1>3. [][Step]_cacheVars <=> CacheNeverRegresses
  BY PTL DEF CacheNeverRegresses
<1> HIDE DEF Step
<1> QED BY <1>2, <1>3, CacheInvariance, PTL DEF CacheSpec

-----------------------------------------------------------------------------
(***************************************************************************)
(* The two in one state space.                                             *)
(***************************************************************************)
(* Their disjoint union moves one of them at a time: it behaves as each.   *)
LEMMA StoreParts == StoreSpec => Spec /\ CacheSpec
<1>1. StoreInit => Init /\ CacheInit
  BY DEF StoreInit
<1>2. [StoreNext]_<<part, vars, cacheVars>> => [Next]_vars /\ [CacheNext]_cacheVars
  BY DEF StoreNext
<1> QED BY <1>1, <1>2, PTL DEF StoreSpec, Spec, CacheSpec

(* Log, projection, transactions, cache and requests keep their shape, for *)
(* a log of any length (event_store.py, session_cache.py).                 *)
THEOREM StoreTypes == StoreSpec => []StoreTypeOK
<1>1. LInv /\ CacheInv => StoreTypeOK
  BY DEF LInv, CacheInv, StoreTypeOK
<1> QED BY <1>1, StoreParts, LogInvariance, CacheInvariance, PTL
=============================================================================
