-------------------------- MODULE InterviewProofs --------------------------
(***************************************************************************)
(* Proofs that one interview keeps its promises for every number of        *)
(* items, turns, workers, attempts, faults and re-queues.                  *)
(***************************************************************************)
EXTENDS InterviewProperties, InterviewLogProofs

-----------------------------------------------------------------------------
(***************************************************************************)
(* What one decision of what to ask next does to a session's state.        *)
(***************************************************************************)
(* REPORTING_STARTED leads to REPORTING.                                   *)
LEMMA StageReportingState ==
  ASSUME NEW s \in SessionState, NEW x \in StageReporting(s)
  PROVE  x \in SessionState /\ x.state = "REPORTING"
<1>1. /\ x \in SessionState
      /\ x = [s EXCEPT !.state = Transitions["REPORTING_STARTED"].to]
  BY StagePlain, EventTypes DEF StageReporting
<1> QED BY <1>1 DEF Transitions, SessionState

(* Selection asks or, except at the start, reports.                        *)
LEMMA SelectNextState ==
  ASSUME NEW s \in SessionState, NEW x \in SelectNext(s)
  PROVE  /\ x \in SessionState
         /\ \/ x.state = "ASKING"
            \/ x.state = "REPORTING" /\ s.state # "PREPARING"
<1>1. CASE x \in UNION {Stage(s, Asked(q)) : q \in Eligible(s)}
  <2>1. PICK q \in Items : x \in Stage(s, Asked(q))
    BY <1>1 DEF Eligible
  <2>2. x \in SessionState /\ x.state = "ASKING"
    BY <2>1, StageAskedState
  <2> QED BY <2>2
<1>2. CASE s.state # "PREPARING" /\ x \in StageReporting(s)
  BY <1>2, StageReportingState
<1>3. \/ x \in UNION {Stage(s, Asked(q)) : q \in Eligible(s)}
      \/ s.state # "PREPARING" /\ x \in StageReporting(s)
  BY Zenon DEF SelectNext
<1> QED BY <1>1, <1>2, <1>3

(* stage_next_bank_question always decides: what it stages asks a question *)
(* or ends the interview, and never the latter at the start.               *)
LEMMA NextBankQuestionState ==
  ASSUME NEW s \in SessionState, NEW x \in StageNextBankQuestion(s)
  PROVE  /\ x \in SessionState
         /\ \/ x.state = "ASKING"
            \/ x.state = "REPORTING" /\ s.state # "PREPARING"
<1>1. CASE s.state # "GRADING"
  BY <1>1, SelectNextState DEF StageNextBankQuestion
<1>2. CASE s.state = "GRADING" /\ ShouldStop(s)
  BY <1>2, StageReportingState DEF StageNextBankQuestion
<1>3. CASE s.state = "GRADING" /\ ~ShouldStop(s)
  <2>1. PICK y \in Stage(s, Plain("SELECTION_STARTED")) : x \in SelectNext(y)
    BY <1>3 DEF StageNextBankQuestion
  <2>2. y \in SessionState
    BY <2>1, StagePlain, EventTypes
  <2> QED BY <1>3, <2>1, <2>2, SelectNextState
<1> QED BY <1>1, <1>2, <1>3

(* The two outcomes of a decision: the session reports, or one eligible    *)
(* question is asked.                                                      *)
LEMMA SelectNextOutcome ==
  ASSUME NEW s \in SessionState, NEW x \in SelectNext(s)
  PROVE  \/ x = [s EXCEPT !.state = "REPORTING"]
         \/ \E q \in Eligible(s) : x = ApplyAsked(s, q)
<1>1. CASE x \in UNION {Stage(s, Asked(q)) : q \in Eligible(s)}
  <2>1. PICK q \in Eligible(s) : x \in Stage(s, Asked(q))
    BY <1>1
  <2>2. Asked(q) \in Event /\ Asked(q).type = "QUESTION_ASKED" /\ ~Asked(q).is_follow_up
        /\ Asked(q).question_id = q
    BY Constructors DEF Eligible, Asked, Plain
  <2>3. x = ApplyAsked(s, q)
    BY <2>1, <2>2 DEF Stage, Apply
  <2> QED BY <2>1, <2>3
<1>2. CASE x \in StageReporting(s)
  <2>1. x = [s EXCEPT !.state = Transitions["REPORTING_STARTED"].to]
    BY <1>2, StagePlain, EventTypes DEF StageReporting
  <2> QED BY <2>1 DEF Transitions
<1>3. \/ x \in UNION {Stage(s, Asked(q)) : q \in Eligible(s)}
      \/ x \in StageReporting(s)
  BY Zenon DEF SelectNext
<1> QED BY <1>1, <1>2, <1>3

(* What the decision on the next bank question can come to.                *)
LEMMA NextBankQuestionOutcome ==
  ASSUME NEW s \in SessionState, NEW x \in StageNextBankQuestion(s)
  PROVE  \/ x = [s EXCEPT !.state = "REPORTING"]
         \/ \E q \in Eligible(s) : x = ApplyAsked(s, q)
<1>1. CASE s.state # "GRADING"
  BY <1>1, SelectNextOutcome DEF StageNextBankQuestion
<1>2. CASE s.state = "GRADING" /\ ShouldStop(s)
  <2>1. x = [s EXCEPT !.state = Transitions["REPORTING_STARTED"].to]
    BY <1>2, StagePlain, EventTypes DEF StageNextBankQuestion, StageReporting
  <2> QED BY <2>1 DEF Transitions
<1>3. CASE s.state = "GRADING" /\ ~ShouldStop(s)
  <2>1. PICK y \in Stage(s, Plain("SELECTION_STARTED")) : x \in SelectNext(y)
    BY <1>3 DEF StageNextBankQuestion
  <2>2. /\ y \in SessionState
        /\ y = [s EXCEPT !.state = Transitions["SELECTION_STARTED"].to]
    BY <2>1, StagePlain, EventTypes
  <2>3. y = [s EXCEPT !.state = "SELECTING"]
    BY <2>2 DEF Transitions
  <2>4. y.asked_question_ids = s.asked_question_ids
    BY <2>3 DEF SessionState
  <2>5. Eligible(y) = Eligible(s)
    BY <2>4 DEF Eligible, AskedItems, AskedCount, UsedTime
  <2>6. [y EXCEPT !.state = "REPORTING"] = [s EXCEPT !.state = "REPORTING"]
    BY <2>3 DEF SessionState
  <2>7. \A q \in Eligible(s) : ApplyAsked(y, q) = ApplyAsked(s, q)
    BY <2>3 DEF ApplyAsked, SessionState
  <2> QED BY <2>1, <2>2, <2>5, <2>6, <2>7, SelectNextOutcome
<1> QED BY <1>1, <1>2, <1>3

-----------------------------------------------------------------------------
(* What the selector keeps to.  That the item budget is never exceeded     *)
(* follows, because the quotas fill no more than it.                       *)
Fits(s) ==
  /\ IsFiniteSet(AskedItems(s))
  /\ Cardinality(AskedItems(s)) = Len(s.asked_question_ids)
  /\ \A topic \in Topics : AskedCount(s, topic) <= Quota[topic]
  /\ UsedTime(s) <= TimeBudget

(* What is asked are items; one more question is one more item.            *)
LEMMA AskedFacts ==
  ASSUME NEW s \in SessionState
  PROVE  /\ AskedItems(s) \in SUBSET Items
         /\ \A q \in Items, x \in SessionState :
              x.asked_question_ids = Append(s.asked_question_ids, q)
                => AskedItems(x) = AskedItems(s) \cup {q}
<1> DEFINE asked == s.asked_question_ids
<1>1. asked \in Seq(Items)
  BY DEF SessionState
<1>2. ASSUME NEW q \in Items, NEW x \in SessionState, x.asked_question_ids = Append(asked, q)
      PROVE  AskedItems(x) = AskedItems(s) \cup {q}
  <2> DEFINE longer == Append(asked, q)
  <2>1. /\ Len(asked) \in Nat /\ Len(longer) = Len(asked) + 1
        /\ longer[Len(asked) + 1] = q
        /\ \A i \in 1..Len(asked) : longer[i] = asked[i]
    BY <1>1
  <2>2. AskedItems(x) = {longer[i] : i \in 1..Len(longer)}
        /\ AskedItems(s) = {asked[i] : i \in 1..Len(asked)}
    BY <1>2 DEF AskedItems
  <2> HIDE DEF longer, asked
  <2>3. \A i : i \in 1..Len(longer) <=> i \in 1..Len(asked) \/ i = Len(asked) + 1
    BY <2>1
  <2> QED BY <2>1, <2>2, <2>3
<1>3. AskedItems(s) \in SUBSET Items
  BY <1>1 DEF AskedItems
<1> QED BY <1>2, <1>3

(* The bank's data as functions to natural numbers.                        *)
LEMMA BankFacts ==
  /\ TimeOf \in [Items -> Nat] /\ Quota \in [Topics -> Nat]
  /\ \A q \in Items : TopicOf[q] \in Topics
  BY BankAssumption, BlueprintAssumption

(* Asking an eligible question keeps within the blueprint.                 *)
LEMMA AskFits ==
  ASSUME NEW s \in SessionState, Fits(s), NEW q \in Eligible(s), NEW x \in SessionState,
         x.asked_question_ids = Append(s.asked_question_ids, q)
  PROVE  Fits(x)
<1> DEFINE A == AskedItems(s)
<1>1. /\ q \in Items \ A
      /\ AskedCount(s, TopicOf[q]) < Quota[TopicOf[q]]
      /\ UsedTime(s) + TimeOf[q] <= TimeBudget
  BY DEF Eligible
<1>2. A \in SUBSET Items /\ AskedItems(x) = A \cup {q}
  BY <1>1, AskedFacts
<1>3. IsFiniteSet(A) /\ Cardinality(A) = Len(s.asked_question_ids)
  BY DEF Fits
<1>4. IsFiniteSet(A \cup {q}) /\ Cardinality(A \cup {q}) = Cardinality(A) + 1
  <2> HIDE DEF A
  <2> QED BY <1>1, <1>3, FS_AddElement
<1>5. Len(x.asked_question_ids) = Len(s.asked_question_ids) + 1
  BY <1>1 DEF SessionState
<1>6. ASSUME NEW topic \in Topics PROVE AskedCount(x, topic) <= Quota[topic]
  <2> DEFINE old == {p \in A : TopicOf[p] = topic}
             new == {p \in A \cup {q} : TopicOf[p] = topic}
  <2>1. AskedCount(s, topic) = Cardinality(old) /\ AskedCount(x, topic) = Cardinality(new)
    BY <1>2 DEF AskedCount
  <2>2. IsFiniteSet(old) /\ Cardinality(old) \in Nat
    <3>1. old \in SUBSET A
      OBVIOUS
    <3> HIDE DEF old, A
    <3> QED BY <1>3, <3>1, FS_Subset, FS_CardinalityType
  <2>3. CASE TopicOf[q] = topic
    <3>1. new = old \cup {q} /\ q \notin old
      BY <1>1, <2>3
    <3>2. Cardinality(new) = Cardinality(old) + 1
      <4> HIDE DEF old, new
      <4> QED BY <2>2, <3>1, FS_AddElement
    <3>3. Cardinality(old) < Quota[topic] /\ Quota[topic] \in Nat
      BY <1>1, <2>1, <2>3, BankFacts
    <3> HIDE DEF old, new
    <3> QED BY <2>1, <2>2, <3>2, <3>3
  <2>4. CASE TopicOf[q] # topic
    <3>1. new = old
      BY <2>4
    <3> HIDE DEF old, new
    <3> QED BY <2>1, <3>1 DEF Fits
  <2> QED BY <2>3, <2>4
<1>7. UsedTime(s) = SumOf(TimeOf, A) /\ UsedTime(x) = SumOf(TimeOf, A \cup {q})
  BY <1>2, Zenon DEF UsedTime, SumOf
<1>8. SumOf(TimeOf, A \cup {q}) = SumOf(TimeOf, A) + TimeOf[q]
  <2> HIDE DEF A
  <2> QED BY <1>1, <1>2, <1>3, BankFacts, SumAdd
<1>9. UsedTime(x) <= TimeBudget
  <2> HIDE DEF A
  <2> QED BY <1>1, <1>7, <1>8
<1> HIDE DEF A
<1> QED BY <1>2, <1>3, <1>4, <1>5, <1>6, <1>9 DEF Fits

(* A finite set of items has no more items than its topics count.          *)
LEMMA CountByTopic ==
  ASSUME NEW A \in SUBSET Items, IsFiniteSet(A), IsFiniteSet(Topics)
  PROVE  LET count == [t \in Topics |-> Cardinality({q \in A : TopicOf[q] = t})]
         IN  count \in [Topics -> Nat] /\ Cardinality(A) = SumOf(count, Topics)
<1> DEFINE of(t) == {q \in A : TopicOf[q] = t}
           among(S) == {q \in A : TopicOf[q] \in S}
           count == [t \in Topics |-> Cardinality(of(t))]
           N == {n \in Nat : \A S \in SUBSET Topics : IsFiniteSet(S) /\ Cardinality(S) = n
                   => Cardinality(among(S)) = SumOf(count, S)}
<1>1. \A t : of(t) \in SUBSET A
  OBVIOUS
<1>2. \A S : among(S) \in SUBSET A
  OBVIOUS
<1>3. /\ \A t : IsFiniteSet(of(t)) /\ Cardinality(of(t)) \in Nat
      /\ \A S : IsFiniteSet(among(S)) /\ Cardinality(among(S)) \in Nat
  <2> HIDE DEF of, among
  <2> QED BY <1>1, <1>2, FS_Subset, FS_CardinalityType
<1>4. count \in [Topics -> Nat]
  BY <1>3
<1>5. 0 \in N
  <2>1. \A S \in SUBSET Topics : IsFiniteSet(S) /\ Cardinality(S) = 0 => S = {}
    BY FS_EmptySet
  <2>2. SumOf(count, {}) = 0
    <3> HIDE DEF count
    <3> QED BY FS_EmptySet, SumUnfolds
  <2>3. Cardinality(among({})) = 0
    <3>1. among({}) = {}
      OBVIOUS
    <3> HIDE DEF among
    <3> QED BY <3>1, FS_EmptySet
  <2> HIDE DEF among, count
  <2> QED BY <2>1, <2>2, <2>3
<1>6. ASSUME NEW n \in Nat, n \in N PROVE n + 1 \in N
  <2>1. ASSUME NEW S \in SUBSET Topics, IsFiniteSet(S), Cardinality(S) = n + 1
        PROVE  Cardinality(among(S)) = SumOf(count, S)
    <3>1. S # {}
      BY <2>1, FS_EmptySet
    <3> DEFINE t == OneOf(S)
               r == S \ {t}
    <3>2. t \in S /\ IsFiniteSet(r) /\ Cardinality(r) = n /\ r \in SUBSET Topics
      BY <2>1, <3>1, OneOfFacts
    <3>3. SumOf(count, S) = count[t] + SumOf(count, r)
      <4> HIDE DEF count
      <4> QED BY <2>1, <3>1, SumUnfolds
    <3>4. among(S) = among(r) \cup of(t) /\ among(r) \cap of(t) = {}
      <4>1. S = r \cup {t} /\ t \notin r
        BY <3>2
      <4> HIDE DEF t, r
      <4> QED BY <4>1
    <3> HIDE DEF t, r
    <3>5. Cardinality(among(S)) = Cardinality(among(r)) + Cardinality(of(t))
      <4> HIDE DEF among, of
      <4>1. Cardinality(among(r) \cap of(t)) = 0
        BY <3>4, FS_EmptySet
      <4> DEFINE a == among(r)
                 b == of(t)
      <4>2. /\ IsFiniteSet(a) /\ IsFiniteSet(b) /\ Cardinality(a \cap b) = 0
            /\ Cardinality(a) \in Nat /\ Cardinality(b) \in Nat
            /\ among(S) = a \cup b
        BY <1>3, <3>4, <4>1
      <4> HIDE DEF a, b
      <4>3. Cardinality(a \cup b) = Cardinality(a) + Cardinality(b)
        <5>1. Cardinality(a \cup b) = Cardinality(a) + Cardinality(b) - Cardinality(a \cap b)
          BY <4>2, FS_Union, Zenon
        <5> QED BY <4>2, <5>1
      <4> QED BY <4>2, <4>3 DEF a, b
    <3>6. Cardinality(among(r)) = SumOf(count, r)
      BY <1>6, <3>2
    <3>7. count[t] = Cardinality(of(t))
      BY <3>2
    <3> HIDE DEF among, of, count
    <3> QED BY <1>3, <3>3, <3>5, <3>6, <3>7
  <2> QED BY <2>1
<1> HIDE DEF N
<1>7. Cardinality(among(Topics)) = SumOf(count, Topics)
  <2>1. \A n \in Nat : n \in N
    BY <1>5, <1>6, NatSetInduction
  <2>2. Cardinality(Topics) \in N
    BY <2>1, FS_CardinalityType
  <2> HIDE DEF among, count
  <2> QED BY <2>2 DEF N
<1>8. among(Topics) = A
  BY BankFacts
<1> HIDE DEF among
<1>9. Cardinality(A) = SumOf(count, Topics)
  BY <1>7, <1>8
<1> QED BY <1>4, <1>9

(* Keeping to the quotas keeps to the item budget, and so does a path that *)
(* never consults the stopping rule.                                       *)
LEMMA FitsBudget ==
  ASSUME NEW s \in SessionState, Fits(s)
  PROVE  Len(s.asked_question_ids) <= ItemBudget
<1> DEFINE A == AskedItems(s)
           count == [t \in Topics |-> Cardinality({q \in A : TopicOf[q] = t})]
<1>1. A \in SUBSET Items /\ IsFiniteSet(A) /\ Cardinality(A) = Len(s.asked_question_ids)
  BY AskedFacts DEF Fits
<1>2. IsFiniteSet(Topics) /\ SumOf(Quota, Topics) <= ItemBudget
  BY QuotasFill, Zenon DEF SumOf
<1>3. count \in [Topics -> Nat] /\ Cardinality(A) = SumOf(count, Topics)
  <2> HIDE DEF A
  <2> QED BY <1>1, <1>2, CountByTopic
<1>4. \A t \in Topics : count[t] <= Quota[t]
  BY DEF Fits, AskedCount
<1> HIDE DEF A, count
<1>5. SumOf(count, Topics) <= SumOf(Quota, Topics)
  BY <1>2, <1>3, <1>4, BankFacts, SumMonotone
<1>6. SumOf(count, Topics) \in Nat /\ SumOf(Quota, Topics) \in Nat
  BY <1>2, <1>3, BankFacts, SumTakesAny
<1> QED BY <1>1, <1>2, <1>3, <1>5, <1>6, BlueprintAssumption

-----------------------------------------------------------------------------
(***************************************************************************)
(* The tables and the workers.                                             *)
(***************************************************************************)
(* The statements on table turns keep a row well-formed.                 *)
LEMMA TurnRows ==
  ASSUME NEW row \in TurnRow
  PROVE  /\ Claimed(row) \in TurnRow
         /\ Requeued(row) \in TurnRow
         /\ \A x \in TurnStatus : Settled(row, x) \in TurnRow
         /\ [row EXCEPT !.lease = FALSE] \in TurnRow
         /\ \A x \in TurnStatus : [row EXCEPT !.status = x] \in TurnRow
<1>1. Claimed(row) \in TurnRow
  <2>1. row.attempts + 1 \in Nat
    BY DEF TurnRow
  <2>2. \A n \in Nat : [row EXCEPT !.status = "processing", !.attempts = n,
                                   !.lease = TRUE] \in TurnRow
    BY DEF TurnRow, TurnStatus
  <2> QED BY <2>1, <2>2 DEF Claimed
<1>2. Requeued(row) \in TurnRow
  BY DEF Requeued, TurnRow, TurnStatus
<1>3. \A x \in TurnStatus : Settled(row, x) \in TurnRow
  BY DEF Settled, TurnRow
<1>4. [row EXCEPT !.lease = FALSE] \in TurnRow
  BY DEF TurnRow
<1>5. \A x \in TurnStatus : [row EXCEPT !.status = x] \in TurnRow
  BY DEF TurnRow
<1> QED BY <1>1, <1>2, <1>3, <1>4, <1>5

(* The statements on table follow_ups keep a row well-formed.            *)
LEMMA FollowUpRows ==
  ASSUME NEW row \in FollowUpRow
  PROVE  /\ Claimed(row) \in FollowUpRow
         /\ \A x \in FollowUpStatus : Settled(row, x) \in FollowUpRow
         /\ [row EXCEPT !.lease = FALSE] \in FollowUpRow
<1>1. Claimed(row) \in FollowUpRow
  <2>1. row.attempts + 1 \in Nat
    BY DEF FollowUpRow
  <2>2. \A n \in Nat : [row EXCEPT !.status = "processing", !.attempts = n,
                                   !.lease = TRUE] \in FollowUpRow
    BY DEF FollowUpRow, FollowUpStatus
  <2> QED BY <2>1, <2>2 DEF Claimed
<1>2. \A x \in FollowUpStatus : Settled(row, x) \in FollowUpRow
  BY DEF Settled, FollowUpRow
<1>3. [row EXCEPT !.lease = FALSE] \in FollowUpRow
  BY DEF FollowUpRow
<1> QED BY <1>1, <1>2, <1>3

(* The statements on table reports keep a row well-formed.               *)
LEMMA ReportRows ==
  ASSUME NEW row \in ReportRow
  PROVE  /\ Claimed(row) \in ReportRow
         /\ Requeued(row) \in ReportRow
         /\ \A x \in ReportStatus : Settled(row, x) \in ReportRow
         /\ [row EXCEPT !.lease = FALSE] \in ReportRow
         /\ \A x \in ReportStatus : [row EXCEPT !.status = x] \in ReportRow
<1>1. Claimed(row) \in ReportRow
  <2>1. row.attempts + 1 \in Nat
    BY DEF ReportRow
  <2>2. \A n \in Nat : [row EXCEPT !.status = "processing", !.attempts = n,
                                   !.lease = TRUE] \in ReportRow
    BY DEF ReportRow, ReportStatus
  <2> QED BY <2>1, <2>2 DEF Claimed
<1>2. Requeued(row) \in ReportRow
  BY DEF Requeued, ReportRow, ReportStatus
<1>3. \A x \in ReportStatus : Settled(row, x) \in ReportRow
  BY DEF Settled, ReportRow
<1>4. [row EXCEPT !.lease = FALSE] \in ReportRow
  BY DEF ReportRow
<1>5. \A x \in ReportStatus : [row EXCEPT !.status = x] \in ReportRow
  BY DEF ReportRow
<1> QED BY <1>1, <1>2, <1>3, <1>4, <1>5

(* The statuses the job-table statements write.                            *)
LEMMA RowStatus ==
  /\ \A row \in TurnRow \cup FollowUpRow \cup ReportRow :
       /\ Claimed(row).status = "processing"
       /\ Claimed(row).attempts = row.attempts + 1
       /\ [row EXCEPT !.lease = FALSE].status = row.status
       /\ [row EXCEPT !.lease = FALSE].attempts = row.attempts
  /\ \A row \in TurnRow \cup ReportRow :
       Requeued(row).status = "pending" /\ Requeued(row).attempts = 0
  BY DEF TurnRow, FollowUpRow, ReportRow, Claimed, Settled, Requeued

(* Settling a row writes the status it is given, in each table.            *)
LEMMA SettledTurn ==
  ASSUME NEW row \in TurnRow, NEW x \in {"pending", "graded", "failed"}
  PROVE  Settled(row, x) \in TurnRow /\ Settled(row, x).status = x
  BY DEF Settled, TurnRow, TurnStatus

(* The same for a follow-up.                                               *)
LEMMA SettledFollowUp ==
  ASSUME NEW row \in FollowUpRow, NEW x \in {"pending", "ready", "abandoned"}
  PROVE  Settled(row, x) \in FollowUpRow /\ Settled(row, x).status = x
  BY DEF Settled, FollowUpRow, FollowUpStatus

(* The same for the report.                                                *)
LEMMA SettledReport ==
  ASSUME NEW row \in ReportRow, NEW x \in {"pending", "ready", "failed"}
  PROVE  Settled(row, x) \in ReportRow /\ Settled(row, x).status = x
  BY DEF Settled, ReportRow, ReportStatus

(* A freed worker and a claimed job keep jobs well-formed.                 *)
LEMMA JobTypes ==
  ASSUME jobs \in [Workers -> Job], NEW w \in Workers
  PROVE  /\ Finish(w) => jobs' \in [Workers -> Job]
         /\ \A queue \in Queue, t \in Turns \cup {NoTurn}, n \in Nat :
              [jobs EXCEPT ![w] = [queue |-> queue, turn |-> t, attempt |-> n]]
                \in [Workers -> Job]
  BY DEF Finish, Idle, Job, Queue

-----------------------------------------------------------------------------
(* A new session satisfies the invariant.                                  *)
LEMMA InitIInv == Init => IInv
<1> SUFFICES ASSUME Init PROVE IInv
  OBVIOUS
<1>1. /\ st \in SessionState /\ st.state = "CREATED"
  <2>1. Plain("SESSION_CREATED") \in Event /\ Plain("SESSION_CREATED").type = "SESSION_CREATED"
    BY Constructors, EventTypes
  <2>2. Accepts(Initial, Plain("SESSION_CREATED"))
    BY <2>1 DEF Accepts, Initial, Transitions
  <2>3. st \in SessionState
    BY <2>1, <2>2, ApplyType, InitialType DEF Init
  <2>4. st = [Initial EXCEPT !.state = "CREATED"]
    BY <2>1 DEF Init, Apply, Transitions
  <2> QED BY <2>3, <2>4 DEF Initial
<1>2. TypeOK
  BY <1>1 DEF Init, TypeOK, NoRow, NoFollowUp, Idle, TurnRow, FollowUpRow, ReportRow,
              TurnStatus, FollowUpStatus, ReportStatus, Job
<1>3. NeverUndecided /\ GradedOnce
  BY <1>1 DEF Init, NeverUndecided, GradedOnce, NoRow
<1>4. GradingHasItsTurn
  BY <1>1 DEF Init, GradingHasItsTurn, NoRow
<1>5. ProbingHasItsFollowUp
  BY <1>1 DEF Init, ProbingHasItsFollowUp, NoFollowUp, Live
<1>6. ReportingHasItsReport
  BY <1>1 DEF Init, ReportingHasItsReport, NoRow
<1> QED BY <1>2, <1>3, <1>4, <1>5, <1>6 DEF IInv

-----------------------------------------------------------------------------
(* Starting asks the first question or changes nothing.                    *)
LEMMA StartStep == ASSUME IInv, StartSession PROVE IInv'
<1> USE DEF IInv, TypeOK
<1>1. PICK preparing \in Stage(st, Plain("PREPARATION_STARTED")) :
        \E asking \in StageNextBankQuestion(preparing) : Advance(asking)
  BY DEF StartSession
<1>2. preparing \in SessionState /\ preparing.state = "PREPARING"
  <2>1. /\ preparing \in SessionState
        /\ preparing = [st EXCEPT !.state = Transitions["PREPARATION_STARTED"].to]
    BY StagePlain, EventTypes
  <2> QED BY <2>1 DEF Transitions, SessionState
<1>3. PICK asking \in StageNextBankQuestion(preparing) : Advance(asking)
  BY <1>1
<1>4. st' \in SessionState /\ st'.state = "ASKING" /\ report' = report
  BY <1>2, <1>3, NextBankQuestionState DEF Advance
<1>5. st.state = "CREATED" /\ UNCHANGED <<turns, follow_ups, jobs, grades, calls, bounds>>
  BY DEF StartSession
<1>6. TypeOK' /\ NeverUndecided' /\ GradedOnce'
  BY <1>4, <1>5 DEF NeverUndecided, GradedOnce, bounds
<1>7. GradingHasItsTurn' /\ ProbingHasItsFollowUp' /\ ReportingHasItsReport'
  BY <1>4, <1>5 DEF GradingHasItsTurn, ProbingHasItsFollowUp, ReportingHasItsReport
<1> QED BY <1>6, <1>7

(* Submitting queues the turn the session now waits for.                   *)
LEMMA SubmitStep == ASSUME IInv, NEW t \in Turns, SubmitTurn(t) PROVE IInv'
<1> USE DEF IInv, TypeOK
<1>1. /\ st.state = "ASKING"
      /\ st' \in SessionState
      /\ st'.state = "GRADING" /\ st'.current_turn_id = t /\ ~st'.current_graded
  <2>1. Submitted(t) \in Event /\ Submitted(t).type = "ANSWER_SUBMITTED"
        /\ Submitted(t).turn_id = t
    BY Constructors DEF Submitted, Plain
  <2>2. Accepts(st, Submitted(t)) /\ st' = Apply(st, Submitted(t)) /\ st' \in SessionState
    BY <2>1, StageType DEF SubmitTurn
  <2>3. st' = [st EXCEPT !.state = "GRADING", !.current_turn_id = t,
                         !.current_graded = FALSE]
    BY <2>1, <2>2 DEF Apply
  <2> QED BY <2>1, <2>2, <2>3 DEF Accepts, Transitions, SessionState
<1>2. /\ turns[t].status = "none"
      /\ turns' = [turns EXCEPT ![t].status = "pending"]
      /\ UNCHANGED <<follow_ups, report, jobs, grades, calls, bounds>>
  BY DEF SubmitTurn
<1>3. turns' \in [Turns -> TurnRow] /\ turns'[t].status = "pending"
      /\ \A u \in Turns \ {t} : turns'[u] = turns[u]
  <2>1. [turns[t] EXCEPT !.status = "pending"] \in TurnRow
    BY TurnRows DEF TurnStatus
  <2> QED BY <1>2, <2>1 DEF TurnRow
<1>4. TypeOK' /\ NeverUndecided'
  BY <1>1, <1>2, <1>3 DEF NeverUndecided, bounds
<1>5. GradedOnce'
  BY <1>2, <1>3 DEF GradedOnce
<1>6. GradingHasItsTurn'
  BY <1>1, <1>2, <1>3 DEF GradingHasItsTurn
<1>7. ProbingHasItsFollowUp' /\ ReportingHasItsReport'
  BY <1>1, <1>2 DEF ProbingHasItsFollowUp, ReportingHasItsReport
<1> QED BY <1>4, <1>5, <1>6, <1>7

-----------------------------------------------------------------------------
(* A row its session waits for, failed ones included.                      *)
Queued(row) == row.status \in {"pending", "processing", "failed"}

(* A step that moves no session, and no row in or out of its queue, keeps  *)
(* the invariant.                                                          *)
LEMMA QueueStep ==
  ASSUME IInv, TypeOK', st' = st, grades' = grades,
         \A t \in Turns : /\ Queued(turns'[t]) <=> Queued(turns[t])
                          /\ turns'[t].status = "graded" <=> turns[t].status = "graded",
         \A t \in Turns : Live(follow_ups'[t]) <=> Live(follow_ups[t]),
         Queued(report') <=> Queued(report),
         report'.status = "ready" <=> report.status = "ready"
  PROVE  IInv'
<1> USE DEF IInv
<1>1. NeverUndecided' /\ GradedOnce'
  BY DEF NeverUndecided, GradedOnce
<1>2. GradingHasItsTurn'
  BY DEF GradingHasItsTurn, Queued
<1>3. ProbingHasItsFollowUp'
  BY DEF ProbingHasItsFollowUp
<1>4. ReportingHasItsReport'
  BY DEF ReportingHasItsReport, Queued
<1> QED BY <1>1, <1>2, <1>3, <1>4

(* What a step writes to one row of turns.                                 *)
LEMMA TurnWrite ==
  ASSUME IInv, NEW t \in Turns, NEW row \in TurnRow,
         turns' = [turns EXCEPT ![t] = row],
         Queued(row) <=> Queued(turns[t]),
         row.status = "graded" <=> turns[t].status = "graded"
  PROVE  /\ turns' \in [Turns -> TurnRow]
         /\ \A u \in Turns : /\ Queued(turns'[u]) <=> Queued(turns[u])
                             /\ turns'[u].status = "graded" <=> turns[u].status = "graded"
<1>1. turns \in [Turns -> TurnRow]
  BY DEF IInv, TypeOK
<1> QED BY <1>1

(* What a step writes to one row of follow_ups.                            *)
LEMMA FollowUpWrite ==
  ASSUME IInv, NEW t \in Turns, NEW row \in FollowUpRow,
         follow_ups' = [follow_ups EXCEPT ![t] = row],
         Live(row) <=> Live(follow_ups[t])
  PROVE  /\ follow_ups' \in [Turns -> FollowUpRow]
         /\ \A u \in Turns : Live(follow_ups'[u]) <=> Live(follow_ups[u])
<1>1. follow_ups \in [Turns -> FollowUpRow]
  BY DEF IInv, TypeOK
<1> QED BY <1>1

(* Claiming takes a row from its queue and settles nothing.                *)
LEMMA ClaimTurnStep ==
  ASSUME IInv, NEW w \in Workers, NEW t \in Turns, ClaimTurn(w, t)
  PROVE  IInv'
<1> USE DEF IInv, TypeOK
<1>1. turns[t] \in TurnRow
  OBVIOUS
<1>2. Claimed(turns[t]) \in TurnRow /\ Claimed(turns[t]).status = "processing"
  BY <1>1, TurnRows, RowStatus
<1>3. turns' = [turns EXCEPT ![t] = Claimed(turns[t])] /\ Claimable(turns[t])
  BY DEF ClaimTurn
<1>4. /\ turns' \in [Turns -> TurnRow]
      /\ \A u \in Turns : /\ Queued(turns'[u]) <=> Queued(turns[u])
                          /\ turns'[u].status = "graded" <=> turns[u].status = "graded"
  BY <1>2, <1>3, TurnWrite DEF Queued, Claimable
<1>5. jobs' \in [Workers -> Job]
  BY <1>1, JobTypes DEF ClaimTurn, TurnRow, Queue
<1>6. calls' \in [Turns -> Nat]
  <2>1. (IF turns[t].attempts + 1 > MaxAttempts THEN calls[t] ELSE calls[t] + 1) \in Nat
    OBVIOUS
  <2> QED BY <2>1 DEF ClaimTurn
<1>7. UNCHANGED <<st, follow_ups, report, grades, faults, requeues>>
  BY DEF ClaimTurn, bounds
<1> QED BY <1>4, <1>5, <1>6, <1>7, QueueStep

(* The same for a follow-up.                                               *)
LEMMA ClaimFollowUpStep ==
  ASSUME IInv, NEW w \in Workers, NEW t \in Turns, ClaimFollowUp(w, t)
  PROVE  IInv'
<1> USE DEF IInv, TypeOK
<1>1. follow_ups[t] \in FollowUpRow
  OBVIOUS
<1>2. Claimed(follow_ups[t]) \in FollowUpRow /\ Claimed(follow_ups[t]).status = "processing"
  BY <1>1, FollowUpRows, RowStatus
<1>3. follow_ups' = [follow_ups EXCEPT ![t] = Claimed(follow_ups[t])] /\ Claimable(follow_ups[t])
  BY DEF ClaimFollowUp
<1>4. /\ follow_ups' \in [Turns -> FollowUpRow]
      /\ \A u \in Turns : Live(follow_ups'[u]) <=> Live(follow_ups[u])
  BY <1>2, <1>3, FollowUpWrite DEF Live, Claimable
<1>5. jobs' \in [Workers -> Job]
  BY <1>1, JobTypes DEF ClaimFollowUp, FollowUpRow, Queue
<1>6. UNCHANGED <<st, turns, report, grades, calls, faults, requeues>>
  BY DEF ClaimFollowUp, bounds
<1> QED BY <1>4, <1>5, <1>6, QueueStep

(* The same for the report.                                                *)
LEMMA ClaimReportStep ==
  ASSUME IInv, NEW w \in Workers, ClaimReport(w)
  PROVE  IInv'
<1> USE DEF IInv, TypeOK
<1>1. Claimed(report) \in ReportRow /\ Claimed(report).status = "processing"
  BY ReportRows, RowStatus
<1>2. report' = Claimed(report) /\ Claimable(report)
  BY DEF ClaimReport
<1>3. jobs' \in [Workers -> Job]
  <2>1. report.attempts + 1 \in Nat
    BY DEF ReportRow
  <2> QED BY <2>1, JobTypes DEF ClaimReport, Queue
<1>4. UNCHANGED <<st, turns, follow_ups, grades, calls, faults, requeues>>
  BY DEF ClaimReport, bounds
<1> QED BY <1>1, <1>2, <1>3, <1>4, QueueStep DEF Queued, Claimable

-----------------------------------------------------------------------------
(* Steps that hand a row back, give it up or only lose its worker.         *)
LEMMA GradeRetriesStep ==
  ASSUME IInv, NEW w \in Workers, NEW t \in Turns, GradeRetries(w, t)
  PROVE  IInv'
<1> USE DEF IInv, TypeOK
<1>1. turns[t] \in TurnRow /\ turns[t].status = "processing"
  BY DEF GradeRetries, OwnsTurn, Fenced
<1>2. Settled(turns[t], "pending") \in TurnRow /\ Settled(turns[t], "pending").status = "pending"
  BY <1>1, SettledTurn
<1>3. turns' = [turns EXCEPT ![t] = Settled(turns[t], "pending")]
  BY DEF GradeRetries
<1>4. /\ turns' \in [Turns -> TurnRow]
      /\ \A u \in Turns : /\ Queued(turns'[u]) <=> Queued(turns[u])
                          /\ turns'[u].status = "graded" <=> turns[u].status = "graded"
  BY <1>1, <1>2, <1>3, TurnWrite DEF Queued
<1>5. jobs' \in [Workers -> Job] /\ UNCHANGED <<st, follow_ups, report, grades, calls, faults, requeues>>
  BY JobTypes DEF GradeRetries, bounds
<1> QED BY <1>4, <1>5, QueueStep

(* A failed grade stays in the queue's books: GRADING_FAILED is a self-loop. *)
LEMMA GradeFailsStep ==
  ASSUME IInv, NEW w \in Workers, NEW t \in Turns, GradeFails(w, t)
  PROVE  IInv'
<1> USE DEF IInv, TypeOK
<1>1. turns[t] \in TurnRow /\ turns[t].status = "processing"
  BY DEF GradeFails, OwnsTurn, Fenced
<1>2. Settled(turns[t], "failed") \in TurnRow /\ Settled(turns[t], "failed").status = "failed"
  BY <1>1, SettledTurn
<1>3. turns' = [turns EXCEPT ![t] = Settled(turns[t], "failed")]
  BY DEF GradeFails
<1>4. /\ turns' \in [Turns -> TurnRow]
      /\ \A u \in Turns : /\ Queued(turns'[u]) <=> Queued(turns[u])
                          /\ turns'[u].status = "graded" <=> turns[u].status = "graded"
  BY <1>1, <1>2, <1>3, TurnWrite DEF Queued
<1>5. st' = st
  <2>1. st.state = "GRADING"
    BY <1>1 DEF GradingHasItsTurn
  <2>2. Apply(st, GradingFailed(t)) = [st EXCEPT !.state = "GRADING"]
    BY DEF Apply, GradingFailed, Plain, Transitions
  <2>3. [st EXCEPT !.state = "GRADING"] = st
    BY <2>1 DEF SessionState
  <2> QED BY <2>2, <2>3 DEF GradeFails
<1>6. jobs' \in [Workers -> Job] /\ UNCHANGED <<follow_ups, report, grades, calls, faults, requeues>>
  BY JobTypes DEF GradeFails, bounds
<1> QED BY <1>4, <1>5, <1>6, QueueStep

(* A wording attempt that will be made again.                              *)
LEMMA FollowUpRetriesStep ==
  ASSUME IInv, NEW w \in Workers, NEW t \in Turns, FollowUpRetries(w, t)
  PROVE  IInv'
<1> USE DEF IInv, TypeOK
<1>1. follow_ups[t] \in FollowUpRow /\ follow_ups[t].status = "processing"
  BY DEF FollowUpRetries, OwnsFollowUp, Fenced
<1>2. /\ Settled(follow_ups[t], "pending") \in FollowUpRow
      /\ Settled(follow_ups[t], "pending").status = "pending"
  BY <1>1, SettledFollowUp
<1>3. follow_ups' = [follow_ups EXCEPT ![t] = Settled(follow_ups[t], "pending")]
  BY DEF FollowUpRetries
<1>4. /\ follow_ups' \in [Turns -> FollowUpRow]
      /\ \A u \in Turns : Live(follow_ups'[u]) <=> Live(follow_ups[u])
  BY <1>1, <1>2, <1>3, FollowUpWrite DEF Live
<1>5. jobs' \in [Workers -> Job] /\ UNCHANGED <<st, turns, report, grades, calls, faults, requeues>>
  BY JobTypes DEF FollowUpRetries, bounds
<1> QED BY <1>4, <1>5, QueueStep

(* A report attempt that will be made again, or that failed.               *)
LEMMA ReportHandsBackStep ==
  ASSUME IInv, NEW w \in Workers, ReportRetries(w) \/ ReportFails(w)
  PROVE  IInv'
<1> USE DEF IInv, TypeOK
<1>1. report.status = "processing"
  BY DEF ReportRetries, ReportFails, OwnsReport, Fenced
<1>2. PICK x \in {"pending", "failed"} : report' = Settled(report, x)
  BY DEF ReportRetries, ReportFails
<1>3. report' \in ReportRow /\ report'.status = x
  BY <1>2, SettledReport
<1>4. jobs' \in [Workers -> Job] /\ UNCHANGED <<st, turns, follow_ups, grades, calls, faults, requeues>>
  BY JobTypes DEF ReportRetries, ReportFails, bounds
<1> QED BY <1>1, <1>3, <1>4, QueueStep DEF Queued

(* A stale result is dropped and a lost worker leaves only its claim.      *)
LEMMA WorkerFreedStep ==
  ASSUME IInv, NEW w \in Workers, DiscardResult(w) \/ WorkerLost(w)
  PROVE  IInv'
<1> USE DEF IInv, TypeOK
<1>1. jobs' \in [Workers -> Job] /\ faults' \in Nat
      /\ UNCHANGED <<st, turns, follow_ups, report, grades, calls, requeues>>
  BY JobTypes DEF DiscardResult, WorkerLost, bounds
<1> QED BY <1>1, QueueStep

(* A lease running out changes no status.                                  *)
LEMMA LeaseStep == ASSUME IInv, LeaseExpires PROVE IInv'
<1> USE DEF IInv, TypeOK
<1>1. CASE \E t \in Turns : TurnLeaseExpires(t)
  <2>1. PICK t \in Turns : TurnLeaseExpires(t)
    BY <1>1
  <2> DEFINE row == [turns[t] EXCEPT !.lease = FALSE]
  <2>2. turns[t] \in TurnRow /\ row \in TurnRow /\ row.status = turns[t].status
    BY TurnRows, RowStatus
  <2>3. turns' = [turns EXCEPT ![t] = row]
    BY <2>1, <2>2 DEF TurnLeaseExpires, TurnRow
  <2>4. /\ turns' \in [Turns -> TurnRow]
        /\ \A u \in Turns : /\ Queued(turns'[u]) <=> Queued(turns[u])
                            /\ turns'[u].status = "graded" <=> turns[u].status = "graded"
    BY <2>2, <2>3, TurnWrite DEF Queued
  <2>5. faults' \in Nat /\ UNCHANGED <<st, follow_ups, report, jobs, grades, calls, requeues>>
    BY <2>1 DEF TurnLeaseExpires, Expires
  <2> QED BY <2>4, <2>5, QueueStep
<1>2. CASE \E t \in Turns : FollowUpLeaseExpires(t)
  <2>1. PICK t \in Turns : FollowUpLeaseExpires(t)
    BY <1>2
  <2> DEFINE row == [follow_ups[t] EXCEPT !.lease = FALSE]
  <2>2. follow_ups[t] \in FollowUpRow /\ row \in FollowUpRow
        /\ row.status = follow_ups[t].status
    BY FollowUpRows, RowStatus
  <2>3. follow_ups' = [follow_ups EXCEPT ![t] = row]
    BY <2>1, <2>2 DEF FollowUpLeaseExpires, FollowUpRow
  <2>4. /\ follow_ups' \in [Turns -> FollowUpRow]
        /\ \A u \in Turns : Live(follow_ups'[u]) <=> Live(follow_ups[u])
    BY <2>2, <2>3, FollowUpWrite DEF Live
  <2>5. faults' \in Nat /\ UNCHANGED <<st, turns, report, jobs, grades, calls, requeues>>
    BY <2>1 DEF FollowUpLeaseExpires, Expires
  <2> QED BY <2>4, <2>5, QueueStep
<1>3. CASE ReportLeaseExpires
  <2>1. report' \in ReportRow /\ report'.status = report.status
    BY <1>3, ReportRows, RowStatus DEF ReportLeaseExpires
  <2>2. faults' \in Nat /\ UNCHANGED <<st, turns, follow_ups, jobs, grades, calls, requeues>>
    BY <1>3 DEF ReportLeaseExpires, Expires
  <2> QED BY <2>1, <2>2, QueueStep DEF Queued
<1> QED BY <1>1, <1>2, <1>3 DEF LeaseExpires

(* An operator's re-queue puts a failed row back where its session waits.  *)
LEMMA OperatorStep == ASSUME IInv, Operator PROVE IInv'
<1> USE DEF IInv, TypeOK
<1>1. CASE \E t \in Turns : RequeueFailedTurn(t)
  <2>1. PICK t \in Turns : RequeueFailedTurn(t)
    BY <1>1
  <2>2. turns[t] \in TurnRow /\ Requeued(turns[t]) \in TurnRow
        /\ Requeued(turns[t]).status = "pending" /\ turns[t].status = "failed"
    BY <2>1, TurnRows, RowStatus DEF RequeueFailedTurn
  <2>3. turns' = [turns EXCEPT ![t] = Requeued(turns[t])]
    BY <2>1 DEF RequeueFailedTurn
  <2>4. /\ turns' \in [Turns -> TurnRow]
        /\ \A u \in Turns : /\ Queued(turns'[u]) <=> Queued(turns[u])
                            /\ turns'[u].status = "graded" <=> turns[u].status = "graded"
    BY <2>2, <2>3, TurnWrite DEF Queued
  <2>5. requeues' \in Nat /\ UNCHANGED <<st, follow_ups, report, jobs, grades, calls, faults>>
    BY <2>1 DEF RequeueFailedTurn
  <2> QED BY <2>4, <2>5, QueueStep
<1>2. CASE RequeueFailedReport
  <2>1. report' \in ReportRow /\ report'.status = "pending" /\ report.status = "failed"
    BY <1>2, ReportRows, RowStatus DEF RequeueFailedReport
  <2>2. requeues' \in Nat /\ UNCHANGED <<st, turns, follow_ups, jobs, grades, calls, faults>>
    BY <1>2 DEF RequeueFailedReport
  <2> QED BY <2>1, <2>2, QueueStep DEF Queued
<1> QED BY <1>1, <1>2 DEF Operator

-----------------------------------------------------------------------------
(* Leaving GRADING, PROBING or a report's queue.                           *)
(*                                                                         *)
(* Staging ANSWER_GRADED records the grade inside GRADING.                 *)
LEMMA GradedState ==
  ASSUME IInv, NEW t \in Turns, NEW p \in BOOLEAN, NEW m \in BOOLEAN,
         NEW graded \in Stage(st, Graded(t, p, m))
  PROVE  /\ graded \in SessionState
         /\ graded.state = "GRADING" /\ st.state = "GRADING"
         /\ graded.current_turn_id = t /\ st.current_turn_id = t
<1>1. st \in SessionState
  BY DEF IInv, TypeOK
<1>2. /\ Graded(t, p, m) \in Event
      /\ Graded(t, p, m).type = "ANSWER_GRADED" /\ Graded(t, p, m).turn_id = t
  BY Constructors DEF Graded, Plain
<1>3. /\ Accepts(st, Graded(t, p, m))
      /\ graded = ApplyGraded(st, Graded(t, p, m))
      /\ graded \in SessionState
  BY <1>1, <1>2, StageType DEF Apply
<1>4. st.state = "GRADING" /\ st.current_turn_id = t
  BY <1>2, <1>3 DEF Accepts, GradeAccepted, Transitions
<1>5. graded.state = st.state /\ graded.current_turn_id = st.current_turn_id
  BY <1>1, <1>3 DEF ApplyGraded, SessionState
<1> QED BY <1>3, <1>4, <1>5

(* The decision after a grade asks, starts a follow-up or ends the         *)
(* interview, and leaves a job behind for what the session now waits for.  *)
LEMMA AfterGradeState ==
  ASSUME IInv, NEW t \in Turns, NEW graded \in SessionState, NEW follow \in BOOLEAN,
         graded.state = "GRADING", graded.current_turn_id = t,
         st.state = "GRADING", AfterGrade(graded, t, follow)
  PROVE  /\ st' \in SessionState
         /\ report' \in ReportRow
         /\ follow_ups' \in [Turns -> FollowUpRow]
         /\ \/ /\ st'.state \in {"ASKING", "REPORTING"}
               /\ follow_ups' = follow_ups
            \/ /\ st'.state = "PROBING" /\ st'.current_turn_id = t /\ FollowUpRoom(st')
               /\ \A u \in Turns : Live(follow_ups'[u]) <=> u = t
         /\ Queued(report') <=> st'.state = "REPORTING"
         /\ report'.status # "ready"
<1> USE DEF IInv, TypeOK
<1>1. report.status = "none" /\ report \in ReportRow /\ follow_ups \in [Turns -> FollowUpRow]
  BY DEF ReportingHasItsReport, ReportRow, ReportStatus
<1>2. [report EXCEPT !.status = "pending"] \in ReportRow
      /\ [report EXCEPT !.status = "pending"].status = "pending"
  BY <1>1, ReportRows DEF ReportRow, ReportStatus
<1>3. CASE follow /\ FollowUpRoom(graded)
  <2>1. DecideFollowUp(graded, t)
    BY <1>3 DEF AfterGrade
  <2>2. PICK probing \in Stage(graded, Plain("FOLLOW_UP_STARTED")) : Advance(probing)
    BY <2>1 DEF DecideFollowUp
  <2>3. /\ probing \in SessionState
        /\ probing = [graded EXCEPT !.state = "PROBING"]
    BY <2>2, StagePlain, EventTypes DEF Transitions
  <2>4. st' = probing /\ st'.state = "PROBING" /\ st'.current_turn_id = t /\ report' = report
    BY <2>2, <2>3 DEF Advance, SessionState
  <2>5. FollowUpRoom(st')
    BY <1>3, <2>3, <2>4 DEF FollowUpRoom, SessionState
  <2> DEFINE row == [status |-> "pending", attempts |-> 0, lease |-> FALSE,
                     item |-> graded.current_item_id,
                     ordinal |-> graded.follow_ups_by_item[graded.current_item_id] + 1]
  <2>6. row \in FollowUpRow
    <3>1. graded.current_item_id \in Items
      BY <1>3 DEF FollowUpRoom, SessionState
    <3>2. graded.follow_ups_by_item[graded.current_item_id] + 1 \in Nat
      BY <3>1 DEF SessionState
    <3> QED BY <3>1, <3>2 DEF FollowUpRow, FollowUpStatus
  <2>7. follow_ups' = [follow_ups EXCEPT ![t] = row]
    BY <2>1 DEF DecideFollowUp
  <2>8. row.status = "pending"
    OBVIOUS
  <2>9. \A u \in Turns : ~Live(follow_ups[u])
    BY DEF ProbingHasItsFollowUp
  <2> HIDE DEF row
  <2>10. follow_ups' \in [Turns -> FollowUpRow]
         /\ \A u \in Turns : Live(follow_ups'[u]) <=> u = t
    BY <1>1, <2>6, <2>7, <2>8, <2>9 DEF Live
  <2> QED BY <1>1, <2>3, <2>4, <2>5, <2>10 DEF Queued
<1>4. CASE ~(follow /\ FollowUpRoom(graded))
  <2>1. PICK s \in StageNextBankQuestion(graded) : Advance(s) /\ UNCHANGED follow_ups
    BY <1>4 DEF AfterGrade, DecideNext
  <2>2. s \in SessionState /\ s.state \in {"ASKING", "REPORTING"}
    BY <2>1, NextBankQuestionState
  <2> QED BY <1>1, <1>2, <2>1, <2>2 DEF Advance, Queued
<1> QED BY <1>3, <1>4

(* A grade is committed with its decision and its charge, once.            *)
LEMMA GradeSucceedsStep ==
  ASSUME IInv, NEW w \in Workers, NEW t \in Turns, GradeSucceeds(w, t)
  PROVE  IInv'
<1> USE DEF IInv, TypeOK
<1>1. PICK p \in BOOLEAN, m \in BOOLEAN, follow \in BOOLEAN :
        \E graded \in Stage(st, Graded(t, p, m)) : AfterGrade(graded, t, follow)
  BY DEF GradeSucceeds
<1>2. PICK graded \in Stage(st, Graded(t, p, m)) : AfterGrade(graded, t, follow)
  BY <1>1
<1>3. /\ graded \in SessionState
      /\ graded.state = "GRADING" /\ st.state = "GRADING"
      /\ graded.current_turn_id = t /\ st.current_turn_id = t
  BY <1>2, GradedState
<1>4. /\ st' \in SessionState
      /\ report' \in ReportRow
      /\ follow_ups' \in [Turns -> FollowUpRow]
      /\ \/ /\ st'.state \in {"ASKING", "REPORTING"}
            /\ follow_ups' = follow_ups
         \/ /\ st'.state = "PROBING" /\ st'.current_turn_id = t /\ FollowUpRoom(st')
            /\ \A u \in Turns : Live(follow_ups'[u]) <=> u = t
      /\ Queued(report') <=> st'.state = "REPORTING"
      /\ report'.status # "ready"
  BY <1>2, <1>3, AfterGradeState
<1>5. /\ turns' = [turns EXCEPT ![t] = Settled(turns[t], "graded")]
      /\ grades' = [grades EXCEPT ![t] = @ + 1]
      /\ turns[t].status = "processing"
      /\ UNCHANGED <<calls, faults, requeues>>
  BY DEF GradeSucceeds, OwnsTurn, Fenced, bounds
<1>6. /\ turns' \in [Turns -> TurnRow] /\ turns'[t].status = "graded"
      /\ \A u \in Turns \ {t} : turns'[u] = turns[u]
  <2>1. turns[t] \in TurnRow
    OBVIOUS
  <2>2. Settled(turns[t], "graded") \in TurnRow /\ Settled(turns[t], "graded").status = "graded"
    BY <2>1, SettledTurn
  <2> QED BY <1>5, <2>2
<1>7. grades' \in [Turns -> Nat]
  BY <1>5
<1>8. jobs' \in [Workers -> Job]
  BY JobTypes DEF GradeSucceeds
<1>9. TypeOK' /\ NeverUndecided'
  BY <1>4, <1>5, <1>6, <1>7, <1>8 DEF NeverUndecided
<1>10. GradedOnce'
  BY <1>5, <1>6 DEF GradedOnce
<1>11. GradingHasItsTurn'
  BY <1>3, <1>4, <1>6 DEF GradingHasItsTurn
<1>12. ProbingHasItsFollowUp'
  BY <1>3, <1>4 DEF ProbingHasItsFollowUp
<1>13. ReportingHasItsReport'
  BY <1>4 DEF ReportingHasItsReport, Queued
<1> QED BY <1>9, <1>10, <1>11, <1>12, <1>13

(* A worded follow-up is asked.                                            *)
LEMMA FollowUpAskStep ==
  ASSUME IInv, NEW w \in Workers, NEW t \in Turns, FollowUpAsk(w, t)
  PROVE  IInv'
<1> USE DEF IInv, TypeOK
<1>1. /\ st' \in Stage(st, FollowUpAsked)
      /\ follow_ups' = [follow_ups EXCEPT ![t] = Settled(follow_ups[t], "ready")]
      /\ follow_ups[t].status = "processing" /\ follow_ups[t] \in FollowUpRow
      /\ UNCHANGED <<turns, report, grades, calls, faults, requeues>>
  BY DEF FollowUpAsk, OwnsFollowUp, Fenced, bounds
<1>2. st' \in SessionState /\ st'.state = "ASKING"
  <2>1. FollowUpAsked \in Event
        /\ FollowUpAsked.type = "QUESTION_ASKED" /\ FollowUpAsked.is_follow_up
    BY Constructors DEF FollowUpAsked, Plain
  <2>2. st' \in SessionState /\ st' = ApplyFollowUp(st)
    BY <1>1, <2>1, StageType DEF Apply
  <2> QED BY <2>2 DEF ApplyFollowUp, SessionState
<1>3. st.state = "PROBING" /\ st.current_turn_id = t
  BY <1>1 DEF ProbingHasItsFollowUp, Live
<1>4. /\ follow_ups' \in [Turns -> FollowUpRow] /\ follow_ups'[t].status = "ready"
      /\ \A u \in Turns \ {t} : follow_ups'[u] = follow_ups[u]
  BY <1>1, SettledFollowUp
<1>5. jobs' \in [Workers -> Job]
  BY JobTypes DEF FollowUpAsk
<1>6. TypeOK' /\ NeverUndecided' /\ GradedOnce'
  BY <1>1, <1>2, <1>4, <1>5 DEF NeverUndecided, GradedOnce
<1>7. GradingHasItsTurn' /\ ReportingHasItsReport'
  BY <1>1, <1>2, <1>3 DEF GradingHasItsTurn, ReportingHasItsReport
<1>8. ProbingHasItsFollowUp'
  BY <1>2, <1>3, <1>4 DEF ProbingHasItsFollowUp, Live
<1> QED BY <1>6, <1>7, <1>8

(* An abandoned follow-up leads to normal selection in the same commit.    *)
LEMMA FollowUpAbandonedStep ==
  ASSUME IInv, NEW w \in Workers, NEW t \in Turns, FollowUpAbandoned(w, t)
  PROVE  IInv'
<1> USE DEF IInv, TypeOK
<1>1. /\ follow_ups' = [follow_ups EXCEPT ![t] = Settled(follow_ups[t], "abandoned")]
      /\ follow_ups[t].status = "processing" /\ follow_ups[t] \in FollowUpRow
      /\ UNCHANGED <<turns, grades, calls, faults, requeues>>
  BY DEF FollowUpAbandoned, OwnsFollowUp, Fenced, bounds
<1>2. st.state = "PROBING" /\ st.current_turn_id = t
  BY <1>1 DEF ProbingHasItsFollowUp, Live
<1>3. PICK s \in AfterAbandon(st) : Advance(s)
  BY DEF FollowUpAbandoned
<1>4. s \in SessionState /\ s.state \in {"ASKING", "REPORTING"}
  <2>1. PICK x \in Stage(st, Plain("FOLLOW_UP_ABANDONED")) : s \in StageNextBankQuestion(x)
    BY <1>2, <1>3 DEF AfterAbandon
  <2>2. x \in SessionState
    BY <2>1, StagePlain, EventTypes
  <2> QED BY <2>1, <2>2, NextBankQuestionState
<1>5. report.status = "none" /\ report \in ReportRow
  BY <1>2 DEF ReportingHasItsReport, ReportRow, ReportStatus
<1>6. [report EXCEPT !.status = "pending"] \in ReportRow
      /\ [report EXCEPT !.status = "pending"].status = "pending"
  BY <1>5, ReportRows DEF ReportRow, ReportStatus
<1>7. /\ st' \in SessionState /\ st'.state \in {"ASKING", "REPORTING"}
      /\ report' \in ReportRow
      /\ Queued(report') <=> st'.state = "REPORTING"
      /\ report'.status # "ready"
  BY <1>3, <1>4, <1>5, <1>6 DEF Advance, Queued
<1>8. /\ follow_ups' \in [Turns -> FollowUpRow] /\ follow_ups'[t].status = "abandoned"
      /\ \A u \in Turns \ {t} : follow_ups'[u] = follow_ups[u]
  BY <1>1, SettledFollowUp
<1>9. jobs' \in [Workers -> Job]
  BY JobTypes DEF FollowUpAbandoned
<1>10. TypeOK' /\ NeverUndecided' /\ GradedOnce'
  BY <1>1, <1>7, <1>8, <1>9 DEF NeverUndecided, GradedOnce
<1>11. GradingHasItsTurn' /\ ReportingHasItsReport'
  BY <1>1, <1>2, <1>7 DEF GradingHasItsTurn, ReportingHasItsReport, Queued
<1>12. ProbingHasItsFollowUp'
  BY <1>2, <1>7, <1>8 DEF ProbingHasItsFollowUp, Live
<1> QED BY <1>10, <1>11, <1>12

(* A session completes together with its report.                           *)
LEMMA ReportCompletesStep ==
  ASSUME IInv, NEW w \in Workers, ReportCompletes(w)
  PROVE  IInv'
<1> USE DEF IInv, TypeOK
<1>1. /\ st.state = "REPORTING"
      /\ st' \in Stage(st, Plain("SESSION_COMPLETED"))
      /\ report' = Settled(report, "ready")
      /\ UNCHANGED <<turns, follow_ups, grades, calls, faults, requeues>>
  BY DEF ReportCompletes, bounds
<1>2. st' \in SessionState /\ st'.state = "COMPLETED"
  <2>1. st' \in SessionState
        /\ st' = [st EXCEPT !.state = Transitions["SESSION_COMPLETED"].to]
    BY <1>1, StagePlain, EventTypes
  <2> QED BY <2>1 DEF Transitions, SessionState
<1>3. report' \in ReportRow /\ report'.status = "ready"
  BY <1>1, SettledReport
<1>4. jobs' \in [Workers -> Job]
  BY JobTypes DEF ReportCompletes
<1>5. TypeOK' /\ NeverUndecided' /\ GradedOnce'
  BY <1>1, <1>2, <1>3, <1>4 DEF NeverUndecided, GradedOnce
<1>6. GradingHasItsTurn' /\ ProbingHasItsFollowUp' /\ ReportingHasItsReport'
  BY <1>1, <1>2, <1>3 DEF GradingHasItsTurn, ProbingHasItsFollowUp, ReportingHasItsReport
<1> QED BY <1>5, <1>6

-----------------------------------------------------------------------------
(* Every step keeps the invariant.                                         *)
LEMMA NextIInv == IInv /\ [Next]_vars => IInv'
<1> SUFFICES ASSUME IInv, [Next]_vars PROVE IInv'
  OBVIOUS
<1>1. CASE UNCHANGED vars
  <2>1. UNCHANGED <<st, turns, follow_ups, report, jobs, grades, calls, faults, requeues>>
    BY <1>1 DEF vars
  <2>2. TypeOK'
    BY <2>1 DEF IInv, TypeOK
  <2> QED BY <2>1, <2>2, QueueStep
<1>2. CASE Candidate
  BY <1>2, StartStep, SubmitStep DEF Candidate
<1>3. ASSUME NEW w \in Workers, Claim(w) PROVE IInv'
  BY <1>3, ClaimTurnStep, ClaimFollowUpStep, ClaimReportStep DEF Claim
<1>4. ASSUME NEW w \in Workers, NEW t \in Turns, GradingJob(w, t) PROVE IInv'
  BY <1>4, GradeSucceedsStep, GradeRetriesStep, GradeFailsStep DEF GradingJob
<1>5. ASSUME NEW w \in Workers, NEW t \in Turns, FollowUpJob(w, t) PROVE IInv'
  BY <1>5, FollowUpAskStep, FollowUpRetriesStep, FollowUpAbandonedStep DEF FollowUpJob
<1>6. ASSUME NEW w \in Workers, ReportJob(w) PROVE IInv'
  BY <1>6, ReportCompletesStep, ReportHandsBackStep DEF ReportJob
<1>7. ASSUME NEW w \in Workers, DiscardResult(w) \/ WorkerLost(w) PROVE IInv'
  BY <1>7, WorkerFreedStep
<1>8. CASE LeaseExpires
  BY <1>8, LeaseStep
<1>9. CASE Operator
  BY <1>9, OperatorStep
<1> QED BY <1>1, <1>2, <1>3, <1>4, <1>5, <1>6, <1>7, <1>8, <1>9 DEF Next, Process

(* The inductive invariant.                                                *)
THEOREM Invariance == Spec => []IInv
<1>1. Init => IInv
  BY InitIInv
<1>2. IInv /\ [Next]_vars => IInv'
  BY NextIInv
<1> QED BY <1>1, <1>2, PTL DEF Spec

(* Every variable keeps its type.                                          *)
THEOREM TypeCorrect == Spec => []TypeOK
<1>1. IInv => TypeOK
  BY DEF IInv
<1> QED BY <1>1, Invariance, PTL

(* A turn's grade and its charge are committed exactly once, however many  *)
(* workers grade it and whenever they wake up.                             *)
THEOREM GradedExactlyOnce == Spec => []GradedOnce
<1>1. IInv => GradedOnce
  BY DEF IInv
<1> QED BY <1>1, Invariance, PTL

(* A session that waits always has the job it waits for, and no other.     *)
THEOREM WaitingHasItsJob ==
  Spec => [](GradingHasItsTurn /\ ProbingHasItsFollowUp /\ ReportingHasItsReport)
<1>1. IInv => GradingHasItsTurn /\ ProbingHasItsFollowUp /\ ReportingHasItsReport
  BY DEF IInv
<1> QED BY <1>1, Invariance, PTL

-----------------------------------------------------------------------------
(* The fence.  A step that claims nothing keeps the attempts charted: it   *)
(* frees workers, and changes no attempt counter but that of a row nobody  *)
(* holds yet.                                                              *)
LEMMA NothingClaimed ==
  ASSUME IInv, AttemptsAreCharted,
         requeues' = 0 => requeues = 0,
         \A v \in Workers : jobs'[v] = jobs[v] \/ jobs'[v] = Idle,
         \A t \in Turns :
           /\ turns'[t].status = "none" => turns[t].status = "none"
           /\ turns[t].status # "none" => turns'[t].attempts = turns[t].attempts,
         \A t \in Turns :
           /\ follow_ups'[t].status = "none" => follow_ups[t].status = "none"
           /\ follow_ups[t].status # "none" => follow_ups'[t].attempts = follow_ups[t].attempts,
         report'.status = "none" => report.status = "none",
         report.status # "none" => report'.attempts = report.attempts
  PROVE  AttemptsAreCharted'
<1> SUFFICES ASSUME requeues' = 0
             PROVE  /\ \A t \in Turns : AttemptsOf(turns[t], TurnHolders(t))'
                    /\ \A t \in Turns : AttemptsOf(follow_ups[t], FollowUpHolders(t))'
                    /\ AttemptsOf(report, ReportHolders)'
  BY DEF AttemptsAreCharted
<1>1. /\ \A t \in Turns : AttemptsOf(turns[t], TurnHolders(t))
      /\ \A t \in Turns : AttemptsOf(follow_ups[t], FollowUpHolders(t))
      /\ AttemptsOf(report, ReportHolders)
  BY DEF AttemptsAreCharted
<1>2. Idle.queue = "none"
  BY DEF Idle
<1>3. ASSUME NEW t \in Turns PROVE AttemptsOf(turns[t], TurnHolders(t))'
  <2>1. \A w \in TurnHolders(t)' : w \in TurnHolders(t) /\ jobs'[w] = jobs[w]
    BY <1>2 DEF TurnHolders, OnTurn
  <2> QED BY <1>1, <2>1 DEF AttemptsOf
<1>4. ASSUME NEW t \in Turns PROVE AttemptsOf(follow_ups[t], FollowUpHolders(t))'
  <2>1. \A w \in FollowUpHolders(t)' : w \in FollowUpHolders(t) /\ jobs'[w] = jobs[w]
    BY <1>2 DEF FollowUpHolders, OnFollowUp
  <2> QED BY <1>1, <2>1 DEF AttemptsOf
<1>5. AttemptsOf(report, ReportHolders)'
  <2>1. \A w \in ReportHolders' : w \in ReportHolders /\ jobs'[w] = jobs[w]
    BY <1>2 DEF ReportHolders, OnReport
  <2> QED BY <1>1, <2>1 DEF AttemptsOf
<1> QED BY <1>3, <1>4, <1>5

(* A claim carries a new highest attempt of its row.                       *)
LEMMA ClaimedTurnCharted ==
  ASSUME IInv, AttemptsAreCharted, NEW w \in Workers, NEW t \in Turns, ClaimTurn(w, t)
  PROVE  AttemptsAreCharted'
<1> SUFFICES ASSUME requeues' = 0
             PROVE  /\ \A u \in Turns : AttemptsOf(turns[u], TurnHolders(u))'
                    /\ \A u \in Turns : AttemptsOf(follow_ups[u], FollowUpHolders(u))'
                    /\ AttemptsOf(report, ReportHolders)'
  BY DEF AttemptsAreCharted
<1> USE DEF IInv, TypeOK
<1>1. /\ \A u \in Turns : AttemptsOf(turns[u], TurnHolders(u))
      /\ \A u \in Turns : AttemptsOf(follow_ups[u], FollowUpHolders(u))
      /\ AttemptsOf(report, ReportHolders)
  BY DEF AttemptsAreCharted, ClaimTurn, bounds
<1>2. /\ turns[t].attempts \in Nat
      /\ turns'[t].attempts = turns[t].attempts + 1 /\ turns'[t].status = "processing"
      /\ \A u \in Turns \ {t} : turns'[u] = turns[u]
      /\ UNCHANGED <<follow_ups, report>>
  BY RowStatus DEF ClaimTurn, TurnRow
<1>3. /\ jobs'[w] = [queue |-> "turns", turn |-> t, attempt |-> turns[t].attempts + 1]
      /\ \A v \in Workers \ {w} : jobs'[v] = jobs[v]
  BY DEF ClaimTurn
<1>4. /\ \A u \in Turns \ {t} : TurnHolders(u)' \subseteq TurnHolders(u) \ {w}
      /\ TurnHolders(t)' \subseteq TurnHolders(t) \cup {w}
      /\ \A u \in Turns : FollowUpHolders(u)' \subseteq FollowUpHolders(u) \ {w}
      /\ ReportHolders' \subseteq ReportHolders \ {w}
  BY <1>3 DEF TurnHolders, OnTurn, FollowUpHolders, OnFollowUp, ReportHolders, OnReport
<1>5. \A v \in Workers : jobs[v].attempt \in Nat
  BY DEF Job
<1>6. AttemptsOf(turns[t], TurnHolders(t))'
  BY <1>1, <1>2, <1>3, <1>4, <1>5 DEF AttemptsOf, TurnHolders
<1>7. \A u \in Turns \ {t} : AttemptsOf(turns[u], TurnHolders(u))'
  BY <1>1, <1>2, <1>3, <1>4 DEF AttemptsOf, TurnHolders
<1>8. \A u \in Turns : AttemptsOf(follow_ups[u], FollowUpHolders(u))'
  BY <1>1, <1>2, <1>3, <1>4 DEF AttemptsOf, FollowUpHolders
<1>9. AttemptsOf(report, ReportHolders)'
  BY <1>1, <1>2, <1>3, <1>4 DEF AttemptsOf, ReportHolders
<1> QED BY <1>6, <1>7, <1>8, <1>9

(* The same for a follow-up.                                               *)
LEMMA ClaimedFollowUpCharted ==
  ASSUME IInv, AttemptsAreCharted, NEW w \in Workers, NEW t \in Turns, ClaimFollowUp(w, t)
  PROVE  AttemptsAreCharted'
<1> SUFFICES ASSUME requeues' = 0
             PROVE  /\ \A u \in Turns : AttemptsOf(turns[u], TurnHolders(u))'
                    /\ \A u \in Turns : AttemptsOf(follow_ups[u], FollowUpHolders(u))'
                    /\ AttemptsOf(report, ReportHolders)'
  BY DEF AttemptsAreCharted
<1> USE DEF IInv, TypeOK
<1>1. /\ \A u \in Turns : AttemptsOf(turns[u], TurnHolders(u))
      /\ \A u \in Turns : AttemptsOf(follow_ups[u], FollowUpHolders(u))
      /\ AttemptsOf(report, ReportHolders)
  BY DEF AttemptsAreCharted, ClaimFollowUp, bounds
<1>2. /\ follow_ups[t].attempts \in Nat
      /\ follow_ups'[t].attempts = follow_ups[t].attempts + 1
      /\ follow_ups'[t].status = "processing"
      /\ \A u \in Turns \ {t} : follow_ups'[u] = follow_ups[u]
      /\ UNCHANGED <<turns, report>>
  BY RowStatus DEF ClaimFollowUp, FollowUpRow
<1>3. /\ jobs'[w] = [queue |-> "follow_ups", turn |-> t,
                     attempt |-> follow_ups[t].attempts + 1]
      /\ \A v \in Workers \ {w} : jobs'[v] = jobs[v]
  BY DEF ClaimFollowUp
<1>4. /\ \A u \in Turns \ {t} : FollowUpHolders(u)' \subseteq FollowUpHolders(u) \ {w}
      /\ FollowUpHolders(t)' \subseteq FollowUpHolders(t) \cup {w}
      /\ \A u \in Turns : TurnHolders(u)' \subseteq TurnHolders(u) \ {w}
      /\ ReportHolders' \subseteq ReportHolders \ {w}
  BY <1>3 DEF TurnHolders, OnTurn, FollowUpHolders, OnFollowUp, ReportHolders, OnReport
<1>5. \A v \in Workers : jobs[v].attempt \in Nat
  BY DEF Job
<1>6. AttemptsOf(follow_ups[t], FollowUpHolders(t))'
  BY <1>1, <1>2, <1>3, <1>4, <1>5 DEF AttemptsOf, FollowUpHolders
<1>7. \A u \in Turns \ {t} : AttemptsOf(follow_ups[u], FollowUpHolders(u))'
  BY <1>1, <1>2, <1>3, <1>4 DEF AttemptsOf, FollowUpHolders
<1>8. \A u \in Turns : AttemptsOf(turns[u], TurnHolders(u))'
  BY <1>1, <1>2, <1>3, <1>4 DEF AttemptsOf, TurnHolders
<1>9. AttemptsOf(report, ReportHolders)'
  BY <1>1, <1>2, <1>3, <1>4 DEF AttemptsOf, ReportHolders
<1> QED BY <1>6, <1>7, <1>8, <1>9

(* The same for the report.                                                *)
LEMMA ClaimedReportCharted ==
  ASSUME IInv, AttemptsAreCharted, NEW w \in Workers, ClaimReport(w)
  PROVE  AttemptsAreCharted'
<1> SUFFICES ASSUME requeues' = 0
             PROVE  /\ \A u \in Turns : AttemptsOf(turns[u], TurnHolders(u))'
                    /\ \A u \in Turns : AttemptsOf(follow_ups[u], FollowUpHolders(u))'
                    /\ AttemptsOf(report, ReportHolders)'
  BY DEF AttemptsAreCharted
<1> USE DEF IInv, TypeOK
<1>1. /\ \A u \in Turns : AttemptsOf(turns[u], TurnHolders(u))
      /\ \A u \in Turns : AttemptsOf(follow_ups[u], FollowUpHolders(u))
      /\ AttemptsOf(report, ReportHolders)
  BY DEF AttemptsAreCharted, ClaimReport, bounds
<1>2. /\ report.attempts \in Nat
      /\ report'.attempts = report.attempts + 1 /\ report'.status = "processing"
      /\ UNCHANGED <<turns, follow_ups>>
  BY RowStatus DEF ClaimReport, ReportRow
<1>3. /\ jobs'[w] = [queue |-> "reports", turn |-> NoTurn, attempt |-> report.attempts + 1]
      /\ \A v \in Workers \ {w} : jobs'[v] = jobs[v]
  BY DEF ClaimReport
<1>4. /\ \A u \in Turns : FollowUpHolders(u)' \subseteq FollowUpHolders(u) \ {w}
      /\ \A u \in Turns : TurnHolders(u)' \subseteq TurnHolders(u) \ {w}
      /\ ReportHolders' \subseteq ReportHolders \cup {w}
  BY <1>3 DEF TurnHolders, OnTurn, FollowUpHolders, OnFollowUp, ReportHolders, OnReport
<1>5. \A v \in Workers : jobs[v].attempt \in Nat
  BY DEF Job
<1>6. AttemptsOf(report, ReportHolders)'
  BY <1>1, <1>2, <1>3, <1>4, <1>5 DEF AttemptsOf, ReportHolders
<1>7. \A u \in Turns : AttemptsOf(follow_ups[u], FollowUpHolders(u))'
  BY <1>1, <1>2, <1>3, <1>4 DEF AttemptsOf, FollowUpHolders
<1>8. \A u \in Turns : AttemptsOf(turns[u], TurnHolders(u))'
  BY <1>1, <1>2, <1>3, <1>4 DEF AttemptsOf, TurnHolders
<1> QED BY <1>6, <1>7, <1>8

(* Settling an attempt does not change the attempt counter.                *)
LEMMA SettledAttempts ==
  ASSUME NEW row \in TurnRow \cup FollowUpRow \cup ReportRow,
         NEW x \in {"pending", "graded", "failed", "ready", "abandoned"}
  PROVE  Settled(row, x).attempts = row.attempts /\ Settled(row, x).status # "none"
  BY DEF Settled, TurnRow, FollowUpRow, ReportRow

(* Creating the report job does not count an attempt.                      *)
LEMMA AdvanceAttempts ==
  ASSUME IInv, NEW s, Advance(s)
  PROVE  report'.attempts = report.attempts
         /\ (report'.status = "none" => report.status = "none")
  BY DEF Advance, IInv, TypeOK, ReportRow

(* A freed worker holds nothing, the others hold what they held.           *)
LEMMA FinishKeeps ==
  ASSUME IInv, NEW w \in Workers, Finish(w)
  PROVE  \A v \in Workers : jobs'[v] = jobs[v] \/ jobs'[v] = Idle
  BY DEF IInv, TypeOK, Finish

(* Grading outcomes keep the attempts charted.                             *)
LEMMA GradingCharted ==
  ASSUME IInv, AttemptsAreCharted, NEW w \in Workers, NEW t \in Turns, GradingJob(w, t)
  PROVE  AttemptsAreCharted'
<1>1. turns \in [Turns -> TurnRow] /\ follow_ups \in [Turns -> FollowUpRow]
  BY DEF IInv, TypeOK
<1>2. PICK x \in {"graded", "pending", "failed"} :
        turns' = [turns EXCEPT ![t] = Settled(turns[t], x)]
  BY DEF GradingJob, GradeSucceeds, GradeRetries, GradeFails
<1>3. \A u \in Turns : /\ turns'[u].status = "none" => turns[u].status = "none"
                       /\ turns'[u].attempts = turns[u].attempts
  BY <1>1, <1>2, SettledAttempts
<1>4. Finish(w) /\ requeues' = requeues
  BY DEF GradingJob, GradeSucceeds, GradeRetries, GradeFails, bounds
<1>5. CASE GradeSucceeds(w, t)
  <2>a. PICK p, m, follow \in BOOLEAN :
          \E graded \in Stage(st, Graded(t, p, m)) : AfterGrade(graded, t, follow)
    BY <1>5 DEF GradeSucceeds
  <2>1. PICK graded \in Stage(st, Graded(t, p, m)) : AfterGrade(graded, t, follow)
    BY <2>a
  <2>2. report'.attempts = report.attempts
        /\ (report'.status = "none" => report.status = "none")
    BY <2>1, AdvanceAttempts DEF AfterGrade, DecideFollowUp, DecideNext
  <2>3. \A u \in Turns :
          /\ follow_ups'[u].status = "none" => follow_ups[u].status = "none"
          /\ follow_ups[u].status # "none" => follow_ups'[u].attempts = follow_ups[u].attempts
    <3>1. CASE DecideFollowUp(graded, t)
      <4>1. PICK i, n : follow_ups' = [follow_ups EXCEPT ![t] =
                          [status |-> "pending", attempts |-> 0, lease |-> FALSE,
                           item |-> i, ordinal |-> n]]
        BY <3>1 DEF DecideFollowUp
      <4>2. follow_ups[t].status = "none"
        BY <3>1 DEF DecideFollowUp, FollowUpSlotFree
      <4> QED BY <1>1, <4>1, <4>2
    <3>2. CASE DecideNext(graded)
      BY <3>2 DEF DecideNext
    <3> QED BY <2>1, <3>1, <3>2 DEF AfterGrade
  <2> QED BY <1>3, <1>4, <2>2, <2>3, FinishKeeps, NothingClaimed
<1>6. CASE GradeRetries(w, t) \/ GradeFails(w, t)
  <2>1. UNCHANGED <<follow_ups, report>>
    BY <1>6 DEF GradeRetries, GradeFails
  <2> QED BY <1>3, <1>4, <2>1, FinishKeeps, NothingClaimed
<1> QED BY <1>5, <1>6 DEF GradingJob

(* Wording outcomes keep the attempts charted.                             *)
LEMMA FollowUpCharted ==
  ASSUME IInv, AttemptsAreCharted, NEW w \in Workers, NEW t \in Turns, FollowUpJob(w, t)
  PROVE  AttemptsAreCharted'
<1>1. follow_ups \in [Turns -> FollowUpRow]
  BY DEF IInv, TypeOK
<1>2. PICK x \in {"ready", "pending", "abandoned"} :
        follow_ups' = [follow_ups EXCEPT ![t] = Settled(follow_ups[t], x)]
  BY DEF FollowUpJob, FollowUpAsk, FollowUpRetries, FollowUpAbandoned
<1>3. \A u \in Turns : /\ follow_ups'[u].status = "none" => follow_ups[u].status = "none"
                       /\ follow_ups'[u].attempts = follow_ups[u].attempts
  BY <1>1, <1>2, SettledAttempts
<1>4. Finish(w) /\ UNCHANGED <<turns, requeues>>
  BY DEF FollowUpJob, FollowUpAsk, FollowUpRetries, FollowUpAbandoned, bounds
<1>5. report'.attempts = report.attempts
      /\ (report'.status = "none" => report.status = "none")
  BY AdvanceAttempts DEF FollowUpJob, FollowUpAsk, FollowUpRetries, FollowUpAbandoned
<1> QED BY <1>3, <1>4, <1>5, FinishKeeps, NothingClaimed

(* Report outcomes keep the attempts charted.                              *)
LEMMA ReportCharted ==
  ASSUME IInv, AttemptsAreCharted, NEW w \in Workers, ReportJob(w)
  PROVE  AttemptsAreCharted'
<1>1. report \in ReportRow
  BY DEF IInv, TypeOK
<1>2. PICK x \in {"ready", "pending", "failed"} : report' = Settled(report, x)
  BY DEF ReportJob, ReportCompletes, ReportRetries, ReportFails
<1>3. report'.attempts = report.attempts /\ report'.status # "none"
  BY <1>1, <1>2, SettledAttempts
<1>4. report.status = "processing"
  BY DEF ReportJob, ReportCompletes, ReportRetries, ReportFails, OwnsReport, Fenced
<1>5. Finish(w) /\ UNCHANGED <<turns, follow_ups, requeues>>
  BY DEF ReportJob, ReportCompletes, ReportRetries, ReportFails, bounds
<1> QED BY <1>3, <1>4, <1>5, FinishKeeps, NothingClaimed

(* Every step keeps the attempts charted; a re-queue ends the obligation.  *)
LEMMA NextCharted == IInv /\ AttemptsAreCharted /\ [Next]_vars => AttemptsAreCharted'
<1> SUFFICES ASSUME IInv, AttemptsAreCharted, [Next]_vars PROVE AttemptsAreCharted'
  OBVIOUS
<1> USE DEF IInv, TypeOK
<1>1. CASE UNCHANGED vars
  BY <1>1 DEF vars, AttemptsAreCharted, AttemptsOf, TurnHolders, FollowUpHolders,
              ReportHolders, OnTurn, OnFollowUp, OnReport
<1>2. CASE StartSession
  <2>1. report'.attempts = report.attempts
        /\ (report'.status = "none" => report.status = "none")
    BY <1>2, AdvanceAttempts DEF StartSession
  <2>2. UNCHANGED <<turns, follow_ups, jobs, requeues>>
    BY <1>2 DEF StartSession, bounds
  <2> QED BY <2>1, <2>2, NothingClaimed
<1>3. ASSUME NEW t \in Turns, SubmitTurn(t) PROVE AttemptsAreCharted'
  <2>1. turns' = [turns EXCEPT ![t].status = "pending"]
        /\ UNCHANGED <<follow_ups, report, jobs, requeues>>
    BY <1>3 DEF SubmitTurn, bounds
  <2>2. \A u \in Turns : /\ turns'[u].status = "none" => turns[u].status = "none"
                         /\ turns'[u].attempts = turns[u].attempts
    BY <2>1 DEF TurnRow
  <2> QED BY <2>1, <2>2, NothingClaimed
<1>4. ASSUME NEW w \in Workers, Claim(w) PROVE AttemptsAreCharted'
  BY <1>4, ClaimedTurnCharted, ClaimedFollowUpCharted, ClaimedReportCharted DEF Claim
<1>5. ASSUME NEW w \in Workers, Process(w) \/ WorkerLost(w) PROVE AttemptsAreCharted'
  <2>1. CASE DiscardResult(w) \/ WorkerLost(w)
    <3>1. Finish(w) /\ UNCHANGED <<turns, follow_ups, report, requeues>>
      BY <2>1 DEF DiscardResult, WorkerLost, bounds
    <3> QED BY <3>1, FinishKeeps, NothingClaimed
  <2> QED BY <1>5, <2>1, GradingCharted, FollowUpCharted, ReportCharted DEF Process
<1>6. CASE LeaseExpires
  <2>1. ASSUME NEW t \in Turns, TurnLeaseExpires(t) PROVE AttemptsAreCharted'
    <3>1. turns' = [turns EXCEPT ![t].lease = FALSE]
          /\ UNCHANGED <<follow_ups, report, jobs, requeues>>
      BY <2>1 DEF TurnLeaseExpires
    <3>2. \A u \in Turns : /\ turns'[u].status = "none" => turns[u].status = "none"
                           /\ turns'[u].attempts = turns[u].attempts
      BY <3>1 DEF TurnRow
    <3> QED BY <3>1, <3>2, NothingClaimed
  <2>2. ASSUME NEW t \in Turns, FollowUpLeaseExpires(t) PROVE AttemptsAreCharted'
    <3>1. follow_ups' = [follow_ups EXCEPT ![t].lease = FALSE]
          /\ UNCHANGED <<turns, report, jobs, requeues>>
      BY <2>2 DEF FollowUpLeaseExpires
    <3>2. \A u \in Turns : /\ follow_ups'[u].status = "none" => follow_ups[u].status = "none"
                           /\ follow_ups'[u].attempts = follow_ups[u].attempts
      BY <3>1 DEF FollowUpRow
    <3> QED BY <3>1, <3>2, NothingClaimed
  <2>3. CASE ReportLeaseExpires
    <3>1. report'.attempts = report.attempts /\ report'.status = report.status
          /\ UNCHANGED <<turns, follow_ups, jobs, requeues>>
      BY <2>3 DEF ReportLeaseExpires, ReportRow
    <3> QED BY <3>1, NothingClaimed
  <2> QED BY <1>6, <2>1, <2>2, <2>3 DEF LeaseExpires
<1>7. CASE Operator
  <2>1. requeues \in Nat /\ requeues' = requeues + 1
    BY <1>7 DEF Operator, RequeueFailedTurn, RequeueFailedReport
  <2>2. requeues' # 0
    BY <2>1
  <2> QED BY <2>2 DEF AttemptsAreCharted
<1> QED BY <1>1, <1>2, <1>3, <1>4, <1>5, <1>6, <1>7 DEF Next, Candidate

(* Charted attempts make the fence exclusive.                              *)
LEMMA ChartedFence == AttemptsAreCharted => OneOwnerUntilRequeued
<1> SUFFICES ASSUME AttemptsAreCharted, requeues = 0,
                    NEW v \in Workers, NEW w \in Workers, v # w
             PROVE  /\ \A t \in Turns : ~(OwnsTurn(v, t) /\ OwnsTurn(w, t))
                    /\ \A t \in Turns : ~(OwnsFollowUp(v, t) /\ OwnsFollowUp(w, t))
                    /\ ~(OwnsReport(v) /\ OwnsReport(w))
  BY DEF OneOwnerUntilRequeued, OneOwner
<1>1. /\ \A t \in Turns : AttemptsOf(turns[t], TurnHolders(t))
      /\ \A t \in Turns : AttemptsOf(follow_ups[t], FollowUpHolders(t))
      /\ AttemptsOf(report, ReportHolders)
  BY DEF AttemptsAreCharted
<1> QED BY <1>1 DEF AttemptsOf, TurnHolders, FollowUpHolders, ReportHolders,
                    OwnsTurn, OwnsFollowUp, OwnsReport, Fenced

(* Until a re-queue, a claim is one of the attempts counted so far and     *)
(* nobody else's.                                                          *)
THEOREM AttemptsCharted == Spec => []AttemptsAreCharted
<1>1. Init => AttemptsAreCharted
  BY DEF Init, AttemptsAreCharted, AttemptsOf, TurnHolders, FollowUpHolders,
         ReportHolders, OnTurn, OnFollowUp, OnReport, Idle
<1>2. IInv /\ AttemptsAreCharted /\ [Next]_vars => AttemptsAreCharted'
  BY NextCharted
<1> QED BY <1>1, <1>2, Invariance, PTL DEF Spec

(* As long as no operator re-queues, two workers never both pass the fence *)
(* of one row, however many claims were lost or outlived.                  *)
THEOREM FenceIsExclusive == Spec => []OneOwnerUntilRequeued
<1>1. AttemptsAreCharted => OneOwnerUntilRequeued
  BY ChartedFence
<1> QED BY <1>1, AttemptsCharted, PTL

-----------------------------------------------------------------------------
(* The model calls.  One more re-queue allows for one more budget of them. *)
LEMMA BudgetGrows ==
  \A r \in Nat : /\ MaxAttempts * r \in Nat
                 /\ MaxAttempts * (r + 1) = MaxAttempts * r + MaxAttempts
                 /\ MaxAttempts * (1 + r) = MaxAttempts * r + MaxAttempts
  BY AttemptsAssumption

(* Steps that call no model and re-queue nothing keep the calls charted.   *)
LEMMA NothingCalled ==
  ASSUME CallsAreCharted, UNCHANGED <<calls, requeues>>,
         \A u \in Turns : turns'[u].attempts = turns[u].attempts
  PROVE  CallsAreCharted'
  BY DEF CallsAreCharted

(* A claim counts its attempt, and calls the model within the budget.      *)
LEMMA ClaimCalls ==
  ASSUME TypeOK, CallsAreCharted, NEW w \in Workers, NEW t \in Turns, ClaimTurn(w, t)
  PROVE  CallsAreCharted'
<1> DEFINE n == turns[t].attempts
           budget == MaxAttempts * requeues
<1>1. n \in Nat /\ calls[t] \in Nat /\ budget \in Nat
  BY BudgetGrows DEF TypeOK, TurnRow
<1>2. calls[t] <= budget + (IF n <= MaxAttempts THEN n ELSE MaxAttempts)
  BY DEF CallsAreCharted
<1>3. /\ turns'[t].attempts = n + 1
      /\ \A u \in Turns \ {t} : turns'[u] = turns[u]
  BY DEF ClaimTurn, Claimed, TypeOK, TurnRow
<1>4. /\ calls'[t] = IF n + 1 > MaxAttempts THEN calls[t] ELSE calls[t] + 1
      /\ \A u \in Turns \ {t} : calls'[u] = calls[u]
      /\ requeues' = requeues
  BY DEF ClaimTurn, TypeOK, bounds
<1>5. calls'[t] <= budget + (IF n + 1 <= MaxAttempts THEN n + 1 ELSE MaxAttempts)
  <2> HIDE DEF n, budget
  <2> QED BY <1>1, <1>2, <1>4, AttemptsAssumption
<1> HIDE DEF n
<1> QED BY <1>3, <1>4, <1>5 DEF CallsAreCharted

(* Whatever the counters were, one more re-queue pays for them.            *)
LEMMA RequeueCalls ==
  ASSUME TypeOK, CallsAreCharted, calls' = calls, requeues' = requeues + 1,
         turns' \in [Turns -> TurnRow]
  PROVE  CallsAreCharted'
<1> SUFFICES ASSUME NEW t \in Turns
             PROVE  calls[t] <= MaxAttempts * (requeues + 1)
                      + (IF turns'[t].attempts <= MaxAttempts THEN turns'[t].attempts
                                                              ELSE MaxAttempts)
  BY DEF CallsAreCharted
<1> DEFINE n == turns[t].attempts
           m == turns'[t].attempts
           budget == MaxAttempts * requeues
<1>1. /\ n \in Nat /\ m \in Nat /\ calls[t] \in Nat /\ budget \in Nat
      /\ MaxAttempts * (requeues + 1) = budget + MaxAttempts
  BY BudgetGrows DEF TypeOK, TurnRow
<1>2. calls[t] <= budget + (IF n <= MaxAttempts THEN n ELSE MaxAttempts)
  BY DEF CallsAreCharted
<1>3. calls[t] <= budget + MaxAttempts + (IF m <= MaxAttempts THEN m ELSE MaxAttempts)
  <2> HIDE DEF n, m, budget
  <2> QED BY <1>1, <1>2, AttemptsAssumption
<1> QED BY <1>1, <1>3

(* Every step keeps the calls charted.                                     *)
LEMMA NextCalls == IInv /\ CallsAreCharted /\ [Next]_vars => CallsAreCharted'
<1> SUFFICES ASSUME IInv, CallsAreCharted, [Next]_vars PROVE CallsAreCharted'
  OBVIOUS
<1> USE DEF IInv, TypeOK
<1>1. CASE UNCHANGED vars
  BY <1>1, NothingCalled DEF vars
<1>2. CASE StartSession
  BY <1>2, NothingCalled DEF StartSession, bounds
<1>3. ASSUME NEW t \in Turns, SubmitTurn(t) PROVE CallsAreCharted'
  <2>1. \A u \in Turns : turns'[u].attempts = turns[u].attempts
    BY <1>3 DEF SubmitTurn, TurnRow
  <2> QED BY <1>3, <2>1, NothingCalled DEF SubmitTurn, bounds
<1>4. ASSUME NEW w \in Workers, Claim(w) PROVE CallsAreCharted'
  <2>1. ASSUME NEW t \in Turns, ClaimTurn(w, t) PROVE CallsAreCharted'
    BY <2>1, ClaimCalls
  <2>2. ASSUME NEW t \in Turns, ClaimFollowUp(w, t) PROVE CallsAreCharted'
    BY <2>2, NothingCalled DEF ClaimFollowUp, bounds
  <2>3. CASE ClaimReport(w)
    BY <2>3, NothingCalled DEF ClaimReport, bounds
  <2> QED BY <1>4, <2>1, <2>2, <2>3 DEF Claim
<1>5. ASSUME NEW w \in Workers, NEW t \in Turns, GradingJob(w, t) PROVE CallsAreCharted'
  <2>1. \A x : \A row \in TurnRow : Settled(row, x).attempts = row.attempts
    BY DEF Settled, TurnRow
  <2>2. /\ turns[t] \in TurnRow
        /\ \E x : turns' = [turns EXCEPT ![t] = Settled(@, x)]
    BY <1>5 DEF GradingJob, GradeSucceeds, GradeRetries, GradeFails
  <2>3. \A u \in Turns : turns'[u].attempts = turns[u].attempts
    BY <2>1, <2>2
  <2> QED BY <1>5, <2>3, NothingCalled
          DEF GradingJob, GradeSucceeds, GradeRetries, GradeFails, bounds
<1>6. ASSUME NEW w \in Workers, NEW t \in Turns, FollowUpJob(w, t) PROVE CallsAreCharted'
  BY <1>6, NothingCalled
     DEF FollowUpJob, FollowUpAsk, FollowUpRetries, FollowUpAbandoned, bounds
<1>7. ASSUME NEW w \in Workers, ReportJob(w) PROVE CallsAreCharted'
  BY <1>7, NothingCalled DEF ReportJob, ReportCompletes, ReportRetries, ReportFails, bounds
<1>8. ASSUME NEW w \in Workers, DiscardResult(w) \/ WorkerLost(w) PROVE CallsAreCharted'
  BY <1>8, NothingCalled DEF DiscardResult, WorkerLost, bounds
<1>9. CASE LeaseExpires
  <2>1. ASSUME NEW t \in Turns, TurnLeaseExpires(t) PROVE CallsAreCharted'
    <3>1. \A u \in Turns : turns'[u].attempts = turns[u].attempts
      BY <2>1 DEF TurnLeaseExpires, TurnRow
    <3> QED BY <2>1, <3>1, NothingCalled DEF TurnLeaseExpires
  <2>2. ASSUME NEW t \in Turns, FollowUpLeaseExpires(t) PROVE CallsAreCharted'
    BY <2>2, NothingCalled DEF FollowUpLeaseExpires
  <2>3. CASE ReportLeaseExpires
    BY <2>3, NothingCalled DEF ReportLeaseExpires
  <2> QED BY <1>9, <2>1, <2>2, <2>3 DEF LeaseExpires
<1>10. CASE Operator
  <2>1. turns' \in [Turns -> TurnRow]
    BY NextIInv
  <2> QED BY <1>10, <2>1, RequeueCalls DEF Operator, RequeueFailedTurn, RequeueFailedReport
<1> QED BY <1>1, <1>2, <1>3, <1>4, <1>5, <1>6, <1>7, <1>8, <1>9, <1>10
        DEF Next, Candidate, Process

(* A turn reaches the model at most GRADING_MAX_ATTEMPTS times for each    *)
(* time it was queued, claims of workers that died included.               *)
THEOREM ModelCallsBounded == Spec => []CallsBounded
<1>1. Init => CallsAreCharted
  <2>1. MaxAttempts * 0 = 0 /\ 0 <= MaxAttempts
    BY AttemptsAssumption
  <2> QED BY <2>1 DEF Init, NoRow, CallsAreCharted
<1>2. IInv /\ CallsAreCharted /\ [Next]_vars => CallsAreCharted'
  BY NextCalls
<1>3. IInv /\ CallsAreCharted => CallsBounded
  <2> SUFFICES ASSUME IInv, CallsAreCharted, NEW t \in Turns
               PROVE  calls[t] <= MaxAttempts * (1 + requeues)
    BY DEF CallsBounded
  <2> DEFINE n == turns[t].attempts
             budget == MaxAttempts * requeues
  <2>1. /\ n \in Nat /\ calls[t] \in Nat /\ budget \in Nat
        /\ MaxAttempts * (1 + requeues) = budget + MaxAttempts
    BY BudgetGrows DEF IInv, TypeOK, TurnRow
  <2>2. calls[t] <= budget + (IF n <= MaxAttempts THEN n ELSE MaxAttempts)
    BY DEF CallsAreCharted
  <2>3. calls[t] <= budget + MaxAttempts
    <3> HIDE DEF n, budget
    <3> QED BY <2>1, <2>2, AttemptsAssumption
  <2> QED BY <2>1, <2>3
<1> QED BY <1>1, <1>2, <1>3, Invariance, PTL DEF Spec

-----------------------------------------------------------------------------
(* What is settled stays settled: every write finds its row unsettled, and *)
(* a completed session has no row left to write.                           *)
LEMMA SettledStep == IInv /\ [Next]_vars => [SettledKept]_vars
<1> SUFFICES ASSUME IInv, Next PROVE SettledKept
  BY DEF SettledKept, vars
<1> USE DEF IInv, TypeOK
<1>1. CASE StartSession
  BY <1>1 DEF StartSession, SettledKept
<1>2. ASSUME NEW t \in Turns, SubmitTurn(t) PROVE SettledKept
  <2>1. st.state = "ASKING"
    BY <1>2 DEF SubmitTurn, Stage, Accepts, Submitted, Plain, Transitions
  <2> QED BY <1>2, <2>1 DEF SubmitTurn, SettledKept
<1>3. ASSUME NEW w \in Workers, NEW t \in Turns, ClaimTurn(w, t) PROVE SettledKept
  <2>1. turns[t].status \in {"pending", "processing"}
    BY <1>3 DEF ClaimTurn, Claimable
  <2>2. st.state = "GRADING"
    BY <2>1 DEF GradingHasItsTurn
  <2> QED BY <1>3, <2>1, <2>2 DEF ClaimTurn, SettledKept
<1>4. ASSUME NEW w \in Workers, NEW t \in Turns, ClaimFollowUp(w, t) PROVE SettledKept
  <2>1. Live(follow_ups[t])
    BY <1>4 DEF ClaimFollowUp, Claimable, Live
  <2>2. st.state = "PROBING"
    BY <2>1 DEF ProbingHasItsFollowUp
  <2> QED BY <1>4, <2>1, <2>2 DEF ClaimFollowUp, SettledKept, Live
<1>5. ASSUME NEW w \in Workers, ClaimReport(w) PROVE SettledKept
  <2>1. st.state = "REPORTING"
    BY <1>5 DEF ClaimReport, Claimable, ReportingHasItsReport
  <2> QED BY <1>5, <2>1 DEF ClaimReport, SettledKept
<1>6. ASSUME NEW w \in Workers, NEW t \in Turns, GradingJob(w, t) PROVE SettledKept
  <2>1. turns[t].status = "processing"
    BY <1>6 DEF GradingJob, GradeSucceeds, GradeRetries, GradeFails, OwnsTurn, Fenced
  <2>2. st.state = "GRADING"
    BY <2>1 DEF GradingHasItsTurn
  <2>3. \A u \in Turns \ {t} : turns'[u] = turns[u]
    BY <1>6 DEF GradingJob, GradeSucceeds, GradeRetries, GradeFails
  <2>4. \A u \in Turns : follow_ups[u].status # "none" => follow_ups'[u] = follow_ups[u]
    <3>1. CASE GradeSucceeds(w, t)
      <4>1. PICK p, m, follow \in BOOLEAN :
              \E graded \in Stage(st, Graded(t, p, m)) : AfterGrade(graded, t, follow)
        BY <3>1 DEF GradeSucceeds
      <4>2. PICK graded \in Stage(st, Graded(t, p, m)) : AfterGrade(graded, t, follow)
        BY <4>1
      <4>3. CASE DecideFollowUp(graded, t)
        BY <4>3 DEF DecideFollowUp, FollowUpSlotFree
      <4>4. CASE DecideNext(graded)
        BY <4>4 DEF DecideNext
      <4> QED BY <4>2, <4>3, <4>4 DEF AfterGrade
    <3>2. CASE GradeRetries(w, t) \/ GradeFails(w, t)
      BY <3>2 DEF GradeRetries, GradeFails
    <3> QED BY <1>6, <3>1, <3>2 DEF GradingJob
  <2> QED BY <2>1, <2>2, <2>3, <2>4 DEF SettledKept
<1>7. ASSUME NEW w \in Workers, NEW t \in Turns, FollowUpJob(w, t) PROVE SettledKept
  <2>1. follow_ups[t].status = "processing"
    BY <1>7 DEF FollowUpJob, FollowUpAsk, FollowUpRetries, FollowUpAbandoned,
                OwnsFollowUp, Fenced
  <2>2. st.state = "PROBING"
    BY <2>1 DEF ProbingHasItsFollowUp, Live
  <2>3. turns' = turns /\ \A u \in Turns \ {t} : follow_ups'[u] = follow_ups[u]
    BY <1>7 DEF FollowUpJob, FollowUpAsk, FollowUpRetries, FollowUpAbandoned
  <2> QED BY <2>1, <2>2, <2>3 DEF SettledKept
<1>8. ASSUME NEW w \in Workers, ReportJob(w) PROVE SettledKept
  <2>1. report.status = "processing" /\ UNCHANGED <<turns, follow_ups>>
    BY <1>8 DEF ReportJob, ReportCompletes, ReportRetries, ReportFails, OwnsReport, Fenced
  <2>2. st.state = "REPORTING"
    BY <2>1 DEF ReportingHasItsReport
  <2> QED BY <2>1, <2>2 DEF SettledKept
<1>9. ASSUME NEW w \in Workers, DiscardResult(w) \/ WorkerLost(w) PROVE SettledKept
  BY <1>9 DEF DiscardResult, WorkerLost, SettledKept
<1>10. CASE LeaseExpires
  <2>1. ASSUME NEW t \in Turns, TurnLeaseExpires(t) PROVE SettledKept
    <3>1. turns[t].status = "processing" /\ st.state = "GRADING"
      BY <2>1 DEF TurnLeaseExpires, Expires, GradingHasItsTurn
    <3> QED BY <2>1, <3>1 DEF TurnLeaseExpires, SettledKept
  <2>2. ASSUME NEW t \in Turns, FollowUpLeaseExpires(t) PROVE SettledKept
    <3>1. follow_ups[t].status = "processing" /\ st.state = "PROBING"
      BY <2>2 DEF FollowUpLeaseExpires, Expires, ProbingHasItsFollowUp, Live
    <3> QED BY <2>2, <3>1 DEF FollowUpLeaseExpires, SettledKept
  <2>3. CASE ReportLeaseExpires
    <3>1. st.state = "REPORTING"
      BY <2>3 DEF ReportLeaseExpires, Expires, ReportingHasItsReport
    <3> QED BY <2>3, <3>1 DEF ReportLeaseExpires, SettledKept
  <2> QED BY <1>10, <2>1, <2>2, <2>3 DEF LeaseExpires
<1>11. CASE Operator
  <2>1. ASSUME NEW t \in Turns, RequeueFailedTurn(t) PROVE SettledKept
    <3>1. turns[t].status = "failed" /\ st.state = "GRADING"
      BY <2>1 DEF RequeueFailedTurn, GradingHasItsTurn
    <3> QED BY <2>1, <3>1 DEF RequeueFailedTurn, SettledKept
  <2>2. CASE RequeueFailedReport
    <3>1. st.state = "REPORTING"
      BY <2>2 DEF RequeueFailedReport, ReportingHasItsReport
    <3> QED BY <2>2, <3>1 DEF RequeueFailedReport, SettledKept
  <2> QED BY <1>11, <2>1, <2>2 DEF Operator
<1> QED BY <1>1, <1>2, <1>3, <1>4, <1>5, <1>6, <1>7, <1>8, <1>9, <1>10, <1>11
        DEF Next, Candidate, Claim, Process

(* Graded turns, settled follow-ups and completed sessions are never       *)
(* written again, whoever wakes up late.                                   *)
THEOREM SettledForever == Spec => SettledIsFinal
<1>1. IInv /\ [Next]_vars => [SettledKept]_vars
  BY SettledStep
<1> QED BY <1>1, Invariance, PTL DEF Spec, SettledIsFinal

(* In every state, and whatever becomes of the workers, a session has      *)
(* exactly the job that will move it, and never waits between decisions.   *)
THEOREM EveryStateWorks == Spec => []EveryStateHasItsWork
<1>1. IInv => EveryStateHasItsWork
  BY DEF IInv, EveryStateHasItsWork
<1> QED BY <1>1, Invariance, PTL

-----------------------------------------------------------------------------
(***************************************************************************)
(* What each step does to the questions asked and to the follow-ups.       *)
(***************************************************************************)
(* The session moves on the same item, or to an item never asked before.   *)
SameItem(s, x) == /\ x.asked_question_ids = s.asked_question_ids
                  /\ x.current_item_id = s.current_item_id
                  /\ x.follow_ups_by_item = s.follow_ups_by_item
NextItem(s, x) ==
  /\ x.follow_ups_by_item = s.follow_ups_by_item
  /\ x.state = "ASKING"
  /\ \E q \in Eligible(s) : /\ x.asked_question_ids = Append(s.asked_question_ids, q)
                            /\ x.current_item_id = q

(* A decision asks an item never asked before, or reports.                 *)
LEMMA DecisionEffect ==
  ASSUME NEW s \in SessionState, NEW y \in SessionState,
         SameItem(s, y), NEW x \in StageNextBankQuestion(y)
  PROVE  NextItem(s, x) \/ (SameItem(s, x) /\ x.state = "REPORTING")
<1>1. Eligible(y) = Eligible(s)
  BY DEF SameItem, Eligible, AskedItems, AskedCount, UsedTime
<1>2. CASE x = [y EXCEPT !.state = "REPORTING"]
  BY <1>2 DEF SameItem, SessionState
<1>3. CASE \E q \in Eligible(y) : x = ApplyAsked(y, q)
  BY <1>1, <1>3 DEF SameItem, NextItem, ApplyAsked, SessionState
<1> QED BY <1>2, <1>3, NextBankQuestionOutcome

(* A plain event leaves the item alone.                                    *)
LEMMA PlainEffect ==
  ASSUME NEW s \in SessionState, NEW type \in EventType,
         type \notin {"QUESTION_ASKED", "ANSWER_SUBMITTED", "ANSWER_GRADED"},
         NEW x \in Stage(s, Plain(type))
  PROVE  x \in SessionState /\ SameItem(s, x)
  BY StagePlain DEF SameItem, SessionState

(* What starting a session does to its state.                              *)
LEMMA StartEffect ==
  ASSUME IInv, StartSession
  PROVE  NextItem(st, st')
<1>1. PICK preparing \in Stage(st, Plain("PREPARATION_STARTED")) :
        \E asking \in StageNextBankQuestion(preparing) : Advance(asking)
  BY DEF StartSession
<1>2. preparing \in SessionState /\ SameItem(st, preparing) /\ preparing.state = "PREPARING"
  <2>1. st \in SessionState /\ "PREPARATION_STARTED" \in EventType
    BY EventTypes DEF IInv, TypeOK
  <2>2. preparing = [st EXCEPT !.state = Transitions["PREPARATION_STARTED"].to]
    BY <2>1, StagePlain
  <2> QED BY <2>1, <2>2, PlainEffect DEF Transitions, SessionState
<1>3. st' \in StageNextBankQuestion(preparing)
  BY <1>1 DEF Advance
<1>4. st'.state = "ASKING"
  BY <1>2, <1>3, NextBankQuestionState
<1> QED BY <1>2, <1>3, <1>4, DecisionEffect DEF IInv, TypeOK

(* What an accepted answer does to it.                                     *)
LEMMA SubmitEffect ==
  ASSUME IInv, NEW t \in Turns, SubmitTurn(t)
  PROVE  SameItem(st, st') /\ st.state = "ASKING" /\ st'.state = "GRADING"
<1>1. st \in SessionState
  BY DEF IInv, TypeOK
<1>2. Submitted(t) \in Event /\ Submitted(t).type = "ANSWER_SUBMITTED"
  BY Constructors DEF Submitted, Plain
<1>3. Accepts(st, Submitted(t)) /\ st' = Apply(st, Submitted(t))
  BY <1>1, <1>2, StageType DEF SubmitTurn
<1>4. st.state = "ASKING"
  BY <1>2, <1>3 DEF Accepts, Transitions
<1>5. st' = [st EXCEPT !.state = "GRADING", !.current_turn_id = Submitted(t).turn_id,
                       !.current_graded = FALSE]
  BY <1>2, <1>3 DEF Apply
<1> QED BY <1>1, <1>4, <1>5 DEF SameItem, SessionState

(* The row a decided follow-up inserts.                                    *)
FollowUpRowOf(s) == [status |-> "pending", attempts |-> 0, lease |-> FALSE,
                     item |-> s.current_item_id,
                     ordinal |-> s.follow_ups_by_item[s.current_item_id] + 1]

(* What a grade and the decision after it do to it.                        *)
LEMMA GradeEffect ==
  ASSUME IInv, NEW w \in Workers, NEW t \in Turns, GradeSucceeds(w, t)
  PROVE  \/ /\ NextItem(st, st') \/ (SameItem(st, st') /\ st'.state = "REPORTING")
            /\ follow_ups' = follow_ups
         \/ /\ SameItem(st, st') /\ st'.state = "PROBING"
            /\ st.current_item_id \in Items
            /\ follow_ups' = [follow_ups EXCEPT ![t] = FollowUpRowOf(st)]
<1>1. PICK p \in BOOLEAN, m \in BOOLEAN, follow \in BOOLEAN :
        \E graded \in Stage(st, Graded(t, p, m)) : AfterGrade(graded, t, follow)
  BY DEF GradeSucceeds
<1>2. PICK graded \in Stage(st, Graded(t, p, m)) : AfterGrade(graded, t, follow)
  BY <1>1
<1>3. st \in SessionState
  BY DEF IInv, TypeOK
<1>4. graded \in SessionState /\ SameItem(st, graded)
  <2>1. /\ Graded(t, p, m) \in Event /\ Graded(t, p, m).type = "ANSWER_GRADED"
    BY Constructors DEF Graded, Plain
  <2>2. graded = ApplyGraded(st, Graded(t, p, m)) /\ graded \in SessionState
    BY <1>2, <1>3, <2>1, StageType DEF Apply
  <2> QED BY <1>3, <2>2 DEF ApplyGraded, SameItem, SessionState
<1>5. CASE follow /\ FollowUpRoom(graded)
  <2>1. DecideFollowUp(graded, t)
    BY <1>2, <1>5 DEF AfterGrade
  <2>2. PICK probing \in Stage(graded, Plain("FOLLOW_UP_STARTED")) : Advance(probing)
    BY <2>1 DEF DecideFollowUp
  <2>3. probing = [graded EXCEPT !.state = "PROBING"] /\ st' = probing
    BY <1>4, <2>2, StagePlain, EventTypes DEF Transitions, Advance
  <2>4. SameItem(st, st') /\ st'.state = "PROBING"
    BY <1>4, <2>3 DEF SameItem, SessionState
  <2>5. follow_ups' = [follow_ups EXCEPT ![t] = FollowUpRowOf(st)]
    BY <1>4, <2>1 DEF DecideFollowUp, FollowUpRowOf, SameItem
  <2>6. st.current_item_id \in Items
    BY <1>3, <1>4, <1>5 DEF FollowUpRoom, SameItem, SessionState
  <2> QED BY <2>4, <2>5, <2>6
<1>6. CASE ~(follow /\ FollowUpRoom(graded))
  <2>1. PICK s \in StageNextBankQuestion(graded) : Advance(s) /\ UNCHANGED follow_ups
    BY <1>2, <1>6 DEF AfterGrade, DecideNext
  <2> QED BY <1>3, <1>4, <2>1, DecisionEffect DEF Advance
<1> QED BY <1>5, <1>6

(* What asking a follow-up does to it.                                     *)
LEMMA FollowUpAskEffect ==
  ASSUME IInv, NEW w \in Workers, NEW t \in Turns, FollowUpAsk(w, t)
  PROVE  /\ st' = ApplyFollowUp(st)
         /\ st.state = "PROBING" /\ st.current_item_id \in Items
         /\ Live(follow_ups[t])
         /\ follow_ups' = [follow_ups EXCEPT ![t] = Settled(@, "ready")]
<1>1. st \in SessionState
  BY DEF IInv, TypeOK
<1>2. /\ FollowUpAsked \in Event
      /\ FollowUpAsked.type = "QUESTION_ASKED" /\ FollowUpAsked.is_follow_up
  BY Constructors DEF FollowUpAsked, Plain
<1>3. Accepts(st, FollowUpAsked) /\ st' = ApplyFollowUp(st)
  BY <1>1, <1>2, StageType DEF FollowUpAsk, Apply
<1>4. st.state = "PROBING" /\ FollowUpRoom(st)
  BY <1>2, <1>3 DEF Accepts, AskAccepted
<1>5. st.current_item_id \in Items
  BY <1>1, <1>4 DEF FollowUpRoom, SessionState
<1> QED BY <1>3, <1>4, <1>5 DEF FollowUpAsk, OwnsFollowUp, Fenced, Live

(* What giving up on a follow-up does to it.                               *)
LEMMA AbandonEffect ==
  ASSUME IInv, NEW w \in Workers, NEW t \in Turns, FollowUpAbandoned(w, t)
  PROVE  /\ NextItem(st, st') \/ (SameItem(st, st') /\ st'.state = "REPORTING")
         /\ Live(follow_ups[t])
         /\ follow_ups' = [follow_ups EXCEPT ![t] = Settled(@, "abandoned")]
<1>1. /\ follow_ups[t].status = "processing"
      /\ follow_ups' = [follow_ups EXCEPT ![t] = Settled(@, "abandoned")]
  BY DEF FollowUpAbandoned, OwnsFollowUp, Fenced
<1>2. st \in SessionState /\ st.state = "PROBING"
  BY <1>1 DEF IInv, TypeOK, ProbingHasItsFollowUp, Live
<1>3. PICK x \in Stage(st, Plain("FOLLOW_UP_ABANDONED")) : st' \in StageNextBankQuestion(x)
  BY <1>2 DEF FollowUpAbandoned, AfterAbandon, Advance
<1>4. x \in SessionState /\ SameItem(st, x)
  BY <1>2, <1>3, EventTypes, PlainEffect
<1> QED BY <1>1, <1>2, <1>3, <1>4, DecisionEffect DEF Live

(* What completing the session does to it.                                 *)
LEMMA CompleteEffect ==
  ASSUME IInv, NEW w \in Workers, ReportCompletes(w)
  PROVE  SameItem(st, st') /\ st'.state = "COMPLETED"
<1>1. st \in SessionState
  BY DEF IInv, TypeOK
<1>2. st' = [st EXCEPT !.state = Transitions["SESSION_COMPLETED"].to]
  BY <1>1, StagePlain, EventTypes DEF ReportCompletes
<1> QED BY <1>1, <1>2 DEF Transitions, SameItem, SessionState

(* No other step moves the session.                                        *)
LEMMA FailEffect ==
  ASSUME IInv, NEW w \in Workers, NEW t \in Turns, GradeFails(w, t)
  PROVE  st' = st
<1>1. turns[t].status = "processing" /\ st \in SessionState
  BY DEF GradeFails, OwnsTurn, Fenced, IInv, TypeOK
<1>2. st.state = "GRADING"
  BY <1>1 DEF IInv, GradingHasItsTurn
<1>3. Apply(st, GradingFailed(t)) = [st EXCEPT !.state = "GRADING"]
  BY DEF Apply, GradingFailed, Plain, Transitions
<1>4. [st EXCEPT !.state = "GRADING"] = st
  BY <1>1, <1>2 DEF SessionState
<1> QED BY <1>3, <1>4 DEF GradeFails

-----------------------------------------------------------------------------
(* The questions asked change by one eligible item, or not at all.         *)
LEMMA AskedEffect ==
  ASSUME IInv, [Next]_vars
  PROVE  st'.asked_question_ids = st.asked_question_ids \/ NextItem(st, st')
<1>1. CASE Candidate
  BY <1>1, StartEffect, SubmitEffect DEF Candidate, SameItem
<1>2. ASSUME NEW w \in Workers, NEW t \in Turns, GradingJob(w, t) \/ FollowUpJob(w, t)
      PROVE  st'.asked_question_ids = st.asked_question_ids \/ NextItem(st, st')
  <2>1. st \in SessionState
    BY DEF IInv, TypeOK
  <2>2. FollowUpAsk(w, t) => st'.asked_question_ids = st.asked_question_ids
    BY <2>1, FollowUpAskEffect DEF ApplyFollowUp, SessionState
  <2> QED BY <1>2, <2>2, GradeEffect, FailEffect, AbandonEffect
        DEF GradingJob, FollowUpJob, SameItem, GradeRetries, FollowUpRetries
<1>3. ASSUME NEW w \in Workers, ReportJob(w) \/ DiscardResult(w) \/ WorkerLost(w)
      PROVE  st'.asked_question_ids = st.asked_question_ids
  BY <1>3, CompleteEffect DEF ReportJob, SameItem, ReportRetries, ReportFails,
                              DiscardResult, WorkerLost
<1>4. ASSUME NEW w \in Workers, Claim(w) PROVE st' = st
  BY <1>4 DEF Claim, ClaimTurn, ClaimFollowUp, ClaimReport
<1>5. LeaseExpires \/ Operator => st' = st
  BY DEF LeaseExpires, TurnLeaseExpires, FollowUpLeaseExpires, ReportLeaseExpires,
         Operator, RequeueFailedTurn, RequeueFailedReport
<1>6. UNCHANGED vars => st' = st
  BY DEF vars
<1> QED BY <1>1, <1>2, <1>3, <1>4, <1>5, <1>6 DEF Next, Process

(* On every path to a bank question the interview keeps to its blueprint,  *)
(* the path after an abandoned follow-up, which does not consult the       *)
(* stopping rule, included (constraints.py, flow.py).                      *)
THEOREM BlueprintKept == Spec => []WithinBlueprint
<1>1. Init => Fits(st)
  <2> SUFFICES ASSUME Init PROVE Fits(st)
    OBVIOUS
  <2>1. st.asked_question_ids = <<>>
    BY Constructors, EventTypes DEF Init, Apply, Initial
  <2>2. AskedItems(st) = {} /\ Len(st.asked_question_ids) = 0
    BY <2>1 DEF AskedItems
  <2>3. UsedTime(st) = 0
    <3>1. SumOf(TimeOf, {}) = 0
      BY FS_EmptySet, SumUnfolds
    <3> QED BY <2>2, <3>1, Zenon DEF UsedTime, SumOf
  <2>4. ASSUME NEW topic \in Topics PROVE AskedCount(st, topic) = 0
    <3>1. {q \in AskedItems(st) : TopicOf[q] = topic} = {}
      BY <2>2
    <3> QED BY <3>1, FS_EmptySet DEF AskedCount
  <2> QED BY <2>2, <2>3, <2>4, FS_EmptySet, BlueprintAssumption DEF Fits
<1>2. IInv /\ IInv' /\ Fits(st) /\ [Next]_vars => Fits(st)'
  <2> SUFFICES ASSUME IInv, IInv', Fits(st), [Next]_vars PROVE Fits(st')
    OBVIOUS
  <2>1. st \in SessionState /\ st' \in SessionState
    BY DEF IInv, TypeOK
  <2>2. CASE st'.asked_question_ids = st.asked_question_ids
    BY <2>2 DEF Fits, AskedItems, AskedCount, UsedTime
  <2>3. CASE NextItem(st, st')
    BY <2>1, <2>3, AskFits DEF NextItem
  <2> QED BY <2>2, <2>3, AskedEffect
<1>3. IInv /\ Fits(st) => WithinBlueprint
  BY FitsBudget DEF IInv, TypeOK, Fits, WithinBlueprint
<1> QED BY <1>1, <1>2, <1>3, Invariance, PTL DEF Spec

-----------------------------------------------------------------------------
(***************************************************************************)
(* The table follow_ups and the log.  Why they agree: a row belongs to a   *)
(* graded turn and an item that was asked; a live row is the next slot of  *)
(* the current item; and an abandoned row, whose slot the log does not     *)
(* count, is of an item the session has left and never asks again.         *)
(***************************************************************************)
Left(s) == s.state \in {"REPORTING", "COMPLETED"}

FollowUpsAreCharted ==
  /\ \A t \in Turns : follow_ups[t].status # "none" =>
       turns[t].status = "graded" /\ follow_ups[t].item \in AskedItems(st)
  /\ \A t \in Turns : Live(follow_ups[t]) =>
       /\ follow_ups[t].item = st.current_item_id
       /\ follow_ups[t].ordinal = st.follow_ups_by_item[st.current_item_id] + 1
  /\ \A t \in Turns : follow_ups[t].status = "abandoned" =>
       Left(st) \/ follow_ups[t].item # st.current_item_id
  /\ FollowUpsMatchLog
  /\ st.current_item_id # NoItem => st.current_item_id \in AskedItems(st)

(* A row keeps its slot: what a step that only queues or claims it does.   *)
SlotKept(old, new) ==
  /\ new.item = old.item /\ new.ordinal = old.ordinal
  /\ Live(new) <=> Live(old)
  /\ \A status \in {"none", "ready", "abandoned"} : new.status = status <=> old.status = status

(* Turns that are graded stay so.                                          *)
GradesKept == \A t \in Turns : turns[t].status = "graded" => turns'[t].status = "graded"

(* Rows that keep their slots keep what the table counts.                  *)
LEMMA SlotsCount ==
  ASSUME FollowUpsMatchLog, \A t \in Turns : SlotKept(follow_ups[t], follow_ups'[t]),
         st'.follow_ups_by_item = st.follow_ups_by_item
  PROVE  FollowUpsMatchLog'
<1>1. \A t \in Turns, q \in Items :
        /\ follow_ups'[t].status = "ready" /\ follow_ups'[t].item = q
             <=> follow_ups[t].status = "ready" /\ follow_ups[t].item = q
        /\ follow_ups'[t].ordinal = follow_ups[t].ordinal
  BY DEF SlotKept
<1>2. ASSUME NEW q \in Items
      PROVE  {u \in Turns : follow_ups'[u].status = "ready" /\ follow_ups'[u].item = q}
               = {u \in Turns : follow_ups[u].status = "ready" /\ follow_ups[u].item = q}
  BY <1>1
<1>3. ASSUME NEW q \in Items
      PROVE  {follow_ups'[t].ordinal : t \in {u \in Turns :
                 follow_ups'[u].status = "ready" /\ follow_ups'[u].item = q}}
               = 1..st'.follow_ups_by_item[q]
  <2> DEFINE ready == {u \in Turns : follow_ups[u].status = "ready" /\ follow_ups[u].item = q}
  <2>1. {follow_ups[t].ordinal : t \in ready} = 1..st.follow_ups_by_item[q]
    BY DEF FollowUpsMatchLog
  <2>2. \A t \in ready : t \in Turns
    OBVIOUS
  <2>3. {u \in Turns : follow_ups'[u].status = "ready" /\ follow_ups'[u].item = q} = ready
    BY <1>2
  <2> HIDE DEF ready
  <2>4. {follow_ups'[t].ordinal : t \in ready} = {follow_ups[t].ordinal : t \in ready}
    BY <1>1, <2>2
  <2> QED BY <2>1, <2>3, <2>4
<1> QED BY <1>3 DEF FollowUpsMatchLog

(* The session stays on its item.                                          *)
LEMMA SameItemCharted ==
  ASSUME FollowUpsAreCharted, SameItem(st, st'), Left(st) => Left(st'), GradesKept,
         \A t \in Turns : SlotKept(follow_ups[t], follow_ups'[t])
  PROVE  FollowUpsAreCharted'
<1>1. AskedItems(st') = AskedItems(st)
  BY DEF SameItem, AskedItems
<1>2. FollowUpsMatchLog'
  BY SlotsCount DEF FollowUpsAreCharted, SameItem
<1>3. \A t \in Turns : follow_ups'[t].status # "none" =>
        turns'[t].status = "graded" /\ follow_ups'[t].item \in AskedItems(st')
  BY <1>1 DEF FollowUpsAreCharted, SlotKept, GradesKept
<1>4. \A t \in Turns : Live(follow_ups'[t]) =>
        /\ follow_ups'[t].item = st'.current_item_id
        /\ follow_ups'[t].ordinal = st'.follow_ups_by_item[st'.current_item_id] + 1
  BY DEF FollowUpsAreCharted, SlotKept, SameItem
<1>5. \A t \in Turns : follow_ups'[t].status = "abandoned" =>
        Left(st') \/ follow_ups'[t].item # st'.current_item_id
  BY DEF FollowUpsAreCharted, SlotKept, SameItem
<1>6. st'.current_item_id # NoItem => st'.current_item_id \in AskedItems(st')
  BY <1>1 DEF FollowUpsAreCharted, SameItem
<1> QED BY <1>2, <1>3, <1>4, <1>5, <1>6 DEF FollowUpsAreCharted

(* The next item was never asked, so no row is of it.                      *)
LEMMA NextItemFacts ==
  ASSUME st \in SessionState, st' \in SessionState, NextItem(st, st')
  PROVE  /\ AskedItems(st) \subseteq AskedItems(st')
         /\ st'.current_item_id \in AskedItems(st') \ AskedItems(st)
<1>1. PICK q \in Eligible(st) : /\ st'.asked_question_ids = Append(st.asked_question_ids, q)
                                /\ st'.current_item_id = q
  BY DEF NextItem
<1>2. q \in Items \ AskedItems(st)
  BY DEF Eligible
<1>3. AskedItems(st') = AskedItems(st) \cup {q}
  BY <1>1, <1>2, AskedFacts
<1> QED BY <1>1, <1>2, <1>3

(* Moving on to a new bank question keeps the chart of follow-ups.         *)
LEMMA NextItemCharted ==
  ASSUME FollowUpsAreCharted, st \in SessionState, st' \in SessionState, NextItem(st, st'),
         GradesKept,
         \A t \in Turns : SlotKept(follow_ups[t], follow_ups'[t]) /\ ~Live(follow_ups[t])
  PROVE  FollowUpsAreCharted'
<1>1. /\ AskedItems(st) \subseteq AskedItems(st')
      /\ st'.current_item_id \in AskedItems(st') \ AskedItems(st)
  BY NextItemFacts
<1>2. FollowUpsMatchLog'
  BY SlotsCount DEF FollowUpsAreCharted, NextItem
<1>3. \A t \in Turns : follow_ups'[t].status # "none" =>
        /\ turns'[t].status = "graded" /\ follow_ups'[t].item \in AskedItems(st')
        /\ follow_ups'[t].item # st'.current_item_id
  BY <1>1 DEF FollowUpsAreCharted, SlotKept, GradesKept
<1>4. \A t \in Turns : ~Live(follow_ups'[t])
  BY DEF SlotKept
<1> QED BY <1>1, <1>2, <1>3, <1>4 DEF FollowUpsAreCharted

(* A row that is written without a ready one appearing or going keeps what *)
(* the table counts.                                                       *)
LEMMA OneRowCount ==
  ASSUME FollowUpsMatchLog, follow_ups \in [Turns -> FollowUpRow],
         NEW t \in Turns, NEW row, follow_ups' = [follow_ups EXCEPT ![t] = row],
         follow_ups[t].status # "ready", row.status # "ready",
         st'.follow_ups_by_item = st.follow_ups_by_item
  PROVE  FollowUpsMatchLog'
<1>1. ASSUME NEW q \in Items
      PROVE  {follow_ups'[v].ordinal : v \in {u \in Turns :
                 follow_ups'[u].status = "ready" /\ follow_ups'[u].item = q}}
               = 1..st'.follow_ups_by_item[q]
  <2> DEFINE ready == {u \in Turns : follow_ups[u].status = "ready" /\ follow_ups[u].item = q}
  <2>1. {follow_ups[v].ordinal : v \in ready} = 1..st.follow_ups_by_item[q]
    BY DEF FollowUpsMatchLog
  <2>2. \A v \in ready : follow_ups'[v] = follow_ups[v]
    OBVIOUS
  <2>3. {u \in Turns : follow_ups'[u].status = "ready" /\ follow_ups'[u].item = q} = ready
    OBVIOUS
  <2> HIDE DEF ready
  <2>4. {follow_ups'[v].ordinal : v \in ready} = {follow_ups[v].ordinal : v \in ready}
    BY <2>2
  <2> QED BY <2>1, <2>3, <2>4
<1> QED BY <1>1 DEF FollowUpsMatchLog

(* A decided follow-up takes the next slot of the current item.            *)
LEMMA DecideCharted ==
  ASSUME IInv, FollowUpsAreCharted, NEW t \in Turns,
         SameItem(st, st'), st.state = "GRADING", st.current_item_id \in Items,
         follow_ups[t].status = "none",
         follow_ups' = [follow_ups EXCEPT ![t] = FollowUpRowOf(st)],
         GradesKept, turns'[t].status = "graded"
  PROVE  FollowUpsAreCharted'
<1> DEFINE row == FollowUpRowOf(st)
<1>1. /\ row.status = "pending" /\ row.item = st.current_item_id
      /\ row.ordinal = st.follow_ups_by_item[st.current_item_id] + 1
  BY DEF FollowUpRowOf
<1> HIDE DEF row
<1>2. follow_ups \in [Turns -> FollowUpRow]
  BY DEF IInv, TypeOK
<1>3. follow_ups' = [follow_ups EXCEPT ![t] = row]
  BY DEF row
<1>4. \A u \in Turns : follow_ups'[u] = IF u = t THEN row ELSE follow_ups[u]
  BY <1>2, <1>3
<1>5. FollowUpsMatchLog'
  BY <1>1, <1>2, <1>3, OneRowCount DEF FollowUpsAreCharted, SameItem
<1>6. AskedItems(st') = AskedItems(st) /\ st.current_item_id # NoItem
  BY NoneIsApart DEF SameItem, AskedItems
<1>7. \A u \in Turns : follow_ups'[u].status # "none" =>
        turns'[u].status = "graded" /\ follow_ups'[u].item \in AskedItems(st')
  BY <1>1, <1>4, <1>6 DEF FollowUpsAreCharted, GradesKept
<1>8. \A u \in Turns : Live(follow_ups'[u]) =>
        /\ follow_ups'[u].item = st'.current_item_id
        /\ follow_ups'[u].ordinal = st'.follow_ups_by_item[st'.current_item_id] + 1
  BY <1>1, <1>4 DEF FollowUpsAreCharted, SameItem
<1>9. \A u \in Turns : follow_ups'[u].status = "abandoned" =>
        Left(st') \/ follow_ups'[u].item # st'.current_item_id
  BY <1>1, <1>4 DEF FollowUpsAreCharted, SameItem, Left
<1> QED BY <1>5, <1>6, <1>7, <1>8, <1>9 DEF FollowUpsAreCharted, SameItem

(* An asked follow-up is counted by the log and ready in the table, and    *)
(* no other follow-up is live.                                             *)
LEMMA AskCharted ==
  ASSUME IInv, FollowUpsAreCharted, NEW w \in Workers, NEW t \in Turns, FollowUpAsk(w, t)
  PROVE  FollowUpsAreCharted'
<1> DEFINE row == Settled(follow_ups[t], "ready")
           item == st.current_item_id
           n == st.follow_ups_by_item[item]
<1>1. /\ st' = ApplyFollowUp(st) /\ st.state = "PROBING" /\ item \in Items
      /\ Live(follow_ups[t]) /\ follow_ups' = [follow_ups EXCEPT ![t] = row]
  BY FollowUpAskEffect
<1>2. st \in SessionState /\ follow_ups \in [Turns -> FollowUpRow]
  BY DEF IInv, TypeOK
<1>3. n \in Nat
  BY <1>1, <1>2 DEF SessionState
<1>4. row.status = "ready" /\ row.item = item /\ row.ordinal = n + 1
  BY <1>1, <1>2 DEF Settled, FollowUpRow, FollowUpsAreCharted
<1>5. \A u \in Turns : follow_ups'[u] = IF u = t THEN row ELSE follow_ups[u]
  BY <1>1, <1>2
<1>6. \A u \in Turns : Live(follow_ups[u]) => u = t
  BY <1>1 DEF IInv, ProbingHasItsFollowUp
<1>7. /\ st'.asked_question_ids = st.asked_question_ids
      /\ st'.current_item_id = item
      /\ st'.follow_ups_by_item = [st.follow_ups_by_item EXCEPT ![item] = n + 1]
      /\ st'.state = "ASKING"
  BY <1>1, <1>2 DEF ApplyFollowUp, SessionState
<1>8. AskedItems(st') = AskedItems(st)
  BY <1>7 DEF AskedItems
<1>9. \A q \in Items : st'.follow_ups_by_item[q]
                         = IF q = item THEN n + 1 ELSE st.follow_ups_by_item[q]
  BY <1>2, <1>7 DEF SessionState
<1>10. UNCHANGED turns
  BY DEF FollowUpAsk
<1> HIDE DEF row, n, item
<1>11. ASSUME NEW q \in Items
       PROVE  {follow_ups'[v].ordinal : v \in {u \in Turns :
                  follow_ups'[u].status = "ready" /\ follow_ups'[u].item = q}}
                = 1..st'.follow_ups_by_item[q]
  <2> DEFINE old == {u \in Turns : follow_ups[u].status = "ready" /\ follow_ups[u].item = q}
             new == {u \in Turns : follow_ups'[u].status = "ready" /\ follow_ups'[u].item = q}
  <2>1. {follow_ups[v].ordinal : v \in old} = 1..st.follow_ups_by_item[q]
    BY DEF FollowUpsAreCharted, FollowUpsMatchLog
  <2>2. t \in Turns /\ t \notin old
    BY <1>1 DEF Live
  <2>3. \A v \in old : follow_ups'[v] = follow_ups[v]
    BY <1>5, <2>2
  <2>4. CASE q # item
    <3>1. new = old
      BY <1>4, <1>5, <2>2, <2>4
    <3> HIDE DEF old, new
    <3>2. {follow_ups'[v].ordinal : v \in old} = {follow_ups[v].ordinal : v \in old}
      BY <2>3
    <3> QED BY <1>9, <2>1, <2>4, <3>1, <3>2 DEF new
  <2>5. CASE q = item
    <3>1. new = old \cup {t}
      BY <1>4, <1>5, <2>2, <2>5
    <3>2. follow_ups'[t].ordinal = n + 1
      BY <1>4, <1>5
    <3>3. st.follow_ups_by_item[q] = n /\ st'.follow_ups_by_item[q] = n + 1
      BY <1>9, <2>5 DEF n
    <3> HIDE DEF old, new
    <3>4. {follow_ups'[v].ordinal : v \in new}
            = {follow_ups[v].ordinal : v \in old} \cup {n + 1}
      BY <2>3, <3>1, <3>2
    <3>5. (1..n) \cup {n + 1} = 1..(n + 1)
      BY <1>3
    <3> QED BY <2>1, <3>3, <3>4, <3>5 DEF new
  <2> QED BY <2>4, <2>5
<1>12. FollowUpsMatchLog'
  BY <1>11 DEF FollowUpsMatchLog
<1>13. \A u \in Turns : follow_ups'[u].status # "none" =>
         turns'[u].status = "graded" /\ follow_ups'[u].item \in AskedItems(st')
  <2>1. follow_ups[t].status # "none" /\ follow_ups[t].item = item
    BY <1>1 DEF Live, FollowUpsAreCharted, item
  <2> QED BY <1>4, <1>5, <1>8, <1>10, <2>1 DEF FollowUpsAreCharted
<1>14. \A u \in Turns : ~Live(follow_ups'[u])
  BY <1>4, <1>5, <1>6 DEF Live
<1>15. \A u \in Turns : follow_ups'[u].status = "abandoned" =>
         follow_ups'[u].item # st'.current_item_id
  BY <1>1, <1>4, <1>5, <1>7 DEF FollowUpsAreCharted, Left, item
<1>16. st'.current_item_id # NoItem => st'.current_item_id \in AskedItems(st')
  BY <1>7, <1>8 DEF FollowUpsAreCharted, item
<1> QED BY <1>12, <1>13, <1>14, <1>15, <1>16 DEF FollowUpsAreCharted

(* An abandoned follow-up keeps its slot, and the session leaves its item. *)
LEMMA AbandonCharted ==
  ASSUME IInv, IInv', FollowUpsAreCharted, NEW w \in Workers, NEW t \in Turns,
         FollowUpAbandoned(w, t)
  PROVE  FollowUpsAreCharted'
<1> DEFINE row == Settled(follow_ups[t], "abandoned")
<1>1. /\ NextItem(st, st') \/ (SameItem(st, st') /\ st'.state = "REPORTING")
      /\ Live(follow_ups[t]) /\ follow_ups' = [follow_ups EXCEPT ![t] = row]
  BY AbandonEffect
<1>2. st \in SessionState /\ st' \in SessionState /\ follow_ups \in [Turns -> FollowUpRow]
  BY DEF IInv, TypeOK
<1>3. row.status = "abandoned" /\ row.item = follow_ups[t].item
  BY <1>2 DEF Settled, FollowUpRow
<1>4. \A u \in Turns : follow_ups'[u] = IF u = t THEN row ELSE follow_ups[u]
  BY <1>1, <1>2
<1>5. UNCHANGED turns
  BY DEF FollowUpAbandoned
<1>6. \A u \in Turns : Live(follow_ups[u]) => u = t
  BY <1>1 DEF IInv, ProbingHasItsFollowUp
<1> HIDE DEF row
<1>7. \A u \in Turns : ~Live(follow_ups'[u])
  BY <1>3, <1>4, <1>6 DEF Live
<1>8. FollowUpsMatchLog'
  <2>1. st'.follow_ups_by_item = st.follow_ups_by_item
    BY <1>1 DEF NextItem, SameItem
  <2> QED BY <1>1, <1>2, <1>3, <2>1, OneRowCount DEF Live, FollowUpsAreCharted
<1>9. /\ AskedItems(st) \subseteq AskedItems(st')
      /\ Left(st') \/ st'.current_item_id \notin AskedItems(st)
      /\ st'.current_item_id # NoItem => st'.current_item_id \in AskedItems(st')
  <2>1. CASE NextItem(st, st')
    BY <1>2, <2>1, NextItemFacts
  <2>2. CASE SameItem(st, st') /\ st'.state = "REPORTING"
    BY <2>2 DEF SameItem, AskedItems, Left, FollowUpsAreCharted
  <2> QED BY <1>1, <2>1, <2>2
<1>10. \A u \in Turns : follow_ups'[u].status # "none" =>
         turns'[u].status = "graded" /\ follow_ups'[u].item \in AskedItems(st)
  <2>1. follow_ups[t].status # "none"
    BY <1>1 DEF Live
  <2> QED BY <1>3, <1>4, <1>5, <2>1 DEF FollowUpsAreCharted
<1> QED BY <1>7, <1>8, <1>9, <1>10 DEF FollowUpsAreCharted

(* A grade decides a follow-up, the next question or the report.           *)
LEMMA GradeCharted ==
  ASSUME IInv, IInv', FollowUpsAreCharted, NEW w \in Workers, NEW t \in Turns,
         GradeSucceeds(w, t)
  PROVE  FollowUpsAreCharted'
<1>1. /\ turns[t].status = "processing" /\ turns[t] \in TurnRow
      /\ turns' = [turns EXCEPT ![t] = Settled(turns[t], "graded")]
      /\ turns \in [Turns -> TurnRow]
  BY DEF GradeSucceeds, OwnsTurn, Fenced, IInv, TypeOK
<1>2. st.state = "GRADING" /\ st \in SessionState /\ st' \in SessionState
  BY <1>1 DEF IInv, TypeOK, GradingHasItsTurn
<1>3. GradesKept /\ turns'[t].status = "graded"
  <2>1. Settled(turns[t], "graded").status = "graded"
    BY <1>1, SettledTurn
  <2> QED BY <1>1, <2>1 DEF GradesKept
<1>4. \A u \in Turns : ~Live(follow_ups[u])
  BY <1>2 DEF IInv, ProbingHasItsFollowUp
<1>5. CASE follow_ups' = follow_ups /\ NextItem(st, st')
  BY <1>2, <1>3, <1>4, <1>5, NextItemCharted DEF SlotKept
<1>6. CASE follow_ups' = follow_ups /\ SameItem(st, st') /\ st'.state = "REPORTING"
  BY <1>3, <1>6, SameItemCharted DEF SlotKept, Left
<1>7. CASE /\ SameItem(st, st') /\ st.current_item_id \in Items
           /\ follow_ups' = [follow_ups EXCEPT ![t] = FollowUpRowOf(st)]
  <2>1. follow_ups[t].status = "none"
    BY <1>1 DEF FollowUpsAreCharted
  <2> QED BY <1>2, <1>3, <1>7, <2>1, DecideCharted
<1> QED BY <1>5, <1>6, <1>7, GradeEffect

(* A step that leaves the session where it is, and every row its slot.     *)
LEMMA StillCharted ==
  ASSUME FollowUpsAreCharted, st' = st, GradesKept,
         \A t \in Turns : SlotKept(follow_ups[t], follow_ups'[t])
  PROVE  FollowUpsAreCharted'
<1>1. SameItem(st, st') /\ (Left(st) => Left(st'))
  BY DEF SameItem
<1> QED BY <1>1, SameItemCharted

(* What queues, claims, hands back or expires a follow-up keeps its slot.  *)
LEMMA SlotWrites ==
  ASSUME follow_ups \in [Turns -> FollowUpRow], NEW t \in Turns, Live(follow_ups[t]),
         \/ follow_ups' = [follow_ups EXCEPT ![t] = Claimed(@)]
         \/ follow_ups' = [follow_ups EXCEPT ![t] = Settled(@, "pending")]
         \/ follow_ups' = [follow_ups EXCEPT ![t].lease = FALSE]
  PROVE  \A u \in Turns : SlotKept(follow_ups[u], follow_ups'[u])
<1>1. follow_ups[t] \in FollowUpRow
  OBVIOUS
<1>2. /\ follow_ups'[t].item = follow_ups[t].item
      /\ follow_ups'[t].ordinal = follow_ups[t].ordinal
      /\ Live(follow_ups'[t])
  <2>1. CASE follow_ups' = [follow_ups EXCEPT ![t] = Claimed(@)]
    <3>1. follow_ups'[t] = Claimed(follow_ups[t])
      BY <2>1
    <3> QED BY <1>1, <3>1 DEF Claimed, FollowUpRow, Live
  <2>2. CASE follow_ups' = [follow_ups EXCEPT ![t] = Settled(@, "pending")]
    <3>1. follow_ups'[t] = Settled(follow_ups[t], "pending")
      BY <2>2
    <3> QED BY <1>1, <3>1 DEF Settled, FollowUpRow, Live
  <2>3. CASE follow_ups' = [follow_ups EXCEPT ![t].lease = FALSE]
    <3>1. follow_ups'[t] = [follow_ups[t] EXCEPT !.lease = FALSE]
      BY <2>3
    <3> QED BY <1>1, <3>1 DEF FollowUpRow, Live
  <2> QED BY <2>1, <2>2, <2>3
<1>3. \A u \in Turns : u # t => follow_ups'[u] = follow_ups[u]
  OBVIOUS
<1>4. ASSUME NEW u \in Turns PROVE SlotKept(follow_ups[u], follow_ups'[u])
  <2>1. CASE u = t
    BY <1>2, <2>1 DEF SlotKept, Live
  <2>2. CASE u # t
    BY <1>3, <2>2 DEF SlotKept
  <2> QED BY <2>1, <2>2
<1> QED BY <1>4

(* What writes one unsettled turn keeps the grades.                        *)
LEMMA GradesAreKept ==
  ASSUME turns \in [Turns -> TurnRow], NEW t \in Turns, turns[t].status # "graded",
         NEW row, turns' = [turns EXCEPT ![t] = row]
  PROVE  GradesKept
  BY DEF GradesKept

(* No step takes the table and the log apart.                              *)
LEMMA NextFollowUps ==
  IInv /\ IInv' /\ FollowUpsAreCharted /\ [Next]_vars => FollowUpsAreCharted'
<1> SUFFICES ASSUME IInv, IInv', FollowUpsAreCharted, [Next]_vars
             PROVE  FollowUpsAreCharted'
  OBVIOUS
<1>0. /\ turns \in [Turns -> TurnRow] /\ follow_ups \in [Turns -> FollowUpRow]
      /\ st \in SessionState /\ st' \in SessionState
  BY DEF IInv, TypeOK
<1>k. follow_ups' = follow_ups => \A t \in Turns : SlotKept(follow_ups[t], follow_ups'[t])
  BY DEF SlotKept
<1>g. turns' = turns => GradesKept
  BY DEF GradesKept
<1>1. CASE UNCHANGED vars
  BY <1>1, <1>k, <1>g, StillCharted DEF vars
<1>2. CASE StartSession
  <2>1. \A t \in Turns : ~Live(follow_ups[t])
    BY <1>2 DEF StartSession, IInv, ProbingHasItsFollowUp
  <2>2. turns' = turns /\ follow_ups' = follow_ups
    BY <1>2 DEF StartSession
  <2> QED BY <1>0, <1>2, <1>k, <1>g, <2>1, <2>2, StartEffect, NextItemCharted
<1>3. ASSUME NEW t \in Turns, SubmitTurn(t) PROVE FollowUpsAreCharted'
  <2>1. SameItem(st, st') /\ st.state = "ASKING"
    BY <1>3, SubmitEffect
  <2>2. GradesKept
    BY <1>0, <1>3 DEF SubmitTurn, GradesKept
  <2> QED BY <1>3, <1>k, <2>1, <2>2, SameItemCharted DEF SubmitTurn, Left
<1>4. ASSUME NEW w \in Workers, NEW t \in Turns, ClaimTurn(w, t) PROVE FollowUpsAreCharted'
  <2>1. turns[t].status # "graded"
    BY <1>4 DEF ClaimTurn, Claimable
  <2> QED BY <1>0, <1>4, <1>k, <2>1, GradesAreKept, StillCharted DEF ClaimTurn
<1>5. ASSUME NEW w \in Workers, NEW t \in Turns, ClaimFollowUp(w, t)
      PROVE  FollowUpsAreCharted'
  <2>1. Live(follow_ups[t])
    BY <1>5 DEF ClaimFollowUp, Claimable, Live
  <2>2. \A u \in Turns : SlotKept(follow_ups[u], follow_ups'[u])
    BY <1>0, <1>5, <2>1, SlotWrites DEF ClaimFollowUp
  <2> QED BY <1>5, <1>g, <2>2, StillCharted DEF ClaimFollowUp
<1>6. ASSUME NEW w \in Workers, ClaimReport(w) \/ ReportRetries(w) \/ ReportFails(w)
                                  \/ DiscardResult(w) \/ WorkerLost(w)
      PROVE  FollowUpsAreCharted'
  <2>1. st' = st /\ turns' = turns /\ follow_ups' = follow_ups
    BY <1>6 DEF ClaimReport, ReportRetries, ReportFails, DiscardResult, WorkerLost
  <2> QED BY <1>k, <1>g, <2>1, StillCharted
<1>7. ASSUME NEW w \in Workers, NEW t \in Turns, GradeRetries(w, t) \/ GradeFails(w, t)
      PROVE  FollowUpsAreCharted'
  <2>1. st' = st
    BY <1>7, FailEffect DEF GradeRetries
  <2>2. turns[t].status # "graded"
    BY <1>7 DEF GradeRetries, GradeFails, OwnsTurn, Fenced
  <2>3. GradesKept
    BY <1>0, <1>7, <2>2, GradesAreKept DEF GradeRetries, GradeFails
  <2> QED BY <1>7, <1>k, <2>1, <2>3, StillCharted DEF GradeRetries, GradeFails
<1>8. ASSUME NEW w \in Workers, NEW t \in Turns, FollowUpRetries(w, t)
      PROVE  FollowUpsAreCharted'
  <2>1. Live(follow_ups[t])
    BY <1>8 DEF FollowUpRetries, OwnsFollowUp, Fenced, Live
  <2>2. \A u \in Turns : SlotKept(follow_ups[u], follow_ups'[u])
    BY <1>0, <1>8, <2>1, SlotWrites DEF FollowUpRetries
  <2> QED BY <1>8, <1>g, <2>2, StillCharted DEF FollowUpRetries
<1>9. ASSUME NEW w \in Workers, ReportCompletes(w) PROVE FollowUpsAreCharted'
  <2>1. SameItem(st, st') /\ Left(st')
    BY <1>9, CompleteEffect DEF Left
  <2>2. turns' = turns /\ follow_ups' = follow_ups
    BY <1>9 DEF ReportCompletes
  <2> QED BY <1>k, <1>g, <2>1, <2>2, SameItemCharted
<1>10. CASE LeaseExpires
  <2>1. ASSUME NEW t \in Turns, TurnLeaseExpires(t) PROVE FollowUpsAreCharted'
    <3>1. turns[t].status # "graded" /\ turns' = [turns EXCEPT ![t].lease = FALSE]
      BY <2>1 DEF TurnLeaseExpires, Expires
    <3>2. GradesKept
      BY <1>0, <3>1 DEF GradesKept
    <3> QED BY <1>k, <2>1, <3>2, StillCharted DEF TurnLeaseExpires
  <2>2. ASSUME NEW t \in Turns, FollowUpLeaseExpires(t) PROVE FollowUpsAreCharted'
    <3>1. Live(follow_ups[t])
      BY <2>2 DEF FollowUpLeaseExpires, Expires, Live
    <3>2. \A u \in Turns : SlotKept(follow_ups[u], follow_ups'[u])
      BY <1>0, <2>2, <3>1, SlotWrites DEF FollowUpLeaseExpires
    <3> QED BY <1>g, <2>2, <3>2, StillCharted DEF FollowUpLeaseExpires
  <2>3. CASE ReportLeaseExpires
    BY <1>k, <1>g, <2>3, StillCharted DEF ReportLeaseExpires
  <2> QED BY <1>10, <2>1, <2>2, <2>3 DEF LeaseExpires
<1>11. CASE Operator
  <2>1. ASSUME NEW t \in Turns, RequeueFailedTurn(t) PROVE FollowUpsAreCharted'
    <3>1. turns[t].status # "graded"
      BY <2>1 DEF RequeueFailedTurn
    <3> QED BY <1>0, <1>k, <2>1, <3>1, GradesAreKept, StillCharted DEF RequeueFailedTurn
  <2>2. CASE RequeueFailedReport
    BY <1>k, <1>g, <2>2, StillCharted DEF RequeueFailedReport
  <2> QED BY <1>11, <2>1, <2>2 DEF Operator
<1>12. ASSUME NEW w \in Workers, Claim(w) PROVE FollowUpsAreCharted'
  BY <1>4, <1>5, <1>6, <1>12 DEF Claim
<1>13. ASSUME NEW w \in Workers, Process(w) PROVE FollowUpsAreCharted'
  BY <1>6, <1>7, <1>8, <1>9, <1>13, GradeCharted, AskCharted, AbandonCharted
     DEF Process, GradingJob, FollowUpJob, ReportJob
<1> QED BY <1>1, <1>2, <1>3, <1>6, <1>10, <1>11, <1>12, <1>13 DEF Next, Candidate

(* The slot of the next follow-up is free when a grade decides one.        *)
LEMMA ChartedConflicts == IInv /\ FollowUpsAreCharted => FollowUpNeverConflicts
<1> SUFFICES ASSUME IInv, FollowUpsAreCharted, st.state = "GRADING", FollowUpRoom(st)
             PROVE  FollowUpSlotFree(st, st.current_turn_id)
  BY DEF FollowUpNeverConflicts
<1> DEFINE t == st.current_turn_id
           item == st.current_item_id
           n == st.follow_ups_by_item[item]
<1>1. t \in Turns /\ turns[t].status \in {"pending", "processing", "failed"}
  BY DEF IInv, GradingHasItsTurn
<1>2. follow_ups[t].status = "none"
  BY <1>1 DEF FollowUpsAreCharted
<1>3. item \in Items /\ n \in Nat
  BY DEF FollowUpRoom, IInv, TypeOK, SessionState
<1>4. ASSUME NEW u \in Turns, follow_ups[u].status # "none", follow_ups[u].item = item
      PROVE  follow_ups[u].ordinal # n + 1
  <2>1. ~Live(follow_ups[u])
    BY DEF IInv, ProbingHasItsFollowUp
  <2>2. follow_ups[u].status # "abandoned"
    BY <1>4 DEF FollowUpsAreCharted, Left
  <2>3. follow_ups[u] \in FollowUpRow
    BY DEF IInv, TypeOK
  <2>4. follow_ups[u].status = "ready"
    BY <1>4, <2>1, <2>2, <2>3 DEF FollowUpRow, FollowUpStatus, Live
  <2>5. {follow_ups[v].ordinal : v \in {x \in Turns : /\ follow_ups[x].status = "ready"
                                                      /\ follow_ups[x].item = item}}
          = 1..n
    BY <1>3 DEF FollowUpsAreCharted, FollowUpsMatchLog
  <2>6. follow_ups[u].ordinal \in 1..n
    BY <1>4, <2>4, <2>5
  <2> QED BY <1>3, <2>6
<1> QED BY <1>2, <1>4 DEF FollowUpSlotFree

(* The follow-up rows and the log agree on how many follow-ups an item     *)
(* has had, and inserting the next row never conflicts, however often      *)
(* earlier ones were abandoned: a worker is never stuck on a turn it has   *)
(* graded but cannot commit.                                               *)
THEOREM FollowUpsAgree == Spec => []FollowUpsFit
<1>1. Init => FollowUpsAreCharted
  <2> SUFFICES ASSUME Init PROVE FollowUpsAreCharted
    OBVIOUS
  <2>1. st.current_item_id = NoItem /\ st.follow_ups_by_item = [q \in Items |-> 0]
    BY DEF Init, Apply, Plain, Initial, Transitions
  <2>2. \A t \in Turns : follow_ups[t].status = "none"
    BY DEF Init, NoFollowUp
  <2>3. FollowUpsMatchLog
    <3>1. ASSUME NEW q \in Items
          PROVE  {follow_ups[v].ordinal : v \in {u \in Turns :
                     follow_ups[u].status = "ready" /\ follow_ups[u].item = q}}
                   = 1..st.follow_ups_by_item[q]
      <4>1. {u \in Turns : follow_ups[u].status = "ready" /\ follow_ups[u].item = q} = {}
        BY <2>2
      <4>2. 1..st.follow_ups_by_item[q] = {}
        BY <2>1
      <4> QED BY <4>1, <4>2
    <3> QED BY <3>1 DEF FollowUpsMatchLog
  <2> QED BY <2>1, <2>2, <2>3 DEF FollowUpsAreCharted, Live
<1>2. IInv /\ IInv' /\ FollowUpsAreCharted /\ [Next]_vars => FollowUpsAreCharted'
  BY NextFollowUps
<1>3. IInv /\ FollowUpsAreCharted => FollowUpsFit
  BY ChartedConflicts DEF FollowUpsFit, FollowUpsAreCharted
<1> QED BY <1>1, <1>2, <1>3, Invariance, PTL DEF Spec
=============================================================================
