----------------------------- MODULE SessionLog -----------------------------
(***************************************************************************)
(* What the event store promises of one session: a log that only grows, by *)
(* whole decisions, each of whose events was legal after everything before *)
(* it, and a projection (interview_sessions.state) that is never anything  *)
(* but the state the log replays to.  Nothing is said of locks, readers or *)
(* transactions, nor of what the events mean.                              *)
(***************************************************************************)
EXTENDS Naturals, Sequences

CONSTANTS
  Created,        \* the event every log starts with
  Fold(_),        \* the session state a log replays to
  Accepts(_, _)   \* whether a session state admits an event

VARIABLES
  log,         \* the committed events; an event's seq is its position less one
  projection   \* the committed interview_sessions.state

Prefix(events, n) == SubSeq(events, 1, n)

(* Every event after the first n was legal where it stands.                *)
LegalFrom(events, n) ==
  \A i \in 1..Len(events) :
    i > n => Accepts(Fold(Prefix(events, i - 1)), events[i])

Init == /\ log = <<Created>>
        /\ projection = Fold(log).state

Decide == /\ Len(log') > Len(log)
          /\ Prefix(log', Len(log)) = log
          /\ LegalFrom(log', Len(log))
          /\ projection' = Fold(log').state

Spec == Init /\ [][Decide]_<<log, projection>>
=============================================================================
