---------------------------- MODULE MCInterview ----------------------------
(* A small bank, a small blueprint and two workers for InterviewProperties. *)
EXTENDS InterviewProperties, TLC

CONSTANTS q1, q2, q3, topicA, topicB

MCTopicOf == [q \in Items |-> IF q = q3 THEN topicB ELSE topicA]
MCTimeOf  == [q \in Items |-> IF q = q2 THEN 2 ELSE 1]
MCQuota   == [t \in Topics |-> 1]

(* Turn ids and workers are interchangeable; items are not.                *)
Symmetric == Permutations(Turns) \cup Permutations(Workers)
=============================================================================
