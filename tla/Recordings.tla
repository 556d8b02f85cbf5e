----------------------------- MODULE Recordings -----------------------------
(***************************************************************************)
(* Recording real model answers so that they replay offline:               *)
(* app/llm/recording.py over the directory of app/llm/fixtures.py, and the *)
(* stub provider that answers from that directory.                         *)
(*                                                                         *)
(* A request stands for its fixture key; an answer is who gave it, which   *)
(* recorder run asked, and whether it validates.  Fixtures that hold an    *)
(* error, and a directory that another process writes, are left out.       *)
(***************************************************************************)
EXTENDS Naturals, Sequences, FiniteSets, SequencesExt, FiniteSetsExt

CONSTANTS
  Names,       \* entry names: 1..n, in the order the directory lists them
  Requests,    \* fixture keys a plan may ask for
  Fallback,    \* whether "stub" follows "nvidia" in LLM_PROVIDER_ORDER
  Synthesize,  \* llm_stub_on_missing = synthesize, else strict
  MaxRepairs,  \* repair attempts of one structured call
  MaxSittings  \* bound: recorder runs

ASSUME NamesAreOrdered == Names \subseteq Nat /\ IsFiniteSet(Names)
ASSUME RecordingBounds == MaxRepairs \in Nat /\ MaxSittings \in Nat

VARIABLES
  directory,  \* what each file holds: nothing, a torn write, or a fixture
  store,      \* FixtureStore: the run's fixtures and the file of each
  recorder,   \* the run under way
  sittings    \* recorder runs started

recordingVars == <<directory, store, recorder, sittings>>

Entry   == [name : Names, request : Requests]
Answer  == [by : {"nvidia", "replay", "synthesized"}, at : 0..MaxSittings, valid : BOOLEAN]
Fixture == [request : Requests, answer : Answer]
Missing == [kind |-> "missing"]
Torn    == [kind |-> "torn"]
File(fixture) == [kind |-> "fixture", fixture |-> fixture]

Readable(f) == directory[f].kind = "fixture"

(* reload: unreadable files are skipped; of two files for one request the  *)
(* first is kept.                                                          *)
Loaded ==
  LET FilesOf(r) == {f \in Names : Readable(f) /\ directory[f].fixture.request = r}
      held       == {r \in Requests : FilesOf(r) # {}}
      First(r)   == Min(FilesOf(r))
  IN  [fixtures |-> [r \in held |-> directory[First(r)].fixture],
       paths    |-> [r \in held |-> First(r)]]

Empty == [fixtures |-> <<>>, paths |-> <<>>]
Idle  == [todo |-> <<>>, overwrite |-> FALSE, dryRun |-> FALSE, running |-> FALSE]

RecordingsInit ==
  /\ directory = [f \in Names |-> Missing]
  /\ store = Empty /\ recorder = Idle /\ sittings = 0

(* parse_recording_plan refuses two entries of one name, not two entries   *)
(* of one request.                                                         *)
Plans == {p \in BoundedSeq(Entry, Cardinality(Names)) :
            p # <<>> /\ \A i, j \in DOMAIN p : p[i].name = p[j].name => i = j}

(* record_llm_fixtures.run.                                                *)
StartRecording(plan, overwrite, dryRun) ==
  /\ ~recorder.running /\ sittings < MaxSittings
  /\ sittings' = sittings + 1
  /\ store' = Loaded
  /\ recorder' = [todo |-> plan, overwrite |-> overwrite, dryRun |-> dryRun,
                  running |-> TRUE]
  /\ UNCHANGED directory

Current  == Head(recorder.todo)
Existing == Current.request \in DOMAIN store.fixtures

NextEntry == recorder' = [recorder EXCEPT !.todo = Tail(@)]

(***************************************************************************)
(* The call.  Every attempt goes down the provider order from its start,   *)
(* an attempt after the first being a repair of an answer that did not     *)
(* validate; an attempt nobody answers ends the call.                      *)
(***************************************************************************)
StubAnswers(request, repair) ==
  IF ~repair /\ request \in DOMAIN store.fixtures
  THEN {[store.fixtures[request].answer EXCEPT !.by = "replay"]}
  ELSE IF Synthesize
       THEN [by : {"synthesized"}, at : {sittings}, valid : BOOLEAN] ELSE {}

Attempts(request, repair) ==
  [by : {"nvidia"}, at : {sittings}, valid : BOOLEAN]
    \cup IF Fallback THEN StubAnswers(request, repair) ELSE {}

(* The answers of the calls that end in one that validates.                *)
Calls(request) ==
  {answers \in UNION {[1..n -> Attempts(request, FALSE) \cup Attempts(request, TRUE)]
                        : n \in 1..(MaxRepairs + 1)} :
     \A i \in DOMAIN answers :
        /\ answers[i] \in Attempts(request, i > 1)
        /\ answers[i].valid = (i = Len(answers))}

(* What is filed is exchanges[-1], of the captured providers' exchanges one *)
(* provider after the other: the last of the last provider that answered.  *)
LastExchange(answers) ==
  LET stubs == {i \in DOMAIN answers : answers[i].by # "nvidia"}
  IN  answers[Max(IF stubs = {} THEN DOMAIN answers ELSE stubs)]

(* _refuse_unrecordable judges the answer the call returned.               *)
Recordable(answers) == Last(answers).by = "nvidia"

(* Seeded bug: an overwrite opens a second file for the request.           *)
TargetByName == Current.name

(* The file it writes: the one the request is in, or the entry's own.      *)
Target == IF Existing THEN store.paths[Current.request] ELSE Current.name

Save(fixture) ==
  /\ directory' = [directory EXCEPT ![Target] = File(fixture)]
  /\ store' = [fixtures |-> [r \in DOMAIN store.fixtures \cup {fixture.request} |->
                               IF r = fixture.request THEN fixture ELSE store.fixtures[r]],
               paths    |-> [r \in DOMAIN store.paths \cup {fixture.request} |->
                               IF r = fixture.request THEN Target ELSE store.paths[r]]]

(***************************************************************************)
(* record_request, one entry after another.                                *)
(***************************************************************************)
SkipEntry ==
  /\ Existing /\ ~recorder.overwrite
  /\ NextEntry /\ UNCHANGED <<directory, store>>

DryRunEntry ==
  /\ ~(Existing /\ ~recorder.overwrite) /\ recorder.dryRun
  /\ NextEntry /\ UNCHANGED <<directory, store>>

Asks == ~(Existing /\ ~recorder.overwrite) /\ ~recorder.dryRun

RecordEntry ==
  /\ Asks
  /\ \E answers \in Calls(Current.request) :
       /\ Recordable(answers)
       /\ Save([request |-> Current.request, answer |-> LastExchange(answers)])
  /\ NextEntry

(* The call failed, or its answer is no recording; the batch goes on.      *)
FailEntry ==
  Asks /\ NextEntry /\ UNCHANGED <<directory, store>>

EndRecording ==
  /\ recorder.todo = <<>>
  /\ recorder' = [recorder EXCEPT !.running = FALSE] /\ UNCHANGED <<directory, store>>

(* The process ends, between two entries or in the middle of a write.      *)
KillRecording ==
  /\ \/ UNCHANGED directory
     \/ /\ recorder.todo # <<>> /\ Asks
        /\ directory' = [directory EXCEPT ![Target] = Torn]
  /\ recorder' = Idle /\ store' = Empty

RecordingsNext ==
  \/ \E plan \in Plans, overwrite, dryRun \in BOOLEAN : StartRecording(plan, overwrite, dryRun)
  \/ /\ recorder.running /\ UNCHANGED sittings
     /\ \/ recorder.todo # <<>> /\ (SkipEntry \/ DryRunEntry \/ RecordEntry \/ FailEntry)
        \/ EndRecording
        \/ KillRecording

RecordingsSpec == RecordingsInit /\ [][RecordingsNext]_recordingVars

RecordingsTypeOK ==
  /\ \A f \in Names : directory[f] \in {Missing, Torn} \cup {File(x) : x \in Fixture}
  /\ store.fixtures \in [DOMAIN store.paths -> Fixture] /\ DOMAIN store.paths \subseteq Requests
  /\ recorder.todo \in Seq(Entry) /\ recorder.running \in BOOLEAN
  /\ sittings \in 0..MaxSittings

(***************************************************************************)
(* Properties.                                                             *)
(***************************************************************************)
(* Unless it is told to overwrite, a run pays for a request only when no   *)
(* readable file had the answer: a plan that asks twice for one request,   *)
(* or is run again after a failure or a kill, pays twice only for what was *)
(* never filed, was torn by the kill, or lost its file to another request. *)
NothingIsPaidForTwice ==
  [][\A f \in Names :
       (/\ directory'[f] # directory[f] /\ directory'[f].kind = "fixture"
        /\ ~recorder.overwrite)
         => ~ \E g \in Names : /\ Readable(g)
                               /\ directory[g].fixture.request = directory'[f].fixture.request]_recordingVars

(* And one request is in one file: an overwrite that opened a second would *)
(* be lost at the next start, which keeps the first of the two             *)
(* (recording.py:608, fixtures.py:254).                                    *)
OneFile(f, g) ==
  Readable(f) /\ Readable(g) /\ directory[f].fixture.request = directory[g].fixture.request
    => f = g

RecordingsAreReplayable == [](\A f, g \in Names : OneFile(f, g)) /\ NothingIsPaidForTwice

(* Inductive: while a run is under way its store knows the file of every   *)
(* readable fixture.  Not the other way round: an entry may take over the  *)
(* name of a file that held another request, which the store remembers.    *)
RecordingsInv ==
  /\ DOMAIN directory = Names /\ \A f, g \in Names : OneFile(f, g)
  /\ \A f \in Names : Readable(f) => directory[f].fixture.request \in Requests
  /\ recorder.running =>
       /\ recorder.todo \in Seq(Entry)
       /\ DOMAIN store.paths = DOMAIN store.fixtures
       /\ \A r \in DOMAIN store.paths : store.paths[r] \in Names
       /\ \A f \in Names : Readable(f) =>
            LET r == directory[f].fixture.request
            IN  r \in DOMAIN store.paths /\ store.paths[r] = f

(* "A recording is a real answer or it is nothing" (recording.py:24).  It  *)
(* is not so with the stub behind the provider: the stub's answer does not *)
(* validate, the repair reaches the provider, and what is filed is the     *)
(* last exchange of the last provider in the order - the stub's.           *)
RecordingsAreReal ==
  \A f \in Names : Readable(f) => /\ directory[f].fixture.answer.by = "nvidia"
                                  /\ directory[f].fixture.answer.valid
=============================================================================
