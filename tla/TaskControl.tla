----------------------------- MODULE TaskControl -----------------------------
(***************************************************************************)
(* The class TaskControl of src/taskcontrol.h: the blackboard on which the *)
(* thread that packs or unpacks reports to the thread that shows progress, *)
(* and on which the latter may ask it to stop.                             *)
(*                                                                         *)
(* A TaskControl is the record of its fields.  A result message is the     *)
(* record of the file it is about and of whether it starts with "OK".      *)
(***************************************************************************)
EXTENDS Integers, Sequences, FiniteSets

TaskState == {"NOT_STARTED", "RUNNING", "FINISHED"}

Result(File) == [file : File, ok : BOOLEAN]

Control(File) ==
  [state : TaskState, results : Seq(Result(File)), successes : Nat, failures : Nat,
   total : Nat, stopped : BOOLEAN]

NewControl ==
  [state |-> "NOT_STARTED", results |-> << >>, successes |-> 0, failures |-> 0,
   total |-> 0, stopped |-> FALSE]

-----------------------------------------------------------------------------

(* reserve() throws once the work has started. *)
MayReserve(tc) == tc.state = "NOT_STARTED"

Reserve(tc, n) == [tc EXCEPT !.total = n]

(* Slip: a new state starts from a clean slate. *)
SetStateResets(tc, new) == [tc EXCEPT !.state = new, !.stopped = FALSE]

(* set_state() takes no lock and allows every transition. *)
SetState(tc, new) == [tc EXCEPT !.state = new]

AddSuccess(tc, f) ==
  [tc EXCEPT !.results = Append(@, [file |-> f, ok |-> TRUE]), !.successes = @ + 1]

AddFailure(tc, f) ==
  [tc EXCEPT !.results = Append(@, [file |-> f, ok |-> FALSE]), !.failures = @ + 1]

Stop(tc) == [tc EXCEPT !.stopped = TRUE]

Finished(tc) == Len(tc.results)

-----------------------------------------------------------------------------
(* The order of the states, which set_state does not check. *)
Rank(state) == CASE state = "NOT_STARTED" -> 0 [] state = "RUNNING" -> 1 [] state = "FINISHED" -> 2

(* A reader that saw tc may later see new: results are only added, a       *)
(* request to stop is never withdrawn, the state only moves forwards.      *)
Extends(new, tc) ==
  /\ Len(new.results) >= Len(tc.results)
  /\ SubSeq(new.results, 1, Len(tc.results)) = tc.results
  /\ tc.stopped => new.stopped
  /\ Rank(new.state) >= Rank(tc.state)
  /\ tc.state # "NOT_STARTED" => new.total = tc.total

(* The counters are a summary of the result messages. *)
CountersAgree(tc) ==
  /\ tc.successes = Cardinality({i \in DOMAIN tc.results : tc.results[i].ok})
  /\ tc.failures = Cardinality({i \in DOMAIN tc.results : ~tc.results[i].ok})
  /\ Len(tc.results) <= tc.total
=============================================================================
