------------------------------ MODULE Unpacking ------------------------------
(***************************************************************************)
(* What an unpacking promises, over as many runs as the user needs: a file *)
(* appears under its name whole and in one step, what is there is never    *)
(* replaced, an entry succeeds only when this run has extracted it, and    *)
(* once the run says that it is finished nothing more appears.  A failure  *)
(* does not mean that nothing is there: an earlier run or this one may     *)
(* have extracted the entry.                                               *)
(***************************************************************************)
EXTENDS Integers

CONSTANTS
  Name,      \* the names in the target directory
  Nothing    \* what is under a name that is free

VARIABLES
  named,     \* named[e]: the name of entry e, for the files and links
  target,    \* target[n]: the entry whose whole content is under n
  fate,      \* fate[e]: how far this run is with e
  finished   \* the run says that it is over

unpackVars == <<named, target, fate, finished>>

Entries == DOMAIN named

-----------------------------------------------------------------------------

UnpackInit ==
  /\ target = [n \in Name |-> Nothing]
  /\ fate = [e \in Entries |-> "waiting"]
  /\ finished = FALSE

Extract(e) ==
  /\ ~finished
  /\ fate[e] = "waiting"
  /\ target[named[e]] = Nothing
  /\ target' = [target EXCEPT ![named[e]] = e]
  /\ fate' = [fate EXCEPT ![e] = "extracted"]
  /\ UNCHANGED <<named, finished>>

Succeed(e) ==
  /\ ~finished
  /\ fate[e] = "extracted"
  /\ fate' = [fate EXCEPT ![e] = "ok"]
  /\ UNCHANGED <<named, target, finished>>

(* The name is taken, by whatever an earlier run has left there, or what   *)
(* was to be extracted is not good, or what was could not be finished.     *)
Fail(e) ==
  /\ ~finished
  /\ fate[e] \in {"waiting", "extracted"}
  /\ fate' = [fate EXCEPT ![e] = "failed"]
  /\ UNCHANGED <<named, target, finished>>

Finish ==
  /\ ~finished
  /\ finished' = TRUE
  /\ UNCHANGED <<named, target, fate>>

(* The user unpacks the archive again, finished or not. *)
Again ==
  /\ fate' = [e \in Entries |-> "waiting"]
  /\ finished' = FALSE
  /\ UNCHANGED <<named, target>>

UnpackNext ==
  \/ \E e \in Entries : Extract(e) \/ Succeed(e) \/ Fail(e)
  \/ Finish
  \/ Again

UnpackSpec == UnpackInit /\ [][UnpackNext]_unpackVars
=============================================================================
