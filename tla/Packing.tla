------------------------------- MODULE Packing -------------------------------
(***************************************************************************)
(* What parzip promises: every file is stored or lost, one at a time, and  *)
(* the archive can be read only once it is sealed, when none is left and   *)
(* at least one is stored; from then on it never changes, and lists what   *)
(* was stored, in the order in which it was, and whole.  Only a file whose *)
(* storing missed a failure may be listed with a broken entry.             *)
(***************************************************************************)
EXTENDS Integers, Sequences

CONSTANTS
  File,
  Broken     \* what a reader finds instead of a file's bytes if they are not there

VARIABLES
  output,    \* output[f]: the bytes f compresses to
  stored,    \* the files in the archive, in their order
  lost,      \* the files that failed
  missed,    \* the files in storing which a failure was missed
  listing    \* what a reader finds in the archive: <<file, bytes>>

packVars == <<output, stored, lost, missed, listing>>

Elements(s) == {s[i] : i \in DOMAIN s}

Pending == File \ (Elements(stored) \cup lost)

-----------------------------------------------------------------------------

PackInit ==
  /\ output \in [File -> Nat]
  /\ stored = << >>
  /\ lost = {}
  /\ missed = {}
  /\ listing = << >>

Store(f) ==
  /\ f \in Pending
  /\ stored' = Append(stored, f)
  /\ missed' \in {missed, missed \cup {f}}
  /\ UNCHANGED <<output, lost, listing>>

Lose(f) ==
  /\ f \in Pending
  /\ lost' = lost \cup {f}
  /\ missed' \in {missed, missed \cup {f}}
  /\ UNCHANGED <<output, stored, listing>>

Seal ==
  /\ Pending = {}
  /\ stored # << >>
  /\ listing = << >>
  /\ \E broken \in SUBSET missed :
       listing' = [i \in DOMAIN stored |->
                     <<stored[i], IF stored[i] \in broken THEN Broken ELSE output[stored[i]]>>]
  /\ UNCHANGED <<output, stored, lost, missed>>

PackNext == Seal \/ \E f \in File : Store(f) \/ Lose(f)

PackSpec == PackInit /\ [][PackNext]_packVars

(* Every file is tried, and what was stored is sealed. *)
FairPackSpec ==
  /\ PackSpec
  /\ WF_packVars(Seal)
  /\ \A f \in File : WF_packVars(Store(f) \/ Lose(f))
=============================================================================
