------------------------------ MODULE MCStores ------------------------------
(***************************************************************************)
(* The two stores of whole trees, each explored on its own in one run: a   *)
(* behaviour is one of the result cache with the artifact cache asleep, or *)
(* the other way round. They share no state in the program.                *)
(***************************************************************************)
EXTENDS Naturals

CONSTANTS Threads, Keys, Cap, MaxFaults, Nobody, Callers, Parts, Overlap, MaxDeaths, MaxCalls

VARIABLES results, lock, th, rleft,
          slot, whole, pc, tar, part, abort, first, left

resultVars   == <<results, lock, th, rleft>>
artifactVars == <<slot, whole, pc, tar, part, abort, first, left>>

R == INSTANCE ResultCache WITH slot <- results, left <- rleft
A == INSTANCE ArtifactCache

ASSUME ResultsAssumption   == R!ResultAssumption
ASSUME ArtifactsAssumption == A!ArtifactAssumption

Init == (R!Init /\ A!Starts(0, 0)) \/ (R!Starts(0, 0) /\ A!Init)
Next == (R!Next /\ UNCHANGED artifactVars) \/ (A!Next /\ UNCHANGED resultVars)
Spec ==
  /\ Init /\ [][Next]_<<artifactVars, resultVars>>
  /\ \A t \in Threads : WF_(resultVars)(R!Proceeds(t))
  /\ \A c \in Callers : WF_(artifactVars)(A!Fetches(c) \/ A!Installs(c))

\* What ArtifactCache and ResultCache state of their slots.
ServedIsWhole    == A!ServedIsWhole
DeliveredIsExact == R!DeliveredIsExact
(* Every call on either store ends, and so does every range an artifact's    *)
(* call has abandoned.                                                       *)
StoreCallsEnd    == A!FetchEnds /\ R!ExecuteEnds

=============================================================================
