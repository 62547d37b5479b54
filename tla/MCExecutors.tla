----------------------------- MODULE MCExecutors -----------------------------
(***************************************************************************)
(* The two executors of a claimed job, each explored on its own in one     *)
(* run: a behaviour is one of chains of ops, or of infer requests.         *)
(*                                                                         *)
(* Chains: a fan-out with a reader by url that waits for what it reads and *)
(* one that does not; two chains that meet at the permits, and a third of  *)
(* another pack. Requests: rank requests for the   *)
(* same weights, among other kinds, on a card of either size; the last one *)
(* is of a kind that this pod does not serve.                              *)
(***************************************************************************)
EXTENDS OpsChain

CONSTANTS Jobs, Requests, Kind, Weights, Sets, Groups, Tiles, Gathered, Coexist, Served, Parallel

VARIABLES part, coexist, pc, cache, uses, lock, slots, image, had, group, result

infers == <<coexist, pc, cache, uses, lock, slots, image, had, group, result>>

I == INSTANCE InferServices WITH Loads <- Requests

ASSUME RequestAssumption == I!InferAssumption

MCChains == {"fan", "left", "right", "other"}
MCSteps  == {"f1", "f2", "sum", "read", "l", "lh", "r", "rh", "o"}
MCOf     == [s \in MCSteps |-> CASE s \in {"f1", "f2", "sum", "read"} -> "fan" [] s \in {"l", "lh"} -> "left"
                                 [] s \in {"r", "rh"} -> "right" [] OTHER -> "other"]
MCNeeds  == [s \in MCSteps |-> CASE s = "read" -> {"sum"} [] s = "sum" -> {"f1"} [] s = "lh" -> {"l"} [] OTHER -> {}]
MCReads  == [s \in MCSteps |-> IF s \in {"read", "f2"} THEN {"sum"} ELSE {}]
MCPorts  == [s \in MCSteps |-> CASE s \in {"f1", "lh", "o"} -> 1 [] s = "sum" -> 2 [] OTHER -> 0]
MCOptional == {"f1", "sum", "read", "l"}
MCHeavy  == {"lh", "rh", "sum"}
MCTransport == {"f1", "f2"}
MCPack   == [c \in MCChains |-> IF c = "other" THEN "q" ELSE "p"]
MCLoads  == {{"fan"}, {"fan", "other"}, {"left", "right", "other"}}

MCJobs    == {"r1", "r2", "r3", "a", "g", "p"}
MCKind    == [j \in MCJobs |-> CASE j \in {"r1", "r2", "r3"} -> "clip_rank" [] j = "a" -> "align"
                                 [] j = "g" -> "judge" [] OTHER -> "face_probe"]
MCWeights == [j \in MCJobs |-> IF j \in {"r1", "r2"} THEN "w1" ELSE "w2"]
MCSets    == [j \in MCJobs |-> CASE j = "r1" -> 2 [] j \in {"r2", "r3"} -> 1 [] OTHER -> 0]
MCGroups  == [j \in MCJobs |-> CASE j = "r1" -> <<[set |-> 1, intent |-> TRUE], [set |-> 2, intent |-> TRUE]>>
                                 [] j = "r2" -> <<[set |-> 1, intent |-> TRUE], [set |-> 1, intent |-> FALSE]>>
                                 [] j = "r3" -> <<[set |-> 1, intent |-> TRUE]>> [] OTHER -> << >>]
MCRequests == {{"r1", "r2"}, {"r2", "r3", "g"}, {"r2", "a", "g", "p"}}
MCGathered == {<<"broken", "image">>, <<"nan", "image">>, <<"nan", "broken">>}

MCInit ==
  \/ part = "ops" /\ Init /\ I!Starts({}, TRUE)
  \/ part = "infer" /\ I!Init /\ Starts({})

MCNext ==
  /\ UNCHANGED part
  /\ \/ part = "ops" /\ Next /\ UNCHANGED infers
     \/ part = "infer" /\ I!Next /\ UNCHANGED vars

Ops   == part = "ops"
Infer == part = "infer"
MCSpec ==
  /\ MCInit /\ [][MCNext]_<<part, vars, infers>>
  /\ \A c \in Chains : WF_vars(Ops /\ Heads(c))
  /\ \A s \in Steps : /\ WF_vars(Ops /\ Submits(s)) /\ WF_vars(Ops /\ Collects(s))
                      /\ WF_vars(Ops /\ Moves(s)) /\ WF_vars(Ops /\ Puts(s))
  /\ \A j \in Jobs : /\ WF_infers(Infer /\ I!Serves(j))
                     /\ \A k \in I!SetsOf(j) : WF_infers(Infer /\ I!Prepares(j, k))

(* What the card holds, and its lanes (InferServices).                      *)
ResidencyHolds    == I!ResidencyHolds
LanesAreExact     == I!LanesAreExact
(* A tile's own score, or an error that says why (InferServices).           *)
ScoresAreTheTiles == I!ScoresAreTheTiles

(* Every chain with its transfers, and every request, ends, whatever fails  *)
(* and however they meet at the permits, the card and the locks.            *)
ExecutorsEnd == (Ops => ChainsEnd) /\ (Infer => I!RequestsEnd)
=============================================================================
