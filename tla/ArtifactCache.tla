---------------------------- MODULE ArtifactCache ----------------------------
(***************************************************************************)
(* One content-addressed tree of the artifact cache (artifact.py): callers *)
(* of ensure_tree that miss, fetch the tar in one stream or in concurrent  *)
(* byte ranges, verify it, unpack it beside the slot and rename it in; the *)
(* process may die at any step.                                            *)
(*                                                                         *)
(* Each call stages in a directory of its own, so only the slot is shared. *)
(* A tar is what each of its ranges holds.                                 *)
(***************************************************************************)
EXTENDS Naturals, FiniteSets

CONSTANTS
  Callers,   \* threads that ask for this tree
  Parts,     \* byte ranges of the tar (range_fetch_width)
  Overlap,   \* what a slot may hold at start when calls on it overlap
  MaxCalls,  \* bound: calls in a behaviour
  MaxDeaths  \* bound: deaths of the process

ArtifactAssumption ==
  /\ IsFiniteSet(Callers) /\ IsFiniteSet(Parts) /\ Parts # {}
  /\ Overlap \subseteq {"absent", "bare"} /\ {MaxCalls, MaxDeaths} \subseteq Nat

VARIABLES
  slot,    \* dest: "absent", "bare" (a directory without DONE), or a "tree"
  whole,   \* every file of the verified tar is in the slot
  pc,      \* where each caller stands
  tar,     \* per caller and range: "hole", "good" or "bad" bytes of its staged tar
  part,    \* per caller and range: the thread that fetches it
  abort,   \* per caller: the event its range threads poll
  first,   \* what the slot held when the behaviour began
  left     \* calls and deaths left

calls == <<pc, tar, part, abort>>
vars  == <<slot, whole, calls, first, left>>

Goes(c, where) == pc' = [pc EXCEPT ![c] = where]
Every(x)       == [p \in Parts |-> x]
Running(c)     == {p \in Parts : part[c][p] = "run"}
Idle(c)        == pc[c] \in {"idle", "served", "failed"} /\ Running(c) = {}

-----------------------------------------------------------------------------
(* ensure_tree: the HIT, or a staging directory and a probe of the origin. *)

Asks(c) ==
  /\ left.calls > 0 /\ Idle(c)
  /\ first \in Overlap \/ \A d \in Callers : Idle(d)
  /\ left' = [left EXCEPT !.calls = @ - 1]
  /\ Goes(c, IF slot = "tree" THEN "served" ELSE "probe")
  /\ tar' = [tar EXCEPT ![c] = Every("hole")] /\ abort' = [abort EXCEPT ![c] = FALSE]
  /\ UNCHANGED <<slot, whole, part, first>>

(* _range_probe: a 206 and a size worth splitting, or one stream. *)
Probes(c) ==
  /\ pc[c] = "probe"
  /\ \/ Goes(c, "stream") /\ UNCHANGED part
     \/ Goes(c, "ranged") /\ part' = [part EXCEPT ![c] = Every("run")]
  /\ UNCHANGED <<slot, whole, tar, abort, first, left>>

(* download_verified: hashed as it is read. *)
Streams(c) ==
  /\ pc[c] = "stream"
  /\ \/ Goes(c, "verify") /\ tar' = [tar EXCEPT ![c] = Every("good")]
     \/ Goes(c, "verify") /\ tar' = [tar EXCEPT ![c] = [p \in Parts |-> "bad"]]
     \/ Goes(c, "failed") /\ UNCHANGED tar  \* the source stalls, or the request fails
  /\ UNCHANGED <<slot, whole, part, abort, first, left>>

(* _fetch_range *)
PartEnds(c, p, how) == part' = [part EXCEPT ![c][p] = how] /\ UNCHANGED <<slot, whole, pc, abort, first, left>>

PartArrives(c, p) ==
  /\ part[c][p] = "run" /\ ~abort[c]
  /\ \E bytes \in {"good", "bad"} : tar' = [tar EXCEPT ![c][p] = bytes]
  /\ PartEnds(c, p, "done")

(* No 206, another offset, another length, or the request's timeout. *)
PartFails(c, p) == part[c][p] = "run" /\ PartEnds(c, p, "failed") /\ UNCHANGED tar

(* A sibling has failed: it returns between two chunks, without an error. *)
PartAborts(c, p) == part[c][p] = "run" /\ abort[c] /\ PartEnds(c, p, "done") /\ UNCHANGED tar

AllArrived(c) == \A p \in Parts : part[c][p] = "done"

(* Mutant of RangedEnds: a range that fails last is not noticed. *)
MissesLastFailure(c) ==
  /\ pc[c] = "ranged"
  /\ \/ AllArrived(c) /\ Goes(c, "verify") /\ UNCHANGED abort
     \/ /\ Running(c) # {} /\ \E p \in Parts : part[c][p] = "failed" \/ tar[c][p] # "hole"
        /\ Goes(c, "failed") /\ abort' = [abort EXCEPT ![c] = TRUE]
  /\ UNCHANGED <<slot, whole, tar, part, first, left>>

(* _download_ranged: the first exception, or a window below the floor while *)
(* ranges are pending and bytes have arrived, aborts the siblings; nobody   *)
(* waits for them.                                                          *)
RangedEnds(c) ==
  /\ pc[c] = "ranged"
  /\ \/ AllArrived(c) /\ Goes(c, "verify") /\ UNCHANGED abort
     \/ /\ \/ \E p \in Parts : part[c][p] = "failed"
           \/ Running(c) # {} /\ \E p \in Parts : tar[c][p] # "hole"
        /\ Goes(c, "failed") /\ abort' = [abort EXCEPT ![c] = TRUE]
  /\ UNCHANGED <<slot, whole, tar, part, first, left>>

(* Mutant of Verified: the size alone is compared. *)
SizeMatches(c) == \A p \in Parts : tar[c][p] # "hole"

Verified(c) == \A p \in Parts : tar[c][p] \notin {"hole", "bad"}

(* _verify, safe_extract and the sentinel, all in the staging directory. *)
Verifies(c) ==
  /\ pc[c] = "verify"
  /\ Goes(c, IF Verified(c) THEN "extract" ELSE "failed")
  /\ UNCHANGED <<slot, whole, tar, part, abort, first, left>>

Extracts(c) ==
  /\ pc[c] = "extract"
  /\ Goes(c, "take") \/ Goes(c, "failed")
  /\ UNCHANGED <<slot, whole, tar, part, abort, first, left>>

(* A slot without the sentinel is nobody's artifact. *)
TakesOver(c) ==
  /\ pc[c] = "take"
  /\ Goes(c, IF slot = "bare" THEN "clear" ELSE "rename")
  /\ UNCHANGED <<slot, whole, tar, part, abort, first, left>>

(* rmtree removes what is there when it runs. *)
Clears(c) ==
  /\ pc[c] = "clear" /\ Goes(c, "rename")
  /\ slot' = "absent" /\ whole' = FALSE
  /\ UNCHANGED <<tar, part, abort, first, left>>

(* The rename takes an absent slot; over a directory it fails, and another  *)
(* caller's tree will do.                                                   *)
Publishes(c) ==
  /\ pc[c] = "rename"
  /\ \/ slot = "absent" /\ slot' = "tree" /\ whole' = (tar[c] = Every("good")) /\ Goes(c, "served")
     \/ slot = "tree" /\ Goes(c, "served") /\ UNCHANGED <<slot, whole>>
     \/ slot = "bare" /\ Goes(c, "wedged") /\ UNCHANGED <<slot, whole>>
  /\ UNCHANGED <<tar, part, abort, first, left>>

-----------------------------------------------------------------------------
(* The staging directories of a dead process are left beside the slot. *)
Dies ==
  /\ left.deaths > 0 /\ \E c \in Callers : ~Idle(c)
  /\ slot' \in (IF \E c \in Callers : pc[c] = "clear" THEN {slot, "bare"} ELSE {slot})
  /\ whole' = (whole /\ slot' = "tree")
  /\ pc' = [c \in Callers |-> "idle"]
  /\ tar' = [c \in Callers |-> Every("hole")] /\ part' = [c \in Callers |-> Every("none")]
  /\ abort' = [c \in Callers |-> FALSE]
  /\ left' = [left EXCEPT !.deaths = @ - 1]
  /\ UNCHANGED first

Rests == left.calls = 0 /\ (\A c \in Callers : Idle(c)) /\ UNCHANGED vars

Starts(n, deaths) ==
  /\ first \in {"absent", "bare"} /\ slot = first /\ whole = FALSE
  /\ pc = [c \in Callers |-> "idle"]
  /\ tar = [c \in Callers |-> Every("hole")] /\ part = [c \in Callers |-> Every("none")]
  /\ abort = [c \in Callers |-> FALSE]
  /\ left = [calls |-> n, deaths |-> deaths]

Init == Starts(MaxCalls, MaxDeaths)

Fetches(c) ==
  \/ Probes(c) \/ Streams(c) \/ RangedEnds(c)
  \/ \E p \in Parts : PartArrives(c, p) \/ PartFails(c, p) \/ PartAborts(c, p)

Installs(c) == Verifies(c) \/ Extracts(c) \/ TakesOver(c) \/ Clears(c) \/ Publishes(c)

Next == Dies \/ Rests \/ \E c \in Callers : Asks(c) \/ Fetches(c) \/ Installs(c)

(* Every request has a timeout, so a call goes on. *)
Spec == Init /\ [][Next]_vars /\ \A c \in Callers : WF_vars(Fetches(c) \/ Installs(c))

-----------------------------------------------------------------------------
(* A slot with the sentinel holds every file of the tar that was verified,  *)
(* whichever ranges failed, stalled or arrived corrupt, and however callers *)
(* and deaths interleave (ensure_tree: "can never publish a partial tree"). *)
PublishedIsWhole == slot = "tree" => whole

(* A caller that was handed the tree keeps it: no later call or take-over   *)
(* removes it. And a tar that is being verified or unpacked has no writer   *)
(* left, although aborted ranges are not waited for.                        *)
ServedIsStable ==
  \A c \in Callers :
    /\ pc[c] = "served" => slot = "tree"
    /\ pc[c] \in {"verify", "extract", "take"} => Running(c) = {}

(* What the slot shows is whole and stays.                                  *)
ServedIsWhole == PublishedIsWhole /\ ServedIsStable

(* Every call ends, the ranges it has abandoned too. *)
FetchEnds == \A c \in Callers : ~Idle(c) ~> Idle(c)

=============================================================================
