---------------------------- MODULE InferServices ----------------------------
(***************************************************************************)
(* Inference in one agent process (main._run_infer, infer_lanes.py and     *)
(* infer_cliprank.ClipRankService): the lanes the requests run in, the     *)
(* caches of loaded services, which keep their weights on the card, the    *)
(* kind that goes before another is loaded on a small card, and the slots  *)
(* a clip_rank request's forwards share with the others'.                  *)
(***************************************************************************)
EXTENDS Naturals, Sequences, FiniteSets, SequencesExt

CONSTANTS
  Jobs,
  Loads,    \* sets of requests the process may be given
  Kind,     \* per request: "align", "clip_rank", "judge" (clip_rank's judge tiles) or "face_probe"
  Weights,  \* per request: the hash of its weights (face_probe: its model)
  Sets,     \* per clip_rank request: how many different image sets its groups name
  Groups,   \* per clip_rank request: its groups, each [set, intent]
  Tiles,    \* tiles of an image set
  Gathered, \* what may become of them: "image", "nan" (its row is not finite) or "broken" each
  Coexist,  \* what card_holds_both_kinds may say
  Served,   \* served_kinds
  Parallel  \* lane_width: threads of the rank lane, and forwards at a time

None  == "none"
Kinds == {"align", "clip_rank", "face_probe"}
InferAssumption ==
  /\ None \notin Jobs
  /\ Kind \in [Jobs -> Kinds \cup {"judge"}] /\ Served \subseteq Kinds
  /\ Coexist \in SUBSET BOOLEAN \ {{}} /\ Parallel \in Nat \ {0} /\ Tiles \in Nat \ {0}
  /\ Gathered \subseteq [1..Tiles -> {"image", "nan", "broken"}]
  /\ \A j \in Jobs : /\ Sets[j] \in Nat /\ Groups[j] \in Seq([set : 1..Sets[j], intent : BOOLEAN])
                     /\ Kind[j] = "clip_rank" => Groups[j] # << >>

VARIABLES
  coexist, \* whether this card holds both kinds, by its boot
  pc,      \* per request: where _run_infer stands
  cache,   \* the services kept: [kind, weights, by], by: the request that loaded it
  uses,    \* per request: who loaded the service it runs on
  lock,    \* _SVC_LOAD_LOCK
  slots,   \* rank_slots: forwards that may start
  image,   \* per request and image set: "new", "wait", "forward", "done" or "failed"
  had,     \* per request and image set: what became of each tile
  group,   \* per request: the group whose text is next
  result   \* per request: its groups' results

vars    == <<coexist, pc, cache, uses, lock, slots, image, had, group, result>>
ranking == <<image, had, group, result>>

Goes(j, where) == pc' = [pc EXCEPT ![j] = where]
KindOf(j)      == IF Kind[j] = "judge" THEN "clip_rank" ELSE Kind[j]
SetsOf(j)      == 1..Sets[j]
Waiting        == {"absent", "queued", "ok", "error"}
Running        == {j \in Jobs : pc[j] \notin Waiting}

-----------------------------------------------------------------------------
(* _run_infer up to the service *)

Lane(j) == IF KindOf(j) = "clip_rank" /\ coexist THEN "rank" ELSE "heavy"
Room(j) == Cardinality({k \in Running : Lane(k) = Lane(j)}) < (IF Lane(j) = "rank" THEN Parallel ELSE 1)

(* refuse_unserved comes before anything is fetched, released or loaded.    *)
Begins(j) ==
  /\ pc[j] = "queued" /\ Room(j)
  /\ Goes(j, IF KindOf(j) \in Served THEN "release" ELSE "error")
  /\ UNCHANGED <<coexist, cache, uses, lock, slots, ranking>>

(* release_other_kinds, for a kind that may load on a small card. *)
Others(j) == {s \in cache : s.kind \in {"align", "clip_rank"} /\ s.kind # Kind[j] /\ Kind[j] # "judge"}

Releases(j) ==
  /\ pc[j] = "release"
  /\ cache' = IF coexist THEN cache ELSE cache \ Others(j)
  /\ Goes(j, IF Kind[j] = "judge" THEN "run" ELSE "look")
  /\ UNCHANGED <<coexist, uses, lock, slots, ranking>>

Kept(j)   == {s \in cache : s.kind = Kind[j] /\ s.weights = Weights[j]}
Takes(j)  == uses' = [uses EXCEPT ![j] = (CHOOSE s \in Kept(j) : TRUE).by] /\ Goes(j, "run")

(* Only the rank lane is wider than one: its requests take the lock.        *)
Looks(j) ==
  /\ pc[j] = "look"
  /\ IF Kept(j) # {} THEN Takes(j)
     ELSE Goes(j, IF Kind[j] = "clip_rank" THEN "lock" ELSE "load") /\ UNCHANGED uses
  /\ UNCHANGED <<coexist, cache, lock, slots, ranking>>

(* Mutant of Relooks: what was looked up before the lock is believed. *)
LoadsAnyway(j) ==
  /\ pc[j] = "lock" /\ lock = None /\ lock' = j /\ Goes(j, "load")
  /\ UNCHANGED <<coexist, cache, uses, slots, ranking>>

(* The second look, under the lock. *)
Relooks(j) ==
  /\ pc[j] = "lock" /\ lock = None
  /\ IF Kept(j) # {} THEN Takes(j) /\ UNCHANGED lock ELSE lock' = j /\ Goes(j, "load") /\ UNCHANGED uses
  /\ UNCHANGED <<coexist, cache, slots, ranking>>

Unlocks(j) == IF lock = j THEN None ELSE lock

(* The fetch and the load, which end well or raise. *)
LoadEnds(j) ==
  /\ pc[j] = "load"
  /\ \/ /\ cache' = (cache \ Kept(j)) \cup {[kind |-> Kind[j], weights |-> Weights[j], by |-> j]}
        /\ uses' = [uses EXCEPT ![j] = j] /\ Goes(j, "run") /\ lock' = Unlocks(j)
     \/ Goes(j, "error") /\ lock' = Unlocks(j) /\ UNCHANGED <<cache, uses>>
  /\ UNCHANGED <<coexist, slots, ranking>>

(* align, face_probe and judge tiles: one run, then the result. *)
Runs(j) ==
  /\ pc[j] = "run" /\ Kind[j] # "clip_rank"
  /\ \E how \in {"ok", "error"} : Goes(j, how)
  /\ uses' = [uses EXCEPT ![j] = None]
  /\ UNCHANGED <<coexist, cache, lock, slots, ranking>>

-----------------------------------------------------------------------------
(* ClipRankService.run *)

Becomes(j, k, state) == image' = [image EXCEPT ![j][k] = state]
Preparing(j)         == {k \in SetsOf(j) : image[j][k] \in {"wait", "forward"}}
Smaller(x, y)        == IF x < y THEN x ELSE y

(* _gather: a broken tile is data; a sheet that fails, or a dead network,   *)
(* fails the set.                                                           *)
Gathers(j, k) ==
  /\ pc[j] = "run" /\ Kind[j] = "clip_rank" /\ image[j][k] = "new"
  /\ \A i \in 1..(k - 1) : image[j][i] # "new"
  /\ Cardinality(Preparing(j)) < Smaller(Parallel, Sets[j])
  /\ \/ Becomes(j, k, "wait") /\ \E got \in Gathered : had' = [had EXCEPT ![j][k] = got]
     \/ Becomes(j, k, "failed") /\ UNCHANGED had
  /\ UNCHANGED <<coexist, pc, cache, uses, lock, slots, group, result>>

(* A wait for a card lane ends after 60 s.                                  *)
Forwards(j, k) ==
  /\ pc[j] = "run" /\ image[j][k] = "wait"
  /\ \/ slots > 0 /\ slots' = slots - 1 /\ Becomes(j, k, "forward")
     \/ slots = 0 /\ Becomes(j, k, "failed") /\ UNCHANGED slots
  /\ UNCHANGED <<coexist, pc, cache, uses, lock, had, group, result>>

(* Mutant of Back: a forward that raises keeps its lane. *)
BackIfDone(how) == IF how = "failed" THEN slots ELSE slots + 1

Back(how) == slots + 1

ForwardEnds(j, k) ==
  /\ pc[j] = "run" /\ image[j][k] = "forward"
  /\ \E how \in {"done", "failed"} : Becomes(j, k, how) /\ slots' = Back(how)
  /\ UNCHANGED <<coexist, pc, cache, uses, lock, had, group, result>>

NewImages(j) == [k \in SetsOf(j) |-> "new"]
NoTiles(j)   == [k \in SetsOf(j) |-> [i \in 1..Tiles |-> "broken"]]

(* The request and its working memory are gone. *)
Ends(j, how) ==
  /\ Goes(j, how) /\ uses' = [uses EXCEPT ![j] = None]
  /\ image' = [image EXCEPT ![j] = NewImages(j)] /\ had' = [had EXCEPT ![j] = NoTiles(j)]
  /\ group' = [group EXCEPT ![j] = 1] /\ result' = [result EXCEPT ![j] = << >>]

(* The executor joins all of them; then the first failure is raised, or the *)
(* phase's verdict.                                                         *)
Joins(j) ==
  /\ pc[j] = "run" /\ Kind[j] = "clip_rank"
  /\ \A k \in SetsOf(j) : image[j][k] \in {"done", "failed"}
  /\ \/ Ends(j, "error")
     \/ (\A k \in SetsOf(j) : image[j][k] = "done") /\ Goes(j, "text") /\ UNCHANGED <<uses, ranking>>
  /\ UNCHANGED <<coexist, cache, lock, slots>>

TextWaits(j) ==
  /\ pc[j] = "text"
  /\ \/ slots > 0 /\ slots' = slots - 1 /\ Goes(j, "texting") /\ UNCHANGED <<uses, ranking>>
     \/ slots = 0 /\ Ends(j, "error") /\ UNCHANGED slots
  /\ UNCHANGED <<coexist, cache, lock>>

(* The tiles that decoded, in the request's order: what is forwarded, as    *)
(* the one-element set of that sequence.                                    *)
Ok(got) ==
  LET decoded == {i \in 1..Tiles : got[i] # "broken"}
      n == Cardinality(decoded)
  IN {ok \in [1..n -> decoded] : \A p, q \in 1..n : p < q => ok[p] < ok[q]}

(* Mutant of Place: scores are taken in the order they come. *)
InOrder(ok, i) == i

(* by_idx: where tile i is among those forwarded.                           *)
Place(ok, i) == CHOOSE p \in 1..Len(ok) : ok[p] = i

(* _score_prepared: a row per requested tile, its own score, or null with   *)
(* an error that says why. A score is named here by the tile it is of.      *)
Row(ok, got, intent, i) ==
  IF i \notin ToSet(ok) THEN [score |-> 0, embed |-> 0, error |-> "broken"]
  ELSE LET of == IF Place(ok, i) \in 1..Len(ok) THEN ok[Place(ok, i)] ELSE 0
       IN IF of # 0 /\ got[of] = "nan" THEN [score |-> 0, embed |-> 0, error |-> "non_finite"]
          ELSE [score |-> IF intent THEN of ELSE 0, embed |-> of, error |-> IF intent THEN None ELSE "empty_intent"]
Scored(ok, got, intent) ==
  LET rows == [i \in 1..Tiles |-> Row(ok, got, intent, i)]
  IN [status |-> IF \A i \in 1..Tiles : rows[i].score = 0 /\ rows[i].embed = 0 THEN "error" ELSE "ok",
      rows |-> rows]

(* The text forward of the group, over its set's images; then the next one, *)
(* or the payload and its upload.                                           *)
TextEnds(j) ==
  LET g == Groups[j][group[j]] IN
  /\ pc[j] = "texting"
  /\ \/ /\ \E ok \in Ok(had[j][g.set]) :
              result' = [result EXCEPT ![j] = Append(@, Scored(ok, had[j][g.set], g.intent))]
        /\ group' = [group EXCEPT ![j] = @ + 1] /\ slots' = Back("done") /\ UNCHANGED <<uses, image, had>>
        /\ Goes(j, IF group[j] = Len(Groups[j]) THEN "upload" ELSE "text")
     \/ Ends(j, "error") /\ slots' = Back("failed")
  /\ UNCHANGED <<coexist, cache, lock>>

Uploads(j) ==
  /\ pc[j] = "upload" /\ \E how \in {"ok", "error"} : Ends(j, how)
  /\ UNCHANGED <<coexist, cache, lock, slots>>

-----------------------------------------------------------------------------
Starts(load, fits) ==
  /\ coexist = fits /\ pc = [j \in Jobs |-> IF j \in load THEN "queued" ELSE "absent"]
  /\ cache = {} /\ uses = [j \in Jobs |-> None] /\ lock = None /\ slots = Parallel
  /\ image = [j \in Jobs |-> NewImages(j)] /\ had = [j \in Jobs |-> NoTiles(j)]
  /\ group = [j \in Jobs |-> 1] /\ result = [j \in Jobs |-> << >>]
Init == \E load \in Loads, fits \in Coexist : Starts(load, fits)

Serves(j) ==
  \/ Begins(j) \/ Releases(j) \/ Looks(j) \/ Relooks(j) \/ LoadEnds(j) \/ Runs(j)
  \/ Joins(j) \/ TextWaits(j) \/ TextEnds(j) \/ Uploads(j)
Prepares(j, k) == Gathers(j, k) \/ Forwards(j, k) \/ ForwardEnds(j, k)
Next == \E j \in Jobs : Serves(j) \/ \E k \in SetsOf(j) : Prepares(j, k)

(* The threads run; a load, a forward and a transfer end.                   *)
Spec ==
  /\ Init /\ [][Next]_vars
  /\ \A j \in Jobs : WF_vars(Serves(j)) /\ \A k \in SetsOf(j) : WF_vars(Prepares(j, k))

-----------------------------------------------------------------------------
(* Services whose weights are on the card: kept, in use, or being loaded.   *)
Resident ==
  {<<s.kind, s.weights, s.by>> : s \in cache}
    \cup {<<Kind[j], Weights[j], uses[j]>> : j \in {i \in Jobs : uses[i] # None}}
    \cup {<<Kind[j], Weights[j], j>> : j \in {i \in Jobs : pc[i] = "load"}}

(* The weights of one hash are on the card once, however many lanes ask for *)
(* them first, and after a load that failed.                                *)
LoadedOnce ==
  \A r, s \in Resident : r[1] = s[1] /\ r[2] = s[2] => r = s

(* A card too small for both kinds never holds both, nor one while the      *)
(* other loads.                                                             *)
CardHoldsOneKind ==
  ~coexist => Cardinality({r[1] : r \in Resident} \cap {"align", "clip_rank"}) <= 1

(* What the card holds at any time.                                         *)
ResidencyHolds == LoadedOnce /\ CardHoldsOneKind

(* The forwards on the card: texts, and sets of images.                     *)
Texting == {j \in Jobs : pc[j] = "texting"}
OnCard  == UNION {{<<j, k>> : k \in {i \in SetsOf(j) : image[j][i] = "forward"}} : j \in Jobs}

(* The lanes of the card are those of the forwards on it, so there is one   *)
(* for each of Parallel at the end of any request, however it ended.        *)
LanesAreExact == slots + Cardinality(Texting) + Cardinality(OnCard) = Parallel

(* Every requested tile of every group has its own score and embedding, or  *)
(* none and an error that says why; a group with neither anywhere is an     *)
(* error. Groups that share an image set share its pixels only.             *)
ScoresAreTheTiles ==
  \A j \in Jobs : \A n \in 1..Len(result[j]) :
    LET g == Groups[j][n]
        r == result[j][n]
        good == {i \in 1..Tiles : had[j][g.set][i] = "image"}
    IN /\ \A i \in 1..Tiles :
            /\ r.rows[i].embed = IF i \in good THEN i ELSE 0
            /\ r.rows[i].score = IF i \in good /\ g.intent THEN i ELSE 0
            /\ r.rows[i].score = 0 => r.rows[i].error # None
       /\ (r.status = "error") = (good = {})

(* Every request ends, whatever loads and forwards fail.                    *)
RequestsEnd == <>(\A j \in Jobs : pc[j] \in Waiting \ {"queued"})

=============================================================================
