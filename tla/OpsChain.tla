------------------------------- MODULE OpsChain -------------------------------
(***************************************************************************)
(* The ops runner (ops/runner.py): each chain schedules the steps whose    *)
(* producers are done, every step binds, waits for the permits it needs,   *)
(* runs and leaves its PUTs to a drain that only the chain's end awaits.   *)
(* All the chains of the process share the permits, the GPU's admission,   *)
(* the uploader pool and the one ops pack the process may activate.        *)
(***************************************************************************)
EXTENDS Naturals, FiniteSets, SequencesExt

CONSTANTS
  Chains, Steps,
  Loads,        \* sets of chains the process may be given
  Of,           \* per step: its chain
  Needs,        \* per step: its producers (needs and from_step)
  Reads,        \* per step: the steps of its chain whose object it reads by url
  Ports,        \* per step: how many ports leave the box
  Optional, Heavy, Transport, \* steps of these kinds
  Pack,         \* per chain: the ops pack it names
  StepCap, TransportCap, Uploaders, GpuWidth

ASSUME ChainAssumption ==
  /\ Of \in [Steps -> Chains] /\ Ports \in [Steps -> Nat]
  /\ \A s \in Steps : \A p \in Needs[s] \cup Reads[s] : p \in Steps /\ Of[p] = Of[s]
  /\ Optional \cup Heavy \cup Transport \subseteq Steps
  /\ {StepCap, TransportCap, Uploaders, GpuWidth} \subseteq Nat \ {0}

None     == "none"
StepsOf(c) == {s \in Steps : Of[s] = c}
Arms(s)  == 1..Ports[s]

VARIABLES
  chain,   \* per chain: where run_chain stands
  pending, produced, failed, \* per chain: its sets of steps
  stuck,   \* per chain: steps whose PUT a window of the drain gave up on
  disk,    \* chains whose workspace exists
  step,    \* per step: where its thread stands
  put,     \* per step: its upload: "none", "queued", "arms", "landed" or "failed"
  arm,     \* per step: its ports: "wait", "wire", "ok" or "bad"
  active   \* the pack of the process

sets  == <<pending, produced, failed>>
vars  == <<chain, sets, stuck, disk, step, put, arm, active>>

Goes(c, where)     == chain' = [chain EXCEPT ![c] = where]
Becomes(s, where)  == step' = [step EXCEPT ![s] = where]
PutIs(s, how)      == put' = [put EXCEPT ![s] = how]
At(where)          == {s \in Steps : step[s] = where}

(* Permits in use. A transport handler runs under a transport permit.       *)
OnWire     == UNION {{<<s, p>> : p \in {q \in Arms(s) : arm[s][q] = "wire"}} : s \in Steps}
Transfers  == Cardinality(At("binding") \cup (At("running") \cap Transport)) + Cardinality(OnWire)
Computes   == Cardinality(At("running") \ Transport)
Admitted   == Cardinality((At("admitted") \cup At("running")) \cap Heavy)

Running(c)  == {s \in StepsOf(c) : s \notin pending[c] \cup produced[c] \cup failed[c]}

-----------------------------------------------------------------------------
(* The way into run_chain *)

(* preflight_chain, then pack.activate_or_mismatch: one pack per process; a *)
(* chain of another one is left claimed, with no terminal.                  *)
Enters(c) ==
  /\ chain[c] = "claimed"
  /\ \/ Goes(c, "error") /\ UNCHANGED <<active, disk, pending>>
     \/ /\ active \in {None, Pack[c]} /\ active' = Pack[c] /\ Goes(c, "run")
        /\ disk' = disk \cup {c} /\ pending' = [pending EXCEPT ![c] = StepsOf(c)]
     \/ active \notin {None, Pack[c]} /\ Goes(c, "restart") /\ UNCHANGED <<active, disk, pending>>
  /\ UNCHANGED <<produced, failed, stuck, step, put, arm>>

(* A step is submitted once its producers are in `produced`. *)
Submits(s) ==
  LET c == Of[s] IN
  /\ chain[c] = "run" /\ s \in pending[c] /\ Needs[s] \subseteq produced[c]
  /\ pending' = [pending EXCEPT ![c] = @ \ {s}] /\ Becomes(s, "bind")
  /\ UNCHANGED <<chain, produced, failed, stuck, disk, put, arm, active>>

-----------------------------------------------------------------------------
(* _run_step_inner *)

StepOnly == UNCHANGED <<chain, sets, stuck, disk, put, arm, active>>

BindStarts(s) == step[s] = "bind" /\ Transfers < TransportCap /\ Becomes(s, "binding") /\ StepOnly
BindEnds(s)   == step[s] = "binding" /\ (Becomes(s, "ready") \/ Becomes(s, "failed")) /\ StepOnly

FreeSlot(s) == IF s \in Transport THEN Transfers < TransportCap ELSE Computes < StepCap

(* A heavy step waits for the card holding nothing, then for a slot; the    *)
(* others wait for a slot only.                                             *)
Permitted(s, n) == IF n = 1 THEN s \in Heavy /\ Admitted < GpuWidth ELSE FreeSlot(s)

Admits(s) ==
  /\ step[s] = "ready" /\ s \in Heavy /\ StepOnly
  /\ \/ Permitted(s, 1) /\ Becomes(s, "admitted")
     \/ Becomes(s, "failed")   \* admission timed out

TakesSlot(s) ==
  /\ step[s] = (IF s \in Heavy THEN "admitted" ELSE "ready")
  /\ Permitted(s, 2) /\ Becomes(s, "running") /\ StepOnly

(* _sibling_url_readers: a step of the chain reads this one's object. *)
Pinned(s) == \E r \in StepsOf(Of[s]) : s \in Reads[r]

(* The handler fails or leaves a required output unwritten; or the outputs  *)
(* go to the drain and the step is done, to be put at once if it is pinned. *)
Runs(s) ==
  /\ step[s] = "running" /\ UNCHANGED <<chain, sets, stuck, disk, active>>
  /\ \/ Becomes(s, "failed") /\ UNCHANGED <<put, arm>>
     \/ /\ Pinned(s) => Ports[s] = 0
        /\ Becomes(s, "done") /\ PutIs(s, IF Ports[s] = 0 THEN "landed" ELSE "queued") /\ UNCHANGED arm
     \/ /\ Ports[s] > 0 /\ Pinned(s)
        /\ Becomes(s, "uploading") /\ PutIs(s, "queued") /\ UNCHANGED arm

-----------------------------------------------------------------------------
(* _finish_step_uploads, in the step's thread or in one of the uploaders:   *)
(* retention first, then one arm per port, each under a permit of its own;  *)
(* all are joined.                                                          *)

Uploading == {s \in Steps : put[s] = "arms" /\ step[s] # "uploading"}

PutEnds(s, how) ==
  /\ PutIs(s, how)
  /\ IF step[s] = "uploading" THEN Becomes(s, IF how = "landed" THEN "done" ELSE "failed") ELSE UNCHANGED step

PutStarts(s) ==
  /\ put[s] = "queued" /\ (step[s] = "uploading" \/ Cardinality(Uploading) < Uploaders)
  /\ \/ PutEnds(s, "failed") /\ UNCHANGED arm      \* an output that can not be retained
     \/ PutIs(s, "arms") /\ arm' = [arm EXCEPT ![s] = [p \in Arms(s) |-> "wait"]] /\ UNCHANGED step
  /\ UNCHANGED <<chain, sets, stuck, disk, active>>

(* Mutant of Wire: the arms queue at the uploaders too. *)
PooledWire(s) == Transfers < TransportCap /\ Cardinality(Uploading) + Cardinality(OnWire) < Uploaders

Wire(s) == Transfers < TransportCap

ArmStarts(s, p) ==
  /\ arm[s][p] = "wait" /\ Wire(s)
  /\ arm' = [arm EXCEPT ![s][p] = "wire"]
  /\ UNCHANGED <<chain, sets, stuck, disk, step, put, active>>

ArmEnds(s, p) ==
  /\ arm[s][p] = "wire"
  /\ \E how \in {"ok", "bad"} : arm' = [arm EXCEPT ![s][p] = how]
  /\ UNCHANGED <<chain, sets, stuck, disk, step, put, active>>

Joined(s) == \A p \in Arms(s) : arm[s][p] \in {"ok", "bad"}

PutJoins(s) ==
  /\ put[s] = "arms" /\ Joined(s)
  /\ PutEnds(s, IF \A p \in Arms(s) : arm[s][p] = "ok" THEN "landed" ELSE "failed")
  /\ UNCHANGED <<chain, sets, stuck, disk, arm, active>>

-----------------------------------------------------------------------------
(* run_chain: a step's end *)

(* _drop_dependents_of_failed, whose passes add what Follows until nothing  *)
(* does: the least set that holds `bad` and all that follows.               *)
Follows(c, gone) == {s \in pending[c] : Needs[s] \cap gone # {}}
Doomed(c, bad) ==
  {s \in bad \cup pending[c] :
     \A gone \in SUBSET (bad \cup pending[c]) : bad \subseteq gone /\ Follows(c, gone) \subseteq gone => s \in gone}

(* A required failure ends the schedule; an optional one takes the steps    *)
(* that needed it along, unless one of them is required.                    *)
Collects(s) ==
  LET c == Of[s] IN
  /\ chain[c] = "run" /\ s \in Running(c) /\ UNCHANGED <<stuck, disk, step, put, arm, active>>
  /\ \/ /\ step[s] = "done" /\ produced' = [produced EXCEPT ![c] = @ \cup {s}]
        /\ UNCHANGED <<chain, pending, failed>>
     \/ /\ step[s] = "failed"
        /\ LET gone == Doomed(c, failed[c] \cup {s})
           IN IF gone \subseteq Optional
              THEN /\ failed' = [failed EXCEPT ![c] = gone] /\ pending' = [pending EXCEPT ![c] = @ \ gone]
                   /\ UNCHANGED <<chain, produced>>
              ELSE Goes(c, "raise") /\ UNCHANGED sets

(* The executor's end waits for the chain's threads. *)
Raises(c) ==
  /\ chain[c] = "raise" /\ \A s \in Running(c) : step[s] \in {"done", "failed"}
  /\ Goes(c, "settleError")
  /\ UNCHANGED <<sets, stuck, disk, step, put, arm, active>>

Scheduled(c) ==
  /\ chain[c] = "run" /\ pending[c] = {} /\ Running(c) = {}
  /\ Goes(c, "wait")
  /\ UNCHANGED <<sets, stuck, disk, step, put, arm, active>>

-----------------------------------------------------------------------------
(* _PutDrain: a window of each call's own. *)

Outstanding(c) == {s \in StepsOf(c) : put[s] \in {"queued", "arms"}}

(* Mutant of Skipped: an optional step's failed PUT stays in the terminal.  *)
KeepsUnlanded(c, gone) == produced' = produced /\ failed' = [failed EXCEPT ![c] = @ \cup gone]

Skipped(c, gone) ==
  /\ produced' = [produced EXCEPT ![c] = @ \ gone] /\ failed' = [failed EXCEPT ![c] = @ \cup gone]

(* wait: all the PUTs have ended, or the window has. A required one that    *)
(* failed or did not end raises; an optional one is skipped.                *)
Waits(c) ==
  /\ chain[c] = "wait"
  /\ LET late == Outstanding(c)
         bad  == late \cup {s \in StepsOf(c) : put[s] = "failed"}
     IN /\ stuck' = [stuck EXCEPT ![c] = late]
        /\ IF bad \subseteq Optional THEN Goes(c, "settle") /\ Skipped(c, bad)
                                     ELSE Goes(c, "settleError") /\ UNCHANGED <<produced, failed>>
  /\ UNCHANGED <<pending, disk, step, put, arm, active>>

(* Mutant of GivesUp: the workspace goes at once. *)
NeverSettles(c) == stuck' = stuck

(* settle: a window for what wait() did not give up on already.             *)
GivesUp(c) ==
  \/ Outstanding(c) \subseteq stuck[c] /\ UNCHANGED stuck
  \/ stuck' = [stuck EXCEPT ![c] = @ \cup Outstanding(c)]

(* The terminal of a chain that went well is sent before; the workspace     *)
(* goes either way.                                                         *)
Settles(c) ==
  /\ chain[c] \in {"settle", "settleError"} /\ GivesUp(c)
  /\ Goes(c, IF chain[c] = "settle" THEN "ok" ELSE "error") /\ disk' = disk \ {c}
  /\ UNCHANGED <<sets, step, put, arm, active>>

-----------------------------------------------------------------------------
Over(c) == chain[c] \in {"ok", "error", "restart", "absent"}

Starts(load) ==
  /\ chain = [c \in Chains |-> IF c \in load THEN "claimed" ELSE "absent"]
  /\ pending = [c \in Chains |-> {}] /\ produced = [c \in Chains |-> {}] /\ failed = [c \in Chains |-> {}]
  /\ stuck = [c \in Chains |-> {}] /\ disk = {}
  /\ step = [s \in Steps |-> None] /\ put = [s \in Steps |-> None]
  /\ arm = [s \in Steps |-> [p \in Arms(s) |-> None]] /\ active = None
Init == \E load \in Loads : Starts(load)

Moves(s) == BindStarts(s) \/ BindEnds(s) \/ Admits(s) \/ TakesSlot(s) \/ Runs(s)
Puts(s)  == PutStarts(s) \/ PutJoins(s) \/ \E p \in Arms(s) : ArmStarts(s, p) \/ ArmEnds(s, p)
Heads(c) == Enters(c) \/ Raises(c) \/ Scheduled(c) \/ Waits(c) \/ Settles(c)

Next == \/ \E c \in Chains : Heads(c)
        \/ \E s \in Steps : Submits(s) \/ Moves(s) \/ Puts(s) \/ Collects(s)

(* Threads run; a bind, a handler and an attempt to put have walls of their *)
(* own (the pack's patience, download and upload).                          *)
Spec ==
  /\ Init /\ [][Next]_vars
  /\ \A c \in Chains : WF_vars(Heads(c))
  /\ \A s \in Steps : WF_vars(Submits(s)) /\ WF_vars(Collects(s)) /\ WF_vars(Moves(s)) /\ WF_vars(Puts(s))

-----------------------------------------------------------------------------
(* A chain that ends well tells the truth: each of its steps is either      *)
(* produced, its objects out there, or skipped, and then it is optional.    *)
TellsTheTruth ==
  \A c \in Chains : chain[c] \in {"settle", "ok"} =>
    /\ produced[c] \cup failed[c] = StepsOf(c) /\ produced[c] \cap failed[c] = {}
    /\ failed[c] \subseteq Optional
    /\ \A s \in produced[c] : put[s] = "landed"

(* What a step waits for: its producers and theirs, the least set that      *)
(* holds the ones it needs and whatever one of its own needs.               *)
Ancestors(s) ==
  {p \in StepsOf(Of[s]) : \A up \in SUBSET StepsOf(Of[s]) :
     Needs[s] \subseteq up /\ (\A q \in up : Needs[q] \subseteq up) => p \in up}

(* A step that reads a sibling's object by its url, and waits for that      *)
(* sibling, however far up, starts after the object landed. Nothing makes   *)
(* it wait: a url that is read asks for no entry in `needs` (OpChain).      *)
ReadersFindObject ==
  \A s \in Steps : step[s] # None => \A p \in Reads[s] \cap Ancestors(s) : put[p] = "landed"

(* What a sibling or the control plane is sent to has landed.               *)
NamedHasLanded == TellsTheTruth /\ ReadersFindObject

(* A workspace is removed under no transfer, except one that a window of    *)
(* the drain gave up on, and under no step.                                 *)
WorkspaceOutlivesUse ==
  \A c \in Chains : c \notin disk /\ chain[c] \in {"ok", "error"} =>
    /\ Outstanding(c) \subseteq stuck[c]
    /\ \A s \in StepsOf(c) : \A p \in Arms(s) : arm[s][p] = "wire" => s \in stuck[c]
    /\ \A s \in StepsOf(c) : step[s] \in {None, "done", "failed"}

(* Every chain and its transfers end, whatever fails and however the chains *)
(* meet at the permits, the card and the uploaders.                         *)
ChainsEnd == <>(\A c \in Chains : Over(c) /\ Outstanding(c) = {})

=============================================================================
