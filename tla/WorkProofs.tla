----------------------------- MODULE WorkProofs -----------------------------
(***************************************************************************)
(* Proofs about what carries out a claimed job: the chains of ops and the  *)
(* inference requests, the two executors that MCExecutors explores, and    *)
(* the transfers of MCTransfers that both rest on.                         *)
(***************************************************************************)
EXTENDS MCExecutors, MCTransfers, FiniteSetTheorems, FunctionTheorems, SequenceTheorems, TLAPS

-----------------------------------------------------------------------------
(* The ops runner. *)

Moments == {None, "bind", "binding", "ready", "admitted", "running", "uploading", "done", "failed"}

OpsTypes ==
  /\ chain \in [Chains -> {"absent", "claimed", "run", "raise", "wait", "settle", "settleError",
                           "ok", "error", "restart"}]
  /\ pending \in [Chains -> SUBSET Steps] /\ produced \in [Chains -> SUBSET Steps]
  /\ failed \in [Chains -> SUBSET Steps] /\ stuck \in [Chains -> SUBSET Steps]
  /\ step \in [Steps -> Moments] /\ put \in [Steps -> {None, "queued", "arms", "landed", "failed"}]
  /\ arm = [s \in Steps |-> arm[s]]
  /\ \A s \in Steps : arm[s] \in [Arms(s) -> {None, "wait", "wire", "ok", "bad"}]

(* A step has a PUT once its handler is through, a step that is pinned is   *)
(* done when its PUT has landed, and a port is on the wire under a PUT.     *)
PutFollows(s) ==
  /\ step[s] \in Moments \ {"uploading", "done", "failed"} => put[s] = None
  /\ step[s] = "uploading" => put[s] \in {"queued", "arms"}
  /\ step[s] = "done" => put[s] # None
  /\ step[s] = "done" /\ Pinned(s) => put[s] = "landed"
  /\ step[s] = "failed" => put[s] \in {None, "failed"}
  /\ \A p \in Arms(s) : arm[s][p] \in {"wait", "wire"} => put[s] = "arms"

(* A chain's three sets part its steps by what has become of them.          *)
SetsAgree(c) ==
  /\ pending[c] \cup produced[c] \cup failed[c] \subseteq StepsOf(c)
  /\ failed[c] \cap (pending[c] \cup produced[c]) = {} /\ failed[c] \subseteq Optional
  /\ \A s \in pending[c] : step[s] = None
  /\ \A s \in produced[c] : step[s] = "done"
  /\ \A s \in failed[c] : step[s] \in {None, "done", "failed"}

Early    == {"absent", "claimed", "restart"}
Schedule == {"run", "raise"}

(* What is over at each place of run_chain: no step has begun, none runs,   *)
(* all are settled, what is produced has landed, and no PUT is left that a  *)
(* window did not give up on.                                               *)
ChainFollows(c) ==
  /\ chain[c] \in Early => failed[c] = {} /\ \A s \in StepsOf(c) : step[s] = None
  /\ chain[c] \notin Early \cup Schedule => \A s \in StepsOf(c) : step[s] \in {None, "done", "failed"}
  /\ chain[c] \in {"wait", "settle", "ok"} => produced[c] \cup failed[c] = StepsOf(c)
  /\ chain[c] \in {"settle", "ok"} => \A s \in produced[c] : put[s] = "landed"
  /\ chain[c] \in {"ok", "error"} => Outstanding(c) \subseteq stuck[c]

(* A step begins after its producers are done, and done is for good.        *)
ProducersDone == \A s \in Steps : step[s] # None => \A p \in Needs[s] : step[p] = "done"

OpsHold ==
  /\ \A s \in Steps : PutFollows(s)
  /\ \A c \in Chains : SetsAgree(c) /\ ChainFollows(c)
  /\ ProducersDone

OpsInv == OpsTypes /\ OpsHold

(* What Doomed adds to the steps that failed was pending.                   *)
LEMMA DoomedWasPending ==
  ASSUME NEW c \in Chains, NEW lost0
  PROVE  lost0 \subseteq Doomed(c, lost0) /\ Doomed(c, lost0) \subseteq lost0 \cup pending[c]
BY DEF Doomed

LEMMA OpsStart == Init => OpsInv
<1> SUFFICES ASSUME NEW load \in Loads, Starts(load) PROVE OpsInv
  BY DEF Init
<1>1. OpsTypes
  BY ChainAssumption DEF Starts, OpsTypes, Moments, Arms, None
<1>2. \A s \in Steps : PutFollows(s)
  BY <1>1 DEF Starts, OpsTypes, Moments, Arms, None, PutFollows
<1>3. \A c \in Chains : SetsAgree(c) /\ ChainFollows(c)
  BY <1>1 DEF Starts, SetsAgree, ChainFollows, Early, Schedule, StepsOf, Outstanding, None
<1>4. ProducersDone
  BY DEF Starts, ProducersDone
<1> QED
  BY <1>1, <1>2, <1>3, <1>4 DEF OpsInv, OpsHold

Active == Moments \ {None, "done", "failed"}

(* What one step's thread, or its PUT, does, keeps the rest: it touches     *)
(* that step alone, a step with no thread stays where it is, what landed    *)
(* stays, and a PUT comes only from a step with a thread.                   *)
LEMMA StepKeepsRest ==
  ASSUME OpsInv, OpsTypes', NEW s \in Steps, PutFollows(s)',
         UNCHANGED <<chain, pending, produced, failed, stuck>>,
         \A r \in Steps \ {s} : step'[r] = step[r] /\ put'[r] = put[r] /\ arm'[r] = arm[r],
         step'[s] = step[s] \/ (step[s] \in Active /\ step'[s] # None),
         put[s] = "landed" => put'[s] = "landed",
         put'[s] \in {"queued", "arms"} => put[s] \in {"queued", "arms"} \/ step[s] \in Active
  PROVE  OpsInv'
<1>1. \A r \in Steps \ {s} : PutFollows(r)'
  <2> TAKE r \in Steps \ {s}
  <2>1. PutFollows(r)
    BY DEF OpsInv, OpsHold
  <2> QED
    BY <2>1 DEF PutFollows
<1>2. ASSUME NEW c \in Chains, s \in StepsOf(c), step[s] \in Active
      PROVE  s \notin pending[c] \cup produced[c] \cup failed[c] /\ chain[c] \in Schedule
  BY <1>2 DEF OpsInv, OpsHold, SetsAgree, ChainFollows, Active, Early
<1>3. ASSUME NEW c \in Chains PROVE SetsAgree(c)'
  <2>1. SetsAgree(c) /\ pending[c] \cup produced[c] \cup failed[c] \subseteq Steps
    BY DEF OpsInv, OpsHold, SetsAgree, StepsOf
  <2>2. \A r \in pending[c] \cup produced[c] \cup failed[c] : step'[r] = step[r]
    BY <1>2, <2>1 DEF SetsAgree
  <2> QED
    BY <2>1, <2>2 DEF SetsAgree
<1>4. ASSUME NEW c \in Chains PROVE ChainFollows(c)'
  <2>1. ChainFollows(c)
    BY DEF OpsInv, OpsHold
  <2>2. CASE chain[c] \in Schedule
    BY <2>2 DEF ChainFollows, Early, Schedule
  <2>3. CASE chain[c] \notin Schedule
    <3>1. \A r \in StepsOf(c) : step'[r] = step[r]
      BY <1>2, <2>3 DEF StepsOf
    <3>2. Outstanding(c)' \subseteq Outstanding(c)
      BY <1>2, <2>3 DEF StepsOf, Outstanding
    <3>3. produced[c] \subseteq Steps
      BY DEF OpsInv, OpsTypes
    <3> QED
      BY <2>1, <3>1, <3>2, <3>3 DEF ChainFollows
  <2> QED
    BY <2>2, <2>3
<1>5. ProducersDone'
  <2> SUFFICES ASSUME NEW r \in Steps, step'[r] # None, NEW p \in Needs[r] PROVE step'[p] = "done"
    BY DEF ProducersDone
  <2>1. step[r] # None
    BY DEF Active
  <2>2. step[p] = "done"
    BY <2>1 DEF OpsInv, OpsHold, ProducersDone
  <2>3. p \in Steps
    BY ChainAssumption
  <2> QED
    BY <2>2, <2>3 DEF Active
<1> QED
  BY <1>1, <1>3, <1>4, <1>5 DEF OpsInv, OpsHold

(* A step that begins or goes on, and has no PUT yet. *)
LEMMA MovesKeep ==
  ASSUME OpsInv, NEW s \in Steps,
         BindStarts(s) \/ BindEnds(s) \/ Admits(s) \/ TakesSlot(s)
  PROVE  OpsInv'
<1> DEFINE here == step[s]
           next == step'[s]
<1>1. /\ here \in {"bind", "binding", "ready", "admitted"}
      /\ next \in {"binding", "ready", "failed", "admitted", "running"}
      /\ step' = [step EXCEPT ![s] = next] /\ StepOnly
  BY DEF BindStarts, BindEnds, Admits, TakesSlot, Becomes, OpsInv, OpsTypes
<1>2. /\ UNCHANGED <<chain, pending, produced, failed, stuck, put, arm>>
      /\ step'[s] = next /\ \A r \in Steps \ {s} : step'[r] = step[r]
  BY <1>1 DEF StepOnly, sets, OpsInv, OpsTypes
<1>3. OpsTypes'
  BY <1>1, <1>2 DEF OpsInv, OpsTypes, Moments, None
<1>4. put[s] = None /\ PutFollows(s)
  BY <1>1 DEF OpsInv, OpsHold, PutFollows, Moments
<1>5. PutFollows(s)'
  BY <1>1, <1>2, <1>4 DEF PutFollows, Moments, None
<1>6. here \in Active /\ next # None
  BY <1>1 DEF Active, Moments, None
<1> QED
  BY <1>2, <1>3, <1>5, <1>6, StepKeepsRest

(* The handler's end. *)
LEMMA RunsKeeps ==
  ASSUME OpsInv, NEW s \in Steps, Runs(s)
  PROVE  OpsInv'
<1>1. /\ step[s] = "running" /\ put[s] = None /\ PutFollows(s) /\ step[s] \in Active
      /\ UNCHANGED <<chain, pending, produced, failed, stuck, arm>>
  BY DEF OpsInv, OpsHold, PutFollows, Moments, Active, None, Runs, sets
<1>2. /\ step'[s] \in {"failed", "done", "uploading"}
      /\ step'[s] = "failed" => put'[s] = None
      /\ step'[s] = "done" => put'[s] \in {"landed", "queued"} /\ (Pinned(s) => put'[s] = "landed")
      /\ step'[s] = "uploading" => put'[s] = "queued"
      /\ \A r \in Steps \ {s} : step'[r] = step[r] /\ put'[r] = put[r]
  BY <1>1 DEF Runs, Becomes, PutIs, OpsInv, OpsTypes
<1>3. OpsTypes'
  <2>1. step' \in [Steps -> Moments] /\ put' \in [Steps -> {None, "queued", "arms", "landed", "failed"}]
    <3>1. \E here \in Moments, how \in {None, "queued", "landed"} :
            step' = [step EXCEPT ![s] = here] /\ (put' = put \/ put' = [put EXCEPT ![s] = how])
      BY DEF Runs, Becomes, PutIs, Moments
    <3> QED
      BY <3>1 DEF OpsInv, OpsTypes
  <2> QED
    BY <1>1, <2>1 DEF OpsInv, OpsTypes
<1>4. PutFollows(s)'
  BY <1>1, <1>2 DEF PutFollows, Moments, None
<1> QED
  BY <1>1, <1>2, <1>3, <1>4, StepKeepsRest DEF None

(* A PUT starts, its ports go and come, and it ends. *)
LEMMA PutsKeep ==
  ASSUME OpsInv, NEW s \in Steps, Puts(s)
  PROVE  OpsInv'
<1>1. PutFollows(s) /\ UNCHANGED <<chain, pending, produced, failed, stuck>>
  BY DEF OpsInv, OpsHold, Puts, PutStarts, PutJoins, ArmStarts, ArmEnds, sets
<1>2. CASE PutStarts(s)
  <2>1. /\ put[s] = "queued" /\ step[s] \in {"uploading", "done"} /\ (step[s] = "done" => ~Pinned(s))
        /\ \A p \in Arms(s) : arm[s][p] \notin {"wait", "wire"}
    BY <1>1, <1>2 DEF PutStarts, PutFollows, OpsInv, OpsTypes, Moments, None
  <2>2. /\ put'[s] \in {"failed", "arms"}
        /\ put'[s] = "arms" => step'[s] = step[s]
        /\ put'[s] = "failed" => arm'[s] = arm[s]
             /\ step'[s] = IF step[s] = "uploading" THEN "failed" ELSE step[s]
        /\ \A r \in Steps \ {s} : step'[r] = step[r] /\ put'[r] = put[r] /\ arm'[r] = arm[r]
    BY <1>2, <2>1 DEF PutStarts, PutEnds, PutIs, Becomes, OpsInv, OpsTypes
  <2>3. OpsTypes'
    <3>1. arm' = [r \in Steps |-> arm'[r]]
            /\ \A r \in Steps : arm'[r] \in [Arms(r) -> {None, "wait", "wire", "ok", "bad"}]
      BY <1>2 DEF PutStarts, OpsInv, OpsTypes
    <3> QED
      BY <1>1, <1>2, <3>1 DEF PutStarts, PutEnds, PutIs, Becomes, OpsInv, OpsTypes, Moments, None
  <2>4. PutFollows(s)'
    BY <2>1, <2>2 DEF PutFollows, Moments, None
  <2> QED
    BY <1>1, <2>1, <2>2, <2>3, <2>4, StepKeepsRest DEF Active, Moments, None
<1>3. ASSUME NEW p \in Arms(s), ArmStarts(s, p) \/ ArmEnds(s, p) PROVE OpsInv'
  <2>1. put[s] = "arms"
    BY <1>1, <1>3 DEF ArmStarts, ArmEnds, PutFollows
  <2>2. UNCHANGED <<step, put>> /\ \A r \in Steps \ {s} : arm'[r] = arm[r]
    BY <1>3 DEF ArmStarts, ArmEnds, OpsInv, OpsTypes
  <2>3. OpsTypes'
    <3>1. arm' = [r \in Steps |-> arm'[r]]
            /\ \A r \in Steps : arm'[r] \in [Arms(r) -> {None, "wait", "wire", "ok", "bad"}]
      BY <1>3 DEF ArmStarts, ArmEnds, OpsInv, OpsTypes
    <3> QED
      BY <1>1, <2>2, <3>1 DEF OpsInv, OpsTypes
  <2>4. PutFollows(s)'
    BY <1>1, <2>1, <2>2 DEF PutFollows
  <2>5. /\ step'[s] = step[s] /\ put'[s] = put[s] /\ put[s] \in {"queued", "arms"}
        /\ \A r \in Steps \ {s} : step'[r] = step[r] /\ put'[r] = put[r] /\ arm'[r] = arm[r]
    BY <2>1, <2>2
  <2> QED
    BY <1>1, <2>3, <2>4, <2>5, StepKeepsRest
<1>4. CASE PutJoins(s)
  <2>1. /\ put[s] = "arms" /\ step[s] \in {"uploading", "done"} /\ (step[s] = "done" => ~Pinned(s))
        /\ \A p \in Arms(s) : arm[s][p] \notin {"wait", "wire"}
    BY <1>1, <1>4 DEF PutJoins, Joined, PutFollows, OpsInv, OpsTypes, Moments, None
  <2>2. /\ put'[s] \in {"failed", "landed"} /\ UNCHANGED arm
        /\ step'[s] = IF step[s] = "uploading" THEN (IF put'[s] = "landed" THEN "done"
             ELSE "failed") ELSE step[s]
        /\ \A r \in Steps \ {s} : step'[r] = step[r] /\ put'[r] = put[r]
    BY <1>4, <2>1 DEF PutJoins, PutEnds, PutIs, Becomes, OpsInv, OpsTypes
  <2>3. OpsTypes'
    BY <1>1, <1>4 DEF PutJoins, PutEnds, PutIs, Becomes, OpsInv, OpsTypes, Moments, None
  <2>4. PutFollows(s)'
    BY <2>1, <2>2 DEF PutFollows, Moments, None
  <2> QED
    BY <1>1, <2>1, <2>2, <2>3, <2>4, StepKeepsRest DEF Active, Moments, None
<1> QED
  BY <1>2, <1>3, <1>4 DEF Puts

(* What the head of a chain does, and a step's beginning and end there,     *)
(* keeps the rest: it touches that chain alone.                             *)
LEMMA HeadKeepsRest ==
  ASSUME OpsInv, OpsTypes', NEW c \in Chains, SetsAgree(c)', ChainFollows(c)',
         UNCHANGED <<step, put, arm>>,
         \A d \in Chains \ {c} : /\ chain'[d] = chain[d] /\ stuck'[d] = stuck[d]
                                 /\ pending'[d] = pending[d] /\ produced'[d] = produced[d]
                                 /\ failed'[d] = failed[d]
  PROVE  OpsInv'
<1>1. \A d \in Chains \ {c} : SetsAgree(d)'
  BY DEF OpsInv, OpsHold, SetsAgree
<1>2. \A d \in Chains \ {c} : ChainFollows(d)'
  <2> TAKE d \in Chains \ {c}
  <2>1. ChainFollows(d) /\ UNCHANGED Outstanding(d)
    BY DEF OpsInv, OpsHold, Outstanding
  <2> QED
    BY <2>1 DEF ChainFollows
<1>3. (\A s \in Steps : PutFollows(s))' /\ ProducersDone'
  BY DEF OpsInv, OpsHold, PutFollows, ProducersDone
<1> QED
  BY <1>1, <1>2, <1>3 DEF OpsInv, OpsHold

LEMMA EntersKeeps ==
  ASSUME OpsInv, NEW c \in Chains, Enters(c)
  PROVE  OpsInv'
<1>1. /\ chain[c] = "claimed" /\ SetsAgree(c) /\ ChainFollows(c)
      /\ \A s \in StepsOf(c) : step[s] = None /\ put[s] = None
      /\ UNCHANGED <<produced, failed, stuck, step, put, arm>>
  BY DEF OpsInv, OpsHold, PutFollows, Moments, ChainFollows, Early, StepsOf, Enters, None
<1>2. /\ chain'[c] \in {"error", "restart", "run"} /\ \A d \in Chains \ {c} : chain'[d] = chain[d]
      /\ pending'[c] \in {pending[c], StepsOf(c)} /\ \A d \in Chains \ {c} : pending'[d] = pending[d]
  BY DEF Enters, Goes, OpsInv, OpsTypes
<1>3. OpsTypes'
  <2>1. chain' \in [Chains -> {"absent", "claimed", "run", "raise", "wait", "settle", "settleError",
                               "ok", "error", "restart"}]
    BY DEF Enters, Goes, OpsInv, OpsTypes
  <2>2. pending' \in [Chains -> SUBSET Steps]
    BY DEF Enters, StepsOf, OpsInv, OpsTypes
  <2> QED
    BY <1>1, <2>1, <2>2 DEF OpsInv, OpsTypes
<1>4. produced[c] = {} /\ failed[c] = {}
  BY <1>1 DEF SetsAgree, ChainFollows, Early, StepsOf, None
<1>5. SetsAgree(c)'
  BY <1>1, <1>2, <1>4 DEF SetsAgree, StepsOf, None
<1>6. Outstanding(c) = {}
  BY <1>1 DEF Outstanding, None
<1>7. ChainFollows(c)'
  <2>1. Outstanding(c)' = {}
    BY <1>1, <1>6 DEF Outstanding
  <2> QED
    BY <1>1, <1>2, <1>4, <2>1 DEF ChainFollows, Early, Schedule
<1> QED
  BY <1>1, <1>2, <1>3, <1>5, <1>7, HeadKeepsRest

(* The schedule begins a step whose producers are all produced: whoever it  *)
(* reads by url is pinned, and so has landed.                               *)
LEMMA SubmitsKeeps ==
  ASSUME OpsInv, NEW s \in Steps, Submits(s)
  PROVE  OpsInv'
<1> DEFINE c == Of[s]
<1>1. /\ c \in Chains /\ s \in StepsOf(c) /\ chain[c] = "run" /\ s \in pending[c]
      /\ Needs[s] \subseteq produced[c]
      /\ step[s] = None /\ put[s] = None /\ SetsAgree(c) /\ PutFollows(s)
      /\ UNCHANGED <<chain, produced, failed, stuck, put, arm>>
  BY ChainAssumption DEF Submits, StepsOf, OpsInv, OpsHold, SetsAgree, PutFollows, Moments, None
<1>2. /\ step'[s] = "bind" /\ \A r \in Steps \ {s} : step'[r] = step[r]
      /\ pending'[c] = pending[c] \ {s} /\ \A d \in Chains \ {c} : pending'[d] = pending[d]
  BY <1>1 DEF Submits, Becomes, OpsInv, OpsTypes
<1>3. OpsTypes'
  <2>1. step' \in [Steps -> Moments] /\ pending' \in [Chains -> SUBSET Steps]
    BY DEF Submits, Becomes, Moments, OpsInv, OpsTypes
  <2> QED
    BY <1>1, <2>1 DEF OpsInv, OpsTypes
<1>4. \A r \in Steps : PutFollows(r)'
  <2> TAKE r \in Steps
  <2>1. PutFollows(r)
    BY DEF OpsInv, OpsHold
  <2> QED
    BY <1>1, <1>2, <2>1 DEF PutFollows, Moments, None
<1>5. ASSUME NEW d \in Chains PROVE SetsAgree(d)'
  <2>1. SetsAgree(d)
    BY DEF OpsInv, OpsHold
  <2>2. s \notin pending'[d] \cup produced[d] \cup failed[d]
    <3>1. s \notin produced[d]
      BY <1>1, <2>1 DEF SetsAgree, None
    <3>2. d # c => s \notin pending[d] \cup failed[d]
      BY <1>1, <2>1 DEF SetsAgree, StepsOf
    <3>3. s \notin failed[c]
      BY <1>1 DEF SetsAgree
    <3> QED
      BY <1>2, <3>1, <3>2, <3>3
  <2>3. pending'[d] \subseteq pending[d] /\ pending[d] \cup produced[d] \cup failed[d] \subseteq Steps
    BY <1>2, <2>1 DEF SetsAgree, StepsOf
  <2> QED
    BY <1>1, <1>2, <2>1, <2>2, <2>3 DEF SetsAgree
<1>6. ASSUME NEW d \in Chains PROVE ChainFollows(d)'
  <2>1. ChainFollows(d) /\ UNCHANGED Outstanding(d)
    BY <1>1 DEF OpsInv, OpsHold, Outstanding
  <2>2. CASE d = c
    BY <1>1, <2>2 DEF ChainFollows, Early, Schedule
  <2>3. CASE d # c
    <3>1. \A r \in StepsOf(d) : step'[r] = step[r]
      BY <1>2, <2>3 DEF StepsOf
    <3> QED
      BY <1>1, <2>1, <3>1 DEF ChainFollows
  <2> QED
    BY <2>2, <2>3
<1>7. ProducersDone'
  <2> SUFFICES ASSUME NEW r \in Steps, step'[r] # None, NEW p \in Needs[r] PROVE step'[p] = "done"
    BY DEF ProducersDone
  <2>1. p \in Steps /\ step[p] = "done"
    <3>1. CASE r = s
      BY <1>1, <3>1, ChainAssumption DEF SetsAgree
    <3>2. CASE r # s
      BY <1>2, <3>2, ChainAssumption DEF OpsInv, OpsHold, ProducersDone
    <3> QED
      BY <3>1, <3>2
  <2> QED
    BY <1>1, <1>2, <2>1 DEF None
<1> QED
  BY <1>3, <1>4, <1>5, <1>6, <1>7 DEF OpsInv, OpsHold

(* The schedule takes note of a step's end; a step that failed, if it is    *)
(* optional, takes those along that wait for it, and none has begun.        *)
LEMMA CollectsKeeps ==
  ASSUME OpsInv, NEW s \in Steps, Collects(s)
  PROVE  OpsInv'
<1> DEFINE c == Of[s]
           gone == Doomed(c, failed[c] \cup {s})
<1>1. /\ c \in Chains /\ chain[c] = "run" /\ s \in StepsOf(c)
      /\ s \notin pending[c] \cup produced[c] \cup failed[c]
      /\ SetsAgree(c) /\ ChainFollows(c) /\ UNCHANGED <<stuck, step, put, arm>>
  BY ChainAssumption DEF Collects, Running, OpsInv, OpsHold
<1>2. failed[c] \cup {s} \subseteq gone /\ gone \subseteq failed[c] \cup {s} \cup pending[c]
  BY <1>1, DoomedWasPending
<1> HIDE DEF gone
<1>3. CASE step[s] = "done" /\ produced' = [produced EXCEPT ![c] = @ \cup {s}]
             /\ UNCHANGED <<chain, pending, failed>>
  <2>1. produced'[c] = produced[c] \cup {s} /\ \A d \in Chains \ {c} : produced'[d] = produced[d]
    BY <1>1, <1>3 DEF OpsInv, OpsTypes
  <2>2. OpsTypes'
    <3>1. produced' \in [Chains -> SUBSET Steps]
      BY <1>3 DEF OpsInv, OpsTypes
    <3> QED
      BY <1>1, <1>3, <3>1 DEF OpsInv, OpsTypes
  <2>3. SetsAgree(c)'
    BY <1>1, <1>3, <2>1 DEF SetsAgree, StepsOf
  <2>4. ChainFollows(c)'
    BY <1>1, <1>3 DEF ChainFollows, Early, Schedule
  <2> QED
    BY <1>1, <1>3, <2>1, <2>2, <2>3, <2>4, HeadKeepsRest
<1>4. CASE /\ step[s] = "failed" /\ gone \subseteq Optional
           /\ failed' = [failed EXCEPT ![c] = gone] /\ pending' = [pending EXCEPT ![c] = @ \ gone]
           /\ UNCHANGED <<chain, produced>>
  <2>1. /\ failed'[c] = gone /\ \A d \in Chains \ {c} : failed'[d] = failed[d]
        /\ pending'[c] = pending[c] \ gone /\ \A d \in Chains \ {c} : pending'[d] = pending[d]
    BY <1>1, <1>4 DEF OpsInv, OpsTypes
  <2>2. OpsTypes'
    <3>1. gone \subseteq Steps
      BY <1>1, <1>2 DEF SetsAgree, StepsOf
    <3>2. failed' \in [Chains -> SUBSET Steps] /\ pending' \in [Chains -> SUBSET Steps]
      BY <1>4, <3>1 DEF OpsInv, OpsTypes
    <3> QED
      BY <1>1, <1>4, <3>2 DEF OpsInv, OpsTypes
  <2>3. SetsAgree(c)'
    <3>1. gone \subseteq StepsOf(c) /\ gone \cap produced[c] = {}
      BY <1>1, <1>2 DEF SetsAgree, None
    <3>2. \A r \in gone : step[r] \in {None, "done", "failed"}
      BY <1>1, <1>2, <1>4 DEF SetsAgree
    <3>3. \A r \in pending'[c] \cup produced[c] \cup gone : r \in StepsOf(c)
      BY <1>1, <2>1, <3>1 DEF SetsAgree
    <3> QED
      BY <1>1, <1>4, <2>1, <3>1, <3>2, <3>3 DEF SetsAgree, StepsOf
  <2>4. ChainFollows(c)'
    BY <1>1, <1>4 DEF ChainFollows, Early, Schedule
  <2> QED
    BY <1>1, <1>4, <2>1, <2>2, <2>3, <2>4, HeadKeepsRest
<1>5. CASE step[s] = "failed" /\ Goes(c, "raise") /\ UNCHANGED sets
  <2>1. /\ chain'[c] = "raise" /\ \A d \in Chains \ {c} : chain'[d] = chain[d]
        /\ UNCHANGED <<pending, produced, failed>>
    BY <1>1, <1>5 DEF Goes, sets, OpsInv, OpsTypes
  <2>2. OpsTypes'
    <3>1. chain' \in [Chains -> {"absent", "claimed", "run", "raise", "wait", "settle", "settleError",
                                 "ok", "error", "restart"}]
      BY <1>5 DEF Goes, OpsInv, OpsTypes
    <3> QED
      BY <1>1, <2>1, <3>1 DEF OpsInv, OpsTypes
  <2>3. SetsAgree(c)' /\ ChainFollows(c)'
    BY <1>1, <2>1 DEF SetsAgree, ChainFollows, Early, Schedule
  <2> QED
    BY <1>1, <2>1, <2>2, <2>3, HeadKeepsRest
<1> QED
  BY <1>3, <1>4, <1>5 DEF Collects, gone

(* The schedule's end, either way. *)
LEMMA EndsKeep ==
  ASSUME OpsInv, NEW c \in Chains, Raises(c) \/ Scheduled(c)
  PROVE  OpsInv'
<1>1. /\ chain[c] \in Schedule /\ SetsAgree(c)
      /\ UNCHANGED <<pending, produced, failed, stuck, step, put, arm>>
      /\ chain'[c] \in {"settleError", "wait"} /\ \A d \in Chains \ {c} : chain'[d] = chain[d]
  BY DEF Raises, Scheduled, Goes, sets, Schedule, OpsInv, OpsHold, OpsTypes
<1>2. OpsTypes'
  <2>1. chain' \in [Chains -> {"absent", "claimed", "run", "raise", "wait", "settle", "settleError",
                               "ok", "error", "restart"}]
    BY DEF Raises, Scheduled, Goes, OpsInv, OpsTypes
  <2> QED
    BY <1>1, <2>1 DEF OpsInv, OpsTypes
<1>3. \A s \in StepsOf(c) : step[s] \in {None, "done", "failed"}
  <2> TAKE s \in StepsOf(c)
  <2>1. s \in Running(c) => step[s] \in {"done", "failed"}
    BY DEF Raises, Scheduled
  <2>2. s \notin Running(c) => s \in pending[c] \cup produced[c] \cup failed[c]
    BY DEF Running
  <2> QED
    BY <1>1, <2>1, <2>2 DEF SetsAgree
<1>4. chain'[c] = "wait" => produced[c] \cup failed[c] = StepsOf(c)
  <2>1. chain'[c] = "wait" => pending[c] = {} /\ Running(c) = {}
    BY DEF Raises, Scheduled, Goes, OpsInv, OpsTypes
  <2> QED
    BY <1>1, <2>1 DEF SetsAgree, Running
<1>5. SetsAgree(c)'
  BY <1>1 DEF SetsAgree
<1>6. ChainFollows(c)'
  BY <1>1, <1>3, <1>4 DEF ChainFollows, Early, Schedule
<1> QED
  BY <1>1, <1>2, <1>5, <1>6, HeadKeepsRest

(* The drain's window: what it keeps among the produced has landed. *)
LEMMA WaitsKeeps ==
  ASSUME OpsInv, NEW c \in Chains, Waits(c)
  PROVE  OpsInv'
<1> DEFINE late == Outstanding(c)
           bad  == late \cup {s \in StepsOf(c) : put[s] = "failed"}
<1>1. /\ chain[c] = "wait" /\ SetsAgree(c) /\ ChainFollows(c)
      /\ UNCHANGED <<pending, step, put, arm>>
  BY DEF Waits, OpsInv, OpsHold
<1>2. /\ produced[c] \cup failed[c] = StepsOf(c)
      /\ \A s \in StepsOf(c) : step[s] \in {None, "done", "failed"}
  BY <1>1 DEF ChainFollows, Early, Schedule
<1>3. bad \subseteq StepsOf(c) /\ StepsOf(c) \subseteq Steps
  BY DEF StepsOf, Outstanding
<1>4. \A s \in bad : step[s] \in {"done", "failed"} /\ s \notin pending[c]
  BY <1>1, <1>2, <1>3 DEF OpsInv, OpsHold, PutFollows, SetsAgree, Moments, None, Outstanding
<1>5. \A s \in produced[c] \ bad : put[s] = "landed"
  BY <1>1, <1>3 DEF OpsInv, OpsHold, OpsTypes, PutFollows, SetsAgree, Outstanding, None
<1>6. /\ stuck' = [stuck EXCEPT ![c] = late]
      /\ \/ bad \subseteq Optional /\ Goes(c, "settle") /\ Skipped(c, bad)
         \/ Goes(c, "settleError") /\ UNCHANGED <<produced, failed>>
  BY DEF Waits
<1> HIDE DEF bad, late
<1>7. /\ \A d \in Chains \ {c} : /\ chain'[d] = chain[d] /\ stuck'[d] = stuck[d]
                                 /\ produced'[d] = produced[d] /\ failed'[d] = failed[d]
      /\ chain'[c] \in {"settle", "settleError"}
      /\ \/ /\ bad \subseteq Optional /\ produced'[c] = produced[c] \ bad /\ failed'[c] = failed[c] \cup bad
         \/ chain'[c] = "settleError" /\ produced'[c] = produced[c] /\ failed'[c] = failed[c]
  BY <1>6 DEF Goes, Skipped, OpsInv, OpsTypes
<1>8. OpsTypes'
  <2>1. chain' \in [Chains -> {"absent", "claimed", "run", "raise", "wait", "settle", "settleError",
                               "ok", "error", "restart"}]
    BY <1>6 DEF Goes, OpsInv, OpsTypes
  <2>2. late \subseteq Steps /\ bad \subseteq Steps
    BY <1>3 DEF late, Outstanding, StepsOf
  <2>3. stuck' \in [Chains -> SUBSET Steps]
    BY <1>6, <2>2 DEF OpsInv, OpsTypes
  <2>4. produced' \in [Chains -> SUBSET Steps] /\ failed' \in [Chains -> SUBSET Steps]
    BY <1>6, <2>2 DEF Skipped, OpsInv, OpsTypes
  <2> QED
    BY <1>1, <2>1, <2>3, <2>4 DEF OpsInv, OpsTypes
<1>9. SetsAgree(c)'
  <2>1. CASE bad \subseteq Optional /\ produced'[c] = produced[c] \ bad /\ failed'[c] = failed[c] \cup bad
    BY <1>1, <1>3, <1>4, <2>1 DEF SetsAgree, StepsOf
  <2>2. CASE produced'[c] = produced[c] /\ failed'[c] = failed[c]
    BY <1>1, <2>2 DEF SetsAgree
  <2> QED
    BY <1>7, <2>1, <2>2
<1>10. ChainFollows(c)'
  BY <1>1, <1>2, <1>3, <1>5, <1>7 DEF ChainFollows, Early, Schedule
<1> QED
  BY <1>1, <1>7, <1>8, <1>9, <1>10, HeadKeepsRest

LEMMA SettlesKeeps ==
  ASSUME OpsInv, NEW c \in Chains, Settles(c)
  PROVE  OpsInv'
<1>1. /\ chain[c] \in {"settle", "settleError"} /\ SetsAgree(c) /\ ChainFollows(c)
      /\ UNCHANGED <<pending, produced, failed, step, put, arm>>
      /\ chain'[c] = (IF chain[c] = "settle" THEN "ok" ELSE "error")
      /\ \A d \in Chains \ {c} : chain'[d] = chain[d]
  BY DEF Settles, Goes, sets, OpsInv, OpsHold, OpsTypes
<1>2. Outstanding(c) \subseteq stuck'[c] /\ \A d \in Chains \ {c} : stuck'[d] = stuck[d]
  BY DEF Settles, GivesUp, OpsInv, OpsTypes
<1>3. OpsTypes'
  <2>1. chain' \in [Chains -> {"absent", "claimed", "run", "raise", "wait", "settle", "settleError",
                               "ok", "error", "restart"}]
    BY DEF Settles, Goes, OpsInv, OpsTypes
  <2>2. stuck' \in [Chains -> SUBSET Steps]
    BY DEF Settles, GivesUp, Outstanding, StepsOf, OpsInv, OpsTypes
  <2> QED
    BY <1>1, <2>1, <2>2 DEF OpsInv, OpsTypes
<1>4. SetsAgree(c)'
  BY <1>1 DEF SetsAgree
<1>5. ChainFollows(c)'
  <2>1. UNCHANGED Outstanding(c)
    BY <1>1 DEF Outstanding
  <2> QED
    BY <1>1, <1>2, <2>1 DEF ChainFollows, Early, Schedule
<1> QED
  BY <1>1, <1>2, <1>3, <1>4, <1>5, HeadKeepsRest

LEMMA OpsStep == OpsInv /\ [Next]_vars => OpsInv'
<1> SUFFICES ASSUME OpsInv, [Next]_vars PROVE OpsInv'
  OBVIOUS
<1>1. CASE UNCHANGED vars
  BY <1>1 DEF vars, sets, OpsInv, OpsTypes, OpsHold, PutFollows, SetsAgree, ChainFollows,
     Outstanding, ProducersDone
<1>2. ASSUME NEW c \in Chains, Heads(c) PROVE OpsInv'
  BY <1>2, EntersKeeps, EndsKeep, WaitsKeeps, SettlesKeeps DEF Heads
<1>3. ASSUME NEW s \in Steps, Submits(s) \/ Moves(s) \/ Puts(s) \/ Collects(s) PROVE OpsInv'
  BY <1>3, SubmitsKeeps, MovesKeep, RunsKeeps, PutsKeep, CollectsKeeps DEF Moves
<1> QED
  BY <1>1, <1>2, <1>3 DEF Next

LEMMA OpsAlways == Spec => []OpsInv
BY OpsStart, OpsStep, PTL DEF Spec

(* A step that reads by url what it waits for finds it: everything above it *)
(* is done, and a step whose object is read is done when its PUT landed.    *)
LEMMA AncestorsLanded == OpsInv => ReadersFindObject
<1> SUFFICES ASSUME OpsInv, NEW s \in Steps, step[s] # None, NEW p \in Reads[s] \cap Ancestors(s)
             PROVE  put[p] = "landed"
  BY DEF ReadersFindObject
<1> DEFINE through == {q \in StepsOf(Of[s]) : step[q] = "done"}
<1>1. \A r \in Steps : step[r] # None => \A q \in Needs[r] : q \in Steps /\ Of[q] = Of[r] /\ step[q] = "done"
  BY ChainAssumption DEF OpsInv, OpsHold, ProducersDone
<1>2. Needs[s] \subseteq through /\ \A q \in through : Needs[q] \subseteq through
  BY <1>1 DEF StepsOf, None
<1>3. p \in through
  BY <1>2 DEF Ancestors
<1>4. p \in Steps /\ step[p] = "done" /\ Pinned(p)
  BY <1>3 DEF StepsOf, Pinned
<1> QED
  BY <1>4 DEF OpsInv, OpsHold, PutFollows

(* What a chain names to the control plane as produced has landed, and so,  *)
(* when a step begins, has whatever it reads by url of the steps it waits   *)
(* for.                                                                     *)
THEOREM WhatIsNamedLanded == Spec => []NamedHasLanded
<1>1. OpsInv => NamedHasLanded
  <2> SUFFICES ASSUME OpsInv PROVE TellsTheTruth /\ ReadersFindObject
    BY DEF NamedHasLanded
  <2>1. ReadersFindObject
    BY AncestorsLanded
  <2>2. TellsTheTruth
    <3> SUFFICES ASSUME NEW c \in Chains, chain[c] \in {"settle", "ok"}
                 PROVE  /\ produced[c] \cup failed[c] = StepsOf(c) /\ produced[c] \cap failed[c] = {}
                        /\ failed[c] \subseteq Optional /\ \A s \in produced[c] : put[s] = "landed"
      BY DEF TellsTheTruth
    <3>1. SetsAgree(c) /\ ChainFollows(c)
      BY DEF OpsInv, OpsHold
    <3> QED
      BY <3>1 DEF SetsAgree, ChainFollows
  <2> QED
    BY <2>1, <2>2
<1> QED
  BY <1>1, OpsAlways, PTL

(* And no workspace goes under a step of its chain, nor under a transfer,   *)
(* but one that a window of the drain gave up on.                           *)
THEOREM WorkspacesOutliveUse == Spec => []WorkspaceOutlivesUse
<1>1. OpsInv => WorkspaceOutlivesUse
  <2> SUFFICES ASSUME OpsInv, NEW c \in Chains, chain[c] \in {"ok", "error"}
               PROVE  /\ Outstanding(c) \subseteq stuck[c]
                      /\ \A s \in StepsOf(c) : \A p \in Arms(s) : arm[s][p] = "wire" => s \in stuck[c]
                      /\ \A s \in StepsOf(c) : step[s] \in {None, "done", "failed"}
    BY DEF WorkspaceOutlivesUse
  <2>1. ChainFollows(c)
    BY DEF OpsInv, OpsHold
  <2>2. ASSUME NEW s \in StepsOf(c), NEW p \in Arms(s), arm[s][p] = "wire" PROVE s \in Outstanding(c)
    BY <2>2 DEF StepsOf, Outstanding, OpsInv, OpsHold, PutFollows
  <2> QED
    BY <2>1, <2>2 DEF ChainFollows, Early, Schedule
<1> QED
  BY <1>1, OpsAlways, PTL

-----------------------------------------------------------------------------
(* The inference lanes and services. *)

Stations == I!Waiting \cup {"release", "look", "lock", "load", "run", "text", "texting", "upload"}

Service(j, by) == [kind |-> Kind[j], weights |-> Weights[j], by |-> by]

InferTypes ==
  /\ coexist \in BOOLEAN /\ slots \in Nat
  /\ pc \in [Jobs -> Stations] /\ uses \in [Jobs -> Jobs \cup {None}]
  /\ \A s \in cache : s.by \in Jobs /\ s = Service(s.by, s.by)
  /\ image = [j \in Jobs |-> image[j]]
  /\ \A j \in Jobs : image[j] \in [I!SetsOf(j) -> {"new", "wait", "forward", "done", "failed"}]

(* Images are prepared by a clip_rank request that runs, and no other.      *)
Preparing(j) == \E k \in I!SetsOf(j) : image[j][k] \in {"wait", "forward"}
LanesHold ==
  /\ \A j \in Jobs : Preparing(j) => pc[j] = "run" /\ Kind[j] = "clip_rank"
  /\ IsFiniteSet(I!Texting) /\ IsFiniteSet(I!OnCard)
  /\ slots + Cardinality(I!Texting) + Cardinality(I!OnCard) = Parallel

LEMMA OnCardIs ==
  \A x : x \in I!OnCard <=> \E j \in Jobs : \E k \in I!SetsOf(j) : x = <<j, k>> /\ image[j][k] = "forward"
BY DEF I!OnCard

LEMMA OnCardWillBe ==
  \A x : x \in I!OnCard' <=> \E j \in Jobs : \E k \in I!SetsOf(j) : x = <<j, k>> /\ image'[j][k] = "forward"
BY DEF I!OnCard, I!SetsOf

(* A step of a request in its lane, up to the service and after it, with no *)
(* image in it.                                                             *)
Serving(j) == I!Begins(j) \/ I!Releases(j) \/ I!Looks(j) \/ I!Relooks(j) \/ I!LoadEnds(j) \/ I!Runs(j)

LEMMA TakesKnown ==
  ASSUME InferTypes, NEW j \in Jobs, I!Kept(j) # {}
  PROVE  \E s \in I!Kept(j) : s = CHOOSE x \in I!Kept(j) : TRUE
OBVIOUS

LEMMA ServingIsTyped ==
  ASSUME InferTypes, NEW j \in Jobs, Serving(j)
  PROVE  InferTypes' /\ UNCHANGED <<coexist, slots, image>> /\ j \in DOMAIN pc
<1>1. UNCHANGED <<coexist, slots, image>>
  BY DEF Serving, I!Begins, I!Releases, I!Looks, I!Relooks, I!LoadEnds, I!Runs, I!ranking
<1>2. pc' \in [Jobs -> Stations]
  <2>1. \E where \in Stations : pc' = [pc EXCEPT ![j] = where]
    BY DEF Serving, I!Begins, I!Releases, I!Looks, I!Relooks, I!LoadEnds, I!Runs, I!Goes, I!Takes,
       I!Waiting, Stations
  <2> QED
    BY <2>1 DEF InferTypes
<1>3. uses' \in [Jobs -> Jobs \cup {None}]
  <2>1. CASE UNCHANGED uses
    BY <2>1 DEF InferTypes
  <2>2. CASE I!Kept(j) # {} /\ I!Takes(j)
    <3>1. PICK s \in I!Kept(j) : s = CHOOSE x \in I!Kept(j) : TRUE
      BY <2>2, TakesKnown
    <3>2. s.by \in Jobs /\ uses' = [uses EXCEPT ![j] = s.by]
      BY <2>2, <3>1 DEF InferTypes, I!Kept, I!Takes
    <3> QED
      BY <3>2 DEF InferTypes
  <2>3. CASE uses' = [uses EXCEPT ![j] = j] \/ uses' = [uses EXCEPT ![j] = None]
    BY <2>3 DEF InferTypes
  <2> QED
    BY <2>1, <2>2, <2>3
    DEF Serving, I!Begins, I!Releases, I!Looks, I!Relooks, I!LoadEnds, I!Runs, None, I!None
<1>4. (\A s \in cache : s.by \in Jobs /\ s = Service(s.by, s.by))'
  <2>1. cache' \subseteq cache \cup {Service(j, j)}
    BY DEF Serving, I!Begins, I!Releases, I!Looks, I!Relooks, I!LoadEnds, I!Runs, Service
  <2> QED
    BY <2>1 DEF InferTypes, Service
<1> QED
  BY <1>1, <1>2, <1>3, <1>4 DEF InferTypes, I!SetsOf

(* The request is over: nothing of it is left. *)
LEMMA EndsIsTyped ==
  ASSUME InferTypes, NEW j \in Jobs, NEW how \in {"ok", "error"}, I!Ends(j, how)
  PROVE  /\ pc' \in [Jobs -> Stations] /\ uses' \in [Jobs -> Jobs \cup {None}]
         /\ image' = [i \in Jobs |-> image'[i]]
         /\ \A i \in Jobs : image'[i] \in [I!SetsOf(i) -> {"new", "wait", "forward", "done", "failed"}]
         /\ pc'[j] = how /\ \A i \in Jobs \ {j} : pc'[i] = pc[i] /\ image'[i] = image[i]
         /\ \A k \in I!SetsOf(j) : image'[j][k] = "new"
BY DEF InferTypes, I!Ends, I!Goes, I!NewImages, Stations, I!Waiting, None, I!None

Ending(j) == I!Joins(j) \/ I!TextWaits(j) \/ I!TextEnds(j) \/ I!Uploads(j)

LEMMA EndingIsTyped ==
  ASSUME InferTypes, NEW j \in Jobs, Ending(j)
  PROVE  /\ pc' \in [Jobs -> Stations] /\ uses' \in [Jobs -> Jobs \cup {None}]
         /\ image' = [i \in Jobs |-> image'[i]]
         /\ \A i \in Jobs : image'[i] \in [I!SetsOf(i) -> {"new", "wait", "forward", "done", "failed"}]
         /\ \A i \in Jobs \ {j} : pc'[i] = pc[i] /\ image'[i] = image[i]
         /\ UNCHANGED <<coexist, cache, lock>>
         /\ \/ I!Ends(j, "error") \/ I!Ends(j, "ok")
            \/ pc'[j] \in {"text", "texting", "upload"} /\ UNCHANGED <<uses, image>>
<1>1. UNCHANGED <<coexist, cache, lock>>
  BY DEF Ending, I!Joins, I!TextWaits, I!TextEnds, I!Uploads
<1>2. \/ I!Ends(j, "error") \/ I!Ends(j, "ok")
      \/ \E where \in {"text", "texting", "upload"} : pc' = [pc EXCEPT ![j] = where]
           /\ UNCHANGED <<uses, image>>
  BY DEF Ending, I!Joins, I!TextWaits, I!TextEnds, I!Uploads, I!Goes, I!ranking
<1>3. ASSUME NEW where \in {"text", "texting", "upload"}, pc' = [pc EXCEPT ![j] = where],
             UNCHANGED <<uses, image>>
      PROVE  /\ pc' \in [Jobs -> Stations] /\ uses' \in [Jobs -> Jobs \cup {None}]
             /\ image' = [i \in Jobs |-> image'[i]]
             /\ \A i \in Jobs : image'[i] \in [I!SetsOf(i) -> {"new", "wait", "forward", "done", "failed"}]
             /\ \A i \in Jobs \ {j} : pc'[i] = pc[i] /\ image'[i] = image[i]
             /\ pc'[j] = where
  BY <1>3 DEF InferTypes, Stations, I!SetsOf
<1> QED
  BY <1>1, <1>2, <1>3, EndsIsTyped

(* Whoever forwards nothing, before and after, leaves the lanes as they are. *)
LEMMA QuietKeepsLanes ==
  ASSUME InferTypes, LanesHold, NEW j \in Jobs, UNCHANGED slots,
         \A i \in Jobs \ {j} : pc'[i] = pc[i] /\ image'[i] = image[i],
         pc[j] # "texting", pc'[j] # "texting",
         \A k \in I!SetsOf(j) : (image'[j][k] = "forward") = (image[j][k] = "forward"),
         \A k \in I!SetsOf(j) : image'[j][k] \in {"wait", "forward"} => pc'[j] = "run"
           /\ Kind[j] = "clip_rank"
  PROVE  LanesHold'
<1>1. I!Texting' = I!Texting
  BY DEF I!Texting
<1>2. \A x : x \in I!OnCard' <=> x \in I!OnCard
  BY OnCardIs, OnCardWillBe
<1>3. \A i \in Jobs : Preparing(i)' => pc'[i] = "run" /\ Kind[i] = "clip_rank"
  <2> TAKE i \in Jobs
  <2>1. CASE i = j
    BY <2>1 DEF Preparing, I!SetsOf
  <2>2. CASE i # j
    <3>1. Preparing(i)' => Preparing(i)
      BY <2>2 DEF Preparing, I!SetsOf
    <3> QED
      BY <2>2, <3>1 DEF LanesHold
  <2> QED
    BY <2>1, <2>2
<1>4. I!OnCard' = I!OnCard
  BY <1>2
<1> QED
  BY <1>1, <1>3, <1>4 DEF LanesHold

(* A forward that ends well, or not, gives its lane back. *)
LEMMA LanesAreCounted ==
  ASSUME InferTypes, LanesHold
  PROVE  /\ Cardinality(I!Texting) \in Nat /\ Cardinality(I!OnCard) \in Nat /\ Parallel \in Nat
         /\ \A j : /\ IsFiniteSet(I!Texting \cup {j}) /\ IsFiniteSet(I!Texting \ {j})
                   /\ j \notin I!Texting => Cardinality(I!Texting \cup {j}) = Cardinality(I!Texting) + 1
                   /\ j \in I!Texting => Cardinality(I!Texting \ {j}) = Cardinality(I!Texting) - 1
                   /\ IsFiniteSet(I!OnCard \cup {j}) /\ IsFiniteSet(I!OnCard \ {j})
                   /\ j \notin I!OnCard => Cardinality(I!OnCard \cup {j}) = Cardinality(I!OnCard) + 1
                   /\ j \in I!OnCard => Cardinality(I!OnCard \ {j}) = Cardinality(I!OnCard) - 1
<1>1. IsFiniteSet(I!Texting) /\ IsFiniteSet(I!OnCard)
  BY DEF LanesHold
<1>2. Parallel \in Nat
  BY RequestAssumption DEF I!InferAssumption
<1> QED
  BY <1>1, <1>2, FS_AddElement, FS_RemoveElement, FS_CardinalityType

LEMMA PreparesKeeps ==
  ASSUME InferTypes, LanesHold, NEW j \in Jobs, NEW k \in I!SetsOf(j), I!Prepares(j, k)
  PROVE  InferTypes' /\ LanesHold' /\ UNCHANGED <<coexist, pc, cache, uses, lock>>
<1>1. /\ UNCHANGED <<coexist, pc, cache, uses, lock>> /\ pc[j] = "run"
      /\ \E state \in {"wait", "forward", "done", "failed"} : image' = [image EXCEPT ![j][k] = state]
  BY DEF I!Prepares, I!Gathers, I!Forwards, I!ForwardEnds, I!Becomes
<1>2. /\ \A i \in Jobs \ {j} : image'[i] = image[i]
      /\ \A i \in I!SetsOf(j) \ {k} : image'[j][i] = image[j][i]
      /\ image' = [i \in Jobs |-> image'[i]]
      /\ \A i \in Jobs : image'[i] \in [I!SetsOf(i) -> {"new", "wait", "forward", "done", "failed"}]
  <2>1. PICK state \in {"wait", "forward", "done",
                        "failed"} : image' = [image EXCEPT ![j] = [image[j] EXCEPT ![k] = state]]
    BY <1>1
  <2>2. image' = [i \in Jobs |-> image'[i]] /\ image'[j] = [image[j] EXCEPT ![k] = state]
        /\ \A i \in Jobs \ {j} : image'[i] = image[i]
    BY <2>1 DEF InferTypes
  <2>3. image'[j] \in [I!SetsOf(j) -> {"new", "wait", "forward", "done", "failed"}]
        /\ \A i \in I!SetsOf(j) \ {k} : image'[j][i] = image[j][i]
    BY <2>2 DEF InferTypes
  <2> QED
    BY <2>2, <2>3 DEF InferTypes
<1>3. I!Texting' = I!Texting /\ I!Texting \in SUBSET Jobs
  BY <1>1 DEF I!Texting
<1>4. Kind[j] = "clip_rank"
  <2>1. I!Gathers(j, k) \/ image[j][k] \in {"wait", "forward"}
    BY DEF I!Prepares, I!Forwards, I!ForwardEnds
  <2> QED
    BY <2>1 DEF LanesHold, Preparing, I!Gathers
<1>5. \A i \in Jobs : Preparing(i)' => pc'[i] = "run" /\ Kind[i] = "clip_rank"
  <2> TAKE i \in Jobs
  <2>1. CASE i = j
    BY <1>1, <1>4, <2>1
  <2>2. CASE i # j
    <3>1. Preparing(i)' => Preparing(i)
      BY <1>2, <2>2 DEF Preparing, I!SetsOf
    <3> QED
      BY <1>1, <2>2, <3>1 DEF LanesHold
  <2> QED
    BY <2>1, <2>2
<1>6. \A x : x # <<j, k>> => (x \in I!OnCard' <=> x \in I!OnCard)
  BY <1>2, OnCardIs, OnCardWillBe
<1>7. (<<j, k>> \in I!OnCard <=> image[j][k] = "forward")
        /\ (<<j, k>> \in I!OnCard' <=> image'[j][k] = "forward")
  BY OnCardIs, OnCardWillBe
<1>8. /\ Cardinality(I!Texting) \in Nat /\ Cardinality(I!OnCard) \in Nat /\ Parallel \in Nat
      /\ IsFiniteSet(I!OnCard \cup {<<j, k>>}) /\ IsFiniteSet(I!OnCard \ {<<j, k>>})
      /\ <<j, k>> \notin I!OnCard => Cardinality(I!OnCard \cup {<<j, k>>}) = Cardinality(I!OnCard) + 1
      /\ <<j, k>> \in I!OnCard => Cardinality(I!OnCard \ {<<j, k>>}) = Cardinality(I!OnCard) - 1
  BY LanesAreCounted
<1>9. IsFiniteSet(I!Texting) /\ IsFiniteSet(I!OnCard)
        /\ slots + Cardinality(I!Texting) + Cardinality(I!OnCard) = Parallel
  BY DEF LanesHold
<1>10. CASE image[j][k] # "forward" /\ image'[j][k] # "forward" /\ UNCHANGED slots
  <2>1. I!OnCard' = I!OnCard
    BY <1>6, <1>7, <1>10
  <2> QED
    BY <1>1, <1>2, <1>3, <1>5, <1>9, <1>10, <2>1 DEF InferTypes, LanesHold, I!SetsOf
<1>11. CASE image[j][k] # "forward" /\ image'[j][k] = "forward" /\ slots > 0 /\ slots' = slots - 1
  <2>1. I!OnCard' = I!OnCard \cup {<<j, k>>}
    BY <1>6, <1>7, <1>11
  <2>2. IsFiniteSet(I!OnCard') /\ Cardinality(I!OnCard') = Cardinality(I!OnCard) + 1
    BY <1>7, <1>8, <1>11, <2>1
  <2>3. slots \in Nat /\ slots' \in Nat
    BY <1>11 DEF InferTypes
  <2>4. slots' + Cardinality(I!Texting) + Cardinality(I!OnCard') = Parallel
    BY <1>8, <1>9, <1>11, <2>2, <2>3
  <2>5. LanesHold'
    BY <1>3, <1>5, <1>9, <2>2, <2>4 DEF LanesHold
  <2> QED
    BY <1>1, <1>2, <2>3, <2>5 DEF InferTypes, I!SetsOf
<1>12. CASE image[j][k] = "forward" /\ image'[j][k] # "forward" /\ slots' = slots + 1
  <2>1. I!OnCard' = I!OnCard \ {<<j, k>>}
    BY <1>6, <1>7, <1>12
  <2>2. IsFiniteSet(I!OnCard') /\ Cardinality(I!OnCard') = Cardinality(I!OnCard) - 1
    BY <1>7, <1>8, <1>12, <2>1
  <2>3. slots \in Nat /\ slots' \in Nat
    BY <1>12 DEF InferTypes
  <2>4. slots' + Cardinality(I!Texting) + Cardinality(I!OnCard') = Parallel
    BY <1>8, <1>9, <1>12, <2>2, <2>3
  <2>5. LanesHold'
    BY <1>3, <1>5, <1>9, <2>2, <2>4 DEF LanesHold
  <2> QED
    BY <1>1, <1>2, <2>3, <2>5 DEF InferTypes, I!SetsOf
<1> QED
  <2>1. image'[j][k] = "wait" => image[j][k] = "new" /\ UNCHANGED slots
    BY DEF InferTypes, I!Prepares, I!Gathers, I!Forwards, I!ForwardEnds, I!Becomes
  <2>2. \/ image[j][k] # "forward" /\ image'[j][k] # "forward" /\ UNCHANGED slots
        \/ image[j][k] # "forward" /\ image'[j][k] = "forward" /\ slots > 0 /\ slots' = slots - 1
        \/ image[j][k] = "forward" /\ image'[j][k] # "forward" /\ slots' = slots + 1
    BY DEF InferTypes, I!Prepares, I!Gathers, I!Forwards, I!ForwardEnds, I!Becomes, I!Back
  <2> QED
    BY <1>10, <1>11, <1>12, <2>2

LEMMA ServingKeepsLanes ==
  ASSUME InferTypes, LanesHold, NEW j \in Jobs, Serving(j)
  PROVE  LanesHold'
<1>1. UNCHANGED <<coexist, slots, image>>
  BY ServingIsTyped
<1>2. /\ pc[j] # "texting" /\ pc'[j] # "texting" /\ (Preparing(j) => pc'[j] = "run")
      /\ \A i \in Jobs \ {j} : pc'[i] = pc[i]
  <2>1. \E where \in Stations \ {"texting"} :
          pc' = [pc EXCEPT ![j] = where] /\ pc[j] # "texting" /\ (pc[j] = "run" => Kind[j] # "clip_rank")
    BY DEF Serving, I!Begins, I!Releases, I!Looks, I!Relooks, I!LoadEnds, I!Runs, I!Goes, I!Takes,
       I!Waiting, Stations
  <2> QED
    BY <2>1 DEF InferTypes, LanesHold
<1>3. \A k \in I!SetsOf(j) : image'[j][k] \in {"wait", "forward"} => pc'[j] = "run" /\ Kind[j] = "clip_rank"
  BY <1>1, <1>2 DEF LanesHold, Preparing
<1> QED
  BY <1>1, <1>2, <1>3, QuietKeepsLanes

LEMMA EndingKeeps ==
  ASSUME InferTypes, LanesHold, NEW j \in Jobs, Ending(j)
  PROVE  InferTypes' /\ LanesHold'
<1>1. /\ pc' \in [Jobs -> Stations] /\ uses' \in [Jobs -> Jobs \cup {None}]
      /\ image' = [i \in Jobs |-> image'[i]]
      /\ \A i \in Jobs : image'[i] \in [I!SetsOf(i) -> {"new", "wait", "forward", "done", "failed"}]
      /\ \A i \in Jobs \ {j} : pc'[i] = pc[i] /\ image'[i] = image[i]
      /\ UNCHANGED <<coexist, cache, lock>>
      /\ \/ I!Ends(j, "error") \/ I!Ends(j, "ok")
         \/ pc'[j] \in {"text", "texting", "upload"} /\ UNCHANGED <<uses, image>>
  BY EndingIsTyped
<1>2. \A k \in I!SetsOf(j) : image[j][k] # "forward"
  <2>1. pc[j] # "run" \/ \A k \in I!SetsOf(j) : image[j][k] \in {"done", "failed"}
    BY DEF Ending, I!Joins, I!TextWaits, I!TextEnds, I!Uploads
  <2> QED
    BY <2>1 DEF LanesHold, Preparing
<1>3. \A k \in I!SetsOf(j) : image'[j][k] \notin {"wait", "forward"}
  <2>1. CASE I!Ends(j, "error") \/ I!Ends(j, "ok")
    BY <2>1, EndsIsTyped
  <2>2. CASE pc'[j] \in {"text", "texting", "upload"} /\ UNCHANGED <<uses, image>>
    <3>1. pc[j] # "run" \/ \A k \in I!SetsOf(j) : image[j][k] \in {"done", "failed"}
      BY DEF Ending, I!Joins, I!TextWaits, I!TextEnds, I!Uploads
    <3> QED
      BY <2>2, <3>1 DEF LanesHold, Preparing
  <2> QED
    BY <1>1, <2>1, <2>2
<1>4. I!OnCard' = I!OnCard
  <2>1. \A x : x \in I!OnCard' <=> x \in I!OnCard
    BY <1>1, <1>2, <1>3, OnCardIs, OnCardWillBe
  <2> QED
    BY <2>1
<1>5. \A i \in Jobs : Preparing(i)' => pc'[i] = "run" /\ Kind[i] = "clip_rank"
  <2> TAKE i \in Jobs
  <2>1. CASE i = j
    BY <1>3, <2>1 DEF Preparing, I!SetsOf
  <2>2. CASE i # j
    <3>1. Preparing(i)' => Preparing(i)
      BY <1>1, <2>2 DEF Preparing, I!SetsOf
    <3> QED
      BY <1>1, <2>2, <3>1 DEF LanesHold
  <2> QED
    BY <2>1, <2>2
<1>6. /\ Cardinality(I!Texting) \in Nat /\ Cardinality(I!OnCard) \in Nat /\ Parallel \in Nat
      /\ IsFiniteSet(I!Texting \cup {j}) /\ IsFiniteSet(I!Texting \ {j})
      /\ j \notin I!Texting => Cardinality(I!Texting \cup {j}) = Cardinality(I!Texting) + 1
      /\ j \in I!Texting => Cardinality(I!Texting \ {j}) = Cardinality(I!Texting) - 1
  BY LanesAreCounted
<1>7. IsFiniteSet(I!Texting) /\ IsFiniteSet(I!OnCard)
        /\ slots + Cardinality(I!Texting) + Cardinality(I!OnCard) = Parallel
  BY DEF LanesHold
<1>8. slots' \in Nat /\ IsFiniteSet(I!Texting')
        /\ slots' + Cardinality(I!Texting') + Cardinality(I!OnCard) = Parallel
  <2>1. \/ pc[j] # "texting" /\ pc'[j] # "texting" /\ slots' = slots
        \/ pc[j] # "texting" /\ pc'[j] = "texting" /\ slots > 0 /\ slots' = slots - 1
        \/ pc[j] = "texting" /\ pc'[j] # "texting" /\ slots' = slots + 1
    BY DEF InferTypes, Ending, I!Joins, I!TextWaits, I!TextEnds, I!Uploads, I!Ends, I!Goes, I!Back, Stations
  <2>2. slots \in Nat
    BY DEF InferTypes
  <2>3. CASE pc[j] # "texting" /\ pc'[j] # "texting" /\ slots' = slots
    <3>1. I!Texting' = I!Texting
      BY <1>1, <2>3 DEF I!Texting
    <3> QED
      BY <1>7, <2>2, <2>3, <3>1
  <2>4. CASE pc[j] # "texting" /\ pc'[j] = "texting" /\ slots > 0 /\ slots' = slots - 1
    <3>1. I!Texting' = I!Texting \cup {j} /\ j \notin I!Texting
      BY <1>1, <2>4 DEF I!Texting
    <3>2. Cardinality(I!Texting') = Cardinality(I!Texting) + 1 /\ IsFiniteSet(I!Texting')
      BY <1>6, <3>1
    <3> QED
      BY <1>6, <1>7, <2>2, <2>4, <3>2
  <2>5. CASE pc[j] = "texting" /\ pc'[j] # "texting" /\ slots' = slots + 1
    <3>1. I!Texting' = I!Texting \ {j} /\ j \in I!Texting
      BY <1>1, <2>5 DEF I!Texting
    <3>2. Cardinality(I!Texting') = Cardinality(I!Texting) - 1 /\ IsFiniteSet(I!Texting')
      BY <1>6, <3>1
    <3> QED
      BY <1>6, <1>7, <2>2, <2>5, <3>2
  <2> QED
    BY <2>1, <2>3, <2>4, <2>5
<1>9. InferTypes'
  BY <1>1, <1>8 DEF InferTypes, I!SetsOf
<1>10. LanesHold'
  BY <1>4, <1>5, <1>7, <1>8 DEF LanesHold
<1> QED
  BY <1>9, <1>10

LEMMA LanesStart == I!Init => InferTypes /\ LanesHold
<1> SUFFICES ASSUME NEW load \in Requests, NEW fits \in Coexist, I!Starts(load, fits)
             PROVE InferTypes /\ LanesHold
  BY DEF I!Init
<1>1. Parallel \in Nat /\ fits \in BOOLEAN
  BY RequestAssumption DEF I!InferAssumption
<1>2. \A j \in Jobs : image[j] = I!NewImages(j) /\ pc[j] \in {"queued", "absent"}
  BY DEF I!Starts
<1>3. InferTypes
  <2>1. \A j \in Jobs : image[j] \in [I!SetsOf(j) -> {"new", "wait", "forward", "done", "failed"}]
    BY <1>2 DEF I!NewImages
  <2>2. image = [j \in Jobs |-> image[j]]
    BY DEF I!Starts
  <2> QED
    BY <1>1, <2>1, <2>2 DEF I!Starts, InferTypes, Stations, I!Waiting, None, I!None
<1>4. I!Texting = {} /\ \A j \in Jobs : ~Preparing(j)
  BY <1>2 DEF I!Texting, Preparing, I!NewImages
<1>5. I!OnCard = {}
  BY <1>4, OnCardIs DEF Preparing
<1> QED
  BY <1>1, <1>3, <1>4, <1>5, FS_EmptySet DEF I!Starts, LanesHold

LEMMA LanesStep == InferTypes /\ LanesHold /\ [I!Next]_(I!vars) => InferTypes' /\ LanesHold'
<1> SUFFICES ASSUME InferTypes, LanesHold, [I!Next]_(I!vars) PROVE InferTypes' /\ LanesHold'
  OBVIOUS
<1>1. CASE UNCHANGED I!vars
  BY <1>1 DEF I!vars, InferTypes, LanesHold, I!Texting, I!OnCard, Preparing, I!SetsOf
<1>2. ASSUME NEW j \in Jobs, I!Serves(j) PROVE InferTypes' /\ LanesHold'
  BY <1>2, ServingIsTyped, ServingKeepsLanes, EndingKeeps DEF I!Serves, Serving, Ending
<1>3. ASSUME NEW j \in Jobs, NEW k \in I!SetsOf(j), I!Prepares(j, k) PROVE InferTypes' /\ LanesHold'
  BY <1>3, PreparesKeeps
<1> QED
  BY <1>1, <1>2, <1>3 DEF I!Next

(* The sizes that InferServices speaks of are those of the library.         *)
LEMMA InferCounts == \A S : I!Cardinality(S) = Cardinality(S)
BY DEF Cardinality, I!Cardinality

(* Each lane of the card is free or with a forward on it, however images,   *)
(* texts and requests end.                                                  *)
THEOREM LanesAreGivenBack == I!Spec => []LanesAreExact
<1>1. InferTypes /\ LanesHold => LanesAreExact
  BY InferCounts DEF LanesHold, LanesAreExact, I!LanesAreExact
<1> QED
  BY <1>1, LanesStart, LanesStep, PTL DEF I!Spec

(* One request at a time is in the heavy lane.                              *)
Inside(j)  == pc[j] \notin I!Waiting /\ I!Lane(j) = "heavy"
HeavyAlone == \A i, j \in Jobs : Inside(i) /\ Inside(j) => i = j

(* A service is kept once, and as long as a request runs on it; nobody      *)
(* loads one that is kept, and of two that would load the same weights one  *)
(* has the lock.                                                            *)
KeptOnce == \A r, s \in cache : r.kind = s.kind /\ r.weights = s.weights => r = s
UsesKept ==
  \A j \in Jobs : uses[j] # None =>
    pc[j] \in {"run", "text", "texting", "upload"} /\ Service(j, uses[j]) \in cache
LoadsNew ==
  \A j \in Jobs :
    /\ pc[j] \in {"look", "lock", "load"} => Kind[j] # "judge"
    /\ pc[j] = "lock" => Kind[j] = "clip_rank"
    /\ pc[j] = "load" => I!Kept(j) = {} /\ (Kind[j] = "clip_rank" => lock = j)

(* On a small card, what is kept is of one kind, and of the kind that the   *)
(* request in the lane is about to take or load.                            *)
Small == {"align", "clip_rank"}
OneKind ==
  ~coexist =>
    /\ \A r, s \in cache : r.kind \in Small /\ s.kind \in Small => r.kind = s.kind
    /\ \A j \in Jobs : pc[j] \in {"look", "lock", "load"} /\ Kind[j] \in Small =>
         \A s \in cache : s.kind \in Small => s.kind = Kind[j]

CardHold == HeavyAlone /\ KeptOnce /\ UsesKept /\ LoadsNew /\ OneKind

LEMMA RoomIsEmpty ==
  ASSUME InferTypes, HeavyAlone, NEW j \in Jobs, I!Room(j), I!Lane(j) = "heavy"
  PROVE  \A i \in Jobs : ~Inside(i)
<1> DEFINE beside == {i \in I!Running : I!Lane(i) = I!Lane(j)}
<1>1. \A i : i \in beside <=> i \in Jobs /\ Inside(i)
  BY DEF Inside, I!Running
<1>2. Cardinality(beside) < 1
  BY InferCounts DEF I!Room
<1> SUFFICES ASSUME NEW i \in Jobs, Inside(i) PROVE FALSE
  OBVIOUS
<1>3. beside = {i}
  BY <1>1 DEF HeavyAlone
<1>4. Cardinality(beside) = 1
  BY <1>3, FS_Singleton
<1> QED
  BY <1>2, <1>4

(* Any step of a request but its entry and one that changes what is kept:   *)
(* the others are where they were.                                          *)
LEMMA CardUntouched ==
  ASSUME InferTypes, CardHold, NEW j \in Jobs, UNCHANGED <<coexist, cache, lock>>,
         \A i \in Jobs \ {j} : pc'[i] = pc[i] /\ uses'[i] = uses[i],
         pc[j] \notin I!Waiting,
         pc'[j] \in {"run", "text", "texting", "upload", "ok", "error"},
         uses'[j] # None => pc'[j] \notin I!Waiting /\ Service(j, uses'[j]) \in cache
  PROVE  CardHold'
<1>1. HeavyAlone'
  BY DEF CardHold, HeavyAlone, Inside, I!Lane
<1>2. KeptOnce'
  BY DEF CardHold, KeptOnce
<1>3. UsesKept'
  BY DEF CardHold, UsesKept, Service, I!Waiting
<1>4. LoadsNew'
  BY DEF CardHold, LoadsNew, I!Kept
<1>5. OneKind'
  BY DEF CardHold, OneKind
<1> QED
  BY <1>1, <1>2, <1>3, <1>4, <1>5 DEF CardHold

LEMMA BeginsKeepsCard ==
  ASSUME InferTypes, CardHold, NEW j \in Jobs, I!Begins(j)
  PROVE  CardHold'
<1>1. /\ pc[j] = "queued" /\ pc'[j] \in {"release", "error"} /\ I!Room(j)
      /\ \A i \in Jobs \ {j} : pc'[i] = pc[i]
      /\ UNCHANGED <<coexist, cache, uses, lock>>
  BY DEF I!Begins, I!Goes, InferTypes
<1>2. HeavyAlone'
  <2>1. \A i \in Jobs \ {j} : Inside(i)' = Inside(i)
    BY <1>1 DEF Inside, I!Lane
  <2>2. Inside(j)' => I!Lane(j) = "heavy"
    BY <1>1 DEF Inside, I!Lane
  <2>3. Inside(j)' => \A i \in Jobs : ~Inside(i)
    BY <1>1, <2>2, RoomIsEmpty DEF CardHold
  <2> QED
    BY <2>1, <2>3 DEF CardHold, HeavyAlone
<1>3. KeptOnce'
  BY <1>1 DEF CardHold, KeptOnce
<1>4. UsesKept'
  BY <1>1 DEF CardHold, UsesKept, Service
<1>5. LoadsNew'
  BY <1>1 DEF CardHold, LoadsNew, I!Kept
<1>6. OneKind'
  BY <1>1 DEF CardHold, OneKind
<1> QED
  BY <1>2, <1>3, <1>4, <1>5, <1>6 DEF CardHold

(* Alone in the lane: whoever may drop the other kind runs beside nobody.   *)
LEMMA ReleasesKeepsCard ==
  ASSUME InferTypes, CardHold, NEW j \in Jobs, I!Releases(j)
  PROVE  CardHold'
<1>1. /\ pc[j] = "release" /\ pc'[j] = (IF Kind[j] = "judge" THEN "run" ELSE "look")
      /\ \A i \in Jobs \ {j} : pc'[i] = pc[i]
      /\ UNCHANGED <<coexist, uses, lock>>
      /\ cache' = IF coexist THEN cache ELSE cache \ I!Others(j)
      /\ uses[j] = None
  BY DEF I!Releases, I!Goes, InferTypes, CardHold, UsesKept
<1>2. HeavyAlone'
  BY <1>1 DEF CardHold, HeavyAlone, Inside, I!Lane, I!Waiting
<1>3. KeptOnce'
  BY <1>1 DEF CardHold, KeptOnce
<1>4. UsesKept'
  <2> SUFFICES ASSUME NEW i \in Jobs, uses[i] # None
               PROVE  pc'[i] \in {"run", "text", "texting", "upload"} /\ Service(i, uses[i]) \in cache'
    BY <1>1 DEF UsesKept, Service
  <2>1. i # j /\ pc[i] \in {"run", "text", "texting", "upload"} /\ Service(i, uses[i]) \in cache
    BY <1>1 DEF CardHold, UsesKept
  <2>2. coexist
    <3>1. ~coexist => Inside(i) /\ Inside(j)
      BY <1>1, <2>1 DEF Inside, I!Lane, I!Waiting
    <3> QED
      BY <2>1, <3>1 DEF CardHold, HeavyAlone
  <2> QED
    BY <1>1, <2>1, <2>2
<1>5. LoadsNew'
  <2>1. cache' \subseteq cache
    BY <1>1
  <2> QED
    BY <1>1, <2>1 DEF CardHold, LoadsNew, I!Kept
<1>6. OneKind'
  <2> SUFFICES ASSUME ~coexist
               PROVE  /\ \A r, s \in cache' : r.kind \in Small /\ s.kind \in Small => r.kind = s.kind
                      /\ \A i \in Jobs : pc'[i] \in {"look", "lock", "load"} /\ Kind[i] \in Small =>
                           \A s \in cache' : s.kind \in Small => s.kind = Kind[i]
    BY <1>1 DEF OneKind
  <2>1. cache' = cache \ I!Others(j)
    BY <1>1
  <2>2. \A i \in Jobs : pc'[i] \in {"look", "lock", "load"} => i = j
    BY <1>1 DEF CardHold, HeavyAlone, Inside, I!Lane, I!Waiting
  <2>3. Kind[j] \in Small => \A s \in cache' : s.kind \in Small => s.kind = Kind[j]
    BY <2>1 DEF I!Others, Small
  <2> QED
    BY <2>1, <2>2, <2>3 DEF CardHold, OneKind
<1> QED
  BY <1>2, <1>3, <1>4, <1>5, <1>6 DEF CardHold

(* A look finds the service, or goes on to load it. *)
LEMMA LooksKeepsCard ==
  ASSUME InferTypes, CardHold, NEW j \in Jobs, I!Looks(j) \/ I!Relooks(j)
  PROVE  CardHold'
<1>1. /\ pc[j] \in {"look", "lock"} /\ UNCHANGED <<coexist, cache>>
  BY DEF I!Looks, I!Relooks
<1>2. CASE I!Kept(j) # {} /\ I!Takes(j) /\ UNCHANGED lock
  <2>1. PICK s \in I!Kept(j) : s = CHOOSE x \in I!Kept(j) : TRUE
    BY <1>2, TakesKnown
  <2>2. s \in cache /\ s = Service(j, s.by)
    BY <2>1 DEF I!Kept, InferTypes, Service
  <2>3. /\ pc'[j] = "run" /\ uses'[j] = s.by /\ \A i \in Jobs \ {j} : pc'[i] = pc[i] /\ uses'[i] = uses[i]
    BY <1>2, <2>1 DEF I!Takes, I!Goes, InferTypes
  <2>4. pc[j] \notin I!Waiting /\ pc'[j] \notin I!Waiting
    BY <1>1, <2>3 DEF I!Waiting
  <2> QED
    BY <1>1, <1>2, <2>2, <2>3, <2>4, CardUntouched
<1>3. CASE /\ I!Kept(j) = {} /\ UNCHANGED uses
           /\ \/ pc[j] = "look" /\ I!Goes(j, IF Kind[j] = "clip_rank" THEN "lock" ELSE "load")
                 /\ UNCHANGED lock
              \/ pc[j] = "lock" /\ lock = None /\ lock' = j /\ I!Goes(j, "load")
  <2>1. /\ \A i \in Jobs \ {j} : pc'[i] = pc[i]
        /\ \/ pc[j] = "look" /\ pc'[j] = (IF Kind[j] = "clip_rank" THEN "lock" ELSE "load") /\ UNCHANGED lock
           \/ pc[j] = "lock" /\ lock = None /\ lock' = j /\ pc'[j] = "load"
    BY <1>3 DEF I!Goes, InferTypes
  <2>2. HeavyAlone'
    BY <1>1, <2>1 DEF CardHold, HeavyAlone, Inside, I!Lane, I!Waiting
  <2>3. KeptOnce'
    BY <1>1 DEF CardHold, KeptOnce
  <2>4. UsesKept'
    BY <1>1, <1>3, <2>1 DEF CardHold, UsesKept, Service
  <2>5. LoadsNew'
    <3> SUFFICES ASSUME NEW i \in Jobs
                 PROVE  /\ pc'[i] \in {"look", "lock", "load"} => Kind[i] # "judge"
                        /\ pc'[i] = "lock" => Kind[i] = "clip_rank"
                        /\ pc'[i] = "load" => I!Kept(i) = {} /\ (Kind[i] = "clip_rank" => lock' = i)
      BY <1>1 DEF LoadsNew, I!Kept
    <3>1. CASE i = j
      BY <1>3, <2>1, <3>1 DEF CardHold, LoadsNew
    <3>2. CASE i # j
      <4>1. pc'[i] = pc[i] /\ (lock' = lock \/ lock = None)
        BY <2>1, <3>2
      <4>2. i # None
        BY RequestAssumption DEF I!InferAssumption, None, I!None
      <4> QED
        BY <4>1, <4>2 DEF CardHold, LoadsNew
    <3> QED
      BY <3>1, <3>2
  <2>6. OneKind'
    <3>1. \A i \in Jobs : pc'[i] \in {"look", "lock", "load"} => pc[i] \in {"look", "lock", "load"}
      BY <1>1, <2>1
    <3> QED
      BY <1>1, <3>1 DEF CardHold, OneKind
  <2> QED
    BY <2>2, <2>3, <2>4, <2>5, <2>6 DEF CardHold
<1> QED
  BY <1>2, <1>3 DEF I!Looks, I!Relooks, None, I!None

LEMMA LoadEndsKeepsCard ==
  ASSUME InferTypes, CardHold, NEW j \in Jobs, I!LoadEnds(j)
  PROVE  CardHold'
<1>1. /\ pc[j] = "load" /\ pc'[j] \in {"run", "error"} /\ \A i \in Jobs \ {j} : pc'[i] = pc[i]
      /\ UNCHANGED coexist /\ lock' = (IF lock = j THEN None ELSE lock)
      /\ \A i \in Jobs \ {j} : uses'[i] = uses[i]
      /\ \/ cache' = cache \cup {Service(j, j)} /\ uses'[j] = j /\ pc'[j] = "run"
         \/ UNCHANGED <<cache, uses>>
  <2>1. I!Kept(j) = {}
    BY DEF I!LoadEnds, CardHold, LoadsNew
  <2> QED
    BY <2>1 DEF I!LoadEnds, I!Goes, I!Unlocks, InferTypes, Service, None, I!None
<1>2. Kind[j] # "judge" /\ I!Kept(j) = {} /\ uses[j] = None /\ (Kind[j] = "clip_rank" => lock = j)
  BY <1>1 DEF CardHold, LoadsNew, UsesKept
<1>3. HeavyAlone'
  BY <1>1 DEF CardHold, HeavyAlone, Inside, I!Lane, I!Waiting
<1>4. KeptOnce'
  <2>1. \A s \in cache : ~(s.kind = Kind[j] /\ s.weights = Weights[j])
    BY <1>2 DEF I!Kept
  <2> QED
    BY <1>1, <2>1 DEF CardHold, KeptOnce, Service
<1>5. UsesKept'
  <2> SUFFICES ASSUME NEW i \in Jobs, uses'[i] # None
               PROVE  pc'[i] \in {"run", "text", "texting", "upload"} /\ Service(i, uses'[i]) \in cache'
    BY DEF UsesKept, Service
  <2>1. CASE i = j
    BY <1>1, <1>2, <2>1
  <2>2. CASE i # j
    BY <1>1, <2>2 DEF CardHold, UsesKept
  <2> QED
    BY <2>1, <2>2
<1>6. LoadsNew'
  <2> SUFFICES ASSUME NEW i \in Jobs, i # j
               PROVE  /\ pc[i] \in {"look", "lock", "load"} => Kind[i] # "judge"
                      /\ pc[i] = "lock" => Kind[i] = "clip_rank"
                      /\ pc[i] = "load" => (\A s \in cache' : ~(s.kind = Kind[i] /\ s.weights = Weights[i]))
                                             /\ (Kind[i] = "clip_rank" => lock' = i)
    BY <1>1 DEF LoadsNew, I!Kept
  <2>1. /\ pc[i] \in {"look", "lock", "load"} => Kind[i] # "judge"
        /\ pc[i] = "lock" => Kind[i] = "clip_rank"
        /\ pc[i] = "load" => I!Kept(i) = {} /\ (Kind[i] = "clip_rank" => lock = i)
    BY DEF CardHold, LoadsNew
  <2>2. pc[i] = "load" => Kind[i] # Kind[j]
    <3> SUFFICES ASSUME pc[i] = "load", Kind[i] = Kind[j] PROVE FALSE
      OBVIOUS
    <3>1. CASE Kind[j] = "clip_rank"
      BY <1>2, <2>1, <3>1
    <3>2. CASE Kind[j] # "clip_rank"
      <4>1. Inside(i) /\ Inside(j)
        BY <1>1, <1>2, <3>2 DEF Inside, I!Lane, I!KindOf, I!Waiting
      <4> QED
        BY <4>1 DEF CardHold, HeavyAlone
    <3> QED
      BY <3>1, <3>2
  <2>3. pc[i] = "load" => \A s \in cache : ~(s.kind = Kind[i] /\ s.weights = Weights[i])
    BY <2>1 DEF I!Kept
  <2>4. pc[i] = "load" => \A s \in cache' : ~(s.kind = Kind[i] /\ s.weights = Weights[i])
    BY <1>1, <2>2, <2>3 DEF Service
  <2> QED
    BY <1>1, <2>1, <2>4
<1>7. OneKind'
  <2> SUFFICES ASSUME ~coexist
               PROVE  /\ \A r, s \in cache' : r.kind \in Small /\ s.kind \in Small => r.kind = s.kind
                      /\ \A i \in Jobs : pc'[i] \notin {"look", "lock", "load"}
    BY <1>1 DEF OneKind
  <2>1. \A i \in Jobs : pc'[i] \notin {"look", "lock", "load"}
    BY <1>1 DEF CardHold, HeavyAlone, Inside, I!Lane, I!Waiting
  <2>2. /\ \A r, s \in cache : r.kind \in Small /\ s.kind \in Small => r.kind = s.kind
        /\ Kind[j] \in Small => \A s \in cache : s.kind \in Small => s.kind = Kind[j]
    BY <1>1 DEF CardHold, OneKind
  <2> QED
    BY <1>1, <2>1, <2>2 DEF Service
<1> QED
  BY <1>3, <1>4, <1>5, <1>6, <1>7 DEF CardHold

LEMMA EndingKeepsCard ==
  ASSUME InferTypes, CardHold, NEW j \in Jobs, I!Runs(j) \/ Ending(j)
  PROVE  CardHold'
<1>1. /\ UNCHANGED <<coexist, cache, lock>> /\ pc[j] \in {"run", "text", "texting", "upload"}
      /\ \A i \in Jobs \ {j} : pc'[i] = pc[i] /\ uses'[i] = uses[i]
      /\ pc'[j] \in {"text", "texting", "upload", "ok", "error"}
      /\ uses'[j] # None => pc'[j] \in {"text", "texting", "upload"} /\ uses'[j] = uses[j]
  BY DEF I!Runs, Ending, I!Joins, I!TextWaits, I!TextEnds, I!Uploads, I!Ends, I!Goes, InferTypes,
     I!ranking, None, I!None
<1>2. pc[j] \notin I!Waiting /\ (uses'[j] # None => pc'[j] \notin I!Waiting /\ Service(j, uses'[j]) \in cache)
  BY <1>1 DEF CardHold, UsesKept, I!Waiting
<1> QED
  BY <1>1, <1>2, CardUntouched

LEMMA CardStart == I!Init => CardHold
<1> SUFFICES ASSUME NEW load \in Requests, NEW fits \in Coexist, I!Starts(load, fits) PROVE CardHold
  BY DEF I!Init
<1>1. cache = {} /\ \A j \in Jobs : pc[j] \in {"queued", "absent"} /\ uses[j] = None
  BY DEF I!Starts, None, I!None
<1> QED
  BY <1>1 DEF CardHold, HeavyAlone, Inside, KeptOnce, UsesKept, LoadsNew, OneKind, I!Waiting

LEMMA CardStep == InferTypes /\ LanesHold /\ CardHold /\ [I!Next]_(I!vars) => CardHold'
<1> SUFFICES ASSUME InferTypes, LanesHold, CardHold, [I!Next]_(I!vars) PROVE CardHold'
  OBVIOUS
<1>1. CASE UNCHANGED <<coexist, pc, cache, uses, lock>>
  BY <1>1 DEF CardHold, HeavyAlone, Inside, KeptOnce, UsesKept, LoadsNew, OneKind, I!Lane, I!Kept, Service
<1>2. ASSUME NEW j \in Jobs, I!Serves(j) PROVE CardHold'
  BY <1>2, BeginsKeepsCard, ReleasesKeepsCard, LooksKeepsCard, LoadEndsKeepsCard, EndingKeepsCard
  DEF I!Serves, Ending
<1>3. ASSUME NEW j \in Jobs, NEW k \in I!SetsOf(j), I!Prepares(j, k) PROVE CardHold'
  BY <1>1, <1>3, PreparesKeeps
<1> QED
  BY <1>1, <1>2, <1>3 DEF I!Next, I!vars

(* The weights of one hash are on the card once, and a small card has those *)
(* of one kind, also while they are loaded.                                 *)
THEOREM CardHoldsWhatItMay == I!Spec => []ResidencyHolds
<1>1. InferTypes /\ LanesHold /\ CardHold => ResidencyHolds
  <2> SUFFICES ASSUME InferTypes, CardHold PROVE I!LoadedOnce /\ I!CardHoldsOneKind
    BY DEF ResidencyHolds, I!ResidencyHolds
  <2>1. ASSUME NEW r \in I!Resident
        PROVE  \/ \E s \in cache : r = <<s.kind, s.weights, s.by>>
               \/ \E j \in Jobs : pc[j] = "load" /\ r = <<Kind[j], Weights[j], j>>
    BY <2>1 DEF I!Resident, CardHold, UsesKept, Service, None, I!None
  <2>2. I!LoadedOnce
    <3> SUFFICES ASSUME NEW r \in I!Resident, NEW s \in I!Resident, r[1] = s[1], r[2] = s[2] PROVE r = s
      BY DEF I!LoadedOnce
    <3>1. CASE \E x, y \in cache : r = <<x.kind, x.weights, x.by>> /\ s = <<y.kind, y.weights, y.by>>
      BY <3>1 DEF CardHold, KeptOnce
    <3>2. CASE \E x \in cache, j \in Jobs : /\ pc[j] = "load"
                                           /\ {r, s} = {<<x.kind, x.weights, x.by>>,
                                                        <<Kind[j], Weights[j], j>>}
      <4>1. PICK x \in cache, j \in Jobs : /\ pc[j] = "load"
                                           /\ {r, s} = {<<x.kind, x.weights, x.by>>,
                                                        <<Kind[j], Weights[j], j>>}
        BY <3>2
      <4>2. x \notin I!Kept(j)
        BY <4>1 DEF CardHold, LoadsNew
      <4>3. ~(x.kind = Kind[j] /\ x.weights = Weights[j])
        BY <4>2 DEF I!Kept
      <4> QED
        BY <4>1, <4>3
    <3>3. CASE \E i, j \in Jobs : /\ pc[i] = "load" /\ r = <<Kind[i], Weights[i], i>>
                                  /\ pc[j] = "load" /\ s = <<Kind[j], Weights[j], j>>
      <4>1. PICK i \in Jobs, j \in Jobs : /\ pc[i] = "load" /\ r = <<Kind[i], Weights[i], i>>
                                          /\ pc[j] = "load" /\ s = <<Kind[j], Weights[j], j>>
        BY <3>3
      <4>2. Kind[i] = Kind[j] /\ Kind[j] # "judge"
        BY <4>1 DEF CardHold, LoadsNew
      <4>3. CASE Kind[j] = "clip_rank"
        BY <4>1, <4>2, <4>3 DEF CardHold, LoadsNew
      <4>4. CASE Kind[j] # "clip_rank"
        <5>1. Inside(i) /\ Inside(j)
          BY <4>1, <4>2, <4>4 DEF Inside, I!Lane, I!KindOf, I!Waiting
        <5> QED
          BY <4>1, <5>1 DEF CardHold, HeavyAlone
      <4> QED
        BY <4>3, <4>4
    <3> QED
      BY <2>1, <3>1, <3>2, <3>3
  <2>3. I!CardHoldsOneKind
    <3> DEFINE kinds == {r[1] : r \in I!Resident} \cap {"align", "clip_rank"}
    <3> SUFFICES ASSUME ~coexist PROVE Cardinality(kinds) <= 1
      BY InferCounts DEF I!CardHoldsOneKind
    <3>1. \A x, y \in kinds : x = y
      <4> SUFFICES ASSUME NEW r \in I!Resident, NEW s \in I!Resident, r[1] \in Small,
                          s[1] \in Small PROVE r[1] = s[1]
        BY DEF Small
      <4>1. ASSUME NEW i \in Jobs, NEW j \in Jobs, pc[i] = "load", pc[j] = "load" PROVE i = j
        BY <4>1 DEF CardHold, HeavyAlone, Inside, I!Lane, I!Waiting
      <4>2. ASSUME NEW x \in cache, NEW j \in Jobs, pc[j] = "load", x.kind \in Small, Kind[j] \in Small
            PROVE  x.kind = Kind[j]
        BY <4>2 DEF CardHold, OneKind
      <4>3. ASSUME NEW x \in cache, NEW y \in cache, x.kind \in Small, y.kind \in Small PROVE x.kind = y.kind
        BY <4>3 DEF CardHold, OneKind
      <4> QED
        BY <2>1, <4>1, <4>2, <4>3
    <3>2. kinds = {} \/ \E x : kinds = {x}
      BY <3>1
    <3> HIDE DEF kinds
    <3>3. Cardinality(kinds) = 0 \/ Cardinality(kinds) = 1
      BY <3>2, FS_EmptySet, FS_Singleton
    <3> QED
      BY <3>3
  <2> QED
    BY <2>2, <2>3
<1> QED
  BY <1>1, LanesStart, LanesStep, CardStart, CardStep, PTL DEF I!Spec

-----------------------------------------------------------------------------
(* The scores. The strengthening: the results are those of the groups whose *)
(* text is through, each made of what became of its own set's tiles, which  *)
(* stays as it was gathered until the request is over.                      *)

TileFates  == {"image", "nan", "broken"}
RowType    == [score : Nat, embed : Nat, error : {None, "broken", "non_finite", "empty_intent"}]
ScoredType == [status : {"ok", "error"}, rows : [1..Tiles -> RowType]]

TellsTiles(r, got, intent) ==
  LET good == {i \in 1..Tiles : got[i] = "image"}
  IN /\ \A i \in 1..Tiles :
          /\ r.rows[i].embed = IF i \in good THEN i ELSE 0
          /\ r.rows[i].score = IF i \in good /\ intent THEN i ELSE 0
          /\ r.rows[i].score = 0 => r.rows[i].error # None
     /\ (r.status = "error") = (good = {})

Scoring == {"text", "texting", "upload"}
ScoreTypes ==
  /\ had = [j \in Jobs |-> had[j]] /\ group = [j \in Jobs |-> group[j]]
  /\ result = [j \in Jobs |-> result[j]]
  /\ \A j \in Jobs : /\ had[j] \in [I!SetsOf(j) -> [1..Tiles -> TileFates]]
                     /\ group[j] \in Nat \ {0} /\ result[j] \in Seq(ScoredType)
ScoresFollow(j) ==
  /\ pc[j] \notin Scoring => group[j] = 1
  /\ pc[j] \in {"text", "texting"} => group[j] <= Len(Groups[j])
  /\ Len(result[j]) = group[j] - 1 /\ group[j] - 1 <= Len(Groups[j])
  /\ \A n \in 1..Len(result[j]) :
       TellsTiles(result[j][n], had[j][Groups[j][n].set], Groups[j][n].intent)
ScoreInv == ScoreTypes /\ \A j \in Jobs : ScoresFollow(j)

(* A request names groups of its own sets, and a rank names one at least.   *)
LEMMA GroupsAre ==
  /\ Tiles \in Nat \ {0}
  /\ \A j \in Jobs : /\ Len(Groups[j]) \in Nat
                     /\ \A n \in 1..Len(Groups[j]) : Groups[j][n].set \in I!SetsOf(j)
                                                     /\ Groups[j][n].intent \in BOOLEAN
                     /\ Kind[j] = "clip_rank" => Len(Groups[j]) >= 1
<1>1. Tiles \in Nat \ {0}
  BY RequestAssumption DEF I!InferAssumption
<1>2. ASSUME NEW j \in Jobs PROVE Groups[j] \in Seq([set : I!SetsOf(j), intent : BOOLEAN])
  BY RequestAssumption DEF I!InferAssumption, I!SetsOf
<1>3. ASSUME NEW j \in Jobs, NEW n \in 1..Len(Groups[j])
      PROVE  Groups[j][n].set \in I!SetsOf(j) /\ Groups[j][n].intent \in BOOLEAN
  <2>1. Groups[j][n] \in [set : I!SetsOf(j), intent : BOOLEAN]
    BY <1>2, <1>3, ElementOfSeq
  <2> QED
    BY <2>1
<1>4. ASSUME NEW j \in Jobs, Kind[j] = "clip_rank" PROVE Len(Groups[j]) >= 1
  <2>1. Groups[j] # << >>
    BY <1>4, RequestAssumption DEF I!InferAssumption
  <2> QED
    BY <1>2, <2>1, EmptySeq, LenProperties
<1>5. \A j \in Jobs : Len(Groups[j]) \in Nat
  BY <1>2, LenProperties
<1> QED
  BY <1>1, <1>3, <1>4, <1>5

(* What is forwarded is every tile that decoded, and each has its place.    *)
LEMMA EachHasItsPlace ==
  ASSUME NEW got \in [1..Tiles -> TileFates], NEW ok \in I!Ok(got), NEW i \in 1..Tiles
  PROVE  /\ i \in I!ToSet(ok) <=> got[i] # "broken"
         /\ got[i] # "broken" => I!Place(ok, i) \in 1..Len(ok) /\ ok[I!Place(ok, i)] = i
<1> DEFINE decoded == {k \in 1..Tiles : got[k] # "broken"}
           n       == Cardinality(decoded)
<1>1. Tiles \in Nat
  BY GroupsAre
<1>2. IsFiniteSet(decoded) /\ n \in Nat
  <2>1. IsFiniteSet(1..Tiles)
    BY <1>1, FS_Interval
  <2>2. IsFiniteSet(decoded)
    BY <2>1, FS_Subset
  <2> QED
    BY <2>2, FS_CardinalityType
<1>3. ok \in [1..n -> decoded] /\ \A p, q \in 1..n : p < q => ok[p] < ok[q]
  BY InferCounts DEF I!Ok
<1> HIDE DEF n
<1>4. Len(ok) = n /\ DOMAIN ok = 1..n
  <2>1. ok \in Seq(decoded)
    BY <1>2, <1>3
  <2> QED
    BY <1>2, <1>3, <2>1
<1>5. ASSUME NEW k \in decoded PROVE \E p \in 1..n : ok[p] = k
  <2>1. Cardinality(1..n) = n /\ IsFiniteSet(1..n)
    BY <1>2, FS_Interval
  <2>2. ASSUME NEW p \in 1..n, NEW q \in 1..n, ok[p] = ok[q] PROVE p = q
    <3>1. ok[p] \in Nat /\ ok[q] \in Nat /\ p \in Nat /\ q \in Nat
      BY <1>1, <1>2, <1>3
    <3>2. (p < q => ok[p] < ok[q]) /\ (q < p => ok[q] < ok[p])
      BY <1>3
    <3> QED
      BY <2>2, <3>1, <3>2
  <2>3. ok \in Injection(1..n, decoded)
    BY <1>3, <2>2, Fun_IsInj
  <2>4. ok \in Surjection(1..n, decoded)
    BY <1>2, <2>1, <2>3, FS_Injection DEF n
  <2> HIDE DEF decoded
  <2> QED
    BY <2>4 DEF Surjection
<1>6. i \in I!ToSet(ok) <=> \E p \in 1..n : ok[p] = i
  BY <1>4 DEF I!ToSet
<1>7. i \in I!ToSet(ok) <=> i \in decoded
  BY <1>3, <1>5, <1>6
<1>8. i \in decoded => I!Place(ok, i) \in 1..n /\ ok[I!Place(ok, i)] = i
  BY <1>4, <1>5 DEF I!Place
<1> QED
  BY <1>4, <1>7, <1>8

(* A row is its own tile's, or says why it is empty.                        *)
LEMMA RowsTell ==
  ASSUME NEW got \in [1..Tiles -> TileFates], NEW ok \in I!Ok(got), NEW intent \in BOOLEAN, NEW i \in 1..Tiles
  PROVE  LET row == I!Row(ok, got, intent, i)
         IN /\ row \in RowType
            /\ row.embed = IF got[i] = "image" THEN i ELSE 0
            /\ row.score = IF got[i] = "image" /\ intent THEN i ELSE 0
            /\ row.score = 0 => row.error # None
<1>1. Tiles \in Nat /\ i \in Nat /\ i # 0 /\ got[i] \in TileFates
  BY GroupsAre
<1>2. None = "none" /\ I!None = "none"
  BY DEF None, I!None
<1>3. CASE got[i] = "broken"
  <2>1. i \notin I!ToSet(ok)
    BY <1>3, EachHasItsPlace
  <2> QED
    BY <1>2, <1>3, <2>1 DEF I!Row, RowType
<1>4. CASE got[i] # "broken"
  <2>1. i \in I!ToSet(ok) /\ I!Place(ok, i) \in 1..Len(ok) /\ ok[I!Place(ok, i)] = i
    BY <1>4, EachHasItsPlace
  <2>2. I!Row(ok, got, intent, i) =
          IF got[i] = "nan" THEN [score |-> 0, embed |-> 0, error |-> "non_finite"]
          ELSE [score |-> IF intent THEN i ELSE 0, embed |-> i,
                error |-> IF intent THEN I!None ELSE "empty_intent"]
    BY <1>1, <2>1 DEF I!Row
  <2>3. CASE got[i] = "nan"
    BY <1>2, <2>2, <2>3 DEF RowType
  <2>4. CASE got[i] = "image"
    BY <1>1, <1>2, <2>2, <2>4 DEF RowType
  <2> QED
    BY <1>1, <1>4, <2>3, <2>4 DEF TileFates
<1> QED
  BY <1>3, <1>4

LEMMA ScoresTell ==
  ASSUME NEW got \in [1..Tiles -> TileFates], NEW ok \in I!Ok(got), NEW intent \in BOOLEAN
  PROVE  /\ I!Scored(ok, got, intent) \in ScoredType
         /\ TellsTiles(I!Scored(ok, got, intent), got, intent)
<1> DEFINE table == [i \in 1..Tiles |-> I!Row(ok, got, intent, i)]
           good == {i \in 1..Tiles : got[i] = "image"}
<1>1. \A i \in 1..Tiles : /\ table[i] \in RowType
                          /\ table[i].embed = IF i \in good THEN i ELSE 0
                          /\ table[i].score = IF i \in good /\ intent THEN i ELSE 0
                          /\ table[i].score = 0 => table[i].error # None
  BY RowsTell
<1>2. table \in [1..Tiles -> RowType]
  BY <1>1
<1>3. /\ I!Scored(ok, got, intent).rows = table
      /\ I!Scored(ok, got, intent).status
           = IF \A i \in 1..Tiles : table[i].score = 0 /\ table[i].embed = 0 THEN "error" ELSE "ok"
      /\ I!Scored(ok, got, intent)
           = [status |-> I!Scored(ok, got, intent).status, rows |-> I!Scored(ok, got, intent).rows]
  BY DEF I!Scored
<1>4. good \subseteq 1..Tiles /\ Tiles \in Nat
  BY GroupsAre
<1> HIDE DEF table, good
<1>5. (\A i \in 1..Tiles : table[i].score = 0 /\ table[i].embed = 0) <=> good = {}
  <2>1. ASSUME NEW i \in good PROVE table[i].embed # 0
    BY <1>1, <1>4, <2>1
  <2> QED
    BY <1>1, <1>4, <2>1
<1>6. I!Scored(ok, got, intent) \in ScoredType
  BY <1>2, <1>3 DEF ScoredType
<1>7. (I!Scored(ok, got, intent).status = "error") = (good = {})
  BY <1>3, <1>5
<1> QED
  BY <1>1, <1>3, <1>6, <1>7 DEF TellsTiles, good

(* A step that changes neither places, tiles, groups nor results.           *)
LEMMA StillKeepsScores ==
  ASSUME ScoreInv, UNCHANGED <<pc, had, group, result>>
  PROVE  ScoreInv'
<1>1. ScoreTypes'
  <2>1. had' = had /\ group' = group /\ result' = result
    OBVIOUS
  <2>2. \A j \in Jobs : /\ had'[j] \in [I!SetsOf(j) -> [1..Tiles -> TileFates]]
                        /\ group'[j] \in Nat \ {0} /\ result'[j] \in Seq(ScoredType)
    BY <2>1 DEF ScoreInv, ScoreTypes
  <2>3. /\ had' = [j \in Jobs |-> had'[j]] /\ group' = [j \in Jobs |-> group'[j]]
        /\ result' = [j \in Jobs |-> result'[j]]
    BY <2>1 DEF ScoreInv, ScoreTypes
  <2> QED
    BY <2>2, <2>3 DEF ScoreTypes, I!SetsOf
<1>2. ASSUME NEW j \in Jobs PROVE ScoresFollow(j)'
  <2>1. ScoresFollow(j)
    BY DEF ScoreInv
  <2> QED
    BY <2>1 DEF ScoresFollow, TellsTiles
<1> QED
  BY <1>1, <1>2 DEF ScoreInv

(* The end of a request, and its start, leave no result and no tile.        *)
LEMMA NothingIsScored ==
  ASSUME NEW j \in Jobs, NEW g, NEW r, g = 1, r = << >>
  PROVE  /\ I!NoTiles(j) \in [I!SetsOf(j) -> [1..Tiles -> TileFates]]
         /\ g \in Nat \ {0} /\ r \in Seq(ScoredType) /\ Len(r) = g - 1
         /\ g - 1 <= Len(Groups[j]) /\ 1..Len(r) = {}
<1>1. Len(Groups[j]) \in Nat
  BY GroupsAre
<1> QED
  BY <1>1 DEF I!NoTiles, TileFates

(* A step that changes no tile, group or result, and moves one request.     *)
LEMMA MovingKeepsScores ==
  ASSUME ScoreInv, InferTypes, UNCHANGED <<had, group, result>>, NEW j \in Jobs, NEW where,
         pc' = [pc EXCEPT ![j] = where],
         where \in Scoring \/ pc[j] \notin Scoring,
         where \in {"text", "texting"} => group[j] <= Len(Groups[j])
  PROVE  ScoreInv'
<1>1. pc'[j] = where /\ \A i \in Jobs : i # j => pc'[i] = pc[i]
  BY DEF InferTypes
<1>2. \A i \in Jobs : ScoresFollow(i)'
  BY <1>1 DEF ScoreInv, ScoresFollow, TellsTiles
<1> QED
  BY <1>2 DEF ScoreInv, ScoreTypes, I!SetsOf

LEMMA ServingKeepsScores ==
  ASSUME ScoreInv, InferTypes, NEW j \in Jobs, Serving(j)
  PROVE  ScoreInv'
<1>1. UNCHANGED <<had, group, result>> /\ pc[j] \notin Scoring
  BY DEF Serving, I!Begins, I!Releases, I!Looks, I!Relooks, I!LoadEnds, I!Runs, I!ranking, Scoring
<1>2. PICK where : pc' = [pc EXCEPT ![j] = where] /\ where \notin Scoring
  BY DEF Serving, I!Begins, I!Releases, I!Looks, I!Relooks, I!LoadEnds, I!Runs, I!Goes, I!Takes, Scoring
<1> QED
  BY <1>1, <1>2, MovingKeepsScores DEF Scoring

(* A set is gathered while nothing of its request is scored.                *)
LEMMA PreparingKeepsScores ==
  ASSUME ScoreInv, NEW j \in Jobs, NEW k \in I!SetsOf(j), I!Prepares(j, k)
  PROVE  ScoreInv'
<1>1. UNCHANGED <<pc, group, result>> /\ pc[j] = "run"
  BY DEF I!Prepares, I!Gathers, I!Forwards, I!ForwardEnds
<1>2. UNCHANGED had \/ \E got \in Gathered : had' = [had EXCEPT ![j][k] = got]
  BY DEF I!Prepares, I!Gathers, I!Forwards, I!ForwardEnds
<1>3. group[j] = 1 /\ Len(result[j]) = 0
  BY <1>1 DEF ScoreInv, ScoresFollow, Scoring
<1>4. CASE UNCHANGED had
  BY <1>1, <1>4, StillKeepsScores
<1>5. ASSUME NEW got \in Gathered, had' = [had EXCEPT ![j][k] = got] PROVE ScoreInv'
  <2>1. got \in [1..Tiles -> TileFates]
    BY RequestAssumption DEF I!InferAssumption, TileFates
  <2>2. /\ had' = [i \in Jobs |-> had'[i]]
        /\ had'[j] = [had[j] EXCEPT ![k] = got] /\ \A i \in Jobs : i # j => had'[i] = had[i]
    BY <1>5 DEF ScoreInv, ScoreTypes
  <2>3. ASSUME NEW i \in Jobs PROVE had'[i] \in [I!SetsOf(i) -> [1..Tiles -> TileFates]]
    <3>1. had[i] \in [I!SetsOf(i) -> [1..Tiles -> TileFates]]
      BY DEF ScoreInv, ScoreTypes
    <3>2. CASE i = j
      BY <2>1, <2>2, <3>1, <3>2
    <3>3. CASE i # j
      BY <2>2, <3>1, <3>3
    <3> QED
      BY <3>2, <3>3
  <2>4. ScoreTypes'
    BY <1>1, <2>2, <2>3 DEF ScoreInv, ScoreTypes, I!SetsOf
  <2>5. ASSUME NEW i \in Jobs PROVE ScoresFollow(i)'
    <3>1. CASE i = j
      BY <1>1, <1>3, <3>1 DEF ScoreInv, ScoresFollow
    <3>2. CASE i # j
      BY <1>1, <2>2, <3>2 DEF ScoreInv, ScoresFollow, TellsTiles
    <3> QED
      BY <3>1, <3>2
  <2> QED
    BY <2>4, <2>5 DEF ScoreInv
<1> QED
  BY <1>2, <1>4, <1>5

LEMMA EndsKeepsScores ==
  ASSUME ScoreInv, InferTypes, NEW j \in Jobs, NEW how \in {"ok", "error"}, I!Ends(j, how)
  PROVE  ScoreInv'
<1>1. /\ had' = [had EXCEPT ![j] = I!NoTiles(j)] /\ group' = [group EXCEPT ![j] = 1]
      /\ result' = [result EXCEPT ![j] = << >>] /\ pc' = [pc EXCEPT ![j] = how]
  BY DEF I!Ends, I!Goes
<1>2. /\ had' = [i \in Jobs |-> had'[i]] /\ group' = [i \in Jobs |-> group'[i]]
      /\ result' = [i \in Jobs |-> result'[i]]
      /\ had'[j] = I!NoTiles(j) /\ group'[j] = 1 /\ result'[j] = << >> /\ pc'[j] = how
      /\ \A i \in Jobs : i # j => /\ had'[i] = had[i] /\ group'[i] = group[i]
                                  /\ result'[i] = result[i] /\ pc'[i] = pc[i]
  BY <1>1 DEF ScoreInv, ScoreTypes, InferTypes
<1>3. /\ had'[j] \in [I!SetsOf(j) -> [1..Tiles -> TileFates]]
      /\ group'[j] \in Nat \ {0} /\ result'[j] \in Seq(ScoredType) /\ Len(result'[j]) = group'[j] - 1
      /\ group'[j] - 1 <= Len(Groups[j]) /\ 1..Len(result'[j]) = {}
  BY <1>2, NothingIsScored
<1>4. ScoreTypes'
  <2>1. \A i \in Jobs : /\ had'[i] \in [I!SetsOf(i) -> [1..Tiles -> TileFates]]
                        /\ group'[i] \in Nat \ {0} /\ result'[i] \in Seq(ScoredType)
    BY <1>2, <1>3 DEF ScoreInv, ScoreTypes
  <2> QED
    BY <1>2, <2>1 DEF ScoreTypes, I!SetsOf
<1>5. ASSUME NEW i \in Jobs PROVE ScoresFollow(i)'
  <2>1. CASE i = j
    BY <1>2, <1>3, <2>1 DEF ScoresFollow, Scoring
  <2>2. CASE i # j
    <3>1. ScoresFollow(i)
      BY DEF ScoreInv
    <3>2. had'[i] = had[i] /\ group'[i] = group[i] /\ result'[i] = result[i] /\ pc'[i] = pc[i]
      BY <1>2, <2>2
    <3> QED
      BY <3>1, <3>2 DEF ScoresFollow
  <2> QED
    BY <2>1, <2>2
<1> QED
  BY <1>4, <1>5 DEF ScoreInv

(* The text of a group is through: its own set's tiles are scored.          *)
LEMMA TextKeepsScores ==
  ASSUME ScoreInv, InferTypes, NEW j \in Jobs, I!TextEnds(j), ~I!Ends(j, "error")
  PROVE  ScoreInv'
<1> DEFINE g    == Groups[j][group[j]]
           tile == had[j][g.set]
           next == IF group[j] = Len(Groups[j]) THEN "upload" ELSE "text"
<1>1. PICK ok \in I!Ok(tile) :
        /\ pc[j] = "texting" /\ pc' = [pc EXCEPT ![j] = next] /\ UNCHANGED had
        /\ result' = [result EXCEPT ![j] = Append(@, I!Scored(ok, tile, g.intent))]
        /\ group' = [group EXCEPT ![j] = @ + 1]
  BY DEF I!TextEnds, I!Goes
<1>2. /\ group[j] \in Nat \ {0} /\ group[j] <= Len(Groups[j]) /\ Len(Groups[j]) \in Nat
      /\ Len(result[j]) = group[j] - 1 /\ result[j] \in Seq(ScoredType)
  BY <1>1, GroupsAre DEF ScoreInv, ScoreTypes, ScoresFollow
<1>3. g.set \in I!SetsOf(j) /\ g.intent \in BOOLEAN
  BY <1>2, GroupsAre
<1>4. tile \in [1..Tiles -> TileFates]
  BY <1>3 DEF ScoreInv, ScoreTypes
<1>5. PICK scored : scored = I!Scored(ok, tile, g.intent)
  OBVIOUS
<1>6. scored \in ScoredType /\ TellsTiles(scored, tile, g.intent)
  BY <1>3, <1>4, <1>5, ScoresTell
<1>7. /\ result' = [i \in Jobs |-> result'[i]] /\ group' = [i \in Jobs |-> group'[i]]
      /\ result'[j] = Append(result[j], scored) /\ group'[j] = group[j] + 1 /\ pc'[j] = next
      /\ \A i \in Jobs : i # j => result'[i] = result[i] /\ group'[i] = group[i] /\ pc'[i] = pc[i]
  BY <1>1, <1>5 DEF ScoreInv, ScoreTypes, InferTypes
<1>8. /\ result'[j] \in Seq(ScoredType) /\ Len(result'[j]) = group[j] /\ result'[j][group[j]] = scored
      /\ \A n \in 1..(group[j] - 1) : result'[j][n] = result[j][n]
  BY <1>2, <1>6, <1>7, AppendProperties
<1> HIDE DEF g, tile, next
<1>9. ScoreTypes'
  <2>1. ASSUME NEW i \in Jobs PROVE group'[i] \in Nat \ {0} /\ result'[i] \in Seq(ScoredType)
    <3>1. group[i] \in Nat \ {0} /\ result[i] \in Seq(ScoredType)
      BY DEF ScoreInv, ScoreTypes
    <3>2. CASE i = j
      <4>1. group'[j] = group[j] + 1 /\ group[j] \in Nat
        BY <1>2, <1>7
      <4>2. group'[j] \in Nat \ {0}
        BY <4>1
      <4> QED
        BY <1>8, <3>2, <4>2
    <3>3. CASE i # j
      BY <1>7, <3>1, <3>3
    <3> QED
      BY <3>2, <3>3
  <2> QED
    BY <1>1, <1>7, <2>1 DEF ScoreInv, ScoreTypes, I!SetsOf
<1>10. ScoresFollow(j)'
  <2>1. pc'[j] \in Scoring /\ (pc'[j] \in {"text", "texting"} => group'[j] <= Len(Groups[j]))
    BY <1>2, <1>7 DEF next, Scoring
  <2>2. Len(result'[j]) = group'[j] - 1 /\ group'[j] - 1 <= Len(Groups[j])
    BY <1>2, <1>7, <1>8
  <2>3. ASSUME NEW n \in 1..Len(result'[j])
        PROVE  TellsTiles(result'[j][n], had[j][Groups[j][n].set], Groups[j][n].intent)
    <3>1. CASE n = group[j]
      BY <1>6, <1>8, <3>1 DEF g, tile
    <3>2. CASE n # group[j]
      <4>1. n \in 1..(group[j] - 1)
        BY <1>2, <1>8, <2>3, <3>2
      <4> QED
        BY <1>2, <1>8, <4>1 DEF ScoreInv, ScoresFollow
    <3> QED
      BY <3>1, <3>2
  <2> QED
    BY <1>1, <2>1, <2>2, <2>3 DEF ScoresFollow, TellsTiles
<1>11. \A i \in Jobs : i # j => ScoresFollow(i)'
  BY <1>1, <1>7 DEF ScoreInv, ScoresFollow, TellsTiles
<1> QED
  BY <1>9, <1>10, <1>11 DEF ScoreInv

LEMMA EndingKeepsScores ==
  ASSUME ScoreInv, InferTypes, NEW j \in Jobs, Ending(j)
  PROVE  ScoreInv'
<1>1. CASE I!Ends(j, "error") \/ I!Ends(j, "ok")
  BY <1>1, EndsKeepsScores
<1>2. CASE ~(I!Ends(j, "error") \/ I!Ends(j, "ok"))
  <2>1. CASE I!Joins(j)
    <3>1. pc[j] = "run" /\ Kind[j] = "clip_rank" /\ pc' = [pc EXCEPT ![j] = "text"]
          /\ UNCHANGED <<had, group, result>>
      BY <1>2, <2>1 DEF I!Joins, I!Goes, I!ranking
    <3>2. group[j] = 1
      BY <3>1 DEF ScoreInv, ScoresFollow, Scoring
    <3>3. Len(Groups[j]) >= 1 /\ Len(Groups[j]) \in Nat
      BY <3>1, GroupsAre
    <3>4. group[j] <= Len(Groups[j])
      BY <3>2, <3>3
    <3> QED
      BY <3>1, <3>4, MovingKeepsScores DEF Scoring
  <2>2. CASE I!TextWaits(j)
    <3>1. pc[j] = "text" /\ pc' = [pc EXCEPT ![j] = "texting"] /\ UNCHANGED <<had, group, result>>
      BY <1>2, <2>2 DEF I!TextWaits, I!Goes, I!ranking
    <3>2. group[j] <= Len(Groups[j])
      BY <3>1 DEF ScoreInv, ScoresFollow
    <3> QED
      BY <3>1, <3>2, MovingKeepsScores DEF Scoring
  <2>3. CASE I!TextEnds(j)
    BY <1>2, <2>3, TextKeepsScores
  <2>4. CASE I!Uploads(j)
    BY <1>2, <2>4 DEF I!Uploads
  <2> QED
    BY <2>1, <2>2, <2>3, <2>4 DEF Ending
<1> QED
  BY <1>1, <1>2

LEMMA ScoreStart == I!Init => ScoreInv
<1> SUFFICES ASSUME NEW load \in Requests, NEW fits \in Coexist, I!Starts(load, fits) PROVE ScoreInv
  BY DEF I!Init
<1>1. \A j \in Jobs : /\ had[j] = I!NoTiles(j) /\ group[j] = 1 /\ result[j] = << >>
                      /\ pc[j] \in {"queued", "absent"}
  BY DEF I!Starts
<1>2. \A j \in Jobs : /\ had[j] \in [I!SetsOf(j) -> [1..Tiles -> TileFates]]
                      /\ group[j] \in Nat \ {0} /\ result[j] \in Seq(ScoredType)
                      /\ Len(result[j]) = group[j] - 1
                      /\ group[j] - 1 <= Len(Groups[j]) /\ 1..Len(result[j]) = {}
  BY <1>1, NothingIsScored
<1>3. ScoreTypes
  BY <1>2 DEF ScoreTypes, I!Starts
<1>4. \A j \in Jobs : ScoresFollow(j)
  BY <1>1, <1>2 DEF ScoresFollow, Scoring
<1> QED
  BY <1>3, <1>4 DEF ScoreInv

LEMMA ScoreStep == InferTypes /\ ScoreInv /\ [I!Next]_(I!vars) => ScoreInv'
<1> SUFFICES ASSUME InferTypes, ScoreInv, [I!Next]_(I!vars) PROVE ScoreInv'
  OBVIOUS
<1>1. CASE UNCHANGED I!vars
  BY <1>1, StillKeepsScores DEF I!vars, I!ranking
<1>2. ASSUME NEW j \in Jobs, I!Serves(j) PROVE ScoreInv'
  BY <1>2, ServingKeepsScores, EndingKeepsScores DEF I!Serves, Serving, Ending
<1>3. ASSUME NEW j \in Jobs, NEW k \in I!SetsOf(j), I!Prepares(j, k) PROVE ScoreInv'
  BY <1>3, PreparingKeepsScores
<1> QED
  BY <1>1, <1>2, <1>3 DEF I!Next

(* Every row of every result is its own tile's, of the group's own images,  *)
(* or says why it is empty, whichever tiles are broken, whatever sets the   *)
(* groups share and however the requests' forwards interleave.              *)
THEOREM EachTileHasItsScore == I!Spec => []ScoresAreTheTiles
<1>1. ScoreInv => ScoresAreTheTiles
  <2> SUFFICES ASSUME ScoreInv, NEW j \in Jobs, NEW n \in 1..Len(result[j])
               PROVE  LET g == Groups[j][n]
                          r == result[j][n]
                          good == {i \in 1..Tiles : had[j][g.set][i] = "image"}
                      IN /\ \A i \in 1..Tiles :
                              /\ r.rows[i].embed = IF i \in good THEN i ELSE 0
                              /\ r.rows[i].score = IF i \in good /\ g.intent THEN i ELSE 0
                              /\ r.rows[i].score = 0 => r.rows[i].error # I!None
                         /\ (r.status = "error") = (good = {})
    BY DEF ScoresAreTheTiles, I!ScoresAreTheTiles
  <2>1. TellsTiles(result[j][n], had[j][Groups[j][n].set], Groups[j][n].intent)
    BY DEF ScoreInv, ScoresFollow
  <2> QED
    BY <2>1 DEF TellsTiles, None, I!None
<1> QED
  BY <1>1, LanesStart, LanesStep, ScoreStart, ScoreStep, PTL DEF I!Spec

-----------------------------------------------------------------------------
(* PUTs and what they share. *)

LEMMA UploadCounts == \A S : U!Cardinality(S) = Cardinality(S)
BY DEF Cardinality, U!Cardinality

Sending  == {"pool", "wire"}
Counted  == {"reset"} \cup Sending
CountedIn == {t \in Putters : upc[t] \in Counted}
SendingIn == {t \in Putters : upc[t] \in Sending}

UploadTypes ==
  /\ upc \in [Putters -> {"idle", "begin", "pause", "sent", "rejected", "failed"} \cup Counted]
  /\ uattempt \in [Putters -> Nat] /\ lost \in [Putters -> Nat]
  /\ rows \in [Putters -> Seq({"ok", "4xx", "fault"})] /\ adapter \in [Putters -> Nat]
  /\ session \in [inflight : Nat, used : BOOLEAN, idle : BOOLEAN, pool : Nat] /\ rate \in Nat

WireHolds ==
  /\ IsFiniteSet(CountedIn) /\ rate = Cardinality(CountedIn)
  /\ IsFiniteSet(SendingIn) /\ session.inflight = Cardinality(SendingIn)
  /\ \A t \in Putters : upc[t] = "wire" => adapter[t] = session.pool

(* Until its last one, every attempt of a call was a fault, and the trace   *)
(* and the clock have it.                                                   *)
Faults(t, n) == Len(rows[t]) >= n /\ \A i \in 1..n : rows[t][i] = "fault"
Traced(t) ==
  /\ upc[t] # "idle" => uattempt[t] \in 1..Attempts
  /\ upc[t] \in {"begin"} \cup Counted =>
       Len(rows[t]) = uattempt[t] - 1 /\ lost[t] = uattempt[t] - 1 /\ Faults(t, uattempt[t] - 1)
  /\ upc[t] = "pause" =>
       Len(rows[t]) = uattempt[t] /\ lost[t] = uattempt[t] /\ Faults(t, uattempt[t]) /\ uattempt[t] < Attempts
  /\ upc[t] \in {"sent", "rejected", "failed"} =>
       /\ Len(rows[t]) = uattempt[t] /\ Faults(t, uattempt[t] - 1)
       /\ lost[t] = IF upc[t] = "sent" THEN uattempt[t] - 1 ELSE uattempt[t]
       /\ rows[t][uattempt[t]] = CASE upc[t] = "sent" -> "ok"
                                    [] upc[t] = "rejected" -> "4xx"
                                    [] OTHER -> "fault"
       /\ upc[t] = "failed" => uattempt[t] = Attempts

UploadInv == UploadTypes /\ WireHolds /\ \A t \in Putters : Traced(t)

LEMMA UploadStart == U!Init => UploadInv
<1> SUFFICES ASSUME U!Init PROVE UploadInv
  OBVIOUS
<1>1. UploadTypes
  BY DEF U!Init, U!Starts, UploadTypes, Counted, Sending
<1>2. CountedIn = {} /\ SendingIn = {} /\ rate = 0 /\ session.inflight = 0
        /\ \A t \in Putters : upc[t] = "idle"
  BY DEF U!Init, U!Starts, CountedIn, SendingIn, Counted, Sending
<1> QED
  BY <1>1, <1>2, FS_EmptySet DEF UploadInv, WireHolds, Traced, Counted, Sending

(* A thread that moves touches its own trace only. *)
LEMMA TracesApart ==
  ASSUME UploadInv, NEW t \in Putters, Traced(t)',
         \A u \in Putters \ {t} : /\ upc'[u] = upc[u] /\ uattempt'[u] = uattempt[u]
                                  /\ rows'[u] = rows[u] /\ lost'[u] = lost[u]
  PROVE  \A u \in Putters : Traced(u)'
<1> TAKE u \in Putters
<1>1. CASE u = t
  BY <1>1
<1>2. CASE u # t
  <2>1. Traced(u)
    BY DEF UploadInv
  <2> QED
    BY <1>2, <2>1 DEF Traced, Faults
<1> QED
  BY <1>1, <1>2

(* The thread is counted, or not, as it was. *)
LEMMA CountsAlike ==
  ASSUME UploadInv, NEW t \in Putters, UNCHANGED <<session, rate, adapter>>,
         \A u \in Putters \ {t} : upc'[u] = upc[u],
         (upc'[t] \in Counted) = (upc[t] \in Counted), (upc'[t] \in Sending) = (upc[t] \in Sending),
         upc'[t] # "wire"
  PROVE  WireHolds'
<1>1. CountedIn' = CountedIn /\ SendingIn' = SendingIn
  BY DEF CountedIn, SendingIn
<1> QED
  BY <1>1 DEF UploadInv, WireHolds

LEMMA PutCounts ==
  ASSUME UploadInv, NEW t \in Putters
  PROVE  /\ t \notin CountedIn => /\ IsFiniteSet(CountedIn \cup {t})
                                  /\ Cardinality(CountedIn \cup {t}) = Cardinality(CountedIn) + 1
         /\ t \in CountedIn => /\ IsFiniteSet(CountedIn \ {t})
                               /\ Cardinality(CountedIn \ {t}) = Cardinality(CountedIn) - 1
                               /\ Cardinality(CountedIn) \in Nat \ {0}
         /\ t \notin SendingIn => /\ IsFiniteSet(SendingIn \cup {t})
                                  /\ Cardinality(SendingIn \cup {t}) = Cardinality(SendingIn) + 1
         /\ t \in SendingIn => /\ IsFiniteSet(SendingIn \ {t})
                               /\ Cardinality(SendingIn \ {t}) = Cardinality(SendingIn) - 1
                               /\ Cardinality(SendingIn) \in Nat \ {0}
<1>1. IsFiniteSet(CountedIn) /\ IsFiniteSet(SendingIn)
  BY DEF UploadInv, WireHolds
<1>2. /\ Cardinality(CountedIn) \in Nat /\ Cardinality(SendingIn) \in Nat
      /\ t \in CountedIn => Cardinality(CountedIn) # 0
      /\ t \in SendingIn => Cardinality(SendingIn) # 0
  BY <1>1, FS_CardinalityType, FS_EmptySet
<1> QED
  BY <1>1, <1>2, FS_AddElement, FS_RemoveElement

LEMMA BeginsOrResends ==
  ASSUME UploadInv, NEW t \in Putters, U!Begins(t) \/ U!Resends(t)
  PROVE  UploadInv'
<1>1. /\ upc' = [upc EXCEPT ![t] = "begin"] /\ UNCHANGED <<adapter, session, rate>>
      /\ upc[t] \in {"idle", "sent", "rejected", "failed", "pause"}
      /\ \/ /\ uattempt' = [uattempt EXCEPT ![t] = 1]
            /\ rows' = [rows EXCEPT ![t] = << >>] /\ lost' = [lost EXCEPT ![t] = 0]
         \/ upc[t] = "pause" /\ uattempt' = [uattempt EXCEPT ![t] = @ + 1] /\ UNCHANGED <<rows, lost>>
  BY DEF U!Begins, U!Resends, U!Goes, U!Resting
<1>2. /\ upc'[t] = "begin"
      /\ \A u \in Putters \ {t} : /\ upc'[u] = upc[u] /\ uattempt'[u] = uattempt[u]
                                  /\ rows'[u] = rows[u] /\ lost'[u] = lost[u]
      /\ \/ uattempt'[t] = 1 /\ rows'[t] = << >> /\ lost'[t] = 0
         \/ upc[t] = "pause" /\ uattempt'[t] = uattempt[t] + 1 /\ rows'[t] = rows[t] /\ lost'[t] = lost[t]
  BY <1>1 DEF UploadInv, UploadTypes
<1>3. UploadTypes'
  <2>1. upc' \in [Putters -> {"idle", "begin", "pause", "sent", "rejected", "failed"} \cup Counted]
    BY <1>1 DEF UploadInv, UploadTypes
  <2>2. uattempt' \in [Putters -> Nat] /\ lost' \in [Putters -> Nat]
    <3>1. uattempt \in [Putters -> Nat] /\ lost \in [Putters -> Nat]
      BY DEF UploadInv, UploadTypes
    <3>2. PICK n \in Nat : uattempt' = [uattempt EXCEPT ![t] = n]
      BY <1>1, <3>1
    <3>3. uattempt' \in [Putters -> Nat]
      BY <3>1, <3>2
    <3>4. lost' = lost \/ lost' = [lost EXCEPT ![t] = 0]
      BY <1>1
    <3>5. lost' \in [Putters -> Nat]
      BY <3>1, <3>4
    <3> QED
      BY <3>3, <3>5
  <2>3. rows' \in [Putters -> Seq({"ok", "4xx", "fault"})]
    <3>1. << >> \in Seq({"ok", "4xx", "fault"})
      OBVIOUS
    <3> QED
      BY <1>1, <3>1 DEF UploadInv, UploadTypes
  <2> QED
    BY <1>1, <2>1, <2>2, <2>3 DEF UploadInv, UploadTypes
<1>4. Traced(t)'
  <2>1. Attempts \in Nat /\ Attempts > 0 /\ Traced(t) /\ uattempt[t] \in Nat /\ lost[t] \in Nat
    BY UploadsAssumption DEF U!UploadAssumption, UploadInv, UploadTypes
  <2>2. CASE uattempt'[t] = 1 /\ rows'[t] = << >> /\ lost'[t] = 0
    BY <1>2, <2>1, <2>2 DEF Traced, Faults, Counted, Sending
  <2>3. CASE upc[t] = "pause" /\ uattempt'[t] = uattempt[t] + 1 /\ rows'[t] = rows[t] /\ lost'[t] = lost[t]
    BY <1>2, <2>1, <2>3 DEF Traced, Faults, Counted, Sending
  <2> QED
    BY <1>2, <2>2, <2>3
<1>5. WireHolds'
  BY <1>1, <1>2, CountsAlike DEF Counted, Sending
<1> QED
  BY <1>2, <1>3, <1>4, <1>5, TracesApart DEF UploadInv

LEMMA CountsInKeeps ==
  ASSUME UploadInv, NEW t \in Putters, U!CountsIn(t)
  PROVE  UploadInv'
<1>1. /\ upc[t] = "begin" /\ upc' = [upc EXCEPT ![t] = "reset"] /\ rate' = rate + 1
      /\ UNCHANGED <<uattempt, rows, lost, adapter, session>>
  BY DEF U!CountsIn, U!Goes
<1>2. upc'[t] = "reset" /\ \A u \in Putters \ {t} : upc'[u] = upc[u]
  BY <1>1 DEF UploadInv, UploadTypes
<1>3. UploadTypes'
  <2>1. rate' \in Nat
          /\ upc' \in [Putters -> {"idle", "begin", "pause", "sent", "rejected", "failed"} \cup Counted]
    BY <1>1 DEF UploadInv, UploadTypes, Counted
  <2> QED
    BY <1>1, <2>1 DEF UploadInv, UploadTypes
<1>4. Traced(t)'
  <2>1. Traced(t)
    BY DEF UploadInv
  <2> QED
    BY <1>1, <1>2, <2>1 DEF Traced, Faults, Counted, Sending
<1>5. WireHolds'
  <2>1. CountedIn' = CountedIn \cup {t} /\ t \notin CountedIn /\ SendingIn' = SendingIn
    BY <1>1, <1>2 DEF CountedIn, SendingIn, Counted, Sending
  <2>2. IsFiniteSet(CountedIn') /\ Cardinality(CountedIn') = Cardinality(CountedIn) + 1
    BY <2>1, PutCounts
  <2> QED
    BY <1>1, <1>2, <2>1, <2>2 DEF UploadInv, WireHolds
<1> QED
  BY <1>1, <1>2, <1>3, <1>4, <1>5, TracesApart DEF UploadInv

(* The pool is replaced only when no request is on the wire. *)
LEMMA ResetsKeeps ==
  ASSUME UploadInv, NEW t \in Putters, U!ResetsIfIdle(t)
  PROVE  UploadInv'
<1>1. /\ upc[t] = "reset" /\ upc' = [upc EXCEPT ![t] = "pool"]
      /\ session' = [session EXCEPT !.inflight = @ + 1, !.pool = U!Fresh]
      /\ UNCHANGED <<uattempt, rows, lost, adapter, rate>>
  BY DEF U!ResetsIfIdle, U!Goes
<1>2. /\ upc'[t] = "pool" /\ \A u \in Putters \ {t} : upc'[u] = upc[u]
      /\ session'.inflight = session.inflight + 1 /\ session'.pool = U!Fresh
  BY <1>1 DEF UploadInv, UploadTypes
<1>3. UploadTypes'
  <2>1. PICK pool : pool = U!Fresh
    OBVIOUS
  <2>2. pool \in Nat
    BY <2>1 DEF U!Fresh, UploadInv, UploadTypes
  <2>3. session' = [inflight |-> session.inflight + 1, used |-> session.used, idle |-> session.idle,
                    pool |-> pool]
    BY <1>1, <2>1 DEF UploadInv, UploadTypes
  <2>4. session' \in [inflight : Nat, used : BOOLEAN, idle : BOOLEAN, pool : Nat]
    BY <2>2, <2>3 DEF UploadInv, UploadTypes
  <2>5. upc' \in [Putters -> {"idle", "begin", "pause", "sent", "rejected", "failed"} \cup Counted]
    BY <1>1 DEF UploadInv, UploadTypes, Counted, Sending
  <2> QED
    BY <1>1, <2>4, <2>5 DEF UploadInv, UploadTypes
<1>4. Traced(t)'
  <2>1. Traced(t)
    BY DEF UploadInv
  <2> QED
    BY <1>1, <1>2, <2>1 DEF Traced, Faults, Counted, Sending
<1>5. WireHolds'
  <2>1. SendingIn' = SendingIn \cup {t} /\ t \notin SendingIn /\ CountedIn' = CountedIn
    BY <1>1, <1>2 DEF CountedIn, SendingIn, Counted, Sending
  <2>2. IsFiniteSet(SendingIn') /\ Cardinality(SendingIn') = Cardinality(SendingIn) + 1
    BY <2>1, PutCounts
  <2>3. ASSUME NEW u \in Putters, upc'[u] = "wire" PROVE adapter'[u] = session'.pool
    <3>1. u \in SendingIn /\ adapter[u] = session.pool
      BY <1>2, <2>3 DEF SendingIn, Sending, UploadInv, WireHolds
    <3>2. session.inflight # 0
      <4>1. Cardinality(SendingIn) # 0
        BY <3>1, PutCounts
      <4> QED
        BY <4>1 DEF UploadInv, WireHolds
    <3> QED
      BY <1>1, <1>2, <3>1, <3>2 DEF U!Fresh
  <2> QED
    BY <1>1, <1>2, <2>1, <2>2, <2>3 DEF UploadInv, WireHolds
<1> QED
  BY <1>1, <1>2, <1>3, <1>4, <1>5, TracesApart DEF UploadInv

LEMMA TakesPoolKeeps ==
  ASSUME UploadInv, NEW t \in Putters, U!TakesPool(t)
  PROVE  UploadInv'
<1>1. /\ upc[t] = "pool" /\ upc' = [upc EXCEPT ![t] = "wire"]
      /\ adapter' = [adapter EXCEPT ![t] = session.pool]
      /\ UNCHANGED <<uattempt, rows, lost, session, rate>>
  BY DEF U!TakesPool, U!Goes
<1>2. /\ upc'[t] = "wire" /\ \A u \in Putters \ {t} : upc'[u] = upc[u] /\ adapter'[u] = adapter[u]
      /\ adapter'[t] = session.pool
  BY <1>1 DEF UploadInv, UploadTypes
<1>3. UploadTypes'
  BY <1>1 DEF UploadInv, UploadTypes, Counted, Sending
<1>4. Traced(t)'
  <2>1. Traced(t)
    BY DEF UploadInv
  <2> QED
    BY <1>1, <1>2, <2>1 DEF Traced, Faults, Counted, Sending
<1>5. WireHolds'
  <2>1. SendingIn' = SendingIn /\ CountedIn' = CountedIn
    BY <1>1, <1>2 DEF CountedIn, SendingIn, Counted, Sending
  <2> QED
    BY <1>1, <1>2, <2>1 DEF UploadInv, WireHolds
<1> QED
  BY <1>1, <1>2, <1>3, <1>4, <1>5, TracesApart DEF UploadInv

LEMMA AnsweredKeeps ==
  ASSUME UploadInv, NEW t \in Putters, U!Answered(t)
  PROVE  UploadInv'
<1>1. PICK how : /\ how \in {"ok", "4xx", "fault"} /\ U!Off /\ U!Goes(t, U!Outcome(t, how))
                 /\ rows' = [rows EXCEPT ![t] = Append(@, how)]
                 /\ lost' = [lost EXCEPT ![t] = IF how = "ok" THEN @ ELSE @ + 1]
  BY DEF U!Answered
<1>2. upc[t] = "wire" /\ UNCHANGED <<uattempt, adapter>>
  BY DEF U!Answered
<1>3. PICK where : where = U!Outcome(t, how)
  OBVIOUS
<1>4. /\ where \in {"sent", "pause", "rejected", "failed"}
      /\ where = "sent" <=> how = "ok"
      /\ where = "pause" <=> how = "fault" /\ uattempt[t] < Attempts
      /\ where = "rejected" <=> how = "4xx"
  BY <1>1, <1>3 DEF U!Outcome, U!Retryable
<1>5. /\ upc' = [upc EXCEPT ![t] = where] /\ rate' = rate - 1
      /\ session' = [session EXCEPT !.inflight = @ - 1, !.idle = FALSE, !.used = TRUE]
  BY <1>1, <1>3 DEF U!Goes, U!Off
<1>6. /\ upc'[t] = where /\ rows'[t] = Append(rows[t], how)
      /\ lost'[t] = (IF how = "ok" THEN lost[t] ELSE lost[t] + 1)
      /\ \A u \in Putters \ {t} : upc'[u] = upc[u] /\ rows'[u] = rows[u] /\ lost'[u] = lost[u]
      /\ session'.inflight = session.inflight - 1 /\ session'.pool = session.pool
  BY <1>1, <1>5 DEF UploadInv, UploadTypes
<1>7. t \in CountedIn /\ t \in SendingIn
  BY <1>2 DEF CountedIn, SendingIn, Counted, Sending
<1>8. /\ IsFiniteSet(CountedIn \ {t}) /\ Cardinality(CountedIn \ {t}) = Cardinality(CountedIn) - 1
      /\ IsFiniteSet(SendingIn \ {t}) /\ Cardinality(SendingIn \ {t}) = Cardinality(SendingIn) - 1
      /\ rate \in Nat \ {0} /\ session.inflight \in Nat \ {0}
      /\ rate = Cardinality(CountedIn) /\ session.inflight = Cardinality(SendingIn)
  BY <1>7, PutCounts DEF UploadInv, WireHolds
<1>9. UploadTypes'
  <2>1. upc' \in [Putters -> {"idle", "begin", "pause", "sent", "rejected", "failed"} \cup Counted]
    BY <1>4, <1>5 DEF UploadInv, UploadTypes
  <2>2. rows' \in [Putters -> Seq({"ok", "4xx", "fault"})]
    BY <1>1 DEF UploadInv, UploadTypes
  <2>3. lost' \in [Putters -> Nat]
    BY <1>1 DEF UploadInv, UploadTypes
  <2>4. session' \in [inflight : Nat, used : BOOLEAN, idle : BOOLEAN, pool : Nat] /\ rate' \in Nat
    <3>1. session' = [inflight |-> session.inflight - 1, used |-> TRUE, idle |-> FALSE, pool |-> session.pool]
      BY <1>5 DEF UploadInv, UploadTypes
    <3>2. session.inflight - 1 \in Nat /\ rate - 1 \in Nat /\ session.pool \in Nat
      BY <1>8 DEF UploadInv, UploadTypes
    <3> QED
      BY <1>5, <3>1, <3>2
  <2> QED
    BY <1>2, <2>1, <2>2, <2>3, <2>4 DEF UploadInv, UploadTypes
<1>10. WireHolds'
  <2>1. CountedIn' = CountedIn \ {t} /\ SendingIn' = SendingIn \ {t}
    BY <1>4, <1>6 DEF CountedIn, SendingIn, Counted, Sending
  <2>2. \A u \in Putters : upc'[u] = "wire" => adapter'[u] = session'.pool
    BY <1>2, <1>4, <1>6 DEF UploadInv, WireHolds
  <2> QED
    BY <1>5, <1>6, <1>8, <2>1, <2>2 DEF WireHolds
<1>11. Traced(t)'
  <2>1. /\ uattempt[t] \in 1..Attempts /\ Attempts \in Nat /\ rows[t] \in Seq({"ok", "4xx", "fault"})
        /\ Len(rows[t]) = uattempt[t] - 1 /\ lost[t] = uattempt[t] - 1 /\ Faults(t, uattempt[t] - 1)
    BY <1>2, UploadsAssumption DEF UploadInv, UploadTypes, Traced, Counted, Sending, U!UploadAssumption
  <2>2. /\ Len(rows'[t]) = uattempt[t] /\ rows'[t][uattempt[t]] = how
        /\ \A i \in 1..(uattempt[t] - 1) : rows'[t][i] = "fault"
    BY <1>6, <2>1 DEF Faults
  <2>3. uattempt'[t] = uattempt[t] /\ Faults(t, uattempt[t] - 1)'
    BY <1>2, <2>1, <2>2 DEF Faults
  <2>4. how = "fault" => Faults(t, uattempt[t])'
    BY <1>2, <2>1, <2>2 DEF Faults
  <2>5. upc'[t] \notin {"idle", "begin"} \cup Counted
    BY <1>4, <1>6 DEF Counted, Sending
  <2> QED
    BY <1>1, <1>4, <1>6, <2>1, <2>2, <2>3, <2>4, <2>5 DEF Traced
<1> QED
  BY <1>2, <1>6, <1>9, <1>10, <1>11, TracesApart DEF UploadInv

LEMMA IdlesKeeps ==
  ASSUME UploadInv, U!Idles
  PROVE  UploadInv'
<1>1. /\ session' = [session EXCEPT !.idle = TRUE]
      /\ UNCHANGED <<upc, uattempt, rows, lost, adapter, rate>>
  BY DEF U!Idles
<1>2. session'.inflight = session.inflight /\ session'.pool = session.pool
  BY <1>1 DEF UploadInv, UploadTypes
<1>3. UploadTypes'
  BY <1>1 DEF UploadInv, UploadTypes
<1> QED
  BY <1>1, <1>2, <1>3 DEF UploadInv, WireHolds, CountedIn, SendingIn, Traced, Faults

LEMMA UploadStep == UploadInv /\ [U!Next]_(U!vars) => UploadInv'
<1> SUFFICES ASSUME UploadInv, [U!Next]_(U!vars) PROVE UploadInv'
  OBVIOUS
<1>1. CASE UNCHANGED U!vars
  BY <1>1 DEF U!vars, UploadInv, UploadTypes, WireHolds, CountedIn, SendingIn, Traced, Faults
<1> QED
  BY <1>1, IdlesKeeps, BeginsOrResends, CountsInKeeps, ResetsKeeps, TakesPoolKeeps, AnsweredKeeps
     DEF U!Next, U!Puts, U!Rests

(* The rate, the session and the trace of each call tell what is on the     *)
(* wire and what was.                                                       *)
THEOREM PutsTellTheWire == U!Spec => []PutsAreAccounted
<1>1. UploadInv => PutsAreAccounted
  <2> SUFFICES ASSUME UploadInv PROVE U!WireIsCounted /\ U!TraceTellsAttempts
    BY DEF PutsAreAccounted, U!PutsAreAccounted
  <2>1. U!At("reset") \cup U!At("pool") \cup U!At("wire") = CountedIn
          /\ U!At("pool") \cup U!At("wire") = SendingIn
    BY DEF U!At, CountedIn, SendingIn, Counted, Sending
  <2>2. U!WireIsCounted
    BY <2>1, UploadCounts DEF UploadInv, WireHolds, U!WireIsCounted, U!At
  <2>3. U!TraceTellsAttempts
    <3> SUFFICES ASSUME NEW t \in Putters, upc[t] \in {"sent", "rejected", "failed"}
                 PROVE  /\ Len(rows[t]) = uattempt[t]
                        /\ lost[t] = IF upc[t] = "sent" THEN uattempt[t] - 1 ELSE uattempt[t]
                        /\ \A n \in 1..(uattempt[t] - 1) : rows[t][n] = "fault"
                        /\ rows[t][uattempt[t]] =
                             CASE upc[t] = "sent" -> "ok" [] upc[t] = "rejected" -> "4xx" [] OTHER -> "fault"
                        /\ upc[t] = "failed" => uattempt[t] = Attempts
      BY DEF U!TraceTellsAttempts, U!Resting
    <3> QED
      BY DEF UploadInv, Traced, Faults
  <2> QED
    BY <2>2, <2>3
<1> QED
  BY <1>1, UploadStart, UploadStep, PTL DEF U!Spec

-----------------------------------------------------------------------------
(* The origin limiter and the fetch phase of a request. *)

LEMMA OriginCounts == \A S : O!Cardinality(S) = Cardinality(S)
BY DEF Cardinality, O!Cardinality

Grounds  == {"none", "late", "refused", "net", "origin", "ok"}
TileRows == [host : Hosts, of : Hosts, attempt : Nat, wake : Nat, out : Grounds, told : BOOLEAN]
HostRows == [limit : 1..PoolWidth, inflight : Nat, hold : Nat]
Fates    == {"new", "queued", "cancelled", "acquire", "sleep", "wire", "ends", "done"}

OriginTypes ==
  /\ opc \in [1..N -> Fates] /\ at \in [1..N -> TileRows]
  /\ host \in [Hosts -> HostRows] /\ clock \in Nat

WireOf(h) == {t \in 1..N : opc[t] = "wire" /\ at[t].host = h}
SlotsHold == \A h \in Hosts : host[h].inflight = Cardinality(WireOf(h))

(* The verdict comes before what it cancels; a tile is new until it is      *)
(* submitted; and a request that is scored has gathered every tile, done,   *)
(* so that none is left to bring a verdict.                                 *)
VerdictHolds ==
  /\ egress \in [hosts : SUBSET Hosts, error : BOOLEAN, by : 0..N]
  /\ egress.by # 0 => egress.error
  /\ \A t \in 1..N : opc[t] = "cancelled" => egress.error
  /\ req.step \in {"submit", "share", "gather", "scored", "egress"}
  /\ req.step \in {"submit", "share", "gather"} => req.tile \in 1..N
  /\ req.step = "submit" => \A t \in req.tile..N : opc[t] = "new"
  /\ req.step = "share" => \A t \in (req.tile + 1)..N : opc[t] = "new"
  /\ req.step = "gather" => \A t \in 1..(req.tile - 1) : opc[t] = "done"
  /\ req.step = "scored" => ~egress.error /\ \A t \in 1..N : opc[t] = "done"

LEMMA OriginConstants == N \in Nat \ {0} /\ PoolWidth \in Nat \ {0} /\ MaxHold \in Nat \ {0}
BY FetchesAssumption DEF O!OriginAssumption

LEMMA WireIsFinite == \A h : IsFiniteSet(WireOf(h)) /\ Cardinality(WireOf(h)) \in Nat
<1> TAKE h
<1>1. IsFiniteSet(1..N)
  BY OriginConstants, FS_Interval
<1>2. IsFiniteSet(WireOf(h))
  BY <1>1, FS_Subset DEF WireOf
<1> QED
  BY <1>2, FS_CardinalityType

(* What a tile does, as far as its slots go: it moves, with a new record of *)
(* its own.                                                                 *)
TileMoves(t, here, there) ==
  /\ opc[t] \in here
  /\ \E where \in there : opc' = [opc EXCEPT ![t] = where]
  /\ \E row \in TileRows : at' = [at EXCEPT ![t] = row]

LEMMA RowsOfTile ==
  ASSUME OriginTypes, NEW t \in 1..N
  PROVE  at[t] \in TileRows /\ opc[t] \in Fates /\ at[t].host \in Hosts /\ at[t].of \in Hosts
BY DEF OriginTypes, TileRows

LEMMA EndsAsMoves ==
  ASSUME OriginTypes, NEW t \in 1..N, NEW how \in Grounds, O!EndsAs(t, how)
  PROVE  /\ opc' = [opc EXCEPT ![t] = "ends"]
         /\ \E row \in TileRows : at' = [at EXCEPT ![t] = row]
<1>1. at' = [at EXCEPT ![t] = [at[t] EXCEPT !.out = how, !.attempt = 1]]
  BY DEF O!EndsAs
<1>2. [at[t] EXCEPT !.out = how, !.attempt = 1] \in TileRows
  BY RowsOfTile DEF TileRows
<1> QED
  BY <1>1, <1>2 DEF O!EndsAs, O!Goes

LEMMA ResolvesMoves ==
  ASSUME OriginTypes, NEW t \in 1..N, NEW h \in Hosts, NEW n \in Nat, O!Resolves(t, h, n)
  PROVE  /\ \E where \in {"acquire", "ends"} : opc' = [opc EXCEPT ![t] = where]
         /\ \E row \in TileRows : at' = [at EXCEPT ![t] = row]
<1>1. CASE at' = [at EXCEPT ![t].host = h, ![t].attempt = n] /\ O!Goes(t, "acquire")
  <2>1. at' = [at EXCEPT ![t] = [at[t] EXCEPT !.host = h, !.attempt = n]]
    BY <1>1
  <2>2. [at[t] EXCEPT !.host = h, !.attempt = n] \in TileRows
    BY RowsOfTile DEF TileRows
  <2> QED
    BY <1>1, <2>1, <2>2 DEF O!Goes
<1>2. ASSUME NEW out \in {"refused", "net"},
             at' = [at EXCEPT ![t].host = h, ![t].out = out, ![t].attempt = 1], O!Goes(t, "ends")
      PROVE  /\ \E where \in {"acquire", "ends"} : opc' = [opc EXCEPT ![t] = where]
             /\ \E row \in TileRows : at' = [at EXCEPT ![t] = row]
  <2>1. at' = [at EXCEPT ![t] = [at[t] EXCEPT !.host = h, !.out = out, !.attempt = 1]]
    BY <1>2
  <2>2. [at[t] EXCEPT !.host = h, !.out = out, !.attempt = 1] \in TileRows
    BY RowsOfTile DEF TileRows, Grounds
  <2> QED
    BY <1>2, <2>1, <2>2 DEF O!Goes
<1> QED
  BY <1>1, <1>2 DEF O!Resolves

(* What is not on the wire, before and after, holds no slot. *)
LEMMA TileMovesTyped ==
  ASSUME OriginTypes, NEW t \in 1..N, NEW here, NEW there \in SUBSET Fates, TileMoves(t, here, there)
  PROVE  /\ opc' \in [1..N -> Fates] /\ at' \in [1..N -> TileRows]
         /\ opc[t] \in here /\ opc'[t] \in there
         /\ \A u \in (1..N) \ {t} : opc'[u] = opc[u] /\ at'[u] = at[u]
<1>1. PICK where : where \in there /\ opc' = [opc EXCEPT ![t] = where]
  BY DEF TileMoves
<1>2. PICK row : row \in TileRows /\ at' = [at EXCEPT ![t] = row]
  BY DEF TileMoves
<1>3. opc \in [1..N -> Fates] /\ at \in [1..N -> TileRows] /\ where \in Fates
  BY <1>1 DEF OriginTypes
<1> QED
  BY <1>1, <1>2, <1>3 DEF TileMoves

LEMMA QuietKeepsSlots ==
  ASSUME OriginTypes, SlotsHold, UNCHANGED host,
         \A t \in 1..N : /\ (opc'[t] = "wire") = (opc[t] = "wire")
                         /\ opc[t] = "wire" => at'[t].host = at[t].host
  PROVE  SlotsHold'
<1>1. \A h \in Hosts : WireOf(h)' = WireOf(h)
  BY DEF WireOf
<1> QED
  BY <1>1 DEF SlotsHold

(* A slot is taken under the limit. *)
LEMMA AcquiresKeeps ==
  ASSUME OriginTypes, SlotsHold, NEW t \in 1..N, O!Acquires(t)
  PROVE  OriginTypes' /\ SlotsHold' /\ TileMoves(t, {"acquire"}, {"ends", "wire", "sleep"})
<1> DEFINE g == at[t].host
<1>1. g \in Hosts /\ at[t] \in TileRows /\ opc[t] = "acquire" /\ UNCHANGED clock
  BY RowsOfTile DEF O!Acquires
<1>2. CASE \/ O!EndsAs(t, "late") /\ UNCHANGED host
           \/ at' = [at EXCEPT ![t].wake = host[g].hold] /\ O!Goes(t, "sleep") /\ UNCHANGED host
  <2>1. TileMoves(t, {"acquire"}, {"ends", "sleep"})
    <3>1. CASE O!EndsAs(t, "late")
      BY <1>1, <3>1, EndsAsMoves DEF TileMoves, Grounds
    <3>2. CASE at' = [at EXCEPT ![t].wake = host[g].hold] /\ O!Goes(t, "sleep")
      <4>1. host[g].hold \in Nat
        BY <1>1 DEF OriginTypes, HostRows
      <4>2. [at[t] EXCEPT !.wake = host[g].hold] \in TileRows
        BY <1>1, <4>1 DEF TileRows
      <4> QED
        BY <1>1, <3>2, <4>2 DEF TileMoves, O!Goes
    <3> QED
      BY <1>2, <3>1, <3>2
  <2>2. /\ opc' \in [1..N -> Fates] /\ at' \in [1..N -> TileRows] /\ opc'[t] \in {"ends", "sleep"}
        /\ \A u \in (1..N) \ {t} : opc'[u] = opc[u] /\ at'[u] = at[u]
    BY <2>1, TileMovesTyped DEF Fates
  <2>3. SlotsHold'
    BY <1>1, <1>2, <2>2, QuietKeepsSlots
  <2> QED
    BY <1>1, <1>2, <2>1, <2>2, <2>3 DEF OriginTypes, TileMoves
<1>3. CASE host' = [host EXCEPT ![g].inflight = @ + 1] /\ O!Goes(t, "wire") /\ UNCHANGED at
  <2>1. /\ opc' = [opc EXCEPT ![t] = "wire"] /\ at' = [at EXCEPT ![t] = at[t]]
        /\ host' = [host EXCEPT ![g] = [host[g] EXCEPT !.inflight = @ + 1]]
    BY <1>3 DEF O!Goes, OriginTypes
  <2>2. /\ opc'[t] = "wire" /\ \A u \in (1..N) \ {t} : opc'[u] = opc[u]
        /\ host'[g].inflight = host[g].inflight + 1 /\ \A h \in Hosts \ {g} : host'[h] = host[h]
    BY <1>1, <2>1 DEF OriginTypes, HostRows
  <2>3. OriginTypes'
    <3>0. host[g] \in HostRows
      BY <1>1 DEF OriginTypes
    <3>1. [host[g] EXCEPT !.inflight = @ + 1] \in HostRows
      BY <3>0 DEF HostRows
    <3> QED
      BY <1>1, <1>3, <2>1, <3>1 DEF OriginTypes, Fates
  <2>4. SlotsHold'
    <3> SUFFICES ASSUME NEW h \in Hosts PROVE host'[h].inflight = Cardinality(WireOf(h)')
      BY DEF SlotsHold
    <3>1. CASE h = g
      <4>1. WireOf(h)' = WireOf(h) \cup {t} /\ t \notin WireOf(h)
        BY <1>1, <1>3, <2>2, <3>1 DEF WireOf
      <4>2. Cardinality(WireOf(h)') = Cardinality(WireOf(h)) + 1
        BY <4>1, WireIsFinite, FS_AddElement
      <4> QED
        BY <2>2, <3>1, <4>2 DEF SlotsHold
    <3>2. CASE h # g
      <4>1. WireOf(h)' = WireOf(h)
        BY <1>1, <1>3, <2>2, <3>2 DEF WireOf
      <4> QED
        BY <2>2, <3>2, <4>1 DEF SlotsHold
    <3> QED
      BY <3>1, <3>2
  <2> QED
    BY <1>1, <2>1, <2>3, <2>4 DEF TileMoves
<1> QED
  BY <1>2, <1>3 DEF O!Acquires

(* However a fetch went, its slot is given back, and the limit stays one.   *)
LEMMA LearnsIsTyped ==
  ASSUME NEW s \in HostRows, NEW outcome, NEW hold \in Nat, clock \in Nat, s.inflight > 0
  PROVE  O!Learns(s, outcome, hold) \in HostRows /\ O!Learns(s, outcome, hold).inflight = s.inflight - 1
<1> DEFINE limit == IF outcome = "ok" THEN O!Smaller(PoolWidth, s.limit + 1)
                    ELSE IF outcome = "neutral" THEN s.limit ELSE O!Larger(1, s.limit \div 2)
           until == IF outcome = "throttle" THEN O!Larger(s.hold, clock + hold) ELSE s.hold
<1>1. s.limit \in 1..PoolWidth /\ s.inflight \in Nat /\ s.hold \in Nat /\ PoolWidth \in Nat
  BY OriginConstants DEF HostRows
<1>2. limit \in 1..PoolWidth
  <2>1. s.limit \div 2 \in Int /\ s.limit \div 2 <= s.limit
    BY <1>1
  <2> QED
    BY <1>1, <2>1 DEF O!Smaller, O!Larger
<1>3. until \in Nat /\ s.inflight - 1 \in Nat
  BY <1>1 DEF O!Larger
<1>4. O!Learns(s, outcome, hold) = [limit |-> limit, inflight |-> s.inflight - 1, hold |-> until]
  <2>1. s = [limit |-> s.limit, inflight |-> s.inflight, hold |-> s.hold]
    BY DEF HostRows
  <2>2. O!Learns(s, outcome, hold) = [s EXCEPT !.inflight = s.inflight - 1, !.limit = limit, !.hold = until]
    BY DEF O!Learns
  <2> HIDE DEF limit, until
  <2> QED
    BY <2>1, <2>2
<1> HIDE DEF limit, until
<1> QED
  BY <1>2, <1>3, <1>4 DEF HostRows

LEMMA AnswersMoves ==
  ASSUME OriginTypes, NEW t \in 1..N, O!Answers(t)
  PROVE  TileMoves(t, {"wire"}, {"acquire", "ends"})
<1>1. opc[t] = "wire" /\ at[t].attempt \in Nat /\ at[t].of \in Hosts
  BY RowsOfTile DEF O!Answers, TileRows
<1>2. CASE \E h \in Hosts : O!Resolves(t, h, at[t].attempt)
  BY <1>1, <1>2, ResolvesMoves DEF TileMoves
<1>3. CASE \E out \in {"net", "origin", "late", "ok", "refused"} : O!EndsAs(t, out)
  BY <1>1, <1>3, EndsAsMoves DEF TileMoves, Grounds
<1>4. CASE O!Resolves(t, at[t].of, at[t].attempt + 1)
  <2>1. at[t].attempt + 1 \in Nat
    BY <1>1
  <2> QED
    BY <1>1, <1>4, <2>1, ResolvesMoves DEF TileMoves
<1> QED
  BY <1>2, <1>3, <1>4 DEF O!Answers, O!Redirects, O!Retries

LEMMA AnswersKeeps ==
  ASSUME OriginTypes, SlotsHold, NEW t \in 1..N, O!Answers(t)
  PROVE  OriginTypes' /\ SlotsHold'
<1> DEFINE g == at[t].host
<1>1. g \in Hosts /\ opc[t] = "wire" /\ UNCHANGED clock
  BY RowsOfTile DEF O!Answers
<1>2. \E outcome \in {"ok", "conn_error", "throttle", "neutral", "block"},
        hold \in Nat : O!Releases(t, outcome, hold)
  BY OriginConstants DEF O!Answers, O!Redirects
<1>3. PICK outcome, hold : hold \in Nat /\ O!Releases(t, outcome, hold)
  BY <1>2
<1>4. PICK row : row = O!Learns(host[g], outcome, hold)
  OBVIOUS
<1>5. host' = [host EXCEPT ![g] = row] /\ host[g] \in HostRows
  BY <1>1, <1>3, <1>4 DEF O!Releases, OriginTypes
<1>6. /\ opc' \in [1..N -> Fates] /\ at' \in [1..N -> TileRows] /\ opc'[t] \in {"acquire", "ends"}
      /\ \A u \in (1..N) \ {t} : opc'[u] = opc[u] /\ at'[u] = at[u]
  BY AnswersMoves, TileMovesTyped DEF Fates
<1>7. t \in WireOf(g) /\ host[g].inflight = Cardinality(WireOf(g)) /\ host[g].inflight \in Nat
  BY <1>1 DEF WireOf, SlotsHold, OriginTypes, HostRows
<1>8. Cardinality(WireOf(g)) # 0
  BY <1>7, WireIsFinite, FS_EmptySet
<1>9. row \in HostRows /\ row.inflight = host[g].inflight - 1
  <2>1. clock \in Nat /\ host[g].inflight > 0
    BY <1>7, <1>8 DEF OriginTypes
  <2> QED
    BY <1>3, <1>4, <1>5, <2>1, LearnsIsTyped
<1>10. host' \in [Hosts -> HostRows] /\ host'[g] = row /\ \A h \in Hosts \ {g} : host'[h] = host[h]
  BY <1>1, <1>5, <1>9 DEF OriginTypes
<1>11. OriginTypes'
  BY <1>1, <1>6, <1>10 DEF OriginTypes
<1>12. SlotsHold'
  <2> SUFFICES ASSUME NEW h \in Hosts PROVE host'[h].inflight = Cardinality(WireOf(h)')
    BY DEF SlotsHold
  <2>1. CASE h = g
    <3>1. WireOf(h)' = WireOf(h) \ {t}
      BY <1>6, <2>1 DEF WireOf
    <3>2. Cardinality(WireOf(h)') = Cardinality(WireOf(h)) - 1
      BY <1>7, <2>1, <3>1, WireIsFinite, FS_RemoveElement
    <3> QED
      BY <1>7, <1>9, <1>10, <2>1, <3>2
  <2>2. CASE h # g
    <3>1. WireOf(h)' = WireOf(h)
      BY <1>6, <2>2 DEF WireOf
    <3> QED
      BY <1>10, <2>2, <3>1 DEF SlotsHold
  <2> QED
    BY <2>1, <2>2
<1> QED
  BY <1>11, <1>12


LEMMA StartsMoves ==
  ASSUME OriginTypes, NEW t \in 1..N, O!Starts(t)
  PROVE  TileMoves(t, {"queued"}, {"acquire", "ends", "done"})
<1>1. opc[t] = "queued" /\ at[t] \in TileRows /\ at[t].host \in Hosts
  BY RowsOfTile DEF O!Starts
<1>2. CASE at' = [at EXCEPT ![t].out = "late"] /\ O!Goes(t, "done")
  <2>1. [at[t] EXCEPT !.out = "late"] \in TileRows
    BY <1>1 DEF TileRows, Grounds
  <2> QED
    BY <1>1, <1>2, <2>1 DEF TileMoves, O!Goes
<1>3. CASE O!Resolves(t, at[t].host, 1)
  BY <1>1, <1>3, ResolvesMoves DEF TileMoves
<1> QED
  BY <1>2, <1>3 DEF O!Starts

LEMMA WakesMoves ==
  ASSUME OriginTypes, NEW t \in 1..N, O!Wakes(t)
  PROVE  TileMoves(t, {"sleep"}, {"acquire"})
<1>1. [at[t] EXCEPT !.wake = 0] \in TileRows
  BY RowsOfTile DEF TileRows
<1> QED
  BY <1>1 DEF O!Wakes, O!Goes, TileMoves

(* A tile that is not on the wire before or after moves no slot. *)
LEMMA IdleMovesKeep ==
  ASSUME OriginTypes, SlotsHold, UNCHANGED <<host, clock>>, NEW t \in 1..N,
         NEW here, "wire" \notin here, NEW there \in SUBSET Fates, "wire" \notin there,
         TileMoves(t, here, there)
  PROVE  OriginTypes' /\ SlotsHold'
<1>1. /\ opc' \in [1..N -> Fates] /\ at' \in [1..N -> TileRows]
      /\ opc[t] # "wire" /\ opc'[t] # "wire"
      /\ \A u \in (1..N) \ {t} : opc'[u] = opc[u] /\ at'[u] = at[u]
  BY TileMovesTyped
<1>2. SlotsHold'
  BY <1>1, QuietKeepsSlots
<1> QED
  BY <1>1, <1>2 DEF OriginTypes

(* What a fetch does keeps the verdict before what it cancels. *)
LEMMA VerdictStays ==
  ASSUME VerdictHolds, UNCHANGED req,
         egress' \in [hosts : SUBSET Hosts, error : BOOLEAN, by : 0..N],
         egress.error => egress'.error, egress'.by # 0 => egress'.error,
         req.step = "scored" => egress'.error = egress.error,
         \A t \in 1..N : /\ opc'[t] = "cancelled" => opc[t] = "cancelled" \/ egress'.error
                         /\ opc[t] \in {"new", "done"} => opc'[t] = opc[t]
  PROVE  VerdictHolds'
<1>1. /\ req'.step = req.step /\ req'.tile = req.tile
      /\ req.tile \in Int \/ req.step \notin {"submit", "share", "gather"}
  BY OriginConstants DEF VerdictHolds
<1>2. \A t \in 1..N : opc'[t] = "cancelled" => egress'.error
  BY DEF VerdictHolds
<1>3. req.step = "submit" => \A t \in req.tile..N : opc'[t] = "new"
  BY <1>1, OriginConstants DEF VerdictHolds
<1>4. req.step = "share" => \A t \in (req.tile + 1)..N : opc'[t] = "new"
  BY <1>1, OriginConstants DEF VerdictHolds
<1>5. req.step = "gather" => \A t \in 1..(req.tile - 1) : opc'[t] = "done"
  BY <1>1, OriginConstants DEF VerdictHolds
<1>6. req.step = "scored" => ~egress'.error /\ \A t \in 1..N : opc'[t] = "done"
  BY DEF VerdictHolds
<1> QED
  BY <1>1, <1>2, <1>3, <1>4, <1>5, <1>6 DEF VerdictHolds

LEMMA MovesKeepVerdict ==
  ASSUME OriginTypes, VerdictHolds, UNCHANGED req, NEW t \in 1..N,
         NEW here, here \cap {"new", "done"} = {},
         NEW there \in SUBSET Fates, "cancelled" \notin there, TileMoves(t, here, there),
         UNCHANGED egress \/ \E S \in SUBSET Hosts : egress' = [egress EXCEPT !.hosts = S]
  PROVE  VerdictHolds'
<1>1. /\ opc[t] \notin {"new", "done"} /\ opc'[t] # "cancelled"
      /\ \A u \in (1..N) \ {t} : opc'[u] = opc[u]
  BY TileMovesTyped
<1>2. /\ egress' \in [hosts : SUBSET Hosts, error : BOOLEAN, by : 0..N]
      /\ egress'.error = egress.error /\ egress'.by = egress.by
  BY DEF VerdictHolds
<1>3. egress'.by # 0 => egress'.error
  BY <1>2 DEF VerdictHolds
<1>4. \A u \in 1..N : /\ opc'[u] = "cancelled" => opc[u] = "cancelled" \/ egress'.error
                      /\ opc[u] \in {"new", "done"} => opc'[u] = opc[u]
  BY <1>1
<1> QED
  BY <1>2, <1>3, <1>4, VerdictStays

(* The verdict: the error first, then what it cancels. *)
LEMMA TellsKeeps ==
  ASSUME OriginTypes, SlotsHold, VerdictHolds, NEW t \in 1..N, O!Tells(t)
  PROVE  OriginTypes' /\ SlotsHold' /\ VerdictHolds'
<1>1. opc[t] = "ends" /\ UNCHANGED <<at, host, clock, req>> /\ req.step # "scored"
  BY DEF O!Tells, VerdictHolds
<1>2. egress \in [hosts : SUBSET Hosts, error : BOOLEAN, by : 0..N]
  BY DEF VerdictHolds
<1>3. CASE O!Goes(t, "done") /\ UNCHANGED egress
  <2>1. TileMoves(t, {"ends"}, {"done"})
    <3>1. at[t] \in TileRows /\ at' = [at EXCEPT ![t] = at[t]]
      BY <1>1, RowsOfTile DEF OriginTypes
    <3> QED
      BY <1>1, <1>3, <3>1 DEF TileMoves, O!Goes
  <2> QED
    BY <1>1, <1>3, <2>1, IdleMovesKeep, MovesKeepVerdict DEF Fates
<1>4. CASE egress' = [egress EXCEPT !.error = TRUE, !.by = t] /\ UNCHANGED opc
  <2>1. OriginTypes' /\ SlotsHold'
    BY <1>1, <1>4 DEF OriginTypes, SlotsHold, WireOf
  <2>2. egress' \in [hosts : SUBSET Hosts, error : BOOLEAN, by : 0..N] /\ egress'.error
    <3>1. t \in 0..N
      BY OriginConstants
    <3> QED
      BY <1>2, <1>4, <3>1
  <2>3. VerdictHolds'
    BY <1>1, <1>4, <2>2, VerdictStays
  <2> QED
    BY <2>1, <2>3
<1>5. CASE egress.by = t /\ opc' = O!Cancelled(t) /\ egress' = [egress EXCEPT !.by = O!None]
  <2>1. /\ opc' \in [1..N -> Fates]
        /\ \A u \in 1..N : opc'[u] = IF u = t THEN "done"
                                     ELSE IF u \in shared /\ opc[u] = "queued" THEN "cancelled" ELSE opc[u]
    BY <1>5 DEF O!Cancelled, O!Tiles, OriginTypes, Fates
  <2>2. OriginTypes' /\ SlotsHold'
    <3>1. \A u \in 1..N : (opc'[u] = "wire") = (opc[u] = "wire") /\ at'[u] = at[u]
      BY <1>1, <2>1
    <3> QED
      BY <1>1, <2>1, <3>1, QuietKeepsSlots DEF OriginTypes
  <2>3. t # 0 /\ egress.error
    BY <1>5 DEF VerdictHolds
  <2>4. egress' \in [hosts : SUBSET Hosts, error : BOOLEAN, by : 0..N] /\ egress'.error /\ egress'.by = 0
    BY <1>2, <1>5, <2>3, OriginConstants DEF O!None
  <2>5. VerdictHolds'
    BY <1>1, <2>1, <2>3, <2>4, VerdictStays
  <2> QED
    BY <2>2, <2>5
<1> QED
  BY <1>3, <1>4, <1>5 DEF O!Tells

OriginInv == OriginTypes /\ SlotsHold /\ VerdictHolds

LEMMA FetchesKeep ==
  ASSUME OriginInv, NEW t \in 1..N, O!Fetches(t)
  PROVE  OriginInv'
<1> USE DEF OriginInv
<1>1. CASE O!Starts(t)
  <2>1. UNCHANGED egress \/ \E S \in SUBSET Hosts : egress' = [egress EXCEPT !.hosts = S]
    <3>1. egress.hosts \cup {at[t].host} \in SUBSET Hosts
      BY RowsOfTile DEF VerdictHolds
    <3>2. UNCHANGED egress \/ egress' = [egress EXCEPT !.hosts = egress.hosts \cup {at[t].host}]
      BY <1>1 DEF O!Starts
    <3> QED
      BY <3>1, <3>2
  <2>2. UNCHANGED <<host, clock, req>>
    BY <1>1 DEF O!Starts
  <2> QED
    BY <1>1, <2>1, <2>2, StartsMoves, IdleMovesKeep, MovesKeepVerdict DEF Fates
<1>2. CASE O!Acquires(t)
  <2>1. UNCHANGED <<egress, req>>
    BY <1>2 DEF O!Acquires
  <2>2. OriginTypes' /\ SlotsHold' /\ TileMoves(t, {"acquire"}, {"ends", "wire", "sleep"})
    BY <1>2, AcquiresKeeps
  <2> QED
    BY <2>1, <2>2, MovesKeepVerdict DEF Fates
<1>3. CASE O!Wakes(t)
  <2>1. UNCHANGED <<host, clock, egress, req>>
    BY <1>3 DEF O!Wakes
  <2> QED
    BY <1>3, <2>1, WakesMoves, IdleMovesKeep, MovesKeepVerdict DEF Fates
<1>4. CASE O!Answers(t)
  <2>1. UNCHANGED <<egress, req>>
    BY <1>4 DEF O!Answers
  <2>2. OriginTypes' /\ SlotsHold' /\ TileMoves(t, {"wire"}, {"acquire", "ends"})
    BY <1>4, AnswersKeeps, AnswersMoves
  <2> QED
    BY <2>1, <2>2, MovesKeepVerdict DEF Fates
<1>5. CASE O!Records(t)
  <2>1. UNCHANGED <<opc, host, clock, egress, req>> /\ opc[t] = "ends"
    BY <1>5 DEF O!Records
  <2>2. at' = [at EXCEPT ![t] = [at[t] EXCEPT !.told = TRUE]]
    BY <1>5 DEF O!Records
  <2>3. [at[t] EXCEPT !.told = TRUE] \in TileRows
    BY RowsOfTile DEF TileRows
  <2>4. opc' = [opc EXCEPT ![t] = "ends"]
    BY <2>1 DEF OriginTypes
  <2>5. TileMoves(t, {"ends"}, {"ends"})
    BY <2>1, <2>2, <2>3, <2>4 DEF TileMoves
  <2> QED
    BY <2>1, <2>5, IdleMovesKeep, MovesKeepVerdict DEF Fates
<1>6. CASE O!Tells(t)
  BY <1>6, TellsKeeps
<1> QED
  BY <1>1, <1>2, <1>3, <1>4, <1>5, <1>6 DEF O!Fetches

(* The request's own steps: a tile leaves "new" when it is submitted, and   *)
(* the request is scored when the last tile it gathers is done.             *)
LEMMA AsksKeep ==
  ASSUME OriginInv, O!Asks
  PROVE  OriginInv'
<1> USE DEF OriginInv, O!Step
<1>1. UNCHANGED <<at, host, clock, egress>>
  BY DEF O!Asks, O!Submits, O!Shares, O!Gathers
<1>2. CASE O!Submits
  <2>1. req.step = "submit" /\ req.tile \in 1..N /\ opc[req.tile] = "new"
    BY <1>2, OriginConstants DEF O!Submits, VerdictHolds
  <2>2. CASE egress.error /\ req' = [step |-> "egress", tile |-> 0] /\ UNCHANGED opc
    <3>1. OriginTypes' /\ SlotsHold'
      BY <1>1, <2>2 DEF OriginTypes, SlotsHold, WireOf
    <3>2. VerdictHolds'
      BY <1>1, <2>2 DEF VerdictHolds
    <3> QED
      BY <3>1, <3>2
  <2>3. CASE /\ opc' = [opc EXCEPT ![req.tile] = "queued"]
             /\ req' = [step |-> "share", tile |-> req.tile]
    <3>1. /\ opc' \in [1..N -> Fates] /\ opc'[req.tile] = "queued"
          /\ \A u \in (1..N) \ {req.tile} : opc'[u] = opc[u]
      BY <2>1, <2>3 DEF OriginTypes, Fates
    <3>2. \A u \in 1..N : (opc'[u] = "wire") = (opc[u] = "wire") /\ at'[u] = at[u]
      BY <1>1, <2>1, <3>1
    <3>3. OriginTypes' /\ SlotsHold'
      BY <1>1, <3>1, <3>2, QuietKeepsSlots DEF OriginTypes
    <3>4. \A u \in 1..N : opc'[u] = "cancelled" => egress.error
      BY <3>1 DEF VerdictHolds
    <3>5. \A u \in (req.tile + 1)..N : opc'[u] = "new"
      BY <2>1, <3>1, OriginConstants DEF VerdictHolds
    <3>6. VerdictHolds'
      BY <1>1, <2>1, <2>3, <3>4, <3>5 DEF VerdictHolds
    <3> QED
      BY <3>3, <3>6
  <2> QED
    BY <1>2, <2>2, <2>3 DEF O!Submits, O!Goes
<1>3. CASE O!Shares
  <2>1. req.step = "share" /\ req.tile \in 1..N /\ UNCHANGED opc
    BY <1>3 DEF O!Shares, VerdictHolds
  <2>2. OriginTypes' /\ SlotsHold'
    BY <1>1, <2>1 DEF OriginTypes, SlotsHold, WireOf
  <2>3. CASE req.tile < N /\ req' = [step |-> "submit", tile |-> req.tile + 1]
    BY <1>1, <2>1, <2>2, <2>3, OriginConstants DEF VerdictHolds
  <2>4. CASE req' = [step |-> "gather", tile |-> 1]
    BY <1>1, <2>1, <2>2, <2>4, OriginConstants DEF VerdictHolds
  <2> QED
    BY <1>3, <2>3, <2>4 DEF O!Shares
<1>4. CASE O!Gathers
  <2>1. req.step = "gather" /\ req.tile \in 1..N /\ UNCHANGED opc
    BY <1>4 DEF O!Gathers, VerdictHolds
  <2>2. OriginTypes' /\ SlotsHold'
    BY <1>1, <2>1 DEF OriginTypes, SlotsHold, WireOf
  <2>3. CASE req' = [step |-> "egress", tile |-> 0]
    BY <1>1, <2>1, <2>2, <2>3 DEF VerdictHolds
  <2>4. CASE opc[req.tile] = "cancelled" /\ ~egress.error
    BY <2>1, <2>4 DEF VerdictHolds
  <2>5. CASE /\ opc[req.tile] = "done" /\ ~egress.error /\ req.tile < N
             /\ req' = [step |-> "gather", tile |-> req.tile + 1]
    <3>1. \A u \in 1..((req.tile + 1) - 1) : opc[u] = "done"
      BY <2>1, <2>5, OriginConstants DEF VerdictHolds
    <3> QED
      BY <1>1, <2>1, <2>2, <2>5, <3>1, OriginConstants DEF VerdictHolds
  <2>6. CASE /\ opc[req.tile] = "done" /\ ~egress.error /\ ~(req.tile < N)
             /\ req' = [step |-> "scored", tile |-> 0]
    <3>1. \A u \in 1..N : opc[u] = "done"
      BY <2>1, <2>6, OriginConstants DEF VerdictHolds
    <3> QED
      BY <1>1, <2>1, <2>2, <2>6, <3>1 DEF VerdictHolds
  <2> QED
    BY <1>4, <2>3, <2>4, <2>5, <2>6 DEF O!Gathers
<1> QED
  BY <1>2, <1>3, <1>4 DEF O!Asks

LEMMA OriginBegins == O!Init => OriginInv
<1> SUFFICES ASSUME O!Init PROVE OriginInv
  OBVIOUS
<1>1. PICK of \in Urls, record \in [Hosts -> Windows] : O!Begins(of, record)
  BY DEF O!Init
<1>2. of \in [1..N -> Hosts]
  BY FetchesAssumption DEF O!OriginAssumption, O!Tiles
<1>3. OriginTypes
  <2>1. opc \in [1..N -> Fates] /\ clock \in Nat
    BY <1>1 DEF O!Begins, O!Tiles, Fates
  <2>2. at \in [1..N -> TileRows]
    BY <1>1, <1>2 DEF O!Begins, O!Tiles, TileRows, Grounds
  <2>3. host \in [Hosts -> HostRows]
    BY <1>1, OriginConstants DEF O!Begins, HostRows
  <2> QED
    BY <2>1, <2>2, <2>3 DEF OriginTypes
<1>4. SlotsHold
  <2>1. \A h \in Hosts : WireOf(h) = {} /\ host[h].inflight = 0
    BY <1>1 DEF O!Begins, O!Tiles, WireOf
  <2> QED
    BY <2>1, FS_EmptySet DEF SlotsHold
<1>5. VerdictHolds
  BY <1>1, OriginConstants DEF O!Begins, O!Tiles, O!None, VerdictHolds
<1> QED
  BY <1>3, <1>4, <1>5 DEF OriginInv

LEMMA OriginStep == OriginInv /\ [O!Next]_(O!vars) => OriginInv'
<1> SUFFICES ASSUME OriginInv, [O!Next]_(O!vars) PROVE OriginInv'
  OBVIOUS
<1>1. CASE O!Asks
  BY <1>1, AsksKeep
<1>2. ASSUME NEW t \in 1..N, O!Fetches(t) PROVE OriginInv'
  BY <1>2, FetchesKeep
<1>3. CASE O!Tick
  <2>1. clock' \in Nat
    BY <1>3 DEF O!Tick, OriginInv, OriginTypes
  <2> QED
    BY <1>3, <2>1 DEF O!Tick, OriginInv, OriginTypes, SlotsHold, WireOf, VerdictHolds
<1>4. CASE UNCHANGED O!vars
  BY <1>4 DEF O!vars, OriginInv, OriginTypes, SlotsHold, WireOf, VerdictHolds
<1> QED
  BY <1>1, <1>2, <1>3, <1>4 DEF O!Next, O!Rests, O!Tiles

LEMMA OriginAlways == O!Spec => []OriginInv
<1> QED
  BY OriginBegins, OriginStep, PTL DEF O!Spec

(* A host's slots are the fetches on its wire, whichever way each of them   *)
(* ended and wherever its redirects led (originrule._Host.release), and its *)
(* limit stays between one and the width of the pool.                       *)
THEOREM SlotsAreGivenBack == O!Spec => []SlotsAreExact
<1>1. OriginInv => SlotsAreExact
  <2> SUFFICES ASSUME OriginInv, NEW h \in Hosts
               PROVE  /\ host[h].inflight = O!Cardinality({t \in O!Tiles : opc[t] = "wire" /\ at[t].host = h})
                      /\ host[h].limit \in 1..PoolWidth
    BY DEF SlotsAreExact, O!SlotsAreExact
  <2>1. host[h].limit \in 1..PoolWidth
    BY DEF OriginInv, OriginTypes, HostRows
  <2>2. WireOf(h) = {t \in O!Tiles : opc[t] = "wire" /\ at[t].host = h}
    BY DEF WireOf, O!Tiles
  <2> QED
    BY <2>1, <2>2, OriginCounts DEF OriginInv, SlotsHold
<1> QED
  BY <1>1, OriginAlways, PTL

(* A request on a dead network fails by that name: the verdict is there     *)
(* before any tile it cancelled can be gathered, and no request is scored   *)
(* beside it (infer_cliprank._RequestEgress).                               *)
THEOREM VerdictIsHeard == O!Spec => []VerdictReachesRequest
<1>1. OriginInv => VerdictReachesRequest
  BY DEF OriginInv, VerdictHolds, VerdictReachesRequest, O!VerdictReachesRequest
<1> QED
  BY <1>1, OriginAlways, PTL


-----------------------------------------------------------------------------
(* A download to a path that one thread at a time fills. *)

States      == {"idle", "probe", "ranged", "drain", "get", "done", "failed"}
Versions    == 1..origin.version
OriginRows  == [tagged : BOOLEAN, framed : BOOLEAN, honors : BOOLEAN, size : Seq(Nat \ {0}), version : Nat]
WorkerRows  == [st : {"none", "run", "head", "open", "done", "failed"}, of : Nat, fd : 0..MaxCalls,
                by : Threads \cup {0}]
PinRows     == [total : Nat, etag : Nat]

DownTypes ==
  /\ origin \in OriginRows /\ origin.version \in 1..Len(origin.size)
  /\ dpc \in [Threads -> States] /\ call \in [Threads -> 0..MaxCalls]
  /\ dattempt \in [Threads -> Nat] /\ pin \in [Threads -> PinRows]
  /\ file \in Seq(Nat) /\ dest \in 0..MaxCalls /\ used \in 0..MaxCalls
  /\ path \in [Threads -> 0..MaxCalls] /\ temp \in [1..MaxCalls -> Seq(Nat)]
  /\ worker \in [(1..MaxCalls) \X (1..Width) -> WorkerRows] /\ abort \subseteq 1..used

(* A worker that still runs is the thread's, and was told to stop or works  *)
(* for the call that is under way.                                          *)
WorkersServe(t) ==
  \A c \in 1..MaxCalls, p \in 1..Width :
    worker[<<c, p>>].st \in D!Writing =>
      worker[<<c, p>>].by = t /\ (c \in abort \/ (dpc[t] = "ranged" /\ c = call[t]))

(* Until a call lands there is no dest. A ranged one has its temporary file *)
(* at its name, and what its workers are done with is of the pinned version.*)
CallHolds(t) ==
  /\ dpc[t] \in {"probe", "ranged"} =>
       call[t] \in 1..used /\ call[t] \notin abort /\ dest = 0 /\ file = << >>
  /\ dpc[t] = "ranged" =>
       /\ origin.tagged /\ pin[t].etag \in Versions /\ pin[t].total = origin.size[pin[t].etag]
       /\ path[t] = call[t] /\ DOMAIN temp[call[t]] = 1..pin[t].total
       /\ \A p \in 1..Width :
            /\ worker[<<call[t], p>>].st \in D!Writing =>
                 worker[<<call[t], p>>].of = pin[t].etag /\ D!Span(p, pin[t].total) # {}
            /\ worker[<<call[t], p>>].st = "open" => worker[<<call[t], p>>].fd = call[t]
            /\ worker[<<call[t], p>>].st = "done" =>
                 \A i \in D!Span(p, pin[t].total) : temp[call[t]][i] = pin[t].etag

(* What a stream has of the object is of the version it pinned. *)
StreamHolds(t) ==
  /\ ~origin.tagged => pin[t].etag = 0
  /\ dpc[t] = "get" /\ dattempt[t] = 0 => file = << >>
  /\ dpc[t] = "get" /\ file # << >> =>
       /\ origin.framed => \E v \in Versions : pin[t].total = origin.size[v]
       /\ origin.tagged => /\ pin[t].etag \in Versions
                           /\ file = [i \in 1..Len(file) |-> pin[t].etag]

Landed ==
  origin.framed => \E v \in Versions : /\ Len(file) = origin.size[v]
                                       /\ origin.tagged => file = [i \in 1..origin.size[v] |-> v]

DownInv(t) == DownTypes /\ WorkersServe(t) /\ CallHolds(t) /\ StreamHolds(t) /\ (dpc[t] = "done" => Landed)

LEMMA DownConstants ==
  /\ Width \in Nat \ {0} /\ MaxCalls \in Nat \ {0} /\ Attempts \in Nat \ {0}
  /\ Sizes \subseteq Seq(Nat \ {0}) \ {<< >>}
  /\ Origins \subseteq [tagged : BOOLEAN, framed : BOOLEAN, honors : BOOLEAN]
BY DownloadsAssumption DEF D!DownloadAssumption

LEMMA TimesGrows == \A k, a, b \in Nat : a <= b => k * a <= k * b
OBVIOUS

LEMMA QuotientBounds == \A a \in Nat, b \in Nat \ {0} : /\ a \div b \in Nat
                                                        /\ b * (a \div b) <= a
                                                        /\ a < b * (a \div b) + b
OBVIOUS

(* The ranges of an object leave none of its blocks out. *)
LEMMA RangesCover ==
  ASSUME NEW n \in Nat \ {0}, NEW i \in 1..n
  PROVE  \E p \in 1..Width : i \in D!Span(p, n)
<1>1. PICK k : k = D!Part(n)
  OBVIOUS
<1>2. k \in Nat /\ n + Width - 1 < Width * k + Width /\ Width \in Nat \ {0}
  <2>1. n + Width - 1 \in Nat /\ Width \in Nat \ {0}
    BY DownConstants
  <2> QED
    BY <1>1, <2>1, QuotientBounds DEF D!Part
<1>3. Width * k \in Nat /\ n <= Width * k /\ k # 0
  BY <1>2
<1>4. PICK q : q = (i - 1) \div k
  OBVIOUS
<1>5. q \in Nat /\ k * q <= i - 1 /\ i - 1 < k * q + k
  <2>1. i - 1 \in Nat /\ k \in Nat \ {0}
    BY <1>2, <1>3
  <2> QED
    BY <1>4, <2>1, QuotientBounds
<1>6. q < Width
  <2> SUFFICES ASSUME Width <= q PROVE FALSE
    BY <1>2, <1>5
  <2>1. k * Width <= k * q /\ k * Width \in Nat /\ k * q \in Nat
    BY <1>2, <1>5, TimesGrows
  <2>2. Width * k = k * Width
    BY <1>2
  <2> QED
    BY <1>3, <1>5, <2>1, <2>2
<1>7. q + 1 \in 1..Width /\ i \in 1..n
  BY <1>2, <1>5, <1>6
<1>8. ((q + 1) - 1) * k < i /\ i <= (q + 1) * k
  <2>1. ((q + 1) - 1) * k = k * q /\ (q + 1) * k = k * q + k /\ k * q \in Nat
    BY <1>2, <1>5
  <2> QED
    BY <1>2, <1>5, <2>1
<1> QED
  BY <1>1, <1>7, <1>8 DEF D!Span

LEMMA PrefixesAre ==
  ASSUME NEW v \in Nat, NEW n \in Nat, NEW got \in {[i \in 1..m |-> v] : m \in 0..n}
  PROVE  got \in Seq(Nat) /\ Len(got) \in 0..n /\ got = [i \in 1..Len(got) |-> v]
<1>1. PICK m \in 0..n : got = [i \in 1..m |-> v]
  OBVIOUS
<1>2. got \in Seq(Nat) /\ Len(got) = m
  BY <1>1
<1> QED
  BY <1>1, <1>2

LEMMA ResumedAre ==
  ASSUME NEW v \in Nat, NEW s \in Seq(Nat), NEW more \in Seq(Nat),
         s = [i \in 1..Len(s) |-> v], more = [i \in 1..Len(more) |-> v]
  PROVE  /\ s \o more \in Seq(Nat) /\ Len(s \o more) = Len(s) + Len(more)
         /\ s \o more = [i \in 1..Len(s \o more) |-> v]
<1>1. s \o more \in Seq(Nat) /\ Len(s \o more) = Len(s) + Len(more)
  OBVIOUS
<1>2. \A i \in 1..Len(s \o more) : (s \o more)[i] = v
  <2> SUFFICES ASSUME NEW i \in 1..(Len(s) + Len(more)) PROVE (s \o more)[i] = v
    BY <1>1
  <2>1. (s \o more)[i] = IF i <= Len(s) THEN s[i] ELSE more[i - Len(s)]
    OBVIOUS
  <2>2. CASE i <= Len(s)
    BY <2>1, <2>2
  <2>3. CASE ~(i <= Len(s))
    <3>1. i - Len(s) \in 1..Len(more)
      BY <2>3
    <3> QED
      BY <2>1, <2>3, <3>1
  <2> QED
    BY <2>2, <2>3
<1>3. PICK whole : whole = s \o more
  OBVIOUS
<1>4. whole = [i \in 1..Len(whole) |-> v]
  <2>1. whole \in Seq(Nat) /\ \A i \in 1..Len(whole) : whole[i] = v
    BY <1>1, <1>2, <1>3
  <2> QED
    BY <2>1
<1> QED
  BY <1>1, <1>3, <1>4


LEMMA DownBegins ==
  ASSUME NEW t, Threads = {t}, D!Init
  PROVE  DownInv(t)
<1>1. PICK o \in Origins, s \in Sizes : D!Starts(o, s)
  BY DEF D!Init
<1>2. o \in [tagged : BOOLEAN, framed : BOOLEAN, honors : BOOLEAN] /\ s \in Seq(Nat \ {0}) /\ s # << >>
  BY DownConstants
<1>3. origin \in OriginRows /\ origin.version \in 1..Len(origin.size)
  <2>1. origin = [tagged |-> o.tagged, framed |-> o.framed, honors |-> o.honors, size |-> s, version |-> 1]
    BY <1>1 DEF D!Starts
  <2>2. Len(s) \in Nat /\ 1 <= Len(s)
    BY <1>2
  <2> QED
    BY <1>2, <2>1, <2>2 DEF OriginRows
<1>4. /\ dpc = [u \in Threads |-> "idle"] /\ call = [u \in Threads |-> 0] /\ dattempt = [u \in Threads |-> 0]
      /\ pin = [u \in Threads |-> [total |-> 0, etag |-> 0]] /\ file = << >> /\ dest = 0 /\ used = 0
      /\ path = [u \in Threads |-> 0] /\ temp = [c \in 1..MaxCalls |-> << >>] /\ abort = {}
      /\ worker = [r \in (1..MaxCalls) \X (1..Width) |-> [st |-> "none", of |-> 0, fd |-> 0, by |-> 0]]
  BY <1>1 DEF D!Starts, D!None, D!NoPin, D!NoWorker, D!Calls, D!Parts, D!Ranges
<1>5. DownTypes
  <2>1. worker \in [(1..MaxCalls) \X (1..Width) -> WorkerRows]
    BY <1>4, DownConstants DEF WorkerRows
  <2>2. temp \in [1..MaxCalls -> Seq(Nat)] /\ file \in Seq(Nat) /\ pin \in [Threads -> PinRows]
    BY <1>4 DEF PinRows
  <2> QED
    BY <1>3, <1>4, <2>1, <2>2, DownConstants DEF DownTypes, States
<1>6. WorkersServe(t)
  BY <1>4 DEF WorkersServe, D!Writing
<1> QED
  BY <1>4, <1>5, <1>6 DEF DownInv, CallHolds, StreamHolds

(* An origin may replace its object: what was one of its versions stays one.*)
LEMMA ReplacesKeeps ==
  ASSUME NEW t, Threads = {t}, DownInv(t), D!Replaces
  PROVE  DownInv(t)'
<1>1. /\ origin' = [origin EXCEPT !.version = @ + 1] /\ origin.version < Len(origin.size)
      /\ UNCHANGED <<dpc, call, dattempt, pin, file, dest, used, path, temp, worker, abort>>
  BY DEF D!Replaces, D!mine, D!disk, D!ranged
<1>2. origin \in OriginRows /\ origin.version \in 1..Len(origin.size)
  BY DEF DownInv, DownTypes
<1>3. /\ origin' \in OriginRows /\ origin'.version \in 1..Len(origin'.size) /\ origin'.size = origin.size
      /\ origin'.tagged = origin.tagged /\ origin'.framed = origin.framed
      /\ Versions \subseteq Versions'
  BY <1>1, <1>2 DEF OriginRows, Versions
<1>4. DownTypes'
  BY <1>1, <1>3 DEF DownInv, DownTypes
<1>5. WorkersServe(t)'
  BY <1>1 DEF DownInv, WorkersServe
<1>6. CallHolds(t)'
  BY <1>1, <1>3 DEF DownInv, CallHolds, D!Span, D!Part
<1>7. StreamHolds(t)'
  BY <1>1, <1>3 DEF DownInv, StreamHolds
<1>8. Landed => Landed'
  BY <1>1, <1>3 DEF Landed
<1> QED
  BY <1>1, <1>4, <1>5, <1>6, <1>7, <1>8 DEF DownInv

LEMMA BeginsKeeps ==
  ASSUME NEW t, Threads = {t}, DownInv(t), D!Begins(t)
  PROVE  DownInv(t)'
<1> USE DEF DownInv
<1>1. /\ used' = used + 1 /\ used < MaxCalls /\ call' = [call EXCEPT ![t] = used + 1]
      /\ dpc[t] \in {"idle", "done", "failed"} /\ dpc' = [dpc EXCEPT ![t] = "probe"]
      /\ dattempt' = [dattempt EXCEPT ![t] = 0] /\ pin' = [pin EXCEPT ![t] = [total |-> 0, etag |-> 0]]
      /\ file' = << >> /\ dest' = 0 /\ UNCHANGED <<origin, path, abort>>
  BY DEF D!Begins, D!Goes, D!Pins, D!NoPin, D!None, D!Unlinks
<1>2. /\ worker' = [r \in (1..MaxCalls) \X (1..Width) |->
                   IF worker[r].st \in D!Writing THEN worker[r] ELSE D!NoWorker]
      /\ temp' = [c \in 1..MaxCalls |-> [i \in DOMAIN temp[c] |-> 0]]
  BY DEF D!Begins, D!Ranges, D!Calls, D!Parts, D!None
<1>3. worker' \in [(1..MaxCalls) \X (1..Width) -> WorkerRows]
  <2>1. D!NoWorker \in WorkerRows
    BY DownConstants DEF D!NoWorker, D!None, WorkerRows
  <2>2. worker \in [(1..MaxCalls) \X (1..Width) -> WorkerRows]
    BY DEF DownTypes
  <2> QED
    BY <1>2, <2>1, <2>2
<1>4. temp' \in [1..MaxCalls -> Seq(Nat)]
  <2>1. \A c \in 1..MaxCalls : [i \in DOMAIN temp[c] |-> 0] \in Seq(Nat)
    <3> SUFFICES ASSUME NEW c \in 1..MaxCalls PROVE [i \in DOMAIN temp[c] |-> 0] \in Seq(Nat)
      OBVIOUS
    <3>1. temp[c] \in Seq(Nat)
      BY DEF DownTypes
    <3>2. DOMAIN temp[c] = 1..Len(temp[c]) /\ Len(temp[c]) \in Nat
      BY <3>1
    <3> QED
      BY <3>2
  <2> QED
    BY <1>2, <2>1
<1>5. call'[t] = used + 1 /\ dpc'[t] = "probe" /\ pin'[t].etag = 0
  BY <1>1 DEF DownTypes
<1>6. DownTypes'
  <2>1. /\ dpc' \in [Threads -> States] /\ call' \in [Threads -> 0..MaxCalls]
        /\ dattempt' \in [Threads -> Nat] /\ used' \in 0..MaxCalls
    BY <1>1, DownConstants DEF DownTypes, States
  <2>2. pin' \in [Threads -> PinRows]
    BY <1>1 DEF DownTypes, PinRows
  <2>3. file' \in Seq(Nat) /\ dest' \in 0..MaxCalls /\ abort' \subseteq 1..used'
    BY <1>1, DownConstants DEF DownTypes
  <2>4. /\ origin' \in OriginRows /\ origin'.version \in 1..Len(origin'.size)
        /\ path' \in [Threads -> 0..MaxCalls]
    BY <1>1 DEF DownTypes
  <2> QED
    BY <1>3, <1>4, <2>1, <2>2, <2>3, <2>4 DEF DownTypes
<1>7. WorkersServe(t)'
  <2>1. \A c \in 1..MaxCalls, p \in 1..Width :
          worker[<<c, p>>].st \in D!Writing => worker[<<c, p>>].by = t /\ c \in abort
    BY <1>1 DEF WorkersServe
  <2> QED
    BY <1>1, <1>2, <2>1 DEF WorkersServe, D!Writing, D!NoWorker
<1>8. CallHolds(t)'
  BY <1>1, <1>5 DEF CallHolds, DownTypes
<1>9. StreamHolds(t)'
  BY <1>5 DEF StreamHolds
<1> QED
  BY <1>5, <1>6, <1>7, <1>8, <1>9


LEMMA ProbesKeeps ==
  ASSUME NEW t, Threads = {t}, DownInv(t), D!Probes(t)
  PROVE  DownInv(t)'
<1> USE DEF DownInv
<1>1. dpc[t] = "probe" /\ UNCHANGED <<origin, call, dattempt, file, dest, used, abort>>
  BY DEF D!Probes, D!disk, D!ranged
<1>2. call[t] \in 1..used /\ call[t] \notin abort /\ dest = 0 /\ file = << >> /\ call[t] \in 1..MaxCalls
  BY <1>1, DownConstants DEF CallHolds, DownTypes
<1>3. \A c \in 1..MaxCalls, p \in 1..Width :
        worker[<<c, p>>].st \in D!Writing => worker[<<c, p>>].by = t /\ c \in abort /\ c # call[t]
  BY <1>1, <1>2 DEF WorkersServe
<1>4. CASE dpc' = [dpc EXCEPT ![t] = "get"] /\ UNCHANGED <<pin, path, temp, worker>>
  <2>1. dpc' \in [Threads -> States] /\ dpc'[t] = "get"
    BY <1>4 DEF DownTypes, States
  <2>2. DownTypes'
    BY <1>1, <1>4, <2>1 DEF DownTypes
  <2>3. WorkersServe(t)'
    BY <1>1, <1>3, <1>4 DEF WorkersServe
  <2>4. CallHolds(t)' /\ StreamHolds(t)'
    BY <1>1, <1>2, <1>4, <2>1 DEF CallHolds, StreamHolds
  <2> QED
    BY <2>1, <2>2, <2>3, <2>4
<1>5. ASSUME NEW v, v = origin.version, origin.tagged, dpc' = [dpc EXCEPT ![t] = "ranged"],
             pin' = [pin EXCEPT ![t] = [total |-> origin.size[v], etag |-> v]],
             path' = [path EXCEPT ![t] = call[t]],
             temp' = [temp EXCEPT ![call[t]] = [i \in 1..origin.size[v] |-> 0]],
             worker' = [r \in (1..MaxCalls) \X (1..Width) |->
                          IF r[1] = call[t] /\ D!Span(r[2], origin.size[v]) # {}
                          THEN [st |-> "run", of |-> v, fd |-> 0, by |-> t] ELSE worker[r]]
      PROVE  DownInv(t)'
  <2>1. v \in Versions /\ v \in Nat /\ origin.size[v] \in Nat \ {0}
    BY <1>5 DEF DownTypes, OriginRows, Versions
  <2>2. dpc' \in [Threads -> States] /\ dpc'[t] = "ranged"
    BY <1>5 DEF DownTypes, States
  <2>3. /\ pin' \in [Threads -> PinRows] /\ pin'[t].total = origin.size[v] /\ pin'[t].etag = v
    BY <1>5, <2>1 DEF DownTypes, PinRows
  <2>4. path' \in [Threads -> 0..MaxCalls] /\ path'[t] = call[t]
    BY <1>2, <1>5 DEF DownTypes
  <2>5. temp' \in [1..MaxCalls -> Seq(Nat)] /\ DOMAIN temp'[call[t]] = 1..origin.size[v]
    <3>1. [i \in 1..origin.size[v] |-> 0] \in Seq(Nat)
      BY <2>1
    <3> QED
      BY <1>2, <1>5, <3>1 DEF DownTypes
  <2>6. worker' \in [(1..MaxCalls) \X (1..Width) -> WorkerRows]
    <3>1. [st |-> "run", of |-> v, fd |-> 0, by |-> t] \in WorkerRows
      BY <2>1, DownConstants DEF WorkerRows
    <3>2. worker \in [(1..MaxCalls) \X (1..Width) -> WorkerRows]
      BY DEF DownTypes
    <3> QED
      BY <1>5, <3>1, <3>2
  <2>7. \A c \in 1..MaxCalls, p \in 1..Width :
          worker'[<<c, p>>] = IF c = call[t] /\ D!Span(p, origin.size[v]) # {}
                              THEN [st |-> "run", of |-> v, fd |-> 0, by |-> t] ELSE worker[<<c, p>>]
    BY <1>5
  <2>8. DownTypes'
    BY <1>1, <2>2, <2>3, <2>4, <2>5, <2>6 DEF DownTypes
  <2>9. WorkersServe(t)'
    BY <1>1, <1>3, <2>2, <2>7 DEF WorkersServe
  <2>10. CallHolds(t)'
    <3> SUFFICES ASSUME NEW p \in 1..Width
                 PROVE  /\ worker'[<<call[t], p>>].st \in D!Writing =>
                             worker'[<<call[t], p>>].of = v /\ D!Span(p, origin.size[v]) # {}
                        /\ worker'[<<call[t], p>>].st # "open"
                        /\ worker'[<<call[t], p>>].st = "done" => D!Span(p, origin.size[v]) = {}
      <4>1. \A p \in 1..Width : D!Span(p, pin[t].total)' = D!Span(p, origin.size[v])
        BY <2>3 DEF D!Span, D!Part
      <4>2. v \in Versions' /\ origin'.tagged /\ pin'[t].total = origin'.size[v]
        BY <1>1, <1>5, <2>1, <2>3 DEF Versions
      <4>3. call'[t] \in 1..used' /\ call'[t] \notin abort' /\ dest' = 0 /\ file' = << >> /\ call' = call
        BY <1>1, <1>2
      <4> QED
        BY <2>2, <2>3, <2>4, <2>5, <4>1, <4>2, <4>3 DEF CallHolds
    <3>1. worker[<<call[t], p>>].st \notin D!Writing
      BY <1>2, <1>3
    <3> QED
      BY <1>2, <2>7, <3>1 DEF D!Writing
  <2>11. StreamHolds(t)'
    BY <1>1, <1>5, <2>2 DEF StreamHolds
  <2> QED
    BY <2>2, <2>8, <2>9, <2>10, <2>11
<1>6. CASE /\ origin.tagged /\ D!Goes(t, "ranged")
           /\ D!Pins(t, [total |-> D!Size(origin.version), etag |-> origin.version])
           /\ path' = [path EXCEPT ![t] = call[t]]
           /\ temp' = [temp EXCEPT ![call[t]] = [i \in 1..D!Size(origin.version) |-> D!None]]
           /\ worker' = [r \in D!Ranges |->
                           IF r[1] = call[t] /\ D!Span(r[2], D!Size(origin.version)) # {}
                           THEN [st |-> "run", of |-> origin.version, fd |-> D!None, by |-> t] ELSE worker[r]]
  <2>1. /\ dpc' = [dpc EXCEPT ![t] = "ranged"]
        /\ pin' = [pin EXCEPT ![t] = [total |-> origin.size[origin.version], etag |-> origin.version]]
        /\ temp' = [temp EXCEPT ![call[t]] = [i \in 1..origin.size[origin.version] |-> 0]]
    BY <1>6 DEF D!Goes, D!Pins, D!Size, D!None
  <2>2. worker' = [r \in (1..MaxCalls) \X (1..Width) |->
                     IF r[1] = call[t] /\ D!Span(r[2], origin.size[origin.version]) # {}
                     THEN [st |-> "run", of |-> origin.version, fd |-> 0, by |-> t] ELSE worker[r]]
    BY <1>6 DEF D!Ranges, D!Calls, D!Parts, D!Size, D!None
  <2> QED
    BY <1>5, <1>6, <2>1, <2>2
<1> QED
  BY <1>1, <1>4, <1>6 DEF D!Probes, D!Goes, D!ranged

(* The ranged attempt that lands: its workers left no block of another      *)
(* version, and none of the empty file it began with.                       *)
LEMMA RangedLandsKeeps ==
  ASSUME NEW t, Threads = {t}, DownInv(t), D!RangedLands(t)
  PROVE  DownInv(t)'
<1> USE DEF DownInv
<1>1. /\ dpc[t] = "ranged" /\ dpc' = [dpc EXCEPT ![t] = "done"] /\ file' = temp[call[t]] /\ dest' = call[t]
      /\ path' = [path EXCEPT ![t] = 0]
      /\ UNCHANGED <<origin, call, dattempt, pin, used, temp, worker, abort>>
      /\ \A p \in 1..Width : D!Span(p, pin[t].total) # {} => worker[<<call[t], p>>].st = "done"
  BY DEF D!RangedLands, D!Goes, D!None, D!Parts
<1>2. /\ origin.tagged /\ pin[t].etag \in Versions /\ pin[t].total = origin.size[pin[t].etag]
      /\ DOMAIN temp[call[t]] = 1..pin[t].total /\ call[t] \in 1..MaxCalls
  BY <1>1, DownConstants DEF CallHolds, DownTypes
<1>3. pin[t].total \in Nat \ {0}
  BY <1>2 DEF DownTypes, OriginRows, Versions
<1>4. \A i \in 1..pin[t].total : temp[call[t]][i] = pin[t].etag
  <2> SUFFICES ASSUME NEW i \in 1..pin[t].total PROVE temp[call[t]][i] = pin[t].etag
    OBVIOUS
  <2>1. PICK p \in 1..Width : i \in D!Span(p, pin[t].total)
    BY <1>3, RangesCover
  <2> QED
    BY <1>1, <2>1 DEF CallHolds
<1>5. PICK bytes : bytes = temp[call[t]]
  OBVIOUS
<1>6. bytes \in Seq(Nat) /\ Len(bytes) = pin[t].total /\ bytes = [i \in 1..pin[t].total |-> pin[t].etag]
  <2>1. bytes \in Seq(Nat)
    BY <1>2, <1>5 DEF DownTypes
  <2>2. DOMAIN bytes = 1..pin[t].total /\ \A i \in 1..pin[t].total : bytes[i] = pin[t].etag
    BY <1>2, <1>4, <1>5
  <2> QED
    BY <1>3, <2>1, <2>2
<1>7. Landed'
  <2>1. file' = bytes /\ pin[t].etag \in Versions' /\ pin[t].total = origin'.size[pin[t].etag]
    BY <1>1, <1>2, <1>5 DEF Versions
  <2> QED
    BY <1>6, <2>1 DEF Landed
<1>8. dpc' \in [Threads -> States] /\ dpc'[t] = "done" /\ path' \in [Threads -> 0..MaxCalls]
  BY <1>1, DownConstants DEF DownTypes, States
<1>9. DownTypes'
  BY <1>1, <1>2, <1>5, <1>6, <1>8 DEF DownTypes
<1>10. WorkersServe(t)'
  <2> SUFFICES ASSUME NEW c \in 1..MaxCalls, NEW p \in 1..Width, worker[<<c, p>>].st \in D!Writing,
                      c \notin abort
               PROVE  FALSE
    BY <1>1 DEF WorkersServe
  <2>1. c = call[t]
    BY DEF WorkersServe
  <2>2. worker[<<call[t], p>>].st # "done"
    BY <2>1 DEF D!Writing
  <2>3. D!Span(p, pin[t].total) = {}
    BY <1>1, <2>2
  <2> QED
    BY <1>1, <2>1, <2>3 DEF CallHolds
<1>11. CallHolds(t)' /\ StreamHolds(t)'
  BY <1>1, <1>8 DEF CallHolds, StreamHolds
<1> QED
  BY <1>7, <1>9, <1>10, <1>11

LEMMA RangedFailsKeeps ==
  ASSUME NEW t, Threads = {t}, DownInv(t), D!RangedFails(t)
  PROVE  DownInv(t)'
<1> USE DEF DownInv
<1>1. /\ dpc[t] = "ranged" /\ dpc' = [dpc EXCEPT ![t] = "drain"] /\ abort' = abort \cup {call[t]}
      /\ UNCHANGED <<origin, call, dattempt, pin, file, dest, used, path, temp, worker>>
  BY DEF D!RangedFails, D!Goes, D!disk
<1>2. dpc' \in [Threads -> States] /\ dpc'[t] = "drain" /\ call[t] \in 1..used
  BY <1>1 DEF DownTypes, States, CallHolds
<1>3. DownTypes'
  BY <1>1, <1>2 DEF DownTypes
<1>4. WorkersServe(t)'
  BY <1>1 DEF WorkersServe
<1>5. CallHolds(t)' /\ StreamHolds(t)'
  BY <1>1, <1>2 DEF CallHolds, StreamHolds
<1> QED
  BY <1>2, <1>3, <1>4, <1>5

LEMMA DrainsKeeps ==
  ASSUME NEW t, Threads = {t}, DownInv(t), D!Drains(t)
  PROVE  DownInv(t)'
<1> USE DEF DownInv
<1>1. /\ dpc[t] = "drain" /\ dpc' = [dpc EXCEPT ![t] = "get"] /\ path' = [path EXCEPT ![t] = 0]
      /\ file' = << >> /\ dest' = 0 /\ dattempt' = [dattempt EXCEPT ![t] = @ + 1]
      /\ UNCHANGED <<origin, call, pin, used, temp, worker, abort>>
  BY DEF D!Drains, D!Goes, D!None, D!Unlinks
<1>2. dpc' \in [Threads -> States] /\ dpc'[t] = "get"
  BY <1>1 DEF DownTypes, States
<1>3. DownTypes'
  <2>1. path' \in [Threads -> 0..MaxCalls] /\ dattempt' \in [Threads -> Nat]
        /\ file' \in Seq(Nat) /\ dest' \in 0..MaxCalls
    BY <1>1, DownConstants DEF DownTypes
  <2> QED
    BY <1>1, <1>2, <2>1 DEF DownTypes
<1>4. WorkersServe(t)'
  BY <1>1 DEF WorkersServe
<1>5. CallHolds(t)' /\ StreamHolds(t)'
  BY <1>1, <1>2 DEF CallHolds, StreamHolds
<1> QED
  BY <1>2, <1>3, <1>4, <1>5


(* The single stream. *)
LEMMA StreamKeeps ==
  ASSUME NEW t, Threads = {t}, DownInv(t), dpc[t] = "get",
         UNCHANGED <<origin, call, used, path, temp, worker, abort>>,
         dpc' \in [Threads -> States], dpc'[t] \in {"get", "done", "failed"},
         dattempt' \in [Threads -> Nat], pin' \in [Threads -> PinRows],
         file' \in Seq(Nat), dest' \in 0..MaxCalls, StreamHolds(t)', dpc'[t] = "done" => Landed'
  PROVE  DownInv(t)'
<1>1. DownTypes'
  BY DEF DownInv, DownTypes
<1>2. WorkersServe(t)' /\ CallHolds(t)'
  BY DEF DownInv, WorkersServe, CallHolds
<1> QED
  BY <1>1, <1>2 DEF DownInv

LEMMA AgainMoves ==
  ASSUME NEW t, Threads = {t}, DownTypes, dpc[t] = "get", D!Again(t)
  PROVE  /\ dpc' \in [Threads -> States] /\ dattempt' \in [Threads -> Nat]
         /\ dpc'[t] \in {"get", "failed"} /\ (dpc'[t] = "get" => dattempt'[t] # 0)
<1>1. dpc \in [Threads -> States] /\ dattempt \in [Threads -> Nat]
  BY DEF DownTypes
<1>2. CASE dpc' = [dpc EXCEPT ![t] = "failed"] /\ UNCHANGED dattempt
  BY <1>1, <1>2 DEF States
<1>3. CASE dattempt' = [dattempt EXCEPT ![t] = @ + 1] /\ UNCHANGED dpc
  BY <1>1, <1>3
<1> QED
  BY <1>2, <1>3 DEF D!Again, D!Goes

LEMMA EndsMoves ==
  ASSUME NEW t, Threads = {t}, DownTypes, D!Ends(t)
  PROVE  dpc' \in [Threads -> States] /\ dattempt' \in [Threads -> Nat] /\ dpc'[t] = "done"
BY DEF DownTypes, D!Ends, D!Goes, States

LEMMA PinsMoves ==
  ASSUME NEW t, Threads = {t}, DownTypes, NEW row \in PinRows, D!Pins(t, row)
  PROVE  pin' \in [Threads -> PinRows] /\ pin'[t] = row
BY DEF DownTypes, D!Pins

(* What an answer says of the object: its version, its length. *)
LEMMA AnswerSays ==
  ASSUME DownTypes
  PROVE  /\ origin.version \in Versions /\ origin.version \in Nat \ {0}
         /\ origin.size[origin.version] \in Nat \ {0} /\ D!Size(origin.version) = origin.size[origin.version]
         /\ D!Total = IF origin.framed THEN origin.size[origin.version] ELSE 0
         /\ D!Etag = IF origin.tagged THEN origin.version ELSE 0
BY DEF DownTypes, OriginRows, Versions, D!Size, D!Total, D!Etag, D!None

LEMMA FullBodyKeeps ==
  ASSUME NEW t, Threads = {t}, DownInv(t), dpc[t] = "get", D!FullBody(t),
         UNCHANGED <<origin, call, used, path, temp, worker, abort>>
  PROVE  DownInv(t)'
<1>1. PICK v, n, total, etag :
        /\ v = origin.version /\ n = origin.size[v] /\ v \in Versions /\ v \in Nat \ {0} /\ n \in Nat \ {0}
        /\ total = (IF origin.framed THEN n ELSE 0) /\ etag = (IF origin.tagged THEN v ELSE pin[t].etag)
        /\ D!Size(v) = n /\ D!Total = total /\ (origin.tagged => D!Etag = v)
  BY AnswerSays DEF DownInv
<1>2. [total |-> total, etag |-> etag] \in PinRows
  BY <1>1 DEF DownInv, DownTypes, PinRows
<1>3. D!Pins(t, [total |-> total, etag |-> etag]) /\ dest' = 0
  <2>1. (IF origin.tagged THEN D!Etag ELSE pin[t].etag) = etag
    BY <1>1
  <2> QED
    BY <1>1, <2>1 DEF D!FullBody, D!None
<1>4. pin' \in [Threads -> PinRows] /\ pin'[t].total = total /\ pin'[t].etag = etag
  BY <1>2, <1>3, PinsMoves DEF DownInv
<1>5. PICK got \in {[i \in 1..m |-> v] : m \in 0..(n - 0)} :
        \/ total # 0 /\ Len(got) # total /\ file' = << >> /\ D!Again(t)
        \/ (total = 0 \/ Len(got) = total) /\ D!Judged(t, got, total)
        \/ file' = got /\ D!Again(t)
  <2>1. D!Prefixes(v, 0) = {[i \in 1..m |-> v] : m \in 0..(n - 0)}
    BY <1>1 DEF D!Prefixes
  <2> QED
    BY <1>1, <2>1 DEF D!FullBody, D!None
<1>6. got \in Seq(Nat) /\ Len(got) \in 0..n /\ got = [i \in 1..Len(got) |-> v]
  <2>1. got \in {[i \in 1..m |-> v] : m \in 0..n}
    BY <1>1, <1>5
  <2> QED
    BY <1>1, <2>1, PrefixesAre
<1>7. file' \in Seq(Nat) /\ (D!Again(t) \/ (D!Ends(t) /\ file' = got /\ (total = 0 \/ Len(got) = total)))
      /\ (file' = << >> \/ file' = got)
  <2>1. CASE total # 0 /\ Len(got) # total /\ file' = << >> /\ D!Again(t)
    BY <2>1
  <2>2. CASE (total = 0 \/ Len(got) = total) /\ D!Judged(t, got, total)
    <3>1. total = 0 \/ Len(got) >= total
      <4>1. total \in Nat
        BY <1>1
      <4>2. Len(got) \in Nat
        <5>1. got \in Seq(Nat)
          BY <1>6
        <5> QED
          BY <5>1
      <4> QED
        BY <2>2, <4>1, <4>2
    <3> QED
      BY <1>6, <2>2, <3>1 DEF D!Judged, D!None
  <2>3. CASE file' = got /\ D!Again(t)
    BY <1>6, <2>3
  <2> QED
    BY <1>5, <2>1, <2>2, <2>3
<1>8. v \in Versions' /\ origin'.size[v] = n /\ (~origin.tagged => etag = 0)
  BY <1>1 DEF Versions, DownInv, StreamHolds
<1>9. CASE D!Again(t)
  <2>1. /\ dpc' \in [Threads -> States] /\ dattempt' \in [Threads -> Nat]
        /\ dpc'[t] \in {"get", "failed"} /\ (dpc'[t] = "get" => dattempt'[t] # 0)
    BY <1>9, AgainMoves DEF DownInv
  <2>2. StreamHolds(t)'
    BY <1>1, <1>4, <1>6, <1>7, <1>8, <2>1 DEF StreamHolds
  <2> QED
    BY <1>3, <1>4, <1>7, <2>1, <2>2, StreamKeeps, DownConstants
<1>10. CASE D!Ends(t) /\ file' = got /\ (total = 0 \/ Len(got) = total)
  <2>1. dpc' \in [Threads -> States] /\ dattempt' \in [Threads -> Nat] /\ dpc'[t] = "done"
    BY <1>10, EndsMoves DEF DownInv
  <2>2. StreamHolds(t)'
    BY <1>4, <1>8, <2>1 DEF StreamHolds
  <2>3. Landed'
    <3>1. origin.framed => Len(got) = n
      BY <1>1, <1>10
    <3> QED
      BY <1>6, <1>8, <1>10, <3>1 DEF Landed
  <2> QED
    BY <1>3, <1>4, <1>7, <2>1, <2>2, <2>3, StreamKeeps, DownConstants
<1> QED
  BY <1>7, <1>9, <1>10

(* The rest of a body is taken only for the version that was pinned. *)
LEMMA RestOfBodyKeeps ==
  ASSUME NEW t, Threads = {t}, DownInv(t), dpc[t] = "get", D!RestOfBody(t),
         UNCHANGED <<origin, call, used, path, temp, worker, abort>>
  PROVE  DownInv(t)'
<1>1. PICK v, n : /\ v = origin.version /\ n = origin.size[v] /\ v \in Versions /\ v \in Nat \ {0}
             /\ n \in Nat \ {0}
                  /\ D!Size(v) = n /\ D!Total = (IF origin.framed THEN n ELSE 0)
                  /\ D!Etag = (IF origin.tagged THEN v ELSE 0)
  BY AnswerSays DEF DownInv
<1>2. /\ dattempt[t] # 0 /\ D!Have(t) = Len(file) /\ 0 < Len(file) /\ Len(file) < n
      /\ file \in Seq(Nat) /\ file # << >> /\ UNCHANGED dest
  BY <1>1 DEF D!RestOfBody, D!Resumes, D!Have, DownInv, DownTypes
<1>3. pin[t] \in PinRows
  BY DEF DownInv, DownTypes
<1>4. origin.framed => pin[t].total = n
  <2> SUFFICES ASSUME origin.framed PROVE pin[t].total = n
    OBVIOUS
  <2>1. PICK w \in Versions : pin[t].total = origin.size[w]
    BY <1>2 DEF DownInv, StreamHolds
  <2>2. pin[t].total # 0
    BY <2>1 DEF DownInv, DownTypes, OriginRows, Versions
  <2> QED
    BY <1>1, <2>2 DEF D!RestOfBody, D!Splices, D!None
<1>5. origin.tagged => pin[t].etag = v /\ file = [i \in 1..Len(file) |-> v]
  <2> SUFFICES ASSUME origin.tagged PROVE pin[t].etag = v /\ file = [i \in 1..Len(file) |-> v]
    OBVIOUS
  <2>1. pin[t].etag \in Versions /\ file = [i \in 1..Len(file) |-> pin[t].etag]
    BY <1>2 DEF DownInv, StreamHolds
  <2>2. pin[t].etag # 0
    BY <2>1 DEF DownInv, DownTypes, Versions
  <2>3. pin[t].etag = v
    BY <1>1, <2>2 DEF D!RestOfBody, D!Splices, D!None
  <2> QED
    BY <2>1, <2>3
<1>6. PICK total, etag :
        /\ total = (IF D!Total # D!None THEN D!Total ELSE pin[t].total)
        /\ etag = (IF D!Etag # D!None THEN D!Etag ELSE pin[t].etag)
  OBVIOUS
<1>7. /\ (origin.framed => total = n) /\ (origin.tagged => etag = v) /\ (~origin.tagged => etag = 0)
      /\ [total |-> total, etag |-> etag] \in PinRows
  BY <1>1, <1>3, <1>4, <1>5, <1>6 DEF PinRows, D!None, DownInv, StreamHolds
<1>8. /\ D!Pins(t, [total |-> total, etag |-> etag])
      /\ \E more \in D!Prefixes(v, D!Have(t)) :
            D!Judged(t, file \o more, total) \/ (file' = file \o more /\ D!Again(t))
  BY <1>1, <1>6 DEF D!RestOfBody
<1>9. pin' \in [Threads -> PinRows] /\ pin'[t].total = total /\ pin'[t].etag = etag
  <2>1. [total |-> total, etag |-> etag] \in PinRows
    BY <1>7
  <2> QED
    BY <1>8, <2>1, PinsMoves DEF DownInv
<1>10. PICK more \in D!Prefixes(v, D!Have(t)) :
         D!Judged(t, file \o more, total) \/ (file' = file \o more /\ D!Again(t))
  BY <1>8
<1>11. more \in Seq(Nat) /\ Len(more) \in 0..(n - Len(file)) /\ more = [i \in 1..Len(more) |-> v]
  <2>1. more \in {[i \in 1..m |-> v] : m \in 0..(n - Len(file))}
    BY <1>1, <1>2, <1>10 DEF D!Prefixes
  <2>2. n - Len(file) \in Nat
    BY <1>1, <1>2
  <2> QED
    BY <1>1, <2>1, <2>2, PrefixesAre
<1>12. PICK bytes : bytes = file \o more
  OBVIOUS
<1>13. /\ bytes \in Seq(Nat) /\ Len(bytes) \in 0..n
       /\ origin.tagged => bytes = [i \in 1..Len(bytes) |-> v]
  <2>1. bytes \in Seq(Nat) /\ Len(bytes) = Len(file) + Len(more)
    BY <1>2, <1>11, <1>12
  <2>2. ASSUME origin.tagged PROVE bytes = [i \in 1..Len(bytes) |-> v]
    BY <1>1, <1>2, <1>5, <1>11, <1>12, <2>2, ResumedAre
  <2> QED
    BY <1>1, <1>2, <1>11, <2>1, <2>2
<1>14. /\ file' \in Seq(Nat) /\ (file' = << >> \/ file' = bytes)
       /\ D!Again(t) \/ (D!Ends(t) /\ file' = bytes /\ (total = 0 \/ Len(bytes) >= total))
  <2>1. D!Judged(t, bytes, total) \/ (file' = bytes /\ D!Again(t))
    BY <1>10, <1>12
  <2> QED
    <3>1. CASE file' = bytes /\ D!Again(t)
      BY <1>13, <3>1
    <3>2. CASE D!Judged(t, bytes, total) /\ (total = 0 \/ Len(bytes) >= total)
      BY <1>13, <3>2 DEF D!Judged, D!None
    <3>3. CASE D!Judged(t, bytes, total) /\ ~(total = 0 \/ Len(bytes) >= total)
      <4>1. file' = (IF D!Last(t) THEN << >> ELSE bytes) /\ D!Again(t)
        BY <3>3 DEF D!Judged, D!None
      <4> QED
        BY <1>13, <4>1
    <3> QED
      BY <2>1, <3>1, <3>2, <3>3
<1>15. v \in Versions' /\ origin'.size[v] = n
  BY <1>1 DEF Versions
<1>16. CASE D!Again(t)
  <2>1. /\ dpc' \in [Threads -> States] /\ dattempt' \in [Threads -> Nat]
        /\ dpc'[t] \in {"get", "failed"} /\ (dpc'[t] = "get" => dattempt'[t] # 0)
    BY <1>16, AgainMoves DEF DownInv
  <2>2. StreamHolds(t)'
    BY <1>7, <1>9, <1>13, <1>14, <1>15, <2>1 DEF StreamHolds
  <2> QED
    BY <1>2, <1>9, <1>14, <2>1, <2>2, StreamKeeps DEF DownInv, DownTypes
<1>17. CASE D!Ends(t) /\ file' = bytes /\ (total = 0 \/ Len(bytes) >= total)
  <2>1. dpc' \in [Threads -> States] /\ dattempt' \in [Threads -> Nat] /\ dpc'[t] = "done"
    BY <1>17, EndsMoves DEF DownInv
  <2>2. StreamHolds(t)'
    BY <1>7, <1>9, <2>1 DEF StreamHolds
  <2>3. Landed'
    <3>1. origin.framed => Len(bytes) = n
      BY <1>1, <1>7, <1>13, <1>17
    <3> QED
      BY <1>13, <1>15, <1>17, <3>1 DEF Landed
  <2> QED
    BY <1>2, <1>9, <1>14, <2>1, <2>2, <2>3, StreamKeeps DEF DownInv, DownTypes
<1> QED
  BY <1>14, <1>16, <1>17

LEMMA GetsKeeps ==
  ASSUME NEW t, Threads = {t}, DownInv(t), D!Gets(t)
  PROVE  DownInv(t)'
<1>1. dpc[t] = "get" /\ UNCHANGED <<origin, call, used, path, temp, worker, abort>>
  BY DEF D!Gets, D!ranged
<1>2. CASE D!Again(t) /\ UNCHANGED <<pin, file, dest>>
  <2>1. /\ dpc' \in [Threads -> States] /\ dattempt' \in [Threads -> Nat]
        /\ dpc'[t] \in {"get", "failed"} /\ (dpc'[t] = "get" => dattempt'[t] # 0)
    BY <1>1, <1>2, AgainMoves DEF DownInv
  <2>2. StreamHolds(t)'
    BY <1>1, <1>2, <2>1 DEF StreamHolds, DownInv, Versions
  <2> QED
    BY <1>1, <1>2, <2>1, <2>2, StreamKeeps DEF DownInv, DownTypes
<1>3. CASE file' = << >> /\ dest' = 0 /\ D!Pins(t, [total |-> 0, etag |-> 0]) /\ D!Again(t)
  <2>1. /\ dpc' \in [Threads -> States] /\ dattempt' \in [Threads -> Nat]
        /\ dpc'[t] \in {"get", "failed"} /\ (dpc'[t] = "get" => dattempt'[t] # 0)
    BY <1>1, <1>3, AgainMoves DEF DownInv
  <2>2. pin' \in [Threads -> PinRows] /\ pin'[t].etag = 0
    <3>1. [total |-> 0, etag |-> 0] \in PinRows
      BY DEF PinRows
    <3>2. D!Pins(t, [total |-> 0, etag |-> 0])
      BY <1>3
    <3>3. pin' \in [Threads -> PinRows] /\ pin'[t] = [total |-> 0, etag |-> 0]
      BY <3>1, <3>2, PinsMoves DEF DownInv
    <3> QED
      BY <3>3
  <2>3. StreamHolds(t)'
    BY <1>3, <2>2 DEF StreamHolds
  <2>4. file' \in Seq(Nat) /\ dest' \in 0..MaxCalls
    BY <1>3, DownConstants
  <2> QED
    BY <1>1, <2>1, <2>2, <2>3, <2>4, StreamKeeps
<1> QED
  BY <1>1, <1>2, <1>3, FullBodyKeeps, RestOfBodyKeeps
  DEF D!Gets, D!NoAnswer, D!disk, D!RestartRequired, D!Unlinks, D!None, D!NoPin


(* The workers. One that was told to stop may open the temporary file of a  *)
(* later call, which has its name; it writes nothing there.                 *)
LEMMA WorkerMoves ==
  ASSUME NEW t, Threads = {t}, DownInv(t), NEW c \in 1..MaxCalls, NEW p \in 1..Width, NEW row \in WorkerRows,
         worker[<<c, p>>].st \in D!Writing, worker' = [worker EXCEPT ![<<c, p>>] = row],
         UNCHANGED <<origin, dpc, call, dattempt, pin, file, dest, used, path, temp, abort>>,
         row.st \in D!Writing => row.of = worker[<<c, p>>].of /\ row.by = worker[<<c, p>>].by,
         row.st = "open" => row.fd = path[worker[<<c, p>>].by], row.st # "done"
  PROVE  DownInv(t)'
<1> USE DEF DownInv
<1>1. worker \in [(1..MaxCalls) \X (1..Width) -> WorkerRows]
  BY DEF DownTypes
<1>2. /\ worker' \in [(1..MaxCalls) \X (1..Width) -> WorkerRows]
      /\ \A d \in 1..MaxCalls, q \in 1..Width :
           worker'[<<d, q>>] = IF d = c /\ q = p THEN row ELSE worker[<<d, q>>]
  BY <1>1
<1>3. DownTypes'
  BY <1>2 DEF DownTypes
<1>4. WorkersServe(t)'
  BY <1>2 DEF WorkersServe
<1>5. StreamHolds(t)' /\ (dpc'[t] = "done" => Landed')
  BY DEF StreamHolds, Landed, Versions
<1>6. CallHolds(t)'
  <2>1. CASE dpc[t] # "ranged"
    BY <2>1 DEF CallHolds
  <2>2. CASE dpc[t] = "ranged"
    <3>1. call[t] \in 1..MaxCalls
      BY <2>2, DownConstants DEF CallHolds, DownTypes
    <3>2. SUFFICES ASSUME NEW q \in 1..Width
                   PROVE  LET w == worker'[<<call[t], q>>] IN
                          /\ w.st \in D!Writing => w.of = pin[t].etag /\ D!Span(q, pin[t].total) # {}
                          /\ w.st = "open" => w.fd = call[t]
                          /\ w.st = "done"
                               => \A i \in D!Span(q, pin[t].total) : temp[call[t]][i] = pin[t].etag
      BY <2>2 DEF CallHolds, Versions, D!Span, D!Part
    <3>3. CASE call[t] = c /\ q = p
      <4>1. /\ worker[<<c, p>>].of = pin[t].etag /\ path[t] = call[t] /\ D!Span(p, pin[t].total) # {}
            /\ worker[<<c, p>>].by = t
        BY <2>2, <3>3 DEF CallHolds, WorkersServe
      <4> QED
        BY <1>2, <3>1, <3>3, <4>1
    <3>4. CASE ~(call[t] = c /\ q = p)
      <4>1. worker'[<<call[t], q>>] = worker[<<call[t], q>>]
        BY <1>2, <3>1, <3>4
      <4> QED
        BY <2>2, <4>1 DEF CallHolds
    <3> QED
      BY <3>3, <3>4
  <2> QED
    BY <2>1, <2>2
<1> QED
  BY <1>3, <1>4, <1>5, <1>6

LEMMA WorkerRowsOf ==
  ASSUME NEW w \in WorkerRows
  PROVE  /\ [w EXCEPT !.st = "run", !.fd = 0] \in WorkerRows
         /\ [w EXCEPT !.st = "run", !.fd = 0].st = "run" /\ [w EXCEPT !.st = "run", !.fd = 0].of = w.of
         /\ [w EXCEPT !.st = "run", !.fd = 0].by = w.by
         /\ [w EXCEPT !.st = "head"] \in WorkerRows /\ [w EXCEPT !.st = "head"].st = "head"
         /\ [w EXCEPT !.st = "head"].of = w.of /\ [w EXCEPT !.st = "head"].by = w.by
<1>1. 0 \in 0..MaxCalls
  BY DownConstants
<1>2. [w EXCEPT !.st = "run", !.fd = 0] \in WorkerRows /\ [w EXCEPT !.st = "head"] \in WorkerRows
  BY <1>1 DEF WorkerRows
<1>3. /\ [w EXCEPT !.st = "run", !.fd = 0].st = "run" /\ [w EXCEPT !.st = "run", !.fd = 0].of = w.of
      /\ [w EXCEPT !.st = "run", !.fd = 0].by = w.by
      /\ [w EXCEPT !.st = "head"].st = "head" /\ [w EXCEPT !.st = "head"].of = w.of
      /\ [w EXCEPT !.st = "head"].by = w.by
  BY DEF WorkerRows
<1> QED
  BY <1>2, <1>3

LEMMA OpenedRowOf ==
  ASSUME NEW w \in WorkerRows, NEW f \in 0..MaxCalls
  PROVE  LET o == [w EXCEPT !.st = "open", !.fd = f] IN
         o \in WorkerRows /\ o.st = "open" /\ o.fd = f /\ o.of = w.of /\ o.by = w.by
BY DEF WorkerRows

LEMMA EndedRows ==
  /\ D!NoWorker \in WorkerRows /\ D!NoWorker.st = "none"
  /\ [D!NoWorker EXCEPT !.st = "failed"] \in WorkerRows /\ [D!NoWorker EXCEPT !.st = "failed"].st = "failed"
  /\ [D!NoWorker EXCEPT !.st = "done"] \in WorkerRows /\ [D!NoWorker EXCEPT !.st = "done"].st = "done"
<1>1. D!NoWorker = [st |-> "none", of |-> 0, fd |-> 0, by |-> 0]
  BY DEF D!NoWorker, D!None
<1>2. /\ [D!NoWorker EXCEPT !.st = "failed"] = [st |-> "failed", of |-> 0, fd |-> 0, by |-> 0]
      /\ [D!NoWorker EXCEPT !.st = "done"] = [st |-> "done", of |-> 0, fd |-> 0, by |-> 0]
  BY <1>1
<1>3. 0 \in 0..MaxCalls
  BY DownConstants
<1>4. /\ D!NoWorker \in WorkerRows
      /\ [st |-> "failed", of |-> 0, fd |-> 0, by |-> 0] \in WorkerRows
      /\ [st |-> "done", of |-> 0, fd |-> 0, by |-> 0] \in WorkerRows
  BY <1>1, <1>3 DEF WorkerRows
<1> QED
  BY <1>1, <1>2, <1>4

LEMMA WorkerFetchesKeeps ==
  ASSUME NEW t, Threads = {t}, DownInv(t), NEW c \in 1..MaxCalls, NEW p \in 1..Width,
         D!WorkerFetches(<<c, p>>)
  PROVE  DownInv(t)'
<1>1. /\ worker[<<c, p>>].st = "run" /\ worker[<<c, p>>].st \in D!Writing
      /\ UNCHANGED <<origin, dpc, call, dattempt, pin, file, dest, used, path, temp, abort>>
  BY DEF D!WorkerFetches, D!mine, D!disk, D!Writing
<1>2. worker[<<c, p>>] \in WorkerRows
  BY DEF DownInv, DownTypes
<1>3. \E row : /\ row \in WorkerRows /\ worker' = [worker EXCEPT ![<<c, p>>] = row]
               /\ row.st \in {"none", "failed"}
                  \/ (row.st \in {"head", "run"} /\ row.of = worker[<<c, p>>].of
                       /\ row.by = worker[<<c, p>>].by)
  <2>1. CASE worker' = [worker EXCEPT ![<<c, p>>] = D!NoWorker]
    BY <2>1, EndedRows
  <2>2. CASE worker' = [worker EXCEPT ![<<c, p>>] = [D!NoWorker EXCEPT !.st = "failed"]]
    BY <2>2, EndedRows
  <2>3. CASE worker' = [worker EXCEPT ![<<c, p>>] = [worker[<<c, p>>] EXCEPT !.st = "head"]]
    BY <1>2, <2>3, WorkerRowsOf
  <2>4. CASE worker' = [worker EXCEPT ![<<c, p>>] = [worker[<<c, p>>] EXCEPT !.st = "run", !.fd = 0]]
    BY <1>2, <2>4, WorkerRowsOf
  <2> QED
    BY <2>1, <2>2, <2>3, <2>4 DEF D!WorkerFetches, D!Becomes, D!Retries, D!None
<1> QED
  BY <1>1, <1>3, WorkerMoves DEF D!Writing

LEMMA WorkerOpensKeeps ==
  ASSUME NEW t, Threads = {t}, DownInv(t), NEW c \in 1..MaxCalls, NEW p \in 1..Width, D!WorkerOpens(<<c, p>>)
  PROVE  DownInv(t)'
<1>1. /\ worker[<<c, p>>].st = "head" /\ worker[<<c, p>>].st \in D!Writing
      /\ UNCHANGED <<origin, dpc, call, dattempt, pin, file, dest, used, path, temp, abort>>
  BY DEF D!WorkerOpens, D!mine, D!disk, D!Writing
<1>2. worker[<<c, p>>] \in WorkerRows /\ worker[<<c, p>>].by = t /\ path[t] \in 0..MaxCalls
  BY <1>1 DEF DownInv, DownTypes, WorkersServe
<1>3. PICK f : f = path[worker[<<c, p>>].by]
  OBVIOUS
<1>4. CASE worker' = [worker EXCEPT ![<<c, p>>] = [D!NoWorker EXCEPT !.st = "failed"]]
  <2>1. PICK row : row = [D!NoWorker EXCEPT !.st = "failed"]
    OBVIOUS
  <2>2. row \in WorkerRows /\ row.st = "failed" /\ worker' = [worker EXCEPT ![<<c, p>>] = row]
    BY <1>4, <2>1, EndedRows
  <2> QED
    BY <1>1, <2>2, WorkerMoves DEF D!Writing
<1>5. CASE worker' = [worker EXCEPT ![<<c, p>>] = [worker[<<c, p>>] EXCEPT !.st = "open", !.fd = f]]
  <2>1. PICK row : row = [worker[<<c, p>>] EXCEPT !.st = "open", !.fd = f]
    OBVIOUS
  <2>2. f \in 0..MaxCalls
    BY <1>2, <1>3
  <2>3. /\ row \in WorkerRows /\ row.st = "open" /\ row.fd = f
        /\ row.of = worker[<<c, p>>].of /\ row.by = worker[<<c, p>>].by
    BY <1>2, <2>1, <2>2, OpenedRowOf
  <2> QED
    BY <1>1, <1>3, <1>5, <2>1, <2>3, WorkerMoves
<1> QED
  BY <1>3, <1>4, <1>5 DEF D!WorkerOpens, D!Becomes, D!None

(* A body is written by a worker of the call under way, into its own file.  *)
LEMMA WorkerLandsKeeps ==
  ASSUME NEW t, Threads = {t}, DownInv(t), NEW c \in 1..MaxCalls, NEW p \in 1..Width,
         worker[<<c, p>>].st = "open", c \notin abort,
         D!Becomes(<<c, p>>, [D!NoWorker EXCEPT !.st = "done"]), D!Lands(<<c, p>>),
         UNCHANGED <<origin, dpc, call, dattempt, pin, dest, used, path, abort>>
  PROVE  DownInv(t)'
<1> USE DEF DownInv
<1>1. dpc[t] = "ranged" /\ c = call[t] /\ worker[<<c, p>>].st \in D!Writing
  BY DEF WorkersServe, D!Writing
<1>2. PICK v, n : v = pin[t].etag /\ n = pin[t].total
  OBVIOUS
<1>3. /\ worker[<<c, p>>].of = v /\ worker[<<c, p>>].fd = c /\ dest = 0 /\ c # 0
      /\ origin.tagged /\ v \in Versions /\ n = origin.size[v] /\ DOMAIN temp[c] = 1..n /\ D!Size(v) = n
  BY <1>1, <1>2 DEF CallHolds, D!Size
<1>4. v \in Nat /\ n \in Nat
  BY <1>3 DEF DownTypes, OriginRows, Versions
<1>5. PICK bytes : bytes = [i \in 1..n |-> IF i \in D!Span(p, n) THEN v ELSE temp[c][i]]
  OBVIOUS
<1>6. temp' = [temp EXCEPT ![c] = bytes] /\ UNCHANGED file
  <2>1. D!Filled(temp[c], <<c, p>>) = bytes
    BY <1>3, <1>5 DEF D!Filled
  <2>2. PICK fd : fd = worker[<<c, p>>].fd
    OBVIOUS
  <2>3. fd = c /\ temp' = [temp EXCEPT ![fd] = D!Filled(temp[fd], <<c, p>>)] /\ UNCHANGED file
    BY <1>3, <2>2 DEF D!Lands
  <2> QED
    BY <2>1, <2>3
<1>7. bytes \in Seq(Nat) /\ DOMAIN bytes = 1..n
  <2>1. temp[c] \in Seq(Nat)
    BY DEF DownTypes
  <2>2. \A i \in 1..n : temp[c][i] \in Nat
    <3>1. \A s \in Seq(Nat) : DOMAIN s = 1..Len(s) /\ \A i \in DOMAIN s : s[i] \in Nat
      OBVIOUS
    <3> QED
      BY <1>3, <2>1, <3>1
  <2>3. bytes \in [1..n -> Nat]
    BY <1>4, <1>5, <2>2
  <2> QED
    BY <1>4, <1>5, <2>3
<1>8. temp' \in [1..MaxCalls -> Seq(Nat)] /\ temp'[c] = bytes
  BY <1>6, <1>7 DEF DownTypes
<1>9. PICK row : row = [D!NoWorker EXCEPT !.st = "done"]
  OBVIOUS
<1>10. row \in WorkerRows /\ row.st = "done" /\ worker' = [worker EXCEPT ![<<c, p>>] = row]
  BY <1>9, EndedRows DEF D!Becomes
<1>11. /\ worker' \in [(1..MaxCalls) \X (1..Width) -> WorkerRows]
       /\ \A d \in 1..MaxCalls, q \in 1..Width :
            worker'[<<d, q>>] = IF d = c /\ q = p THEN row ELSE worker[<<d, q>>]
  BY <1>10 DEF DownTypes
<1>12. DownTypes'
  BY <1>6, <1>8, <1>11 DEF DownTypes
<1>13. WorkersServe(t)'
  BY <1>10, <1>11 DEF WorkersServe, D!Writing
<1>14. StreamHolds(t)' /\ dpc'[t] # "done"
  BY <1>1, <1>6 DEF StreamHolds
<1>15. CallHolds(t)'
  <2>1. SUFFICES ASSUME NEW q \in 1..Width
                 PROVE  LET w == worker'[<<c, q>>] IN
                        /\ w.st \in D!Writing => w.of = v /\ D!Span(q, n) # {}
                        /\ w.st = "open" => w.fd = c
                        /\ w.st = "done" => \A i \in D!Span(q, n) : bytes[i] = v
    <3>1. DOMAIN temp'[call'[t]] = 1..n /\ temp'[call'[t]] = bytes
      BY <1>1, <1>7, <1>8
    <3>2. dpc'[t] = "ranged" /\ call'[t] = c /\ pin'[t].etag = v /\ pin'[t].total = n
      BY <1>1, <1>2
    <3>3. /\ c \in 1..used' /\ c \notin abort' /\ dest' = 0 /\ file' = << >>
          /\ origin'.tagged /\ v \in Versions' /\ n = origin'.size[v] /\ path'[t] = c
      BY <1>1, <1>2, <1>3, <1>6 DEF CallHolds, Versions
    <3> QED
      BY <3>1, <3>2, <3>3 DEF CallHolds
  <2>2. D!Span(q, n) \subseteq 1..n
    BY DEF D!Span
  <2>3. CASE q = p
    BY <1>5, <1>10, <1>11, <2>2, <2>3 DEF D!Writing
  <2>4. CASE q # p
    <3>1. worker'[<<c, q>>] = worker[<<c, q>>]
      BY <1>11, <2>4
    <3>2. worker[<<c, q>>].st = "done" => \A i \in D!Span(q, n) : temp[c][i] = v
      BY <1>1, <1>2 DEF CallHolds
    <3>3. worker[<<c, q>>].st = "done" => \A i \in D!Span(q, n) : bytes[i] = v
      BY <1>5, <2>2, <3>2
    <3> QED
      BY <1>1, <1>2, <3>1, <3>3 DEF CallHolds
  <2> QED
    BY <2>3, <2>4
<1> QED
  BY <1>12, <1>13, <1>14, <1>15

LEMMA WorkerWritesKeeps ==
  ASSUME NEW t, Threads = {t}, DownInv(t), NEW c \in 1..MaxCalls, NEW p \in 1..Width, D!WorkerWrites(<<c, p>>)
  PROVE  DownInv(t)'
<1>1. /\ worker[<<c, p>>].st = "open" /\ worker[<<c, p>>].st \in D!Writing
      /\ UNCHANGED <<origin, dpc, call, dattempt, pin, dest, used, path, abort>>
  BY DEF D!WorkerWrites, D!mine, D!Writing
<1>2. worker[<<c, p>>] \in WorkerRows
  BY DEF DownInv, DownTypes
<1>3. CASE UNCHANGED <<file, temp>> /\ \/ D!Becomes(<<c, p>>, D!NoWorker)
                                       \/ D!Retries(<<c, p>>)
  <2>1. \E row : /\ row \in WorkerRows /\ worker' = [worker EXCEPT ![<<c, p>>] = row]
                 /\ row.st \in {"none", "failed"}
                    \/ (row.st = "run" /\ row.of = worker[<<c, p>>].of /\ row.by = worker[<<c, p>>].by)
    <3>1. CASE worker' = [worker EXCEPT ![<<c, p>>] = D!NoWorker]
      BY <3>1, EndedRows
    <3>2. CASE worker' = [worker EXCEPT ![<<c, p>>] = [D!NoWorker EXCEPT !.st = "failed"]]
      BY <3>2, EndedRows
    <3>3. CASE worker' = [worker EXCEPT ![<<c, p>>] = [worker[<<c, p>>] EXCEPT !.st = "run", !.fd = 0]]
      BY <1>2, <3>3, WorkerRowsOf
    <3> QED
      BY <1>3, <3>1, <3>2, <3>3 DEF D!Becomes, D!Retries, D!None
  <2> QED
    BY <1>1, <1>3, <2>1, WorkerMoves DEF D!Writing
<1>4. CASE c \notin abort /\ D!Becomes(<<c, p>>, [D!NoWorker EXCEPT !.st = "done"]) /\ D!Lands(<<c, p>>)
  BY <1>1, <1>4, WorkerLandsKeeps
<1> QED
  BY <1>3, <1>4 DEF D!WorkerWrites

LEMMA DownStep ==
  ASSUME NEW t, Threads = {t}, DownInv(t), [D!Next]_(D!vars)
  PROVE  DownInv(t)'
<1>1. CASE D!Replaces
  BY <1>1, ReplacesKeeps
<1>2. CASE D!Begins(t) \/ D!Downloads(t)
  BY <1>2, BeginsKeeps, ProbesKeeps, RangedLandsKeeps, RangedFailsKeeps, DrainsKeeps, GetsKeeps
  DEF D!Downloads
<1>3. ASSUME NEW r \in D!Ranges, D!WorkerFetches(r) \/ D!WorkerOpens(r) \/ D!WorkerWrites(r)
      PROVE  DownInv(t)'
  <2>1. PICK c \in 1..MaxCalls, p \in 1..Width : r = <<c, p>>
    BY DEF D!Ranges, D!Calls, D!Parts
  <2> QED
    BY <1>3, <2>1, WorkerFetchesKeeps, WorkerOpensKeeps, WorkerWritesKeeps
<1>4. CASE UNCHANGED D!vars
  BY <1>4 DEF D!vars, D!mine, D!disk, D!ranged, DownInv, DownTypes, WorkersServe, CallHolds, StreamHolds,
              Landed, Versions, D!Span, D!Part
<1> QED
  BY <1>1, <1>2, <1>3, <1>4 DEF D!Next, D!Rests

(* Where one thread at a time downloads to a path, what a call returns from *)
(* an origin that frames its bodies has the length of a version it held,    *)
(* and from one that tags them too every block is of that version, wherever *)
(* the object was replaced, however often the call resumed, and whatever a  *)
(* worker that outlived an earlier call still does (cp.download).           *)
THEOREM OnlyWholeObjects ==
  ASSUME NEW t, Threads = {t}
  PROVE  D!Spec => []WholeObject
<1>1. D!Init => DownInv(t)
  BY DownBegins
<1>2. DownInv(t) /\ [D!Next]_(D!vars) => DownInv(t)'
  BY DownStep
<1>3. DownInv(t) => WholeObject
  <2> SUFFICES ASSUME DownInv(t), dpc[t] = "done", origin.framed
               PROVE  \E v \in 1..origin.version : /\ Len(file) = D!Size(v)
                                                   /\ origin.tagged => file = D!Whole(v)
    BY DEF WholeObject, D!WholeObject
  <2> QED
    BY DEF DownInv, Landed, Versions, D!Size, D!Whole
<1> QED
  BY <1>1, <1>2, <1>3, PTL DEF D!Spec

=============================================================================
