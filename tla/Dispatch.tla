------------------------------- MODULE Dispatch -------------------------------
(***************************************************************************)
(* The agent's dispatch loop (main.py): it claims envelopes from the event *)
(* stream, hands each to the pool of its lane, and stops claiming when a   *)
(* worker trips one of the coordinator's latches: a chain that needs       *)
(* another ops pack asks for a restart, a fault of the card for an end.    *)
(* Then the process drains and execs itself, or stops.                     *)
(*                                                                         *)
(* The stream is what EventStream and StreamState promise: a job is held   *)
(* from its delivery until a terminal is durable, a held job of an earlier *)
(* process is claimed again, and admission may be latched.                 *)
(***************************************************************************)
EXTENDS Naturals, Sequences, FiniteSets, SequencesExt

CONSTANTS
  Jobs, Packs,
  Loads,        \* sets of jobs the control plane may have for this pod
  Kind,         \* per job: "ops", "infer", "clip_rank" or "render"
  Pack,         \* per job: the ops pack its chain names
  Label,        \* per job: the corr_id it is tracked under; it may repeat
  Invalid,      \* jobs whose envelope fails validation
  Infra,        \* jobs that may meet an infra-class fault
  Width,        \* per lane: threads of its pool
  Coexist,      \* kinds_coexist: the rank lane is its own
  FlipMax,      \* _FLIP_MAX_PER_HOUR
  PendingCap,   \* DELIVERY_PENDING_MAX_ATTEMPTS
  UnhealthyCap, \* _transport_unhealthy_max_attempts
  MaxFaults,    \* bound: failed writes and ambiguous answers
  MaxBoots      \* bound: processes

Lanes     == {"ops", "heavy", "rank"}
None      == "none"
Interrupt == "interrupt"   \* _CLAIM_INTERRUPT

ASSUME DispatchAssumption ==
  /\ IsFiniteSet(Jobs) /\ {None, Interrupt} \cap Jobs = {} /\ None \notin Packs
  /\ Kind \in [Jobs -> {"ops", "infer", "clip_rank", "render"}] /\ Pack \in [Jobs -> Packs]
  /\ Invalid \subseteq Jobs /\ Infra \subseteq Jobs /\ Coexist \in BOOLEAN
  /\ Width \in [Lanes -> Nat \ {0}]
  /\ {FlipMax, PendingCap, UnhealthyCap, MaxFaults, MaxBoots} \subseteq Nat

VARIABLES
  inbox,   \* per job: "out", "held", "reported"; durable
  flips,   \* restarts in the trailing hour, by the history file; durable
  boots,   \* processes so far
  faults,  \* failed writes and ambiguous answers so far
  queue,   \* the stream's claim queue
  sick,    \* the stream's admission latch: "none", "pending" or "storage"
  open,    \* the stream is not closed
  loop,    \* the dispatch thread: pc, the job in hand, whether it was claimed under an infra fault
  fails,   \* pending_attempts and unhealthy_attempts
  worker,  \* per job: "none", "pool", "run", "latch", "wake", "report", "done" or "lost"
  fate,    \* per job: how its run ended
  tracked, \* the coordinator's futures: <<key, job>>
  latch,   \* the coordinator's latches
  active,  \* the ops pack of this process
  boot,    \* boot[0]: some job holds the right to bill the boot
  mine,    \* jobs that took it
  billed,  \* results of this process that carry boot_s
  expired  \* the drain's deadline has passed

stream == <<queue, sick, open>>
work   == <<worker, fate, tracked>>
bill   == <<boot, mine, billed>>
kept   == <<inbox, flips, boots>>
vars   == <<kept, faults, stream, loop, fails, work, latch, active, bill, expired>>

Up          == loop.pc \notin {"gone"}
Active      == {j \in Jobs : worker[j] \in {"pool", "run", "latch", "wake", "report"}}
Latched     == latch.infra \/ latch.restart # None
Lane(j)     == IF Kind[j] = "ops" THEN "ops"
               ELSE IF Kind[j] = "clip_rank" /\ Coexist THEN "rank" ELSE "heavy"
BillsBoot(j) == Kind[j] \in {"infer", "clip_rank"}
At(where)   == loop' = [loop EXCEPT !.pc = where]
Becomes(j, step) == worker' = [worker EXCEPT ![j] = step]

-----------------------------------------------------------------------------
(* The stream, as the loop and the workers meet it. *)

Delivers(j) ==
  /\ Up /\ open /\ inbox[j] = "out" /\ sick \in {"none", "pending"}
  /\ inbox' = [inbox EXCEPT ![j] = "held"] /\ queue' = Append(queue, j)
  /\ UNCHANGED <<flips, boots, faults, sick, open, loop, fails, work, latch, active, bill, expired>>

Sickens ==
  /\ Up /\ open /\ sick = "none" /\ faults < MaxFaults
  /\ faults' = faults + 1 /\ sick' \in {"pending", "storage"}
  /\ UNCHANGED <<kept, queue, open, loop, fails, work, latch, active, bill, expired>>

(* The outbox is empty again, or a write succeeds. *)
Heals ==
  /\ Up /\ sick # "none" /\ sick' = "none"
  /\ UNCHANGED <<kept, faults, queue, open, loop, fails, work, latch, active, bill, expired>>

Writable == sick # "storage"

(* A result: one durable step with the end of its job, then its ACK, which  *)
(* a closed stream never brings.                                            *)
Acked(j)     == Writable /\ open /\ inbox' = [inbox EXCEPT ![j] = "reported"] /\ UNCHANGED <<faults, sick>>
Ambiguous(j) ==
  /\ Writable /\ inbox' = [inbox EXCEPT ![j] = "reported"]
  /\ IF open THEN faults < MaxFaults /\ faults' = faults + 1 ELSE UNCHANGED faults
  /\ sick' = "pending"

-----------------------------------------------------------------------------
(* _dispatch_loop *)

Checks ==
  /\ loop.pc = "check" /\ At(IF Latched THEN "leave" ELSE "claim")
  /\ UNCHANGED <<kept, faults, stream, fails, work, latch, active, bill, expired>>

(* What the loop makes of DeliveryPending and of TransportUnhealthy: each   *)
(* counts on its own, past its cap the process exits with code 4.           *)
Raises(what) ==
  /\ fails' = [fails EXCEPT ![what] = @ + 1]
  /\ loop' = [pc |-> IF fails[what] = (IF what = "pending" THEN PendingCap ELSE UnhealthyCap)
                     THEN "exiting" ELSE "check",
              job |-> None, under |-> FALSE]

Healthy == fails' = [pending |-> 0, storage |-> 0]

(* Mutant of ClaimRaises: the job is not put back. *)
DropsBehindLatch ==
  /\ loop.pc = "claim" /\ sick # "none"
  /\ queue' = IF queue = << >> THEN queue ELSE Tail(queue)
  /\ Raises(sick)
  /\ UNCHANGED <<kept, faults, sick, open, work, latch, active, bill, expired>>

(* claim: a latched admission raises; a job taken before it is seen is put  *)
(* back behind the others.                                                  *)
ClaimRaises ==
  /\ loop.pc = "claim" /\ sick # "none"
  /\ queue' \in {queue} \cup (IF queue # << >> /\ Head(queue) # Interrupt
                              THEN {Append(Tail(queue), Head(queue))} ELSE {})
  /\ Raises(sick)
  /\ UNCHANGED <<kept, faults, sick, open, work, latch, active, bill, expired>>

(* None: an interrupt, or the claim's wall. *)
ClaimsNothing ==
  /\ loop.pc = "claim" /\ sick = "none" /\ Healthy /\ At("check")
  /\ \/ queue = << >> /\ UNCHANGED queue
     \/ queue # << >> /\ Head(queue) = Interrupt /\ queue' = Tail(queue)
  /\ UNCHANGED <<kept, faults, sick, open, work, latch, active, bill, expired>>

Claims ==
  /\ loop.pc = "claim" /\ sick = "none" /\ Healthy
  /\ queue # << >> /\ Head(queue) # Interrupt /\ queue' = Tail(queue)
  /\ loop' = [pc |-> "recheck", job |-> Head(queue), under |-> latch.infra]
  /\ UNCHANGED <<kept, faults, sick, open, work, latch, active, bill, expired>>

(* A write of the loop that fails raises; the job in hand is let go.        *)
WriteFails ==
  /\ ~Writable /\ Raises("storage") /\ Becomes(loop.job, "lost")
  /\ UNCHANGED <<inbox, faults, sick, fate, tracked>>

(* _dispatch_validation_terminal: the event, then the result. *)
Refuses(next) ==
  /\ \/ Acked(loop.job) /\ UNCHANGED <<fails, work>> /\ loop' = [pc |-> next, job |-> None, under |-> FALSE]
     \/ Ambiguous(loop.job) /\ Raises("pending") /\ UNCHANGED work
     \/ WriteFails
  /\ UNCHANGED <<flips, boots, queue, open, latch, active, bill, expired>>

(* A worker whose durable write fails raises, as the loop does. *)
Loses(j) ==
  /\ ~Writable /\ Becomes(j, "lost") /\ tracked' = {t \in tracked : t[2] # j}
  /\ UNCHANGED <<inbox, faults, sick, boot, mine, billed, fate>>

(* The fault may have landed while the claim was in flight. *)
Rechecks ==
  /\ loop.pc = "recheck"
  /\ IF latch.infra THEN Refuses("leave")
     ELSE /\ At("validate") /\ UNCHANGED <<kept, faults, stream, fails, work, latch, active, bill, expired>>

(* "received", the envelope's validation, "queued": each event is a write.  *)
Validates ==
  /\ loop.pc = "validate"
  /\ \/ WriteFails /\ UNCHANGED <<flips, boots, queue, open, latch, active, bill, expired>>
     \/ Writable /\ loop.job \in Invalid /\ Refuses("check")
     \/ Writable /\ loop.job \notin Invalid /\ At("submit")
        /\ UNCHANGED <<kept, faults, stream, fails, work, latch, active, bill, expired>>

Submits ==
  /\ loop.pc = "submit" /\ Becomes(loop.job, "pool") /\ At("track")
  /\ UNCHANGED <<kept, faults, stream, fails, fate, tracked, latch, active, bill, expired>>

(* Mutant of Key: futures are kept by their label. *)
KeyByLabel(j) == Label[j]

Key(j) == j

(* track: a future that is done already drops itself out at once. *)
Tracks ==
  /\ loop.pc = "track"
  /\ tracked' = IF loop.job \in Active
                THEN {t \in tracked : t[1] # Key(loop.job)} \cup {<<Key(loop.job), loop.job>>} ELSE tracked
  /\ loop' = [pc |-> "check", job |-> None, under |-> FALSE]
  /\ UNCHANGED <<kept, faults, stream, fails, worker, fate, latch, active, bill, expired>>

-----------------------------------------------------------------------------
(* The workers: _guarded(_with_lifecycle(...)) in a thread of the lane's    *)
(* pool. A future that is done leaves the coordinator.                      *)

Untracked(j) == tracked' = {t \in tracked : t[1] # Key(j)}

(* "started" is a write; then an infer job asks for the boot (_claim_boot). *)
Starts(j) ==
  /\ worker[j] = "pool"
  /\ Cardinality({k \in Active : Lane(k) = Lane(j) /\ worker[k] # "pool"}) < Width[Lane(j)]
  /\ \/ Loses(j)
     \/ /\ Writable /\ Becomes(j, "run") /\ UNCHANGED <<inbox, faults, sick, fate, tracked, billed>>
        /\ IF BillsBoot(j)
           THEN boot' = TRUE /\ mine' = IF boot THEN mine ELSE mine \cup {j}
           ELSE UNCHANGED <<boot, mine>>
  /\ UNCHANGED <<flips, boots, queue, open, loop, fails, latch, active, expired>>

Ends(j, how, step) == fate' = [fate EXCEPT ![j] = how] /\ Becomes(j, step)

(* A chain of another pack than the process's needs a restart; its run ends *)
(* well, or with an error, which the sink hears at once if it is of an      *)
(* infra class.                                                             *)
RunsChain(j) ==
  /\ Kind[j] = "ops"
  /\ IF active \in {None, Pack[j]}
     THEN /\ active' = Pack[j]
          /\ \/ \E how \in {"ok", "error"} : Ends(j, how, "report")
             \/ j \in Infra /\ Ends(j, "infra", "latch")
     ELSE UNCHANGED active /\ Ends(j, "restart", "latch")

(* The other stages report, then the latch hears of an infra class; render  *)
(* tells no one.                                                            *)
RunsStage(j) ==
  /\ Kind[j] # "ops" /\ UNCHANGED active
  /\ \E how \in {"ok", "error"} \cup (IF j \in Infra /\ Kind[j] # "render" THEN {"infra"} ELSE {}) :
       Ends(j, how, "report")

Finishes(j) ==
  /\ worker[j] = "run" /\ (RunsChain(j) \/ RunsStage(j))
  /\ UNCHANGED <<kept, faults, stream, loop, fails, tracked, latch, bill, expired>>

SetsLatch(j) ==
  /\ latch' = IF fate[j] = "restart"
              THEN [latch EXCEPT !.restart = IF @ = None THEN Pack[j] ELSE @]
              ELSE [latch EXCEPT !.infra = TRUE]
  /\ UNCHANGED queue
WakesClaim == queue' = Append(queue, Interrupt) /\ UNCHANGED latch

(* Mutant of Signals: the claim is woken before the latch is set. *)
SignalsBackwards(j, step) == IF step = 2 THEN SetsLatch(j) ELSE WakesClaim

(* "Latch first, THEN wake the claim": request_restart, which keeps the     *)
(* first pack named, or report_infra_fault; then interrupt_claim.           *)
Signals(j, step) == IF step = 1 THEN SetsLatch(j) ELSE WakesClaim

Latches(j) ==
  /\ worker[j] = "latch" /\ Becomes(j, "wake") /\ Signals(j, 1)
  /\ UNCHANGED <<kept, faults, sick, open, loop, fails, fate, tracked, active, bill, expired>>

(* Mutant of Releases: any infer job that failed gives the boot back. *)
AnyReleases(j) == BillsBoot(j) /\ fate[j] # "ok"

(* A failed job that took the boot gives it back. *)
Releases(j) == j \in mine /\ fate[j] # "ok"

Done(j) ==
  /\ Becomes(j, "done") /\ Untracked(j) /\ UNCHANGED fate
  /\ boot' = (boot /\ ~Releases(j)) /\ mine' = mine \ (IF Releases(j) THEN {j} ELSE {})

(* A chain that needs the restart leaves no terminal; one that met a fault  *)
(* goes on to its own.                                                      *)
Wakes(j) ==
  /\ worker[j] = "wake" /\ Signals(j, 2)
  /\ IF Kind[j] = "ops" /\ fate[j] = "infra"
     THEN Becomes(j, "report") /\ UNCHANGED <<fate, tracked, boot, mine>>
     ELSE Done(j)
  /\ UNCHANGED <<kept, faults, sick, open, loop, fails, active, billed, expired>>

Bills(j) == billed' = IF j \in mine /\ fate[j] = "ok" THEN billed + 1 ELSE billed

(* The terminal. An ambiguous ACK raises past what would follow it.         *)
Reports(j) ==
  /\ worker[j] = "report"
  /\ \/ Acked(j) /\ Bills(j) /\ IF Kind[j] # "ops" /\ fate[j] = "infra"
                                THEN Becomes(j, "latch") /\ UNCHANGED <<fate, tracked, boot, mine>>
                                ELSE Done(j)
     \/ Ambiguous(j) /\ Bills(j) /\ Becomes(j, "done") /\ Untracked(j) /\ UNCHANGED <<fate, boot, mine>>
     \/ Loses(j)
  /\ UNCHANGED <<flips, boots, queue, open, loop, fails, latch, active, expired>>

-----------------------------------------------------------------------------
(* The way out: main, _drain_and_restart, _drain_and_stop_on_infra_fault. *)

(* A fault comes before a restart. The flip guard comes before the close.   *)
Leaves ==
  /\ loop.pc = "leave"
  /\ IF latch.infra THEN At("drain") /\ UNCHANGED <<flips, open>>
     ELSE IF flips >= FlipMax THEN At("exiting") /\ UNCHANGED <<flips, open>>   \* RestartRefused
     ELSE At("drainRestart") /\ open' = FALSE /\ flips' \in {flips, flips + 1}          \* or it could not be written
  /\ UNCHANGED <<inbox, boots, faults, queue, sick, fails, work, latch, active, bill, expired>>

Draining == {"drain", "drainRestart"}

(* Mutant of Drains: the wait has no deadline. *)
DrainsAll ==
  /\ loop.pc \in Draining /\ tracked = {}
  /\ IF loop.pc = "drainRestart" THEN At("exec") /\ UNCHANGED open ELSE At("exiting") /\ open' = FALSE
  /\ UNCHANGED <<kept, faults, queue, sick, fails, work, latch, active, bill, expired>>

(* _drain_pending, then the stream is closed if it was not; orphans are     *)
(* killed.                                                                  *)
Drains ==
  /\ loop.pc \in Draining
  /\ expired' \in {tracked # {}}
  /\ IF loop.pc = "drainRestart" THEN At("exec") /\ UNCHANGED open ELSE At("exiting") /\ open' = FALSE
  /\ UNCHANGED <<kept, faults, queue, sick, fails, work, latch, active, bill>>

(* A new process: nothing of the old one is left but its files; the held    *)
(* jobs are claimed again.                                                  *)
Boots ==
  /\ boots' = boots + 1 /\ UNCHANGED <<inbox, faults>>
  /\ queue' = SetToSeq({j \in Jobs : inbox[j] = "held"}) /\ sick' = "none" /\ open' = TRUE
  /\ loop' = [pc |-> "check", job |-> None, under |-> FALSE] /\ Healthy
  /\ worker' = [j \in Jobs |-> None] /\ fate' = [j \in Jobs |-> None] /\ tracked' = {}
  /\ latch' = [restart |-> None, infra |-> FALSE] /\ active' = None
  /\ boot' = FALSE /\ mine' = {} /\ billed' = 0 /\ expired' = FALSE

(* execv, or os._exit when it fails. *)
Execs ==
  /\ loop.pc = "exec"
  /\ \/ boots < MaxBoots /\ Boots /\ UNCHANGED flips
     \/ At("gone") /\ UNCHANGED <<kept, faults, stream, fails, work, latch, active, bill, expired>>

(* sys.exit and RestartRefused pass the pools' `with`, which waits for      *)
(* every worker.                                                            *)
Exits ==
  /\ loop.pc = "exiting" /\ Active = {} /\ At("gone")
  /\ UNCHANGED <<kept, faults, stream, fails, work, latch, active, bill, expired>>

Dies ==
  /\ Up /\ boots < MaxBoots /\ Boots /\ UNCHANGED flips

(* The hour passes. *)
Forgets ==
  /\ Up /\ flips > 0 /\ flips' = flips - 1
  /\ UNCHANGED <<inbox, boots, faults, stream, loop, fails, work, latch, active, bill, expired>>

-----------------------------------------------------------------------------
Rests == loop.pc = "gone" /\ UNCHANGED vars

Init ==
  /\ \E load \in Loads : inbox = [j \in Jobs |-> IF j \in load THEN "out" ELSE "reported"]
  /\ flips = 0 /\ boots = 1 /\ faults = 0
  /\ queue = << >> /\ sick = "none" /\ open = TRUE
  /\ loop = [pc |-> "check", job |-> None, under |-> FALSE] /\ fails = [pending |-> 0, storage |-> 0]
  /\ worker = [j \in Jobs |-> None] /\ fate = [j \in Jobs |-> None] /\ tracked = {}
  /\ latch = [restart |-> None, infra |-> FALSE] /\ active = None
  /\ boot = FALSE /\ mine = {} /\ billed = 0 /\ expired = FALSE

Loops ==
  \/ Checks \/ ClaimRaises \/ ClaimsNothing \/ Claims \/ Rechecks \/ Validates \/ Submits \/ Tracks
  \/ Leaves \/ Drains \/ Execs \/ Exits
Works(j) == Starts(j) \/ Finishes(j) \/ Latches(j) \/ Wakes(j) \/ Reports(j)
Next ==
  \/ Loops \/ Sickens \/ Heals \/ Dies \/ Forgets \/ Rests
  \/ \E j \in Jobs : Delivers(j) \/ Works(j)

(* The dispatch thread runs: its claim has a wall, its drain a deadline. A  *)
(* worker runs too, but nothing bounds the stage it runs.                   *)
Spec ==
  /\ Init /\ [][Next]_vars /\ WF_vars(Loops)
  /\ \A j \in Jobs : WF_vars(Starts(j) \/ Latches(j) \/ Wakes(j) \/ Reports(j))

-----------------------------------------------------------------------------
(* A latch is heard: the loop never waits in a claim that nothing will end  *)
(* before its wall, and a job it claims after a fault of the card is not    *)
(* handed to a pool, wherever in the claim the fault landed.                *)
LatchIsHeard ==
  /\ loop.pc = "claim" /\ Latched =>
       \/ queue # << >> \/ sick # "none" \/ \E j \in Jobs : worker[j] = "wake"
  /\ loop.pc \in {"submit", "track"} => ~loop.under

(* A process that execs before its drain's deadline leaves no worker behind *)
(* in the middle of a job.                                                  *)
RestartLeavesNoWork == loop.pc = "exec" /\ ~expired => Active = {}

(* The boot is billed once by a process, whichever lanes race for it and    *)
(* however many of their jobs fail.                                         *)
BootBilledOnce == billed <= 1

(* A held job is somewhere: queued, in the loop's hand, with a worker, or   *)
(* waiting for the restart its pack needs; or a failed write ended it.      *)
HeldIsSomewhere ==
  \A j \in Jobs : Up /\ inbox[j] = "held" =>
    \/ j \in ToSet(queue) \/ loop.job = j \/ j \in Active \/ worker[j] = "lost"
    \/ worker[j] = "done" /\ fate[j] = "restart" /\ latch.restart # None

(* A latch ends the loop: the process leaves for its pools' end, execs or   *)
(* is gone, even if a worker never ends.                                    *)
LatchEndsLoop == Latched ~> (~Latched \/ loop.pc \in {"exiting", "gone"})

(* "An error whose text names an infra class is reported FIRST and only     *)
(* then latches `coordinator`" (_run_infer): when such a job is over, the   *)
(* latch is set.                                                            *)
FaultIsLatched == \A j \in Jobs : worker[j] = "done" /\ fate[j] = "infra" => latch.infra

=============================================================================
