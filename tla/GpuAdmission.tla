---------------------------- MODULE GpuAdmission ----------------------------
(***************************************************************************)
(* The VRAM ledger around the GPU handlers (ops/gpu_admission.py): one     *)
(* budget, reservations against it, a FIFO of parked threads on one        *)
(* condition variable, and park deadlines priced at entry. Each action is  *)
(* one hold of `_cond`, or the unlocked stretch between two of them: the   *)
(* read of the card, the read of the cached budget, the caller's on_park.  *)
(*                                                                         *)
(* A thread has one admission() at a time, so the thread stands for its    *)
(* token. The pinned budget of the tests is left out.                      *)
(***************************************************************************)
EXTENDS Integers, Sequences, FiniteSets, Functions

CONSTANTS
  Threads,     \* threads of the chains that run heavy ops
  Needs,       \* explicit needs, in MiB of the model; Whole stands for None
  Whole,
  Levels,      \* external: free VRAM of the card while no heavy op runs
  Reserve,     \* _VRAM_RESERVE_MB
  Session,     \* NVENC_SESSION_MIB
  MaxParked,   \* MAX_PARKED
  Ceiling,     \* HEAVY_OP_CEILING_S, in ticks of the model's clock
  CapCeilings  \* HEAVY_PARK_CEILING_S, in ceilings

ASSUME LedgerAssumption ==
  /\ IsFiniteSet(Threads) /\ Whole \notin Nat /\ Needs \subseteq Nat \cup {Whole}
  /\ Reserve \in Nat
  /\ {Session, MaxParked, Ceiling, CapCeilings} \subseteq Nat \ {0}
  /\ Levels \subseteq Nat /\ Levels # {}

VARIABLES
  queue,    \* _queue
  live,     \* _live: MiB held per thread, 0 for none
  budget,   \* _budget, 0 for None
  asleep,   \* threads inside _cond.wait()
  pc,       \* where each thread stands
  call,     \* the locals of its admission() and reserve()
  vram      \* external: free VRAM with no heavy op running

lockVars == <<queue, live, asleep>>
vars     == <<lockVars, budget, pc, call, vram>>

-----------------------------------------------------------------------------
(* measured: what refresh_budget holds (first `cached`, 0 for None); priced: *)
(* reserve's budget; whole: need_mib was None, the handler sizes itself;    *)
(* entry: ahead + admitted when the deadline was priced; left: ticks to the *)
(* deadline; ran: ticks in the handler. Locals go when they are last used.  *)
(* lent is a history: ticks of this park in which some admission was held   *)
(* outside its handler.                                                     *)
NoCall == [measured |-> 0, priced |-> 0, need |-> 0, whole |-> FALSE,
           entry |-> 0, left |-> 0, lent |-> 0, ran |-> 0]

Larger(a, b)  == IF a > b THEN a ELSE b
Smaller(a, b) == IF a < b THEN a ELSE b
Parked      == {queue[i] : i \in DOMAIN queue}
Admitted    == {t \in Threads : live[t] # 0}
SumOf(held) == FoldFunction(+, 0, held)
ReservedMib == SumOf(live)
Idle        == Admitted = {} /\ queue = <<>>

(* _measure_budget of a card that answers; one that does not is worth one session. *)
MeasureBudget(free) == Larger(free - Reserve, Session)

(* Mutant of ParkDeadline: one ceiling, whatever is ahead. *)
FlatDeadline(ahead, admitted) == Ceiling

(* park_deadline_s *)
ParkDeadline(ahead, admitted) == Smaller(Larger(ahead + admitted, 1), CapCeilings) * Ceiling

FitsNow(t)    == ReservedMib + call[t].need <= call[t].priced
Admissible(t) == Head(queue) = t /\ FitsNow(t)

Goes(t, where) == pc' = [pc EXCEPT ![t] = where]
Returns(t)     == Goes(t, "out") /\ call' = [call EXCEPT ![t] = NoCall]
NotifyAll      == asleep' = {}

-----------------------------------------------------------------------------
(* admission() refuses a thread that already holds it, and refreshes the    *)
(* budget: what was cached is kept while the ledger is busy.                *)

Enters(t) ==
  /\ pc[t] = "out"
  /\ IF budget # 0 /\ ~Idle
     THEN Goes(t, "price") /\ UNCHANGED call
     ELSE Goes(t, "read") /\ call' = [call EXCEPT ![t].measured = budget]
  /\ UNCHANGED <<lockVars, budget, vram>>

(* nvidia-smi, outside the lock: what the running heavies allocated is taken. *)
ReadsCard(t) ==
  /\ pc[t] = "read"
  /\ call' = [call EXCEPT ![t].measured = MeasureBudget(vram - ReservedMib)]
  /\ Goes(t, "write")
  /\ UNCHANGED <<lockVars, budget, vram>>

(* With nothing cached _measure_budget reads once more; then both have failed. *)
ReadFails(t) ==
  /\ pc[t] = "read"
  /\ IF call[t].measured # 0
     THEN Goes(t, "price") /\ call' = [call EXCEPT ![t] = NoCall]
     ELSE Goes(t, "write") /\ call' = [call EXCEPT ![t].measured = Session]
  /\ UNCHANGED <<lockVars, budget, vram>>

WritesBudget(t) ==
  /\ pc[t] = "write"
  /\ budget' = IF budget = 0 \/ Idle THEN call[t].measured ELSE budget
  /\ Goes(t, "price") /\ call' = [call EXCEPT ![t] = NoCall]
  /\ UNCHANGED <<lockVars, vram>>

-----------------------------------------------------------------------------
(* reserve() *)

(* Mutant of NeedOf: None books one session. *)
OneSession(n) == IF n = Whole THEN Session ELSE n

NeedOf(n) == IF n = Whole THEN budget ELSE n

(* The cached budget is read once, before the lock is taken. *)
Prices(t) ==
  /\ pc[t] = "price"
  /\ \E n \in Needs :
       call' = [call EXCEPT ![t] = [NoCall EXCEPT !.priced = budget, !.need = NeedOf(n),
                                                  !.whole = (n = Whole)]]
  /\ Goes(t, "park")
  /\ UNCHANGED <<lockVars, budget, vram>>

HasRoom     == Len(queue) < MaxParked
InBudget(t) == 0 < call[t].need /\ call[t].need <= call[t].priced

Refused(t) ==
  /\ pc[t] = "park"
  /\ ~(InBudget(t) /\ HasRoom)
  /\ Returns(t)
  /\ UNCHANGED <<lockVars, budget, vram>>

Parks(t) ==
  LET ahead    == Len(queue)
      admitted == Cardinality(Admitted)
  IN /\ pc[t] = "park" /\ InBudget(t) /\ HasRoom
     /\ queue' = Append(queue, t)
     /\ call' = [call EXCEPT ![t].entry = ahead + admitted,
                             ![t].left = ParkDeadline(ahead, admitted)]
     /\ Goes(t, IF queue = <<>> /\ FitsNow(t) THEN "wait" ELSE "hook")
     /\ UNCHANGED <<live, asleep, budget, vram>>

(* on_park emits a durable event, which may raise. *)
HookEnds(t) ==
  /\ pc[t] = "hook"
  /\ \/ Goes(t, "wait") /\ UNCHANGED call
     \/ Goes(t, "unwind") /\ call' = [call EXCEPT ![t] = NoCall]
  /\ UNCHANGED <<lockVars, budget, vram>>

Awake(t) == pc[t] = "wait" /\ t \notin asleep

Admits(t) ==
  /\ Awake(t) /\ Admissible(t)
  /\ queue' = Tail(queue)
  /\ live' = [live EXCEPT ![t] = call[t].need]
  /\ NotifyAll
  /\ Goes(t, "slot") /\ call' = [call EXCEPT ![t] = [NoCall EXCEPT !.whole = call[t].whole]]
  /\ UNCHANGED <<budget, vram>>

Sleeps(t) ==
  /\ Awake(t) /\ ~Admissible(t) /\ call[t].left > 0
  /\ asleep' = asleep \cup {t}
  /\ UNCHANGED <<queue, live, budget, pc, call, vram>>

WaitExpires(t) ==
  /\ t \in asleep /\ call[t].left = 0
  /\ asleep' = asleep \ {t}
  /\ UNCHANGED <<queue, live, budget, pc, call, vram>>

TimesOut(t) ==
  /\ Awake(t) /\ ~Admissible(t) /\ call[t].left = 0
  /\ Goes(t, "unwind") /\ call' = [call EXCEPT ![t] = NoCall]
  /\ UNCHANGED <<lockVars, budget, vram>>

Without(i) == SubSeq(queue, 1, i - 1) \o SubSeq(queue, i + 1, Len(queue))

(* Mutant of Unwinds: nobody is told that the queue has moved. *)
UnwindsSilently(t) ==
  /\ pc[t] = "unwind"
  /\ \E i \in DOMAIN queue : queue[i] = t /\ queue' = Without(i)
  /\ Returns(t)
  /\ UNCHANGED <<live, asleep, budget, vram>>

(* What raised let go of the lock; the token leaves in a lock hold of its own. *)
Unwinds(t) ==
  /\ pc[t] = "unwind"
  /\ \E i \in DOMAIN queue : queue[i] = t /\ queue' = Without(i)
  /\ NotifyAll
  /\ Returns(t)
  /\ UNCHANGED <<live, budget, vram>>

(* The caller's block. Admitted, a step announces it and waits for a step   *)
(* slot like any other; then its handler runs; what it made is stored.      *)
StartsHandler(t) ==
  /\ pc[t] = "slot" /\ Goes(t, "run")
  /\ UNCHANGED <<lockVars, budget, call, vram>>

HandlerEnds(t) ==
  /\ pc[t] = "run" /\ Goes(t, "close")
  /\ call' = [call EXCEPT ![t].ran = 0]
  /\ UNCHANGED <<lockVars, budget, vram>>

(* The block is left, at its end or by what raised in it. *)
Releases(t) ==
  /\ pc[t] \in {"slot", "close"}
  /\ live' = [live EXCEPT ![t] = 0]
  /\ NotifyAll
  /\ Returns(t)
  /\ UNCHANGED <<queue, budget, vram>>

Thread(t) ==
  \/ ReadsCard(t) \/ ReadFails(t) \/ WritesBudget(t) \/ Prices(t) \/ Refused(t) \/ Parks(t)
  \/ HookEnds(t) \/ Admits(t) \/ Sleeps(t) \/ WaitExpires(t) \/ TimesOut(t) \/ Unwinds(t)
  \/ StartsHandler(t) \/ HandlerEnds(t) \/ Releases(t)

-----------------------------------------------------------------------------
(* The card and the clock *)

(* The pod's own models take memory for good. *)
WeightsLoad ==
  /\ \E v \in Levels : v < vram /\ vram' = v
  /\ UNCHANGED <<lockVars, budget, pc, call>>

(* Time passes while handlers run and waiters sleep; a step that only needs *)
(* the lock takes none, and no handler outlives its sanctioned ceiling. An  *)
(* admission is held for longer than its handler runs: the wait for a step  *)
(* slot has no bound.                                                       *)
Aside(t) == pc[t] \in {"slot", "close"}

Dormant(t) ==
  \/ pc[t] \in {"out", "read"} \/ Aside(t)
  \/ pc[t] = "run" /\ call[t].ran < Ceiling
  \/ t \in asleep /\ call[t].left > 0

Lent == IF \E t \in Threads : Aside(t) THEN 1 ELSE 0

Tick ==
  /\ asleep # {} /\ \A t \in Threads : Dormant(t)
  /\ call' = [t \in Threads |->
       CASE t \in asleep  -> [call[t] EXCEPT !.left = @ - 1, !.lent = @ + Lent]
         [] pc[t] = "run" -> [call[t] EXCEPT !.ran = @ + 1]
         [] OTHER         -> call[t]]
  /\ UNCHANGED <<lockVars, budget, pc, vram>>

Init ==
  /\ queue = <<>> /\ asleep = {} /\ budget = 0
  /\ live = [t \in Threads |-> 0] /\ pc = [t \in Threads |-> "out"]
  /\ call = [t \in Threads |-> NoCall]
  /\ vram \in Levels

Next == WeightsLoad \/ Tick \/ \E t \in Threads : Enters(t) \/ Thread(t)

Spec == Init /\ [][Next]_vars

-----------------------------------------------------------------------------
(* Properties *)

(* A waiter that could be admitted is never left asleep until its deadline: *)
(* every change of the head and of the reservations reaches the sleepers.   *)
NoLostWakeup == \A t \in asleep : ~Admissible(t)

(* "Each op ahead of this one may legitimately run its whole sanctioned     *)
(* ceiling": while every handler keeps to its ceiling, a park whose price   *)
(* HEAVY_PARK_CEILING_S did not cut times out only for time lent: what the  *)
(* handlers ahead of it may still take is no more than the time admissions  *)
(* were held outside their handlers, the wait for a step slot, which is     *)
(* not priced.                                                              *)
MayTake == [t \in Threads |-> IF pc[t] \in {"slot", "run"} THEN Ceiling - call[t].ran ELSE 0]
StillAhead(i) == (i - 1) * Ceiling + SumOf(MayTake)
PricedDeadlineSuffices ==
  [][\A t \in Threads : TimesOut(t) =>
        \/ call[t].entry > CapCeilings
        \/ \E i \in DOMAIN queue : queue[i] = t /\ StillAhead(i) <= call[t].lent]_vars

(* "Two self-sizing heavies must not run side by side", whatever explicit   *)
(* needs and refreshed budgets they are mixed with.                         *)
SelfSizersExclude == \A t, u \in Admitted : call[t].whole /\ call[u].whole => t = u

(* "The constraint is the physical card": reservations made against older   *)
(* and newer budgets never add up to more than the card has at its emptiest. *)
CardIsNeverOversold == \E v \in Levels : ReservedMib <= MeasureBudget(v)

(* Both: no self-sizer runs beside another, and the card is never oversold. *)
CardIsShared == SelfSizersExclude /\ CardIsNeverOversold

=============================================================================
