------------------------- MODULE GpuAdmissionProofs -------------------------
(***************************************************************************)
(* What the VRAM ledger promises for every number of threads, every need,  *)
(* every card and every bound: no waiter sleeps on a lost wake-up, what is *)
(* reserved fits the card, and a deadline whose price was not cut is       *)
(* enough.                                                                 *)
(***************************************************************************)
EXTENDS GpuAdmission, Sums, SequenceTheorems, TLAPS

Places  == {"out", "read", "write", "price", "park", "hook", "wait", "unwind", "slot", "run", "close"}
Fields  == DOMAIN NoCall
Waiting == {"hook", "wait", "unwind"}
Dated   == {"hook", "wait"}
Held    == {"slot", "run", "close"}
Owing   == {"slot", "run"}

(* The shape of the ledger: whoever waits is in the queue, whoever sleeps   *)
(* waits. What the locals hold is left open.                                *)
Shape ==
  /\ queue \in Seq(Threads) /\ asleep \subseteq Threads
  /\ pc \in [Threads -> Places]
  /\ DOMAIN call = Threads /\ \A t \in Threads : DOMAIN call[t] = Fields
  /\ \A t \in Threads : pc[t] \in Waiting => \E i \in DOMAIN queue : queue[i] = t
  /\ \A t \in asleep : pc[t] = "wait"

WakeupInv == Shape /\ NoLostWakeup

(* Removing one token keeps every other, in order. *)
LEMMA WithoutKeepsRest ==
  ASSUME queue \in Seq(Threads), NEW k \in DOMAIN queue
  PROVE  /\ Without(k) \in Seq(Threads) /\ Len(Without(k)) = Len(queue) - 1
         /\ \A i \in DOMAIN queue : i < k => i \in DOMAIN Without(k) /\ Without(k)[i] = queue[i]
         /\ \A i \in DOMAIN queue : i > k => i - 1 \in DOMAIN Without(k) /\ Without(k)[i - 1] = queue[i]
<1> DEFINE front == SubSeq(queue, 1, k - 1)
           back  == SubSeq(queue, k + 1, Len(queue))
<1>1. k \in 1..Len(queue) /\ Len(queue) \in Nat
  OBVIOUS
<1>2. /\ front \in Seq(Threads) /\ Len(front) = k - 1
      /\ \A i \in 1..(k - 1) : front[i] = queue[i]
  BY <1>1, SubSeqProperties
<1>3. /\ back \in Seq(Threads) /\ Len(back) = Len(queue) - k
      /\ \A i \in 1..(Len(queue) - k) : back[i] = queue[k + i]
  BY <1>1, SubSeqProperties
<1>4. /\ Without(k) \in Seq(Threads) /\ Len(Without(k)) = Len(queue) - 1
      /\ \A i \in 1..(k - 1) : Without(k)[i] = front[i]
      /\ \A i \in k..(Len(queue) - 1) : Without(k)[i] = back[i - (k - 1)]
  <2>1. Without(k) = front \o back
    BY DEF Without
  <2> HIDE DEF front, back
  <2>2. /\ front \o back \in Seq(Threads) /\ Len(front \o back) = Len(front) + Len(back)
        /\ \A i \in 1..(Len(front) + Len(back)) :
             (front \o back)[i] = IF i <= Len(front) THEN front[i] ELSE back[i - Len(front)]
    BY <1>2, <1>3, ConcatProperties
  <2>3. Len(front) + Len(back) = Len(queue) - 1
    BY <1>1, <1>2, <1>3
  <2>4. ASSUME NEW i \in 1..(k - 1) PROVE Without(k)[i] = front[i]
    BY <1>1, <1>2, <2>1, <2>2, <2>3
  <2>5. ASSUME NEW i \in k..(Len(queue) - 1) PROVE Without(k)[i] = back[i - (k - 1)]
    BY <1>1, <1>2, <2>1, <2>2, <2>3
  <2> QED BY <2>1, <2>2, <2>3, <2>4, <2>5
<1>5. ASSUME NEW i \in DOMAIN queue, i > k PROVE Without(k)[i - 1] = queue[i]
  <2>1. i - 1 \in k..(Len(queue) - 1) /\ i - k \in 1..(Len(queue) - k) /\ k + (i - k) = i
    BY <1>1, <1>5
  <2>2. (i - 1) - (k - 1) = i - k
    BY <1>1, <1>5
  <2> QED BY <1>3, <1>4, <2>1, <2>2
<1>6. DOMAIN Without(k) = 1..(Len(queue) - 1) /\ DOMAIN queue = 1..Len(queue)
  BY <1>1, <1>4
<1>7. ASSUME NEW i \in DOMAIN queue, i < k PROVE i \in DOMAIN Without(k) /\ Without(k)[i] = queue[i]
  <2>1. i \in 1..(k - 1) /\ i \in 1..(Len(queue) - 1)
    BY <1>1, <1>7
  <2> QED BY <1>2, <1>4, <1>6, <2>1
<1>8. ASSUME NEW i \in DOMAIN queue, i > k PROVE i - 1 \in DOMAIN Without(k)
  BY <1>1, <1>6, <1>8
<1> QED BY <1>4, <1>5, <1>7, <1>8

(* Only the locals of t change. *)
OwnCall(t) ==
  /\ DOMAIN call' = Threads /\ DOMAIN call'[t] = Fields
  /\ \A u \in Threads \ {t} : call'[u] = call[u]

(* The ledger starts with nobody in it. *)
LEMMA WakeupInit == Init => WakeupInv
<1> SUFFICES ASSUME Init PROVE WakeupInv
  OBVIOUS
<1>1. Shape
  BY DEF Init, Shape, Places, Waiting, Fields
<1> QED BY <1>1 DEF Init, WakeupInv, NoLostWakeup

(* A step that leaves the queue, the ledger and the sleepers alone, and the *)
(* locals of every sleeper, keeps the sleepers inadmissible.                *)
LEMMA SleepersUndisturbed ==
  ASSUME WakeupInv, queue' = queue, live' = live, asleep' \subseteq asleep,
         \A t \in asleep : call'[t].need = call[t].need /\ call'[t].priced = call[t].priced
  PROVE  NoLostWakeup'
BY DEF WakeupInv, NoLostWakeup, Admissible, FitsNow, ReservedMib

(* A thread that is not asleep moves on, changing its own locals only. *)
LEMMA OwnStep ==
  ASSUME WakeupInv, NEW t \in Threads, NEW p \in Places,
         pc[t] # "wait", pc[t] \in Waiting \/ p \notin Waiting,
         Goes(t, p), OwnCall(t), UNCHANGED lockVars
  PROVE  WakeupInv'
<1>1. t \notin asleep
  BY DEF WakeupInv, Shape
<1>2. Shape'
  BY DEF WakeupInv, Shape, Goes, OwnCall, lockVars, Places, Waiting
<1>3. \A u \in asleep : call'[u].need = call[u].need /\ call'[u].priced = call[u].priced
  BY <1>1 DEF WakeupInv, Shape, OwnCall
<1>4. NoLostWakeup'
  BY <1>3, SleepersUndisturbed DEF lockVars
<1> QED BY <1>2, <1>4 DEF WakeupInv

(* Entering, reading the card, pricing, being refused, the hook and the     *)
(* handler.                                                                 *)
LEMMA LocalSteps ==
  ASSUME WakeupInv, NEW t \in Threads,
         \/ Enters(t) \/ ReadsCard(t) \/ ReadFails(t) \/ WritesBudget(t) \/ Prices(t) \/ Refused(t)
         \/ HookEnds(t) \/ StartsHandler(t) \/ HandlerEnds(t)
  PROVE  WakeupInv'
<1> USE DEF Places, Waiting
<1>0. DOMAIN call = Threads /\ DOMAIN call[t] = Fields /\ DOMAIN NoCall = Fields
  BY DEF WakeupInv, Shape, Fields
<1>1. CASE Enters(t)
  <2>1. OwnCall(t)
    BY <1>0, <1>1 DEF Enters, OwnCall
  <2>2. CASE Goes(t, "price")
    BY <1>1, <2>1, <2>2, OwnStep DEF Enters
  <2>3. CASE Goes(t, "read")
    BY <1>1, <2>1, <2>3, OwnStep DEF Enters
  <2> QED BY <1>1, <2>2, <2>3 DEF Enters
<1>2. CASE ReadsCard(t)
  <2>1. OwnCall(t)
    BY <1>0, <1>2 DEF ReadsCard, OwnCall
  <2> QED BY <1>2, <2>1, OwnStep DEF ReadsCard
<1>3. CASE ReadFails(t)
  <2>1. OwnCall(t)
    BY <1>0, <1>3 DEF ReadFails, OwnCall
  <2>2. CASE Goes(t, "price")
    BY <1>3, <2>1, <2>2, OwnStep DEF ReadFails
  <2>3. CASE Goes(t, "write")
    BY <1>3, <2>1, <2>3, OwnStep DEF ReadFails
  <2> QED BY <1>3, <2>2, <2>3 DEF ReadFails
<1>4. CASE WritesBudget(t)
  <2>1. OwnCall(t)
    BY <1>0, <1>4 DEF WritesBudget, OwnCall
  <2> QED BY <1>4, <2>1, OwnStep DEF WritesBudget
<1>5. CASE Prices(t)
  <2>1. OwnCall(t)
    BY <1>0, <1>5 DEF Prices, OwnCall
  <2> QED BY <1>5, <2>1, OwnStep DEF Prices
<1>6. CASE Refused(t)
  <2>1. OwnCall(t)
    BY <1>0, <1>6 DEF Refused, Returns, OwnCall
  <2> QED BY <1>6, <2>1, OwnStep DEF Refused, Returns
<1>7. CASE HookEnds(t)
  <2>1. OwnCall(t)
    BY <1>0, <1>7 DEF HookEnds, OwnCall
  <2>2. CASE Goes(t, "wait")
    BY <1>7, <2>1, <2>2, OwnStep DEF HookEnds
  <2>3. CASE Goes(t, "unwind")
    BY <1>7, <2>1, <2>3, OwnStep DEF HookEnds
  <2> QED BY <1>7, <2>2, <2>3 DEF HookEnds
<1>8. CASE StartsHandler(t) \/ HandlerEnds(t)
  <2>1. OwnCall(t)
    BY <1>0, <1>8 DEF StartsHandler, HandlerEnds, OwnCall, Fields, NoCall
  <2> QED BY <1>8, <2>1, OwnStep DEF StartsHandler, HandlerEnds
<1> QED BY <1>1, <1>2, <1>3, <1>4, <1>5, <1>6, <1>7, <1>8

(* A thread joins the tail of the queue: the head stays what it was, or is   *)
(* that thread, which is awake.                                             *)
LEMMA ParkStep ==
  ASSUME WakeupInv, NEW t \in Threads, Parks(t)
  PROVE  WakeupInv'
<1>1. /\ queue \in Seq(Threads) /\ queue' = Append(queue, t)
      /\ live' = live /\ asleep' = asleep /\ t \notin asleep /\ pc[t] = "park"
  BY DEF WakeupInv, Shape, Parks
<1>2. DOMAIN call = Threads /\ DOMAIN call[t] = Fields
  BY DEF WakeupInv, Shape
<1>3. OwnCall(t)
  BY <1>2 DEF Parks, OwnCall
<1>4. Goes(t, "wait") \/ Goes(t, "hook")
  BY DEF Parks
<1>5. Shape'
  <2>1. queue' \in Seq(Threads) /\ asleep' \subseteq Threads
    BY <1>1 DEF WakeupInv, Shape
  <2>2. pc' \in [Threads -> Places] /\ \A u \in asleep' : pc'[u] = "wait"
    BY <1>1, <1>4 DEF WakeupInv, Shape, Goes, Places
  <2>3. ASSUME NEW u \in Threads, pc'[u] \in Waiting
        PROVE  \E i \in DOMAIN queue' : queue'[i] = u
    <3>1. CASE u = t
      BY <1>1, <3>1
    <3>2. CASE u # t
      <4>1. PICK i \in DOMAIN queue : queue[i] = u
        BY <1>4, <2>3, <3>2 DEF WakeupInv, Shape, Goes
      <4> QED BY <1>1, <4>1
    <3> QED BY <3>1, <3>2
  <2> QED BY <1>2, <1>3, <2>1, <2>2, <2>3 DEF Shape, WakeupInv, OwnCall
<1>6. NoLostWakeup'
  <2> SUFFICES ASSUME NEW u \in asleep PROVE ~Admissible(u)'
    BY <1>1 DEF NoLostWakeup
  <2>1. u # t /\ u \in Threads
    BY <1>1 DEF WakeupInv, Shape
  <2>2. FitsNow(u)' <=> FitsNow(u)
    BY <1>1, <1>3, <2>1 DEF FitsNow, ReservedMib, OwnCall
  <2>3. Head(queue') = u => Head(queue) = u
    <3>1. CASE queue = <<>>
      BY <1>1, <2>1, <3>1
    <3>2. CASE queue # <<>>
      BY <1>1, <3>2
    <3> QED BY <3>1, <3>2
  <2> QED BY <2>2, <2>3 DEF WakeupInv, NoLostWakeup, Admissible
<1> QED BY <1>5, <1>6 DEF WakeupInv

(* Admission, an unwind and a release change what the waiters wait for, and *)
(* wake every one of them.                                                  *)
LEMMA WakingSteps ==
  ASSUME WakeupInv, NEW t \in Threads, Admits(t) \/ Unwinds(t) \/ Releases(t)
  PROVE  WakeupInv'
<1>0. DOMAIN call = Threads /\ DOMAIN NoCall = Fields /\ queue \in Seq(Threads)
  BY DEF WakeupInv, Shape, Fields
<1>1. asleep' = {} /\ NoLostWakeup'
  BY DEF Admits, Unwinds, Releases, NotifyAll, NoLostWakeup
<1>2. OwnCall(t)
  BY <1>0 DEF Admits, Unwinds, Releases, Returns, OwnCall, NoCall, Fields
<1>3. pc' = [pc EXCEPT ![t] = "slot"] \/ pc' = [pc EXCEPT ![t] = "out"]
  BY DEF Admits, Unwinds, Releases, Returns, Goes
<1>4. ASSUME NEW u \in Threads, pc'[u] \in Waiting
      PROVE  u # t /\ \E i \in DOMAIN queue : queue[i] = u
  BY <1>3, <1>4 DEF WakeupInv, Shape, Waiting
<1>5. /\ queue' \in Seq(Threads)
      /\ \A u \in Threads : pc'[u] \in Waiting => \E i \in DOMAIN queue' : queue'[i] = u
  <2>1. CASE Admits(t)
    <3>1. pc[t] = "wait" /\ Head(queue) = t /\ queue' = Tail(queue)
      BY <2>1 DEF Admits, Awake, Admissible
    <3>2. queue # <<>>
      BY <1>0, <3>1 DEF WakeupInv, Shape, Waiting
    <3>3. ASSUME NEW u \in Threads, pc'[u] \in Waiting
          PROVE  \E i \in DOMAIN queue' : queue'[i] = u
      <4>1. PICK i \in DOMAIN queue : queue[i] = u /\ u # t
        BY <1>4, <3>3
      <4>2. i # 1 /\ i - 1 \in DOMAIN Tail(queue) /\ Tail(queue)[i - 1] = u
        BY <1>0, <3>1, <3>2, <4>1
      <4> QED BY <3>1, <4>2
    <3> QED BY <1>0, <3>1, <3>2, <3>3
  <2>2. CASE Unwinds(t)
    <3>1. PICK k \in DOMAIN queue : queue[k] = t /\ queue' = Without(k)
      BY <2>2 DEF Unwinds
    <3>2. /\ queue' \in Seq(Threads)
          /\ \A i \in DOMAIN queue : i < k => i \in DOMAIN queue' /\ queue'[i] = queue[i]
          /\ \A i \in DOMAIN queue : i > k => i - 1 \in DOMAIN queue' /\ queue'[i - 1] = queue[i]
      BY <1>0, <3>1, WithoutKeepsRest
    <3>3. ASSUME NEW u \in Threads, pc'[u] \in Waiting
          PROVE  \E i \in DOMAIN queue' : queue'[i] = u
      <4>1. PICK i \in DOMAIN queue : queue[i] = u /\ u # t
        BY <1>4, <3>3
      <4>2. i < k \/ i > k
        BY <1>0, <3>1, <4>1
      <4> QED BY <3>2, <4>1, <4>2
    <3> QED BY <3>2, <3>3
  <2>3. CASE Releases(t)
    BY <1>0, <1>4, <2>3 DEF Releases
  <2> QED BY <2>1, <2>2, <2>3
<1>6. Shape'
  BY <1>1, <1>2, <1>3, <1>5 DEF WakeupInv, Shape, OwnCall, Places
<1> QED BY <1>1, <1>6 DEF WakeupInv

(* Falling asleep, a wait that expires and the timeout it leads to. *)
LEMMA WaitSteps ==
  ASSUME WakeupInv, NEW t \in Threads, Sleeps(t) \/ WaitExpires(t) \/ TimesOut(t)
  PROVE  WakeupInv'
<1>1. CASE Sleeps(t)
  BY <1>1 DEF Sleeps, Awake, WakeupInv, Shape, NoLostWakeup, Admissible, FitsNow, ReservedMib
<1>2. CASE WaitExpires(t)
  <2>1. NoLostWakeup'
    BY <1>2, SleepersUndisturbed DEF WaitExpires
  <2> QED BY <1>2, <2>1 DEF WaitExpires, WakeupInv, Shape
<1>3. CASE TimesOut(t)
  <2>1. t \notin asleep /\ \A u \in Threads \ {t} : call'[u] = call[u]
    BY <1>3 DEF TimesOut, Awake, WakeupInv, Shape
  <2>2. NoLostWakeup'
    BY <1>3, <2>1, SleepersUndisturbed DEF TimesOut, lockVars, WakeupInv, Shape
  <2>3. Shape'
    BY <1>3 DEF TimesOut, Awake, Goes, WakeupInv, Shape, Places, Waiting, Fields, lockVars
  <2> QED BY <2>2, <2>3 DEF WakeupInv
<1> QED BY <1>1, <1>2, <1>3

(* The clock and the card leave needs and budgets alone. *)
LEMMA WorldSteps ==
  ASSUME WakeupInv, WeightsLoad \/ Tick
  PROVE  WakeupInv'
<1>1. CASE WeightsLoad
  BY <1>1, SleepersUndisturbed DEF WeightsLoad, WakeupInv, Shape, lockVars
<1>2. CASE Tick
  <2>1. /\ DOMAIN call' = Threads
        /\ \A t \in Threads : /\ DOMAIN call'[t] = Fields
                              /\ call'[t].need = call[t].need /\ call'[t].priced = call[t].priced
    BY <1>2 DEF Tick, WakeupInv, Shape, Fields, NoCall
  <2>2. NoLostWakeup'
    BY <1>2, <2>1, SleepersUndisturbed DEF Tick, lockVars, WakeupInv, Shape
  <2> QED BY <1>2, <2>1, <2>2 DEF Tick, lockVars, WakeupInv, Shape
<1> QED BY <1>1, <1>2

(* Every step keeps the sleepers inadmissible. *)
LEMMA WakeupStep == WakeupInv /\ [Next]_vars => WakeupInv'
<1> SUFFICES ASSUME WakeupInv, [Next]_vars PROVE WakeupInv'
  OBVIOUS
<1>1. CASE Next
  BY <1>1, LocalSteps, ParkStep, WakingSteps, WaitSteps, WorldSteps DEF Next, Thread
<1>2. CASE UNCHANGED vars
  BY <1>2, SleepersUndisturbed DEF vars, lockVars, WakeupInv, Shape
<1> QED BY <1>1, <1>2

(* A waiter whose need fits and who leads the queue is never left asleep    *)
(* until its deadline, whatever is admitted, released, refused or raised.   *)
THEOREM WaitersWake == Spec => []NoLostWakeup
<1>1. WakeupInv => NoLostWakeup
  BY DEF WakeupInv
<1> QED BY WakeupInit, WakeupStep, <1>1, PTL DEF Spec

-----------------------------------------------------------------------------
(* The card. A budget, cached or being priced, is one that some free memory *)
(* of the card justifies; whoever sizes itself asks for the whole budget it *)
(* was priced at, so it is admitted to an empty ledger only.                *)

Honest(mib) == mib \in Nat /\ \E v \in Levels : mib <= MeasureBudget(v)

(* What the locals of one thread may be. *)
Booked(t) ==
  /\ Honest(call[t].measured) /\ Honest(call[t].priced)
  /\ call[t].need \in Nat /\ call[t].whole \in BOOLEAN
  /\ call[t].entry \in Nat /\ call[t].left \in Nat /\ call[t].lent \in Nat
  /\ call[t].ran \in 0..Ceiling
  /\ live[t] # 0 <=> pc[t] \in Held
  /\ pc[t] \in Dated => InBudget(t)
  /\ pc[t] \in Dated \cup {"park"} /\ call[t].whole => call[t].need = call[t].priced

CardInv ==
  /\ Shape
  /\ live \in [Threads -> Nat] /\ vram \in Levels /\ Honest(budget)
  /\ \A t \in Threads : Booked(t)
  /\ SelfSizersExclude /\ Honest(ReservedMib)

(* The fold of the code is a sum over the threads. *)
LEMMA SumOfIs == \A held : SumOf(held) = Sums(held, DOMAIN held)
BY DEF SumOf, FoldFunction, Sums

(* What the ledger holds, as a sum over the threads. *)
LEMMA HeldMib ==
  ASSUME live \in [Threads -> Nat]
  PROVE  /\ ReservedMib = Sums(live, Threads) /\ ReservedMib \in Nat
         /\ \A t \in Threads : live[t] <= ReservedMib
<1>1. ReservedMib = Sums(live, Threads)
  BY SumOfIs DEF ReservedMib
<1>2. IsFiniteSet(Threads) /\ \A t \in Threads : live[t] \in Nat
  BY LedgerAssumption
<1>3. ReservedMib \in Nat
  BY <1>1, <1>2, SumIsNat
<1>4. ASSUME NEW t \in Threads PROVE live[t] <= ReservedMib
  <2>1. /\ Sums(live, Threads) = live[t] + Sums(live, Threads \ {t})
        /\ Sums(live, Threads \ {t}) \in Nat
    BY <1>2, SumTakesOut
  <2> QED BY <1>1, <1>2, <2>1
<1> QED BY <1>1, <1>3, <1>4

(* One thread's reservation changes: the sum changes by as much. *)
LEMMA HeldMibChanges ==
  ASSUME live \in [Threads -> Nat], NEW t \in Threads, NEW m \in Nat,
         live' = [live EXCEPT ![t] = m]
  PROVE  ReservedMib' = ReservedMib - live[t] + m
<1>1. /\ IsFiniteSet(Threads) /\ live' \in [Threads -> Nat]
      /\ \A u \in Threads : live[u] \in Nat /\ live'[u] \in Nat
  BY LedgerAssumption
<1>2. ReservedMib = Sums(live, Threads) /\ ReservedMib' = Sums(live', Threads)
  <2>1. DOMAIN live = Threads /\ DOMAIN live' = Threads
    BY <1>1
  <2>2. ReservedMib = SumOf(live) /\ ReservedMib' = SumOf(live')
    BY DEF ReservedMib
  <2> QED BY <2>1, <2>2, SumOfIs
<1>3. /\ Sums(live, Threads) = live[t] + Sums(live, Threads \ {t})
      /\ Sums(live, Threads \ {t}) \in Nat
  BY <1>1, SumTakesOut
<1>4. /\ Sums(live', Threads) = live'[t] + Sums(live', Threads \ {t})
      /\ Sums(live', Threads \ {t}) \in Nat
  BY <1>1, SumTakesOut
<1>5. Sums(live, Threads \ {t}) = Sums(live', Threads \ {t})
  <2>1. IsFiniteSet(Threads \ {t}) /\ \A u \in Threads \ {t} : live[u] = live'[u]
    BY <1>1, FS_Subset
  <2> QED BY <2>1, SumSeesOnly
<1>6. live'[t] = m
  BY DEF Shape
<1> QED BY <1>1, <1>2, <1>3, <1>4, <1>5, <1>6

(* Any measurement is at least a session's worth; a reader that finds less   *)
(* free than the card has takes an honest one.                              *)
LEMMA Measurements ==
  /\ Honest(0) /\ Honest(Session)
  /\ \A v \in Levels, held \in Nat : Honest(MeasureBudget(v - held))
<1>1. Session \in Nat /\ Session > 0 /\ Reserve \in Nat /\ Levels \subseteq Nat /\ Levels # {}
  BY LedgerAssumption
<1>2. \A v \in Levels : Session <= MeasureBudget(v) /\ MeasureBudget(v) \in Nat
  BY <1>1 DEF MeasureBudget, Larger
<1>3. \A v \in Levels, held \in Nat :
        MeasureBudget(v - held) \in Nat /\ MeasureBudget(v - held) <= MeasureBudget(v)
  BY <1>1 DEF MeasureBudget, Larger
<1>4. Honest(0) /\ Honest(Session)
  <2>1. PICK v \in Levels : Session <= MeasureBudget(v) /\ MeasureBudget(v) \in Nat
    BY <1>1, <1>2
  <2>2. 0 <= MeasureBudget(v)
    BY <2>1
  <2> QED BY <1>1, <2>1, <2>2 DEF Honest
<1>5. ASSUME NEW v \in Levels, NEW held \in Nat PROVE Honest(MeasureBudget(v - held))
  BY <1>3 DEF Honest
<1> QED BY <1>4, <1>5

(* Less than an honest figure is honest. *)
LEMMA HonestBelow == ASSUME NEW m, Honest(m), NEW k \in Nat, k <= m PROVE Honest(k)
<1>1. PICK v \in Levels : m <= MeasureBudget(v)
  BY DEF Honest
<1>2. MeasureBudget(v) \in Int
  BY LedgerAssumption DEF MeasureBudget, Larger
<1> QED BY <1>1, <1>2 DEF Honest

(* Ledger and card as they were: only the locals of t change. *)
LEMMA CardOwnStep ==
  ASSUME CardInv, Shape', NEW t \in Threads, OwnCall(t), NEW p, Goes(t, p),
         live' = live, vram' = vram, Honest(budget'), Booked(t)',
         pc[t] \notin Held \/ call'[t].whole = call[t].whole
  PROVE  CardInv'
<1>1. ReservedMib' = ReservedMib
  BY DEF ReservedMib
<1>2. \A u \in Threads : Booked(u)'
  <2> SUFFICES ASSUME NEW u \in Threads, u # t PROVE Booked(u)'
    OBVIOUS
  <2>1. call'[u] = call[u] /\ pc'[u] = pc[u] /\ live'[u] = live[u]
    BY DEF OwnCall, Goes, CardInv, Shape
  <2> QED BY <2>1 DEF CardInv, Booked, Honest, MeasureBudget, InBudget
<1>3. live[t] = 0 \/ call'[t].whole = call[t].whole
  BY DEF CardInv, Booked
<1>4. Admitted' = Admitted /\ \A u \in Admitted : call'[u].whole = call[u].whole
  BY <1>3 DEF Admitted, OwnCall
<1>5. SelfSizersExclude'
  BY <1>4 DEF CardInv, SelfSizersExclude
<1>6. Honest(ReservedMib)'
  BY <1>1 DEF CardInv, Honest, MeasureBudget
<1> QED BY <1>2, <1>5, <1>6 DEF CardInv

(* Entering, reading the card, pricing, being refused, parking, the hook,   *)
(* a timeout and the handler.                                               *)
LEMMA CardLocalSteps ==
  ASSUME CardInv, Shape', NEW t \in Threads,
         \/ Enters(t) \/ ReadsCard(t) \/ ReadFails(t) \/ WritesBudget(t) \/ Prices(t) \/ Refused(t)
         \/ Parks(t) \/ HookEnds(t) \/ TimesOut(t) \/ StartsHandler(t) \/ HandlerEnds(t)
  PROVE  CardInv'
<1> USE DEF Dated, Held
<1>0. /\ DOMAIN call = Threads /\ DOMAIN call[t] = Fields /\ DOMAIN NoCall = Fields
      /\ Booked(t) /\ Honest(budget) /\ vram \in Levels /\ pc \in [Threads -> Places]
      /\ 0 \in 0..Ceiling
  BY LedgerAssumption DEF CardInv, Shape, Fields
<1>1. CASE Enters(t)
  <2>1. OwnCall(t) /\ pc[t] \notin Held
    BY <1>0, <1>1 DEF Enters, OwnCall
  <2>2. Booked(t)'
    BY <1>0, <1>1 DEF Enters, Goes, Booked, Honest, MeasureBudget, InBudget, Fields, NoCall, lockVars
  <2> QED BY <1>0, <1>1, <2>1, <2>2, CardOwnStep DEF Enters, lockVars, Honest, MeasureBudget
<1>2. CASE ReadsCard(t)
  <2>1. OwnCall(t) /\ pc[t] \notin Held
    BY <1>0, <1>2 DEF ReadsCard, OwnCall
  <2>2. Honest(MeasureBudget(vram - ReservedMib))
    BY <1>0, HeldMib, Measurements DEF CardInv
  <2>3. PICK m : m = MeasureBudget(vram - ReservedMib)
    OBVIOUS
  <2>4. Booked(t)'
    BY <1>0, <1>2, <2>2, <2>3 DEF ReadsCard, Goes, Booked, Honest, InBudget, Fields, NoCall, lockVars
  <2> QED BY <1>0, <1>2, <2>1, <2>4, CardOwnStep DEF ReadsCard, lockVars, Honest
<1>3. CASE ReadFails(t)
  <2>1. OwnCall(t) /\ pc[t] \notin Held
    BY <1>0, <1>3 DEF ReadFails, OwnCall
  <2>2. Booked(t)'
    <3>1. CASE call'[t] = NoCall /\ pc'[t] = "price"
      BY <1>0, <1>3, <3>1, Measurements DEF ReadFails, Booked, Honest, MeasureBudget, InBudget, NoCall,
         lockVars
    <3>2. CASE call' = [call EXCEPT ![t].measured = Session] /\ pc'[t] = "write"
      <4>1. /\ call'[t].measured = Session /\ call'[t].priced = call[t].priced
            /\ call'[t].need = call[t].need /\ call'[t].whole = call[t].whole
            /\ call'[t].entry = call[t].entry /\ call'[t].left = call[t].left
            /\ call'[t].lent = call[t].lent /\ call'[t].ran = call[t].ran
        BY <1>0, <3>2 DEF Fields, NoCall
      <4> QED BY <1>0, <1>3, <3>2, <4>1, Measurements DEF ReadFails, Booked, Honest, MeasureBudget,
                 InBudget, lockVars
    <3> QED BY <1>0, <1>3, <3>1, <3>2 DEF ReadFails, Goes
  <2> QED BY <1>0, <1>3, <2>1, <2>2, CardOwnStep DEF ReadFails, lockVars, Honest, MeasureBudget
<1>4. CASE WritesBudget(t)
  <2>1. OwnCall(t) /\ pc[t] \notin Held
    BY <1>0, <1>4 DEF WritesBudget, OwnCall
  <2>2. Booked(t)' /\ Honest(budget')
    BY <1>0, <1>4, Measurements DEF WritesBudget, Goes, Booked, Honest, MeasureBudget, InBudget, Fields,
       NoCall, lockVars
  <2> QED BY <1>0, <1>4, <2>1, <2>2, CardOwnStep DEF WritesBudget, lockVars
<1>5. CASE Prices(t)
  <2>1. OwnCall(t) /\ pc[t] \notin Held
    BY <1>0, <1>5 DEF Prices, OwnCall
  <2>2. PICK n \in Needs : /\ call'[t].priced = budget /\ call'[t].need = NeedOf(n)
                           /\ call'[t].whole = (n = Whole) /\ call'[t].measured = 0
                           /\ call'[t].entry = 0 /\ call'[t].left = 0 /\ call'[t].lent = 0
                           /\ call'[t].ran = 0
    <3>1. PICK n \in Needs :
            call' = [call EXCEPT ![t] = [NoCall EXCEPT !.priced = budget, !.need = NeedOf(n),
                                                       !.whole = (n = Whole)]]
      BY <1>5 DEF Prices
    <3>2. PICK b : b = (n = Whole)
      OBVIOUS
    <3>3. call'[t] = [NoCall EXCEPT !.priced = budget, !.need = NeedOf(n), !.whole = b]
      BY <1>0, <3>1, <3>2
    <3> QED BY <3>2, <3>3 DEF NoCall
  <2>3. NeedOf(n) \in Nat /\ (n = Whole => NeedOf(n) = budget)
    BY <1>0, LedgerAssumption DEF NeedOf, Honest
  <2>4. Booked(t)'
    BY <1>0, <1>5, <2>2, <2>3, Measurements DEF Prices, Goes, Booked, Honest, MeasureBudget, InBudget,
       lockVars
  <2> QED BY <1>0, <1>5, <2>1, <2>4, CardOwnStep DEF Prices, lockVars, Honest, MeasureBudget
<1>6. CASE Refused(t)
  <2>1. OwnCall(t) /\ pc[t] \notin Held
    BY <1>0, <1>6 DEF Refused, Returns, OwnCall
  <2>2. Booked(t)'
    BY <1>0, <1>6, Measurements DEF Refused, Returns, Goes, Booked, Honest, MeasureBudget, InBudget,
       Fields, NoCall, lockVars
  <2> QED BY <1>0, <1>6, <2>1, <2>2, CardOwnStep DEF Refused, Returns, lockVars, Honest, MeasureBudget
<1>7. CASE Parks(t)
  <2>1. OwnCall(t) /\ pc[t] \notin Held /\ queue \in Seq(Threads)
    BY <1>0, <1>7 DEF Parks, OwnCall, CardInv, Shape
  <2>2. PICK e, d : e = Len(queue) + Cardinality(Admitted)
               /\ d = ParkDeadline(Len(queue), Cardinality(Admitted))
    OBVIOUS
  <2>3. e \in Nat /\ d \in Nat
    <3>1. Cardinality(Admitted) \in Nat
      BY LedgerAssumption, FS_Subset, FS_CardinalityType DEF Admitted
    <3>2. Len(queue) \in Nat
      BY <2>1
    <3>3. CapCeilings \in Nat /\ Ceiling \in Nat
      BY LedgerAssumption
    <3>4. Smaller(Larger(e, 1), CapCeilings) \in Nat
      BY <2>2, <3>1, <3>2, <3>3 DEF Smaller, Larger
    <3>5. PICK k \in Nat : k = Smaller(Larger(e, 1), CapCeilings)
      BY <3>4
    <3>6. k * Ceiling \in Nat
      BY <3>3
    <3> QED BY <2>2, <3>1, <3>2, <3>5, <3>6 DEF ParkDeadline
  <2>4. /\ call'[t].need = call[t].need /\ call'[t].priced = call[t].priced
        /\ call'[t].whole = call[t].whole /\ call'[t].measured = call[t].measured
        /\ call'[t].ran = call[t].ran /\ call'[t].lent = call[t].lent
        /\ call'[t].entry = e /\ call'[t].left = d
    BY <1>0, <1>7, <2>2 DEF Parks, Fields, NoCall
  <2>5. Booked(t)'
    BY <1>0, <1>7, <2>3, <2>4 DEF Parks, Goes, Booked, Honest, MeasureBudget, InBudget, lockVars
  <2>6. CASE Goes(t, "wait")
    BY <1>0, <1>7, <2>1, <2>5, <2>6, CardOwnStep DEF Parks, Honest, MeasureBudget
  <2>7. CASE Goes(t, "hook")
    BY <1>0, <1>7, <2>1, <2>5, <2>7, CardOwnStep DEF Parks, Honest, MeasureBudget
  <2> QED BY <1>7, <2>6, <2>7 DEF Parks
<1>8. CASE HookEnds(t) \/ TimesOut(t)
  <2>1. OwnCall(t) /\ pc[t] \in Dated /\ pc[t] \notin Held
    BY <1>0, <1>8 DEF HookEnds, TimesOut, Awake, OwnCall
  <2>2. live' = live /\ vram' = vram /\ budget' = budget
    BY <1>8 DEF HookEnds, TimesOut, lockVars
  <2>3. CASE Goes(t, "wait") /\ call' = call
    <3>1. pc'[t] = "wait"
      BY <1>0, <2>3 DEF Goes
    <3>2. Booked(t)'
      BY <1>0, <2>1, <2>2, <2>3, <3>1 DEF Booked, Honest, MeasureBudget, InBudget
    <3> QED BY <1>0, <2>1, <2>2, <2>3, <3>2, CardOwnStep DEF Honest, MeasureBudget
  <2>4. CASE Goes(t, "unwind") /\ call' = [call EXCEPT ![t] = NoCall]
    <3>1. pc'[t] = "unwind" /\ call'[t] = NoCall /\ live'[t] = 0
      BY <1>0, <2>1, <2>2, <2>4 DEF Goes, Booked
    <3>2. Booked(t)'
      BY <1>0, <3>1, Measurements DEF Booked, Honest, MeasureBudget, InBudget, NoCall
    <3> QED BY <1>0, <2>1, <2>2, <2>4, <3>2, CardOwnStep DEF Honest, MeasureBudget
  <2> QED BY <1>8, <2>3, <2>4 DEF HookEnds, TimesOut
<1>9. CASE StartsHandler(t)
  <2>1. OwnCall(t) /\ call'[t].whole = call[t].whole /\ pc'[t] = "run" /\ pc[t] = "slot"
    BY <1>0, <1>9 DEF StartsHandler, OwnCall, Goes
  <2>2. Booked(t)'
    BY <1>0, <1>9, <2>1 DEF StartsHandler, Booked, Honest, MeasureBudget, InBudget, lockVars
  <2> QED BY <1>0, <1>9, <2>1, <2>2, CardOwnStep DEF StartsHandler, lockVars, Honest, MeasureBudget
<1>10. CASE HandlerEnds(t)
  <2>1. OwnCall(t) /\ pc'[t] = "close" /\ pc[t] = "run"
    BY <1>0, <1>10 DEF HandlerEnds, OwnCall, Goes
  <2>2. call'[t] = [call[t] EXCEPT !.ran = 0]
    BY <1>0, <1>10 DEF HandlerEnds
  <2>3. /\ call'[t].need = call[t].need /\ call'[t].priced = call[t].priced
        /\ call'[t].whole = call[t].whole /\ call'[t].measured = call[t].measured
        /\ call'[t].ran = 0 /\ call'[t].lent = call[t].lent
        /\ call'[t].entry = call[t].entry /\ call'[t].left = call[t].left
    BY <1>0, <2>2 DEF Fields, NoCall
  <2>4. Booked(t)'
    BY <1>0, <1>10, <2>1, <2>3 DEF HandlerEnds, Booked, Honest, MeasureBudget, InBudget, lockVars
  <2> QED BY <1>0, <1>10, <2>1, <2>3, <2>4, CardOwnStep DEF HandlerEnds, lockVars, Honest, MeasureBudget
<1> QED BY <1>1, <1>2, <1>3, <1>4, <1>5, <1>6, <1>7, <1>8, <1>9, <1>10

(* What is admitted fits beside what is held, and a self-sizer only beside  *)
(* nothing.                                                                 *)
LEMMA CardAdmits ==
  ASSUME CardInv, Shape', NEW t \in Threads, Admits(t)
  PROVE  CardInv'
<1>1. /\ DOMAIN call = Threads /\ DOMAIN NoCall = Fields /\ Booked(t) /\ pc \in [Threads -> Places]
      /\ live \in [Threads -> Nat] /\ pc[t] = "wait" /\ 0 \in 0..Ceiling
  BY LedgerAssumption DEF CardInv, Shape, Fields, Admits, Awake
<1>2. PICK m : m = call[t].need
  OBVIOUS
<1>3. m \in Nat /\ m > 0 /\ Honest(call[t].priced) /\ ReservedMib + m <= call[t].priced
  BY <1>1, <1>2 DEF Booked, Dated, InBudget, Admits, Admissible, FitsNow
<1>4. live' = [live EXCEPT ![t] = m] /\ live[t] = 0
  BY <1>1, <1>2 DEF Admits, Booked, Held
<1>5. ReservedMib \in Nat /\ ReservedMib' = ReservedMib + m /\ \A u \in Threads : live[u] <= ReservedMib
  <2>1. ReservedMib \in Nat /\ \A u \in Threads : live[u] <= ReservedMib
    BY <1>1, HeldMib
  <2>2. ReservedMib' = ReservedMib - live[t] + m
    BY <1>1, <1>3, <1>4, HeldMibChanges
  <2> QED BY <1>3, <1>4, <2>1, <2>2
<1>6. Honest(ReservedMib')
  BY <1>3, <1>5, HonestBelow DEF Honest
<1>7. Booked(t)' /\ call'[t].whole = call[t].whole
  <2>1. /\ call'[t].need = 0 /\ call'[t].priced = 0 /\ call'[t].whole = call[t].whole
        /\ call'[t].measured = 0 /\ call'[t].ran = 0 /\ call'[t].entry = 0 /\ call'[t].left = 0
        /\ call'[t].lent = 0
    BY <1>1 DEF Admits, NoCall
  <2>2. pc'[t] = "slot" /\ live'[t] = m
    BY <1>1, <1>4 DEF Admits, Goes
  <2>3. call[t].whole \in BOOLEAN /\ live'[t] # 0
    BY <1>1, <1>3, <2>2 DEF Booked
  <2>4. Honest(0)'
    BY Measurements DEF Honest, MeasureBudget
  <2> QED BY <1>1, <2>1, <2>2, <2>3, <2>4 DEF Booked, InBudget, Dated, Held, Honest, MeasureBudget
<1>8. ASSUME NEW u \in Threads, u # t
      PROVE  call'[u] = call[u] /\ pc'[u] = pc[u] /\ live'[u] = live[u]
  BY <1>1, <1>4, <1>8 DEF Admits, Goes
<1>9. \A u \in Threads : Booked(u)'
  <2> SUFFICES ASSUME NEW u \in Threads, u # t PROVE Booked(u)'
    BY <1>7
  <2> QED BY <1>8 DEF CardInv, Booked, Honest, MeasureBudget, InBudget
<1>10. SelfSizersExclude'
  <2>1. Admitted' \subseteq Admitted \cup {t}
    BY <1>8 DEF Admitted
  <2>2. call[t].whole => Admitted = {}
    <3> SUFFICES ASSUME call[t].whole PROVE Admitted = {}
      OBVIOUS
    <3>1. m = call[t].priced /\ m \in Nat
      BY <1>1, <1>2, <1>3 DEF Booked, Dated
    <3>2. ReservedMib = 0
      BY <1>3, <1>5, <3>1
    <3> QED BY <1>1, <1>5, <3>2 DEF Admitted
  <2>3. \A u \in Admitted : u \in Threads
    BY DEF Admitted
  <2>4. SUFFICES ASSUME NEW u \in Admitted', NEW w \in Admitted', call'[u].whole, call'[w].whole
                 PROVE  u = w
    BY DEF SelfSizersExclude
  <2>5. CASE call[t].whole
    BY <2>1, <2>2, <2>5
  <2>6. CASE ~call[t].whole
    <3>1. u # t /\ w # t
      BY <1>7, <2>4, <2>6
    <3>2. u \in Admitted /\ w \in Admitted /\ call[u].whole /\ call[w].whole
      BY <1>8, <2>1, <2>3, <2>4, <3>1
    <3> QED BY <3>2 DEF CardInv, SelfSizersExclude
  <2> QED BY <2>5, <2>6
<1>11. live' \in [Threads -> Nat]
  BY <1>1, <1>3, <1>4
<1>12. vram' = vram /\ budget' = budget
  BY DEF Admits
<1> QED BY <1>6, <1>9, <1>10, <1>11, <1>12 DEF CardInv, Honest, MeasureBudget

(* A release, and a token that leaves the queue without one. *)
LEMMA CardReturns ==
  ASSUME CardInv, Shape', NEW t \in Threads, Unwinds(t) \/ Releases(t)
  PROVE  CardInv'
<1>1. /\ DOMAIN call = Threads /\ DOMAIN NoCall = Fields /\ Booked(t) /\ pc \in [Threads -> Places]
      /\ live \in [Threads -> Nat] /\ 0 \in 0..Ceiling
  BY LedgerAssumption DEF CardInv, Shape, Fields
<1>2. call'[t] = NoCall /\ pc'[t] = "out" /\ vram' = vram /\ budget' = budget
  BY <1>1 DEF Unwinds, Releases, Returns, Goes
<1>3. ASSUME NEW u \in Threads, u # t
      PROVE  call'[u] = call[u] /\ pc'[u] = pc[u] /\ live'[u] = live[u]
  BY <1>1, <1>3 DEF Unwinds, Releases, Returns, Goes
<1>4. live' = [live EXCEPT ![t] = 0]
  <2>1. CASE Releases(t)
    BY <2>1 DEF Releases
  <2>2. CASE Unwinds(t)
    <3>1. live' = live /\ live[t] = 0
      BY <1>1, <2>2 DEF Unwinds, Booked, Held
    <3> QED BY <1>1, <3>1
  <2> QED BY <2>1, <2>2
<1>5. ReservedMib \in Nat /\ ReservedMib' = ReservedMib - live[t] /\ live[t] <= ReservedMib
  <2>1. ReservedMib \in Nat /\ live[t] <= ReservedMib /\ live[t] \in Nat
    BY <1>1, HeldMib
  <2>2. ReservedMib' = ReservedMib - live[t] + 0
    BY <1>1, <1>4, HeldMibChanges
  <2> QED BY <2>1, <2>2
<1>6. Honest(ReservedMib')
  <2>1. live[t] \in Nat
    BY <1>1
  <2>2. ReservedMib' \in Nat /\ ReservedMib' <= ReservedMib
    BY <1>5, <2>1
  <2> QED BY <2>2, HonestBelow DEF CardInv
<1>7. live'[t] = 0 /\ live' \in [Threads -> Nat]
  BY <1>1, <1>4
<1>8. \A u \in Threads : Booked(u)'
  <2>1. Booked(t)'
    BY <1>1, <1>2, <1>7, Measurements DEF NoCall, Booked, Honest, MeasureBudget, InBudget, Dated, Held
  <2>2. ASSUME NEW u \in Threads, u # t PROVE Booked(u)'
    BY <1>3, <2>2 DEF CardInv, Booked, Honest, MeasureBudget, InBudget
  <2> QED BY <2>1, <2>2
<1>9. SelfSizersExclude'
  <2>1. ASSUME NEW u \in Admitted' PROVE u \in Admitted /\ call'[u] = call[u]
    BY <1>3, <1>7, <2>1 DEF Admitted
  <2> QED BY <2>1 DEF CardInv, SelfSizersExclude
<1> QED BY <1>2, <1>6, <1>7, <1>8, <1>9 DEF CardInv, Honest, MeasureBudget

(* Sleeping and waking, the clock, and weights that take the card's memory. *)
LEMMA CardOtherSteps ==
  ASSUME CardInv, Shape', \/ \E t \in Threads : Sleeps(t) \/ WaitExpires(t)
                          \/ WeightsLoad \/ Tick \/ UNCHANGED vars
  PROVE  CardInv'
<1>1. live' = live /\ budget' = budget /\ pc' = pc /\ vram' \in Levels
  BY DEF Sleeps, WaitExpires, WeightsLoad, Tick, vars, lockVars, CardInv
<1>2. \A t \in Threads : /\ call'[t].measured = call[t].measured /\ call'[t].priced = call[t].priced
                         /\ call'[t].need = call[t].need /\ call'[t].whole = call[t].whole
                         /\ call'[t].entry = call[t].entry
                         /\ call'[t].left \in Nat /\ call'[t].lent \in Nat
                         /\ call'[t].ran \in 0..Ceiling
  <2>1. CASE Tick
    <3> TAKE t \in Threads
    <3>0. DOMAIN call[t] = Fields /\ Booked(t) /\ Dormant(t)
      BY <2>1 DEF CardInv, Shape, Tick
    <3>1. CASE t \in asleep
      <4>1. call'[t] = [call[t] EXCEPT !.left = @ - 1, !.lent = @ + Lent]
        <5>1. pc[t] # "run"
          BY <3>1 DEF CardInv, Shape
        <5> QED BY <2>1, <3>1, <5>1 DEF Tick
      <4>2. call[t].left \in Nat /\ call[t].left > 0 /\ call[t].ran \in 0..Ceiling
        BY <3>0, <3>1 DEF Dormant, Aside, Booked, CardInv, Shape
      <4>3. call[t].left - 1 \in Nat /\ call[t].lent + Lent \in Nat
        BY <3>0, <4>2 DEF Lent, Booked
      <4> QED BY <3>0, <4>1, <4>2, <4>3 DEF Fields, NoCall
    <3>2. CASE t \notin asleep /\ pc[t] = "run"
      <4>1. call'[t] = [call[t] EXCEPT !.ran = @ + 1]
        BY <2>1, <3>2 DEF Tick
      <4>2. call[t].ran \in 0..Ceiling /\ call[t].ran < Ceiling /\ call[t].left \in Nat
            /\ call[t].lent \in Nat /\ Ceiling \in Nat
        BY <3>0, <3>2, LedgerAssumption DEF Dormant, Aside, Booked, CardInv, Shape
      <4>3. call[t].ran + 1 \in 0..Ceiling
        BY <4>2
      <4> QED BY <3>0, <4>1, <4>2, <4>3 DEF Fields, NoCall
    <3>3. CASE t \notin asleep /\ pc[t] # "run"
      BY <2>1, <3>0, <3>3 DEF Tick, Booked
    <3> QED BY <3>1, <3>2, <3>3
  <2>2. CASE call' = call
    BY <2>2 DEF CardInv, Booked
  <2> QED BY <2>1, <2>2 DEF Sleeps, WaitExpires, WeightsLoad, vars
<1>3. \A t \in Threads : Booked(t)'
  BY <1>1, <1>2 DEF CardInv, Booked, Honest, MeasureBudget, InBudget
<1>4. Admitted' = Admitted /\ \A t \in Admitted : t \in Threads
  BY <1>1 DEF Admitted
<1>5. SelfSizersExclude'
  BY <1>2, <1>4 DEF CardInv, SelfSizersExclude
<1>6. ReservedMib' = ReservedMib
  BY <1>1 DEF ReservedMib
<1> QED BY <1>1, <1>3, <1>5, <1>6 DEF CardInv, Honest, MeasureBudget

(* The card starts empty. *)
LEMMA CardInit == Init => CardInv
<1> SUFFICES ASSUME Init PROVE CardInv
  OBVIOUS
<1>1. Shape
  BY WakeupInit DEF WakeupInv
<1>2. live \in [Threads -> Nat] /\ \A t \in Threads : live[t] = 0
  BY DEF Init
<1>3. ReservedMib = 0
  <2>1. /\ IsFiniteSet(Threads) /\ \A t \in Threads : live[t] \in 0..0
        /\ \A t \in Threads \ {} : live[t] = 0
    BY <1>2, LedgerAssumption
  <2>2. Sums(live, Threads) <= Cardinality({}) * 0
    BY <2>1, SumIsBounded
  <2>3. Cardinality({}) = 0
    BY FS_EmptySet
  <2> QED BY <1>2, <2>2, <2>3, HeldMib
<1>4. \A t \in Threads : Booked(t)
  <2> TAKE t \in Threads
  <2>1. call[t] = NoCall /\ pc[t] = "out" /\ live[t] = 0 /\ 0 \in 0..Ceiling
    BY LedgerAssumption DEF Init
  <2> QED BY <2>1, Measurements DEF Booked, NoCall, Dated, Held
<1>5. SelfSizersExclude
  BY <1>2 DEF SelfSizersExclude, Admitted
<1> QED BY <1>1, <1>2, <1>3, <1>4, <1>5, Measurements DEF Init, CardInv

LEMMA CardStep == CardInv /\ Shape' /\ [Next]_vars => CardInv'
<1> SUFFICES ASSUME CardInv, Shape', [Next]_vars PROVE CardInv'
  OBVIOUS
<1> QED BY CardLocalSteps, CardAdmits, CardReturns, CardOtherSteps DEF Next, Thread

(* Whatever needs, refreshed budgets, timeouts and releases are mixed: no    *)
(* two handlers that size themselves run side by side, and what is reserved  *)
(* never adds up to more than the card at its emptiest.                     *)
THEOREM CardStaysShared == Spec => []CardIsShared
<1>1. CardInv => CardIsShared
  BY DEF CardInv, CardIsShared, CardIsNeverOversold, Honest
<1>2. WakeupInv' => Shape'
  BY DEF WakeupInv
<1> QED BY WakeupInit, CardInit, WakeupStep, CardStep, <1>1, <1>2, PTL DEF Spec

-----------------------------------------------------------------------------
(* The deadlines. Whoever waits in the place j has time for j - 1 handlers   *)
(* from start to end and for what the admitted ones may still take, once    *)
(* the ticks lent to admissions outside their handlers are counted in.      *)

Ahead(j) == (j - 1) * Ceiling + Sums(MayTake, Threads)

InLine ==
  /\ \A i \in DOMAIN queue : pc[queue[i]] \in Waiting
  /\ \A i, j \in DOMAIN queue : queue[i] = queue[j] => i = j
TimeIsEnough ==
  \A j \in DOMAIN queue :
    pc[queue[j]] \in Dated /\ call[queue[j]].entry <= CapCeilings
      => call[queue[j]].left + call[queue[j]].lent >= Ahead(j)

DeadlineInv == InLine /\ TimeIsEnough

LEMMA TimesGrows ==
  ASSUME NEW a \in Nat, NEW b \in Nat, NEW c \in Nat
  PROVE  /\ a * c \in Nat /\ (a + b) * c = a * c + b * c
         /\ a <= b => a * c <= b * c
         /\ 0 < a => c <= a * c
         /\ 0 * c = 0
OBVIOUS

LEMMA MayTakeTypes ==
  ASSUME CardInv
  PROVE  /\ IsFiniteSet(Threads) /\ Ceiling \in Nat /\ Ceiling > 0 /\ Sums(MayTake, Threads) \in Nat
         /\ \A t \in Threads : MayTake[t] \in 0..Ceiling /\ MayTake[t] \in Nat /\ (live[t] = 0 => MayTake[t] = 0)
<1>1. IsFiniteSet(Threads) /\ Ceiling \in Nat /\ Ceiling > 0
  BY LedgerAssumption
<1>2. ASSUME NEW t \in Threads
      PROVE  MayTake[t] \in 0..Ceiling /\ MayTake[t] \in Nat /\ (live[t] = 0 => MayTake[t] = 0)
  <2>1. call[t].ran \in 0..Ceiling
    BY DEF CardInv, Booked
  <2>2. live[t] = 0 => pc[t] \notin {"slot", "run"}
    BY DEF CardInv, Booked, Held
  <2> QED BY <1>1, <2>1, <2>2 DEF MayTake
<1>3. Sums(MayTake, Threads) \in Nat
  BY <1>1, <1>2, SumIsNat
<1> QED BY <1>1, <1>2, <1>3

(* No handler begins and none is younger than it was: less is left to wait for. *)
LEMMA MayTakeShrinks ==
  ASSUME CardInv, CardInv',
         \A t \in Threads : pc'[t] \in Owing => pc[t] \in Owing /\ call'[t].ran >= call[t].ran
  PROVE  /\ Sums(MayTake', Threads) <= Sums(MayTake, Threads)
         /\ \A t \in Threads : MayTake'[t] \in Nat /\ MayTake'[t] <= MayTake[t]
<1>1. ASSUME NEW t \in Threads
      PROVE  MayTake'[t] \in 0..Ceiling /\ MayTake'[t] \in Nat /\ (pc'[t] \notin Owing => MayTake'[t] = 0)
  <2>1. call'[t].ran \in 0..Ceiling /\ Ceiling \in Nat
    BY LedgerAssumption DEF CardInv, Booked
  <2> QED BY <2>1 DEF MayTake, Owing
<1>2. ASSUME NEW t \in Threads PROVE MayTake'[t] <= MayTake[t]
  <2>1. MayTake[t] \in 0..Ceiling /\ Ceiling \in Nat /\ MayTake'[t] \in 0..Ceiling
    BY <1>1, MayTakeTypes
  <2>2. CASE pc'[t] \notin Owing
    BY <1>1, <2>1, <2>2
  <2>3. CASE pc'[t] \in Owing
    <3>1. pc[t] \in Owing /\ call'[t].ran >= call[t].ran
      BY <2>3
    <3>2. call[t].ran \in 0..Ceiling /\ call'[t].ran \in 0..Ceiling
      BY DEF CardInv, Booked
    <3>3. MayTake[t] = Ceiling - call[t].ran /\ MayTake'[t] = Ceiling - call'[t].ran
      BY <2>3, <3>1 DEF MayTake, Owing
    <3> QED BY <2>1, <3>1, <3>2, <3>3
  <2> QED BY <2>2, <2>3
<1>3. IsFiniteSet(Threads) /\ \A t \in Threads : MayTake[t] \in Nat /\ MayTake'[t] \in Nat /\ MayTake'[t] <= MayTake[t]
  BY <1>1, <1>2, MayTakeTypes
<1> QED BY <1>3, SumKeepsOrder

(* Whoever has a deadline has the one it had. *)
SameDeadline(u) ==
  pc'[u] \in Dated => /\ pc[u] \in Dated /\ call'[u].entry = call[u].entry
                      /\ call'[u].left = call[u].left /\ call'[u].lent = call[u].lent

(* The queue as it was, nobody's deadline nearer and nothing more to wait for. *)
LEMMA DeadlinesKept ==
  ASSUME CardInv, DeadlineInv, CardInv', queue' = queue,
         \A i \in DOMAIN queue : pc'[queue[i]] \in Waiting /\ SameDeadline(queue[i]),
         \A t \in Threads : pc'[t] \in Owing => pc[t] \in Owing /\ call'[t].ran >= call[t].ran
  PROVE  DeadlineInv'
<1>1. InLine'
  BY DEF DeadlineInv, InLine
<1>2. Sums(MayTake', Threads) <= Sums(MayTake, Threads) /\ Sums(MayTake, Threads) \in Nat
        /\ Sums(MayTake', Threads) \in Nat
  <2>1. IsFiniteSet(Threads) /\ \A t \in Threads : MayTake'[t] \in Nat
    BY LedgerAssumption, MayTakeShrinks
  <2>2. Sums(MayTake', Threads) \in Nat
    BY <2>1, SumIsNat
  <2> QED BY <2>2, MayTakeShrinks, MayTakeTypes
<1>3. ASSUME NEW j \in DOMAIN queue, pc'[queue[j]] \in Dated, call'[queue[j]].entry <= CapCeilings
      PROVE  call'[queue[j]].left + call'[queue[j]].lent >= (j - 1) * Ceiling + Sums(MayTake', Threads)
  <2>1. /\ pc[queue[j]] \in Dated /\ call'[queue[j]].entry = call[queue[j]].entry
        /\ call'[queue[j]].left = call[queue[j]].left /\ call'[queue[j]].lent = call[queue[j]].lent
    BY <1>3 DEF SameDeadline
  <2>2. call[queue[j]].left + call[queue[j]].lent >= (j - 1) * Ceiling + Sums(MayTake, Threads)
    BY <1>3, <2>1 DEF DeadlineInv, TimeIsEnough, Ahead
  <2>3. queue[j] \in Threads /\ j - 1 \in Nat
    BY DEF CardInv, Shape
  <2>4. call[queue[j]].left \in Nat /\ call[queue[j]].lent \in Nat /\ (j - 1) * Ceiling \in Nat
    BY <2>3, LedgerAssumption, TimesGrows DEF CardInv, Booked
  <2> QED BY <1>2, <2>1, <2>2, <2>4
<1>4. TimeIsEnough'
  BY <1>3 DEF TimeIsEnough, Ahead
<1> QED BY <1>1, <1>4 DEF DeadlineInv

(* Every step of a thread that moves nobody in the queue and admits nobody. *)
LEMMA DeadlinesLocal ==
  ASSUME CardInv, DeadlineInv, CardInv',
         \/ \E t \in Threads :
              \/ Enters(t) \/ ReadsCard(t) \/ ReadFails(t) \/ WritesBudget(t) \/ Prices(t)
              \/ Refused(t) \/ HookEnds(t) \/ TimesOut(t) \/ Sleeps(t) \/ WaitExpires(t)
              \/ StartsHandler(t) \/ HandlerEnds(t) \/ Releases(t)
         \/ WeightsLoad \/ UNCHANGED vars
  PROVE  DeadlineInv'
<1>0. /\ DOMAIN call = Threads /\ pc \in [Threads -> Places]
      /\ \A i \in DOMAIN queue : queue[i] \in Threads /\ pc[queue[i]] \in Waiting
      /\ \A u \in Threads : call[u].ran \in Nat
  BY LedgerAssumption DEF CardInv, Shape, DeadlineInv, InLine, Booked
<1>1. ASSUME NEW t \in Threads, pc[t] \notin Waiting, queue' = queue,
             \A u \in Threads : u # t => call'[u] = call[u] /\ pc'[u] = pc[u],
             pc'[t] \in Owing => pc[t] \in Owing /\ call'[t].ran >= call[t].ran
      PROVE  DeadlineInv'
  <2>1. \A i \in DOMAIN queue : queue[i] # t
    BY <1>0, <1>1
  <2>2. \A i \in DOMAIN queue : pc'[queue[i]] \in Waiting /\ SameDeadline(queue[i])
    BY <1>0, <1>1, <2>1 DEF SameDeadline
  <2>3. \A u \in Threads : pc'[u] \in Owing => pc[u] \in Owing /\ call'[u].ran >= call[u].ran
    BY <1>0, <1>1
  <2> QED BY <1>1, <2>2, <2>3, DeadlinesKept
<1>2. ASSUME NEW t \in Threads,
             \/ Enters(t) \/ ReadsCard(t) \/ ReadFails(t) \/ WritesBudget(t) \/ Prices(t) \/ Refused(t)
      PROVE  DeadlineInv'
  <2>1. pc[t] \notin Waiting /\ pc'[t] \notin Owing
    BY <1>0, <1>2 DEF Enters, ReadsCard, ReadFails, WritesBudget, Prices, Refused, Returns, Goes, Waiting,
       Owing
  <2>2. queue' = queue
    BY <1>2 DEF Enters, ReadsCard, ReadFails, WritesBudget, Prices, Refused, lockVars
  <2>3. \A u \in Threads : u # t => call'[u] = call[u] /\ pc'[u] = pc[u]
    BY <1>0, <1>2 DEF Enters, ReadsCard, ReadFails, WritesBudget, Prices, Refused, Returns, Goes
  <2> QED BY <1>1, <2>1, <2>2, <2>3
<1>3. ASSUME NEW t \in Threads, StartsHandler(t) \/ HandlerEnds(t) \/ Releases(t) PROVE DeadlineInv'
  <2>1. pc[t] \notin Waiting /\ queue' = queue
    BY <1>3 DEF StartsHandler, HandlerEnds, Releases, Waiting, lockVars
  <2>2. \A u \in Threads : u # t => call'[u] = call[u] /\ pc'[u] = pc[u]
    BY <1>0, <1>3 DEF StartsHandler, HandlerEnds, Releases, Returns, Goes
  <2>3. CASE StartsHandler(t)
    <3>1. pc[t] \in Owing /\ call' = call
      BY <2>3 DEF StartsHandler, Owing
    <3> QED BY <1>0, <1>1, <2>1, <2>2, <3>1
  <2>4. CASE HandlerEnds(t) \/ Releases(t)
    <3>1. pc'[t] \notin Owing
      BY <1>0, <2>4 DEF HandlerEnds, Releases, Returns, Goes, Owing
    <3> QED BY <1>1, <2>1, <2>2, <3>1
  <2> QED BY <1>3, <2>3, <2>4
<1>4. ASSUME NEW t \in Threads, HookEnds(t) \/ TimesOut(t) \/ Sleeps(t) \/ WaitExpires(t)
      PROVE  DeadlineInv'
  <2>1. queue' = queue
    BY <1>4 DEF HookEnds, TimesOut, Sleeps, WaitExpires, lockVars
  <2>2. \A u \in Threads : u # t => call'[u] = call[u] /\ pc'[u] = pc[u]
    BY <1>0, <1>4 DEF HookEnds, TimesOut, Sleeps, WaitExpires, Goes
  <2>3. CASE pc'[t] = "unwind"
    <3>1. \A i \in DOMAIN queue : pc'[queue[i]] \in Waiting /\ SameDeadline(queue[i])
      BY <1>0, <2>2, <2>3 DEF SameDeadline, Dated, Waiting
    <3>2. \A u \in Threads : pc'[u] \in Owing => pc[u] \in Owing /\ call'[u].ran >= call[u].ran
      BY <1>0, <2>2, <2>3 DEF Owing
    <3> QED BY <2>1, <3>1, <3>2, DeadlinesKept
  <2>4. CASE pc'[t] = "wait" /\ pc[t] \in Dated /\ call' = call
    <3>1. \A i \in DOMAIN queue : pc'[queue[i]] \in Waiting /\ SameDeadline(queue[i])
      BY <1>0, <2>2, <2>4 DEF SameDeadline, Dated, Waiting
    <3>2. \A u \in Threads : pc'[u] \in Owing => pc[u] \in Owing /\ call'[u].ran >= call[u].ran
      BY <1>0, <2>2, <2>4 DEF Owing
    <3> QED BY <2>1, <3>1, <3>2, DeadlinesKept
  <2>5. CASE HookEnds(t) \/ TimesOut(t)
    BY <1>0, <2>3, <2>4, <2>5 DEF HookEnds, TimesOut, Goes, Dated
  <2>6. CASE Sleeps(t) \/ WaitExpires(t)
    <3>1. pc[t] = "wait" /\ pc' = pc /\ call' = call
      BY <2>6 DEF Sleeps, WaitExpires, Awake, CardInv, Shape
    <3> QED BY <2>4, <3>1 DEF Dated
  <2> QED BY <1>4, <2>5, <2>6
<1>5. CASE WeightsLoad \/ UNCHANGED vars
  <2>1. queue' = queue /\ call' = call /\ pc' = pc
    BY <1>5 DEF WeightsLoad, vars, lockVars
  <2>2. \A u \in Threads : pc'[u] \in Owing => pc[u] \in Owing /\ call'[u].ran >= call[u].ran
    BY <1>0, <2>1
  <2> QED BY <1>0, <2>1, <2>2, DeadlinesKept DEF SameDeadline
<1> QED BY <1>2, <1>3, <1>4, <1>5

(* Whoever parks is priced for everyone ahead of it and for everyone admitted. *)
LEMMA DeadlinesPark ==
  ASSUME CardInv, DeadlineInv, CardInv', NEW t \in Threads, Parks(t)
  PROVE  DeadlineInv'
<1> DEFINE n == Len(queue)
           a == Cardinality(Admitted)
<1>1. /\ DOMAIN call = Threads /\ DOMAIN call[t] = Fields /\ pc \in [Threads -> Places]
      /\ live \in [Threads -> Nat] /\ queue \in Seq(Threads) /\ live' = live
      /\ queue' = Append(queue, t) /\ pc[t] = "park"
      /\ \A i \in DOMAIN queue : queue[i] \in Threads /\ pc[queue[i]] \in Waiting
  BY DEF CardInv, Shape, DeadlineInv, InLine, Parks
<1>2. /\ \A u \in Threads : u # t => call'[u] = call[u] /\ pc'[u] = pc[u]
      /\ pc'[t] \in Waiting /\ pc'[t] \notin Owing /\ call'[t].lent \in Nat
      /\ call'[t].entry = n + a /\ call'[t].left = ParkDeadline(n, a) /\ call'[t].ran = call[t].ran
  <2>1. pc'[t] \in Waiting /\ pc'[t] \notin Owing
    BY <1>1 DEF Parks, Goes, Waiting, Owing
  <2>2. call' = [call EXCEPT ![t].entry = n + a, ![t].left = ParkDeadline(n, a)]
    BY DEF Parks
  <2> HIDE DEF n, a
  <2>3. call'[t].entry = n + a /\ call'[t].left = ParkDeadline(n, a) /\ call'[t].ran = call[t].ran
    BY <1>1, <2>2 DEF Fields, NoCall
  <2>4. \A u \in Threads : u # t => call'[u] = call[u] /\ pc'[u] = pc[u]
    BY <1>1, <2>2 DEF Parks, Goes
  <2> QED BY <2>1, <2>3, <2>4 DEF CardInv, Booked
<1>3. n \in Nat /\ a \in Nat /\ Ceiling \in Nat /\ CapCeilings \in Nat \ {0}
  <2>1. Cardinality(Admitted) \in Nat
    BY LedgerAssumption, FS_Subset, FS_CardinalityType DEF Admitted
  <2> QED BY <1>1, <2>1, LedgerAssumption
<1>4. /\ DOMAIN queue = 1..n /\ DOMAIN queue' = 1..(n + 1) /\ queue'[n + 1] = t
      /\ \A i \in 1..n : queue'[i] = queue[i] /\ queue[i] # t
  <2>1. \A i \in DOMAIN queue : queue[i] # t
    BY <1>1 DEF Waiting
  <2> QED BY <1>1, <2>1
<1> HIDE DEF n, a
<1>5. \A u \in Threads : pc'[u] \in Owing => pc[u] \in Owing /\ call'[u].ran >= call[u].ran
  <2> SUFFICES ASSUME NEW u \in Threads, pc'[u] \in Owing
                 PROVE  pc[u] \in Owing /\ call'[u].ran >= call[u].ran
    OBVIOUS
  <2>1. call'[u] = call[u] /\ pc'[u] = pc[u] /\ call[u].ran \in 0..Ceiling
    BY <1>2 DEF CardInv, Booked
  <2> QED BY <1>3, <2>1
<1>6. Sums(MayTake', Threads) <= Sums(MayTake, Threads)
  BY <1>5, MayTakeShrinks
<1>7. Sums(MayTake', Threads) \in Nat /\ Sums(MayTake, Threads) \in Nat
  <2>1. IsFiniteSet(Threads) /\ \A u \in Threads : MayTake'[u] \in Nat
    BY <1>5, LedgerAssumption, MayTakeShrinks
  <2>2. Sums(MayTake', Threads) \in Nat
    BY <2>1, SumIsNat
  <2> QED BY <2>2, MayTakeTypes
<1>8. InLine'
  <2>1. \A i \in 1..(n + 1) : pc'[queue'[i]] \in Waiting
    <3> TAKE i \in 1..(n + 1)
    <3>1. CASE i = n + 1
      BY <1>2, <1>4, <3>1
    <3>2. CASE i # n + 1
      <4>1. i \in 1..n
        BY <1>3, <3>2
      <4> QED BY <1>1, <1>2, <1>4, <4>1
    <3> QED BY <3>1, <3>2
  <2>2. ASSUME NEW i \in 1..(n + 1), NEW j \in 1..(n + 1), queue'[i] = queue'[j] PROVE i = j
    <3>1. (i \in 1..n \/ i = n + 1) /\ (j \in 1..n \/ j = n + 1)
      BY <1>3
    <3> QED BY <1>4, <2>2, <3>1 DEF DeadlineInv, InLine
  <2> QED BY <1>4, <2>1, <2>2 DEF InLine
<1>9. ASSUME NEW j \in 1..(n + 1), pc'[queue'[j]] \in Dated, call'[queue'[j]].entry <= CapCeilings
      PROVE  call'[queue'[j]].left + call'[queue'[j]].lent >= (j - 1) * Ceiling + Sums(MayTake', Threads)
  <2>1. CASE j = n + 1
    <3>1. n + a <= CapCeilings /\ call'[queue'[j]].left = ParkDeadline(n, a)
            /\ call'[queue'[j]].lent \in Nat
      BY <1>2, <1>4, <1>9, <2>1
    <3>2. PICK k : k = Smaller(Larger(n + a, 1), CapCeilings)
      OBVIOUS
    <3>3. k \in Nat /\ k >= n + a
      BY <1>3, <3>1, <3>2 DEF Smaller, Larger
    <3>4. ParkDeadline(n, a) = k * Ceiling
      BY <3>2 DEF ParkDeadline
    <3>5. (n + a) * Ceiling <= k * Ceiling /\ (n + a) * Ceiling = n * Ceiling + a * Ceiling
      BY <1>3, <3>3, TimesGrows
    <3>6. Sums(MayTake, Threads) <= a * Ceiling
      <4>1. /\ IsFiniteSet(Threads) /\ Admitted \in SUBSET Threads
            /\ \A u \in Threads : MayTake[u] \in 0..Ceiling
            /\ \A u \in Threads \ Admitted : MayTake[u] = 0
        BY MayTakeTypes DEF Admitted
      <4>2. Sums(MayTake, Threads) <= Cardinality(Admitted) * Ceiling
        BY <1>3, <4>1, SumIsBounded
      <4> QED BY <4>2 DEF a
    <3>7. n * Ceiling \in Nat /\ a * Ceiling \in Nat /\ k * Ceiling \in Nat /\ (j - 1) * Ceiling = n * Ceiling
      BY <1>3, <2>1, <3>3, TimesGrows
    <3> QED BY <1>6, <1>7, <3>1, <3>4, <3>5, <3>6, <3>7
  <2>2. CASE j # n + 1
    <3>1. j \in 1..n
      BY <1>3, <2>2
    <3>2. call'[queue'[j]] = call[queue[j]] /\ pc[queue[j]] \in Dated
      BY <1>1, <1>2, <1>4, <1>9, <3>1
    <3>3. call[queue[j]].left + call[queue[j]].lent >= (j - 1) * Ceiling + Sums(MayTake, Threads)
      BY <1>4, <1>9, <3>1, <3>2 DEF DeadlineInv, TimeIsEnough, Ahead
    <3>4. queue[j] \in Threads /\ j - 1 \in Nat
      <4>1. \A i \in 1..n : queue[i] \in Threads
        BY <1>1, <1>4
      <4>2. j - 1 \in Nat
        BY <1>3, <3>1
      <4> QED BY <3>1, <4>1, <4>2
    <3>5. call[queue[j]].left \in Nat /\ call[queue[j]].lent \in Nat /\ (j - 1) * Ceiling \in Nat
      BY <1>3, <3>4, TimesGrows DEF CardInv, Booked
    <3> QED BY <1>6, <1>7, <3>2, <3>3, <3>5
  <2> QED BY <2>1, <2>2
<1>10. TimeIsEnough'
  BY <1>4, <1>9 DEF TimeIsEnough, Ahead
<1> QED BY <1>8, <1>10 DEF DeadlineInv

(* Whoever is admitted leaves the head, and takes one ceiling at most: the   *)
(* others move up by one place and wait for one handler more.               *)
LEMMA DeadlinesAdmit ==
  ASSUME CardInv, DeadlineInv, CardInv', NEW t \in Threads, Admits(t)
  PROVE  DeadlineInv'
<1>1. /\ DOMAIN call = Threads /\ pc \in [Threads -> Places] /\ pc[t] = "wait"
      /\ live \in [Threads -> Nat] /\ queue \in Seq(Threads)
      /\ queue' = Tail(queue) /\ Head(queue) = t
      /\ \A i \in DOMAIN queue : queue[i] \in Threads /\ pc[queue[i]] \in Waiting
  BY DEF CardInv, Shape, DeadlineInv, InLine, Admits, Awake, Admissible
<1>2. queue # <<>>
  BY <1>1 DEF CardInv, Shape, Waiting
<1>3. /\ \A i \in DOMAIN queue' : i + 1 \in DOMAIN queue /\ queue'[i] = queue[i + 1] /\ i \in Nat /\ i > 0
      /\ 1 \in DOMAIN queue /\ queue[1] = t
  BY <1>1, <1>2
<1>4. ASSUME NEW i \in DOMAIN queue' PROVE queue'[i] # t
  <2>1. i + 1 \in DOMAIN queue /\ 1 \in DOMAIN queue /\ i + 1 # 1
    BY <1>3
  <2> QED BY <1>3, <2>1 DEF DeadlineInv, InLine
<1>5. \A u \in Threads : u # t => call'[u] = call[u] /\ pc'[u] = pc[u] /\ live'[u] = live[u]
  BY <1>1 DEF Admits, Goes
<1>6. live[t] = 0 /\ call'[t].ran = 0
  <2>1. live[t] = 0
    BY <1>1 DEF CardInv, Booked, Held
  <2> QED BY <1>1, <2>1 DEF Admits, NoCall
<1>7. InLine'
  <2>1. \A i \in DOMAIN queue' : pc'[queue'[i]] \in Waiting
    BY <1>1, <1>3, <1>4, <1>5
  <2>2. ASSUME NEW i \in DOMAIN queue', NEW j \in DOMAIN queue', queue'[i] = queue'[j] PROVE i = j
    <3>1. i + 1 = j + 1
      BY <1>3, <2>2 DEF DeadlineInv, InLine
    <3> QED BY <1>3, <3>1
  <2> QED BY <2>1, <2>2 DEF InLine
<1>8. Sums(MayTake', Threads) <= Ceiling + Sums(MayTake, Threads) /\ Sums(MayTake', Threads) \in Nat
  <2>1. /\ IsFiniteSet(Threads) /\ Ceiling \in Nat
        /\ \A u \in Threads : MayTake[u] \in Nat
    BY MayTakeTypes
  <2>2. ASSUME NEW u \in Threads
        PROVE MayTake'[u] \in Nat /\ MayTake'[u] <= Ceiling /\ (u # t => MayTake'[u] = MayTake[u])
    <3>1. call'[u].ran \in 0..Ceiling
      BY DEF CardInv, Booked
    <3> QED BY <1>5, <2>1, <3>1 DEF MayTake, Shape
  <2>3. /\ Sums(MayTake, Threads) = MayTake[t] + Sums(MayTake, Threads \ {t})
        /\ Sums(MayTake, Threads \ {t}) \in Nat /\ MayTake[t] \in Nat
    BY <2>1, SumTakesOut
  <2>4. /\ Sums(MayTake', Threads) = MayTake'[t] + Sums(MayTake', Threads \ {t})
        /\ Sums(MayTake', Threads \ {t}) \in Nat /\ MayTake'[t] \in Nat
    BY <2>1, <2>2, SumTakesOut
  <2>5. Sums(MayTake, Threads \ {t}) = Sums(MayTake', Threads \ {t})
    <3>1. IsFiniteSet(Threads \ {t}) /\ \A u \in Threads \ {t} : MayTake[u] = MayTake'[u]
      BY <2>1, <2>2, FS_Subset
    <3> QED BY <3>1, SumSeesOnly
  <2>6. MayTake'[t] <= Ceiling
    BY <2>2
  <2> QED BY <2>1, <2>3, <2>4, <2>5, <2>6
<1>9. ASSUME NEW j \in DOMAIN queue', pc'[queue'[j]] \in Dated, call'[queue'[j]].entry <= CapCeilings
      PROVE  call'[queue'[j]].left + call'[queue'[j]].lent >= (j - 1) * Ceiling + Sums(MayTake', Threads)
  <2>1. j + 1 \in DOMAIN queue /\ queue'[j] = queue[j + 1] /\ j \in Nat /\ j - 1 \in Nat
    BY <1>3
  <2>2. call'[queue'[j]] = call[queue[j + 1]] /\ queue[j + 1] \in Threads /\ pc[queue[j + 1]] \in Dated
    BY <1>1, <1>4, <1>5, <1>9, <2>1
  <2>3. call[queue[j + 1]].left + call[queue[j + 1]].lent >= ((j + 1) - 1) * Ceiling + Sums(MayTake, Threads)
    BY <1>9, <2>1, <2>2 DEF DeadlineInv, TimeIsEnough, Ahead
  <2>4. (j + 1) - 1 = (j - 1) + 1 /\ ((j - 1) + 1) * Ceiling = (j - 1) * Ceiling + 1 * Ceiling
    <3>1. PICK p \in Nat : p = j - 1
      BY <2>1
    <3>2. (p + 1) * Ceiling = p * Ceiling + 1 * Ceiling
      BY LedgerAssumption, TimesGrows
    <3>3. (j + 1) - 1 = p + 1
      BY <2>1, <3>1
    <3> QED BY <3>1, <3>2, <3>3
  <2>5. /\ call[queue[j + 1]].left \in Nat /\ call[queue[j + 1]].lent \in Nat /\ (j - 1) * Ceiling \in Nat /\ Ceiling \in Nat
        /\ Sums(MayTake, Threads) \in Nat
    BY <2>1, <2>2, LedgerAssumption, MayTakeTypes, TimesGrows DEF CardInv, Booked
  <2>6. 1 * Ceiling = Ceiling
    BY <2>5
  <2> QED BY <1>8, <2>2, <2>3, <2>4, <2>5, <2>6
<1>10. TimeIsEnough'
  BY <1>9 DEF TimeIsEnough, Ahead
<1> QED BY <1>7, <1>10 DEF DeadlineInv

(* Whoever leaves without admission lets the ones behind it move up. *)
LEMMA DeadlinesUnwind ==
  ASSUME CardInv, DeadlineInv, CardInv', NEW t \in Threads, Unwinds(t)
  PROVE  DeadlineInv'
<1>1. /\ DOMAIN call = Threads /\ pc \in [Threads -> Places] /\ pc[t] = "unwind"
      /\ live \in [Threads -> Nat] /\ queue \in Seq(Threads) /\ live' = live
      /\ \A i \in DOMAIN queue : queue[i] \in Threads /\ pc[queue[i]] \in Waiting
  BY DEF CardInv, Shape, DeadlineInv, InLine, Unwinds
<1>2. PICK k \in DOMAIN queue : queue[k] = t /\ queue' = Without(k)
  BY DEF Unwinds
<1>3. /\ Len(queue') = Len(queue) - 1 /\ queue' \in Seq(Threads)
      /\ \A i \in DOMAIN queue : i < k => i \in DOMAIN queue' /\ queue'[i] = queue[i]
      /\ \A i \in DOMAIN queue : i > k => i - 1 \in DOMAIN queue' /\ queue'[i - 1] = queue[i]
  BY <1>1, <1>2, WithoutKeepsRest
<1> DEFINE Was(j) == IF j < k THEN j ELSE j + 1
<1>4. ASSUME NEW j \in DOMAIN queue'
      PROVE  /\ Was(j) \in DOMAIN queue /\ queue'[j] = queue[Was(j)] /\ Was(j) # k
             /\ j \in Nat /\ j > 0 /\ Was(j) \in Nat /\ j <= Was(j) /\ queue'[j] # t
  <2>1. j \in 1..(Len(queue) - 1) /\ k \in 1..Len(queue) /\ Len(queue) \in Nat
    BY <1>1, <1>2, <1>3
  <2>2. Was(j) \in 1..Len(queue) /\ Was(j) # k /\ j <= Was(j)
    BY <2>1
  <2>3. queue'[j] = queue[Was(j)]
    <3>1. CASE j < k
      BY <1>3, <2>1, <2>2, <3>1
    <3>2. CASE ~(j < k)
      <4>1. j + 1 \in DOMAIN queue /\ j + 1 > k /\ (j + 1) - 1 = j /\ Was(j) = j + 1
        BY <1>1, <2>1, <2>2, <3>2
      <4> QED BY <1>3, <4>1
    <3> QED BY <3>1, <3>2
  <2>4. Was(j) \in DOMAIN queue
    BY <1>1, <2>2
  <2> HIDE DEF Was
  <2>5. queue[Was(j)] # t
    BY <1>2, <2>2, <2>4 DEF DeadlineInv, InLine
  <2> QED BY <2>1, <2>2, <2>3, <2>4, <2>5
<1>5. ASSUME NEW i \in DOMAIN queue', NEW j \in DOMAIN queue', Was(i) = Was(j) PROVE i = j
  <2>1. i \in Nat /\ j \in Nat /\ k \in Nat
    BY <1>1, <1>2, <1>4
  <2> QED BY <1>5, <2>1
<1> HIDE DEF Was
<1>6. pc'[t] = "out" /\ \A u \in Threads : u # t => call'[u] = call[u] /\ pc'[u] = pc[u]
  BY <1>1 DEF Unwinds, Returns, Goes
<1>7. InLine'
  <2>1. \A i \in DOMAIN queue' : pc'[queue'[i]] \in Waiting
    BY <1>1, <1>4, <1>6
  <2>2. ASSUME NEW i \in DOMAIN queue', NEW j \in DOMAIN queue', queue'[i] = queue'[j] PROVE i = j
    <3>1. Was(i) = Was(j)
      BY <1>4, <2>2 DEF DeadlineInv, InLine
    <3> QED BY <1>5, <3>1
  <2> QED BY <2>1, <2>2 DEF InLine
<1>8. \A u \in Threads : pc'[u] \in Owing => pc[u] \in Owing /\ call'[u].ran >= call[u].ran
  <2> SUFFICES ASSUME NEW u \in Threads, pc'[u] \in Owing
                 PROVE  pc[u] \in Owing /\ call'[u].ran >= call[u].ran
    OBVIOUS
  <2>1. u # t
    BY <1>6 DEF Owing
  <2>2. call'[u] = call[u] /\ pc'[u] = pc[u] /\ call[u].ran \in 0..Ceiling
    BY <1>6, <2>1 DEF CardInv, Booked
  <2> QED BY <2>2, LedgerAssumption
<1>9. /\ Sums(MayTake', Threads) <= Sums(MayTake, Threads)
      /\ Sums(MayTake', Threads) \in Nat /\ Sums(MayTake, Threads) \in Nat
  <2>1. IsFiniteSet(Threads) /\ \A u \in Threads : MayTake'[u] \in Nat
    BY <1>8, LedgerAssumption, MayTakeShrinks
  <2>2. Sums(MayTake', Threads) \in Nat
    BY <2>1, SumIsNat
  <2> QED BY <1>8, <2>2, MayTakeShrinks, MayTakeTypes
<1>10. ASSUME NEW j \in DOMAIN queue', pc'[queue'[j]] \in Dated, call'[queue'[j]].entry <= CapCeilings
       PROVE  call'[queue'[j]].left + call'[queue'[j]].lent >= (j - 1) * Ceiling + Sums(MayTake', Threads)
  <2>1. PICK i : i = Was(j)
    OBVIOUS
  <2>2. i \in DOMAIN queue /\ queue'[j] = queue[i] /\ i - 1 \in Nat /\ j - 1 \in Nat /\ j - 1 <= i - 1
    BY <1>4, <2>1
  <2>3. call'[queue'[j]] = call[queue[i]] /\ queue[i] \in Threads /\ pc[queue[i]] \in Dated
    BY <1>1, <1>4, <1>6, <1>10, <2>2
  <2>4. call[queue[i]].left + call[queue[i]].lent >= (i - 1) * Ceiling + Sums(MayTake, Threads)
    BY <1>10, <2>2, <2>3 DEF DeadlineInv, TimeIsEnough, Ahead
  <2>5. /\ (j - 1) * Ceiling <= (i - 1) * Ceiling /\ (j - 1) * Ceiling \in Nat /\ (i - 1) * Ceiling \in Nat
        /\ call[queue[i]].left \in Nat /\ call[queue[i]].lent \in Nat
    BY <2>2, <2>3, LedgerAssumption, TimesGrows DEF CardInv, Booked
  <2> QED BY <1>9, <2>3, <2>4, <2>5
<1>11. TimeIsEnough'
  BY <1>10 DEF TimeIsEnough, Ahead
<1> QED BY <1>7, <1>11 DEF DeadlineInv

(* A need that is in its budget fits an empty ledger. *)
LEMMA EmptyLedgerFits ==
  ASSUME CardInv, NEW t \in Threads, pc[t] \in Dated, ~FitsNow(t)
  PROVE  \E u \in Threads : pc[u] \in Held
<1> SUFFICES ASSUME \A u \in Threads : live[u] = 0 PROVE FALSE
  BY DEF CardInv, Booked
<1>1. /\ IsFiniteSet(Threads) /\ live \in [Threads -> Nat] /\ \A u \in Threads : live[u] \in 0..0
      /\ \A u \in Threads \ {} : live[u] = 0
  BY LedgerAssumption DEF CardInv
<1>2. Sums(live, Threads) <= Cardinality({}) * 0 /\ Cardinality({}) = 0
  BY <1>1, SumIsBounded, FS_EmptySet
<1>3. ReservedMib = 0
  BY <1>1, <1>2, HeldMib
<1>4. call[t].need \in Nat /\ call[t].need <= call[t].priced
  BY DEF CardInv, Booked, InBudget
<1> QED BY <1>3, <1>4 DEF FitsNow

(* A tick costs every waiter one. The head, asleep, does not fit, so the     *)
(* ledger is not empty: somebody's handler runs, or the tick is lent.       *)
LEMMA DeadlinesTick ==
  ASSUME CardInv, NoLostWakeup, DeadlineInv, CardInv', Tick
  PROVE  DeadlineInv'
<1>1. /\ DOMAIN call = Threads /\ pc \in [Threads -> Places]
      /\ queue \in Seq(Threads) /\ queue' = queue /\ pc' = pc
      /\ \A i \in DOMAIN queue : queue[i] \in Threads /\ pc[queue[i]] \in Waiting
      /\ \A u \in Threads : Dormant(u) /\ DOMAIN call[u] = Fields
      /\ \A u \in asleep : u \in Threads /\ pc[u] = "wait"
  <2>1. queue' = queue /\ pc' = pc /\ \A u \in Threads : Dormant(u)
    BY DEF Tick, lockVars
  <2>2. /\ DOMAIN call = Threads /\ pc \in [Threads -> Places] /\ queue \in Seq(Threads)
        /\ \A u \in Threads : DOMAIN call[u] = Fields
        /\ \A u \in asleep : u \in Threads /\ pc[u] = "wait"
    BY DEF CardInv, Shape
  <2>3. \A i \in DOMAIN queue : queue[i] \in Threads /\ pc[queue[i]] \in Waiting
    BY <2>2 DEF DeadlineInv, InLine
  <2> QED BY <2>1, <2>2, <2>3
<1>2. Lent \in {0, 1} /\ (Lent = 0 => \A u \in Threads : ~Aside(u))
  BY DEF Lent
<1>3. ASSUME NEW i \in DOMAIN queue
      PROVE  /\ queue[i] \in asleep /\ call[queue[i]].left > 0
             /\ call[queue[i]].left \in Nat /\ call[queue[i]].lent \in Nat
             /\ call'[queue[i]].left = call[queue[i]].left - 1
             /\ call'[queue[i]].lent = call[queue[i]].lent + Lent
             /\ call'[queue[i]].entry = call[queue[i]].entry
  <2>1. PICK u \in Threads : u = queue[i] /\ pc[u] \in Waiting /\ Dormant(u) /\ DOMAIN call[u] = Fields
    BY <1>1
  <2>2. u \in asleep /\ call[u].left > 0 /\ pc[u] # "run"
    BY <2>1 DEF Dormant, Aside, Waiting
  <2>3. call'[u] = [call[u] EXCEPT !.left = @ - 1, !.lent = @ + Lent]
    BY <2>2 DEF Tick
  <2>4. call'[u].left = call[u].left - 1 /\ call'[u].lent = call[u].lent + Lent
          /\ call'[u].entry = call[u].entry
    BY <2>1, <2>3 DEF Fields, NoCall
  <2> QED BY <2>1, <2>2, <2>4 DEF CardInv, Booked
<1>4. PICK s \in Threads : pc[s] \in Held
  <2>1. PICK u \in asleep : u \in Threads /\ pc[u] = "wait"
    BY <1>1 DEF Tick
  <2>2. queue # <<>>
    BY <2>1 DEF CardInv, Shape, Waiting
  <2>3. 1 \in DOMAIN queue /\ Head(queue) = queue[1]
    BY <1>1, <2>2
  <2>4. ~FitsNow(queue[1]) /\ queue[1] \in Threads /\ pc[queue[1]] \in Dated
    BY <1>1, <1>3, <2>3 DEF NoLostWakeup, Admissible, Dated
  <2> QED BY <2>4, EmptyLedgerFits
<1>5. ASSUME NEW u \in Threads, pc[u] \in Owing
      PROVE  /\ call[u].ran \in Nat /\ call'[u].ran \in Nat /\ call'[u].ran >= call[u].ran
             /\ pc[u] = "run" => call'[u].ran = call[u].ran + 1 /\ call[u].ran < Ceiling
  <2>1. u \notin asleep /\ DOMAIN call[u] = Fields /\ Dormant(u) /\ call[u].ran \in Nat
    BY <1>1, <1>5, LedgerAssumption DEF CardInv, Booked, Owing
  <2>2. CASE pc[u] = "run"
    <3>1. call'[u] = [call[u] EXCEPT !.ran = @ + 1]
      BY <2>1, <2>2 DEF Tick
    <3>2. call'[u].ran = call[u].ran + 1
      BY <2>1, <3>1 DEF Fields, NoCall
    <3> QED BY <2>1, <2>2, <3>2 DEF Dormant, Aside
  <2>3. CASE pc[u] # "run"
    <3>1. call'[u] = call[u]
      BY <2>1, <2>3 DEF Tick
    <3> QED BY <2>1, <2>3, <3>1
  <2> QED BY <2>2, <2>3
<1>6. /\ Sums(MayTake', Threads) <= Sums(MayTake, Threads) /\ Sums(MayTake', Threads) \in Nat
      /\ Sums(MayTake, Threads) \in Nat
      /\ Lent = 0 => Sums(MayTake', Threads) < Sums(MayTake, Threads)
  <2>1. \A u \in Threads : pc'[u] \in Owing => pc[u] \in Owing /\ call'[u].ran >= call[u].ran
    BY <1>1, <1>5
  <2>2. \A u \in Threads : MayTake'[u] \in Nat /\ MayTake'[u] <= MayTake[u] /\ MayTake[u] \in Nat
    BY <2>1, MayTakeShrinks, MayTakeTypes
  <2>3. IsFiniteSet(Threads)
    BY LedgerAssumption
  <2>4. Sums(MayTake', Threads) <= Sums(MayTake, Threads)
    BY <2>1, MayTakeShrinks
  <2>5. ASSUME Lent = 0 PROVE Sums(MayTake', Threads) < Sums(MayTake, Threads)
    <3>1. pc[s] = "run"
      BY <1>2, <1>4, <2>5 DEF Aside, Held
    <3>2. call'[s].ran = call[s].ran + 1 /\ call[s].ran < Ceiling /\ call[s].ran \in Nat
      BY <1>5, <3>1 DEF Owing
    <3>3. MayTake'[s] < MayTake[s]
      BY <1>1, <3>1, <3>2, LedgerAssumption DEF MayTake
    <3> QED BY <2>2, <2>3, <3>3, SumDrops
  <2> QED BY <2>2, <2>3, <2>4, <2>5, SumIsNat
<1>7. ASSUME NEW j \in DOMAIN queue, call'[queue[j]].entry <= CapCeilings
      PROVE  call'[queue[j]].left + call'[queue[j]].lent >= (j - 1) * Ceiling + Sums(MayTake', Threads)
  <2>1. pc[queue[j]] \in Dated
    BY <1>1, <1>3 DEF Dated
  <2>2. call[queue[j]].left + call[queue[j]].lent >= (j - 1) * Ceiling + Sums(MayTake, Threads)
    BY <1>3, <1>7, <2>1 DEF DeadlineInv, TimeIsEnough, Ahead
  <2>3. (j - 1) * Ceiling \in Nat
    <3>1. j - 1 \in Nat
      BY <1>1
    <3> QED BY <3>1, LedgerAssumption, TimesGrows
  <2>4. /\ call'[queue[j]].left = call[queue[j]].left - 1 /\ call[queue[j]].left \in Nat
        /\ call'[queue[j]].lent = call[queue[j]].lent + Lent /\ call[queue[j]].lent \in Nat
    BY <1>3
  <2> QED BY <1>2, <1>6, <2>2, <2>3, <2>4
<1>8. InLine' /\ TimeIsEnough'
  BY <1>1, <1>7 DEF DeadlineInv, InLine, TimeIsEnough, Ahead
<1> QED BY <1>8 DEF DeadlineInv

(* A deadline that was priced in full and has come: what was lent covers     *)
(* what its owner has still to wait for.                                    *)
LEMMA OnlyLentTimeExpires ==
  ASSUME CardInv, DeadlineInv, NEW t \in Threads, TimesOut(t), ~(call[t].entry > CapCeilings)
  PROVE  \E i \in DOMAIN queue : queue[i] = t /\ StillAhead(i) <= call[t].lent
<1>1. pc[t] = "wait" /\ call[t].left = 0 /\ queue \in Seq(Threads)
  BY DEF TimesOut, Awake, CardInv, Shape
<1>2. PICK j \in DOMAIN queue : queue[j] = t
  BY <1>1 DEF CardInv, Shape, Waiting
<1>3. j - 1 \in Nat
  BY <1>1
<1>4. call[t].entry \in Nat /\ call[t].lent \in Nat /\ CapCeilings \in Nat /\ Ceiling \in Nat
  BY LedgerAssumption DEF CardInv, Booked
<1>5. call[t].left + call[t].lent >= (j - 1) * Ceiling + Sums(MayTake, Threads)
  BY <1>1, <1>2, <1>4 DEF DeadlineInv, TimeIsEnough, Ahead, Dated
<1>6. SumOf(MayTake) = Sums(MayTake, Threads)
  BY SumOfIs DEF MayTake
<1>7. (j - 1) * Ceiling \in Nat /\ Sums(MayTake, Threads) \in Nat
  BY <1>3, <1>4, TimesGrows, MayTakeTypes
<1>8. StillAhead(j) <= call[t].lent
  BY <1>1, <1>4, <1>5, <1>6, <1>7 DEF StillAhead
<1> QED BY <1>2, <1>8

LEMMA DeadlineInit == Init => DeadlineInv
BY DEF Init, DeadlineInv, InLine, TimeIsEnough

LEMMA DeadlineStep == CardInv /\ NoLostWakeup /\ DeadlineInv /\ CardInv' /\ [Next]_vars => DeadlineInv'
<1> SUFFICES ASSUME CardInv, NoLostWakeup, DeadlineInv, CardInv', [Next]_vars PROVE DeadlineInv'
  OBVIOUS
<1> QED BY DeadlinesLocal, DeadlinesPark, DeadlinesAdmit, DeadlinesUnwind, DeadlinesTick DEF Next, Thread

(* While every handler keeps to its ceiling, a park whose price was not cut  *)
(* by HEAVY_PARK_CEILING_S times out only for the time that admissions were *)
(* held outside their handlers, for every number of threads, whatever is    *)
(* admitted, refused, unwound or released before it.                        *)
THEOREM DeadlinesSuffice == Spec => PricedDeadlineSuffices
<1>1. WakeupInv => NoLostWakeup /\ Shape
  BY DEF WakeupInv
<1>2. CardInv /\ DeadlineInv /\ [Next]_vars
        => [\A t \in Threads : TimesOut(t) =>
              \/ call[t].entry > CapCeilings
              \/ \E i \in DOMAIN queue : queue[i] = t /\ StillAhead(i) <= call[t].lent]_vars
  BY OnlyLentTimeExpires
<1>3. WakeupInv' => Shape'
  BY DEF WakeupInv
<1> QED BY WakeupInit, CardInit, DeadlineInit, WakeupStep, CardStep, DeadlineStep, <1>1, <1>2, <1>3, PTL
        DEF Spec, PricedDeadlineSuffices

=============================================================================
