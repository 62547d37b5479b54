---------------------------- MODULE DispatchProofs ----------------------------
(***************************************************************************)
(* Proofs about the dispatch loop: a latch is heard, a restart leaves no   *)
(* worker in the middle of a job, the boot is billed once, and a held job  *)
(* is always somewhere.                                                    *)
(*                                                                         *)
(* All four rest on one inductive invariant. Its core is OnePlace: a job   *)
(* is in one place only, the claim queue, the loop's hand or a worker. So  *)
(* no step overwrites what a worker has done, and a process hands a job to *)
(* a pool once.                                                            *)
(***************************************************************************)
EXTENDS Dispatch, FiniteSetTheorems, SequenceTheorems, TLAPS

Places == {"check", "claim", "recheck", "validate", "submit", "track", "leave", "drain", "drainRestart",
           "exec", "exiting", "gone"}
Steps  == {None, "pool", "run", "latch", "wake", "report", "done", "lost"}
Fates  == {None, "ok", "error", "infra", "restart"}
InHand == {"recheck", "validate", "submit"}
Entries == Jobs \cup {Interrupt}

(* The jobs of a queue. *)
In(q)  == {j \in Jobs : \E i \in 1..Len(q) : q[i] = j}
Queued == In(queue)

(* Every variable an invariant speaks of has its type. *)
Types ==
  /\ inbox \in [Jobs -> {"out", "held", "reported"}]
  /\ queue \in Seq(Entries) /\ sick \in {"none", "pending", "storage"}
  /\ loop \in [pc : Places, job : Jobs \cup {None}, under : BOOLEAN]
  /\ worker \in [Jobs -> Steps] /\ fate \in [Jobs -> Fates] /\ tracked \subseteq Jobs \X Jobs
  /\ latch \in [restart : Packs \cup {None}, infra : BOOLEAN]
  /\ boot \in BOOLEAN /\ mine \subseteq Jobs /\ billed \in Nat /\ expired \in BOOLEAN

(* No job is twice in a queue; interrupts may be. *)
Once(q) == \A i, k \in 1..Len(q) : q[i] = q[k] /\ q[i] # Interrupt => i = k

(* A job is in one place: queued, in the loop's hand, or with a worker. *)
OnePlace ==
  /\ Once(queue)
  /\ \A j \in Queued : inbox[j] = "held" /\ worker[j] = None /\ loop.job # j
  /\ loop.pc \in InHand => loop.job \in Jobs /\ inbox[loop.job] = "held" /\ worker[loop.job] = None
  /\ loop.pc = "track" => loop.job \in Jobs /\ worker[loop.job] # None
  /\ loop.pc \notin InHand \cup {"track"} => loop.job = None
  /\ \A j \in Jobs : worker[j] # None => inbox[j] # "out"

(* What a worker's step says of its job. A chain that needs a restart goes  *)
(* without a terminal, and only once the restart is latched.                *)
WorkerSays ==
  \A j \in Jobs :
    /\ fate[j] = "restart" => Kind[j] = "ops"
    /\ worker[j] \in {"latch", "wake"} =>
         fate[j] = "restart" \/ inbox[j] = "reported" \/ (Kind[j] = "ops" /\ fate[j] = "infra")
    /\ worker[j] = "wake" /\ fate[j] = "restart" => latch.restart # None
    /\ worker[j] = "done" /\ inbox[j] = "held" => fate[j] = "restart" /\ latch.restart # None

HeldHasPlace ==
  \A j \in Jobs : inbox[j] = "held" =>
    j \in Queued \/ (loop.pc \in InHand /\ loop.job = j) \/ worker[j] # None

(* The coordinator tracks every worker that is not done, but the one whose  *)
(* future the loop is about to track.                                       *)
AllTracked ==
  /\ tracked \subseteq {<<j, j>> : j \in Jobs}
  /\ \A j \in Active : <<j, j>> \in tracked \/ (loop.pc = "track" /\ loop.job = j)
  /\ RestartLeavesNoWork

(* At most one job holds the right to bill; once one has billed it stays    *)
(* taken, by a job that is over and ended well.                             *)
OneBills ==
  /\ \A j, k \in mine : j = k
  /\ mine # {} => boot
  /\ \A j \in mine : worker[j] \notin {None, "pool"}
  /\ billed # 0 => billed = 1 /\ \E j \in mine : worker[j] = "done" /\ fate[j] = "ok"

(* A latch set during a claim is followed by an interrupt in the queue; a   *)
(* claim made under a fault never comes to the pool.                        *)
LatchComes ==
  /\ loop.pc = "claim" /\ Latched => queue # << >> \/ \E j \in Jobs : worker[j] = "wake"
  /\ loop.pc = "recheck" /\ loop.under => latch.infra
  /\ loop.pc \in {"validate", "submit", "track"} => ~loop.under

IInv == Types /\ OnePlace /\ WorkerSays /\ HeldHasPlace /\ AllTracked /\ OneBills /\ LatchComes

-----------------------------------------------------------------------------
(* The queue's operators: a job appended, taken from the head, put back     *)
(* behind the others, and the held jobs of a boot in some order.            *)

(* Appending adds one entry at the end; a queue where no job is twice stays *)
(* such a queue if the job was not in it.                                   *)
LEMMA AppendAdds ==
  ASSUME NEW q \in Seq(Entries), NEW x \in Entries
  PROVE  /\ Append(q, x) \in Seq(Entries) /\ Append(q, x) # << >>
         /\ In(Append(q, x)) = In(q) \cup (Jobs \cap {x})
         /\ Once(q) /\ (x = Interrupt \/ x \notin In(q)) => Once(Append(q, x))
<1> DEFINE r == Append(q, x)
<1>1. r \in Seq(Entries) /\ Len(r) = Len(q) + 1 /\ r[Len(q) + 1] = x /\ \A i \in 1..Len(q) : r[i] = q[i]
  BY AppendProperties
<1>2. Len(q) \in Nat /\ \A i \in 1..Len(q) : q[i] \in Entries
  BY LenProperties, ElementOfSeq
<1>3. r # << >>
  BY <1>1, <1>2
<1>4. In(r) = In(q) \cup (Jobs \cap {x})
  BY <1>1, <1>2 DEF In
<1>5. ASSUME Once(q), x = Interrupt \/ x \notin In(q), NEW i \in 1..Len(r), NEW k \in 1..Len(r),
             r[i] = r[k], r[i] # Interrupt
      PROVE  i = k
  <2>1. x \in Jobs => \A n \in 1..Len(q) : q[n] # x
    BY <1>5, DispatchAssumption DEF In
  <2>2. CASE i \in 1..Len(q) /\ k \in 1..Len(q)
    BY <2>2, <1>1, <1>5 DEF Once
  <2>3. CASE i \notin 1..Len(q) \/ k \notin 1..Len(q)
    BY <2>1, <2>3, <1>1, <1>2, <1>5 DEF Entries
  <2> QED
    BY <2>2, <2>3
<1> QED
  BY <1>1, <1>3, <1>4, <1>5 DEF Once

(* Taking the head leaves the others: where no job is twice, the one taken  *)
(* is not left behind.                                                      *)
LEMMA TailLeaves ==
  ASSUME NEW q \in Seq(Entries), q # << >>
  PROVE  /\ Head(q) \in Entries /\ Tail(q) \in Seq(Entries)
         /\ In(q) = In(Tail(q)) \cup (Jobs \cap {Head(q)})
         /\ Once(q) => Once(Tail(q)) /\ (Head(q) # Interrupt => Head(q) \notin In(Tail(q)))
<1> DEFINE t == Tail(q)
<1>1. Len(q) \in Nat /\ \A i \in 1..Len(q) : q[i] \in Entries
  BY LenProperties, ElementOfSeq
<1>2. Len(q) # 0
  BY EmptySeq
<1>3. Head(q) = q[1] /\ t \in Seq(Entries) /\ Len(t) = Len(q) - 1 /\ \A i \in 1..Len(t) : t[i] = q[i + 1]
  BY HeadTailProperties
<1>4. In(q) = In(t) \cup (Jobs \cap {q[1]})
  <2>1. ASSUME NEW j \in In(q) PROVE j \in In(t) \cup {q[1]}
    <3>1. PICK i \in 1..Len(q) : q[i] = j
      BY DEF In
    <3>2. CASE i = 1
      BY <3>1, <3>2
    <3>3. CASE i # 1
      <4>1. i - 1 \in 1..Len(t) /\ t[i - 1] = j
        BY <3>1, <3>3, <1>1, <1>3
      <4> QED
        BY <4>1 DEF In
    <3> QED
      BY <3>2, <3>3
  <2>2. ASSUME NEW j \in In(t) PROVE j \in In(q)
    <3>1. PICK i \in 1..Len(t) : t[i] = j
      BY DEF In
    <3>2. i + 1 \in 1..Len(q) /\ q[i + 1] = j
      BY <3>1, <1>1, <1>3
    <3> QED
      BY <3>2 DEF In
  <2>3. Jobs \cap {q[1]} \subseteq In(q) /\ In(q) \subseteq Jobs
    BY <1>1, <1>2 DEF In
  <2> QED
    BY <2>1, <2>2, <2>3
<1>5. ASSUME Once(q) PROVE Once(t) /\ (q[1] # Interrupt => q[1] \notin In(t))
  <2>1. \A i \in 1..Len(t) : i + 1 \in 1..Len(q) /\ 1 \in 1..Len(q) /\ i + 1 # 1
    BY <1>1, <1>2, <1>3
  <2> QED
    BY <2>1, <1>1, <1>3, <1>5 DEF Once, In
<1> QED
  BY <1>1, <1>2, <1>3, <1>4, <1>5

(* The held jobs in some order: each of them once, and no other.            *)
LEMMA ListHolds ==
  ASSUME NEW S \in SUBSET Jobs
  PROVE  SetToSeq(S) \in Seq(Entries) /\ Once(SetToSeq(S)) /\ In(SetToSeq(S)) = S
<1> DEFINE n == Cardinality(S)
           q == SetToSeq(S)
<1>1. IsFiniteSet(S) /\ n \in Nat /\ ExistsBijection(1..n, S)
  BY DispatchAssumption, FS_Subset, FS_CardinalityType
<1>2. PICK f \in [1..n -> S] : IsInjective(f)
  BY <1>1 DEF ExistsBijection, Bijection, Injection
<1>3. q \in [1..n -> S] /\ IsInjective(q)
  BY <1>2 DEF SetToSeq
<1>4. IsFiniteSet(1..n) /\ Cardinality(1..n) = n
  BY <1>1, FS_Interval
<1>5. q \in Surjection(1..n, S)
  BY <1>1, <1>3, <1>4, FS_Injection DEF Injection
<1>6. q \in Seq(Entries) /\ Len(q) = n
  BY <1>1, <1>3, SeqDef, LenProperties DEF Entries
<1>7. In(q) = S
  BY <1>3, <1>5, <1>6 DEF In, Surjection
<1> QED
  BY <1>3, <1>6, <1>7 DEF Once, IsInjective

-----------------------------------------------------------------------------
(* The steps that let go of the job in hand, and those of a worker.         *)

(* The loop lets go of the job in its hand: nothing is in hand after.       *)
Freed == loop' \in [pc : {"check", "leave", "exiting"}, job : {None}, under : {FALSE}]

(* Whatever raises lets go of the job, and the loop goes on or exits.       *)
LEMMA RaisesFrees ==
  ASSUME NEW what, Raises(what)
  PROVE  Freed
BY DEF Raises, Freed

(* A job let go has its result, or is lost to a failed write: it is in no   *)
(* place, and owed to none.                                                 *)
LEMMA LetsGo ==
  ASSUME IInv, loop.pc \in {"recheck", "validate"}, Freed, queue' = queue,
         \/ worker' = worker /\ inbox' = [inbox EXCEPT ![loop.job] = "reported"]
         \/ inbox' = inbox /\ worker' = [worker EXCEPT ![loop.job] = "lost"]
  PROVE  /\ OnePlace' /\ HeldHasPlace'
         /\ worker' \in [Jobs -> Steps] /\ inbox' \in [Jobs -> {"out", "held", "reported"}]
         /\ loop' \in [pc : Places, job : Jobs \cup {None}, under : BOOLEAN]
<1> DEFINE job == loop.job
<1>1. job \in Jobs /\ inbox[job] = "held" /\ worker[job] = None /\ Queued' = Queued
  BY DEF IInv, OnePlace, InHand, Queued, In
<1>2. loop'.pc \in {"check", "leave", "exiting"} /\ loop'.job = None
  BY DEF Freed
<1>3. /\ worker' \in [Jobs -> Steps] /\ inbox' \in [Jobs -> {"out", "held", "reported"}]
      /\ \A j \in Jobs : j # job => worker'[j] = worker[j] /\ inbox'[j] = inbox[j]
      /\ inbox'[job] = "reported" \/ (worker'[job] = "lost" /\ inbox'[job] = "held")
  BY <1>1 DEF IInv, Types, Steps
<1>4. job \notin Queued
  BY <1>1 DEF IInv, OnePlace
<1>5. OnePlace'
  BY <1>1, <1>2, <1>3, <1>4, DispatchAssumption DEF IInv, OnePlace, InHand, Queued, In, None
<1>6. HeldHasPlace'
  BY <1>1, <1>2, <1>3 DEF IInv, HeldHasPlace, None
<1>7. loop' \in [pc : Places, job : Jobs \cup {None}, under : BOOLEAN]
  BY DEF Freed, Places
<1> QED
  BY <1>3, <1>5, <1>6, <1>7

(* A worker's step leaves its job with the worker, and every other job      *)
(* where it was.                                                            *)
LEMMA WorkerStays ==
  ASSUME IInv, NEW j \in Jobs, worker[j] # None, NEW step \in Steps \ {None},
         worker' = [worker EXCEPT ![j] = step], loop' = loop,
         inbox' = inbox \/ inbox' = [inbox EXCEPT ![j] = "reported"],
         queue' = queue \/ queue' = Append(queue, Interrupt)
  PROVE  /\ OnePlace' /\ HeldHasPlace' /\ queue' \in Seq(Entries)
         /\ worker' \in [Jobs -> Steps] /\ inbox' \in [Jobs -> {"out", "held", "reported"}]
<1>1. queue' \in Seq(Entries) /\ Once(queue') /\ Queued' = Queued
  <2>1. queue \in Seq(Entries) /\ Once(queue) /\ Interrupt \in Entries /\ Interrupt \notin Jobs
    BY DispatchAssumption DEF IInv, Types, OnePlace, Entries
  <2>2. queue' = queue => Queued' = Queued
    BY DEF Queued, In
  <2>3. queue' = Append(queue, Interrupt) => queue' \in Seq(Entries) /\ Once(queue') /\ In(queue') = In(queue)
    <3>1. /\ Append(queue, Interrupt) \in Seq(Entries)
          /\ In(Append(queue, Interrupt)) = In(queue) \cup (Jobs \cap {Interrupt})
          /\ Once(Append(queue, Interrupt))
      BY <2>1, AppendAdds
    <3> QED
      BY <3>1, <2>1
  <2> QED
    BY <2>1, <2>2, <2>3 DEF Queued, In
<1>2. /\ worker' \in [Jobs -> Steps] /\ inbox' \in [Jobs -> {"out", "held", "reported"}]
      /\ \A k \in Jobs : k # j => worker'[k] = worker[k] /\ inbox'[k] = inbox[k]
      /\ worker'[j] # None /\ inbox'[j] \in {inbox[j], "reported"}
  BY DEF IInv, Types
<1>3. j \notin Queued /\ (loop.pc \in InHand => loop.job # j) /\ inbox[j] # "out"
  BY DEF IInv, OnePlace
<1>4. OnePlace'
  BY <1>1, <1>2, <1>3 DEF IInv, OnePlace, Queued, In
<1>5. HeldHasPlace'
  BY <1>1, <1>2, <1>3 DEF IInv, HeldHasPlace
<1> QED
  BY <1>1, <1>2, <1>4, <1>5


-----------------------------------------------------------------------------
(* Every step keeps the invariant. *)

(* A delivery: the job was in no place, and is queued. *)
LEMMA DeliversKeeps ==
  ASSUME IInv, NEW j \in Jobs, Delivers(j)
  PROVE  IInv'
<1>1. inbox[j] = "out" /\ worker[j] = None /\ j \notin Queued /\ loop.job # j /\ Queued \subseteq Jobs
  BY DispatchAssumption DEF Delivers, IInv, OnePlace, Queued, In
<1>2. queue' \in Seq(Entries) /\ Once(queue') /\ Queued' = Queued \cup {j} /\ queue' # << >>
  <2>1. queue \in Seq(Entries) /\ Once(queue) /\ j \in Entries /\ j \notin In(queue)
          /\ queue' = Append(queue, j)
    BY <1>1 DEF Delivers, IInv, Types, OnePlace, Entries, Queued
  <2>2. /\ Append(queue, j) \in Seq(Entries) /\ Append(queue, j) # << >>
        /\ In(Append(queue, j)) = In(queue) \cup (Jobs \cap {j}) /\ Once(Append(queue, j))
    BY <2>1, AppendAdds
  <2>3. Queued' = In(queue')
    BY DEF Queued, In
  <2> QED
    BY <2>1, <2>2, <2>3 DEF Queued
<1>3. /\ inbox'[j] = "held" /\ \A k \in Jobs : k # j => inbox'[k] = inbox[k]
      /\ loop' = loop /\ worker' = worker
  BY DEF Delivers, IInv, Types, work
<1>Types. Types'
  BY <1>2, DispatchAssumption DEF IInv, Types, Delivers, work, bill, kept,
    stream
<1>OnePlace. OnePlace'
  BY <1>1, <1>2, <1>3, DispatchAssumption DEF IInv, OnePlace
<1>WorkerSays. WorkerSays'
  BY DispatchAssumption DEF IInv, WorkerSays, Types, OnePlace, Delivers, kept,
    stream, work, bill, At, None
<1>HeldHasPlace. HeldHasPlace'
  BY <1>1, <1>2, <1>3, DispatchAssumption DEF IInv, HeldHasPlace, InHand, None
<1>AllTracked. AllTracked'
  BY DispatchAssumption DEF IInv, AllTracked, Types, OnePlace, Active,
    RestartLeavesNoWork, Delivers, kept, stream, work, bill, At, None
<1>OneBills. OneBills'
  BY DispatchAssumption DEF IInv, OneBills, Types, OnePlace, Delivers, kept,
    stream, work, bill, At, None
<1>LatchComes. LatchComes'
  BY DispatchAssumption DEF IInv, LatchComes, Types, Latched, Delivers, kept,
    stream, work, bill, At, None
<1> QED
  BY <1>Types, <1>OnePlace, <1>WorkerSays, <1>HeldHasPlace, <1>AllTracked,
    <1>OneBills, <1>LatchComes DEF IInv

(* A claim behind a latched admission: the job is still queued. *)
LEMMA ClaimRaisesKeeps ==
  ASSUME IInv, ClaimRaises
  PROVE  IInv'
<1>1. Freed /\ loop.pc = "claim" /\ loop'.pc \in {"check", "exiting"}
  BY RaisesFrees DEF ClaimRaises, Raises
<1>2. queue' \in Seq(Entries) /\ Once(queue') /\ Queued' = Queued
  <2>1. queue \in Seq(Entries) /\ Once(queue) /\ Queued' = In(queue')
    BY DEF IInv, Types, OnePlace, Queued, In
  <2>2. CASE queue' = queue
    BY <2>1, <2>2 DEF Queued
  <2>3. CASE queue # << >> /\ Head(queue) # Interrupt /\ queue' = Append(Tail(queue), Head(queue))
    <3>1. /\ Head(queue) \in Entries /\ Tail(queue) \in Seq(Entries) /\ Once(Tail(queue))
          /\ In(queue) = In(Tail(queue)) \cup (Jobs \cap {Head(queue)}) /\ Head(queue) \notin In(Tail(queue))
      BY <2>1, <2>3, TailLeaves
    <3>2. /\ queue' \in Seq(Entries) /\ Once(queue')
          /\ In(queue') = In(Tail(queue)) \cup (Jobs \cap {Head(queue)})
      BY <3>1, <2>3, AppendAdds
    <3> QED
      BY <2>1, <3>1, <3>2 DEF Queued
  <2> QED
    BY <2>2, <2>3 DEF ClaimRaises
<1>Types. Types'
  BY <1>1, <1>2, DispatchAssumption DEF IInv, Types, Freed, Places,
    ClaimRaises, work, bill, kept
<1>OnePlace. OnePlace'
  BY <1>1, <1>2, DispatchAssumption DEF IInv, OnePlace, InHand, Freed, None,
    ClaimRaises, kept, work
<1>WorkerSays. WorkerSays'
  BY DispatchAssumption DEF IInv, WorkerSays, Types, OnePlace, ClaimRaises,
    Freed, kept, stream, work, bill, At, None
<1>HeldHasPlace. HeldHasPlace'
  BY <1>1, <1>2, DispatchAssumption DEF IInv, HeldHasPlace, OnePlace, InHand,
    ClaimRaises, kept, work
<1>AllTracked. AllTracked'
  BY <1>1, DispatchAssumption DEF IInv, AllTracked, Types, OnePlace, Active,
    RestartLeavesNoWork, ClaimRaises, Freed, kept, stream, work, bill, At,
    None
<1>OneBills. OneBills'
  BY DispatchAssumption DEF IInv, OneBills, Types, OnePlace, ClaimRaises,
    Freed, kept, stream, work, bill, At, None
<1>LatchComes. LatchComes'
  BY <1>1, DispatchAssumption DEF IInv, LatchComes, Types, Latched,
    ClaimRaises, Freed, kept, stream, work, bill, At, None
<1> QED
  BY <1>Types, <1>OnePlace, <1>WorkerSays, <1>HeldHasPlace, <1>AllTracked,
    <1>OneBills, <1>LatchComes DEF IInv

(* A claim that brings nothing takes at most an interrupt. *)
LEMMA ClaimsNothingKeeps ==
  ASSUME IInv, ClaimsNothing
  PROVE  IInv'
<1>1. queue # << >> => /\ Tail(queue) \in Seq(Entries) /\ Once(Tail(queue)) /\ Head(queue) \in Entries
                       /\ In(queue) = In(Tail(queue)) \cup (Jobs \cap {Head(queue)})
                       /\ Head(queue) # Interrupt => Head(queue) \notin In(Tail(queue))
  BY TailLeaves DEF IInv, Types, OnePlace

<1>2. queue' \in Seq(Entries) /\ Once(queue') /\ Queued' = Queued
  <2>1. CASE queue' = queue
    BY <2>1 DEF IInv, Types, OnePlace, Queued, In
  <2>2. CASE queue # << >> /\ Head(queue) = Interrupt /\ queue' = Tail(queue)
    <3>1. Queued' = In(Tail(queue)) /\ Queued = In(queue)
      BY <2>2 DEF Queued, In
    <3> QED
      BY <1>1, <2>2, <3>1, DispatchAssumption
  <2> QED
    BY <2>1, <2>2 DEF ClaimsNothing
<1>3. loop.pc = "claim" /\ loop' = [loop EXCEPT !.pc = "check"]
  BY DEF ClaimsNothing, At
<1>Types. Types'
  BY <1>2, <1>3, DispatchAssumption DEF IInv, Types, Places, ClaimsNothing,
    work, bill, kept
<1>OnePlace. OnePlace'
  BY <1>2, <1>3, DispatchAssumption DEF IInv, Types, OnePlace, InHand,
    ClaimsNothing, kept, work
<1>WorkerSays. WorkerSays'
  BY DispatchAssumption DEF IInv, WorkerSays, Types, OnePlace, ClaimsNothing,
    kept, stream, work, bill, At, None
<1>HeldHasPlace. HeldHasPlace'
  BY <1>2, <1>3, DispatchAssumption DEF IInv, Types, HeldHasPlace, OnePlace,
    InHand, ClaimsNothing, kept, work
<1>AllTracked. AllTracked'
  BY DispatchAssumption DEF IInv, AllTracked, Types, OnePlace, Active,
    RestartLeavesNoWork, ClaimsNothing, kept, stream, work, bill, At, None
<1>OneBills. OneBills'
  BY DispatchAssumption DEF IInv, OneBills, Types, OnePlace, ClaimsNothing,
    kept, stream, work, bill, At, None
<1>LatchComes. LatchComes'
  BY DispatchAssumption DEF IInv, LatchComes, Types, Latched, ClaimsNothing,
    kept, stream, work, bill, At, None
<1> QED
  BY <1>Types, <1>OnePlace, <1>WorkerSays, <1>HeldHasPlace, <1>AllTracked,
    <1>OneBills, <1>LatchComes DEF IInv

(* A claim takes its job from the queue into the loop's hand. *)
LEMMA ClaimsKeeps ==
  ASSUME IInv, Claims
  PROVE  IInv'
<1>1. queue # << >> => /\ Tail(queue) \in Seq(Entries) /\ Once(Tail(queue)) /\ Head(queue) \in Entries
                       /\ In(queue) = In(Tail(queue)) \cup (Jobs \cap {Head(queue)})
                       /\ Head(queue) # Interrupt => Head(queue) \notin In(Tail(queue))
  BY TailLeaves DEF IInv, Types, OnePlace

<1>2. Head(queue) \in Jobs /\ queue' = Tail(queue) /\ Head(queue) \notin Queued'
        /\ Queued = Queued' \cup {Head(queue)}
  BY <1>1 DEF Claims, Queued, In, Entries
<1>3. loop.pc = "claim" /\ loop' = [pc |-> "recheck", job |-> Head(queue), under |-> latch.infra]
  BY DEF Claims
<1>Types. Types'
  BY <1>1, <1>2, <1>3, DispatchAssumption DEF IInv, Types, Places, Claims,
    work, bill, kept
<1>OnePlace. OnePlace'
  BY <1>1, <1>2, <1>3, DispatchAssumption DEF IInv, Types, OnePlace, InHand,
    Claims, kept, work
<1>WorkerSays. WorkerSays'
  BY DispatchAssumption DEF IInv, WorkerSays, Types, OnePlace, Claims, kept,
    stream, work, bill, At, None
<1>HeldHasPlace. HeldHasPlace'
  BY <1>1, <1>2, <1>3, DispatchAssumption DEF IInv, Types, HeldHasPlace,
    OnePlace, InHand, Claims, kept, work
<1>AllTracked. AllTracked'
  BY DispatchAssumption DEF IInv, AllTracked, Types, OnePlace, Active,
    RestartLeavesNoWork, Claims, kept, stream, work, bill, At, None
<1>OneBills. OneBills'
  BY DispatchAssumption DEF IInv, OneBills, Types, OnePlace, Claims, kept,
    stream, work, bill, At, None
<1>LatchComes. LatchComes'
  BY DispatchAssumption DEF IInv, LatchComes, Types, Latched, Claims, kept,
    stream, work, bill, At, None
<1> QED
  BY <1>Types, <1>OnePlace, <1>WorkerSays, <1>HeldHasPlace, <1>AllTracked,
    <1>OneBills, <1>LatchComes DEF IInv

(* The recheck: a job claimed under a fault is refused, any other goes on. *)
LEMMA RechecksKeeps ==
  ASSUME IInv, Rechecks
  PROVE  IInv'
<1>1. loop.pc \in {"recheck", "validate"} /\ loop.job \in Jobs /\ worker[loop.job] = None
  BY DEF Rechecks, IInv, OnePlace, InHand
<1>2. queue' = queue /\ UNCHANGED <<latch, bill, expired, fate, tracked>>
        /\ sick' \in {"none", "pending", "storage"}
  BY DEF Rechecks, Refuses, Acked, Ambiguous, WriteFails, IInv, Types, kept, stream, work
<1>3. \/ /\ Freed
         /\ \/ worker' = worker /\ inbox' = [inbox EXCEPT ![loop.job] = "reported"]
            \/ inbox' = inbox /\ worker' = [worker EXCEPT ![loop.job] = "lost"]
      \/ /\ loop' = [loop EXCEPT !.pc = "validate"] /\ inbox' = inbox /\ worker' = worker
         /\ loop.pc = "recheck" => ~latch.infra
  <2>1. (Raises("pending") => Freed) /\ (Raises("storage") => Freed)
    BY RaisesFrees
  <2>2. [pc |-> "leave", job |-> None, under |-> FALSE] \in [pc : {"check", "leave", "exiting"},
                                                             job : {None}, under : {FALSE}]
    OBVIOUS
  <2> QED
    BY <2>1, <2>2 DEF Rechecks, Refuses, Acked, Ambiguous, WriteFails, Becomes, At, Freed, kept, work
<1>4. CASE loop' = [loop EXCEPT !.pc = "validate"] /\ inbox' = inbox /\ worker' = worker
             /\ (loop.pc = "recheck" => ~latch.infra)
  BY <1>1, <1>2, <1>4
  DEF IInv, Types, Places, OnePlace, InHand, Queued, In, WorkerSays, HeldHasPlace, AllTracked,
    Active, RestartLeavesNoWork, OneBills, LatchComes, Latched, bill
<1>5. ASSUME Freed,
             \/ worker' = worker /\ inbox' = [inbox EXCEPT ![loop.job] = "reported"]
             \/ inbox' = inbox /\ worker' = [worker EXCEPT ![loop.job] = "lost"]
      PROVE  IInv'
  <2>1. /\ OnePlace' /\ HeldHasPlace'
        /\ worker' \in [Jobs -> Steps] /\ inbox' \in [Jobs -> {"out", "held", "reported"}]
        /\ loop' \in [pc : Places, job : Jobs \cup {None}, under : BOOLEAN]
    BY <1>1, <1>2, <1>5, LetsGo
  <2>2. loop'.pc \in {"check", "leave", "exiting"} /\ ~loop'.under
    BY <1>5 DEF Freed
  <2>3. Types'
    BY <1>2, <2>1 DEF IInv, Types, bill
  <2>4. WorkerSays'
    BY <1>1, <1>2, <1>5 DEF IInv, WorkerSays, Types
  <2>5. AllTracked'
    BY <1>1, <1>2, <1>5, <2>2 DEF IInv, AllTracked, Types, OnePlace, Active, RestartLeavesNoWork, None
  <2>6. OneBills'
    BY <1>1, <1>2, <1>5 DEF IInv, OneBills, Types, OnePlace, bill, None
  <2>7. LatchComes'
    BY <2>2 DEF LatchComes
  <2> QED
    BY <2>1, <2>3, <2>4, <2>5, <2>6, <2>7 DEF IInv
<1> QED
  BY <1>3, <1>4, <1>5

(* The validation: a job is refused, lost to a failed write, or goes on. *)
LEMMA ValidatesKeeps ==
  ASSUME IInv, Validates
  PROVE  IInv'
<1>1. loop.pc \in {"recheck", "validate"} /\ loop.job \in Jobs /\ worker[loop.job] = None
  BY DEF Validates, IInv, OnePlace, InHand
<1>2. queue' = queue /\ UNCHANGED <<latch, bill, expired, fate, tracked>>
        /\ sick' \in {"none", "pending", "storage"}
  BY DEF Validates, Refuses, Acked, Ambiguous, WriteFails, IInv, Types, kept, stream, work
<1>3. \/ /\ Freed
         /\ \/ worker' = worker /\ inbox' = [inbox EXCEPT ![loop.job] = "reported"]
            \/ inbox' = inbox /\ worker' = [worker EXCEPT ![loop.job] = "lost"]
      \/ /\ loop' = [loop EXCEPT !.pc = "submit"] /\ inbox' = inbox /\ worker' = worker
         /\ loop.pc = "recheck" => ~latch.infra
  <2>1. (Raises("pending") => Freed) /\ (Raises("storage") => Freed)
    BY RaisesFrees
  <2>2. [pc |-> "check", job |-> None, under |-> FALSE] \in [pc : {"check", "leave", "exiting"},
                                                             job : {None}, under : {FALSE}]
    OBVIOUS
  <2> QED
    BY <2>1, <2>2 DEF Validates, Refuses, Acked, Ambiguous, WriteFails, Becomes, At, Freed, kept, work
<1>4. CASE loop' = [loop EXCEPT !.pc = "submit"] /\ inbox' = inbox /\ worker' = worker
             /\ (loop.pc = "recheck" => ~latch.infra)
  BY <1>1, <1>2, <1>4
  DEF IInv, Types, Places, OnePlace, InHand, Queued, In, WorkerSays, HeldHasPlace, AllTracked,
    Active, RestartLeavesNoWork, OneBills, LatchComes, Latched, bill
<1>5. ASSUME Freed,
             \/ worker' = worker /\ inbox' = [inbox EXCEPT ![loop.job] = "reported"]
             \/ inbox' = inbox /\ worker' = [worker EXCEPT ![loop.job] = "lost"]
      PROVE  IInv'
  <2>1. /\ OnePlace' /\ HeldHasPlace'
        /\ worker' \in [Jobs -> Steps] /\ inbox' \in [Jobs -> {"out", "held", "reported"}]
        /\ loop' \in [pc : Places, job : Jobs \cup {None}, under : BOOLEAN]
    BY <1>1, <1>2, <1>5, LetsGo
  <2>2. loop'.pc \in {"check", "leave", "exiting"} /\ ~loop'.under
    BY <1>5 DEF Freed
  <2>3. Types'
    BY <1>2, <2>1 DEF IInv, Types, bill
  <2>4. WorkerSays'
    BY <1>1, <1>2, <1>5 DEF IInv, WorkerSays, Types
  <2>5. AllTracked'
    BY <1>1, <1>2, <1>5, <2>2 DEF IInv, AllTracked, Types, OnePlace, Active, RestartLeavesNoWork, None
  <2>6. OneBills'
    BY <1>1, <1>2, <1>5 DEF IInv, OneBills, Types, OnePlace, bill, None
  <2>7. LatchComes'
    BY <2>2 DEF LatchComes
  <2> QED
    BY <2>1, <2>3, <2>4, <2>5, <2>6, <2>7 DEF IInv
<1> QED
  BY <1>3, <1>4, <1>5

(* A job goes from the loop's hand to a pool. *)
LEMMA SubmitsKeeps ==
  ASSUME IInv, Submits
  PROVE  IInv'
<1>Types. Types'
  BY DispatchAssumption DEF IInv, Types, Places, Steps, Fates, Entries,
    Submits, Becomes, kept, stream, work, bill, At, None
<1>OnePlace. OnePlace'
  BY DispatchAssumption DEF IInv, OnePlace, Types, InHand, Queued, In,
    Submits, Becomes, kept, stream, work, bill, At, None
<1>WorkerSays. WorkerSays'
  BY DispatchAssumption DEF IInv, WorkerSays, Types, OnePlace, Submits,
    Becomes, kept, stream, work, bill, At, None
<1>HeldHasPlace. HeldHasPlace'
  BY DispatchAssumption DEF IInv, HeldHasPlace, Types, OnePlace, InHand,
    Queued, In, Submits, Becomes, kept, stream, work, bill, At, None
<1>AllTracked. AllTracked'
  BY DispatchAssumption DEF IInv, AllTracked, Types, OnePlace, Active,
    RestartLeavesNoWork, Submits, Becomes, kept, stream, work, bill, At, None
<1>OneBills. OneBills'
  BY DispatchAssumption DEF IInv, OneBills, Types, OnePlace, Submits, Becomes,
    kept, stream, work, bill, At, None
<1>LatchComes. LatchComes'
  BY DispatchAssumption DEF IInv, LatchComes, Types, Latched, Submits,
    Becomes, kept, stream, work, bill, At, None
<1> QED
  BY <1>Types, <1>OnePlace, <1>WorkerSays, <1>HeldHasPlace, <1>AllTracked,
    <1>OneBills, <1>LatchComes DEF IInv

(* The future of the job handed over is tracked, unless it is done. *)
LEMMA TracksKeeps ==
  ASSUME IInv, Tracks
  PROVE  IInv'
<1>1. /\ loop.pc = "track" /\ loop.job \in Jobs /\ worker[loop.job] # None
      /\ loop' = [pc |-> "check", job |-> None, under |-> FALSE]
      /\ UNCHANGED <<inbox, queue, worker, fate, latch, bill, sick, expired>>
  BY DEF Tracks, IInv, OnePlace, kept, stream
<1>2. tracked' = IF loop.job \in Active THEN {t \in tracked : t[1] # loop.job} \cup {<<loop.job, loop.job>>}
                 ELSE tracked
  BY DEF Tracks, Key
<1>Types. Types'
  BY <1>1, <1>2, DispatchAssumption DEF IInv, Types, Places, bill
<1>OnePlace. OnePlace'
  BY <1>1, DispatchAssumption DEF IInv, OnePlace, InHand, Queued, In
<1>WorkerSays. WorkerSays'
  BY DispatchAssumption DEF IInv, WorkerSays, Types, OnePlace, Tracks, Key,
    kept, stream, work, bill, At, None
<1>HeldHasPlace. HeldHasPlace'
  BY DispatchAssumption DEF IInv, HeldHasPlace, Types, OnePlace, InHand,
    Queued, In, Tracks, Key, kept, stream, work, bill, At, None
<1>AllTracked. AllTracked'
  BY <1>1, <1>2, DispatchAssumption DEF IInv, AllTracked, Active,
    RestartLeavesNoWork
<1>OneBills. OneBills'
  BY DispatchAssumption DEF IInv, OneBills, Types, OnePlace, Tracks, Key,
    kept, stream, work, bill, At, None
<1>LatchComes. LatchComes'
  BY DispatchAssumption DEF IInv, LatchComes, Types, Latched, Tracks, Key,
    kept, stream, work, bill, At, None
<1> QED
  BY <1>Types, <1>OnePlace, <1>WorkerSays, <1>HeldHasPlace, <1>AllTracked,
    <1>OneBills, <1>LatchComes DEF IInv

(* A worker that starts its job, or loses it to a failed write, may take    *)
(* the boot: no other holds it then.                                        *)
LEMMA StartsKeeps ==
  ASSUME IInv, NEW j \in Jobs, Starts(j)
  PROVE  IInv'
<1>1. worker[j] = "pool" /\ worker[j] # None /\ j \notin mine
  BY DEF Starts, IInv, OneBills, None
<1>2. UNCHANGED <<inbox, queue, loop, latch, fate, billed, sick, expired>>
  BY DEF Starts, Loses, stream
<1>3. \/ worker' = [worker EXCEPT ![j] = "lost"] /\ tracked' = {t \in tracked : t[2] # j}
           /\ UNCHANGED <<boot, mine>>
      \/ /\ worker' = [worker EXCEPT ![j] = "run"] /\ tracked' = tracked
         /\ \/ boot' = TRUE /\ mine' = IF boot THEN mine ELSE mine \cup {j}
            \/ UNCHANGED <<boot, mine>>
  BY DEF Starts, Loses, Becomes
<1>4. PICK step \in {"run", "lost"} : worker' = [worker EXCEPT ![j] = step]
  BY <1>3
<1>5. /\ OnePlace' /\ HeldHasPlace' /\ queue' \in Seq(Entries)
      /\ worker' \in [Jobs -> Steps] /\ inbox' \in [Jobs -> {"out", "held", "reported"}]
  <2>1. step \in Steps \ {None}
    BY <1>4 DEF Steps, None
  <2> QED
    BY <1>1, <1>2, <1>4, <2>1, WorkerStays
<1>6. Types'
  BY <1>2, <1>3, <1>5 DEF IInv, Types
<1>7. WorkerSays'
  BY <1>2, <1>4 DEF IInv, WorkerSays, Types
<1>8. AllTracked'
  BY <1>1, <1>2, <1>3 DEF IInv, AllTracked, Types, Active, RestartLeavesNoWork
<1>9. OneBills'
  BY <1>1, <1>2, <1>3 DEF IInv, OneBills, Types, None
<1>10. LatchComes'
  BY <1>1, <1>2, <1>4 DEF IInv, LatchComes, Types, Latched
<1> QED
  BY <1>5, <1>6, <1>7, <1>8, <1>9, <1>10 DEF IInv

(* A job's run ends: only a chain ends for want of a restart.               *)
LEMMA FinishesKeeps ==
  ASSUME IInv, NEW j \in Jobs, Finishes(j)
  PROVE  IInv'
<1>1. worker[j] = "run" /\ worker[j] # None
  BY DEF Finishes, None
<1>2. UNCHANGED <<inbox, queue, loop, latch, tracked, boot, mine, billed, sick, expired>>
  BY DEF Finishes, stream, bill, kept
<1>3. \E how \in Fates, step \in {"latch", "report"} :
        /\ fate' = [fate EXCEPT ![j] = how] /\ worker' = [worker EXCEPT ![j] = step]
        /\ how = "restart" => Kind[j] = "ops"
        /\ step = "latch" => Kind[j] = "ops" /\ how \in {"restart", "infra"}
  BY DEF Finishes, RunsChain, RunsStage, Ends, Becomes, Fates
<1>4. PICK how \in Fates, step \in {"latch", "report"} :
        /\ fate' = [fate EXCEPT ![j] = how] /\ worker' = [worker EXCEPT ![j] = step]
        /\ how = "restart" => Kind[j] = "ops"
        /\ step = "latch" => Kind[j] = "ops" /\ how \in {"restart", "infra"}
  BY <1>3
<1>5. /\ OnePlace' /\ HeldHasPlace' /\ queue' \in Seq(Entries)
      /\ worker' \in [Jobs -> Steps] /\ inbox' \in [Jobs -> {"out", "held", "reported"}]
  <2>1. step \in Steps \ {None}
    BY <1>4 DEF Steps, None
  <2> QED
    BY <1>1, <1>2, <1>4, <2>1, WorkerStays
<1>6. Types'
  BY <1>2, <1>4, <1>5 DEF IInv, Types
<1>7. WorkerSays'
  BY <1>1, <1>2, <1>4 DEF IInv, WorkerSays, Types
<1>8. AllTracked'
  BY <1>1, <1>2, <1>4 DEF IInv, AllTracked, Types, Active, RestartLeavesNoWork
<1>9. OneBills'
  BY <1>1, <1>2, <1>4 DEF IInv, OneBills, Types, None
<1>10. LatchComes'
  BY <1>1, <1>2, <1>4 DEF IInv, LatchComes, Types, Latched
<1> QED
  BY <1>5, <1>6, <1>7, <1>8, <1>9, <1>10 DEF IInv

(* The latch is set: whoever sets it is about to wake the claim.            *)
LEMMA LatchesKeeps ==
  ASSUME IInv, NEW j \in Jobs, Latches(j)
  PROVE  IInv'
<1>1. worker[j] = "latch" /\ worker[j] # None /\ worker' = [worker EXCEPT ![j] = "wake"]
  BY DEF Latches, Becomes, None
<1>2. UNCHANGED <<inbox, queue, loop, fate, tracked, boot, mine, billed, sick, expired>>
  BY DEF Latches, Signals, SetsLatch, bill, kept
<1>3. /\ latch' \in [restart : Packs \cup {None}, infra : BOOLEAN]
      /\ latch.infra => latch'.infra
      /\ latch.restart # None => latch'.restart # None
      /\ fate[j] = "restart" => latch'.restart # None
  <2>1. CASE fate[j] = "restart"
    <3>1. Pack[j] \in Packs /\ Pack[j] # None
      BY DispatchAssumption
    <3>2. latch' = [latch EXCEPT !.restart = IF latch.restart = None THEN Pack[j] ELSE latch.restart]
      BY <2>1 DEF Latches, Signals, SetsLatch
    <3> QED
      BY <3>1, <3>2 DEF IInv, Types
  <2>2. CASE fate[j] # "restart"
    BY <2>2 DEF Latches, Signals, SetsLatch, IInv, Types
  <2> QED
    BY <2>1, <2>2
<1>4. /\ OnePlace' /\ HeldHasPlace' /\ queue' \in Seq(Entries)
      /\ worker' \in [Jobs -> Steps] /\ inbox' \in [Jobs -> {"out", "held", "reported"}]
  <2>1. "wake" \in Steps \ {None}
    BY DEF Steps, None
  <2> QED
    BY <1>1, <1>2, <2>1, WorkerStays
<1>5. Types'
  BY <1>2, <1>3, <1>4 DEF IInv, Types
<1>6. WorkerSays'
  BY <1>1, <1>2, <1>3 DEF IInv, WorkerSays, Types
<1>7. AllTracked'
  BY <1>1, <1>2 DEF IInv, AllTracked, Types, Active, RestartLeavesNoWork
<1>8. OneBills'
  BY <1>1, <1>2 DEF IInv, OneBills, Types, None
<1>9. LatchComes'
  BY <1>1, <1>2, <1>3 DEF IInv, LatchComes, Types, Latched
<1> QED
  BY <1>4, <1>5, <1>6, <1>7, <1>8, <1>9 DEF IInv

(* The claim is woken: the queue is not empty after. A chain that needs a   *)
(* restart is over, the restart latched; one that met a fault goes on.      *)
LEMMA WakesKeeps ==
  ASSUME IInv, NEW j \in Jobs, Wakes(j)
  PROVE  IInv'
<1>1. /\ worker[j] = "wake" /\ worker[j] # None
      /\ UNCHANGED <<inbox, loop, latch, fate, billed, sick, expired>> /\ queue' = Append(queue, Interrupt)
  BY DEF Wakes, Signals, WakesClaim, Done, None, kept
<1>2. PICK step \in {"report", "done"} :
        /\ worker' = [worker EXCEPT ![j] = step]
        /\ step = "report" => UNCHANGED <<tracked, boot, mine>>
        /\ step = "done" => /\ ~(Kind[j] = "ops" /\ fate[j] = "infra")
                            /\ tracked' = {t \in tracked : t[1] # j}
                            /\ boot' = (boot /\ ~Releases(j))
                            /\ mine' = mine \ (IF Releases(j) THEN {j} ELSE {})
  BY DEF Wakes, Done, Becomes, Untracked, Key
<1>3. /\ OnePlace' /\ HeldHasPlace' /\ queue' \in Seq(Entries)
      /\ worker' \in [Jobs -> Steps] /\ inbox' \in [Jobs -> {"out", "held", "reported"}]
  <2>1. step \in Steps \ {None}
    BY <1>2 DEF Steps, None
  <2> QED
    BY <1>1, <1>2, <2>1, WorkerStays
<1>4. Types'
  BY <1>1, <1>2, <1>3 DEF IInv, Types
<1>5. WorkerSays'
  BY <1>1, <1>2 DEF IInv, WorkerSays, Types
<1>6. AllTracked'
  BY <1>1, <1>2 DEF IInv, AllTracked, Types, Active, RestartLeavesNoWork
<1>7. OneBills'
  BY <1>1, <1>2 DEF IInv, OneBills, Types, Releases, None
<1>8. LatchComes'
  <2>1. queue' # << >>
    BY <1>1, AppendAdds DEF IInv, Types, Entries
  <2> QED
    BY <1>1, <2>1 DEF IInv, LatchComes
<1> QED
  BY <1>3, <1>4, <1>5, <1>6, <1>7, <1>8 DEF IInv

(* A terminal, or its loss. The one that bills the boot ended well and is   *)
(* over with its terminal, so the boot is never given back after.           *)
LEMMA ReportsKeeps ==
  ASSUME IInv, NEW j \in Jobs, Reports(j)
  PROVE  IInv'
<1>1. /\ worker[j] = "report" /\ worker[j] # None
      /\ UNCHANGED <<queue, loop, latch, fate, expired>> /\ sick' \in {"none", "pending", "storage"}
  BY DEF Reports, Acked, Ambiguous, Loses, Done, None, IInv, Types
<1>2. PICK step \in {"latch", "done", "lost"} :
        /\ worker' = [worker EXCEPT ![j] = step]
        /\ step = "lost" => /\ inbox' = inbox /\ tracked' = {t \in tracked : t[2] # j}
                            /\ UNCHANGED <<boot, mine, billed>>
        /\ step # "lost" => /\ inbox' = [inbox EXCEPT ![j] = "reported"]
                            /\ billed' = IF j \in mine /\ fate[j] = "ok" THEN billed + 1 ELSE billed
        /\ step = "latch" => fate[j] = "infra" /\ UNCHANGED <<tracked, boot, mine>>
        /\ step = "done" => /\ tracked' = {t \in tracked : t[1] # j}
                            /\ \/ UNCHANGED <<boot, mine>>
                               \/ /\ boot' = (boot /\ ~Releases(j))
                                  /\ mine' = mine \ (IF Releases(j) THEN {j} ELSE {})
  BY DEF Reports, Acked, Ambiguous, Loses, Bills, Done, Untracked, Key, Becomes
<1>3. /\ OnePlace' /\ HeldHasPlace' /\ queue' \in Seq(Entries)
      /\ worker' \in [Jobs -> Steps] /\ inbox' \in [Jobs -> {"out", "held", "reported"}]
  <2>1. step \in Steps \ {None}
    BY <1>2 DEF Steps, None
  <2> QED
    BY <1>1, <1>2, <2>1, WorkerStays
<1>4. Types'
  <2>1. step = "latch" \/ step = "done" \/ step = "lost"
    BY <1>2
  <2>2. billed' \in Nat
    BY <1>2, <2>1 DEF IInv, Types
  <2>3. mine' \subseteq Jobs /\ tracked' \subseteq Jobs \X Jobs
    BY <1>2, <2>1 DEF IInv, Types
  <2>4. boot' \in BOOLEAN
    BY <1>2, <2>1 DEF IInv, Types
  <2> QED
    BY <1>1, <1>3, <2>2, <2>3, <2>4 DEF IInv, Types
<1>5. WorkerSays'
  BY <1>1, <1>2 DEF IInv, WorkerSays, Types
<1>6. AllTracked'
  BY <1>1, <1>2 DEF IInv, AllTracked, Types, Active, RestartLeavesNoWork
<1>7. OneBills'
  BY <1>1, <1>2 DEF IInv, OneBills, Types, Releases, None
<1>8. LatchComes'
  BY <1>1, <1>2 DEF IInv, LatchComes, Types, Latched
<1> QED
  BY <1>3, <1>4, <1>5, <1>6, <1>7, <1>8 DEF IInv

(* A new process starts with the held jobs queued, and nothing else.        *)
LEMMA BootsKeeps ==
  ASSUME IInv, Boots
  PROVE  IInv'
<1> DEFINE held == {j \in Jobs : inbox[j] = "held"}
<1>1. /\ inbox' = inbox /\ sick' = "none" /\ loop' = [pc |-> "check", job |-> None, under |-> FALSE]
      /\ worker' = [j \in Jobs |-> None] /\ fate' = [j \in Jobs |-> None] /\ tracked' = {}
      /\ latch' = [restart |-> None, infra |-> FALSE]
      /\ boot' = FALSE /\ mine' = {} /\ billed' = 0 /\ expired' = FALSE
  BY DEF Boots
<1>2. queue' \in Seq(Entries) /\ Once(queue') /\ Queued' = held
  <2>1. queue' = SetToSeq(held) /\ Queued' = In(queue')
    BY DEF Boots, Queued, In
  <2> QED
    BY <2>1, ListHolds
<1>3. Types'
  BY <1>1, <1>2 DEF IInv, Types, Places, Steps, Fates
<1>4. OnePlace'
  BY <1>1, <1>2, DispatchAssumption DEF IInv, OnePlace, InHand
<1>5. WorkerSays' /\ LatchComes'
  BY <1>1 DEF WorkerSays, LatchComes, None
<1>6. HeldHasPlace'
  BY <1>1, <1>2 DEF HeldHasPlace
<1>7. AllTracked' /\ OneBills'
  BY <1>1 DEF AllTracked, OneBills, Active, RestartLeavesNoWork, None
<1> QED
  BY <1>2, <1>3, <1>4, <1>5, <1>6, <1>7 DEF IInv

(* The steps that touch neither the queue nor a worker. *)
LEMMA QuietKeeps ==
  ASSUME IInv, Sickens \/ Heals \/ Checks \/ Leaves \/ Exits \/ Forgets \/ UNCHANGED vars
  PROVE  IInv'
<1>1. UNCHANGED <<inbox, queue, work, latch, bill, expired>> /\ sick' \in {"none", "pending", "storage"}
  BY DEF Sickens, Heals, Checks, Leaves, Exits, Forgets, vars, kept, stream, bill, IInv, Types
<1>2. \/ loop' = loop
      \/ /\ loop.pc \in {"check", "leave", "exiting"}
         /\ \E where \in {"leave", "claim", "drain", "drainRestart", "exiting", "gone"} :
              loop' = [loop EXCEPT !.pc = where] /\ (where = "claim" => ~Latched)
  BY DEF Sickens, Heals, Checks, Leaves, Exits, Forgets, vars, At
<1>3. Queued' = Queued /\ Active' = Active /\ Latched' = Latched
  BY <1>1 DEF Queued, In, Active, Latched, work
<1>4. Types'
  BY <1>1, <1>2 DEF IInv, Types, Places, work, bill
<1>5. OnePlace'
  BY <1>1, <1>2, <1>3 DEF IInv, Types, OnePlace, InHand, work
<1>6. WorkerSays' /\ OneBills'
  BY <1>1 DEF IInv, WorkerSays, OneBills, work, bill
<1>7. HeldHasPlace'
  BY <1>1, <1>2, <1>3 DEF IInv, Types, HeldHasPlace, InHand, work
<1>8. AllTracked'
  BY <1>1, <1>2, <1>3 DEF IInv, Types, AllTracked, RestartLeavesNoWork, work
<1>9. LatchComes'
  BY <1>1, <1>2, <1>3 DEF IInv, Types, LatchComes, work
<1> QED
  BY <1>4, <1>5, <1>6, <1>7, <1>8, <1>9 DEF IInv

(* The drain knows whether a worker is left: it tracks them all.            *)
LEMMA DrainsKeeps ==
  ASSUME IInv, Drains
  PROVE  IInv'
<1>1. /\ UNCHANGED <<inbox, queue, work, latch, bill, sick>> /\ loop.pc \in {"drain", "drainRestart"}
      /\ expired' = (tracked # {}) /\ \E where \in {"exec", "exiting"} : loop' = [loop EXCEPT !.pc = where]
  BY DEF Drains, Draining, At, kept
<1>2. Queued' = Queued /\ Active' = Active /\ (Active # {} => tracked # {})
  BY <1>1 DEF Queued, In, Active, work, IInv, AllTracked
<1>3. expired' \in BOOLEAN
  BY <1>1
<1>4. Types'
  BY <1>1, <1>3 DEF IInv, Types, Places, work, bill
<1>5. OnePlace'
  BY <1>1, <1>2 DEF IInv, Types, OnePlace, InHand, work
<1>6. WorkerSays' /\ OneBills'
  BY <1>1 DEF IInv, WorkerSays, OneBills, work, bill
<1>7. HeldHasPlace'
  BY <1>1, <1>2 DEF IInv, Types, HeldHasPlace, InHand, work
<1>8. AllTracked'
  BY <1>1, <1>2 DEF IInv, Types, AllTracked, RestartLeavesNoWork, work
<1>9. LatchComes'
  BY <1>1 DEF IInv, Types, LatchComes, work
<1> QED
  BY <1>4, <1>5, <1>6, <1>7, <1>8, <1>9 DEF IInv

(* Execs: a new process, or the end of this one. *)
LEMMA ExecsKeeps ==
  ASSUME IInv, Execs
  PROVE  IInv'
<1>1. CASE Boots
  BY <1>1, BootsKeeps
<1>2. CASE At("gone") /\ UNCHANGED <<kept, faults, stream, fails, work, latch, active, bill, expired>>
  <2>1. Queued' = Queued /\ Active' = Active
    BY <1>2 DEF Queued, In, Active, work, stream
  <2>2. loop.pc = "exec" /\ loop' = [loop EXCEPT !.pc = "gone"]
    BY <1>2 DEF Execs, At
  <2>3. Types' /\ OnePlace' /\ WorkerSays'
    BY <1>2, <2>1, <2>2 DEF IInv, Types, Places, OnePlace, InHand, WorkerSays, kept, stream, work, bill
  <2>4. HeldHasPlace' /\ AllTracked'
    BY <1>2, <2>1, <2>2 DEF IInv, Types, HeldHasPlace, InHand, AllTracked, RestartLeavesNoWork, kept, work
  <2>5. OneBills' /\ LatchComes'
    BY <1>2, <2>2 DEF IInv, Types, OneBills, LatchComes, work, bill
  <2> QED
    BY <2>3, <2>4, <2>5 DEF IInv
<1> QED
  BY <1>1, <1>2 DEF Execs

-----------------------------------------------------------------------------
(* A process starts with nothing queued, in hand or running. *)
LEMMA InitHolds == Init => IInv
<1> SUFFICES ASSUME Init PROVE IInv
  OBVIOUS
<1>1. queue \in Seq(Entries) /\ Once(queue) /\ Queued = {}
  BY DEF Init, Once, Queued, In
<1>2. Types
  BY <1>1 DEF Init, Types, Places, Steps, Fates
<1>3. OnePlace
  BY <1>1, DispatchAssumption DEF Init, OnePlace, InHand
<1>4. WorkerSays /\ HeldHasPlace
  BY DEF Init, WorkerSays, HeldHasPlace, None
<1>5. AllTracked /\ OneBills /\ LatchComes
  BY DEF Init, AllTracked, Active, RestartLeavesNoWork, OneBills, LatchComes, None
<1> QED
  BY <1>1, <1>2, <1>3, <1>4, <1>5 DEF IInv

(* One step of the loop, of a worker, of the stream or of a crash. *)
LEMMA StepHolds == IInv /\ [Next]_vars => IInv'
<1> SUFFICES ASSUME IInv, [Next]_vars PROVE IInv'
  OBVIOUS
<1>1. CASE Loops
  <2>1. CASE ClaimRaises \/ ClaimsNothing \/ Claims
    BY <2>1, ClaimRaisesKeeps, ClaimsNothingKeeps, ClaimsKeeps
  <2>2. CASE Rechecks \/ Validates \/ Submits \/ Tracks
    BY <2>2, RechecksKeeps, ValidatesKeeps, SubmitsKeeps, TracksKeeps
  <2>3. CASE Drains \/ Execs
    BY <2>3, DrainsKeeps, ExecsKeeps
  <2>4. CASE Checks \/ Leaves \/ Exits
    BY <2>4, QuietKeeps
  <2> QED
    BY <1>1, <2>1, <2>2, <2>3, <2>4 DEF Loops
<1>2. CASE Sickens \/ Heals \/ Forgets \/ Rests \/ UNCHANGED vars
  BY <1>2, QuietKeeps DEF Rests
<1>3. CASE Dies
  BY <1>3, BootsKeeps DEF Dies
<1>4. ASSUME NEW j \in Jobs, Delivers(j) \/ Works(j) PROVE IInv'
  BY <1>4, DeliversKeeps, StartsKeeps, FinishesKeeps, LatchesKeeps, WakesKeeps, ReportsKeeps DEF Works
<1> QED
  BY <1>1, <1>2, <1>3, <1>4 DEF Next

(* The invariant holds in every state of every process. *)
THEOREM DispatchHolds == Spec => []IInv
BY InitHolds, StepHolds, PTL DEF Spec

(* The loop never waits in a claim that no interrupt will end once a latch  *)
(* is set, and no job claimed after a fault of the card goes to a pool      *)
(* (report_infra_fault, request_restart, interrupt_claim; the recheck of    *)
(* _dispatch_loop).                                                         *)
THEOREM LatchHeard == Spec => []LatchIsHeard
<1>1. IInv => LatchIsHeard
  BY DEF IInv, LatchComes, LatchIsHeard
<1> QED
  BY <1>1, DispatchHolds, PTL

(* Before its drain's deadline a process execs only when no worker is in    *)
(* the middle of a job (_drain_and_restart, coordinator.track).             *)
THEOREM RestartIsClean == Spec => []RestartLeavesNoWork
<1>1. IInv => RestartLeavesNoWork
  BY DEF IInv, AllTracked
<1> QED
  BY <1>1, DispatchHolds, PTL

(* A process bills its boot at most once, whichever lanes race for it and   *)
(* however many of their jobs fail (_claim_boot, _release_boot).            *)
THEOREM BootIsBilledOnce == Spec => []BootBilledOnce
<1>1. IInv => BootBilledOnce
  BY DEF IInv, Types, OneBills, BootBilledOnce
<1> QED
  BY <1>1, DispatchHolds, PTL

(* A held job is queued, in the loop's hand, with a worker, or waits for    *)
(* the restart its pack needs; or a failed write ended it.                  *)
THEOREM HeldJobsAreSomewhere == Spec => []HeldIsSomewhere
<1>1. IInv => HeldIsSomewhere
  <2> SUFFICES ASSUME IInv, NEW j \in Jobs, inbox[j] = "held"
               PROVE  \/ j \in ToSet(queue) \/ loop.job = j \/ j \in Active \/ worker[j] = "lost"
                      \/ worker[j] = "done" /\ fate[j] = "restart" /\ latch.restart # None
    BY DEF HeldIsSomewhere
  <2>1. CASE j \in Queued
    <3>1. DOMAIN queue = 1..Len(queue)
      BY LenProperties DEF IInv, Types
    <3> QED
      BY <2>1, <3>1 DEF Queued, In, ToSet
  <2>2. CASE worker[j] # None
    BY <2>2 DEF IInv, Types, Steps, WorkerSays, Active
  <2> QED
    BY <2>1, <2>2 DEF IInv, HeldHasPlace
<1> QED
  BY <1>1, DispatchHolds, PTL

===============================================================================
