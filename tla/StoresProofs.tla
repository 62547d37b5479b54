----------------------------- MODULE StoresProofs -----------------------------
(***************************************************************************)
(* Proofs about the two stores of whole trees, in the composition MCStores *)
(* explores: what the artifact cache shows is whole and stays, and what    *)
(* the result cache delivers is the handler's own bytes.                   *)
(***************************************************************************)
EXTENDS MCStores, TLAPS

-----------------------------------------------------------------------------
(* The artifact cache. *)

Every(x) == A!Every(x)
Bytes    == {"hole", "good", "bad"}
Ends     == {"none", "run", "done", "failed"}
Stands   == {"idle", "probe", "stream", "ranged", "verify", "extract", "take", "clear", "rename",
             "served", "failed", "wedged"}

TreeTypes ==
  /\ slot \in {"absent", "bare", "tree"} /\ whole \in BOOLEAN /\ first \in {"absent", "bare"}
  /\ pc \in [Callers -> Stands] /\ tar \in [Callers -> [Parts -> Bytes]]
  /\ part \in [Callers -> [Parts -> Ends]]

(* Only a call that fetches in ranges, or one that failed, has a range      *)
(* running; so nothing writes to a tar once it is verified, and it stays    *)
(* good until it is renamed in.                                             *)
NoLateWriter ==
  \A c \in Callers :
    /\ pc[c] \notin {"ranged", "failed"} => A!Running(c) = {}
    /\ pc[c] \in {"extract", "take", "clear", "rename"} => tar[c] = Every("good")

(* The take-over of a slot without the sentinel. Where the slot was absent  *)
(* there is none; where it was bare, the calls on it do not overlap.        *)
TakeOver ==
  /\ first = "absent" => slot # "bare" /\ \A c \in Callers : pc[c] # "clear"
  /\ first = "bare" => \A c, d \in Callers : c # d => A!Idle(c) \/ A!Idle(d)
  /\ \A c \in Callers : pc[c] = "clear" => slot = "bare"

WholeInv == TreeTypes /\ NoLateWriter /\ A!PublishedIsWhole

StableInv == TakeOver /\ \A c \in Callers : pc[c] = "served" => slot = "tree"

-----------------------------------------------------------------------------
(* The result cache. *)

Working  == {"restore", "copy", "miss", "store", "unlock", "raise"}
Finished == {"unlock", "list", "prune", "discard", "done"}

Places   == {"idle", "lock"} \cup Working \cup Finished
Standing == [pc : Places, key : Keys \cup {Nobody}, dst : {"no", "good"},
             list : SUBSET Keys, victim : Keys \cup {Nobody}]

ResultTypes == lock \in [Keys -> Threads \cup {Nobody}] /\ th \in [Threads -> Standing]

(* A thread in a call has a key, and from its lock on, until it has         *)
(* restored, stored or raised, it owns the lock of it. What it delivers is  *)
(* the handler's.                                                           *)
Owners ==
  \A t \in Threads :
    /\ th[t].pc \in Working \cup {"lock", "list"} => th[t].key \in Keys
    /\ th[t].pc \in Working \cup {"list"} => lock[th[t].key] = t
    /\ th[t].pc \in {"store"} \cup Finished => th[t].dst = "good"

ResultInv == ResultTypes /\ Owners

-----------------------------------------------------------------------------
(* The artifact cache keeps its trees whole. *)

(* Every step of a caller that fetches leaves the slot, the tars of the     *)
(* others and what stands verified alone.                                   *)
LEMMA FetchKeepsWhole ==
  ASSUME WholeInv, NEW c \in Callers, A!Asks(c) \/ A!Fetches(c)
  PROVE  WholeInv'
<1>1. UNCHANGED <<slot, whole, first>>
  BY DEF A!Asks, A!Fetches, A!Probes, A!Streams, A!RangedEnds, A!PartArrives, A!PartFails,
     A!PartAborts, A!PartEnds
<1>2. CASE A!Asks(c)
  <2>1. A!Running(c) = {} /\ part' = part
          /\ (pc' = [pc EXCEPT ![c] = "served"] \/ pc' = [pc EXCEPT ![c] = "probe"])
    BY <1>2 DEF A!Asks, A!Idle, A!Goes
  <2>2. tar' = [tar EXCEPT ![c] = Every("hole")] /\ Every("hole") \in [Parts -> Bytes]
    BY <1>2 DEF A!Asks, Every, A!Every, Bytes
  <2>3. TreeTypes'
    BY <1>1, <2>1, <2>2 DEF WholeInv, TreeTypes, Stands
  <2>4. NoLateWriter'
    BY <2>1, <2>2 DEF WholeInv, TreeTypes, NoLateWriter, A!Running
  <2> QED
    BY <1>1, <2>3, <2>4 DEF WholeInv, A!PublishedIsWhole
<1>3. CASE A!Probes(c)
  <2>1. /\ pc[c] = "probe" /\ tar' = tar
        /\ \/ pc' = [pc EXCEPT ![c] = "stream"] /\ part' = part
           \/ pc' = [pc EXCEPT ![c] = "ranged"] /\ part' = [part EXCEPT ![c] = Every("run")]
    BY <1>3 DEF A!Probes, A!Goes, Every
  <2>2. Every("run") \in [Parts -> Ends]
    BY DEF Every, A!Every, Ends
  <2>3. TreeTypes'
    BY <1>1, <2>1, <2>2 DEF WholeInv, TreeTypes, Stands
  <2>4. NoLateWriter'
    BY <2>1 DEF WholeInv, TreeTypes, NoLateWriter, A!Running
  <2> QED
    BY <1>1, <2>3, <2>4 DEF WholeInv, A!PublishedIsWhole
<1>4. CASE A!Streams(c)
  <2>1. /\ pc[c] = "stream" /\ part' = part
        /\ pc' = [pc EXCEPT ![c] = "verify"] \/ pc' = [pc EXCEPT ![c] = "failed"]
        /\ tar' = tar \/ \E x \in Bytes : tar' = [tar EXCEPT ![c] = Every(x)]
    BY <1>4 DEF A!Streams, A!Goes, Every, A!Every, Bytes
  <2>2. \A x \in Bytes : Every(x) \in [Parts -> Bytes]
    BY DEF Every, A!Every
  <2>3. TreeTypes'
    BY <1>1, <2>1, <2>2 DEF WholeInv, TreeTypes, Stands
  <2>4. NoLateWriter'
    BY <2>1 DEF WholeInv, TreeTypes, NoLateWriter, A!Running
  <2> QED
    BY <1>1, <2>3, <2>4 DEF WholeInv, A!PublishedIsWhole
<1>5. CASE A!RangedEnds(c)
  <2>1. /\ pc[c] = "ranged" /\ UNCHANGED <<tar, part>>
        /\ \/ A!AllArrived(c) /\ pc' = [pc EXCEPT ![c] = "verify"]
           \/ pc' = [pc EXCEPT ![c] = "failed"]
    BY <1>5 DEF A!RangedEnds, A!Goes
  <2>2. A!AllArrived(c) => A!Running(c) = {}
    BY DEF A!AllArrived, A!Running
  <2>3. TreeTypes'
    BY <1>1, <2>1 DEF WholeInv, TreeTypes, Stands
  <2>4. NoLateWriter'
    BY <2>1, <2>2 DEF WholeInv, TreeTypes, NoLateWriter, A!Running
  <2> QED
    BY <1>1, <2>3, <2>4 DEF WholeInv, A!PublishedIsWhole
<1>6. ASSUME NEW p \in Parts, A!PartArrives(c, p) \/ A!PartFails(c, p) \/ A!PartAborts(c, p)
      PROVE  WholeInv'
  <2>1. /\ part[c][p] = "run" /\ pc' = pc
        /\ \E how \in {"done", "failed"} : part' = [part EXCEPT ![c][p] = how]
        /\ tar' = tar \/ \E x \in Bytes : tar' = [tar EXCEPT ![c][p] = x]
    BY <1>6 DEF A!PartArrives, A!PartFails, A!PartAborts, A!PartEnds, Bytes
  <2>2. p \in A!Running(c)
    BY <2>1 DEF A!Running
  <2>3. pc[c] \in {"ranged", "failed"}
    BY <2>2 DEF WholeInv, NoLateWriter
  <2>4. TreeTypes'
    <3>1. PICK how \in Ends : part' = [part EXCEPT ![c][p] = how]
      BY <2>1 DEF Ends
    <3>2. part' \in [Callers -> [Parts -> Ends]]
      BY <3>1 DEF WholeInv, TreeTypes
    <3>3. tar' \in [Callers -> [Parts -> Bytes]]
      <4>1. CASE tar' = tar
        BY <4>1 DEF WholeInv, TreeTypes
      <4>2. ASSUME NEW x \in Bytes, tar' = [tar EXCEPT ![c][p] = x]
            PROVE  tar' \in [Callers -> [Parts -> Bytes]]
        BY <4>2 DEF WholeInv, TreeTypes
      <4> QED
        BY <2>1, <4>1, <4>2
    <3> QED
      BY <1>1, <2>1, <3>2, <3>3 DEF WholeInv, TreeTypes
  <2>5. NoLateWriter'
    BY <2>1, <2>3 DEF WholeInv, TreeTypes, NoLateWriter, A!Running
  <2> QED
    BY <1>1, <2>4, <2>5 DEF WholeInv, A!PublishedIsWhole
<1> QED
  BY <1>2, <1>3, <1>4, <1>5, <1>6 DEF A!Fetches

(* Only a tar of good bytes passes the verification, and only a verified    *)
(* tar is renamed into the slot.                                            *)
LEMMA InstallKeepsWhole ==
  ASSUME WholeInv, NEW c \in Callers, A!Installs(c)
  PROVE  WholeInv'
<1>1. UNCHANGED <<tar, part, first>> /\ \E where \in Stands : pc' = [pc EXCEPT ![c] = where]
  BY DEF A!Installs, A!Verifies, A!Extracts, A!TakesOver, A!Clears, A!Publishes, A!Goes, Stands
<1>2. pc[c] \in {"verify", "extract", "take", "clear", "rename"}
  BY DEF A!Installs, A!Verifies, A!Extracts, A!TakesOver, A!Clears, A!Publishes
<1>3. pc'[c] \in {"extract", "take", "clear", "rename"} => tar[c] = Every("good")
  <2>1. CASE A!Verifies(c)
    <3>1. A!Verified(c) => tar[c] = Every("good")
      BY DEF A!Verified, WholeInv, TreeTypes, Bytes, Every, A!Every
    <3> QED
      BY <2>1, <3>1 DEF A!Verifies, A!Goes, WholeInv, TreeTypes
  <2>2. CASE pc[c] # "verify"
    BY <1>2, <2>2 DEF WholeInv, NoLateWriter
  <2> QED
    BY <2>1, <2>2 DEF A!Installs, A!Extracts, A!TakesOver, A!Clears, A!Publishes
<1>4. /\ slot' \in {"absent", "bare", "tree"} /\ whole' \in BOOLEAN
      /\ slot' = "tree" => whole'
  <2>1. CASE A!Publishes(c)
    <3>1. pc[c] = "rename" /\ tar[c] = A!Every("good")
      BY <2>1 DEF A!Publishes, WholeInv, NoLateWriter, Every
    <3> QED
      BY <2>1, <3>1 DEF A!Publishes, WholeInv, TreeTypes, A!PublishedIsWhole
  <2>2. CASE A!Clears(c)
    BY <2>2 DEF A!Clears
  <2>3. CASE UNCHANGED <<slot, whole>>
    BY <2>3 DEF WholeInv, TreeTypes, A!PublishedIsWhole
  <2> QED
    BY <2>1, <2>2, <2>3 DEF A!Installs, A!Verifies, A!Extracts, A!TakesOver
<1>5. TreeTypes'
  BY <1>1, <1>4 DEF WholeInv, TreeTypes
<1>6. NoLateWriter'
  BY <1>1, <1>2, <1>3 DEF WholeInv, TreeTypes, NoLateWriter, A!Running
<1> QED
  BY <1>4, <1>5, <1>6 DEF WholeInv, A!PublishedIsWhole

(* A death leaves the slot, or the bare rest of one that was being removed. *)
LEMMA DeathKeepsWhole == WholeInv /\ A!Dies => WholeInv'
<1> SUFFICES ASSUME WholeInv, A!Dies PROVE WholeInv'
  OBVIOUS
<1>1. /\ slot' \in {slot, "bare"} /\ whole' = (whole /\ slot' = "tree") /\ first' = first
      /\ pc' = [c \in Callers |-> "idle"]
      /\ tar' = [c \in Callers |-> Every("hole")] /\ part' = [c \in Callers |-> Every("none")]
  BY DEF A!Dies, Every
<1>2. Every("hole") \in [Parts -> Bytes] /\ Every("none") \in [Parts -> Ends]
  BY DEF Every, A!Every, Bytes, Ends
<1>3. TreeTypes'
  BY <1>1, <1>2 DEF WholeInv, TreeTypes, Stands
<1>4. NoLateWriter'
  BY <1>1 DEF NoLateWriter, A!Running, Every, A!Every
<1> QED
  BY <1>1, <1>3, <1>4 DEF WholeInv, A!PublishedIsWhole

-----------------------------------------------------------------------------
(* What it shows stays, if no calls overlap on a bare slot.                 *)

(* The take-over of a slot and the tree that is served do not meet.         *)
LEMMA StepKeepsStable ==
  ASSUME "bare" \notin Overlap, WholeInv, StableInv, A!Next
  PROVE  StableInv'
<1>1. CASE A!Dies
  <2>1. /\ slot' \in (IF \E c \in Callers : pc[c] = "clear" THEN {slot, "bare"} ELSE {slot}) /\ first' = first
        /\ pc' = [c \in Callers |-> "idle"] /\ part' = [c \in Callers |-> Every("none")]
    BY <1>1 DEF A!Dies, Every
  <2>2. \A c \in Callers : A!Idle(c)'
    BY <2>1 DEF A!Idle, A!Running, Every, A!Every
  <2> QED
    BY <2>1, <2>2 DEF StableInv, TakeOver
<1>2. ASSUME NEW c \in Callers, A!Asks(c) PROVE StableInv'
  <2>1. /\ UNCHANGED <<slot, first, part>> /\ (first \in Overlap \/ \A d \in Callers : A!Idle(d))
        /\ pc' = [pc EXCEPT ![c] = IF slot = "tree" THEN "served" ELSE "probe"]
    BY <1>2 DEF A!Asks, A!Goes
  <2>2. \A d \in Callers : d # c => (A!Idle(d)' <=> A!Idle(d))
    BY <2>1 DEF A!Idle, A!Running, WholeInv, TreeTypes
  <2>3. TakeOver'
    BY <2>1, <2>2 DEF StableInv, TakeOver, WholeInv, TreeTypes
  <2> QED
    BY <2>1, <2>3 DEF StableInv, WholeInv, TreeTypes
<1>3. ASSUME NEW c \in Callers, A!Fetches(c) PROVE StableInv'
  <2>1. /\ UNCHANGED <<slot, first>> /\ ~A!Idle(c)
        /\ pc' = pc \/ \E where \in {"stream", "ranged", "verify", "failed"} : pc' = [pc EXCEPT ![c] = where]
    BY <1>3 DEF A!Fetches, A!Probes, A!Streams, A!RangedEnds, A!PartArrives, A!PartFails,
       A!PartAborts, A!PartEnds,
                A!Goes, A!Idle, A!Running
  <2>2. \A d \in Callers : d # c => part'[d] = part[d] /\ pc'[d] = pc[d]
    BY <1>3 DEF A!Fetches, A!Probes, A!Streams, A!RangedEnds, A!PartArrives, A!PartFails,
       A!PartAborts, A!PartEnds,
                A!Goes, WholeInv, TreeTypes
  <2>3. \A d \in Callers : d # c => (A!Idle(d)' <=> A!Idle(d))
    BY <2>2 DEF A!Idle, A!Running
  <2>4. TakeOver'
    BY <2>1, <2>3 DEF StableInv, TakeOver, WholeInv, TreeTypes
  <2> QED
    BY <2>1, <2>4 DEF StableInv, WholeInv, TreeTypes
<1>4. ASSUME NEW c \in Callers, A!Installs(c) PROVE StableInv'
  <2>1. UNCHANGED <<first, part>> /\ ~A!Idle(c) /\ \E where \in Stands : pc' = [pc EXCEPT ![c] = where]
    BY <1>4 DEF A!Installs, A!Verifies, A!Extracts, A!TakesOver, A!Clears, A!Publishes, A!Goes, A!Idle, Stands
  <2>2. \A d \in Callers : d # c => (A!Idle(d)' <=> A!Idle(d))
    BY <2>1 DEF A!Idle, A!Running, WholeInv, TreeTypes
  <2>3. CASE UNCHANGED slot /\ pc'[c] \notin {"clear", "served"}
    BY <2>1, <2>2, <2>3 DEF StableInv, TakeOver, WholeInv, TreeTypes
  <2>4. CASE A!TakesOver(c)
    BY <2>1, <2>2, <2>4 DEF A!TakesOver, A!Goes, StableInv, TakeOver, WholeInv, TreeTypes
  <2>5. CASE A!Clears(c)
    <3>1. slot = "bare" /\ first = "bare"
      BY <2>5 DEF A!Clears, StableInv, TakeOver, WholeInv, TreeTypes
    <3>2. \A d \in Callers : d # c => pc[d] # "clear"
      BY <2>1, <3>1 DEF StableInv, TakeOver, A!Idle
    <3>3. slot' = "absent" /\ pc' = [pc EXCEPT ![c] = "rename"]
      BY <2>5 DEF A!Clears, A!Goes
    <3> QED
      BY <2>1, <2>2, <3>1, <3>2, <3>3 DEF StableInv, TakeOver, WholeInv, TreeTypes
  <2>6. CASE A!Publishes(c)
    <3>1. \/ slot = "absent" /\ slot' = "tree" /\ pc' = [pc EXCEPT ![c] = "served"]
          \/ slot = "tree" /\ slot' = slot /\ pc' = [pc EXCEPT ![c] = "served"]
          \/ slot = "bare" /\ slot' = slot /\ pc' = [pc EXCEPT ![c] = "wedged"]
      BY <2>6 DEF A!Publishes, A!Goes
    <3> QED
      BY <2>1, <2>2, <3>1 DEF StableInv, TakeOver, WholeInv, TreeTypes
  <2> QED
    BY <1>4, <2>1, <2>3, <2>4, <2>5, <2>6 DEF A!Installs, A!Verifies, A!Extracts, A!Goes, WholeInv, TreeTypes
<1>5. CASE A!Rests
  BY <1>5 DEF A!Rests, A!vars, A!calls, StableInv, TakeOver, A!Idle, A!Running
<1> QED
  BY <1>1, <1>2, <1>3, <1>4, <1>5 DEF A!Next

-----------------------------------------------------------------------------
(* The result cache. *)

(* A step of the prune, the lock released: the rest of the thread stays. *)
LEMMA PruneKeeps ==
  ASSUME ResultInv, NEW t \in Threads, NEW rec \in Standing, th' = [th EXCEPT ![t] = rec],
         rec.pc \in {"prune", "discard", "done"}, rec.dst = th[t].dst,
         \/ th[t].pc = "list" /\ lock' = [lock EXCEPT ![th[t].key] = Nobody]
         \/ th[t].pc \in {"prune", "discard"} /\ lock' = lock
  PROVE  ResultInv'
<1>1. th' \in [Threads -> Standing] /\ th'[t] = rec /\ \A u \in Threads : u # t => th'[u] = th[u]
  BY DEF ResultInv, ResultTypes
<1>2. lock' \in [Keys -> Threads \cup {Nobody}]
  BY DEF ResultInv, ResultTypes
<1>3. Owners'
  BY <1>1 DEF ResultInv, ResultTypes, Owners, Working, Finished
<1> QED
  BY <1>1, <1>2, <1>3 DEF ResultInv, ResultTypes

(* Every step of a thread in a call keeps its key's lock until the slot is  *)
(* settled, and fills its dst with nothing but the handler's bytes.         *)
LEMMA ProceedKeepsResults ==
  ASSUME R!ResultAssumption, ResultInv, NEW t \in Threads, R!Proceeds(t)
  PROVE  ResultInv'
<1> DEFINE k == th[t].key
<1>1. CASE R!Locks(t)
  <2>1. /\ th[t].pc = "lock" /\ lock[k] = Nobody /\ lock' = [lock EXCEPT ![k] = t]
        /\ th' = [th EXCEPT ![t].pc = "restore"]
    BY <1>1 DEF R!Locks, R!At, R!Goes
  <2> QED
    BY <2>1 DEF ResultInv, ResultTypes, Owners, Standing, Places, Working, Finished, R!ResultAssumption
<1>2. CASE R!Restores(t) \/ R!Copies(t)
  <2>1. /\ th[t].pc \in {"restore", "copy"} /\ lock' = lock
        /\ \/ th' = [th EXCEPT ![t].pc = "copy"] \/ th' = [th EXCEPT ![t].pc = "miss"]
           \/ th' = [th EXCEPT ![t].pc = "unlock", ![t].dst = "good"]
    BY <1>2 DEF R!Restores, R!Copies, R!At, R!Goes
  <2> QED
    BY <2>1 DEF ResultInv, ResultTypes, Owners, Standing, Places, Working, Finished
<1>3. CASE R!Recomputes(t) \/ R!Stores(t)
  <2>1. /\ lock' = lock
        /\ \/ th[t].pc = "miss" /\ th' = [th EXCEPT ![t].pc = "store", ![t].dst = "good"]
           \/ th[t].pc = "miss" /\ th' = [th EXCEPT ![t].pc = "raise"]
           \/ th[t].pc = "store" /\ th' = [th EXCEPT ![t].pc = "list"]
           \/ th[t].pc = "store" /\ th' = [th EXCEPT ![t].pc = "unlock"]
    BY <1>3 DEF R!Recomputes, R!Stores, R!At, R!Goes
  <2> QED
    BY <2>1 DEF ResultInv, ResultTypes, Owners, Standing, Places, Working, Finished
<1>4. CASE R!Returns(t)
  <2>1. /\ lock' = [lock EXCEPT ![k] = Nobody]
        /\ \/ th[t].pc = "raise" /\ th' = [th EXCEPT ![t].pc = "idle"]
           \/ th[t].pc = "unlock" /\ th' = [th EXCEPT ![t].pc = "done"]
    BY <1>4 DEF R!Returns, R!At, R!Goes
  <2> QED
    BY <2>1 DEF ResultInv, ResultTypes, Owners, Standing, Places, Working, Finished
<1>5. ASSUME NEW found \in SUBSET Keys, th[t].pc = "list", lock' = [lock EXCEPT ![k] = Nobody],
             th' = [th EXCEPT ![t].pc = "prune", ![t].list = found]
      PROVE  ResultInv'
  <2> DEFINE rec == [th[t] EXCEPT !.pc = "prune", !.list = found]
  <2>1. rec \in Standing /\ rec.pc = "prune" /\ rec.dst = th[t].dst
    BY DEF ResultInv, ResultTypes, Standing, Places, Finished
  <2>2. th' = [th EXCEPT ![t] = rec]
    BY <1>5
  <2> HIDE DEF rec
  <2> QED
    BY <1>5, <2>1, <2>2, PruneKeeps
<1>6. CASE R!Chooses(t)
  <2>1. th[t].pc = "prune" /\ lock' = lock
    BY <1>6 DEF R!Chooses, R!At
  <2>2. PICK rec \in Standing : rec.pc \in {"done", "discard"} /\ rec.dst = th[t].dst
               /\ th' = [th EXCEPT ![t] = rec]
    <3>1. CASE th' = [th EXCEPT ![t].pc = "done", ![t].list = {}]
      <4> DEFINE rec == [th[t] EXCEPT !.pc = "done", !.list = {}]
      <4>1. rec \in Standing /\ rec.pc = "done" /\ rec.dst = th[t].dst
        BY DEF ResultInv, ResultTypes, Standing, Places, Finished
      <4>2. th' = [th EXCEPT ![t] = rec]
        BY <3>1
      <4> HIDE DEF rec
      <4> QED
        BY <4>1, <4>2
    <3>2. ASSUME NEW v \in th[t].list,
                 th' = [th EXCEPT ![t].list = @ \ {v}, ![t].victim = v, ![t].pc = "discard"]
          PROVE  \E rec \in Standing : /\ rec.pc \in {"done", "discard"} /\ rec.dst = th[t].dst
                                       /\ th' = [th EXCEPT ![t] = rec]
      <4> DEFINE rec == [th[t] EXCEPT !.list = @ \ {v}, !.victim = v, !.pc = "discard"]
      <4>1. rec \in Standing /\ rec.pc = "discard" /\ rec.dst = th[t].dst
        BY DEF ResultInv, ResultTypes, Standing, Places, Finished
      <4>2. th' = [th EXCEPT ![t] = rec]
        BY <3>2
      <4> HIDE DEF rec
      <4> QED
        BY <4>1, <4>2
    <3> QED
      BY <1>6, <3>1, <3>2 DEF R!Chooses
  <2> QED
    BY <2>1, <2>2, PruneKeeps
<1>7. CASE R!Discards(t)
  <2> DEFINE rec == [th[t] EXCEPT !.pc = "prune", !.victim = Nobody]
  <2>1. th[t].pc = "discard" /\ lock' = lock /\ (th' = th \/ th' = [th EXCEPT ![t] = rec])
    BY <1>7 DEF R!Discards, R!At
  <2>2. rec \in Standing /\ rec.pc = "prune" /\ rec.dst = th[t].dst
    BY DEF ResultInv, ResultTypes, Standing, Places, Finished
  <2>3. th' = th => ResultInv'
    BY <2>1 DEF ResultInv, ResultTypes, Owners
  <2> HIDE DEF rec
  <2> QED
    BY <2>1, <2>2, <2>3, PruneKeeps
<1>8. CASE R!Lists(t)
  BY <1>5, <1>8 DEF R!Lists, R!At
<1> QED
  BY <1>1, <1>2, <1>3, <1>4, <1>6, <1>7, <1>8 DEF R!Proceeds

(* A call begins, a payload rots, the process dies. *)
LEMMA OthersKeepResults ==
  ASSUME ResultInv, R!Dies \/ R!Rests \/ (\E k \in Keys : R!Rots(k) \/ \E t \in Threads : R!Executes(t, k))
  PROVE  ResultInv'
<1>1. CASE R!Dies
  <2>1. lock' = [k \in Keys |-> Nobody] /\ th' = [t \in Threads |-> R!Nowhere]
    BY <1>1 DEF R!Dies
  <2> QED
    BY <2>1 DEF ResultInv, ResultTypes, Owners, Standing, Places, Working, Finished, R!Nowhere
<1>2. CASE R!Rests \/ \E k \in Keys : R!Rots(k)
  <2>1. UNCHANGED <<lock, th>>
    BY <1>2 DEF R!Rests, R!Rots, R!vars
  <2> QED
    BY <2>1 DEF ResultInv, ResultTypes, Owners
<1>3. ASSUME NEW k \in Keys, NEW t \in Threads, R!Executes(t, k) PROVE ResultInv'
  <2> DEFINE rec == [R!Nowhere EXCEPT !.pc = "lock", !.key = k]
  <2>1. lock' = lock /\ th' = [th EXCEPT ![t] = rec]
    BY <1>3 DEF R!Executes
  <2>2. rec \in Standing /\ rec.pc = "lock" /\ rec.key = k
    BY DEF R!Nowhere, Standing, Places
  <2> HIDE DEF rec
  <2> QED
    BY <2>1, <2>2 DEF ResultInv, ResultTypes, Owners, Working, Finished
<1> QED
  BY <1>1, <1>2, <1>3

-----------------------------------------------------------------------------
(* The two together. *)

LEMMA StoresStart == Init => WholeInv /\ StableInv /\ ResultInv
<1> SUFFICES ASSUME Init PROVE WholeInv /\ StableInv /\ ResultInv
  OBVIOUS
<1>1. /\ first \in {"absent", "bare"} /\ slot = first /\ whole = FALSE
      /\ pc = [c \in Callers |-> "idle"]
      /\ tar = [c \in Callers |-> Every("hole")] /\ part = [c \in Callers |-> Every("none")]
  BY DEF Init, A!Init, A!Starts, Every
<1>2. lock = [k \in Keys |-> Nobody] /\ th = [t \in Threads |-> R!Nowhere]
  BY DEF Init, R!Init, R!Starts
<1>3. Every("hole") \in [Parts -> Bytes] /\ Every("none") \in [Parts -> Ends]
  BY DEF Every, A!Every, Bytes, Ends
<1>4. \A c \in Callers : A!Running(c) = {} /\ A!Idle(c)
  BY <1>1 DEF A!Idle, A!Running, Every, A!Every
<1>5. WholeInv
  BY <1>1, <1>3, <1>4 DEF WholeInv, TreeTypes, Stands, NoLateWriter, A!PublishedIsWhole
<1>6. StableInv
  BY <1>1, <1>4 DEF StableInv, TakeOver
<1>7. ResultInv
  BY <1>2 DEF ResultInv, ResultTypes, Owners, Standing, Places, Working, Finished, R!Nowhere
<1> QED
  BY <1>5, <1>6, <1>7

LEMMA StoresStep == WholeInv /\ ResultInv /\ [Next]_<<artifactVars, resultVars>> => WholeInv' /\ ResultInv'
<1> SUFFICES ASSUME WholeInv, ResultInv, [Next]_<<artifactVars, resultVars>> PROVE WholeInv' /\ ResultInv'
  OBVIOUS
<1>1. UNCHANGED artifactVars => WholeInv'
  BY DEF artifactVars, WholeInv, TreeTypes, NoLateWriter, A!Running, A!PublishedIsWhole
<1>2. UNCHANGED resultVars => ResultInv'
  BY DEF resultVars, ResultInv, ResultTypes, Owners
<1>3. A!Next => WholeInv'
  <2>1. A!Rests => UNCHANGED artifactVars
    BY DEF A!Rests, A!vars, A!calls, artifactVars
  <2> QED
    BY <1>1, <2>1, FetchKeepsWhole, InstallKeepsWhole, DeathKeepsWhole DEF A!Next
<1>4. R!Next => ResultInv'
  BY ProceedKeepsResults, OthersKeepResults, ResultsAssumption DEF R!Next
<1> QED
  BY <1>1, <1>2, <1>3, <1>4 DEF Next

(* A tree with the sentinel holds every file of the tar that was verified,  *)
(* and no range of an abandoned call writes to a tar that is being verified *)
(* or unpacked, whatever overlaps, fails, dies or arrives corrupt           *)
(* (ensure_tree, _download_ranged).                                         *)
THEOREM TreesAreWhole ==
  Spec => [](A!PublishedIsWhole /\ \A c \in Callers : pc[c] \in {"verify", "extract", "take"}
    => A!Running(c) = {})
<1>1. WholeInv /\ ResultInv =>
        A!PublishedIsWhole /\ \A c \in Callers : pc[c] \in {"verify", "extract", "take"} => A!Running(c) = {}
  BY DEF WholeInv, NoLateWriter
<1> QED
  BY <1>1, StoresStart, StoresStep, PTL DEF Spec

(* And a caller that was handed the tree keeps it, as long as no two calls  *)
(* overlap on a slot that holds a directory without its sentinel: there the *)
(* take-over of one may remove what the other has published (ensure_tree).  *)
THEOREM ServedTreesStay ==
  ASSUME "bare" \notin Overlap
  PROVE  Spec => []ServedIsWhole
<1>1. WholeInv /\ StableInv /\ ResultInv /\ [Next]_<<artifactVars, resultVars>> => StableInv'
  <2> SUFFICES ASSUME WholeInv, StableInv, [Next]_<<artifactVars, resultVars>> PROVE StableInv'
    OBVIOUS
  <2>1. UNCHANGED artifactVars => StableInv'
    BY DEF artifactVars, StableInv, TakeOver, A!Idle, A!Running
  <2> QED
    BY <2>1, StepKeepsStable DEF Next
<1>2. WholeInv /\ StableInv => ServedIsWhole
  BY DEF WholeInv, NoLateWriter, StableInv, ServedIsWhole, A!ServedIsWhole, A!ServedIsStable
<1> QED
  BY <1>1, <1>2, StoresStart, StoresStep, PTL DEF Spec

(* A call that returns has the handler's own bytes in dst, and a thread     *)
(* that restores, computes or stores a key owns its lock, whatever is       *)
(* pruned or rots under it (execute, _restore, _store, prune).              *)
THEOREM ResultsAreExact == Spec => []DeliveredIsExact
<1>1. WholeInv /\ ResultInv => DeliveredIsExact
  BY DEF ResultInv, Owners, Standing, Places, Working, Finished, DeliveredIsExact, R!DeliveredIsExact
<1> QED
  BY <1>1, StoresStart, StoresStep, PTL DEF Spec
===============================================================================
