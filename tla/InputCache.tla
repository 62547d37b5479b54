----------------------------- MODULE InputCache -----------------------------
(***************************************************************************)
(* The pod's object cache (ops/inputcache.py): get, upload_and_adopt and   *)
(* adopt_local over slots on disk, the in-memory account the pruner reads, *)
(* the background walk that reconciles it, and the death of the process    *)
(* between any two changes of the disk.                                    *)
(*                                                                         *)
(* One action is one change of the disk, of the account or of a lock: the  *)
(* walk and the retention tally read the disk without the object's lock.   *)
(* A slot is its payload (a version, 0 for none), its sentinel DONE and    *)
(* its marker RETAINED. Temporary files (.part, snapshots) are never read  *)
(* and are left out; so are changes of the disk made by nobody here.       *)
(***************************************************************************)
EXTENDS Integers, FiniteSets, Functions

CONSTANTS
  Threads,       \* the chains' transfer threads
  Keys,          \* object keys: host + path
  Siblings,      \* pairs of keys with one basename under two work prefixes
  Inputs,        \* external: objects the store holds from the start
  Size,          \* bytes of each object
  Cap,           \* MAX_GB_ENV
  RetainedCap,   \* retained_cap(): RETAINED_SHARE of it
  Holders,       \* worker identities a process may be started with
  Nobody,        \* the owner of a free lock
  MaxOps,        \* bound: calls and deaths of the process in a behaviour
  Fragile        \* the removals that may fail in a run

Removals == {"drop done", "drop payload", "drop mark", "old mark", "old tree", "heal", "remove"}

ASSUME CacheAssumption ==
  /\ IsFiniteSet(Keys) /\ IsFiniteSet(Threads) /\ Nobody \notin Threads
  /\ Siblings \subseteq Keys \X Keys /\ Inputs \subseteq Keys
  /\ Size \in [Keys -> Nat \ {0}] /\ {Cap, RetainedCap, MaxOps} \subseteq Nat
  /\ RetainedCap <= Cap /\ Fragile \subseteq Removals
  /\ Holders \cap {"no", "torn"} = {}

VARIABLES
  disk,    \* the slot of each key
  remote,  \* external: the version the object store holds, 0 for none
  latest,  \* the last version written of each object, remotely or retained
  acked,   \* the last version a call reported written and that is still promised
  leased,  \* the version the last get of each object copied out
  lock,    \* _slot_locks: the owner of each object's lock
  retain,  \* _retain_lock
  acct,    \* _account: whether it is seeded, its rows, `reconciling`, `touched`;
           \* and, a history, the objects whose last change it was not told of
  walk,    \* the walk under way and what it has read
  th,      \* per thread: its place, object, slot in hand, and the loops' locals
  proc     \* the process: enabled(), worker identity; the bound left

stores == <<remote, latest, acked, leased>>
locks  == <<lock, retain>>
vars   == <<disk, stores, locks, acct, walk, th, proc>>

-----------------------------------------------------------------------------
Empty == [payload |-> 0, done |-> "no", mark |-> "no"]

(* _read_slot, and one slot of _scan: a COMPLETE slot's row, "none" for the rest. *)
DiskRow(k) ==
  IF disk[k].done = "no" \/ disk[k].payload = 0 THEN "none"
  ELSE IF disk[k].mark = "no" THEN "plain" ELSE "held"

Weight(ks) == FoldFunctionOnSet(+, 0, Size, ks)
Rows(kinds) == {k \in Keys : acct.rows[k] \in kinds}

(* _Account.total is kept by _drop and put as the sum of the rows. *)
Total == Weight(Rows({"plain", "held"}))

(* Per thread: the object of the call, the slot whose lock it holds, the    *)
(* rest of a loop, `tried`, where it goes after _note, how its last call ended. *)
Nowhere == [pc |-> "idle", key |-> Nobody, slot |-> Nobody, todo |-> {}, tried |-> {}, then |-> "idle", out |-> "none"]

At(t, where)     == th[t].pc = where
Goes(t, where)   == th' = [th EXCEPT ![t].pc = where]
Ends(t, outcome) == th' = [th EXCEPT ![t] = [Nowhere EXCEPT !.out = outcome]]
Slot(t)          == th[t].slot
Prunes(t)        == th' = [th EXCEPT ![t] = [Nowhere EXCEPT !.pc = "batch"]]
Frees(k)         == lock' = [lock EXCEPT ![k] = Nobody]
Takes(t, k)      == lock[k] = Nobody /\ lock' = [lock EXCEPT ![k] = t]

(* _note after a change of the slot, then on. *)
Notes(t, next) == th' = [th EXCEPT ![t].pc = "note", ![t].then = next]

Enters(t, k, where) ==
  /\ At(t, "idle") /\ proc.ops > 0
  /\ proc' = [proc EXCEPT !.ops = @ - 1]
  /\ th' = [th EXCEPT ![t] = [Nowhere EXCEPT !.pc = where, !.key = k, !.slot = k]]

(* Mutant of PutRow: a change made while the walk runs is not remembered. *)
ForgetsTouch(k, row) == [acct EXCEPT !.rows[k] = row, !.missed = @ \ {k}]

(* _Account.put *)
PutRow(k, row) ==
  [acct EXCEPT !.rows[k] = row, !.touched = IF acct.reconciling THEN @ \cup {k} ELSE @,
               !.missed = @ \ {k}]

(* _note: _ledger(), _read_slot, put. Its caller holds the slot's lock. *)
Note(t) ==
  /\ At(t, "note") /\ acct.live
  /\ acct' = PutRow(Slot(t), DiskRow(Slot(t)))
  /\ Goes(t, th[t].then)
  /\ UNCHANGED <<disk, stores, locks, walk, proc>>

Changes(t, field, value) == disk' = [disk EXCEPT ![Slot(t)][field] = value]

(* What is left of a slot where a change is cut short, by an error or by    *)
(* the death of the process: a rmtree has removed some of the files, a file *)
(* being written is as it was or torn.                                      *)
Cut(d, place) ==
  CASE place \in {"heal", "remove", "old tree"} ->
         {d, [d EXCEPT !.payload = 0], [d EXCEPT !.done = "no"]}
    [] place \in {"seal", "put seal", "own seal"} -> {d, [d EXCEPT !.done = "torn"]}
    [] place = "own mark" -> {d, [d EXCEPT !.mark = "torn"]}
    [] OTHER -> {d}
CutShort(t) == \E d \in Cut(disk[Slot(t)], th[t].pc) : disk' = [disk EXCEPT ![Slot(t)] = d]

(* A removal fails: rmtree leaves what it likes (ignore_errors), an unlink  *)
(* that raises ends the `try` it stands in. The slot is read again.         *)
AfterRemoval(place) ==
  CASE place = "heal"                   -> "fetch"
    [] place = "remove"                 -> "evicted"
    [] place \in {"old mark", "old tree"} -> "old freed"
    [] OTHER                            -> "invalidated"

RemovalFails(t) ==
  /\ th[t].pc \in Fragile /\ CutShort(t)
  /\ th' = [th EXCEPT ![t].pc = "note", ![t].then = AfterRemoval(th[t].pc),
                      ![t].out = IF At(t, "remove") THEN "unpruned" ELSE @]
  /\ UNCHANGED <<stores, locks, acct, walk, proc>>

-----------------------------------------------------------------------------
(* get *)

GetLocks(t, k) ==
  /\ proc.enabled
  /\ Enters(t, k, "look") /\ Takes(t, k)
  /\ UNCHANGED <<disk, stores, retain, acct, walk>>

(* The marker decides before the sentinel is read; a sentinel without its   *)
(* size record is healed.                                                   *)
Verdict(d) ==
  IF d.mark # "no" THEN IF d.payload = 0 THEN "lost" ELSE "hit"
  ELSE IF d.payload = 0 \/ d.done = "no" THEN "miss"
  ELSE IF d.done = "ok" THEN "hit" ELSE "heal"

GetLooks(t) ==
  /\ At(t, "look")
  /\ CASE Verdict(disk[Slot(t)]) = "lost" -> Ends(t, "err") /\ Frees(Slot(t)) /\ UNCHANGED disk
       [] Verdict(disk[Slot(t)]) = "hit"  -> Goes(t, "lease") /\ UNCHANGED <<lock, disk>>
       [] Verdict(disk[Slot(t)]) = "miss" -> Goes(t, "fetch") /\ UNCHANGED <<lock, disk>>
       [] Verdict(disk[Slot(t)]) = "heal" -> Goes(t, "heal") /\ UNCHANGED <<lock, disk>>
  /\ UNCHANGED <<stores, retain, acct, walk, proc>>

GetHeals(t) ==
  /\ At(t, "heal")
  /\ disk' = [disk EXCEPT ![Slot(t)] = Empty]
  /\ Notes(t, "fetch")
  /\ UNCHANGED <<stores, locks, acct, walk, proc>>

(* The download goes to a .part and is renamed over the payload: it is whole. *)
GetFetches(t) ==
  /\ At(t, "fetch") /\ remote[Slot(t)] # 0
  /\ Changes(t, "payload", remote[Slot(t)])
  /\ Goes(t, "seal")
  /\ UNCHANGED <<stores, locks, acct, walk, proc>>

(* The download raises, or the copy to the lease. *)
GetFails(t) ==
  /\ th[t].pc \in {"fetch", "lease"}
  /\ Ends(t, "err") /\ Frees(Slot(t))
  /\ UNCHANGED <<disk, stores, retain, acct, walk, proc>>

GetSeals(t) ==
  /\ At(t, "seal")
  /\ Changes(t, "done", "ok")
  /\ Notes(t, "lease")
  /\ UNCHANGED <<stores, locks, acct, walk, proc>>

(* The payload is renamed in and its sentinel cannot be written: nothing    *)
(* undoes the one or tells the account of the other.                        *)
GetSealFails(t) ==
  /\ At(t, "seal") /\ CutShort(t)
  /\ acct' = [acct EXCEPT !.missed = @ \cup {Slot(t)}]
  /\ Ends(t, "err") /\ Frees(Slot(t))
  /\ UNCHANGED <<stores, retain, walk, proc>>

(* The copy is made under the object's lock, so its size check cannot fail. *)
GetLeases(t) ==
  /\ At(t, "lease")
  /\ leased' = [leased EXCEPT ![Slot(t)] = disk[Slot(t)].payload]
  /\ Frees(Slot(t)) /\ Prunes(t)
  /\ UNCHANGED <<disk, remote, latest, acked, retain, acct, walk, proc>>

-----------------------------------------------------------------------------
(* upload_and_adopt *)

PutLocks(t, k) ==
  /\ Enters(t, k, "put") /\ Takes(t, k)
  /\ UNCHANGED <<disk, stores, retain, acct, walk>>

(* A failed PUT leaves the old COMPLETE value; it reaches the caller. *)
PutFails(t) ==
  /\ At(t, "put")
  /\ Ends(t, "err") /\ Frees(Slot(t))
  /\ UNCHANGED <<disk, stores, retain, acct, walk, proc>>

(* Mutant of PutLands: without a snapshot the slot is left as it is. *)
PutLeavesSlot(t) ==
  LET k == Slot(t) IN
  /\ At(t, "put")
  /\ latest' = [latest EXCEPT ![k] = @ + 1]
  /\ remote' = [remote EXCEPT ![k] = latest[k] + 1]
  /\ (proc.enabled /\ Goes(t, "unseal")) \/ Goes(t, "invalidated")
  /\ UNCHANGED <<disk, acked, leased, locks, acct, walk, proc>>

(* The version on the wire is the snapshot's. Without one (cache disabled,  *)
(* or the snapshot failed) the durable PUT makes the slot stale.            *)
PutLands(t) ==
  LET k == Slot(t) IN
  /\ At(t, "put")
  /\ latest' = [latest EXCEPT ![k] = @ + 1]
  /\ remote' = [remote EXCEPT ![k] = latest[k] + 1]
  /\ \/ proc.enabled /\ Goes(t, "unseal")
     \/ Goes(t, "drop done")
  /\ UNCHANGED <<disk, acked, leased, locks, acct, walk, proc>>

(* sentinel, marker, rename, sentinel: any of them may fail. *)
PutUnseals(t) == At(t, "unseal") /\ Changes(t, "done", "no") /\ Goes(t, "unmark")
PutUnmarks(t) == At(t, "unmark") /\ Changes(t, "mark", "no") /\ Goes(t, "swap")
PutSwaps(t)   == At(t, "swap")   /\ Changes(t, "payload", remote[Slot(t)]) /\ Goes(t, "put seal")
PutSeals(t)   == At(t, "put seal") /\ Changes(t, "done", "ok") /\ Notes(t, "reported")

PutAdopts(t) ==
  /\ PutUnseals(t) \/ PutUnmarks(t) \/ PutSwaps(t) \/ PutSeals(t)
  /\ UNCHANGED <<stores, locks, acct, walk, proc>>

AdoptionFails(t) ==
  /\ th[t].pc \in {"unseal", "unmark", "swap", "put seal"} /\ CutShort(t)
  /\ Goes(t, "drop done")
  /\ UNCHANGED <<stores, locks, acct, walk, proc>>

(* upload_and_adopt and adopt_local return; both prune on the way out. *)
Reports(t) ==
  LET k == Slot(t) IN
  /\ At(t, "reported")
  /\ acked' = [acked EXCEPT ![k] = latest[k]]
  /\ Frees(k) /\ retain' = (IF retain = t THEN Nobody ELSE retain)
  /\ Prunes(t)
  /\ UNCHANGED <<disk, remote, latest, leased, acct, walk, proc>>

-----------------------------------------------------------------------------
(* _invalidate_locked: sentinel, payload, marker. *)

DropsDone(t)    == At(t, "drop done") /\ Changes(t, "done", "no") /\ Goes(t, "drop payload")
DropsPayload(t) == At(t, "drop payload") /\ Changes(t, "payload", 0) /\ Goes(t, "drop mark")
DropsMark(t)    == At(t, "drop mark") /\ Changes(t, "mark", "no") /\ Notes(t, "invalidated")

Invalidates(t) ==
  /\ DropsDone(t) \/ DropsPayload(t) \/ DropsMark(t)
  /\ UNCHANGED <<stores, locks, acct, walk, proc>>

(* A PUT has landed all the same; a retained output exists nowhere, and raises. *)
AfterInvalidation(t) ==
  LET k == Slot(t) IN
  /\ At(t, "invalidated")
  /\ Frees(k) /\ retain' = (IF retain = t THEN Nobody ELSE retain)
  /\ IF retain = t
     THEN Ends(t, "err") /\ UNCHANGED acked
     ELSE Ends(t, "unpruned") /\ acked' = [acked EXCEPT ![k] = latest[k]]
  /\ UNCHANGED <<disk, remote, latest, leased, acct, walk, proc>>

-----------------------------------------------------------------------------
(* adopt_local: one adoption at a time, from the tally to the return *)

(* _retained_rows: rows of the account that the disk still shows retained,  *)
(* with a marker that can be read. The disk is read without any slot's lock. *)
RetainedRows == {k \in Rows({"held"}) : DiskRow(k) = "held" /\ disk[k].mark # "torn"}

Superseded(k) ==
  {j \in RetainedRows \ {k} : disk[j].mark # proc.holder \/ <<j, k>> \in Siblings}

RetainEnters(t, k) ==
  /\ proc.enabled
  /\ Enters(t, k, "rows") /\ retain = Nobody /\ retain' = t
  /\ UNCHANGED <<disk, stores, lock, acct, walk>>

(* release_superseded: from here on nobody can address the older generations. *)
FindsSuperseded(t) ==
  LET old == Superseded(th[t].key) IN
  /\ At(t, "rows") /\ acct.live
  /\ acked' = [k \in Keys |-> IF k \in old THEN 0 ELSE acked[k]]
  /\ th' = [th EXCEPT ![t].todo = old, ![t].pc = "release"]
  /\ UNCHANGED <<disk, remote, latest, leased, locks, acct, walk, proc>>

(* _release_slot: an object in use is left to the next sweep. *)
TakesOld(t) ==
  /\ At(t, "release")
  /\ \E j \in th[t].todo :
       \/ Takes(t, j) /\ th' = [th EXCEPT ![t].todo = @ \ {j}, ![t].slot = j, ![t].pc = "old mark"]
       \/ lock[j] # Nobody /\ th' = [th EXCEPT ![t].todo = @ \ {j}] /\ UNCHANGED lock
  /\ UNCHANGED <<disk, stores, retain, acct, walk, proc>>

UnmarksOld(t) ==
  /\ At(t, "old mark") /\ Changes(t, "mark", "no") /\ Goes(t, "old tree")
  /\ UNCHANGED <<stores, locks, acct, walk, proc>>

RemovesOld(t) ==
  /\ At(t, "old tree")
  /\ disk' = [disk EXCEPT ![Slot(t)] = Empty] /\ Notes(t, "old freed")
  /\ UNCHANGED <<stores, locks, acct, walk, proc>>

FreesOld(t) ==
  /\ At(t, "old freed")
  /\ Frees(Slot(t)) /\ th' = [th EXCEPT ![t].slot = th[t].key, ![t].pc = "release"]
  /\ UNCHANGED <<disk, stores, retain, acct, walk, proc>>

(* held - already + incoming against the ceiling *)
Fits(k) == Weight(RetainedRows \ {k}) + Size[k] <= RetainedCap

Tallies(t) ==
  /\ At(t, "release") /\ th[t].todo = {}
  /\ IF Fits(th[t].key)
     THEN Goes(t, "adopt") /\ UNCHANGED retain
     ELSE Ends(t, "err") /\ retain' = Nobody
  /\ UNCHANGED <<disk, stores, lock, acct, walk, proc>>

RetainLocks(t) ==
  /\ At(t, "adopt") /\ Takes(t, Slot(t)) /\ Goes(t, "own unseal")
  /\ UNCHANGED <<disk, stores, retain, acct, walk, proc>>

(* The snapshot is made, then sentinel, rename, marker, sentinel. *)
OwnUnseals(t) == At(t, "own unseal") /\ Changes(t, "done", "no") /\ Goes(t, "own swap") /\ UNCHANGED latest
OwnSwaps(t)   == /\ At(t, "own swap") /\ Changes(t, "payload", latest[Slot(t)] + 1) /\ Goes(t, "own mark")
                 /\ latest' = [latest EXCEPT ![Slot(t)] = @ + 1]
OwnMarks(t)   == At(t, "own mark") /\ Changes(t, "mark", proc.holder) /\ Goes(t, "own seal") /\ UNCHANGED latest
OwnSeals(t)   == At(t, "own seal") /\ Changes(t, "done", "ok") /\ Notes(t, "reported") /\ UNCHANGED latest

Retains(t) ==
  /\ OwnUnseals(t) \/ OwnSwaps(t) \/ OwnMarks(t) \/ OwnSeals(t)
  /\ UNCHANGED <<remote, acked, leased, locks, acct, walk, proc>>

(* RetentionUnavailable: what the object held before is given up with it. *)
RetentionFails(t) ==
  /\ th[t].pc \in {"own unseal", "own swap", "own mark", "own seal"} /\ CutShort(t)
  /\ acked' = [acked EXCEPT ![Slot(t)] = 0]
  /\ Goes(t, "drop done")
  /\ UNCHANGED <<remote, latest, leased, locks, acct, walk, proc>>

-----------------------------------------------------------------------------
(* prune: _evict in batches, no lock held across the disk work *)

Evictable(t) == Rows({"plain"}) \ th[t].tried

(* _oldest_batch: just enough rows for the excess. Which are the oldest is  *)
(* left open: no property depends on it.                                    *)
Batches(t) ==
  {b \in SUBSET Evictable(t) :
     /\ Weight(b) >= Total - Cap \/ b = Evictable(t)
     /\ \E last \in b : Weight(b \ {last}) < Total - Cap}

TakesBatch(t) ==
  /\ At(t, "batch") /\ acct.live
  /\ IF Total <= Cap \/ Evictable(t) = {}
     THEN th' = [th EXCEPT ![t] = [Nowhere EXCEPT !.pc = "due", !.out = th[t].out]]
     ELSE \E b \in Batches(t) :
            th' = [th EXCEPT ![t].pc = "evict", ![t].todo = b, ![t].tried = @ \cup b]
  /\ UNCHANGED <<disk, stores, locks, acct, walk, proc>>

TakesVictim(t) ==
  /\ At(t, "evict")
  /\ \/ th[t].todo = {} /\ Goes(t, "batch") /\ UNCHANGED lock
     \/ \E j \in th[t].todo :
          \/ Takes(t, j) /\ th' = [th EXCEPT ![t].todo = @ \ {j}, ![t].slot = j, ![t].pc = "check"]
          \/ lock[j] # Nobody /\ th' = [th EXCEPT ![t].todo = @ \ {j}] /\ UNCHANGED lock
  /\ UNCHANGED <<disk, stores, retain, acct, walk, proc>>

(* Mutant of Spared: the row the batch was drawn from is believed. *)
NeverSpared(k) == FALSE

Spared(k) == DiskRow(k) \in {"none", "held"}

(* The account may be stale: the slot is read again under its lock. *)
ChecksVictim(t) ==
  /\ At(t, "check")
  /\ IF Spared(Slot(t)) THEN Notes(t, "evicted") ELSE Goes(t, "remove")
  /\ UNCHANGED <<disk, stores, locks, acct, walk, proc>>

RemovesVictim(t) ==
  /\ At(t, "remove")
  /\ disk' = [disk EXCEPT ![Slot(t)] = Empty] /\ Notes(t, "evicted")
  /\ UNCHANGED <<stores, locks, acct, walk, proc>>

FreesVictim(t) ==
  /\ At(t, "evicted")
  /\ Frees(Slot(t)) /\ th' = [th EXCEPT ![t].slot = Nobody, ![t].pc = "evict"]
  /\ UNCHANGED <<disk, stores, retain, acct, walk, proc>>

(* A prune that could not remove a victim is as good as none.               *)
Pruned(t) == Ends(t, IF th[t].out = "none" THEN "ok" ELSE th[t].out)

(* _reconcile_if_due: by operations or by age, one walk at a time. *)
PruneEnds(t) ==
  /\ At(t, "due") /\ Pruned(t)
  /\ UNCHANGED <<disk, stores, locks, acct, walk, proc>>

ReconcileFallsDue(t) ==
  /\ At(t, "due") /\ Pruned(t)
  /\ ~acct.reconciling
  /\ acct' = [acct EXCEPT !.reconciling = TRUE, !.touched = {}]
  /\ walk' = [on |-> TRUE, seen |-> [k \in {} |-> "none"]]
  /\ UNCHANGED <<disk, stores, locks, proc>>

-----------------------------------------------------------------------------
(* The walk: _ledger's seed and the background reconcile *)

NoWalk == [on |-> FALSE, seen |-> [k \in {} |-> "none"]]

(* The first caller that needs the account walks; the others wait for it. *)
SeedStarts(t) ==
  /\ ~acct.live /\ ~walk.on /\ th[t].pc \in {"note", "rows", "batch"}
  /\ walk' = [NoWalk EXCEPT !.on = TRUE]
  /\ UNCHANGED <<disk, stores, locks, acct, th, proc>>

(* One slot, in the directory's order. *)
WalkReads ==
  LET k == CHOOSE j \in Keys : j \notin DOMAIN walk.seen IN
  /\ walk.on /\ DOMAIN walk.seen # Keys
  /\ walk' = [walk EXCEPT !.seen = [j \in DOMAIN @ \cup {k} |-> IF j = k THEN DiskRow(k) ELSE @[j]]]
  /\ UNCHANGED <<disk, stores, locks, acct, th, proc>>

(* _Account.load: whatever changed while it walked wins over what it saw. *)
WalkLoads ==
  /\ walk.on /\ DOMAIN walk.seen = Keys
  /\ acct' = [live |-> TRUE, reconciling |-> FALSE, touched |-> {}, missed |-> acct.missed,
              rows |-> [k \in Keys |-> IF k \in acct.touched THEN acct.rows[k] ELSE walk.seen[k]]]
  /\ walk' = NoWalk
  /\ UNCHANGED <<disk, stores, locks, th, proc>>

WalkFails ==
  /\ walk.on /\ acct.live
  /\ acct' = [acct EXCEPT !.reconciling = FALSE] /\ walk' = NoWalk
  /\ UNCHANGED <<disk, stores, locks, th, proc>>

-----------------------------------------------------------------------------
(* The process dies; the next one inherits the disk.                        *)
NoAccount ==
  [live |-> FALSE, rows |-> [k \in Keys |-> "none"], reconciling |-> FALSE, touched |-> {}, missed |-> {}]

Left(k) == Cut(disk[k], IF lock[k] = Nobody THEN "idle" ELSE th[lock[k]].pc)

Dies ==
  /\ proc.ops > 0
  /\ \E t \in Threads : ~At(t, "idle")
  /\ disk' \in {f \in [Keys -> UNION {Left(k) : k \in Keys}] : \A k \in Keys : f[k] \in Left(k)}
  /\ lock' = [k \in Keys |-> Nobody] /\ retain' = Nobody
  /\ acct' = NoAccount /\ walk' = NoWalk
  /\ th' = [t \in Threads |-> Nowhere]
  /\ \E on \in BOOLEAN, who \in Holders :
       proc' = [proc EXCEPT !.ops = @ - 1, !.enabled = on, !.holder = who]
  /\ UNCHANGED stores

Rests ==
  /\ proc.ops = 0 /\ ~walk.on /\ \A t \in Threads : At(t, "idle")
  /\ UNCHANGED vars

Init ==
  /\ disk = [k \in Keys |-> Empty]
  /\ remote = [k \in Keys |-> IF k \in Inputs THEN 1 ELSE 0]
  /\ latest = remote /\ acked = remote
  /\ leased = [k \in Keys |-> 0]
  /\ lock = [k \in Keys |-> Nobody] /\ retain = Nobody
  /\ acct = NoAccount /\ walk = NoWalk
  /\ th = [t \in Threads |-> Nowhere]
  /\ \E on \in BOOLEAN, who \in Holders :
       proc = [enabled |-> on, holder |-> who, ops |-> MaxOps]

Call(t) == \E k \in Keys : GetLocks(t, k) \/ PutLocks(t, k) \/ RetainEnters(t, k)

Proceeds(t) ==
  \/ Note(t) \/ RemovalFails(t)
  \/ GetLooks(t) \/ GetHeals(t) \/ GetFetches(t) \/ GetFails(t)
  \/ GetSeals(t) \/ GetSealFails(t) \/ GetLeases(t)
  \/ PutFails(t) \/ PutLands(t) \/ PutAdopts(t) \/ AdoptionFails(t) \/ Reports(t)
  \/ Invalidates(t) \/ AfterInvalidation(t)
  \/ FindsSuperseded(t) \/ TakesOld(t) \/ UnmarksOld(t) \/ RemovesOld(t) \/ FreesOld(t)
  \/ Tallies(t) \/ RetainLocks(t) \/ Retains(t) \/ RetentionFails(t)
  \/ TakesBatch(t) \/ TakesVictim(t) \/ ChecksVictim(t) \/ RemovesVictim(t) \/ FreesVictim(t)
  \/ PruneEnds(t) \/ ReconcileFallsDue(t) \/ SeedStarts(t)

Walks == WalkReads \/ WalkLoads \/ WalkFails

Next == Dies \/ Rests \/ Walks \/ \E t \in Threads : Call(t) \/ Proceeds(t)

(* Threads run on, and so does the daemon that walks. *)
Spec == Init /\ [][Next]_vars /\ WF_vars(Walks) /\ \A t \in Threads : WF_vars(Proceeds(t))

-----------------------------------------------------------------------------
(* The account does not drift: outside a hold of a slot's lock its row is   *)
(* what the disk shows, however a reconcile's walk interleaves with puts,   *)
(* evictions and adoptions of that slot (_Account.load, `touched`). But a   *)
(* get that cannot write its sentinel leaves a payload which counts on disk *)
(* and has no row, until a walk or the next change of that slot: a row too  *)
(* few, never one too many, and of no retained object.                      *)
Unrecorded(k, row) == k \in acct.missed /\ row = "none" /\ DiskRow(k) = "plain"
AccountIsTheDisk ==
  acct.live => \A k \in Keys :
    lock[k] = Nobody => acct.rows[k] = DiskRow(k) \/ Unrecorded(k, acct.rows[k])

(* An object whose newest reported version the store does not have is on    *)
(* this disk, marked, until its address is dead: no eviction, crash or      *)
(* racing call deletes the only copy (RETENTION_WHY).                       *)
OnlyCopySurvives ==
  \A k \in Keys : acked[k] > remote[k] => disk[k].payload >= acked[k] /\ disk[k].mark # "no"

(* Retained outputs adopted concurrently never cross their share of the cap. *)
RetainedFits == Weight({k \in Keys : DiskRow(k) = "held"}) <= RetainedCap

(* Once every call has returned, none of them in an error or without a      *)
(* prune, and one has pruned, what the account was told of fits the cap, or *)
(* nothing of it but retained objects is left: a pruner passes over a slot  *)
(* in use because the call that holds it prunes in its turn                 *)
(* (upload_and_adopt, get and adopt_local end in prune; a call that raises, *)
(* whose PUT left no slot, or that could not remove a victim, does not).    *)
Told(kinds) == Rows(kinds) \ acct.missed
CapHeld ==
  (/\ \A t \in Threads : At(t, "idle") /\ th[t].out \notin {"err", "unpruned"}
   /\ \E t \in Threads : th[t].out = "ok")
    => Weight(Told({"plain", "held"})) <= Cap \/ Told({"plain"}) = {}

(* What the account says, and what its caps allow.                          *)
AccountHolds == AccountIsTheDisk /\ RetainedFits /\ CapHeld

(* A reader is given a whole version, never older than the last write       *)
(* reported done: the cache implements ObjectStore.                         *)
Store == INSTANCE ObjectStore
NeverStale == Store!Spec

(* _invalidate_locked: "even if payload cleanup fails, `get` must download  *)
(* the remote truth": no reader is given less than a PUT reported done.     *)
InvalidatedIsDownloaded ==
  \A t \in Threads :
    At(t, "lease") /\ acked[Slot(t)] = remote[Slot(t)] => disk[Slot(t)].payload >= remote[Slot(t)]

=============================================================================
