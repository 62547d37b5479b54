----------------------------- MODULE ResultCache -----------------------------
(***************************************************************************)
(* The cache of handler results (ops/resultcache.py): execute, _restore,   *)
(* _store and prune over one directory per key. prune asks whether a key's *)
(* lock is held and then removes the directory without holding it, file by *)
(* file; a stored payload may rot on disk; the process may die.            *)
(***************************************************************************)
EXTENDS Naturals, FiniteSets

CONSTANTS
  Threads,   \* the ops threads
  Keys,      \* digests of (op, params, inputs, pack, image, ffmpeg)
  Cap,       \* OPS_RESULT_CACHE_MAX_GB, in entries
  MaxCalls,  \* bound: calls in a behaviour
  MaxFaults, \* bound: deaths of the process and payloads that rot
  Nobody

ResultAssumption ==
  /\ IsFiniteSet(Keys) /\ IsFiniteSet(Threads) /\ Nobody \notin Threads
  /\ {Cap, MaxCalls, MaxFaults} \subseteq Nat

VARIABLES
  slot,  \* per key: its payload ("no", "good", "rotten") and its meta.json
  lock,  \* _locks: the owner of each key's lock
  th,    \* per thread: place, key, its dst, the entries its prune has listed
  left   \* calls and faults left

vars == <<slot, lock, th, left>>

NoSlot  == [payload |-> "no", meta |-> FALSE]
Nowhere == [pc |-> "idle", key |-> Nobody, dst |-> "no", list |-> {}, victim |-> Nobody]

At(t, where)   == th[t].pc = where
Goes(t, where) == th' = [th EXCEPT ![t].pc = where]
Slot(t)        == slot[th[t].key]

-----------------------------------------------------------------------------
(* execute, for an op of the allowlist whose identity is known *)

Executes(t, k) ==
  /\ left.calls > 0 /\ (At(t, "idle") \/ At(t, "done"))
  /\ th' = [th EXCEPT ![t] = [Nowhere EXCEPT !.pc = "lock", !.key = k]]
  /\ left' = [left EXCEPT !.calls = @ - 1]
  /\ UNCHANGED <<slot, lock>>

Locks(t) ==
  /\ At(t, "lock") /\ lock[th[t].key] = Nobody
  /\ lock' = [lock EXCEPT ![th[t].key] = t] /\ Goes(t, "restore")
  /\ UNCHANGED <<slot, left>>

(* _restore: the meta, the payload's presence and size, before the copy. *)
Restores(t) ==
  /\ At(t, "restore")
  /\ Goes(t, IF Slot(t).meta /\ Slot(t).payload # "no" THEN "copy" ELSE "miss")
  /\ UNCHANGED <<slot, lock, left>>

(* Mutant of Copies: what was copied is not compared with the digest. *)
CopiesBlindly(t) ==
  /\ At(t, "copy")
  /\ \/ Slot(t).payload # "no" /\ th' = [th EXCEPT ![t].pc = "unlock", ![t].dst = Slot(t).payload]
     \/ Slot(t).payload = "no" /\ Goes(t, "miss")
  /\ UNCHANGED <<slot, lock, left>>

(* The payload may have been pruned since; a file once open is read to its  *)
(* end. The bytes copied are hashed, and renamed to dst when they are right. *)
Copies(t) ==
  /\ At(t, "copy")
  /\ \/ Slot(t).payload = "good" /\ th' = [th EXCEPT ![t].pc = "unlock", ![t].dst = "good"]
     \/ Goes(t, "miss")  \* another digest, no file, or an I/O error
  /\ UNCHANGED <<slot, lock, left>>

(* What could not be restored is removed, and the handler runs. *)
Recomputes(t) ==
  /\ At(t, "miss")
  /\ slot' = [slot EXCEPT ![th[t].key] = NoSlot]
  /\ \/ th' = [th EXCEPT ![t].pc = "store", ![t].dst = "good"]
     \/ Goes(t, "raise")  \* the handler raises
  /\ UNCHANGED <<lock, left>>

(* _store: payload and meta in a .part directory, the old slot removed, the *)
(* rename. A failure anywhere removes the slot; the result stays valid.     *)
Stores(t) ==
  /\ At(t, "store")
  /\ \/ slot' = [slot EXCEPT ![th[t].key] = [payload |-> "good", meta |-> TRUE]] /\ Goes(t, "list")
     \/ slot' = [slot EXCEPT ![th[t].key] = NoSlot] /\ Goes(t, "unlock")
  /\ UNCHANGED <<lock, left>>

Returns(t) ==
  /\ At(t, "unlock") \/ At(t, "raise")
  /\ lock' = [lock EXCEPT ![th[t].key] = Nobody]
  /\ Goes(t, IF At(t, "raise") THEN "idle" ELSE "done")
  /\ UNCHANGED <<slot, left>>

-----------------------------------------------------------------------------
(* prune, after the lock is released *)

(* _entries: complete slots whose lock nobody holds now. *)
Lists(t) ==
  /\ At(t, "list")
  /\ LET free == [lock EXCEPT ![th[t].key] = Nobody] IN
       /\ lock' = free
       /\ th' = [th EXCEPT ![t].pc = "prune",
                   ![t].list = {k \in Keys : free[k] = Nobody /\ slot[k].payload # "no" /\ slot[k].meta}]
  /\ UNCHANGED <<slot, left>>

(* Oldest first until the rest fits; which is the oldest is left open. *)
Chooses(t) ==
  /\ At(t, "prune")
  /\ \/ Cardinality(th[t].list) <= Cap /\ th' = [th EXCEPT ![t].pc = "done", ![t].list = {}]
     \/ /\ Cardinality(th[t].list) > Cap
        /\ \E k \in th[t].list :
             th' = [th EXCEPT ![t].list = @ \ {k}, ![t].victim = k, ![t].pc = "discard"]
  /\ UNCHANGED <<slot, lock, left>>

(* _discard is a rmtree: it removes what it finds, one file at a time, and  *)
(* another thread may be restoring, or have stored, this key by now.        *)
Discards(t) ==
  LET v == th[t].victim IN
  /\ At(t, "discard")
  /\ \/ slot[v].payload # "no" /\ slot' = [slot EXCEPT ![v].payload = "no"] /\ UNCHANGED th
     \/ slot[v].meta /\ slot' = [slot EXCEPT ![v].meta = FALSE] /\ UNCHANGED th
     \/ th' = [th EXCEPT ![t].pc = "prune", ![t].victim = Nobody] /\ UNCHANGED slot
  /\ UNCHANGED <<lock, left>>

-----------------------------------------------------------------------------
Rots(k) ==
  /\ left.faults > 0 /\ slot[k].payload = "good"
  /\ slot' = [slot EXCEPT ![k].payload = "rotten"]
  /\ left' = [left EXCEPT !.faults = @ - 1]
  /\ UNCHANGED <<lock, th>>

(* A death during a rename or a rmtree leaves the slot as it is then. *)
Dies ==
  /\ left.faults > 0 /\ \E t \in Threads : th[t].pc \notin {"idle", "done"}
  /\ lock' = [k \in Keys |-> Nobody] /\ th' = [t \in Threads |-> Nowhere]
  /\ left' = [left EXCEPT !.faults = @ - 1]
  /\ UNCHANGED slot

Resting == left.calls = 0 /\ \A t \in Threads : th[t].pc \in {"idle", "done"}
Rests   == Resting /\ UNCHANGED vars

Starts(n, faults) ==
  /\ slot = [k \in Keys |-> NoSlot] /\ lock = [k \in Keys |-> Nobody]
  /\ th = [t \in Threads |-> Nowhere]
  /\ left = [calls |-> n, faults |-> faults]

Init == Starts(MaxCalls, MaxFaults)

Proceeds(t) ==
  \/ Locks(t) \/ Restores(t) \/ Copies(t) \/ Recomputes(t) \/ Stores(t) \/ Returns(t)
  \/ Lists(t) \/ Chooses(t) \/ Discards(t)

Next == Dies \/ Rests \/ (\E k \in Keys : Rots(k)) \/ \E t \in Threads : Proceeds(t) \/ \E k \in Keys : Executes(t, k)

Spec == Init /\ [][Next]_vars /\ \A t \in Threads : WF_vars(Proceeds(t))

-----------------------------------------------------------------------------
(* A call that returns has the handler's own bytes in dst, restored or      *)
(* computed, whatever was pruned, stored again or rotten under it; and the  *)
(* thread in a call owns its key's lock until it has restored or stored.    *)
DeliveredIsExact ==
  \A t \in Threads :
    /\ th[t].pc \in {"unlock", "list", "prune", "discard", "done"} => th[t].dst = "good"
    /\ th[t].pc \in {"restore", "copy", "miss", "store", "unlock", "raise"} => lock[th[t].key] = t

(* Every call ends. *)
ExecuteEnds == \A t \in Threads : th[t].pc \notin {"idle", "done"} ~> th[t].pc \in {"idle", "done"}

=============================================================================
