--------------------------- MODULE InputCacheProofs ---------------------------
(***************************************************************************)
(* What is proved of the input cache, for any threads, keys, sizes and     *)
(* caps: the only copy of an object is never deleted; the account outside  *)
(* a slot's lock is the disk, what is retained fits its share, and when    *)
(* the calls are over the cache fits its cap or holds nothing that may be  *)
(* deleted; and, when no unlink of an invalidation's sentinel or payload   *)
(* fails, the cache implements ObjectStore.                                *)
(*                                                                         *)
(* The invariant says who holds what, what is so of the slot a thread      *)
(* holds at each place of a call, what a walk under way may have seen,     *)
(* what the holder of the retention lock was granted, and who still owes   *)
(* the prune of an object.                                                 *)
(***************************************************************************)
EXTENDS InputCache, Sums, TLAPS

-----------------------------------------------------------------------------
(* The places of a thread, by what is so there *)

Places == {"idle", "note", "look", "heal", "fetch", "seal", "lease",
           "put", "unseal", "unmark", "swap", "put seal", "reported",
           "drop done", "drop payload", "drop mark", "invalidated",
           "rows", "release", "old mark", "old tree", "old freed",
           "adopt", "own unseal", "own swap", "own mark", "own seal",
           "batch", "evict", "check", "remove", "evicted", "due"}
Unlocked  == {"idle", "rows", "release", "adopt", "batch", "evict", "due"}
Noted     == {"fetch", "lease", "reported", "invalidated", "old freed", "evicted"}
Retaining == {"rows", "release", "old mark", "old tree", "old freed",
              "adopt", "own unseal", "own swap", "own mark", "own seal"}
Releasing == {"release", "old mark", "old tree", "old freed"}
Returning == {"reported", "drop done", "drop payload", "drop mark", "invalidated"}
Unmarked  == {"heal", "fetch", "seal", "swap", "put seal", "old tree", "remove"}
Landed    == {"unseal", "unmark", "swap", "put seal"} \cup Returning
Steady    == {"look", "put", "seal"} \cup Noted

SlotType == [payload : Nat, done : {"no", "ok", "torn"}, mark : {"no", "torn"} \cup Holders]
RowType  == {"none", "plain", "held"}
AcctType == [live : BOOLEAN, rows : [Keys -> RowType], reconciling : BOOLEAN, touched : SUBSET Keys,
             missed : SUBSET Keys]
PlaceType == [pc : Places, key : Keys \cup {Nobody}, slot : Keys \cup {Nobody},
              todo : SUBSET Keys, tried : SUBSET Keys, then : Noted \cup {"idle"},
              out : {"none", "ok", "err", "unpruned"}]

CacheTypes ==
  /\ disk \in [Keys -> SlotType]
  /\ remote \in [Keys -> Nat] /\ latest \in [Keys -> Nat]
  /\ acked \in [Keys -> Nat] /\ leased \in [Keys -> Nat]
  /\ lock \in [Keys -> Threads \cup {Nobody}] /\ retain \in Threads \cup {Nobody}
  /\ acct \in AcctType
  /\ walk = [on |-> walk.on, seen |-> walk.seen] /\ walk.on \in BOOLEAN /\ DOMAIN walk.seen \subseteq Keys
  /\ \A k \in DOMAIN walk.seen : walk.seen[k] \in RowType
  /\ th \in [Threads -> PlaceType]
  /\ proc \in [enabled : BOOLEAN, holder : Holders, ops : Nat]

-----------------------------------------------------------------------------
(* The inductive invariant *)

(* Where the call is, the _note it is in apart. *)
Place(t) == IF th[t].pc = "note" THEN th[t].then ELSE th[t].pc

(* A place off Unlocked holds the lock of the slot in hand, and no other.   *)
LockInv(t) ==
  /\ th[t].pc \notin Unlocked => th[t].slot \in Keys /\ lock[th[t].slot] = t
  /\ \A k \in Keys : lock[k] = t => th[t].pc \notin Unlocked /\ th[t].slot = k
  /\ th[t].pc = "note" => th[t].then \in Noted
RetainInv(t) ==
  /\ Place(t) \in Retaining => retain = t /\ th[t].key \in Keys
  /\ Place(t) \in {"rows", "release", "adopt"} => th[t].slot = th[t].key
  /\ retain = t => Place(t) \in Retaining \cup Returning

(* The promise of ObjectStore needs an invalidation to remove what it made  *)
(* stale.                                                                   *)
Unlinks     == Fragile \cap {"drop done", "drop payload"} = {}
Readable(d)    == d.payload # 0 /\ (d.mark # "no" \/ d.done = "ok")

(* An object at any time: its slot d, and its versions reported written,    *)
(* in the store and last written.                                           *)
Sound(d, a, r, l) ==
  /\ a <= l /\ r <= l /\ d.payload <= l
  /\ a > r => d.payload >= a /\ d.mark # "no"
  /\ Unlinks /\ Readable(d) => d.payload >= a
ObjectInv(k) == Sound(disk[k], acked[k], remote[k], latest[k])

(* ... and while a thread at place p has it locked; keeper: who retains.     *)
Fit(p, d, a, r, l, keeper, t) ==
  /\ p \in Unmarked => d.mark = "no"
  /\ p \in Landed => IF keeper = t THEN p = "reported" \/ a <= r ELSE r = l
  /\ p = "seal" => d.payload # 0 /\ d.payload >= a
  /\ p = "lease" => d.payload # 0 /\ (Unlinks => d.payload >= a)
  /\ p \in {"put seal", "own mark", "own seal", "reported"} => d.payload = l
  /\ p = "own seal" \/ (p = "reported" /\ keeper = t) => d.mark # "no"
  /\ Unlinks /\ p \in {"drop mark", "invalidated"} => d.payload = 0
  /\ p \in {"old mark", "old tree"} => a <= r
HoldInv(t) ==
  LET k == th[t].slot
  IN th[t].pc \notin Unlocked => Fit(Place(t), disk[k], acked[k], remote[k], latest[k], retain, t)

(* What is still to be released is promised by nobody but the store.        *)
TodoInv(t) == Place(t) \in Releasing => \A j \in th[t].todo : acked[j] <= remote[j]

(* The account, and what a walk has seen, of a slot nobody is changing. A   *)
(* get whose payload is in and whose sentinel is not has told neither.      *)
Still(k)   == lock[k] = Nobody \/ th[lock[k]].pc \in Steady
Untold(k)  == k \in acct.missed \/ (lock[k] # Nobody /\ th[lock[k]].pc = "seal")
Counts(k, row) == row = DiskRow(k) \/ (row = "none" /\ DiskRow(k) = "plain" /\ Untold(k))
RowInv(k) ==
  /\ acct.live /\ Still(k) => Counts(k, acct.rows[k])
  /\ walk.on /\ k \in DOMAIN walk.seen /\ Still(k) =>
       Counts(k, walk.seen[k]) \/ (acct.live /\ k \in acct.touched)
  /\ k \in acct.missed /\ Still(k) => DiskRow(k) # "held"
WalkInv ==
  /\ walk.on /\ acct.live => acct.reconciling
  /\ ~acct.live => acct.touched = {}

ThreadInv(t) == LockInv(t) /\ RetainInv(t) /\ HoldInv(t) /\ TodoInv(t)
CacheInv ==
  /\ CacheTypes /\ WalkInv
  /\ \A t \in Threads : ThreadInv(t)
  /\ \A k \in Keys : ObjectInv(k) /\ RowInv(k)

-----------------------------------------------------------------------------
(* What a step of one thread leaves to the others *)

Moved(t) == th' \in [Threads -> PlaceType] /\ \A u \in Threads \ {t} : th'[u] = th[u]

Frame(t) ==
  /\ Moved(t)
  /\ \A u \in Threads \ {t} : retain' = u <=> retain = u
  /\ \A k \in Keys : lock[k] # t =>
       /\ lock'[k] = lock[k] \/ (lock[k] = Nobody /\ lock'[k] = t)
       /\ disk'[k] = disk[k] /\ remote'[k] = remote[k] /\ latest'[k] = latest[k]
       /\ acked'[k] \in {0, acked[k]}
       /\ acct'.rows[k] = acct.rows[k] /\ (k \in acct'.missed <=> k \in acct.missed)
  /\ \A k \in Keys : lock[k] = t =>
       /\ lock'[k] \in {t, Nobody}
       /\ retain # t /\ acked[k] <= remote[k] => acked'[k] <= remote'[k]
  /\ acct'.live = acct.live
  /\ \/ walk' = walk /\ acct.touched \subseteq acct'.touched
     \/ DOMAIN walk'.seen = {}

LEMMA FitLower ==
  ASSUME NEW p, NEW d, NEW a \in Nat, NEW b \in {0, a}, NEW r \in Nat, NEW l \in Nat, NEW q, NEW u,
         d.payload \in Nat, Fit(p, d, a, r, l, q, u)
  PROVE  Fit(p, d, b, r, l, q, u)
<1>1. b <= a /\ b \in Nat
  OBVIOUS
<1>2. /\ a <= r => b <= r
      /\ d.payload >= a => d.payload >= b
  BY <1>1
<1> QED BY <1>2 DEF Fit

LEMMA SoundLower ==
  ASSUME NEW d, NEW a \in Nat, NEW b \in {0, a}, NEW r \in Nat, NEW l \in Nat,
         d.payload \in Nat, Sound(d, a, r, l)
  PROVE  Sound(d, b, r, l)
BY DEF Sound

(* A step that keeps to its frame has to see to its own thread and slot.    *)
LEMMA StepKeeps ==
  ASSUME CacheInv, NEW t \in Threads, CacheTypes', WalkInv', Frame(t), ThreadInv(t)',
         \A k \in Keys : lock[k] = t => ObjectInv(k)' /\ RowInv(k)'
  PROVE  CacheInv'
<1> USE DEF CacheInv
<1>1. ASSUME NEW u \in Threads, u # t PROVE ThreadInv(u)'
  <2>1. th'[u] = th[u] /\ (retain' = u <=> retain = u) /\ u # Nobody
    BY <1>1, CacheAssumption DEF Frame, Moved
  <2>2. ThreadInv(u)
    OBVIOUS
  <2>3. LockInv(u)'
    <3>1. \A k \in Keys : lock[k] = u => lock'[k] = u
      BY <1>1, <2>1 DEF Frame
    <3>2. \A k \in Keys : lock'[k] = u => lock[k] = u
      BY <1>1, <2>1 DEF Frame
    <3> QED BY <2>1, <2>2, <3>1, <3>2 DEF ThreadInv, LockInv
  <2>4. RetainInv(u)'
    BY <2>1, <2>2 DEF ThreadInv, RetainInv, Place
  <2>5. TodoInv(u)'
    <3> SUFFICES ASSUME Place(u) \in Releasing, NEW j \in th[u].todo PROVE acked'[j] <= remote'[j]
      BY <2>1 DEF TodoInv, Place
    <3>1. acked[j] <= remote[j]
      BY <2>2 DEF ThreadInv, TodoInv
    <3>2. retain = u
      BY <2>2 DEF ThreadInv, RetainInv, Releasing, Retaining
    <3>3. j \in Keys
      BY DEF CacheTypes, PlaceType
    <3>4. acked[j] \in Nat /\ remote[j] \in Nat
      BY <3>3 DEF CacheTypes
    <3> QED BY <1>1, <3>1, <3>2, <3>3, <3>4 DEF Frame
  <2>6. HoldInv(u)'
    <3> SUFFICES ASSUME th[u].pc \notin Unlocked
                 PROVE  HoldInv(u)'
      BY <2>1 DEF HoldInv
    <3> DEFINE k == th[u].slot
    <3>1. k \in Keys /\ lock[k] = u
      BY <2>2 DEF ThreadInv, LockInv
    <3>2. /\ disk'[k] = disk[k] /\ remote'[k] = remote[k] /\ latest'[k] = latest[k]
          /\ acked'[k] \in {0, acked[k]}
      BY <1>1, <3>1 DEF Frame
    <3>3. acked[k] \in Nat /\ remote[k] \in Nat /\ latest[k] \in Nat /\ disk[k].payload \in Nat
      BY <3>1 DEF CacheTypes, SlotType
    <3>4. Fit(Place(u), disk[k], acked[k], remote[k], latest[k], retain, u)
      BY <2>2 DEF ThreadInv, HoldInv
    <3>5. Fit(Place(u), disk[k], acked'[k], remote[k], latest[k], retain, u)
      <4> HIDE DEF CacheInv, Place
      <4> QED BY <3>2, <3>3, <3>4, FitLower
    <3>6. Fit(Place(u), disk'[k], acked'[k], remote'[k], latest'[k], retain', u)
      BY <2>1, <3>2, <3>5 DEF Fit
    <3>7. Place(u)' = Place(u)
      BY <2>1 DEF Place
    <3> HIDE DEF Place
    <3> QED BY <2>1, <3>6, <3>7 DEF HoldInv
  <2> QED BY <2>3, <2>4, <2>5, <2>6 DEF ThreadInv
<1>2. ASSUME NEW k \in Keys, lock[k] # t PROVE ObjectInv(k)' /\ RowInv(k)'
  <2>1. /\ disk'[k] = disk[k] /\ remote'[k] = remote[k] /\ latest'[k] = latest[k]
        /\ acked'[k] \in {0, acked[k]} /\ acct'.rows[k] = acct.rows[k]
        /\ lock'[k] = lock[k] \/ lock[k] = Nobody
    BY <1>2 DEF Frame
  <2>2. acked[k] \in Nat /\ remote[k] \in Nat /\ latest[k] \in Nat /\ disk[k].payload \in Nat
    BY <1>2 DEF CacheTypes, SlotType
  <2>3. ObjectInv(k)'
    BY <2>1, <2>2, SoundLower DEF ObjectInv
  <2>4. Still(k)' => Still(k)
    <3>1. CASE lock[k] = Nobody
      BY <3>1 DEF Still
    <3>2. CASE lock[k] # Nobody
      <4>1. lock[k] \in Threads \ {t} /\ lock'[k] = lock[k]
        BY <1>2, <2>1, <3>2 DEF CacheTypes
      <4>2. th'[lock[k]] = th[lock[k]]
        BY <4>1 DEF Frame, Moved
      <4> QED BY <4>1, <4>2 DEF Still
    <3> QED BY <3>1, <3>2
  <2>5. DiskRow(k)' = DiskRow(k)
    BY <2>1 DEF DiskRow
  <2>6. k \in acct'.missed <=> k \in acct.missed
    BY <1>2 DEF Frame
  <2>7. Untold(k) => Untold(k)'
    <3>1. CASE lock[k] # Nobody /\ th[lock[k]].pc = "seal"
      <4>1. lock[k] \in Threads \ {t} /\ lock'[k] = lock[k]
        BY <1>2, <2>1, <3>1 DEF CacheTypes
      <4>2. th'[lock[k]] = th[lock[k]]
        BY <4>1 DEF Frame, Moved
      <4> QED BY <3>1, <4>1, <4>2 DEF Untold
    <3> QED BY <2>6, <3>1 DEF Untold
  <2>8. RowInv(k)
    BY <1>2
  <2> HIDE DEF DiskRow, Still, Untold
  <2>9. RowInv(k)'
    BY <2>1, <2>4, <2>5, <2>6, <2>7, <2>8 DEF RowInv, Counts, Frame
  <2> QED BY <2>3, <2>9
<1> QED BY <1>1, <1>2

-----------------------------------------------------------------------------
(* Where a thread goes *)

Keeps(t) == th'[t].slot = th[t].slot /\ th'[t].key = th[t].key /\ th'[t].todo = th[t].todo

LEMMA Going ==
  ASSUME CacheTypes, NEW t \in Threads, NEW w \in Places, Goes(t, w)
  PROVE  Moved(t) /\ Keeps(t) /\ th'[t].pc = w /\ th'[t].then = th[t].then
<1>1. th \in [Threads -> PlaceType] /\ th[t] \in PlaceType
  BY DEF CacheTypes
<1>2. [th[t] EXCEPT !.pc = w] \in PlaceType
  BY <1>1 DEF PlaceType
<1>3. th' = [th EXCEPT ![t] = [th[t] EXCEPT !.pc = w]]
  BY DEF Goes
<1>4. th' \in [Threads -> PlaceType] /\ th'[t] = [th[t] EXCEPT !.pc = w]
  BY <1>1, <1>2, <1>3
<1> QED BY <1>1, <1>3, <1>4 DEF Moved, Keeps, PlaceType

LEMMA Noting ==
  ASSUME CacheTypes, NEW t \in Threads, NEW w \in Noted, Notes(t, w)
  PROVE  Moved(t) /\ Keeps(t) /\ th'[t].pc = "note" /\ th'[t].then = w
<1>1. th \in [Threads -> PlaceType] /\ th[t] \in PlaceType
  BY DEF CacheTypes
<1>2. [th[t] EXCEPT !.pc = "note", !.then = w] \in PlaceType
  BY <1>1 DEF PlaceType, Places
<1>3. th' = [th EXCEPT ![t] = [th[t] EXCEPT !.pc = "note", !.then = w]]
  BY <1>1 DEF Notes
<1>4. th' \in [Threads -> PlaceType] /\ th'[t] = [th[t] EXCEPT !.pc = "note", !.then = w]
  BY <1>1, <1>2, <1>3
<1> QED BY <1>1, <1>3, <1>4 DEF Moved, Keeps, PlaceType

(* _note after a removal that failed: the thread remembers how. *)
Tells(t, w) ==
  \E out \in {"none", "ok", "err", "unpruned"} :
    th' = [th EXCEPT ![t].pc = "note", ![t].then = w, ![t].out = out]

LEMMA Telling ==
  ASSUME CacheTypes, NEW t \in Threads, NEW w \in Noted, Tells(t, w)
  PROVE  Moved(t) /\ Keeps(t) /\ th'[t].pc = "note" /\ th'[t].then = w
<1>1. th \in [Threads -> PlaceType] /\ th[t] \in PlaceType
  BY DEF CacheTypes
<1>2. PICK out \in {"none", "ok", "err", "unpruned"} :
        th' = [th EXCEPT ![t].pc = "note", ![t].then = w, ![t].out = out]
  BY DEF Tells
<1>3. [th[t] EXCEPT !.pc = "note", !.then = w, !.out = out] \in PlaceType
  BY <1>1 DEF PlaceType, Places
<1>4. th' = [th EXCEPT ![t] = [th[t] EXCEPT !.pc = "note", !.then = w, !.out = out]]
  BY <1>1, <1>2
<1>5. th' \in [Threads -> PlaceType] /\ th'[t] = [th[t] EXCEPT !.pc = "note", !.then = w, !.out = out]
  BY <1>1, <1>3, <1>4
<1> QED BY <1>1, <1>4, <1>5 DEF Moved, Keeps, PlaceType

LEMMA Leaving ==
  ASSUME CacheTypes, NEW t \in Threads,
         Prunes(t) \/ \E out \in {"ok", "err", "unpruned"} : Ends(t, out)
  PROVE  Moved(t) /\ th'[t].pc \in {"idle", "batch"}
<1>1. th \in [Threads -> PlaceType]
  BY DEF CacheTypes
<1>2. PICK r \in PlaceType : r.pc \in {"idle", "batch"} /\ th' = [th EXCEPT ![t] = r]
  <2>1. CASE Prunes(t)
    <3> DEFINE r == [Nowhere EXCEPT !.pc = "batch"]
    <3>1. r \in PlaceType /\ r.pc = "batch"
      BY DEF Nowhere, PlaceType, Places
    <3> QED BY <2>1, <3>1 DEF Prunes
  <2>2. ASSUME NEW out \in {"ok", "err", "unpruned"}, Ends(t, out)
        PROVE  \E r \in PlaceType : r.pc \in {"idle", "batch"} /\ th' = [th EXCEPT ![t] = r]
    <3> DEFINE r == [Nowhere EXCEPT !.out = out]
    <3>1. r \in PlaceType /\ r.pc = "idle"
      BY DEF Nowhere, PlaceType, Places
    <3> QED BY <2>2, <3>1 DEF Ends
  <2> QED BY <2>1, <2>2
<1> QED BY <1>1, <1>2 DEF Moved

(* One field of the slot in hand. *)
LEMMA Changed ==
  ASSUME CacheTypes, NEW t \in Threads, th[t].slot \in Keys
  PROVE  LET s == th[t].slot IN
         /\ \A v \in Nat : Changes(t, "payload", v) =>
              /\ disk' \in [Keys -> SlotType] /\ \A k \in Keys \ {s} : disk'[k] = disk[k]
              /\ disk'[s].payload = v /\ disk'[s].done = disk[s].done /\ disk'[s].mark = disk[s].mark
         /\ \A v \in {"no", "ok", "torn"} : Changes(t, "done", v) =>
              /\ disk' \in [Keys -> SlotType] /\ \A k \in Keys \ {s} : disk'[k] = disk[k]
              /\ disk'[s].done = v /\ disk'[s].payload = disk[s].payload /\ disk'[s].mark = disk[s].mark
         /\ \A v \in {"no", "torn"} \cup Holders : Changes(t, "mark", v) =>
              /\ disk' \in [Keys -> SlotType] /\ \A k \in Keys \ {s} : disk'[k] = disk[k]
              /\ disk'[s].mark = v /\ disk'[s].payload = disk[s].payload /\ disk'[s].done = disk[s].done
<1> DEFINE s == th[t].slot
<1>1. disk \in [Keys -> SlotType] /\ s \in Keys
  BY DEF CacheTypes
<1>2. ASSUME NEW v \in Nat, Changes(t, "payload", v)
      PROVE  /\ disk' \in [Keys -> SlotType] /\ \A k \in Keys \ {s} : disk'[k] = disk[k]
             /\ disk'[s].payload = v /\ disk'[s].done = disk[s].done /\ disk'[s].mark = disk[s].mark
  BY <1>1, <1>2 DEF Changes, SlotType, Slot
<1>3. ASSUME NEW v \in {"no", "ok", "torn"}, Changes(t, "done", v)
      PROVE  /\ disk' \in [Keys -> SlotType] /\ \A k \in Keys \ {s} : disk'[k] = disk[k]
             /\ disk'[s].done = v /\ disk'[s].payload = disk[s].payload /\ disk'[s].mark = disk[s].mark
  BY <1>1, <1>3 DEF Changes, SlotType, Slot
<1>4. ASSUME NEW v \in {"no", "torn"} \cup Holders, Changes(t, "mark", v)
      PROVE  /\ disk' \in [Keys -> SlotType] /\ \A k \in Keys \ {s} : disk'[k] = disk[k]
             /\ disk'[s].mark = v /\ disk'[s].payload = disk[s].payload /\ disk'[s].done = disk[s].done
  BY <1>1, <1>4 DEF Changes, SlotType, Slot
<1> QED BY <1>2, <1>3, <1>4

-----------------------------------------------------------------------------
(* The kinds of steps *)

(* Where nobody is changing the slot in hand s it was not changed, or a get *)
(* has renamed its download in and has the sentinel to write.               *)
Stays(t, w, s) ==
  w \in Steady =>
    /\ th[t].pc \in Steady \ {"seal"}
    /\ \/ disk'[s] = disk[s]
       \/ w = "seal" /\ DiskRow(s) \in {"none", "plain"} /\ DiskRow(s)' \in {DiskRow(s), "plain"}

(* A step under the lock of the slot in hand that keeps it. *)
LEMMA HeldStep ==
  ASSUME CacheInv, NEW t \in Threads, CacheTypes', Moved(t), Keeps(t),
         UNCHANGED <<lock, retain, acct, walk>>,
         th[t].pc \notin Unlocked, th'[t].pc \notin Unlocked,
         th'[t].pc = "note" => th'[t].then \in Noted,
         NEW s \in Keys, s = th[t].slot,
         \A k \in Keys \ {s} : /\ disk'[k] = disk[k] /\ acked'[k] = acked[k]
                               /\ remote'[k] = remote[k] /\ latest'[k] = latest[k],
         Sound(disk'[s], acked'[s], remote'[s], latest'[s]),
         Fit(Place(t)', disk'[s], acked'[s], remote'[s], latest'[s], retain, t),
         acked[s] <= remote[s] => acked'[s] <= remote'[s],
         Stays(t, th'[t].pc, s),
         Place(t)' \in Retaining => Place(t) \in Retaining,
         Place(t)' \in Releasing => Place(t) \in Releasing,
         Place(t) \in Retaining \cup Returning => Place(t)' \in Retaining \cup Returning
  PROVE  CacheInv'
<1>1. ThreadInv(t) /\ t # Nobody /\ ObjectInv(s) /\ RowInv(s) /\ WalkInv
  BY CacheAssumption DEF CacheInv
<1>2. \A k \in Keys : lock[k] = t <=> k = s
  BY <1>1 DEF ThreadInv, LockInv
<1>3. Frame(t)
  <2>1. \A k \in Keys : acked[k] \in {0, acked[k]}
    OBVIOUS
  <2> QED BY <1>2, <2>1 DEF Frame
<1>4. WalkInv'
  BY <1>1 DEF WalkInv
<1>5. ThreadInv(t)'
  <2>1. LockInv(t)'
    BY <1>1 DEF ThreadInv, LockInv, Keeps
  <2>2. RetainInv(t)'
    <3>1. Place(t)' \notin {"rows", "release", "adopt"}
      BY DEF Place, Unlocked, Noted
    <3>2. th'[t].key = th[t].key /\ retain' = retain
      BY DEF Keeps
    <3> HIDE DEF Place
    <3> QED BY <1>1, <3>1, <3>2 DEF ThreadInv, RetainInv
  <2>3. HoldInv(t)'
    BY DEF HoldInv, Keeps
  <2>4. TodoInv(t)'
    <3>1. th[t].todo \subseteq Keys /\ th'[t].todo = th[t].todo
      BY DEF CacheInv, CacheTypes, PlaceType, Keeps
    <3>2. Place(t) \in Releasing => \A j \in th[t].todo : acked[j] <= remote[j]
      BY <1>1 DEF ThreadInv, TodoInv
    <3> HIDE DEF Place
    <3> QED BY <3>1, <3>2 DEF TodoInv
  <2> QED BY <2>1, <2>2, <2>3, <2>4 DEF ThreadInv
<1>6. ObjectInv(s)'
  BY DEF ObjectInv
<1>7. RowInv(s)'
  <2>1. lock[s] = t /\ lock' = lock /\ t # Nobody
    BY <1>1, <1>2
  <2>2. disk'[s] = disk[s] => DiskRow(s)' = DiskRow(s)
    BY DEF DiskRow
  <2>3. Still(s)' <=> th'[t].pc \in Steady
    BY <2>1 DEF Still
  <2>4. Still(s) <=> th[t].pc \in Steady
    BY <2>1 DEF Still
  <2>5. Untold(s) <=> s \in acct.missed \/ th[t].pc = "seal"
    BY <2>1 DEF Untold
  <2>6. Untold(s)' <=> s \in acct.missed \/ th'[t].pc = "seal"
    BY <2>1 DEF Untold
  <2> HIDE DEF Still, DiskRow, Untold
  <2>7. Still(s)' => /\ Still(s) /\ (Untold(s) => s \in acct.missed)
                     /\ \/ DiskRow(s)' = DiskRow(s)
                        \/ Untold(s)' /\ DiskRow(s) \in {"none", "plain"}
                           /\ DiskRow(s)' \in {DiskRow(s), "plain"}
    BY <2>2, <2>3, <2>4, <2>5, <2>6 DEF Stays
  <2>8. Still(s)' => \A row : Counts(s, row) =>
          row = DiskRow(s)' \/ (row = "none" /\ DiskRow(s)' = "plain" /\ Untold(s)')
    BY <2>6, <2>7 DEF Counts
  <2>9. Still(s)' /\ s \in acct.missed /\ DiskRow(s) # "held" => DiskRow(s)' # "held"
    BY <2>7
  <2> QED BY <1>1, <2>7, <2>8, <2>9 DEF RowInv, Counts
<1> QED BY <1>2, <1>3, <1>4, <1>5, <1>6, <1>7, StepKeeps

(* A step that gives the lock back. *)
LEMMA FreeStep ==
  ASSUME CacheInv, NEW t \in Threads, CacheTypes', Moved(t),
         UNCHANGED <<disk, remote, latest, acct, walk>>,
         th[t].pc \in Steady \ {"seal"}, th'[t].pc \in Unlocked,
         NEW s \in Keys, s = th[t].slot, Frees(s),
         \A u \in Threads \ {t} : retain' = u <=> retain = u,
         \A k \in Keys \ {s} : acked'[k] = acked[k],
         Sound(disk[s], acked'[s], remote[s], latest[s]),
         retain # t /\ acked[s] <= remote[s] => acked'[s] <= remote[s],
         RetainInv(t)', TodoInv(t)'
  PROVE  CacheInv'
<1>1. ThreadInv(t) /\ t # Nobody /\ RowInv(s) /\ WalkInv /\ lock \in [Keys -> Threads \cup {Nobody}]
  BY CacheAssumption DEF CacheInv, CacheTypes
<1>2. \A k \in Keys : lock[k] = t <=> k = s
  BY <1>1 DEF ThreadInv, LockInv, Steady, Unlocked, Noted
<1>3. lock'[s] = Nobody /\ \A k \in Keys \ {s} : lock'[k] = lock[k]
  BY <1>1 DEF Frees
<1>4. Frame(t)
  <2>1. \A k \in Keys : acked[k] \in {0, acked[k]}
    OBVIOUS
  <2> QED BY <1>2, <1>3, <2>1 DEF Frame
<1>5. WalkInv'
  BY <1>1 DEF WalkInv
<1>6. ThreadInv(t)'
  <2>1. LockInv(t)'
    <3>1. \A k \in Keys : lock'[k] # t
      BY <1>1, <1>2, <1>3
    <3> QED BY <3>1 DEF LockInv, Unlocked
  <2>2. HoldInv(t)'
    BY DEF HoldInv
  <2> QED BY <2>1, <2>2 DEF ThreadInv
<1>7. ObjectInv(s)'
  BY DEF ObjectInv
<1>8. RowInv(s)'
  <2>1. Still(s) /\ DiskRow(s)' = DiskRow(s)
    BY <1>2 DEF Still, DiskRow
  <2>2. Untold(s) => Untold(s)'
    BY <1>2 DEF Untold
  <2> HIDE DEF Still, DiskRow, Untold
  <2> QED BY <1>1, <2>1, <2>2 DEF RowInv, Counts
<1> QED BY <1>2, <1>4, <1>5, <1>6, <1>7, <1>8, StepKeeps

(* A step that takes a free slot's lock. *)
LEMMA TakeStep ==
  ASSUME CacheInv, NEW t \in Threads, CacheTypes', Moved(t),
         UNCHANGED <<disk, remote, latest, acked, retain, acct, walk>>,
         th[t].pc \in Unlocked, th'[t].pc \notin Unlocked, th'[t].pc # "note",
         NEW s \in Keys, th'[t].slot = s, Takes(t, s),
         Fit(th'[t].pc, disk[s], acked[s], remote[s], latest[s], retain, t),
         RetainInv(t)', TodoInv(t)'
  PROVE  CacheInv'
<1>1. ThreadInv(t) /\ t # Nobody /\ WalkInv /\ lock \in [Keys -> Threads \cup {Nobody}]
  BY CacheAssumption DEF CacheInv, CacheTypes
<1>2. \A k \in Keys : lock[k] # t
  BY <1>1 DEF ThreadInv, LockInv
<1>3. lock[s] = Nobody /\ lock'[s] = t /\ \A k \in Keys \ {s} : lock'[k] = lock[k]
  BY <1>1 DEF Takes
<1>4. Frame(t)
  <2>1. \A k \in Keys : acked[k] \in {0, acked[k]}
    OBVIOUS
  <2> QED BY <1>2, <1>3, <2>1 DEF Frame
<1>5. WalkInv'
  BY <1>1 DEF WalkInv
<1>6. ThreadInv(t)'
  <2>1. LockInv(t)'
    BY <1>2, <1>3 DEF LockInv
  <2>2. HoldInv(t)'
    BY DEF HoldInv, Place
  <2> QED BY <2>1, <2>2 DEF ThreadInv
<1> QED BY <1>2, <1>4, <1>5, <1>6, StepKeeps

(* A step of a thread that holds no slot, and takes none. *)
LEMMA BareStep ==
  ASSUME CacheInv, NEW t \in Threads, CacheTypes', Moved(t),
         UNCHANGED <<disk, remote, latest, lock>>,
         th[t].pc \in Unlocked, th'[t].pc \in Unlocked,
         \A u \in Threads \ {t} : retain' = u <=> retain = u,
         \A k \in Keys : acked'[k] \in {0, acked[k]} /\ acct'.rows[k] = acct.rows[k],
         acct'.live = acct.live, acct'.missed = acct.missed, WalkInv',
         UNCHANGED <<acct, walk>> \/ DOMAIN walk'.seen = {},
         RetainInv(t)', TodoInv(t)'
  PROVE  CacheInv'
<1>1. ThreadInv(t)
  BY DEF CacheInv
<1>2. \A k \in Keys : lock[k] # t
  BY <1>1 DEF ThreadInv, LockInv
<1>3. Frame(t)
  BY <1>2 DEF Frame
<1>4. ThreadInv(t)'
  <2>1. LockInv(t)'
    BY <1>2 DEF LockInv, Unlocked
  <2>2. HoldInv(t)'
    BY DEF HoldInv
  <2> QED BY <2>1, <2>2 DEF ThreadInv
<1> QED BY <1>2, <1>3, <1>4, StepKeeps

-----------------------------------------------------------------------------
(* The steps under a slot's lock *)

LEMMA InHand ==
  ASSUME CacheInv, NEW t \in Threads, NEW s, s = th[t].slot,
         NEW p, p = th[t].pc, p \notin Unlocked, p # "note"
  PROVE  /\ s \in Keys /\ Slot(t) = s /\ disk[s] \in SlotType /\ lock[s] = t
         /\ acked[s] \in Nat /\ remote[s] \in Nat /\ latest[s] \in Nat
         /\ Sound(disk[s], acked[s], remote[s], latest[s])
         /\ Fit(p, disk[s], acked[s], remote[s], latest[s], retain, t)
         /\ retain = t <=> p \in Retaining \/ (p \in Returning /\ retain = t)
<1>1. ThreadInv(t) /\ CacheTypes
  BY DEF CacheInv
<1>2. s \in Keys /\ lock[s] = t
  BY <1>1 DEF ThreadInv, LockInv
<1>3. ObjectInv(s)
  BY <1>2 DEF CacheInv
<1>4. disk[s] \in SlotType /\ acked[s] \in Nat /\ remote[s] \in Nat /\ latest[s] \in Nat
  BY <1>1, <1>2 DEF CacheTypes
<1>5. Fit(Place(t), disk[s], acked[s], remote[s], latest[s], retain, t)
  BY <1>1 DEF ThreadInv, HoldInv
<1>6. retain = t <=> Place(t) \in Retaining \/ (Place(t) \in Returning /\ retain = t)
  BY <1>1 DEF ThreadInv, RetainInv
<1>7. Place(t) = p
  BY DEF Place
<1> QED BY <1>2, <1>3, <1>4, <1>5, <1>6, <1>7 DEF ObjectInv, Slot

LEMMA TypesStay ==
  ASSUME CacheTypes, NEW t \in Threads, Moved(t), disk' \in [Keys -> SlotType],
         remote' \in [Keys -> Nat], latest' \in [Keys -> Nat], acked' \in [Keys -> Nat],
         leased' \in [Keys -> Nat], UNCHANGED <<acct, walk>>,
         lock' \in [Keys -> Threads \cup {Nobody}], retain' \in Threads \cup {Nobody},
         proc' \in [enabled : BOOLEAN, holder : Holders, ops : Nat]
  PROVE  CacheTypes'
BY DEF CacheTypes, Moved

(* One that changes the slot in hand, if anything, and goes to w. *)
Advances(t, w) ==
  \/ Goes(t, w) /\ w \in Places \ (Unlocked \cup {"note"})
  \/ (Notes(t, w) \/ Tells(t, w)) /\ w \in Noted

LEMMA StoreStep ==
  ASSUME CacheInv, NEW t \in Threads, NEW w, Advances(t, w),
         UNCHANGED <<leased, locks, acct, walk, proc>>,
         th[t].pc \notin Unlocked, th[t].pc # "note", NEW s \in Keys, s = th[t].slot,
         disk' \in [Keys -> SlotType], remote' \in [Keys -> Nat],
         latest' \in [Keys -> Nat], acked' \in [Keys -> Nat],
         \A k \in Keys \ {s} : /\ disk'[k] = disk[k] /\ acked'[k] = acked[k]
                               /\ remote'[k] = remote[k] /\ latest'[k] = latest[k],
         Sound(disk'[s], acked'[s], remote'[s], latest'[s]),
         Fit(w, disk'[s], acked'[s], remote'[s], latest'[s], retain, t),
         acked[s] <= remote[s] => acked'[s] <= remote'[s],
         Notes(t, w) \/ Tells(t, w) \/ Stays(t, w, s),
         w \in Retaining => th[t].pc \in Retaining,
         w \in Releasing => th[t].pc \in Releasing,
         th[t].pc \in Retaining \cup Returning => w \in Retaining \cup Returning
  PROVE  CacheInv'
<1>1. CacheTypes /\ Place(t) = th[t].pc
  BY DEF CacheInv, Place
<1>2. /\ Moved(t) /\ Keeps(t) /\ th'[t].pc \notin Unlocked /\ Place(t)' = w
      /\ th'[t].pc = "note" => th'[t].then \in Noted
      /\ Stays(t, th'[t].pc, s)
  <2>1. CASE Goes(t, w) /\ w \in Places \ (Unlocked \cup {"note"}) /\ ~Notes(t, w) /\ ~Tells(t, w)
    <3>1. Moved(t) /\ Keeps(t) /\ th'[t].pc = w
      BY <1>1, <2>1, Going
    <3> QED BY <2>1, <3>1 DEF Place
  <2>2. CASE (Notes(t, w) \/ Tells(t, w)) /\ w \in Noted
    <3>1. Moved(t) /\ Keeps(t) /\ th'[t].pc = "note" /\ th'[t].then = w
      BY <1>1, <2>2, Noting, Telling
    <3>2. "note" \notin Unlocked /\ "note" \notin Steady
      BY DEF Unlocked, Steady, Noted
    <3> QED BY <2>2, <3>1, <3>2 DEF Place, Stays
  <2>3. CASE (Notes(t, w) \/ Tells(t, w)) /\ w \notin Noted
    <3>1. th'[t].pc = "note"
      BY <1>1, <2>3 DEF Notes, Tells, CacheTypes, PlaceType
    <3>2. Goes(t, w) => th'[t].pc = w
      BY <1>1, <2>3, Going DEF Advances
    <3> QED BY <2>3, <3>1, <3>2 DEF Advances
  <2> QED BY <2>1, <2>2, <2>3 DEF Advances
<1>3. CacheTypes'
  <2>1. leased' \in [Keys -> Nat] /\ lock' \in [Keys -> Threads \cup {Nobody}]
          /\ retain' \in Threads \cup {Nobody}
    BY <1>1 DEF CacheTypes, locks
  <2>2. proc' \in [enabled : BOOLEAN, holder : Holders, ops : Nat]
    BY <1>1 DEF CacheTypes
  <2> QED BY <1>1, <1>2, <2>1, <2>2, TypesStay
<1>4. UNCHANGED <<lock, retain, acct, walk>>
  BY DEF locks
<1> HIDE DEF Place
<1> QED BY <1>1, <1>2, <1>3, <1>4, HeldStep

LEMMA DiskStep ==
  ASSUME CacheInv, NEW t \in Threads, NEW w, Advances(t, w),
         UNCHANGED <<stores, locks, acct, walk, proc>>,
         th[t].pc \notin Unlocked, th[t].pc # "note", NEW s \in Keys, s = th[t].slot,
         disk' \in [Keys -> SlotType], \A k \in Keys \ {s} : disk'[k] = disk[k],
         Sound(disk'[s], acked[s], remote[s], latest[s]),
         Fit(w, disk'[s], acked[s], remote[s], latest[s], retain, t),
         Notes(t, w) \/ Tells(t, w) \/ Stays(t, w, s),
         w \in Retaining => th[t].pc \in Retaining,
         w \in Releasing => th[t].pc \in Releasing,
         th[t].pc \in Retaining \cup Returning => w \in Retaining \cup Returning
  PROVE  CacheInv'
<1>1. UNCHANGED <<remote, latest, acked, leased>>
  BY DEF stores
<1>2. remote' \in [Keys -> Nat] /\ latest' \in [Keys -> Nat] /\ acked' \in [Keys -> Nat]
  BY <1>1 DEF CacheInv, CacheTypes
<1> QED BY <1>1, <1>2, StoreStep

LEMMA KeepsGetHeals ==
  ASSUME CacheInv, NEW t \in Threads, GetHeals(t), UNCHANGED <<stores, locks, acct, walk, proc>>
  PROVE  CacheInv'
<1> DEFINE s == th[t].slot
<1>1. th[t].pc = "heal" /\ Notes(t, "fetch") /\ disk' = [disk EXCEPT ![th[t].slot] = Empty]
  BY DEF GetHeals, At, Slot
<1>2. CacheTypes /\ th[t].pc \notin Unlocked /\ th[t].pc # "note" /\ Advances(t, "fetch")
      /\ "heal" \notin Unlocked /\ "heal" # "note"
  BY <1>1 DEF CacheInv, Advances, Unlocked, Noted, Places
<1>3. /\ s \in Keys /\ disk[s] \in SlotType
      /\ acked[s] \in Nat /\ remote[s] \in Nat /\ latest[s] \in Nat
      /\ Sound(disk[s], acked[s], remote[s], latest[s])
      /\ Fit("heal", disk[s], acked[s], remote[s], latest[s], retain, t)
      /\ retain = t <=> "heal" \in Retaining \/ ("heal" \in Returning /\ retain = t)
  BY <1>1, <1>2, InHand
<1>4. /\ disk' \in [Keys -> SlotType] /\ \A k \in Keys \ {s} : disk'[k] = disk[k]
      /\ disk'[s].payload = 0 /\ disk'[s].done = "no" /\ disk'[s].mark = "no"
  <2>1. Empty \in SlotType /\ Empty.payload = 0 /\ Empty.done = "no" /\ Empty.mark = "no"
    BY DEF Empty, SlotType
  <2>2. disk \in [Keys -> SlotType]
    BY <1>2 DEF CacheTypes
  <2> QED BY <1>1, <1>3, <2>1, <2>2
<1>5. Sound(disk'[s], acked[s], remote[s], latest[s])
  BY <1>3, <1>4 DEF Sound, Readable, SlotType, Fit, Unmarked, Landed, Returning, Retaining
<1>6. Fit("fetch", disk'[s], acked[s], remote[s], latest[s], retain, t)
  BY <1>3, <1>4 DEF Sound, Readable, SlotType, Fit, Unmarked, Landed, Returning, Retaining
<1>7. /\ Notes(t, "fetch") \/ Stays(t, "fetch", s)
      /\ "fetch" \in Retaining => th[t].pc \in Retaining
      /\ "fetch" \in Releasing => th[t].pc \in Releasing
      /\ th[t].pc \in Retaining \cup Returning => "fetch" \in Retaining \cup Returning
  BY <1>1, <1>4 DEF Unlocked, Noted, Places, Retaining, Releasing, Returning, Steady, Stays
<1>8. s \in Keys
  BY <1>3
<1> HIDE DEF s
<1> QED BY <1>2, <1>8, <1>4, <1>5, <1>6, <1>7, DiskStep DEF s

LEMMA KeepsGetFetches ==
  ASSUME CacheInv, NEW t \in Threads, GetFetches(t), UNCHANGED <<stores, locks, acct, walk, proc>>
  PROVE  CacheInv'
<1>0. PICK s : s = th[t].slot
  OBVIOUS
<1>1. th[t].pc = "fetch" /\ Goes(t, "seal") /\ Changes(t, "payload", remote[Slot(t)])
  BY DEF GetFetches, At, Slot
<1>2. CacheTypes /\ th[t].pc \notin Unlocked /\ th[t].pc # "note" /\ Advances(t, "seal")
      /\ "fetch" \notin Unlocked /\ "fetch" # "note"
  BY <1>1 DEF CacheInv, Advances, Unlocked, Noted, Places
<1>3. /\ s \in Keys /\ disk[s] \in SlotType
      /\ acked[s] \in Nat /\ remote[s] \in Nat /\ latest[s] \in Nat
      /\ Sound(disk[s], acked[s], remote[s], latest[s])
      /\ Fit("fetch", disk[s], acked[s], remote[s], latest[s], retain, t)
      /\ retain = t <=> "fetch" \in Retaining \/ ("fetch" \in Returning /\ retain = t)
  BY <1>0, <1>1, <1>2, InHand
<1>4. /\ disk' \in [Keys -> SlotType] /\ \A k \in Keys \ {s} : disk'[k] = disk[k]
      /\ disk'[s].payload = remote[s] /\ disk'[s].done = disk[s].done /\ disk'[s].mark = disk[s].mark
  <2>1. remote[s] \in Nat
    BY <1>2, <1>3 DEF CacheTypes
  <2> QED BY <1>0, <1>1, <1>2, <1>3, <2>1, Changed DEF Slot
<1>n. remote[s] # 0
  BY <1>0 DEF GetFetches, Slot
<1>5. Sound(disk'[s], acked[s], remote[s], latest[s])
  BY <1>3, <1>4, <1>n DEF Sound, Readable, SlotType, Fit, Unmarked, Landed, Returning, Retaining
<1>6. Fit("seal", disk'[s], acked[s], remote[s], latest[s], retain, t)
  BY <1>3, <1>4, <1>n DEF Sound, Readable, SlotType, Fit, Unmarked, Landed, Returning, Retaining
<1>7. Stays(t, "seal", s)
  <2>1. disk[s].mark = "no" /\ disk'[s].mark = "no"
    BY <1>3, <1>4 DEF Fit, Unmarked
  <2>2. DiskRow(s) = IF disk[s].done = "no" \/ disk[s].payload = 0 THEN "none" ELSE "plain"
    BY <2>1 DEF DiskRow
  <2>3. DiskRow(s)' = IF disk[s].done = "no" THEN "none" ELSE "plain"
    BY <1>4, <1>n, <2>1 DEF DiskRow
  <2>4. th[t].pc \in Steady \ {"seal"}
    BY <1>1 DEF Steady, Noted
  <2> QED BY <2>2, <2>3, <2>4 DEF Stays
<1>8. "seal" \notin Retaining /\ "seal" \notin Releasing /\ th[t].pc \notin Retaining \cup Returning
  BY <1>1 DEF Retaining, Releasing, Returning
<1> QED BY <1>0, <1>1, <1>2, <1>3, <1>4, <1>5, <1>6, <1>7, <1>8, DiskStep

LEMMA KeepsGetSeals ==
  ASSUME CacheInv, NEW t \in Threads, GetSeals(t), UNCHANGED <<stores, locks, acct, walk, proc>>
  PROVE  CacheInv'
<1> DEFINE s == th[t].slot
<1>1. th[t].pc = "seal" /\ Notes(t, "lease") /\ Changes(t, "done", "ok")
  BY DEF GetSeals, At
<1>2. CacheTypes /\ th[t].pc \notin Unlocked /\ th[t].pc # "note" /\ Advances(t, "lease")
      /\ "seal" \notin Unlocked /\ "seal" # "note"
  BY <1>1 DEF CacheInv, Advances, Unlocked, Noted, Places
<1>3. /\ s \in Keys /\ disk[s] \in SlotType
      /\ acked[s] \in Nat /\ remote[s] \in Nat /\ latest[s] \in Nat
      /\ Sound(disk[s], acked[s], remote[s], latest[s])
      /\ Fit("seal", disk[s], acked[s], remote[s], latest[s], retain, t)
      /\ retain = t <=> "seal" \in Retaining \/ ("seal" \in Returning /\ retain = t)
  BY <1>1, <1>2, InHand
<1>4. /\ disk' \in [Keys -> SlotType] /\ \A k \in Keys \ {s} : disk'[k] = disk[k]
      /\ disk'[s].done = "ok" /\ disk'[s].payload = disk[s].payload /\ disk'[s].mark = disk[s].mark
  <2>1. "ok" \in {"no", "ok", "torn"}
    BY <1>2, <1>3 DEF CacheTypes
  <2> QED BY <1>1, <1>2, <1>3, <2>1, Changed DEF Slot
<1>5. Sound(disk'[s], acked[s], remote[s], latest[s])
  BY <1>3, <1>4 DEF Sound, Readable, SlotType, Fit, Unmarked, Landed, Returning, Retaining
<1>6. Fit("lease", disk'[s], acked[s], remote[s], latest[s], retain, t)
  BY <1>3, <1>4 DEF Sound, Readable, SlotType, Fit, Unmarked, Landed, Returning, Retaining
<1>7. /\ Notes(t, "lease") \/ Stays(t, "lease", s)
      /\ "lease" \in Retaining => th[t].pc \in Retaining
      /\ "lease" \in Releasing => th[t].pc \in Releasing
      /\ th[t].pc \in Retaining \cup Returning => "lease" \in Retaining \cup Returning
  BY <1>1, <1>4 DEF Unlocked, Noted, Places, Retaining, Releasing, Returning, Steady, Stays
<1>8. s \in Keys
  BY <1>3
<1> HIDE DEF s
<1> QED BY <1>2, <1>8, <1>4, <1>5, <1>6, <1>7, DiskStep DEF s

LEMMA KeepsPutUnseals ==
  ASSUME CacheInv, NEW t \in Threads, PutUnseals(t), UNCHANGED <<stores, locks, acct, walk, proc>>
  PROVE  CacheInv'
<1> DEFINE s == th[t].slot
<1>1. th[t].pc = "unseal" /\ Goes(t, "unmark") /\ Changes(t, "done", "no")
  BY DEF PutUnseals, At
<1>2. CacheTypes /\ th[t].pc \notin Unlocked /\ th[t].pc # "note" /\ Advances(t, "unmark")
      /\ "unseal" \notin Unlocked /\ "unseal" # "note"
  BY <1>1 DEF CacheInv, Advances, Unlocked, Noted, Places
<1>3. /\ s \in Keys /\ disk[s] \in SlotType
      /\ acked[s] \in Nat /\ remote[s] \in Nat /\ latest[s] \in Nat
      /\ Sound(disk[s], acked[s], remote[s], latest[s])
      /\ Fit("unseal", disk[s], acked[s], remote[s], latest[s], retain, t)
      /\ retain = t <=> "unseal" \in Retaining \/ ("unseal" \in Returning /\ retain = t)
  BY <1>1, <1>2, InHand
<1>4. /\ disk' \in [Keys -> SlotType] /\ \A k \in Keys \ {s} : disk'[k] = disk[k]
      /\ disk'[s].done = "no" /\ disk'[s].payload = disk[s].payload /\ disk'[s].mark = disk[s].mark
  <2>1. "no" \in {"no", "ok", "torn"}
    BY <1>2, <1>3 DEF CacheTypes
  <2> QED BY <1>1, <1>2, <1>3, <2>1, Changed DEF Slot
<1>5. Sound(disk'[s], acked[s], remote[s], latest[s])
  BY <1>3, <1>4 DEF Sound, Readable, SlotType, Fit, Unmarked, Landed, Returning, Retaining
<1>6. Fit("unmark", disk'[s], acked[s], remote[s], latest[s], retain, t)
  BY <1>3, <1>4 DEF Sound, Readable, SlotType, Fit, Unmarked, Landed, Returning, Retaining
<1>7. /\ Notes(t, "unmark") \/ Stays(t, "unmark", s)
      /\ "unmark" \in Retaining => th[t].pc \in Retaining
      /\ "unmark" \in Releasing => th[t].pc \in Releasing
      /\ th[t].pc \in Retaining \cup Returning => "unmark" \in Retaining \cup Returning
  BY <1>1, <1>4 DEF Unlocked, Noted, Places, Retaining, Releasing, Returning, Steady, Stays
<1>8. s \in Keys
  BY <1>3
<1> HIDE DEF s
<1> QED BY <1>2, <1>8, <1>4, <1>5, <1>6, <1>7, DiskStep DEF s

LEMMA KeepsPutUnmarks ==
  ASSUME CacheInv, NEW t \in Threads, PutUnmarks(t), UNCHANGED <<stores, locks, acct, walk, proc>>
  PROVE  CacheInv'
<1> DEFINE s == th[t].slot
<1>1. th[t].pc = "unmark" /\ Goes(t, "swap") /\ Changes(t, "mark", "no")
  BY DEF PutUnmarks, At
<1>2. CacheTypes /\ th[t].pc \notin Unlocked /\ th[t].pc # "note" /\ Advances(t, "swap")
      /\ "unmark" \notin Unlocked /\ "unmark" # "note"
  BY <1>1 DEF CacheInv, Advances, Unlocked, Noted, Places
<1>3. /\ s \in Keys /\ disk[s] \in SlotType
      /\ acked[s] \in Nat /\ remote[s] \in Nat /\ latest[s] \in Nat
      /\ Sound(disk[s], acked[s], remote[s], latest[s])
      /\ Fit("unmark", disk[s], acked[s], remote[s], latest[s], retain, t)
      /\ retain = t <=> "unmark" \in Retaining \/ ("unmark" \in Returning /\ retain = t)
  BY <1>1, <1>2, InHand
<1>4. /\ disk' \in [Keys -> SlotType] /\ \A k \in Keys \ {s} : disk'[k] = disk[k]
      /\ disk'[s].mark = "no" /\ disk'[s].payload = disk[s].payload /\ disk'[s].done = disk[s].done
  <2>1. "no" \in {"no", "torn"} \cup Holders
    BY <1>2, <1>3 DEF CacheTypes
  <2> QED BY <1>1, <1>2, <1>3, <2>1, Changed DEF Slot
<1>5. Sound(disk'[s], acked[s], remote[s], latest[s])
  BY <1>3, <1>4 DEF Sound, Readable, SlotType, Fit, Unmarked, Landed, Returning, Retaining
<1>6. Fit("swap", disk'[s], acked[s], remote[s], latest[s], retain, t)
  BY <1>3, <1>4 DEF Sound, Readable, SlotType, Fit, Unmarked, Landed, Returning, Retaining
<1>7. /\ Notes(t, "swap") \/ Stays(t, "swap", s)
      /\ "swap" \in Retaining => th[t].pc \in Retaining
      /\ "swap" \in Releasing => th[t].pc \in Releasing
      /\ th[t].pc \in Retaining \cup Returning => "swap" \in Retaining \cup Returning
  BY <1>1, <1>4 DEF Unlocked, Noted, Places, Retaining, Releasing, Returning, Steady, Stays
<1>8. s \in Keys
  BY <1>3
<1> HIDE DEF s
<1> QED BY <1>2, <1>8, <1>4, <1>5, <1>6, <1>7, DiskStep DEF s

LEMMA KeepsPutSwaps ==
  ASSUME CacheInv, NEW t \in Threads, PutSwaps(t), UNCHANGED <<stores, locks, acct, walk, proc>>
  PROVE  CacheInv'
<1> DEFINE s == th[t].slot
<1>1. th[t].pc = "swap" /\ Goes(t, "put seal") /\ Changes(t, "payload", remote[Slot(t)])
  BY DEF PutSwaps, At
<1>2. CacheTypes /\ th[t].pc \notin Unlocked /\ th[t].pc # "note" /\ Advances(t, "put seal")
      /\ "swap" \notin Unlocked /\ "swap" # "note"
  BY <1>1 DEF CacheInv, Advances, Unlocked, Noted, Places
<1>3. /\ s \in Keys /\ disk[s] \in SlotType
      /\ acked[s] \in Nat /\ remote[s] \in Nat /\ latest[s] \in Nat
      /\ Sound(disk[s], acked[s], remote[s], latest[s])
      /\ Fit("swap", disk[s], acked[s], remote[s], latest[s], retain, t)
      /\ retain = t <=> "swap" \in Retaining \/ ("swap" \in Returning /\ retain = t)
  BY <1>1, <1>2, InHand
<1>4. /\ disk' \in [Keys -> SlotType] /\ \A k \in Keys \ {s} : disk'[k] = disk[k]
      /\ disk'[s].payload = remote[s] /\ disk'[s].done = disk[s].done /\ disk'[s].mark = disk[s].mark
  <2>1. remote[s] \in Nat
    BY <1>2, <1>3 DEF CacheTypes
  <2> QED BY <1>1, <1>2, <1>3, <2>1, Changed DEF Slot
<1>5. Sound(disk'[s], acked[s], remote[s], latest[s])
  BY <1>3, <1>4 DEF Sound, Readable, SlotType, Fit, Unmarked, Landed, Returning, Retaining
<1>6. Fit("put seal", disk'[s], acked[s], remote[s], latest[s], retain, t)
  BY <1>3, <1>4 DEF Sound, Readable, SlotType, Fit, Unmarked, Landed, Returning, Retaining
<1>7. /\ Notes(t, "put seal") \/ Stays(t, "put seal", s)
      /\ "put seal" \in Retaining => th[t].pc \in Retaining
      /\ "put seal" \in Releasing => th[t].pc \in Releasing
      /\ th[t].pc \in Retaining \cup Returning => "put seal" \in Retaining \cup Returning
  BY <1>1, <1>4 DEF Unlocked, Noted, Places, Retaining, Releasing, Returning, Steady, Stays
<1>8. s \in Keys
  BY <1>3
<1> HIDE DEF s
<1> QED BY <1>2, <1>8, <1>4, <1>5, <1>6, <1>7, DiskStep DEF s

LEMMA KeepsPutSeals ==
  ASSUME CacheInv, NEW t \in Threads, PutSeals(t), UNCHANGED <<stores, locks, acct, walk, proc>>
  PROVE  CacheInv'
<1> DEFINE s == th[t].slot
<1>1. th[t].pc = "put seal" /\ Notes(t, "reported") /\ Changes(t, "done", "ok")
  BY DEF PutSeals, At
<1>2. CacheTypes /\ th[t].pc \notin Unlocked /\ th[t].pc # "note" /\ Advances(t, "reported")
      /\ "put seal" \notin Unlocked /\ "put seal" # "note"
  BY <1>1 DEF CacheInv, Advances, Unlocked, Noted, Places
<1>3. /\ s \in Keys /\ disk[s] \in SlotType
      /\ acked[s] \in Nat /\ remote[s] \in Nat /\ latest[s] \in Nat
      /\ Sound(disk[s], acked[s], remote[s], latest[s])
      /\ Fit("put seal", disk[s], acked[s], remote[s], latest[s], retain, t)
      /\ retain = t <=> "put seal" \in Retaining \/ ("put seal" \in Returning /\ retain = t)
  BY <1>1, <1>2, InHand
<1>4. /\ disk' \in [Keys -> SlotType] /\ \A k \in Keys \ {s} : disk'[k] = disk[k]
      /\ disk'[s].done = "ok" /\ disk'[s].payload = disk[s].payload /\ disk'[s].mark = disk[s].mark
  <2>1. "ok" \in {"no", "ok", "torn"}
    BY <1>2, <1>3 DEF CacheTypes
  <2> QED BY <1>1, <1>2, <1>3, <2>1, Changed DEF Slot
<1>5. Sound(disk'[s], acked[s], remote[s], latest[s])
  BY <1>3, <1>4 DEF Sound, Readable, SlotType, Fit, Unmarked, Landed, Returning, Retaining
<1>6. Fit("reported", disk'[s], acked[s], remote[s], latest[s], retain, t)
  BY <1>3, <1>4 DEF Sound, Readable, SlotType, Fit, Unmarked, Landed, Returning, Retaining
<1>7. /\ Notes(t, "reported") \/ Stays(t, "reported", s)
      /\ "reported" \in Retaining => th[t].pc \in Retaining
      /\ "reported" \in Releasing => th[t].pc \in Releasing
      /\ th[t].pc \in Retaining \cup Returning => "reported" \in Retaining \cup Returning
  BY <1>1, <1>4 DEF Unlocked, Noted, Places, Retaining, Releasing, Returning, Steady, Stays
<1>8. s \in Keys
  BY <1>3
<1> HIDE DEF s
<1> QED BY <1>2, <1>8, <1>4, <1>5, <1>6, <1>7, DiskStep DEF s

LEMMA KeepsDropsDone ==
  ASSUME CacheInv, NEW t \in Threads, DropsDone(t), UNCHANGED <<stores, locks, acct, walk, proc>>
  PROVE  CacheInv'
<1> DEFINE s == th[t].slot
<1>1. th[t].pc = "drop done" /\ Goes(t, "drop payload") /\ Changes(t, "done", "no")
  BY DEF DropsDone, At
<1>2. CacheTypes /\ th[t].pc \notin Unlocked /\ th[t].pc # "note" /\ Advances(t, "drop payload")
      /\ "drop done" \notin Unlocked /\ "drop done" # "note"
  BY <1>1 DEF CacheInv, Advances, Unlocked, Noted, Places
<1>3. /\ s \in Keys /\ disk[s] \in SlotType
      /\ acked[s] \in Nat /\ remote[s] \in Nat /\ latest[s] \in Nat
      /\ Sound(disk[s], acked[s], remote[s], latest[s])
      /\ Fit("drop done", disk[s], acked[s], remote[s], latest[s], retain, t)
      /\ retain = t <=> "drop done" \in Retaining \/ ("drop done" \in Returning /\ retain = t)
  BY <1>1, <1>2, InHand
<1>4. /\ disk' \in [Keys -> SlotType] /\ \A k \in Keys \ {s} : disk'[k] = disk[k]
      /\ disk'[s].done = "no" /\ disk'[s].payload = disk[s].payload /\ disk'[s].mark = disk[s].mark
  <2>1. "no" \in {"no", "ok", "torn"}
    BY <1>2, <1>3 DEF CacheTypes
  <2> QED BY <1>1, <1>2, <1>3, <2>1, Changed DEF Slot
<1>5. Sound(disk'[s], acked[s], remote[s], latest[s])
  BY <1>3, <1>4 DEF Sound, Readable, SlotType, Fit, Unmarked, Landed, Returning, Retaining
<1>6. Fit("drop payload", disk'[s], acked[s], remote[s], latest[s], retain, t)
  BY <1>3, <1>4 DEF Sound, Readable, SlotType, Fit, Unmarked, Landed, Returning, Retaining
<1>7. /\ Notes(t, "drop payload") \/ Stays(t, "drop payload", s)
      /\ "drop payload" \in Retaining => th[t].pc \in Retaining
      /\ "drop payload" \in Releasing => th[t].pc \in Releasing
      /\ th[t].pc \in Retaining \cup Returning => "drop payload" \in Retaining \cup Returning
  BY <1>1, <1>4 DEF Unlocked, Noted, Places, Retaining, Releasing, Returning, Steady, Stays
<1>8. s \in Keys
  BY <1>3
<1> HIDE DEF s
<1> QED BY <1>2, <1>8, <1>4, <1>5, <1>6, <1>7, DiskStep DEF s

LEMMA KeepsDropsPayload ==
  ASSUME CacheInv, NEW t \in Threads, DropsPayload(t), UNCHANGED <<stores, locks, acct, walk, proc>>
  PROVE  CacheInv'
<1> DEFINE s == th[t].slot
<1>1. th[t].pc = "drop payload" /\ Goes(t, "drop mark") /\ Changes(t, "payload", 0)
  BY DEF DropsPayload, At
<1>2. CacheTypes /\ th[t].pc \notin Unlocked /\ th[t].pc # "note" /\ Advances(t, "drop mark")
      /\ "drop payload" \notin Unlocked /\ "drop payload" # "note"
  BY <1>1 DEF CacheInv, Advances, Unlocked, Noted, Places
<1>3. /\ s \in Keys /\ disk[s] \in SlotType
      /\ acked[s] \in Nat /\ remote[s] \in Nat /\ latest[s] \in Nat
      /\ Sound(disk[s], acked[s], remote[s], latest[s])
      /\ Fit("drop payload", disk[s], acked[s], remote[s], latest[s], retain, t)
      /\ retain = t <=> "drop payload" \in Retaining \/ ("drop payload" \in Returning /\ retain = t)
  BY <1>1, <1>2, InHand
<1>4. /\ disk' \in [Keys -> SlotType] /\ \A k \in Keys \ {s} : disk'[k] = disk[k]
      /\ disk'[s].payload = 0 /\ disk'[s].done = disk[s].done /\ disk'[s].mark = disk[s].mark
  <2>1. 0 \in Nat
    BY <1>2, <1>3 DEF CacheTypes
  <2> QED BY <1>1, <1>2, <1>3, <2>1, Changed DEF Slot
<1>5. Sound(disk'[s], acked[s], remote[s], latest[s])
  BY <1>3, <1>4 DEF Sound, Readable, SlotType, Fit, Unmarked, Landed, Returning, Retaining
<1>6. Fit("drop mark", disk'[s], acked[s], remote[s], latest[s], retain, t)
  BY <1>3, <1>4 DEF Sound, Readable, SlotType, Fit, Unmarked, Landed, Returning, Retaining
<1>7. /\ Notes(t, "drop mark") \/ Stays(t, "drop mark", s)
      /\ "drop mark" \in Retaining => th[t].pc \in Retaining
      /\ "drop mark" \in Releasing => th[t].pc \in Releasing
      /\ th[t].pc \in Retaining \cup Returning => "drop mark" \in Retaining \cup Returning
  BY <1>1, <1>4 DEF Unlocked, Noted, Places, Retaining, Releasing, Returning, Steady, Stays
<1>8. s \in Keys
  BY <1>3
<1> HIDE DEF s
<1> QED BY <1>2, <1>8, <1>4, <1>5, <1>6, <1>7, DiskStep DEF s

LEMMA KeepsDropsMark ==
  ASSUME CacheInv, NEW t \in Threads, DropsMark(t), UNCHANGED <<stores, locks, acct, walk, proc>>
  PROVE  CacheInv'
<1> DEFINE s == th[t].slot
<1>1. th[t].pc = "drop mark" /\ Notes(t, "invalidated") /\ Changes(t, "mark", "no")
  BY DEF DropsMark, At
<1>2. CacheTypes /\ th[t].pc \notin Unlocked /\ th[t].pc # "note" /\ Advances(t, "invalidated")
      /\ "drop mark" \notin Unlocked /\ "drop mark" # "note"
  BY <1>1 DEF CacheInv, Advances, Unlocked, Noted, Places
<1>3. /\ s \in Keys /\ disk[s] \in SlotType
      /\ acked[s] \in Nat /\ remote[s] \in Nat /\ latest[s] \in Nat
      /\ Sound(disk[s], acked[s], remote[s], latest[s])
      /\ Fit("drop mark", disk[s], acked[s], remote[s], latest[s], retain, t)
      /\ retain = t <=> "drop mark" \in Retaining \/ ("drop mark" \in Returning /\ retain = t)
  BY <1>1, <1>2, InHand
<1>4. /\ disk' \in [Keys -> SlotType] /\ \A k \in Keys \ {s} : disk'[k] = disk[k]
      /\ disk'[s].mark = "no" /\ disk'[s].payload = disk[s].payload /\ disk'[s].done = disk[s].done
  <2>1. "no" \in {"no", "torn"} \cup Holders
    BY <1>2, <1>3 DEF CacheTypes
  <2> QED BY <1>1, <1>2, <1>3, <2>1, Changed DEF Slot
<1>5. Sound(disk'[s], acked[s], remote[s], latest[s])
  BY <1>3, <1>4 DEF Sound, Readable, SlotType, Fit, Unmarked, Landed, Returning, Retaining
<1>6. Fit("invalidated", disk'[s], acked[s], remote[s], latest[s], retain, t)
  BY <1>3, <1>4 DEF Sound, Readable, SlotType, Fit, Unmarked, Landed, Returning, Retaining
<1>7. /\ Notes(t, "invalidated") \/ Stays(t, "invalidated", s)
      /\ "invalidated" \in Retaining => th[t].pc \in Retaining
      /\ "invalidated" \in Releasing => th[t].pc \in Releasing
      /\ th[t].pc \in Retaining \cup Returning => "invalidated" \in Retaining \cup Returning
  BY <1>1, <1>4 DEF Unlocked, Noted, Places, Retaining, Releasing, Returning, Steady, Stays
<1>8. s \in Keys
  BY <1>3
<1> HIDE DEF s
<1> QED BY <1>2, <1>8, <1>4, <1>5, <1>6, <1>7, DiskStep DEF s

LEMMA KeepsUnmarksOld ==
  ASSUME CacheInv, NEW t \in Threads, UnmarksOld(t), UNCHANGED <<stores, locks, acct, walk, proc>>
  PROVE  CacheInv'
<1> DEFINE s == th[t].slot
<1>1. th[t].pc = "old mark" /\ Goes(t, "old tree") /\ Changes(t, "mark", "no")
  BY DEF UnmarksOld, At
<1>2. CacheTypes /\ th[t].pc \notin Unlocked /\ th[t].pc # "note" /\ Advances(t, "old tree")
      /\ "old mark" \notin Unlocked /\ "old mark" # "note"
  BY <1>1 DEF CacheInv, Advances, Unlocked, Noted, Places
<1>3. /\ s \in Keys /\ disk[s] \in SlotType
      /\ acked[s] \in Nat /\ remote[s] \in Nat /\ latest[s] \in Nat
      /\ Sound(disk[s], acked[s], remote[s], latest[s])
      /\ Fit("old mark", disk[s], acked[s], remote[s], latest[s], retain, t)
      /\ retain = t <=> "old mark" \in Retaining \/ ("old mark" \in Returning /\ retain = t)
  BY <1>1, <1>2, InHand
<1>4. /\ disk' \in [Keys -> SlotType] /\ \A k \in Keys \ {s} : disk'[k] = disk[k]
      /\ disk'[s].mark = "no" /\ disk'[s].payload = disk[s].payload /\ disk'[s].done = disk[s].done
  <2>1. "no" \in {"no", "torn"} \cup Holders
    BY <1>2, <1>3 DEF CacheTypes
  <2> QED BY <1>1, <1>2, <1>3, <2>1, Changed DEF Slot
<1>5. Sound(disk'[s], acked[s], remote[s], latest[s])
  BY <1>3, <1>4 DEF Sound, Readable, SlotType, Fit, Unmarked, Landed, Returning, Retaining
<1>6. Fit("old tree", disk'[s], acked[s], remote[s], latest[s], retain, t)
  BY <1>3, <1>4 DEF Sound, Readable, SlotType, Fit, Unmarked, Landed, Returning, Retaining
<1>7. /\ Notes(t, "old tree") \/ Stays(t, "old tree", s)
      /\ "old tree" \in Retaining => th[t].pc \in Retaining
      /\ "old tree" \in Releasing => th[t].pc \in Releasing
      /\ th[t].pc \in Retaining \cup Returning => "old tree" \in Retaining \cup Returning
  BY <1>1, <1>4 DEF Unlocked, Noted, Places, Retaining, Releasing, Returning, Steady, Stays
<1>8. s \in Keys
  BY <1>3
<1> HIDE DEF s
<1> QED BY <1>2, <1>8, <1>4, <1>5, <1>6, <1>7, DiskStep DEF s

LEMMA KeepsRemovesOld ==
  ASSUME CacheInv, NEW t \in Threads, RemovesOld(t), UNCHANGED <<stores, locks, acct, walk, proc>>
  PROVE  CacheInv'
<1> DEFINE s == th[t].slot
<1>1. th[t].pc = "old tree" /\ Notes(t, "old freed") /\ disk' = [disk EXCEPT ![th[t].slot] = Empty]
  BY DEF RemovesOld, At, Slot
<1>2. CacheTypes /\ th[t].pc \notin Unlocked /\ th[t].pc # "note" /\ Advances(t, "old freed")
      /\ "old tree" \notin Unlocked /\ "old tree" # "note"
  BY <1>1 DEF CacheInv, Advances, Unlocked, Noted, Places
<1>3. /\ s \in Keys /\ disk[s] \in SlotType
      /\ acked[s] \in Nat /\ remote[s] \in Nat /\ latest[s] \in Nat
      /\ Sound(disk[s], acked[s], remote[s], latest[s])
      /\ Fit("old tree", disk[s], acked[s], remote[s], latest[s], retain, t)
      /\ retain = t <=> "old tree" \in Retaining \/ ("old tree" \in Returning /\ retain = t)
  BY <1>1, <1>2, InHand
<1>4. /\ disk' \in [Keys -> SlotType] /\ \A k \in Keys \ {s} : disk'[k] = disk[k]
      /\ disk'[s].payload = 0 /\ disk'[s].done = "no" /\ disk'[s].mark = "no"
  <2>1. Empty \in SlotType /\ Empty.payload = 0 /\ Empty.done = "no" /\ Empty.mark = "no"
    BY DEF Empty, SlotType
  <2>2. disk \in [Keys -> SlotType]
    BY <1>2 DEF CacheTypes
  <2> QED BY <1>1, <1>3, <2>1, <2>2
<1>5. Sound(disk'[s], acked[s], remote[s], latest[s])
  BY <1>3, <1>4 DEF Sound, Readable, SlotType, Fit, Unmarked, Landed, Returning, Retaining
<1>6. Fit("old freed", disk'[s], acked[s], remote[s], latest[s], retain, t)
  BY <1>3, <1>4 DEF Sound, Readable, SlotType, Fit, Unmarked, Landed, Returning, Retaining
<1>7. /\ Notes(t, "old freed") \/ Stays(t, "old freed", s)
      /\ "old freed" \in Retaining => th[t].pc \in Retaining
      /\ "old freed" \in Releasing => th[t].pc \in Releasing
      /\ th[t].pc \in Retaining \cup Returning => "old freed" \in Retaining \cup Returning
  BY <1>1, <1>4 DEF Unlocked, Noted, Places, Retaining, Releasing, Returning, Steady, Stays
<1>8. s \in Keys
  BY <1>3
<1> HIDE DEF s
<1> QED BY <1>2, <1>8, <1>4, <1>5, <1>6, <1>7, DiskStep DEF s

LEMMA KeepsOwnUnseals ==
  ASSUME CacheInv, NEW t \in Threads, OwnUnseals(t), UNCHANGED <<stores, locks, acct, walk, proc>>
  PROVE  CacheInv'
<1> DEFINE s == th[t].slot
<1>1. th[t].pc = "own unseal" /\ Goes(t, "own swap") /\ Changes(t, "done", "no")
  BY DEF OwnUnseals, At
<1>2. CacheTypes /\ th[t].pc \notin Unlocked /\ th[t].pc # "note" /\ Advances(t, "own swap")
      /\ "own unseal" \notin Unlocked /\ "own unseal" # "note"
  BY <1>1 DEF CacheInv, Advances, Unlocked, Noted, Places
<1>3. /\ s \in Keys /\ disk[s] \in SlotType
      /\ acked[s] \in Nat /\ remote[s] \in Nat /\ latest[s] \in Nat
      /\ Sound(disk[s], acked[s], remote[s], latest[s])
      /\ Fit("own unseal", disk[s], acked[s], remote[s], latest[s], retain, t)
      /\ retain = t <=> "own unseal" \in Retaining \/ ("own unseal" \in Returning /\ retain = t)
  BY <1>1, <1>2, InHand
<1>4. /\ disk' \in [Keys -> SlotType] /\ \A k \in Keys \ {s} : disk'[k] = disk[k]
      /\ disk'[s].done = "no" /\ disk'[s].payload = disk[s].payload /\ disk'[s].mark = disk[s].mark
  <2>1. "no" \in {"no", "ok", "torn"}
    BY <1>2, <1>3 DEF CacheTypes
  <2> QED BY <1>1, <1>2, <1>3, <2>1, Changed DEF Slot
<1>5. Sound(disk'[s], acked[s], remote[s], latest[s])
  BY <1>3, <1>4 DEF Sound, Readable, SlotType, Fit, Unmarked, Landed, Returning, Retaining
<1>6. Fit("own swap", disk'[s], acked[s], remote[s], latest[s], retain, t)
  BY <1>3, <1>4 DEF Sound, Readable, SlotType, Fit, Unmarked, Landed, Returning, Retaining
<1>7. /\ Notes(t, "own swap") \/ Stays(t, "own swap", s)
      /\ "own swap" \in Retaining => th[t].pc \in Retaining
      /\ "own swap" \in Releasing => th[t].pc \in Releasing
      /\ th[t].pc \in Retaining \cup Returning => "own swap" \in Retaining \cup Returning
  BY <1>1, <1>4 DEF Unlocked, Noted, Places, Retaining, Releasing, Returning, Steady, Stays
<1>8. s \in Keys
  BY <1>3
<1> HIDE DEF s
<1> QED BY <1>2, <1>8, <1>4, <1>5, <1>6, <1>7, DiskStep DEF s

LEMMA KeepsOwnMarks ==
  ASSUME CacheInv, NEW t \in Threads, OwnMarks(t), UNCHANGED <<stores, locks, acct, walk, proc>>
  PROVE  CacheInv'
<1> DEFINE s == th[t].slot
<1>1. th[t].pc = "own mark" /\ Goes(t, "own seal") /\ Changes(t, "mark", proc.holder)
  BY DEF OwnMarks, At
<1>2. CacheTypes /\ th[t].pc \notin Unlocked /\ th[t].pc # "note" /\ Advances(t, "own seal")
      /\ "own mark" \notin Unlocked /\ "own mark" # "note"
  BY <1>1 DEF CacheInv, Advances, Unlocked, Noted, Places
<1>3. /\ s \in Keys /\ disk[s] \in SlotType
      /\ acked[s] \in Nat /\ remote[s] \in Nat /\ latest[s] \in Nat
      /\ Sound(disk[s], acked[s], remote[s], latest[s])
      /\ Fit("own mark", disk[s], acked[s], remote[s], latest[s], retain, t)
      /\ retain = t <=> "own mark" \in Retaining \/ ("own mark" \in Returning /\ retain = t)
  BY <1>1, <1>2, InHand
<1>4. /\ disk' \in [Keys -> SlotType] /\ \A k \in Keys \ {s} : disk'[k] = disk[k]
      /\ disk'[s].mark = proc.holder /\ disk'[s].payload = disk[s].payload /\ disk'[s].done = disk[s].done
  <2>1. proc.holder \in {"no", "torn"} \cup Holders
    BY <1>2, <1>3 DEF CacheTypes
  <2> QED BY <1>1, <1>2, <1>3, <2>1, Changed DEF Slot
<1>m. proc.holder # "no"
  BY CacheAssumption DEF CacheInv, CacheTypes
<1>5. Sound(disk'[s], acked[s], remote[s], latest[s])
  BY <1>3, <1>4, <1>m DEF Sound, Readable, SlotType, Fit, Unmarked, Landed, Returning, Retaining
<1>6. Fit("own seal", disk'[s], acked[s], remote[s], latest[s], retain, t)
  BY <1>3, <1>4, <1>m DEF Sound, Readable, SlotType, Fit, Unmarked, Landed, Returning, Retaining
<1>7. /\ Notes(t, "own seal") \/ Stays(t, "own seal", s)
      /\ "own seal" \in Retaining => th[t].pc \in Retaining
      /\ "own seal" \in Releasing => th[t].pc \in Releasing
      /\ th[t].pc \in Retaining \cup Returning => "own seal" \in Retaining \cup Returning
  BY <1>1, <1>4 DEF Unlocked, Noted, Places, Retaining, Releasing, Returning, Steady, Stays
<1>8. s \in Keys
  BY <1>3
<1> HIDE DEF s
<1> QED BY <1>2, <1>8, <1>4, <1>5, <1>6, <1>7, DiskStep DEF s

LEMMA KeepsOwnSeals ==
  ASSUME CacheInv, NEW t \in Threads, OwnSeals(t), UNCHANGED <<stores, locks, acct, walk, proc>>
  PROVE  CacheInv'
<1> DEFINE s == th[t].slot
<1>1. th[t].pc = "own seal" /\ Notes(t, "reported") /\ Changes(t, "done", "ok")
  BY DEF OwnSeals, At
<1>2. CacheTypes /\ th[t].pc \notin Unlocked /\ th[t].pc # "note" /\ Advances(t, "reported")
      /\ "own seal" \notin Unlocked /\ "own seal" # "note"
  BY <1>1 DEF CacheInv, Advances, Unlocked, Noted, Places
<1>3. /\ s \in Keys /\ disk[s] \in SlotType
      /\ acked[s] \in Nat /\ remote[s] \in Nat /\ latest[s] \in Nat
      /\ Sound(disk[s], acked[s], remote[s], latest[s])
      /\ Fit("own seal", disk[s], acked[s], remote[s], latest[s], retain, t)
      /\ retain = t <=> "own seal" \in Retaining \/ ("own seal" \in Returning /\ retain = t)
  BY <1>1, <1>2, InHand
<1>4. /\ disk' \in [Keys -> SlotType] /\ \A k \in Keys \ {s} : disk'[k] = disk[k]
      /\ disk'[s].done = "ok" /\ disk'[s].payload = disk[s].payload /\ disk'[s].mark = disk[s].mark
  <2>1. "ok" \in {"no", "ok", "torn"}
    BY <1>2, <1>3 DEF CacheTypes
  <2> QED BY <1>1, <1>2, <1>3, <2>1, Changed DEF Slot
<1>5. Sound(disk'[s], acked[s], remote[s], latest[s])
  BY <1>3, <1>4 DEF Sound, Readable, SlotType, Fit, Unmarked, Landed, Returning, Retaining
<1>6. Fit("reported", disk'[s], acked[s], remote[s], latest[s], retain, t)
  BY <1>3, <1>4 DEF Sound, Readable, SlotType, Fit, Unmarked, Landed, Returning, Retaining
<1>7. /\ Notes(t, "reported") \/ Stays(t, "reported", s)
      /\ "reported" \in Retaining => th[t].pc \in Retaining
      /\ "reported" \in Releasing => th[t].pc \in Releasing
      /\ th[t].pc \in Retaining \cup Returning => "reported" \in Retaining \cup Returning
  BY <1>1, <1>4 DEF Unlocked, Noted, Places, Retaining, Releasing, Returning, Steady, Stays
<1>8. s \in Keys
  BY <1>3
<1> HIDE DEF s
<1> QED BY <1>2, <1>8, <1>4, <1>5, <1>6, <1>7, DiskStep DEF s

LEMMA KeepsRemovesVictim ==
  ASSUME CacheInv, NEW t \in Threads, RemovesVictim(t), UNCHANGED <<stores, locks, acct, walk, proc>>
  PROVE  CacheInv'
<1> DEFINE s == th[t].slot
<1>1. th[t].pc = "remove" /\ Notes(t, "evicted") /\ disk' = [disk EXCEPT ![th[t].slot] = Empty]
  BY DEF RemovesVictim, At, Slot
<1>2. CacheTypes /\ th[t].pc \notin Unlocked /\ th[t].pc # "note" /\ Advances(t, "evicted")
      /\ "remove" \notin Unlocked /\ "remove" # "note"
  BY <1>1 DEF CacheInv, Advances, Unlocked, Noted, Places
<1>3. /\ s \in Keys /\ disk[s] \in SlotType
      /\ acked[s] \in Nat /\ remote[s] \in Nat /\ latest[s] \in Nat
      /\ Sound(disk[s], acked[s], remote[s], latest[s])
      /\ Fit("remove", disk[s], acked[s], remote[s], latest[s], retain, t)
      /\ retain = t <=> "remove" \in Retaining \/ ("remove" \in Returning /\ retain = t)
  BY <1>1, <1>2, InHand
<1>4. /\ disk' \in [Keys -> SlotType] /\ \A k \in Keys \ {s} : disk'[k] = disk[k]
      /\ disk'[s].payload = 0 /\ disk'[s].done = "no" /\ disk'[s].mark = "no"
  <2>1. Empty \in SlotType /\ Empty.payload = 0 /\ Empty.done = "no" /\ Empty.mark = "no"
    BY DEF Empty, SlotType
  <2>2. disk \in [Keys -> SlotType]
    BY <1>2 DEF CacheTypes
  <2> QED BY <1>1, <1>3, <2>1, <2>2
<1>5. Sound(disk'[s], acked[s], remote[s], latest[s])
  BY <1>3, <1>4 DEF Sound, Readable, SlotType, Fit, Unmarked, Landed, Returning, Retaining
<1>6. Fit("evicted", disk'[s], acked[s], remote[s], latest[s], retain, t)
  BY <1>3, <1>4 DEF Sound, Readable, SlotType, Fit, Unmarked, Landed, Returning, Retaining
<1>7. /\ Notes(t, "evicted") \/ Stays(t, "evicted", s)
      /\ "evicted" \in Retaining => th[t].pc \in Retaining
      /\ "evicted" \in Releasing => th[t].pc \in Releasing
      /\ th[t].pc \in Retaining \cup Returning => "evicted" \in Retaining \cup Returning
  BY <1>1, <1>4 DEF Unlocked, Noted, Places, Retaining, Releasing, Returning, Steady, Stays
<1>8. s \in Keys
  BY <1>3
<1> HIDE DEF s
<1> QED BY <1>2, <1>8, <1>4, <1>5, <1>6, <1>7, DiskStep DEF s

(* Steps that only read the slot, and go on. *)
LEMMA KeepsGetLooks ==
  ASSUME CacheInv, NEW t \in Threads, GetLooks(t), Verdict(disk[Slot(t)]) # "lost"
  PROVE  CacheInv'
<1> DEFINE s == th[t].slot
           v == Verdict(disk[s])
           w == IF v = "hit" THEN "lease" ELSE IF v = "miss" THEN "fetch" ELSE "heal"
<1>1. th[t].pc = "look" /\ Goes(t, w) /\ disk' = disk /\ lock' = lock
        /\ UNCHANGED <<stores, retain, acct, walk, proc>>
  <2>1. v \in {"hit", "miss", "heal"}
    BY DEF Verdict, Slot
  <2> QED BY <2>1 DEF GetLooks, At, Slot
<1>2. /\ CacheTypes /\ th[t].pc \notin Unlocked /\ th[t].pc # "note" /\ Advances(t, w)
      /\ UNCHANGED <<stores, locks, acct, walk, proc>>
  BY <1>1 DEF CacheInv, Advances, Unlocked, Noted, Places, locks
<1>3. /\ s \in Keys /\ disk[s] \in SlotType
      /\ acked[s] \in Nat /\ remote[s] \in Nat /\ latest[s] \in Nat
      /\ Sound(disk[s], acked[s], remote[s], latest[s]) /\ retain # t
  <2>1. /\ "look" \notin Unlocked /\ "look" # "note" /\ "look" \notin Retaining \cup Returning
    BY DEF Unlocked, Retaining, Returning
  <2> QED BY <1>1, <1>2, <2>1, InHand
<1>4. disk' \in [Keys -> SlotType] /\ \A k \in Keys : disk'[k] = disk[k]
  BY <1>1, <1>2 DEF CacheTypes
<1>5. v = "hit" => disk[s].payload # 0 /\ (disk[s].mark # "no" \/ disk[s].done = "ok")
  BY DEF Verdict
<1>6. v # "hit" => disk[s].mark = "no"
  BY DEF Verdict, Slot
<1> HIDE DEF v
<1>7. Fit(w, disk[s], acked[s], remote[s], latest[s], retain, t)
  BY <1>3, <1>5, <1>6 DEF Sound, Readable, Fit, Unmarked, Landed, Returning
<1>8. /\ th[t].pc \in Steady \ {"seal"}
      /\ w \notin Retaining /\ w \notin Releasing /\ th[t].pc \notin Retaining \cup Returning
  BY <1>1 DEF Steady, Retaining, Releasing, Returning
<1> HIDE DEF w
<1>9. s \in Keys /\ disk'[s] = disk[s]
  BY <1>3, <1>4
<1>10. /\ Sound(disk'[s], acked[s], remote[s], latest[s])
       /\ Fit(w, disk'[s], acked[s], remote[s], latest[s], retain, t)
       /\ Stays(t, w, s)
  BY <1>3, <1>7, <1>8, <1>9 DEF Stays
<1> HIDE DEF s
<1> QED BY <1>2, <1>4, <1>8, <1>9, <1>10, DiskStep DEF s

(* What a change cut short leaves of a slot is sound: the thread at work on *)
(* it had unmarked it, or the newest version is in it.                      *)
Torn == {"heal", "remove", "old tree", "seal", "put seal", "own seal", "own mark"}

LEMMA CutIsSound ==
  ASSUME CacheInv, NEW t \in Threads, NEW s, s = th[t].slot,
         NEW p, p = th[t].pc, p \notin Unlocked, p # "note", NEW d \in Cut(disk[s], p)
  PROVE  /\ d \in SlotType /\ Sound(d, acked[s], remote[s], latest[s])
         /\ p \notin Torn => d = disk[s]
         /\ p # "own mark" => d.mark = disk[s].mark
         /\ p \in {"seal", "put seal", "own seal"} =>
              d.payload = disk[s].payload /\ d.done \in {disk[s].done, "torn"}
<1>1. /\ disk[s] \in SlotType /\ acked[s] \in Nat /\ remote[s] \in Nat /\ latest[s] \in Nat
      /\ Sound(disk[s], acked[s], remote[s], latest[s])
      /\ Fit(p, disk[s], acked[s], remote[s], latest[s], retain, t)
  BY InHand
<1>2. PICK e : e = disk[s]
  OBVIOUS
<1>3. CASE p \in {"heal", "remove", "old tree"}
  <2>1. d \in {e, [e EXCEPT !.payload = 0], [e EXCEPT !.done = "no"]}
    BY <1>2, <1>3 DEF Cut
  <2>2. e.mark = "no"
    BY <1>1, <1>2, <1>3 DEF Fit, Unmarked
  <2>3. d \in SlotType /\ d.mark = "no" /\ d.payload \in {0, e.payload}
        /\ (d.payload = 0 \/ d.done = "no" \/ d = e)
    BY <1>1, <1>2, <2>1, <2>2 DEF SlotType
  <2>4. Sound(d, acked[s], remote[s], latest[s])
    BY <1>1, <1>2, <2>2, <2>3 DEF Sound, Readable, SlotType
  <2> QED BY <1>2, <1>3, <2>2, <2>3, <2>4 DEF Torn
<1>4. CASE p \in {"seal", "put seal", "own seal"}
  <2>1. d \in {e, [e EXCEPT !.done = "torn"]}
    BY <1>2, <1>4 DEF Cut
  <2>2. e.mark = "no" \/ e.payload = latest[s]
    BY <1>1, <1>2, <1>4 DEF Fit, Unmarked
  <2>3. d \in SlotType /\ d.mark = e.mark /\ d.payload = e.payload /\ (d.done = "torn" \/ d = e)
    BY <1>1, <1>2, <2>1 DEF SlotType
  <2>4. Sound(d, acked[s], remote[s], latest[s])
    BY <1>1, <1>2, <2>2, <2>3 DEF Sound, Readable, SlotType
  <2> QED BY <1>2, <1>4, <2>3, <2>4 DEF Torn
<1>5. CASE p = "own mark"
  <2>1. d \in {e, [e EXCEPT !.mark = "torn"]}
    BY <1>2, <1>5 DEF Cut
  <2>2. e.payload = latest[s]
    BY <1>1, <1>2, <1>5 DEF Fit
  <2>3. d \in SlotType /\ d.payload = e.payload /\ (d.mark = "torn" \/ d = e)
    BY <1>1, <1>2, <2>1 DEF SlotType
  <2>4. Sound(d, acked[s], remote[s], latest[s])
    BY <1>1, <1>2, <2>2, <2>3 DEF Sound, Readable, SlotType
  <2> QED BY <1>5, <2>3, <2>4 DEF Torn
<1>6. CASE p \notin Torn
  <2>1. d = e
    BY <1>2, <1>6 DEF Cut, Torn
  <2> QED BY <1>1, <1>2, <1>6, <2>1 DEF Torn
<1> QED BY <1>3, <1>4, <1>5, <1>6 DEF Torn

LEMMA CutInHand ==
  ASSUME CacheInv, NEW t \in Threads, NEW s, s = th[t].slot,
         NEW p, p = th[t].pc, p \notin Unlocked, p # "note", CutShort(t)
  PROVE  /\ s \in Keys /\ disk' \in [Keys -> SlotType] /\ \A k \in Keys \ {s} : disk'[k] = disk[k]
         /\ disk'[s] \in SlotType /\ Sound(disk'[s], acked[s], remote[s], latest[s])
         /\ p \notin Torn => disk'[s] = disk[s]
         /\ p # "own mark" => disk'[s].mark = disk[s].mark
         /\ p \in {"seal", "put seal", "own seal"} =>
              disk'[s].payload = disk[s].payload /\ disk'[s].done \in {disk[s].done, "torn"}
<1>1. s \in Keys /\ Slot(t) = s /\ disk \in [Keys -> SlotType]
  BY InHand DEF CacheInv, CacheTypes
<1>2. PICK d \in Cut(disk[s], p) : disk' = [disk EXCEPT ![s] = d]
  BY <1>1 DEF CutShort
<1>3. /\ d \in SlotType /\ Sound(d, acked[s], remote[s], latest[s])
      /\ (p \notin Torn => d = disk[s])
      /\ (p # "own mark" => d.mark = disk[s].mark)
      /\ (p \in {"seal", "put seal", "own seal"} =>
            d.payload = disk[s].payload /\ d.done \in {disk[s].done, "torn"})
  <2>1. p = th[t].pc /\ s = th[t].slot /\ p \notin Unlocked /\ p # "note" /\ d \in Cut(disk[s], p)
    BY <1>2
  <2> HIDE DEF Sound, Cut
  <2> QED BY <2>1, CutIsSound
<1>4. disk' \in [Keys -> SlotType] /\ disk'[s] = d /\ \A k \in Keys \ {s} : disk'[k] = disk[k]
  BY <1>1, <1>2, <1>3
<1> QED BY <1>1, <1>3, <1>4

LEMMA KeepsAdoptionFails ==
  ASSUME CacheInv, NEW t \in Threads, AdoptionFails(t)
  PROVE  CacheInv'
<1>1. PICK s, p : s = th[t].slot /\ p = th[t].pc
  OBVIOUS
<1>2. /\ p \in {"unseal", "unmark", "swap", "put seal"} /\ CutShort(t) /\ Goes(t, "drop done")
      /\ UNCHANGED <<stores, locks, acct, walk, proc>>
  BY <1>1 DEF AdoptionFails
<1>3. p \notin Unlocked /\ p # "note" /\ Advances(t, "drop done")
  BY <1>2 DEF Advances, Unlocked, Places
<1>4. /\ s \in Keys /\ disk' \in [Keys -> SlotType] /\ \A k \in Keys \ {s} : disk'[k] = disk[k]
      /\ Sound(disk'[s], acked[s], remote[s], latest[s])
  BY <1>1, <1>2, <1>3, CutInHand
<1>6. Fit(p, disk[s], acked[s], remote[s], latest[s], retain, t)
  BY <1>1, <1>3, InHand
<1>7. Fit("drop done", disk'[s], acked[s], remote[s], latest[s], retain, t)
  BY <1>2, <1>6 DEF Fit, Unmarked, Landed, Returning
<1>8. /\ Stays(t, "drop done", s) /\ "drop done" \notin Retaining /\ "drop done" \notin Releasing
      /\ "drop done" \in Returning
  BY DEF Stays, Steady, Noted, Retaining, Releasing, Returning
<1> QED BY <1>1, <1>2, <1>3, <1>4, <1>7, <1>8, DiskStep

(* A removal that fails: what is left is noted. *)
LEMMA Failing ==
  ASSUME CacheInv, NEW t \in Threads, RemovalFails(t)
  PROVE  /\ th[t].pc \in Removals /\ th[t].pc \in Fragile /\ CutShort(t)
         /\ Tells(t, AfterRemoval(th[t].pc)) /\ AfterRemoval(th[t].pc) \in Noted
         /\ UNCHANGED <<stores, locks, acct, walk, proc>>
<1>1. th[t].pc \in Fragile /\ th[t].pc \in Removals
  BY CacheAssumption DEF RemovalFails
<1>2. AfterRemoval(th[t].pc) \in Noted
  BY DEF AfterRemoval, Noted
<1>3. Tells(t, AfterRemoval(th[t].pc))
  <2>1. th[t].out \in {"none", "ok", "err", "unpruned"} /\ th \in [Threads -> PlaceType]
    BY DEF CacheInv, CacheTypes, PlaceType
  <2>2. PICK out \in {"none", "ok", "err", "unpruned"} :
          out = IF At(t, "remove") THEN "unpruned" ELSE th[t].out
    BY <2>1
  <2>3. th' = [th EXCEPT ![t].pc = "note", ![t].then = AfterRemoval(th[t].pc), ![t].out = out]
    BY <2>1, <2>2 DEF RemovalFails
  <2> QED BY <2>3 DEF Tells
<1> QED BY <1>1, <1>2, <1>3 DEF RemovalFails

LEMMA KeepsRemovalFails ==
  ASSUME CacheInv, NEW t \in Threads, RemovalFails(t)
  PROVE  CacheInv'
<1>1. PICK s, p, w : s = th[t].slot /\ p = th[t].pc /\ w = AfterRemoval(p)
  OBVIOUS
<1>2. /\ p \in Removals /\ p \in Fragile /\ CutShort(t) /\ Tells(t, w) /\ w \in Noted
      /\ UNCHANGED <<stores, locks, acct, walk, proc>>
  BY <1>1, Failing
<1>3. p \notin Unlocked /\ p # "note" /\ Advances(t, w)
  BY <1>2 DEF Removals, Advances, Unlocked
<1>4. /\ s \in Keys /\ disk' \in [Keys -> SlotType] /\ \A k \in Keys \ {s} : disk'[k] = disk[k]
  BY <1>1, <1>2, <1>3, CutInHand
<1>5. /\ Sound(disk'[s], acked[s], remote[s], latest[s])
      /\ p \notin Torn => disk'[s] = disk[s]
      /\ p # "own mark" => disk'[s].mark = disk[s].mark
  BY <1>1, <1>2, <1>3, CutInHand
<1>6. Fit(p, disk[s], acked[s], remote[s], latest[s], retain, t)
  BY <1>1, <1>3, InHand
<1>7. /\ \/ p = "heal" /\ w = "fetch"
         \/ p = "remove" /\ w = "evicted"
         \/ p \in {"old mark", "old tree"} /\ w = "old freed"
         \/ p \in {"drop done", "drop payload", "drop mark"} /\ w = "invalidated"
  BY <1>1, <1>2 DEF Removals, AfterRemoval
<1>8. Fit(w, disk'[s], acked[s], remote[s], latest[s], retain, t)
  <2>1. CASE p = "heal" /\ w = "fetch"
    BY <1>5, <1>6, <2>1 DEF Fit, Unmarked, Landed, Returning
  <2>2. CASE w \in {"evicted", "old freed"}
    BY <2>2 DEF Fit, Unmarked, Landed, Returning
  <2>3. CASE p \in {"drop done", "drop payload", "drop mark"} /\ w = "invalidated"
    <3>1. Unlinks => p = "drop mark" /\ disk'[s].payload = 0
      BY <1>2, <1>5, <1>6, <2>3 DEF Unlinks, Torn, Fit
    <3> QED BY <1>6, <2>3, <3>1 DEF Fit, Unmarked, Landed, Returning
  <2> QED BY <1>7, <2>1, <2>2, <2>3
<1>9. /\ w \in Retaining => p \in Retaining
      /\ w \in Releasing => p \in Releasing
      /\ p \in Retaining \cup Returning => w \in Retaining \cup Returning
  BY <1>7 DEF Retaining, Releasing, Returning
<1> QED BY <1>1, <1>2, <1>3, <1>4, <1>5, <1>8, <1>9, DiskStep

(* The sentinel a get cannot write: the slot is let go as it is.            *)
LEMMA KeepsGetSealFails ==
  ASSUME CacheInv, NEW t \in Threads, GetSealFails(t)
  PROVE  CacheInv'
<1>1. PICK s, p : s = th[t].slot /\ p = th[t].pc
  OBVIOUS
<1>2. /\ p = "seal" /\ CutShort(t) /\ Ends(t, "err") /\ Frees(s)
      /\ acct' = [acct EXCEPT !.missed = @ \cup {s}]
      /\ UNCHANGED <<remote, latest, acked, leased, retain, walk, proc>>
  BY <1>1 DEF GetSealFails, At, Slot, stores
<1>3. p \notin Unlocked /\ p # "note" /\ p \notin Retaining \cup Returning /\ p \in Steady
  BY <1>2 DEF Unlocked, Retaining, Returning, Steady
<1>4. /\ s \in Keys /\ disk[s] \in SlotType /\ lock[s] = t /\ retain # t
      /\ Fit(p, disk[s], acked[s], remote[s], latest[s], retain, t)
  BY <1>1, <1>3, InHand
<1>5. /\ disk' \in [Keys -> SlotType] /\ \A k \in Keys \ {s} : disk'[k] = disk[k]
  BY <1>1, <1>2, <1>3, CutInHand
<1>6. /\ Sound(disk'[s], acked[s], remote[s], latest[s])
      /\ disk'[s].mark = disk[s].mark /\ disk'[s].payload = disk[s].payload
      /\ disk'[s].done \in {disk[s].done, "torn"}
  BY <1>1, <1>2, <1>3, CutInHand
<1>7. /\ CacheTypes /\ WalkInv /\ ThreadInv(t) /\ RowInv(s) /\ t # Nobody /\ acct \in AcctType
      /\ lock \in [Keys -> Threads \cup {Nobody}]
  BY <1>4, CacheAssumption DEF CacheInv, CacheTypes
<1>8. Moved(t) /\ th'[t].pc = "idle"
  <2>1. Moved(t)
    BY <1>2, <1>7, Leaving
  <2>2. th'[t] = [Nowhere EXCEPT !.out = "err"]
    BY <1>2, <1>7 DEF Ends, CacheTypes
  <2> QED BY <2>1, <2>2 DEF Nowhere
<1>9. /\ acct' \in AcctType /\ acct'.missed = acct.missed \cup {s}
      /\ acct'.rows = acct.rows /\ acct'.live = acct.live /\ acct'.touched = acct.touched
      /\ acct'.reconciling = acct.reconciling
  BY <1>2, <1>4, <1>7 DEF AcctType
<1>10. lock' \in [Keys -> Threads \cup {Nobody}] /\ lock'[s] = Nobody
       /\ \A k \in Keys \ {s} : lock'[k] = lock[k]
  BY <1>2, <1>4, <1>7 DEF Frees
<1>11. \A k \in Keys : lock[k] = t <=> k = s
  BY <1>1, <1>4, <1>7 DEF ThreadInv, LockInv
<1>12. CacheTypes'
  BY <1>2, <1>5, <1>7, <1>8, <1>9, <1>10 DEF CacheTypes, Moved
<1>13. WalkInv'
  BY <1>2, <1>7, <1>9 DEF WalkInv
<1>14. Frame(t)
  <2>1. \A k \in Keys : acked[k] \in {0, acked[k]}
    OBVIOUS
  <2> QED BY <1>2, <1>5, <1>8, <1>9, <1>10, <1>11, <2>1 DEF Frame
<1>15. ThreadInv(t)'
  <2>1. LockInv(t)'
    BY <1>7, <1>8, <1>10, <1>11 DEF LockInv, Unlocked
  <2>2. Place(t)' = "idle"
    BY <1>8 DEF Place
  <2> HIDE DEF Place
  <2>3. RetainInv(t)' /\ HoldInv(t)' /\ TodoInv(t)'
    BY <1>2, <1>4, <1>8, <2>2 DEF RetainInv, HoldInv, TodoInv, Unlocked, Retaining, Releasing
  <2> QED BY <2>1, <2>3 DEF ThreadInv
<1>16. ObjectInv(s)'
  BY <1>2, <1>6 DEF ObjectInv
<1>17. RowInv(s)'
  <2>1. disk[s].mark = "no" /\ disk[s].payload # 0
    BY <1>2, <1>4 DEF Fit, Unmarked
  <2>2. DiskRow(s) = (IF disk[s].done = "no" THEN "none" ELSE "plain")
        /\ DiskRow(s)' \in {DiskRow(s), "plain"}
    BY <1>6, <2>1 DEF DiskRow
  <2>3. Still(s)
    BY <1>1, <1>3, <1>4 DEF Still
  <2>4. Untold(s)'
    BY <1>9 DEF Untold
  <2> HIDE DEF Still, DiskRow, Untold
  <2> QED BY <1>2, <1>7, <1>9, <2>2, <2>3, <2>4 DEF RowInv, Counts
<1> QED BY <1>7, <1>8, <1>11, <1>12, <1>13, <1>14, <1>15, <1>16, <1>17, StepKeeps

LEMMA KeepsSpared ==
  ASSUME CacheInv, NEW t \in Threads, ChecksVictim(t), Spared(Slot(t)),
         UNCHANGED <<stores, locks, acct, walk, proc>>
  PROVE  CacheInv'
<1> DEFINE s == th[t].slot
<1>1. th[t].pc = "check" /\ Notes(t, "evicted") /\ disk' = disk
  BY DEF ChecksVictim, At
<1>2. CacheTypes /\ th[t].pc \notin Unlocked /\ th[t].pc # "note" /\ Advances(t, "evicted")
      /\ "check" \notin Unlocked /\ "check" # "note"
  BY <1>1 DEF CacheInv, Advances, Unlocked, Noted, Places
<1>3. /\ s \in Keys /\ disk[s] \in SlotType
      /\ acked[s] \in Nat /\ remote[s] \in Nat /\ latest[s] \in Nat
      /\ Sound(disk[s], acked[s], remote[s], latest[s])
      /\ Fit("check", disk[s], acked[s], remote[s], latest[s], retain, t)
      /\ retain = t <=> "check" \in Retaining \/ ("check" \in Returning /\ retain = t)
  BY <1>1, <1>2, InHand
<1>4. disk' \in [Keys -> SlotType] /\ \A k \in Keys : disk'[k] = disk[k]
  BY <1>1, <1>2 DEF CacheTypes
<1>5. Sound(disk'[s], acked[s], remote[s], latest[s])
  BY <1>3, <1>4 DEF Sound, Readable, SlotType, Fit, Unmarked, Landed, Returning, Retaining
<1>6. Fit("evicted", disk'[s], acked[s], remote[s], latest[s], retain, t)
  BY <1>3, <1>4 DEF Sound, Readable, SlotType, Fit, Unmarked, Landed, Returning, Retaining
<1>7. /\ Notes(t, "evicted") \/ Stays(t, "evicted", s)
      /\ "evicted" \in Retaining => th[t].pc \in Retaining
      /\ "evicted" \in Releasing => th[t].pc \in Releasing
      /\ th[t].pc \in Retaining \cup Returning => "evicted" \in Retaining \cup Returning
  BY <1>1, <1>4 DEF Unlocked, Noted, Places, Retaining, Releasing, Returning, Steady, Stays
<1>8. s \in Keys
  BY <1>3
<1> HIDE DEF s
<1> QED BY <1>2, <1>8, <1>4, <1>5, <1>6, <1>7, DiskStep DEF s

LEMMA KeepsUnspared ==
  ASSUME CacheInv, NEW t \in Threads, ChecksVictim(t), ~Spared(Slot(t)),
         UNCHANGED <<stores, locks, acct, walk, proc>>
  PROVE  CacheInv'
<1> DEFINE s == th[t].slot
<1>1. th[t].pc = "check" /\ Goes(t, "remove") /\ disk' = disk
  BY DEF ChecksVictim, At
<1>2. CacheTypes /\ th[t].pc \notin Unlocked /\ th[t].pc # "note" /\ Advances(t, "remove")
      /\ "check" \notin Unlocked /\ "check" # "note"
  BY <1>1 DEF CacheInv, Advances, Unlocked, Noted, Places
<1>3. /\ s \in Keys /\ disk[s] \in SlotType
      /\ acked[s] \in Nat /\ remote[s] \in Nat /\ latest[s] \in Nat
      /\ Sound(disk[s], acked[s], remote[s], latest[s])
      /\ Fit("check", disk[s], acked[s], remote[s], latest[s], retain, t)
      /\ retain = t <=> "check" \in Retaining \/ ("check" \in Returning /\ retain = t)
  BY <1>1, <1>2, InHand
<1>4. disk' \in [Keys -> SlotType] /\ \A k \in Keys : disk'[k] = disk[k]
  BY <1>1, <1>2 DEF CacheTypes
<1>m. disk[s].mark = "no"
  BY DEF Spared, DiskRow, Slot
<1>5. Sound(disk'[s], acked[s], remote[s], latest[s])
  BY <1>3, <1>4, <1>m DEF Sound, Readable, SlotType, Fit, Unmarked, Landed, Returning, Retaining
<1>6. Fit("remove", disk'[s], acked[s], remote[s], latest[s], retain, t)
  BY <1>3, <1>4, <1>m DEF Sound, Readable, SlotType, Fit, Unmarked, Landed, Returning, Retaining
<1>7. /\ Notes(t, "remove") \/ Stays(t, "remove", s)
      /\ "remove" \in Retaining => th[t].pc \in Retaining
      /\ "remove" \in Releasing => th[t].pc \in Releasing
      /\ th[t].pc \in Retaining \cup Returning => "remove" \in Retaining \cup Returning
  BY <1>1, <1>4 DEF Unlocked, Noted, Places, Retaining, Releasing, Returning, Steady, Stays
<1>8. s \in Keys
  BY <1>3
<1> HIDE DEF s
<1> QED BY <1>2, <1>8, <1>4, <1>5, <1>6, <1>7, DiskStep DEF s

LEMMA KeepsUnwritten ==
  ASSUME CacheInv, NEW t \in Threads, ChecksVictim(t)
  PROVE  CacheInv'
<1>1. UNCHANGED <<stores, locks, acct, walk, proc>>
  BY DEF ChecksVictim
<1> QED BY <1>1, KeepsSpared, KeepsUnspared

(* Steps that write a version, or give one up. *)
LEMMA KeepsPutLands ==
  ASSUME CacheInv, NEW t \in Threads, PutLands(t)
  PROVE  CacheInv'
<1> DEFINE s == th[t].slot
<1>1. /\ th[t].pc = "put" /\ UNCHANGED <<disk, acked, leased, locks, acct, walk, proc>>
      /\ latest' = [latest EXCEPT ![s] = @ + 1] /\ remote' = [remote EXCEPT ![s] = latest[s] + 1]
  BY DEF PutLands, At, Slot
<1>2. PICK w : w \in {"unseal", "drop done"} /\ Goes(t, w)
  BY DEF PutLands
<1>3. CacheTypes /\ th[t].pc \notin Unlocked /\ th[t].pc # "note" /\ Advances(t, w)
  BY <1>1, <1>2 DEF CacheInv, Advances, Unlocked, Noted, Places
<1>4. /\ s \in Keys /\ disk[s] \in SlotType
      /\ acked[s] \in Nat /\ remote[s] \in Nat /\ latest[s] \in Nat
      /\ Sound(disk[s], acked[s], remote[s], latest[s])
      /\ ~(retain = t)
  <2>1. "put" \notin Unlocked /\ "put" # "note" /\ "put" \notin Retaining \cup Returning
    BY DEF Unlocked, Retaining, Returning
  <2> QED BY <1>1, <1>3, <2>1, InHand
<1>n. acked[s] \in Nat /\ latest[s] \in Nat /\ disk[s].payload \in Nat
  BY <1>4 DEF SlotType
<1>5. /\ disk' \in [Keys -> SlotType] /\ remote' \in [Keys -> Nat]
      /\ latest' \in [Keys -> Nat] /\ acked' \in [Keys -> Nat]
      /\ \A k \in Keys \ {s} : /\ disk'[k] = disk[k] /\ acked'[k] = acked[k]
                               /\ remote'[k] = remote[k] /\ latest'[k] = latest[k]
      /\ disk'[s] = disk[s] /\ acked'[s] = acked[s]
      /\ remote'[s] = latest[s] + 1 /\ latest'[s] = latest[s] + 1
  <2>1. latest[s] + 1 \in Nat
    BY <1>n
  <2>2. /\ disk \in [Keys -> SlotType] /\ acked \in [Keys -> Nat]
        /\ remote \in [Keys -> Nat] /\ latest \in [Keys -> Nat]
    BY <1>3 DEF CacheTypes
  <2>3. latest' = [latest EXCEPT ![s] = latest[s] + 1]
    BY <1>1
  <2> QED BY <1>1, <1>4, <2>1, <2>2, <2>3
<1>6. Sound(disk'[s], acked'[s], remote'[s], latest'[s])
  <2>1. acked[s] <= latest[s] + 1 /\ disk[s].payload <= latest[s] + 1 /\ ~(acked[s] > latest[s] + 1)
    BY <1>n, <1>4 DEF Sound
  <2>2. Sound(disk[s], acked[s], latest[s] + 1, latest[s] + 1)
    BY <1>n, <1>4, <2>1 DEF Sound
  <2> QED BY <1>5, <2>2
<1>7. Fit(w, disk'[s], acked'[s], remote'[s], latest'[s], retain, t)
  BY <1>2, <1>4, <1>5 DEF Fit, Unmarked, Landed, Returning
<1>8. /\ acked[s] <= remote[s] => acked'[s] <= remote'[s]
      /\ Stays(t, w, s) /\ w \notin Retaining /\ w \notin Releasing
      /\ th[t].pc \notin Retaining \cup Returning
  <2>1. acked[s] <= latest[s] + 1
    BY <1>n, <1>4 DEF Sound
  <2>2. w \notin Steady /\ w \notin Retaining /\ w \notin Releasing
    BY <1>2 DEF Steady, Noted, Retaining, Releasing
  <2>3. th[t].pc \notin Retaining \cup Returning
    BY <1>1 DEF Retaining, Returning
  <2> QED BY <1>5, <2>1, <2>2, <2>3 DEF Stays
<1>9. s \in Keys
  BY <1>4
<1> HIDE DEF s
<1> QED BY <1>1, <1>3, <1>5, <1>6, <1>7, <1>8, <1>9, StoreStep DEF s

LEMMA KeepsOwnSwaps ==
  ASSUME CacheInv, NEW t \in Threads, OwnSwaps(t),
         UNCHANGED <<remote, acked, leased, locks, acct, walk, proc>>
  PROVE  CacheInv'
<1> DEFINE s == th[t].slot
<1>1. /\ th[t].pc = "own swap" /\ Goes(t, "own mark")
      /\ Changes(t, "payload", latest[s] + 1) /\ latest' = [latest EXCEPT ![s] = @ + 1]
  BY DEF OwnSwaps, At, Slot
<1>2. CacheTypes /\ th[t].pc \notin Unlocked /\ th[t].pc # "note" /\ Advances(t, "own mark")
  BY <1>1 DEF CacheInv, Advances, Unlocked, Noted, Places
<1>3. /\ s \in Keys /\ disk[s] \in SlotType
      /\ acked[s] \in Nat /\ remote[s] \in Nat /\ latest[s] \in Nat
      /\ Sound(disk[s], acked[s], remote[s], latest[s]) /\ retain = t
  <2>1. "own swap" \notin Unlocked /\ "own swap" # "note" /\ "own swap" \in Retaining
    BY DEF Unlocked, Retaining
  <2> QED BY <1>1, <1>2, <2>1, InHand
<1>4. /\ disk' \in [Keys -> SlotType] /\ \A k \in Keys \ {s} : disk'[k] = disk[k]
      /\ disk'[s].payload = latest[s] + 1 /\ disk'[s].mark = disk[s].mark /\ disk'[s].done = disk[s].done
  <2>1. latest[s] + 1 \in Nat
    BY <1>3
  <2> HIDE DEF s
  <2> QED BY <1>1, <1>2, <1>3, <2>1, Changed DEF s
<1>5. /\ remote' \in [Keys -> Nat] /\ latest' \in [Keys -> Nat] /\ acked' \in [Keys -> Nat]
      /\ \A k \in Keys \ {s} : acked'[k] = acked[k] /\ remote'[k] = remote[k] /\ latest'[k] = latest[k]
      /\ acked'[s] = acked[s] /\ remote'[s] = remote[s] /\ latest'[s] = latest[s] + 1
  <2>1. latest[s] + 1 \in Nat
    BY <1>3
  <2>2. acked \in [Keys -> Nat] /\ remote \in [Keys -> Nat] /\ latest \in [Keys -> Nat]
    BY <1>2 DEF CacheTypes
  <2>3. latest' = [latest EXCEPT ![s] = latest[s] + 1]
    BY <1>1
  <2> QED BY <1>1, <1>3, <2>1, <2>2, <2>3
<1>6. Sound(disk'[s], acked'[s], remote'[s], latest'[s])
  BY <1>3, <1>4, <1>5 DEF Sound, SlotType, Readable
<1>7. Fit("own mark", disk'[s], acked'[s], remote'[s], latest'[s], retain, t)
  BY <1>3, <1>4, <1>5 DEF Fit, Unmarked, Landed, Returning
<1>8. /\ acked[s] <= remote[s] => acked'[s] <= remote'[s]
      /\ Stays(t, "own mark", s) /\ th[t].pc \in Retaining /\ "own mark" \in Retaining
      /\ "own mark" \notin Releasing
  BY <1>1, <1>5 DEF Steady, Noted, Retaining, Releasing, Stays
<1>9. s \in Keys
  BY <1>3
<1> HIDE DEF s
<1> QED BY <1>1, <1>2, <1>4, <1>5, <1>6, <1>7, <1>8, <1>9, StoreStep DEF s

LEMMA KeepsRetentionFails ==
  ASSUME CacheInv, NEW t \in Threads, RetentionFails(t)
  PROVE  CacheInv'
<1>1. PICK s, p : s = th[t].slot /\ p = th[t].pc
  OBVIOUS
<1>2. /\ p \in {"own unseal", "own swap", "own mark", "own seal"} /\ CutShort(t)
      /\ Goes(t, "drop done") /\ acked' = [acked EXCEPT ![s] = 0]
      /\ UNCHANGED <<remote, latest, leased, locks, acct, walk, proc>>
  BY <1>1 DEF RetentionFails, Slot
<1>3. CacheTypes /\ p \notin Unlocked /\ p # "note" /\ p \in Retaining /\ Advances(t, "drop done")
  BY <1>2 DEF CacheInv, Advances, Unlocked, Places, Retaining
<1>4. /\ s \in Keys /\ disk' \in [Keys -> SlotType] /\ \A k \in Keys \ {s} : disk'[k] = disk[k]
      /\ disk'[s] \in SlotType /\ Sound(disk'[s], acked[s], remote[s], latest[s])
  BY <1>1, <1>2, <1>3, CutInHand
<1>5. disk'[s].payload \in Nat
  BY <1>4 DEF SlotType
<1>6. acked[s] \in Nat /\ remote[s] \in Nat /\ latest[s] \in Nat /\ retain = t
  <2>1. p = th[t].pc /\ p \notin Unlocked /\ s = th[t].slot
    BY <1>1, <1>3
  <2>2. Place(t) \in Retaining => retain = t
    BY DEF CacheInv, ThreadInv, RetainInv
  <2>3. retain = t
    BY <2>1, <2>2, <1>3 DEF Place
  <2>4. s \in Keys /\ CacheTypes
    BY <1>3, <1>4
  <2> QED BY <2>3, <2>4 DEF CacheTypes
<1>7. /\ remote' \in [Keys -> Nat] /\ latest' \in [Keys -> Nat] /\ acked' \in [Keys -> Nat]
      /\ \A k \in Keys \ {s} : acked'[k] = acked[k] /\ remote'[k] = remote[k] /\ latest'[k] = latest[k]
      /\ acked'[s] = 0 /\ remote'[s] = remote[s] /\ latest'[s] = latest[s]
  BY <1>2, <1>3, <1>4 DEF CacheTypes
<1>8. Sound(disk'[s], acked'[s], remote'[s], latest'[s])
  BY <1>4, <1>5, <1>6, <1>7, SoundLower
<1>9. Fit("drop done", disk'[s], acked'[s], remote'[s], latest'[s], retain, t)
  BY <1>6, <1>7 DEF Fit, Unmarked, Landed, Returning
<1>10. /\ acked'[s] <= remote'[s]
       /\ Stays(t, "drop done", s) /\ "drop done" \notin Retaining /\ "drop done" \notin Releasing
       /\ "drop done" \in Returning
  BY <1>6, <1>7 DEF Stays, Steady, Noted, Retaining, Releasing, Returning
<1> QED BY <1>1, <1>2, <1>3, <1>4, <1>7, <1>8, <1>9, <1>10, StoreStep

-----------------------------------------------------------------------------
(* The steps that give the slot's lock back *)

LEMMA LeaveStep ==
  ASSUME CacheInv, NEW t \in Threads,
         Prunes(t) \/ \E out \in {"ok", "err", "unpruned"} : Ends(t, out),
         UNCHANGED <<disk, remote, latest, acct, walk, proc>>,
         th[t].pc \in Steady \ {"seal"}, NEW s \in Keys, s = th[t].slot, Frees(s),
         retain' = IF retain = t THEN Nobody ELSE retain,
         leased' \in [Keys -> Nat], acked' \in [Keys -> Nat],
         \A k \in Keys \ {s} : acked'[k] = acked[k],
         Sound(disk[s], acked'[s], remote[s], latest[s]),
         retain # t /\ acked[s] <= remote[s] => acked'[s] <= remote[s]
  PROVE  CacheInv'
<1>1. CacheTypes /\ t # Nobody
  BY CacheAssumption DEF CacheInv
<1>2. Moved(t) /\ th'[t].pc \in {"idle", "batch"}
  BY <1>1, Leaving
<1>3. retain' # t /\ \A u \in Threads \ {t} : retain' = u <=> retain = u
  BY <1>1, CacheAssumption
<1>4. CacheTypes'
  <2>1. lock' \in [Keys -> Threads \cup {Nobody}]
    BY <1>1 DEF CacheTypes, Frees
  <2>2. /\ disk' \in [Keys -> SlotType] /\ remote' \in [Keys -> Nat] /\ latest' \in [Keys -> Nat]
        /\ retain' \in Threads \cup {Nobody}
        /\ proc' \in [enabled : BOOLEAN, holder : Holders, ops : Nat]
    BY <1>1 DEF CacheTypes
  <2> QED BY <1>1, <1>2, <2>1, <2>2, TypesStay
<1>5. th'[t].pc \in Unlocked
  BY <1>2 DEF Unlocked
<1>6. RetainInv(t)' /\ TodoInv(t)'
  <2>1. Place(t)' \notin Retaining /\ Place(t)' \notin Releasing
    BY <1>2 DEF Place, Retaining, Releasing
  <2>2. Place(t)' \notin {"rows", "release", "adopt"}
    BY <2>1 DEF Retaining
  <2> HIDE DEF Place
  <2> QED BY <1>3, <2>1, <2>2 DEF RetainInv, TodoInv
<1> QED BY <1>2, <1>3, <1>4, <1>5, <1>6, FreeStep

(* A call that changes no promise. *)
LEMMA KeepsReturns ==
  ASSUME CacheInv, NEW t \in Threads,
         \/ GetLooks(t) /\ Verdict(disk[Slot(t)]) = "lost"
         \/ GetFails(t) \/ PutFails(t) \/ GetLeases(t)
  PROVE  CacheInv'
<1> DEFINE s == th[t].slot
<1>1. /\ UNCHANGED <<disk, remote, latest, acked, retain, acct, walk, proc>> /\ Frees(s)
      /\ Prunes(t) \/ Ends(t, "err")
  BY DEF GetLooks, GetFails, PutFails, GetLeases, Slot, stores
<1>2. PICK p : p = th[t].pc /\ p \in {"look", "fetch", "put", "lease"}
  BY DEF GetLooks, GetFails, PutFails, GetLeases, At
<1>3. p \notin Unlocked /\ p # "note" /\ p \in Steady \ {"seal"} /\ p \notin Retaining \cup Returning
  BY <1>2 DEF Unlocked, Steady, Noted, Retaining, Returning
<1>4. /\ s \in Keys /\ disk[s] \in SlotType /\ retain # t
      /\ Sound(disk[s], acked[s], remote[s], latest[s])
  <2>1. p = th[t].pc
    BY <1>2
  <2> QED BY <1>3, <2>1, InHand
<1>5. leased' \in [Keys -> Nat] /\ acked' \in [Keys -> Nat]
  <2>1. leased \in [Keys -> Nat] /\ acked \in [Keys -> Nat] /\ disk[s].payload \in Nat
    BY <1>4 DEF CacheInv, CacheTypes, SlotType
  <2>2. leased' = leased \/ leased' = [leased EXCEPT ![s] = disk[s].payload]
    BY DEF GetLooks, GetFails, PutFails, GetLeases, Slot, stores
  <2> QED BY <1>1, <2>1, <2>2
<1>6. th[t].pc \in Steady \ {"seal"} /\ s \in Keys /\ retain' = IF retain = t THEN Nobody ELSE retain
  BY <1>1, <1>2, <1>3, <1>4
<1>7. \E out \in {"ok", "err", "unpruned"} : Ends(t, out) \/ Prunes(t)
  BY <1>1
<1>8. Sound(disk[s], acked'[s], remote[s], latest[s]) /\ acked' = acked
  BY <1>1, <1>4
<1> HIDE DEF s
<1> QED BY <1>1, <1>5, <1>6, <1>7, <1>8, LeaveStep DEF s

(* One that reports its write. *)
LEMMA KeepsReports ==
  ASSUME CacheInv, NEW t \in Threads, Reports(t) \/ AfterInvalidation(t)
  PROVE  CacheInv'
<1> DEFINE s == th[t].slot
<1>1. /\ UNCHANGED <<disk, remote, latest, leased, acct, walk, proc>> /\ Frees(s)
      /\ Prunes(t) \/ Ends(t, "err") \/ Ends(t, "unpruned")
      /\ retain' = IF retain = t THEN Nobody ELSE retain
      /\ \/ acked' = [acked EXCEPT ![s] = latest[s]] /\ (retain = t => th[t].pc = "reported")
         \/ acked' = acked
  BY DEF Reports, AfterInvalidation, Slot, At
<1>2. PICK p : p = th[t].pc /\ p \in {"reported", "invalidated"}
  BY DEF Reports, AfterInvalidation, At
<1>3. p \notin Unlocked /\ p # "note" /\ p \in Steady \ {"seal"}
  BY <1>2 DEF Unlocked, Steady, Noted
<1>4. /\ s \in Keys /\ disk[s] \in SlotType
      /\ acked[s] \in Nat /\ remote[s] \in Nat /\ latest[s] \in Nat
      /\ Sound(disk[s], acked[s], remote[s], latest[s])
      /\ Fit(p, disk[s], acked[s], remote[s], latest[s], retain, t)
  <2>1. p = th[t].pc
    BY <1>2
  <2> QED BY <1>3, <2>1, InHand
<1>5. /\ acked' \in [Keys -> Nat] /\ acked'[s] \in {acked[s], latest[s]}
      /\ \A k \in Keys \ {s} : acked'[k] = acked[k]
      /\ acked'[s] # acked[s] => acked'[s] = latest[s] /\ (retain = t => p = "reported")
  <2>1. acked \in [Keys -> Nat]
    BY DEF CacheInv, CacheTypes
  <2> QED BY <1>1, <1>2, <1>4, <2>1
<1>6. /\ Sound(disk[s], acked'[s], remote[s], latest[s])
      /\ retain # t /\ acked[s] <= remote[s] => acked'[s] <= remote[s]
  <2>1. CASE acked'[s] = acked[s]
    BY <1>4, <2>1
  <2>2. CASE acked'[s] # acked[s]
    <3>1. acked'[s] = latest[s] /\ (retain = t => p = "reported")
      BY <1>5, <2>2
    <3>2. retain # t => remote[s] = latest[s]
      BY <1>2, <1>4 DEF Fit, Landed, Returning
    <3>3. p = "reported" => disk[s].payload = latest[s] /\ (retain = t => disk[s].mark # "no")
      BY <1>4 DEF Fit
    <3>4. p = "invalidated" /\ Unlinks => disk[s].payload = 0
      BY <1>4 DEF Fit
    <3>5. remote[s] <= latest[s] /\ disk[s].payload <= latest[s] /\ disk[s].payload \in Nat
      BY <1>4 DEF Sound, SlotType
    <3> QED BY <1>2, <1>4, <3>1, <3>2, <3>3, <3>4, <3>5 DEF Sound, Readable
  <2> QED BY <2>1, <2>2
<1>7. th[t].pc \in Steady \ {"seal"} /\ s \in Keys
  BY <1>2, <1>3, <1>4
<1>8. leased' \in [Keys -> Nat]
  BY <1>1 DEF CacheInv, CacheTypes
<1>9. \E out \in {"ok", "err", "unpruned"} : Ends(t, out) \/ Prunes(t)
  BY <1>1
<1> HIDE DEF s
<1> QED BY <1>1, <1>5, <1>6, <1>7, <1>8, <1>9, LeaveStep DEF s

(* The slot of an older generation, and a pruner's. *)
LEMMA KeepsFrees ==
  ASSUME CacheInv, NEW t \in Threads, FreesOld(t) \/ FreesVictim(t)
  PROVE  CacheInv'
<1> DEFINE s == th[t].slot
<1>1. /\ UNCHANGED <<disk, stores, retain, acct, walk, proc>> /\ Frees(s)
      /\ \/ /\ th[t].pc = "old freed"
            /\ th' = [th EXCEPT ![t].slot = th[t].key, ![t].pc = "release"]
         \/ /\ th[t].pc = "evicted"
            /\ th' = [th EXCEPT ![t].slot = Nobody, ![t].pc = "evict"]
  BY DEF FreesOld, FreesVictim, Slot, At
<1>2. CacheTypes /\ ThreadInv(t) /\ th \in [Threads -> PlaceType] /\ th[t] \in PlaceType
  BY DEF CacheInv, CacheTypes
<1>3. PICK r \in PlaceType : /\ th' = [th EXCEPT ![t] = r]
                             /\ r.key = th[t].key /\ r.todo = th[t].todo
                             /\ \/ th[t].pc = "old freed" /\ r.pc = "release" /\ r.slot = r.key
                                \/ th[t].pc = "evicted" /\ r.pc = "evict"
  <2>1. CASE th[t].pc = "old freed" /\ th' = [th EXCEPT ![t].slot = th[t].key, ![t].pc = "release"]
    <3> DEFINE r == [th[t] EXCEPT !.slot = th[t].key, !.pc = "release"]
    <3>1. r \in PlaceType /\ r.key = th[t].key /\ r.todo = th[t].todo /\ r.pc = "release" /\ r.slot = r.key
      BY <1>2 DEF PlaceType, Places
    <3>2. th' = [th EXCEPT ![t] = r]
      BY <1>2, <2>1
    <3> QED BY <2>1, <3>1, <3>2
  <2>2. CASE th[t].pc = "evicted" /\ th' = [th EXCEPT ![t].slot = Nobody, ![t].pc = "evict"]
    <3> DEFINE r == [th[t] EXCEPT !.slot = Nobody, !.pc = "evict"]
    <3>1. r \in PlaceType /\ r.key = th[t].key /\ r.todo = th[t].todo /\ r.pc = "evict"
      BY <1>2 DEF PlaceType, Places
    <3>2. th' = [th EXCEPT ![t] = r]
      BY <1>2, <2>2
    <3> QED BY <2>2, <3>1, <3>2
  <2> QED BY <1>1, <2>1, <2>2
<1>4. Moved(t) /\ th'[t] = r
  BY <1>2, <1>3 DEF Moved
<1>5. /\ th[t].pc \in Steady \ {"seal"} /\ th[t].pc \notin Unlocked /\ th[t].pc # "note" /\ Place(t) = th[t].pc
      /\ r.pc \in Unlocked /\ Place(t)' = r.pc
  BY <1>3, <1>4 DEF Steady, Noted, Unlocked, Place
<1>6. /\ s \in Keys /\ disk[s] \in SlotType
      /\ Sound(disk[s], acked[s], remote[s], latest[s])
  BY <1>5, InHand
<1>7. /\ UNCHANGED <<remote, latest, acked, leased>>
      /\ Sound(disk[s], acked'[s], remote[s], latest[s])
  BY <1>1, <1>6 DEF stores
<1>8. CacheTypes'
  <2>1. lock' \in [Keys -> Threads \cup {Nobody}]
    BY <1>1, <1>2 DEF CacheTypes, Frees
  <2>2. /\ disk' \in [Keys -> SlotType] /\ remote' \in [Keys -> Nat] /\ latest' \in [Keys -> Nat]
        /\ acked' \in [Keys -> Nat] /\ leased' \in [Keys -> Nat] /\ retain' \in Threads \cup {Nobody}
        /\ proc' \in [enabled : BOOLEAN, holder : Holders, ops : Nat]
    BY <1>1, <1>2, <1>7 DEF CacheTypes
  <2>3. UNCHANGED <<acct, walk>>
    BY <1>1
  <2> QED BY <1>2, <1>4, <2>1, <2>2, <2>3, TypesStay
<1>9. RetainInv(t)'
  <2>1. CASE th[t].pc = "old freed"
    <3>1. Place(t) \in Retaining
      BY <1>5, <2>1 DEF Retaining
    <3>2. retain = t /\ th[t].key \in Keys /\ r.pc = "release" /\ r.slot = r.key /\ r.key = th[t].key
      BY <1>2, <1>3, <2>1, <3>1 DEF ThreadInv, RetainInv
    <3> HIDE DEF Place
    <3> QED BY <1>1, <1>4, <1>5, <3>2 DEF RetainInv, Retaining
  <2>2. CASE th[t].pc = "evicted"
    <3>1. Place(t) \notin Retaining \cup Returning /\ r.pc = "evict"
      BY <1>3, <1>5, <2>2 DEF Retaining, Returning
    <3>2. retain # t
      BY <1>2, <3>1 DEF ThreadInv, RetainInv
    <3> HIDE DEF Place
    <3> QED BY <1>1, <1>4, <1>5, <3>1, <3>2 DEF RetainInv, Retaining
  <2> QED BY <1>3, <2>1, <2>2
<1>10. TodoInv(t)'
  <2>1. CASE th[t].pc = "old freed"
    <3>1. Place(t) \in Releasing
      BY <1>5, <2>1 DEF Releasing
    <3>2. \A j \in th[t].todo : acked[j] <= remote[j]
      BY <1>2, <3>1 DEF ThreadInv, TodoInv
    <3> QED BY <1>3, <1>4, <1>7, <3>2 DEF TodoInv
  <2>2. CASE th[t].pc = "evicted"
    BY <1>3, <1>5, <2>2 DEF TodoInv, Releasing
  <2> QED BY <1>3, <2>1, <2>2
<1>11. th'[t].pc \in Unlocked /\ s \in Keys /\ UNCHANGED <<disk, remote, latest, acct, walk, retain>>
  BY <1>1, <1>4, <1>5, <1>6, <1>7
<1> HIDE DEF s
<1> QED BY <1>1, <1>4, <1>5, <1>7, <1>8, <1>9, <1>10, <1>11, FreeStep DEF s

-----------------------------------------------------------------------------
(* The steps that take a lock, and those that hold none *)

LEMMA Entering ==
  ASSUME CacheTypes, NEW t \in Threads, NEW k \in Keys, NEW w \in Places, Enters(t, k, w)
  PROVE  /\ Moved(t) /\ th[t].pc = "idle"
         /\ th'[t].pc = w /\ th'[t].key = k /\ th'[t].slot = k
         /\ proc' \in [enabled : BOOLEAN, holder : Holders, ops : Nat]
<1>1. th \in [Threads -> PlaceType] /\ proc \in [enabled : BOOLEAN, holder : Holders, ops : Nat]
  BY DEF CacheTypes
<1> DEFINE r == [Nowhere EXCEPT !.pc = w, !.key = k, !.slot = k]
<1>2. r \in PlaceType /\ r.pc = w /\ r.key = k /\ r.slot = k
  BY DEF Nowhere, PlaceType, Places
<1>3. th' = [th EXCEPT ![t] = r] /\ th[t].pc = "idle" /\ proc.ops > 0 /\ proc' = [proc EXCEPT !.ops = @ - 1]
  BY DEF Enters, At
<1> HIDE DEF r
<1> QED BY <1>1, <1>2, <1>3 DEF Moved

LEMMA KeepsCallLocks ==
  ASSUME CacheInv, NEW t \in Threads, NEW k \in Keys, GetLocks(t, k) \/ PutLocks(t, k)
  PROVE  CacheInv'
<1>1. PICK w : w \in {"look", "put"} /\ Enters(t, k, w)
  BY DEF GetLocks, PutLocks
<1>2. Takes(t, k) /\ UNCHANGED <<disk, stores, retain, acct, walk>>
  BY DEF GetLocks, PutLocks
<1>3. CacheTypes /\ ThreadInv(t) /\ w \in Places
  BY <1>1 DEF CacheInv, Places
<1>4. /\ Moved(t) /\ th[t].pc = "idle" /\ th'[t].pc = w /\ th'[t].slot = k
      /\ proc' \in [enabled : BOOLEAN, holder : Holders, ops : Nat]
  BY <1>1, <1>3, Entering
<1>5. UNCHANGED <<remote, latest, acked, leased>>
  BY <1>2 DEF stores
<1>6. CacheTypes'
  <2>1. lock' \in [Keys -> Threads \cup {Nobody}]
    BY <1>2, <1>3 DEF CacheTypes, Takes
  <2>2. /\ disk' \in [Keys -> SlotType] /\ remote' \in [Keys -> Nat] /\ latest' \in [Keys -> Nat]
        /\ acked' \in [Keys -> Nat] /\ leased' \in [Keys -> Nat] /\ retain' \in Threads \cup {Nobody}
    BY <1>2, <1>3, <1>5 DEF CacheTypes
  <2> QED BY <1>2, <1>3, <1>4, <2>1, <2>2, TypesStay
<1>7. /\ w # "note" /\ w \notin Unlocked /\ th[t].pc \in Unlocked
      /\ w \notin Retaining /\ w \notin Releasing
      /\ Fit(w, disk[k], acked[k], remote[k], latest[k], retain, t)
  BY <1>1, <1>4 DEF Unlocked, Retaining, Releasing, Returning, Fit, Unmarked, Landed
<1>8. retain # t
  <2>1. Place(t) = "idle"
    BY <1>4 DEF Place
  <2>2. Place(t) \notin Retaining \cup Returning
    BY <2>1 DEF Retaining, Returning
  <2> QED BY <1>3, <2>2 DEF ThreadInv, RetainInv
<1>9. RetainInv(t)' /\ TodoInv(t)'
  <2>1. Place(t)' = w
    BY <1>4, <1>7 DEF Place
  <2>2. w \notin {"rows", "release", "adopt"} /\ retain' # t
    BY <1>2, <1>7, <1>8 DEF Retaining
  <2> HIDE DEF Place
  <2> QED BY <1>7, <2>1, <2>2 DEF RetainInv, TodoInv
<1> QED BY <1>2, <1>4, <1>5, <1>6, <1>7, <1>9, TakeStep

LEMMA UnlockedThread ==
  ASSUME CacheInv, NEW t \in Threads, NEW p, p = th[t].pc, p \in Unlocked
  PROVE  /\ CacheTypes /\ Place(t) = p
         /\ p \in {"rows", "release", "adopt"} =>
              retain = t /\ th[t].key \in Keys /\ th[t].slot = th[t].key
         /\ p \notin {"rows", "release", "adopt"} => retain # t
         /\ p = "release" => \A j \in th[t].todo : j \in Keys /\ acked[j] <= remote[j]
<1>1. CacheTypes /\ ThreadInv(t) /\ Place(t) = p
  BY DEF CacheInv, Place, Unlocked
<1>2. p \in {"rows", "release", "adopt"} => retain = t /\ th[t].key \in Keys /\ th[t].slot = th[t].key
  <2>1. p \in {"rows", "release", "adopt"} => p \in Retaining
    BY DEF Retaining
  <2> HIDE DEF Place
  <2> QED BY <1>1, <2>1 DEF ThreadInv, RetainInv
<1>3. p \notin {"rows", "release", "adopt"} => retain # t
  <2>1. p \notin {"rows", "release", "adopt"} => p \notin Retaining \cup Returning
    BY DEF Unlocked, Retaining, Returning
  <2> HIDE DEF Place
  <2> QED BY <1>1, <2>1 DEF ThreadInv, RetainInv
<1>4. p = "release" => \A j \in th[t].todo : j \in Keys /\ acked[j] <= remote[j]
  <2>1. p = "release" => p \in Releasing
    BY DEF Releasing
  <2>2. th[t].todo \subseteq Keys
    BY <1>1 DEF CacheTypes, PlaceType
  <2> HIDE DEF Place
  <2> QED BY <1>1, <2>1, <2>2 DEF ThreadInv, TodoInv
<1> QED BY <1>1, <1>2, <1>3, <1>4

(* The lock of a slot by a thread already in a call. *)
LEMMA CallTakes ==
  ASSUME CacheInv, NEW t \in Threads, NEW s \in Keys, Takes(t, s),
         UNCHANGED <<disk, stores, retain, acct, walk, proc>>,
         NEW r \in PlaceType, th' = [th EXCEPT ![t] = r], r.slot = s,
         \/ th[t].pc = "release" /\ s \in th[t].todo /\ r.pc = "old mark"
            /\ r.todo \subseteq th[t].todo /\ r.key = th[t].key
         \/ th[t].pc = "adopt" /\ r.pc = "own unseal" /\ r.key = th[t].key
         \/ th[t].pc = "evict" /\ r.pc = "check"
  PROVE  CacheInv'
<1>1. CacheTypes /\ th \in [Threads -> PlaceType]
  BY DEF CacheInv, CacheTypes
<1>2. Moved(t) /\ th'[t] = r
  BY <1>1 DEF Moved
<1>3. PICK p : p = th[t].pc /\ p \in {"release", "adopt", "evict"}
  OBVIOUS
<1>4. p \in Unlocked /\ r.pc # "note" /\ r.pc \notin Unlocked
  BY <1>3 DEF Unlocked
<1>5. /\ p \in {"release", "adopt"} => retain = t /\ th[t].key \in Keys
      /\ p = "evict" => retain # t
      /\ p = "release" => \A j \in th[t].todo : acked[j] <= remote[j]
  <2>1. p = th[t].pc
    BY <1>3
  <2> QED BY <1>4, <2>1, UnlockedThread
<1>6. UNCHANGED <<remote, latest, acked, leased>>
  BY DEF stores
<1>7. CacheTypes'
  <2>1. lock' \in [Keys -> Threads \cup {Nobody}]
    BY <1>1 DEF CacheTypes, Takes
  <2>2. /\ disk' \in [Keys -> SlotType] /\ remote' \in [Keys -> Nat] /\ latest' \in [Keys -> Nat]
        /\ acked' \in [Keys -> Nat] /\ leased' \in [Keys -> Nat] /\ retain' \in Threads \cup {Nobody}
        /\ proc' \in [enabled : BOOLEAN, holder : Holders, ops : Nat]
    BY <1>1, <1>6 DEF CacheTypes
  <2> QED BY <1>1, <1>2, <2>1, <2>2, TypesStay
<1>8. Fit(r.pc, disk[s], acked[s], remote[s], latest[s], retain, t)
  BY <1>3, <1>5 DEF Fit, Unmarked, Landed, Returning
<1>9. Place(t)' = r.pc
  BY <1>2, <1>4 DEF Place
<1>10. RetainInv(t)'
  <2>1. /\ r.pc \notin {"rows", "release", "adopt"}
        /\ r.pc \in Retaining => p \in {"release", "adopt"} /\ r.key = th[t].key
        /\ retain = t => r.pc \in Retaining
    BY <1>3, <1>5 DEF Retaining
  <2> HIDE DEF Place
  <2> QED BY <1>2, <1>5, <1>9, <2>1 DEF RetainInv
<1>11. TodoInv(t)'
  <2>1. r.pc \in Releasing => p = "release" /\ r.todo \subseteq th[t].todo
    BY <1>3 DEF Releasing
  <2> HIDE DEF Place
  <2> QED BY <1>2, <1>5, <1>6, <1>9, <2>1 DEF TodoInv
<1>12. th[t].pc \in Unlocked /\ th'[t].pc = r.pc /\ th'[t].slot = s
  BY <1>2, <1>3, <1>4
<1> QED BY <1>2, <1>4, <1>6, <1>7, <1>8, <1>10, <1>11, <1>12, TakeStep

LEMMA KeepsTakes ==
  ASSUME CacheInv, NEW t \in Threads,
         \/ TakesOld(t) /\ lock' # lock
         \/ RetainLocks(t)
         \/ TakesVictim(t) /\ lock' # lock
  PROVE  CacheInv'
<1>1. th \in [Threads -> PlaceType] /\ th[t] \in PlaceType
  BY DEF CacheInv, CacheTypes
<1>2. CASE TakesOld(t) /\ lock' # lock
  <2>1. PICK j \in th[t].todo :
          Takes(t, j) /\ th' = [th EXCEPT ![t].todo = @ \ {j}, ![t].slot = j, ![t].pc = "old mark"]
    BY <1>2 DEF TakesOld
  <2> DEFINE r == [th[t] EXCEPT !.todo = @ \ {j}, !.slot = j, !.pc = "old mark"]
  <2>2. r \in PlaceType /\ r.slot = j /\ r.pc = "old mark" /\ r.todo \subseteq th[t].todo /\ r.key = th[t].key
        /\ j \in Keys
    BY <1>1 DEF PlaceType, Places
  <2>3. th' = [th EXCEPT ![t] = r]
    BY <1>1, <2>1
  <2>4. th[t].pc = "release" /\ UNCHANGED <<disk, stores, retain, acct, walk, proc>>
    BY <1>2 DEF TakesOld, At
  <2> HIDE DEF r
  <2> QED BY <2>1, <2>2, <2>3, <2>4, CallTakes
<1>3. CASE RetainLocks(t)
  <2>1. /\ th[t].pc = "adopt" /\ Takes(t, th[t].slot) /\ Goes(t, "own unseal")
        /\ UNCHANGED <<disk, stores, retain, acct, walk, proc>>
    BY <1>3 DEF RetainLocks, At, Slot
  <2>2. th[t].slot \in Keys
    <3>1. "adopt" \in Unlocked
      BY DEF Unlocked
    <3> QED BY <2>1, <3>1, UnlockedThread
  <2> DEFINE r == [th[t] EXCEPT !.pc = "own unseal"]
  <2>3. r \in PlaceType /\ r.slot = th[t].slot /\ r.pc = "own unseal" /\ r.key = th[t].key
    BY <1>1 DEF PlaceType, Places
  <2>4. th' = [th EXCEPT ![t] = r]
    BY <1>1, <2>1 DEF Goes
  <2> HIDE DEF r
  <2> QED BY <2>1, <2>2, <2>3, <2>4, CallTakes
<1>4. CASE TakesVictim(t) /\ lock' # lock
  <2>1. PICK j \in th[t].todo :
          Takes(t, j) /\ th' = [th EXCEPT ![t].todo = @ \ {j}, ![t].slot = j, ![t].pc = "check"]
    BY <1>4 DEF TakesVictim
  <2> DEFINE r == [th[t] EXCEPT !.todo = @ \ {j}, !.slot = j, !.pc = "check"]
  <2>2. r \in PlaceType /\ r.slot = j /\ r.pc = "check" /\ j \in Keys
    BY <1>1 DEF PlaceType, Places
  <2>3. th' = [th EXCEPT ![t] = r]
    BY <1>1, <2>1
  <2>4. th[t].pc = "evict" /\ UNCHANGED <<disk, stores, retain, acct, walk, proc>>
    BY <1>4 DEF TakesVictim, At
  <2> HIDE DEF r
  <2> QED BY <2>1, <2>2, <2>3, <2>4, CallTakes
<1> QED BY <1>2, <1>3, <1>4

(* Between locks: r is what the thread becomes. *)
LEMMA CallMoves ==
  ASSUME CacheInv, NEW t \in Threads, UNCHANGED <<disk, remote, latest, leased, lock>>,
         acked' \in [Keys -> Nat], \A k \in Keys : acked'[k] \in {0, acked[k]},
         \/ UNCHANGED <<acct, walk>>
         \/ /\ acct' = [acct EXCEPT !.reconciling = TRUE, !.touched = {}]
            /\ walk' = [on |-> TRUE, seen |-> [k \in {} |-> "none"]]
         ,
         proc' \in [enabled : BOOLEAN, holder : Holders, ops : Nat],
         retain' \in Threads \cup {Nobody},
         \A u \in Threads \ {t} : retain' = u <=> retain = u,
         th[t].pc \in Unlocked,
         NEW r \in PlaceType, th' = [th EXCEPT ![t] = r], r.pc \in Unlocked,
         r.pc \in {"rows", "release", "adopt"} =>
           retain' = t /\ r.key \in Keys /\ r.slot = r.key,
         r.pc \notin {"rows", "release", "adopt"} => retain' # t,
         r.pc = "release" => \A j \in r.todo : acked'[j] <= remote[j]
  PROVE  CacheInv'
<1>1. CacheTypes /\ WalkInv /\ th \in [Threads -> PlaceType]
  BY DEF CacheInv, CacheTypes
<1>2. Moved(t) /\ th'[t] = r
  BY <1>1 DEF Moved
<1>3. /\ acct' \in AcctType /\ acct'.live = acct.live /\ \A k \in Keys : acct'.rows[k] = acct.rows[k]
      /\ acct'.missed = acct.missed
      /\ UNCHANGED <<acct, walk>> \/ DOMAIN walk'.seen = {}
      /\ walk' = [on |-> walk'.on, seen |-> walk'.seen] /\ walk'.on \in BOOLEAN
      /\ DOMAIN walk'.seen \subseteq Keys
      /\ \A k \in DOMAIN walk'.seen : walk'.seen[k] \in RowType
      /\ WalkInv'
  <2>1. CASE UNCHANGED <<acct, walk>>
    BY <1>1, <2>1 DEF CacheTypes, WalkInv
  <2>2. CASE /\ acct' = [acct EXCEPT !.reconciling = TRUE, !.touched = {}]
             /\ walk' = [on |-> TRUE, seen |-> [k \in {} |-> "none"]]
    <3>1. /\ acct' \in AcctType /\ acct'.live = acct.live /\ acct'.rows = acct.rows
          /\ acct'.missed = acct.missed /\ acct'.reconciling = TRUE /\ acct'.touched = {}
      BY <1>1, <2>2 DEF CacheTypes, AcctType
    <3>2. walk'.on = TRUE /\ walk'.seen = [k \in {} |-> "none"] /\ DOMAIN walk'.seen = {}
      BY <2>2
    <3> QED BY <2>2, <3>1, <3>2 DEF WalkInv
  <2> QED BY <2>1, <2>2
<1>4. CacheTypes'
  BY <1>1, <1>2, <1>3 DEF CacheTypes, Moved
<1>5. Place(t)' = r.pc
  BY <1>2 DEF Place, Unlocked
<1>6. RetainInv(t)' /\ TodoInv(t)'
  <2>1. /\ r.pc \in Retaining => r.pc \in {"rows", "release", "adopt"}
        /\ r.pc \in {"rows", "release", "adopt"} => r.pc \in Retaining
        /\ r.pc \in Releasing => r.pc = "release"
    BY DEF Unlocked, Retaining, Releasing
  <2> HIDE DEF Place
  <2>2. RetainInv(t)'
    BY <1>2, <1>5, <2>1 DEF RetainInv
  <2>3. TodoInv(t)'
    BY <1>2, <1>5, <2>1 DEF TodoInv
  <2> QED BY <2>2, <2>3
<1>7. th'[t].pc \in Unlocked
  BY <1>2
<1> QED BY <1>2, <1>3, <1>4, <1>6, <1>7, BareStep

LEMMA KeepsRetention ==
  ASSUME CacheInv, NEW t \in Threads,
         \/ \E k \in Keys : RetainEnters(t, k)
         \/ FindsSuperseded(t)
         \/ TakesOld(t) /\ lock' = lock
         \/ Tallies(t)
  PROVE  CacheInv'
<1>1. /\ CacheTypes /\ th \in [Threads -> PlaceType] /\ th[t] \in PlaceType /\ t # Nobody
      /\ acked \in [Keys -> Nat] /\ remote \in [Keys -> Nat]
      /\ lock \in [Keys -> Threads \cup {Nobody}] /\ retain \in Threads \cup {Nobody}
      /\ proc \in [enabled : BOOLEAN, holder : Holders, ops : Nat]
  BY CacheAssumption DEF CacheInv, CacheTypes
<1>2. /\ "idle" \in Unlocked /\ "rows" \in Unlocked /\ "release" \in Unlocked /\ "adopt" \in Unlocked
  BY DEF Unlocked
<1>3. ASSUME NEW k \in Keys, RetainEnters(t, k) PROVE CacheInv'
  <2>1. /\ th[t].pc = "idle" /\ retain = Nobody /\ retain' = t
        /\ UNCHANGED <<disk, remote, latest, acked, leased, lock, acct, walk>>
        /\ Enters(t, k, "rows")
    BY <1>3 DEF RetainEnters, Enters, At, stores
  <2> DEFINE r == [Nowhere EXCEPT !.pc = "rows", !.key = k, !.slot = k]
  <2>2. r \in PlaceType /\ r.pc = "rows" /\ r.key = k /\ r.slot = k
    BY DEF Nowhere, PlaceType, Places
  <2>3. th' = [th EXCEPT ![t] = r]
    BY <2>1 DEF Enters
  <2>4. proc' \in [enabled : BOOLEAN, holder : Holders, ops : Nat]
    BY <1>1, <2>1 DEF Enters
  <2>5. \A u \in Threads \ {t} : retain' = u <=> retain = u
    BY <2>1, CacheAssumption
  <2>6. acked' \in [Keys -> Nat] /\ \A j \in Keys : acked'[j] \in {0, acked[j]}
    BY <1>1, <2>1
  <2>7. /\ UNCHANGED <<disk, remote, latest, leased, lock>> /\ UNCHANGED <<acct, walk>>
        /\ retain' \in Threads \cup {Nobody} /\ th[t].pc \in Unlocked /\ r.pc \in Unlocked
        /\ r.pc # "release" /\ retain' = t /\ r.key \in Keys /\ r.slot = r.key
        /\ r.pc \in {"rows", "release", "adopt"}
    BY <1>1, <1>2, <2>1, <2>2
  <2> HIDE DEF r
  <2> QED BY <2>2, <2>3, <2>4, <2>5, <2>6, <2>7, CallMoves
<1>4. CASE FindsSuperseded(t)
  <2>1. /\ th[t].pc = "rows"
        /\ UNCHANGED <<disk, remote, latest, leased, lock, retain, acct, walk, proc>>
    BY <1>4 DEF FindsSuperseded, At, locks
  <2>2. retain = t /\ th[t].key \in Keys /\ th[t].slot = th[t].key
    BY <1>2, <2>1, UnlockedThread
  <2>3. PICK old : old = Superseded(th[t].key)
    OBVIOUS
  <2>4. old \subseteq Keys
    BY <2>3 DEF Superseded, RetainedRows, Rows
  <2>5. /\ acked' = [k \in Keys |-> IF k \in old THEN 0 ELSE acked[k]]
        /\ th' = [th EXCEPT ![t].todo = old, ![t].pc = "release"]
    BY <1>4, <2>3 DEF FindsSuperseded
  <2> DEFINE r == [th[t] EXCEPT !.todo = old, !.pc = "release"]
  <2>6. r \in PlaceType /\ r.pc = "release" /\ r.key = th[t].key /\ r.slot = th[t].slot /\ r.todo = old
    BY <1>1, <2>4 DEF PlaceType, Places
  <2>7. th' = [th EXCEPT ![t] = r]
    BY <1>1, <2>5
  <2>8. acked' \in [Keys -> Nat] /\ \A k \in Keys : acked'[k] \in {0, acked[k]}
    BY <1>1, <2>5
  <2>9. \A j \in r.todo : acked'[j] <= remote[j]
    BY <1>1, <2>4, <2>5, <2>6
  <2> HIDE DEF r
  <2> QED BY <1>1, <1>2, <2>1, <2>2, <2>6, <2>7, <2>8, <2>9, CallMoves
<1>5. CASE TakesOld(t) /\ lock' = lock
  <2>1. /\ th[t].pc = "release"
        /\ UNCHANGED <<disk, remote, latest, acked, leased, lock, retain, acct, walk, proc>>
    BY <1>5 DEF TakesOld, At, stores
  <2>2. retain = t /\ th[t].key \in Keys /\ th[t].slot = th[t].key
        /\ \A j \in th[t].todo : j \in Keys /\ acked[j] <= remote[j]
    BY <1>2, <2>1, UnlockedThread
  <2>3. PICK j \in th[t].todo : Takes(t, j) \/ th' = [th EXCEPT ![t].todo = @ \ {j}]
    BY <1>5 DEF TakesOld
  <2>4. ~Takes(t, j)
    BY <1>1, <1>5, <2>2 DEF Takes
  <2> DEFINE r == [th[t] EXCEPT !.todo = @ \ {j}]
  <2>5. r \in PlaceType /\ r.pc = "release" /\ r.key = th[t].key /\ r.slot = th[t].slot
        /\ r.todo \subseteq th[t].todo
    BY <1>1, <2>1 DEF PlaceType
  <2>6. th' = [th EXCEPT ![t] = r]
    BY <1>1, <2>3, <2>4
  <2>7. acked' \in [Keys -> Nat] /\ \A k \in Keys : acked'[k] \in {0, acked[k]}
    BY <1>1, <2>1
  <2>8. \A i \in r.todo : acked'[i] <= remote[i]
    BY <2>1, <2>2, <2>5
  <2> HIDE DEF r
  <2> QED BY <1>1, <1>2, <2>1, <2>2, <2>5, <2>6, <2>7, <2>8, CallMoves
<1>6. CASE Tallies(t)
  <2>1. /\ th[t].pc = "release"
        /\ UNCHANGED <<disk, remote, latest, acked, leased, lock, acct, walk, proc>>
    BY <1>6 DEF Tallies, At, stores
  <2>2. retain = t /\ th[t].key \in Keys /\ th[t].slot = th[t].key
    BY <1>2, <2>1, UnlockedThread
  <2>3. acked' \in [Keys -> Nat] /\ \A k \in Keys : acked'[k] \in {0, acked[k]}
    BY <1>1, <2>1
  <2>4. CASE Goes(t, "adopt") /\ UNCHANGED retain
    <3> DEFINE r == [th[t] EXCEPT !.pc = "adopt"]
    <3>1. r \in PlaceType /\ r.pc = "adopt" /\ r.key = th[t].key /\ r.slot = th[t].slot
      BY <1>1 DEF PlaceType, Places
    <3>2. th' = [th EXCEPT ![t] = r]
      BY <1>1, <2>4 DEF Goes
    <3> HIDE DEF r
    <3> QED BY <1>1, <1>2, <2>1, <2>2, <2>3, <2>4, <3>1, <3>2, CallMoves
  <2>5. CASE Ends(t, "err") /\ retain' = Nobody
    <3> DEFINE r == [Nowhere EXCEPT !.out = "err"]
    <3>1. r \in PlaceType /\ r.pc = "idle"
      BY DEF Nowhere, PlaceType, Places
    <3>2. th' = [th EXCEPT ![t] = r]
      BY <2>5 DEF Ends
    <3>3. \A u \in Threads \ {t} : retain' = u <=> retain = u
      BY <2>2, <2>5, CacheAssumption
    <3> HIDE DEF r
    <3> QED BY <1>1, <1>2, <2>1, <2>3, <2>5, <3>1, <3>2, <3>3, CallMoves
  <2> QED BY <1>6, <2>4, <2>5 DEF Tallies
<1> QED BY <1>3, <1>4, <1>5, <1>6

LEMMA KeepsPruning ==
  ASSUME CacheInv, NEW t \in Threads,
         \/ TakesBatch(t)
         \/ TakesVictim(t) /\ lock' = lock
         \/ PruneEnds(t) \/ ReconcileFallsDue(t)
  PROVE  CacheInv'
<1>1. /\ CacheTypes /\ th \in [Threads -> PlaceType] /\ th[t] \in PlaceType /\ t # Nobody
      /\ acked \in [Keys -> Nat] /\ lock \in [Keys -> Threads \cup {Nobody}]
      /\ retain \in Threads \cup {Nobody}
      /\ proc \in [enabled : BOOLEAN, holder : Holders, ops : Nat]
  BY CacheAssumption DEF CacheInv, CacheTypes
<1>2. /\ UNCHANGED <<disk, remote, latest, acked, leased, lock, retain, proc>>
      /\ th[t].pc \in {"batch", "evict", "due"}
      /\ \/ UNCHANGED <<acct, walk>>
         \/ /\ acct' = [acct EXCEPT !.reconciling = TRUE, !.touched = {}]
            /\ walk' = [on |-> TRUE, seen |-> [k \in {} |-> "none"]]
  BY DEF TakesBatch, TakesVictim, PruneEnds, ReconcileFallsDue, At, stores, locks
<1>3. th[t].pc \in Unlocked
  BY <1>2 DEF Unlocked
<1>4. retain' # t
  <2>1. PICK p : p = th[t].pc /\ p \in Unlocked /\ p \notin {"rows", "release", "adopt"}
    BY <1>2, <1>3
  <2>2. retain # t
    BY <2>1, UnlockedThread
  <2> QED BY <1>2, <2>2
<1>5. acked' \in [Keys -> Nat] /\ \A k \in Keys : acked'[k] \in {0, acked[k]}
  BY <1>1, <1>2
<1>6. PICK r \in PlaceType : th' = [th EXCEPT ![t] = r] /\ r.pc \in {"idle", "batch", "evict", "due"}
  <2>1. CASE PruneEnds(t) \/ ReconcileFallsDue(t)
    <3>1. PICK out \in {"ok", "err", "unpruned"} : Ends(t, out)
      BY <1>1, <2>1 DEF PruneEnds, ReconcileFallsDue, Pruned, PlaceType
    <3> DEFINE r == [Nowhere EXCEPT !.out = out]
    <3>2. r \in PlaceType /\ r.pc = "idle"
      BY DEF Nowhere, PlaceType, Places
    <3>3. th' = [th EXCEPT ![t] = r]
      BY <3>1 DEF Ends
    <3> QED BY <3>2, <3>3
  <2>2. CASE TakesBatch(t)
    <3>1. CASE th' = [th EXCEPT ![t] = [Nowhere EXCEPT !.pc = "due", !.out = th[t].out]]
      <4> DEFINE r == [Nowhere EXCEPT !.pc = "due", !.out = th[t].out]
      <4>1. r \in PlaceType /\ r.pc = "due"
        BY <1>1 DEF Nowhere, PlaceType, Places
      <4> QED BY <3>1, <4>1
    <3>2. CASE \E b \in Batches(t) :
                 th' = [th EXCEPT ![t].pc = "evict", ![t].todo = b, ![t].tried = @ \cup b]
      <4>1. PICK b \in Batches(t) :
                 th' = [th EXCEPT ![t].pc = "evict", ![t].todo = b, ![t].tried = @ \cup b]
        BY <3>2
      <4>2. b \subseteq Keys
        BY <4>1 DEF Batches, Evictable, Rows
      <4> DEFINE r == [th[t] EXCEPT !.pc = "evict", !.todo = b, !.tried = @ \cup b]
      <4>3. r \in PlaceType /\ r.pc = "evict"
        BY <1>1, <4>2 DEF PlaceType, Places
      <4>4. th' = [th EXCEPT ![t] = r]
        BY <1>1, <4>1
      <4> QED BY <4>3, <4>4
    <3> QED BY <2>2, <3>1, <3>2 DEF TakesBatch
  <2>3. CASE TakesVictim(t) /\ lock' = lock
    <3>1. CASE Goes(t, "batch")
      <4> DEFINE r == [th[t] EXCEPT !.pc = "batch"]
      <4>1. r \in PlaceType /\ r.pc = "batch"
        BY <1>1 DEF PlaceType, Places
      <4>2. th' = [th EXCEPT ![t] = r]
        BY <1>1, <3>1 DEF Goes
      <4> QED BY <4>1, <4>2
    <3>2. CASE ~Goes(t, "batch")
      <4>1. PICK j \in th[t].todo : Takes(t, j) \/ th' = [th EXCEPT ![t].todo = @ \ {j}]
        BY <2>3, <3>2 DEF TakesVictim
      <4>2. j \in Keys
        BY <1>1 DEF PlaceType
      <4>3. ~Takes(t, j)
        BY <1>1, <2>3, <4>2 DEF Takes
      <4> DEFINE r == [th[t] EXCEPT !.todo = @ \ {j}]
      <4>4. r \in PlaceType /\ r.pc = "evict"
        BY <1>1, <2>3 DEF PlaceType, TakesVictim, At
      <4>5. th' = [th EXCEPT ![t] = r]
        BY <1>1, <4>1, <4>3
      <4> QED BY <4>4, <4>5
    <3> QED BY <3>1, <3>2
  <2> QED BY <2>1, <2>2, <2>3
<1>7. r.pc \in Unlocked /\ r.pc \notin {"rows", "release", "adopt"}
  BY <1>6 DEF Unlocked
<1> QED BY <1>1, <1>2, <1>3, <1>4, <1>5, <1>6, <1>7, CallMoves

(* _note writes the slot in hand to the account, and the walk is told. *)
LEMMA KeepsNote ==
  ASSUME CacheInv, NEW t \in Threads, Note(t)
  PROVE  CacheInv'
<1>1. CacheTypes /\ ThreadInv(t) /\ WalkInv /\ th \in [Threads -> PlaceType] /\ acct \in AcctType
  BY DEF CacheInv, CacheTypes
<1>2. /\ th[t].pc = "note" /\ acct.live /\ Goes(t, th[t].then)
      /\ UNCHANGED <<disk, remote, latest, acked, leased, lock, retain, walk, proc>>
  BY DEF Note, At, stores, locks
<1>3. PICK w : w = th[t].then /\ w \in Noted
  BY <1>1, <1>2 DEF ThreadInv, LockInv
<1>4. w \in Places /\ w # "note" /\ w \notin Unlocked /\ w \in Steady /\ "note" \notin Unlocked
  BY <1>3 DEF Noted, Places, Unlocked, Steady
<1>5. Moved(t) /\ Keeps(t) /\ th'[t].pc = w /\ th'[t].then = w
  BY <1>1, <1>2, <1>3, <1>4, Going
<1>6. Place(t) = w /\ Place(t)' = w
  BY <1>2, <1>3, <1>4, <1>5 DEF Place
<1>7. PICK s : s = th[t].slot /\ s \in Keys /\ \A k \in Keys : lock[k] = t <=> k = s
  BY <1>1, <1>2, <1>4 DEF ThreadInv, LockInv
<1>8. PICK row : row = DiskRow(s) /\ row \in RowType
  BY DEF DiskRow, RowType
<1>9. /\ acct' \in AcctType /\ acct'.live = acct.live /\ acct'.reconciling = acct.reconciling
      /\ acct'.rows[s] = row /\ \A k \in Keys \ {s} : acct'.rows[k] = acct.rows[k]
      /\ acct'.missed = acct.missed \ {s} /\ acct.touched \subseteq acct'.touched
      /\ acct.reconciling => s \in acct'.touched
  <2>1. acct' = [acct EXCEPT !.rows[s] = row,
                             !.touched = IF acct.reconciling THEN @ \cup {s} ELSE @,
                             !.missed = @ \ {s}]
    BY <1>7, <1>8 DEF Note, PutRow, Slot
  <2> QED BY <1>1, <1>7, <1>8, <2>1 DEF AcctType
<1>10. CacheTypes'
  BY <1>1, <1>2, <1>5, <1>9 DEF CacheTypes, Moved
<1>11. WalkInv'
  BY <1>1, <1>2, <1>9 DEF WalkInv
<1>12. Frame(t)
  <2>1. \A k \in Keys : acked[k] \in {0, acked[k]}
    OBVIOUS
  <2> QED BY <1>2, <1>5, <1>7, <1>9, <2>1 DEF Frame
<1>13. ThreadInv(t)'
  <2>1. LockInv(t)'
    BY <1>1, <1>2, <1>4, <1>5, <1>7 DEF ThreadInv, LockInv, Keeps
  <2> HIDE DEF Place
  <2>2. RetainInv(t)'
    BY <1>1, <1>2, <1>5, <1>6 DEF ThreadInv, RetainInv, Keeps
  <2>3. HoldInv(t)'
    BY <1>1, <1>2, <1>4, <1>5, <1>6 DEF ThreadInv, HoldInv, Keeps
  <2>4. TodoInv(t)'
    BY <1>1, <1>2, <1>5, <1>6 DEF ThreadInv, TodoInv, Keeps
  <2> QED BY <2>1, <2>2, <2>3, <2>4 DEF ThreadInv
<1>14. ObjectInv(s)' /\ RowInv(s)'
  <2>1. ObjectInv(s)'
    BY <1>2, <1>7 DEF CacheInv, ObjectInv
  <2>2. DiskRow(s)' = row
    BY <1>2, <1>8 DEF DiskRow
  <2> HIDE DEF Still, DiskRow
  <2>3. walk.on => acct.reconciling
    BY <1>1, <1>2 DEF WalkInv
  <2> QED BY <1>2, <1>9, <2>1, <2>2, <2>3 DEF RowInv, Counts
<1> QED BY <1>7, <1>10, <1>11, <1>12, <1>13, <1>14, StepKeeps

-----------------------------------------------------------------------------
(* The walk *)

LEMMA WalkStep ==
  ASSUME CacheInv, UNCHANGED <<disk, stores, locks, th, proc>>, acct' \in AcctType,
         walk' = [on |-> walk'.on, seen |-> walk'.seen], walk'.on \in BOOLEAN,
         DOMAIN walk'.seen \subseteq Keys, \A k \in DOMAIN walk'.seen : walk'.seen[k] \in RowType,
         WalkInv', \A k \in Keys : RowInv(k)'
  PROVE  CacheInv'
<1>1. UNCHANGED <<disk, remote, latest, acked, leased, lock, retain, th, proc>>
  BY DEF stores, locks
<1>2. CacheTypes'
  BY <1>1 DEF CacheInv, CacheTypes
<1>3. ASSUME NEW t \in Threads PROVE ThreadInv(t)'
  <2>1. ThreadInv(t)
    BY DEF CacheInv
  <2> QED BY <1>1, <2>1 DEF ThreadInv, LockInv, RetainInv, HoldInv, TodoInv, Place
<1>4. ASSUME NEW k \in Keys PROVE ObjectInv(k)'
  <2>1. ObjectInv(k)
    BY DEF CacheInv
  <2> QED BY <1>1, <2>1 DEF ObjectInv
<1> QED BY <1>2, <1>3, <1>4 DEF CacheInv

LEMMA KeepsWalks ==
  ASSUME CacheInv, Walks \/ \E t \in Threads : SeedStarts(t)
  PROVE  CacheInv'
<1>1. /\ CacheTypes /\ WalkInv /\ acct \in AcctType /\ \A k \in Keys : RowInv(k)
      /\ walk = [on |-> walk.on, seen |-> walk.seen] /\ walk.on \in BOOLEAN
      /\ DOMAIN walk.seen \subseteq Keys /\ \A k \in DOMAIN walk.seen : walk.seen[k] \in RowType
  BY DEF CacheInv, CacheTypes
<1>2. UNCHANGED <<disk, stores, locks, th, proc>>
  BY DEF Walks, WalkReads, WalkLoads, WalkFails, SeedStarts
<1>m. acct'.missed = acct.missed
  BY <1>1 DEF Walks, WalkReads, WalkLoads, WalkFails, SeedStarts, AcctType
<1>3. \A k \in Keys : /\ DiskRow(k)' = DiskRow(k) /\ (Still(k)' <=> Still(k)) /\ DiskRow(k) \in RowType
                      /\ (Untold(k)' <=> Untold(k))
  BY <1>2, <1>m DEF DiskRow, Still, Untold, RowType, locks
<1> DEFINE E == [k \in {} |-> "none"]
<1>4. DOMAIN E = {} /\ \A k \in DOMAIN E : E[k] \in RowType
  OBVIOUS
<1> HIDE DEF DiskRow, Still, Untold
<1>5. CASE \E t \in Threads : SeedStarts(t)
  <2>1. ~acct.live /\ walk' = [on |-> TRUE, seen |-> E] /\ acct' = acct
    BY <1>5 DEF SeedStarts, NoWalk
  <2> HIDE DEF E
  <2>2. walk'.seen = E /\ walk'.on = TRUE
    BY <2>1
  <2>3. WalkInv' /\ \A k \in Keys : RowInv(k)'
    BY <1>1, <1>3, <1>4, <2>1, <2>2 DEF WalkInv, RowInv, Counts
  <2> QED BY <1>1, <1>2, <1>4, <2>1, <2>2, <2>3, WalkStep
<1>6. CASE WalkReads
  <2>1. PICK k : k = CHOOSE j \in Keys : j \notin DOMAIN walk.seen
    OBVIOUS
  <2>2. k \in Keys
    BY <1>1, <1>6, <2>1 DEF WalkReads
  <2>3. PICK row : row = DiskRow(k) /\ row \in RowType
    BY <1>3, <2>2
  <2>4. walk' = [walk EXCEPT !.seen = [j \in DOMAIN @ \cup {k} |-> IF j = k THEN row ELSE @[j]]]
        /\ acct' = acct
    BY <1>6, <2>1, <2>3 DEF WalkReads
  <2>5. /\ walk' = [on |-> walk'.on, seen |-> walk'.seen] /\ walk'.on = walk.on
        /\ DOMAIN walk'.seen = DOMAIN walk.seen \cup {k}
        /\ walk'.seen[k] = row /\ \A j \in DOMAIN walk.seen \ {k} : walk'.seen[j] = walk.seen[j]
    BY <1>1, <2>4
  <2>6. \A j \in DOMAIN walk'.seen : walk'.seen[j] \in RowType
    BY <1>1, <2>3, <2>5
  <2>7. WalkInv'
    BY <1>1, <2>4, <2>5 DEF WalkInv
  <2>8. ASSUME NEW j \in Keys PROVE RowInv(j)'
    <3>1. /\ RowInv(j) /\ DiskRow(j)' = DiskRow(j) /\ (Still(j)' <=> Still(j))
          /\ (Untold(j)' <=> Untold(j))
      BY <1>1, <1>3
    <3>2. CASE j = k
      BY <2>3, <2>4, <2>5, <3>1, <3>2 DEF RowInv, Counts
    <3>3. CASE j # k
      BY <2>4, <2>5, <3>1, <3>3 DEF RowInv, Counts
    <3> QED BY <3>2, <3>3
  <2> QED BY <1>1, <1>2, <2>2, <2>4, <2>5, <2>6, <2>7, <2>8, WalkStep
<1>7. CASE WalkLoads
  <2>1. /\ walk.on /\ DOMAIN walk.seen = Keys /\ walk' = [on |-> FALSE, seen |-> E]
        /\ acct' = [live |-> TRUE, reconciling |-> FALSE, touched |-> {}, missed |-> acct.missed,
                    rows |-> [k \in Keys |-> IF k \in acct.touched THEN acct.rows[k] ELSE walk.seen[k]]]
    BY <1>7 DEF WalkLoads, NoWalk
  <2> HIDE DEF E
  <2>2. walk'.seen = E /\ walk'.on = FALSE
    BY <2>1
  <2>3. /\ acct' \in AcctType /\ acct'.live = TRUE /\ acct'.touched = {}
        /\ \A k \in Keys : acct'.rows[k] = IF k \in acct.touched THEN acct.rows[k] ELSE walk.seen[k]
    BY <1>1, <2>1 DEF AcctType
  <2>4. WalkInv'
    BY <2>2, <2>3 DEF WalkInv
  <2>5. ASSUME NEW k \in Keys PROVE RowInv(k)'
    <3>1. /\ RowInv(k) /\ DiskRow(k)' = DiskRow(k) /\ (Still(k)' <=> Still(k))
          /\ (Untold(k)' <=> Untold(k))
      BY <1>1, <1>3
    <3>2. Still(k) => Counts(k, acct'.rows[k])
      <4>1. CASE k \in acct.touched
        BY <1>1, <2>3, <3>1, <4>1 DEF RowInv, WalkInv
      <4>2. CASE k \notin acct.touched
        BY <2>1, <2>3, <3>1, <4>2 DEF RowInv
      <4> QED BY <4>1, <4>2
    <3> QED BY <1>m, <2>2, <3>1, <3>2 DEF RowInv, Counts
  <2> QED BY <1>1, <1>2, <1>4, <2>1, <2>2, <2>3, <2>4, <2>5, WalkStep
<1>8. CASE WalkFails
  <2>1. acct.live /\ acct' = [acct EXCEPT !.reconciling = FALSE] /\ walk' = [on |-> FALSE, seen |-> E]
    BY <1>8 DEF WalkFails, NoWalk
  <2> HIDE DEF E
  <2>2. walk'.seen = E /\ walk'.on = FALSE
    BY <2>1
  <2>3. acct' \in AcctType /\ acct'.live = acct.live /\ acct'.rows = acct.rows
    BY <1>1, <2>1 DEF AcctType
  <2>4. WalkInv' /\ \A k \in Keys : RowInv(k)'
    BY <1>1, <1>3, <1>m, <2>1, <2>2, <2>3 DEF WalkInv, RowInv, Counts
  <2> QED BY <1>1, <1>2, <1>4, <2>1, <2>2, <2>3, <2>4, WalkStep
<1> QED BY <1>5, <1>6, <1>7, <1>8 DEF Walks

-----------------------------------------------------------------------------
(* The process is born and dies *)

(* With no call under way and no account, only the objects need to be sound. *)
LEMMA Fresh ==
  ASSUME CacheTypes, acct = NoAccount, walk = NoWalk, \A k \in Keys : lock[k] = Nobody,
         retain = Nobody, \A t \in Threads : th[t] = Nowhere, \A k \in Keys : ObjectInv(k)
  PROVE  CacheInv
<1>1. ~acct.live /\ acct.touched = {} /\ acct.missed = {} /\ ~walk.on
  BY DEF NoAccount, NoWalk
<1>2. Nowhere.pc = "idle"
  BY DEF Nowhere
<1>3. ASSUME NEW t \in Threads PROVE ThreadInv(t)
  <2>1. th[t].pc = "idle" /\ Place(t) = "idle" /\ t # Nobody
    BY <1>2, CacheAssumption DEF Place
  <2> HIDE DEF Place
  <2>2. LockInv(t)
    BY <2>1 DEF LockInv, Unlocked
  <2>3. RetainInv(t) /\ HoldInv(t) /\ TodoInv(t)
    BY <2>1 DEF RetainInv, HoldInv, TodoInv, Unlocked, Retaining, Releasing
  <2> QED BY <2>2, <2>3 DEF ThreadInv
<1>4. WalkInv /\ \A k \in Keys : RowInv(k)
  BY <1>1 DEF WalkInv, RowInv
<1> QED BY <1>3, <1>4 DEF CacheInv

LEMMA FreshTypes ==
  /\ NoAccount \in AcctType /\ NoWalk = [on |-> NoWalk.on, seen |-> NoWalk.seen] /\ NoWalk.on \in BOOLEAN
  /\ DOMAIN NoWalk.seen \subseteq Keys /\ \A k \in DOMAIN NoWalk.seen : NoWalk.seen[k] \in RowType
  /\ Nowhere \in PlaceType
BY DEF NoAccount, AcctType, RowType, NoWalk, Nowhere, PlaceType, Places

LEMMA Starts ==
  ASSUME Init
  PROVE  CacheInv
<1>1. CacheTypes
  <2>1. remote \in [Keys -> Nat]
    BY DEF Init
  <2>2. latest = remote /\ acked = remote
    BY DEF Init
  <2>3. disk \in [Keys -> SlotType] /\ leased \in [Keys -> Nat]
    BY DEF Init, Empty, SlotType
  <2>4. proc \in [enabled : BOOLEAN, holder : Holders, ops : Nat]
    <3>1. PICK on \in BOOLEAN, who \in Holders : proc = [enabled |-> on, holder |-> who, ops |-> MaxOps]
      BY DEF Init
    <3>2. MaxOps \in Nat
      BY CacheAssumption
    <3> QED BY <3>1, <3>2
  <2>5. /\ lock \in [Keys -> Threads \cup {Nobody}] /\ retain \in Threads \cup {Nobody}
        /\ th \in [Threads -> PlaceType] /\ acct = NoAccount /\ walk = NoWalk
    BY FreshTypes DEF Init
  <2> QED BY <2>1, <2>2, <2>3, <2>4, <2>5, FreshTypes DEF CacheTypes
<1>2. ASSUME NEW k \in Keys PROVE ObjectInv(k)
  <2>1. disk[k].payload = 0 /\ remote[k] \in Nat /\ latest[k] = remote[k] /\ acked[k] = remote[k]
    BY <1>1 DEF Init, Empty, CacheTypes
  <2> QED BY <2>1 DEF ObjectInv, Sound, Readable
<1> QED BY <1>1, <1>2, Fresh DEF Init

LEMMA LeftIsSound ==
  ASSUME CacheInv, NEW k \in Keys, NEW d \in Left(k)
  PROVE  d \in SlotType /\ Sound(d, acked[k], remote[k], latest[k])
<1>1. /\ disk[k] \in SlotType /\ Sound(disk[k], acked[k], remote[k], latest[k])
      /\ lock[k] \in Threads \cup {Nobody}
  BY DEF CacheInv, CacheTypes, ObjectInv
<1>2. CASE lock[k] = Nobody
  <2>1. d = disk[k]
    BY <1>2 DEF Left, Cut
  <2> QED BY <1>1, <2>1
<1>3. CASE lock[k] # Nobody
  <2>1. PICK u \in Threads : u = lock[k]
    BY <1>1, <1>3
  <2>2. PICK p : p = th[u].pc
    OBVIOUS
  <2>3. p \notin Unlocked /\ k = th[u].slot
    BY <2>1, <2>2 DEF CacheInv, ThreadInv, LockInv
  <2>4. d \in Cut(disk[k], p)
    BY <1>3, <2>1, <2>2 DEF Left
  <2>5. CASE p = "note"
    <3>1. d = disk[k]
      BY <2>4, <2>5 DEF Cut
    <3> QED BY <1>1, <3>1
  <2>6. CASE p # "note"
    BY <2>2, <2>3, <2>4, <2>6, CutIsSound
  <2> QED BY <2>5, <2>6
<1> QED BY <1>2, <1>3

LEMMA KeepsDies ==
  ASSUME CacheInv, Dies
  PROVE  CacheInv'
<1>1. /\ acct' = NoAccount /\ walk' = NoWalk /\ lock' = [k \in Keys |-> Nobody] /\ retain' = Nobody
      /\ th' = [t \in Threads |-> Nowhere]
      /\ UNCHANGED <<remote, latest, acked, leased>>
  BY DEF Dies, stores
<1>2. \A k \in Keys : disk'[k] \in Left(k)
  BY DEF Dies
<1>3. DOMAIN disk' = Keys /\ disk' = [k \in Keys |-> disk'[k]]
  <2>1. PICK R : R = UNION {Left(k) : k \in Keys}
    OBVIOUS
  <2>2. disk' \in [Keys -> R]
    BY <2>1 DEF Dies
  <2> QED BY <2>2
<1>4. disk' \in [Keys -> SlotType]
      /\ \A k \in Keys : Sound(disk'[k], acked[k], remote[k], latest[k])
  BY <1>2, <1>3, LeftIsSound
<1>5. proc' \in [enabled : BOOLEAN, holder : Holders, ops : Nat]
  <2>1. proc \in [enabled : BOOLEAN, holder : Holders, ops : Nat] /\ proc.ops > 0
    BY DEF CacheInv, CacheTypes, Dies
  <2>2. PICK on \in BOOLEAN, who \in Holders :
          proc' = [proc EXCEPT !.ops = @ - 1, !.enabled = on, !.holder = who]
    BY DEF Dies
  <2>3. proc.ops - 1 \in Nat
    BY <2>1
  <2>4. proc' = [enabled |-> on, holder |-> who, ops |-> proc.ops - 1]
    BY <2>1, <2>2
  <2> QED BY <2>3, <2>4
<1>6. CacheTypes'
  <2>1. /\ remote' \in [Keys -> Nat] /\ latest' \in [Keys -> Nat]
        /\ acked' \in [Keys -> Nat] /\ leased' \in [Keys -> Nat]
    BY <1>1 DEF CacheInv, CacheTypes
  <2>2. th' \in [Threads -> PlaceType] /\ lock' \in [Keys -> Threads \cup {Nobody}]
        /\ retain' \in Threads \cup {Nobody}
    BY <1>1, FreshTypes
  <2>3. /\ acct' \in AcctType /\ walk' = [on |-> walk'.on, seen |-> walk'.seen] /\ walk'.on \in BOOLEAN
        /\ DOMAIN walk'.seen \subseteq Keys /\ \A k \in DOMAIN walk'.seen : walk'.seen[k] \in RowType
    BY <1>1, FreshTypes
  <2> QED BY <1>4, <1>5, <2>1, <2>2, <2>3 DEF CacheTypes
<1>7. \A k \in Keys : ObjectInv(k)'
  BY <1>1, <1>4 DEF ObjectInv
<1>8. ~acct'.live /\ acct'.touched = {} /\ acct'.missed = {} /\ ~walk'.on /\ Nowhere.pc = "idle"
  BY <1>1 DEF NoAccount, NoWalk, Nowhere
<1>9. ASSUME NEW t \in Threads PROVE ThreadInv(t)'
  <2>1. th'[t].pc = "idle" /\ t # Nobody /\ Place(t)' = "idle"
    BY <1>1, <1>8, CacheAssumption DEF Place
  <2> HIDE DEF Place
  <2>2. LockInv(t)'
    BY <1>1, <2>1 DEF LockInv, Unlocked
  <2>3. RetainInv(t)' /\ HoldInv(t)' /\ TodoInv(t)'
    BY <1>1, <2>1 DEF RetainInv, HoldInv, TodoInv, Unlocked, Retaining, Releasing
  <2> QED BY <2>2, <2>3 DEF ThreadInv
<1>10. WalkInv' /\ \A k \in Keys : RowInv(k)'
  BY <1>8 DEF WalkInv, RowInv
<1> QED BY <1>6, <1>7, <1>9, <1>10 DEF CacheInv

-----------------------------------------------------------------------------
(* Every step *)

LEMMA KeepsAdoption ==
  ASSUME CacheInv, NEW t \in Threads,
         PutAdopts(t) \/ Invalidates(t) \/ Retains(t)
  PROVE  CacheInv'
<1>1. CASE PutAdopts(t)
  BY <1>1, KeepsPutUnseals, KeepsPutUnmarks, KeepsPutSwaps, KeepsPutSeals DEF PutAdopts
<1>2. CASE Invalidates(t)
  BY <1>2, KeepsDropsDone, KeepsDropsPayload, KeepsDropsMark DEF Invalidates
<1>3. CASE Retains(t)
  <2>1. UNCHANGED <<remote, acked, leased, locks, acct, walk, proc>>
    BY <1>3 DEF Retains
  <2>2. CASE OwnUnseals(t) \/ OwnMarks(t) \/ OwnSeals(t)
    <3>1. UNCHANGED <<stores, locks, acct, walk, proc>>
      BY <2>1, <2>2 DEF stores, OwnUnseals, OwnMarks, OwnSeals
    <3> QED BY <2>2, <3>1, KeepsOwnUnseals, KeepsOwnMarks, KeepsOwnSeals
  <2>3. CASE OwnSwaps(t)
    BY <2>1, <2>3, KeepsOwnSwaps
  <2> QED BY <1>3, <2>2, <2>3 DEF Retains
<1> QED BY <1>1, <1>2, <1>3

LEMMA KeepsProceeds ==
  ASSUME CacheInv, NEW t \in Threads, Proceeds(t)
  PROVE  CacheInv'
<1>1. CASE Note(t)
  BY <1>1, KeepsNote
<1>2. CASE GetLooks(t)
  BY <1>2, KeepsGetLooks, KeepsReturns
<1>3. CASE GetHeals(t) \/ GetFetches(t) \/ GetSeals(t)
  BY <1>3, KeepsGetHeals, KeepsGetFetches, KeepsGetSeals DEF GetHeals, GetFetches, GetSeals
<1>4. CASE GetFails(t) \/ GetLeases(t) \/ PutFails(t)
  BY <1>4, KeepsReturns
<1>5. CASE PutLands(t)
  BY <1>5, KeepsPutLands
<1>6. CASE PutAdopts(t) \/ Invalidates(t) \/ Retains(t)
  BY <1>6, KeepsAdoption
<1>7. CASE AdoptionFails(t) \/ RemovalFails(t) \/ GetSealFails(t) \/ ChecksVictim(t)
  BY <1>7, KeepsAdoptionFails, KeepsRemovalFails, KeepsGetSealFails, KeepsUnwritten
<1>8. CASE Reports(t) \/ AfterInvalidation(t)
  BY <1>8, KeepsReports
<1>9. CASE FindsSuperseded(t) \/ Tallies(t)
  BY <1>9, KeepsRetention
<1>10. CASE TakesOld(t)
  BY <1>10, KeepsRetention, KeepsTakes
<1>11. CASE RetainLocks(t)
  BY <1>11, KeepsTakes
<1>12. CASE UnmarksOld(t) \/ RemovesOld(t) \/ RemovesVictim(t)
  BY <1>12, KeepsUnmarksOld, KeepsRemovesOld, KeepsRemovesVictim DEF UnmarksOld, RemovesOld, RemovesVictim
<1>13. CASE FreesOld(t) \/ FreesVictim(t)
  BY <1>13, KeepsFrees
<1>14. CASE RetentionFails(t)
  BY <1>14, KeepsRetentionFails
<1>15. CASE TakesBatch(t) \/ PruneEnds(t) \/ ReconcileFallsDue(t)
  BY <1>15, KeepsPruning
<1>16. CASE TakesVictim(t)
  BY <1>16, KeepsPruning, KeepsTakes
<1>17. CASE SeedStarts(t)
  BY <1>17, KeepsWalks
<1> QED BY <1>1, <1>2, <1>3, <1>4, <1>5, <1>6, <1>7, <1>8, <1>9, <1>10, <1>11, <1>12, <1>13,
           <1>14, <1>15, <1>16, <1>17 DEF Proceeds

LEMMA KeepsStutter ==
  ASSUME CacheInv, UNCHANGED vars
  PROVE  CacheInv'
<1>1. UNCHANGED <<disk, stores, locks, acct, walk, th, proc>>
  BY DEF vars
<1>2. /\ WalkInv /\ \A k \in Keys : RowInv(k)
      /\ acct \in AcctType /\ walk = [on |-> walk.on, seen |-> walk.seen] /\ walk.on \in BOOLEAN
      /\ DOMAIN walk.seen \subseteq Keys /\ \A k \in DOMAIN walk.seen : walk.seen[k] \in RowType
  BY DEF CacheInv, CacheTypes
<1>3. WalkInv' /\ \A k \in Keys : RowInv(k)'
  BY <1>1, <1>2 DEF WalkInv, RowInv, Counts, Untold, Still, DiskRow, locks
<1> QED BY <1>1, <1>2, <1>3, WalkStep

LEMMA KeepsCacheInv ==
  ASSUME CacheInv, [Next]_vars
  PROVE  CacheInv'
<1>1. CASE Dies
  BY <1>1, KeepsDies
<1>2. CASE Rests \/ UNCHANGED vars
  BY <1>2, KeepsStutter DEF Rests
<1>3. CASE Walks
  BY <1>3, KeepsWalks
<1>4. ASSUME NEW t \in Threads, Call(t) PROVE CacheInv'
  BY <1>4, KeepsCallLocks, KeepsRetention DEF Call
<1>5. ASSUME NEW t \in Threads, Proceeds(t) PROVE CacheInv'
  BY <1>5, KeepsProceeds
<1> QED BY <1>1, <1>2, <1>3, <1>4, <1>5 DEF Next

(* The invariant: of every process, and through its death and the next.     *)
THEOREM CacheHolds == Spec => []CacheInv
<1>1. Init => CacheInv
  BY Starts
<1>2. CacheInv /\ [Next]_vars => CacheInv'
  BY KeepsCacheInv
<1> QED BY <1>1, <1>2, PTL DEF Spec

-----------------------------------------------------------------------------
(* An object whose newest reported version the store lacks stays on this    *)
(* disk and marked, until its address is dead: whatever evictions, failed   *)
(* adoptions, releases and deaths interleave (RETENTION_WHY).               *)
THEOREM OnlyCopyIsKept == Spec => []OnlyCopySurvives
<1>1. CacheInv => OnlyCopySurvives
  BY DEF CacheInv, ObjectInv, Sound, OnlyCopySurvives
<1> QED BY <1>1, CacheHolds, PTL

(* Outside a hold of its slot's lock a row of the account is what the disk  *)
(* shows, whenever a reconcile's walk passed the slot and whatever _note    *)
(* wrote meanwhile (_Account.load, `touched`).                              *)
THEOREM AccountIsExact == Spec => []AccountIsTheDisk
<1>1. CacheInv => AccountIsTheDisk
  <2> SUFFICES ASSUME CacheInv, acct.live, NEW k \in Keys, lock[k] = Nobody
               PROVE  acct.rows[k] = DiskRow(k) \/ Unrecorded(k, acct.rows[k])
    BY DEF AccountIsTheDisk
  <2>1. Counts(k, acct.rows[k])
    BY DEF CacheInv, RowInv, Still
  <2> QED BY <2>1 DEF Counts, Untold, Unrecorded
<1> QED BY <1>1, CacheHolds, PTL

-----------------------------------------------------------------------------
(* The share of retained outputs. What the disk shows retained, and the     *)
(* object that the holder of _retain_lock has been granted, fit it; the     *)
(* tally sees every object retained before, because the account knows each. *)

HeldKeys == {k \in Keys : DiskRow(k) = "held"}
Adopting == {"adopt", "own unseal", "own swap", "own mark", "own seal"}
Granted  == {k \in Keys : \E t \in Threads : retain = t /\ th[t].pc \in Adopting /\ th[t].key = k}

(* Between the seal of a retained output, or the failure of one, and the    *)
(* _note of it the disk shows what the account does not.                    *)
Dropping   == {"drop done", "drop payload", "drop mark"}
Undoing(t) == th[t].pc \in Dropping \/ (th[t].pc = "note" /\ th[t].then \in {"reported", "invalidated"})
Sealing(k) == \E t \in Threads : retain = t /\ th[t].slot = k /\ Undoing(t)

OwnInv(t) ==
  /\ th[t].pc \in Adopting => th[t].slot = th[t].key
  /\ th[t].pc \in {"own swap", "own mark", "own seal"} => disk[th[t].slot].done = "no"
  /\ th[t].pc = "own seal" => disk[th[t].slot].mark \in Holders
  /\ Place(t) \in Releasing => acct.live
KnownInv(k) ==
  DiskRow(k) = "held" /\ ~Sealing(k) =>
    /\ acct.live => acct.rows[k] = "held"
    /\ walk.on /\ k \in DOMAIN walk.seen => walk.seen[k] = "held" \/ (acct.live /\ k \in acct.touched)
TornInv(k) == disk[k].mark = "torn" => disk[k].done = "no"

(* Sets of objects that fit the share. *)
Affordable == {ks \in SUBSET Keys : Weight(ks) <= RetainedCap}

ShareInv ==
  /\ \A t \in Threads : OwnInv(t)
  /\ \A k \in Keys : KnownInv(k) /\ TornInv(k)
  /\ HeldKeys \cup Granted \in Affordable

LEMMA WeightIs == \A ks : Weight(ks) = Sums(Size, ks)
BY DEF Weight, Sums

(* Fewer keys weigh less. *)
LEMMA WeightGrows ==
  ASSUME NEW ks \in SUBSET Keys, NEW js \in SUBSET ks
  PROVE  Weight(js) \in Nat /\ Weight(ks) \in Nat /\ Weight(js) <= Weight(ks)
<1>1. IsFiniteSet(ks) /\ \A k \in ks : Size[k] \in Nat
  BY CacheAssumption, FS_Subset
<1> QED BY <1>1, SumGrows, SumIsNat, WeightIs

LEMMA FewerAfford ==
  ASSUME NEW ks \in Affordable, NEW js \in SUBSET ks
  PROVE  js \in Affordable
<1>1. Weight(js) \in Nat /\ Weight(ks) \in Nat /\ Weight(js) <= Weight(ks)
  BY WeightGrows DEF Affordable
<1>2. RetainedCap \in Nat /\ Weight(ks) <= RetainedCap /\ js \in SUBSET Keys
  BY CacheAssumption DEF Affordable
<1>3. Weight(js) <= RetainedCap
  BY <1>1, <1>2
<1> QED BY <1>2, <1>3 DEF Affordable

(* A step that is granted nothing more, and shows nothing more retained but *)
(* what it was granted and could not seal.                                  *)
LEMMA ShareStep ==
  ASSUME CacheInv, CacheInv', ShareInv, NEW t \in Threads, Moved(t),
         acct'.rows = acct.rows, acct'.live = acct.live, acct'.touched = acct.touched, walk' = walk,
         Undoing(t) => \/ Undoing(t)' /\ th'[t].slot = th[t].slot /\ retain' = retain
                       \/ \A k : k = th[t].slot => DiskRow(k)' # "held",
         \A k \in Keys : \/ disk'[k] = disk[k]
                         \/ lock[k] = t /\ DiskRow(k)' # "held" /\ TornInv(k)'
                         \/ lock[k] = t /\ k \in Granted /\ Sealing(k)' /\ TornInv(k)',
         \A u \in Threads \ {t} : retain' = u <=> retain = u,
         retain' = t /\ th'[t].pc \in Adopting =>
            retain = t /\ th[t].pc \in Adopting /\ th'[t].key = th[t].key,
         OwnInv(t)'
  PROVE  ShareInv'
<1>1. /\ th \in [Threads -> PlaceType] /\ t # Nobody
      /\ \A u \in Threads \ {t} : th'[u] = th[u]
      /\ \A u \in Threads : LockInv(u)
  BY CacheAssumption DEF CacheInv, CacheTypes, ThreadInv, Moved
<1>2. \A k \in Keys : disk'[k] = disk[k] => DiskRow(k)' = DiskRow(k) /\ (TornInv(k)' <=> TornInv(k))
  BY DEF DiskRow, TornInv
<1>3. ASSUME NEW u \in Threads, u # t PROVE OwnInv(u)'
  <2>1. th[u].pc \in Adopting \ {"adopt"} => th[u].slot \in Keys /\ lock[th[u].slot] = u
    BY <1>1 DEF LockInv, Adopting, Unlocked
  <2>2. th[u].pc \in {"own swap", "own mark", "own seal"} => disk'[th[u].slot] = disk[th[u].slot]
    BY <1>3, <2>1 DEF Adopting
  <2>3. th'[u] = th[u] /\ OwnInv(u)
    BY <1>1, <1>3 DEF ShareInv
  <2> QED BY <2>2, <2>3 DEF OwnInv, Place
<1>4. ASSUME NEW k \in Keys PROVE /\ KnownInv(k)' /\ TornInv(k)'
                                  /\ DiskRow(k)' = "held" => DiskRow(k) = "held" \/ k \in Granted
  <2>1. KnownInv(k) /\ TornInv(k)
    BY DEF ShareInv
  <2>2. CASE disk'[k] = disk[k]
    <3>1. Sealing(k) => Sealing(k)' \/ DiskRow(k)' # "held"
      <4>1. SUFFICES ASSUME NEW u \in Threads, retain = u, th[u].slot = k, Undoing(u), DiskRow(k)' = "held"
                     PROVE  Sealing(k)'
        BY DEF Sealing
      <4>2. CASE u = t
        <5>1. Undoing(t)' /\ th'[t].slot = k /\ retain' = t
          BY <4>1, <4>2
        <5> QED BY <5>1 DEF Sealing
      <4>3. CASE u # t
        <5>1. th'[u] = th[u] /\ retain' = u
          BY <1>1, <4>1, <4>3
        <5>2. Undoing(u)'
          BY <4>1, <5>1 DEF Undoing
        <5> QED BY <4>1, <5>1, <5>2 DEF Sealing
      <4> QED BY <4>2, <4>3
    <3> HIDE DEF DiskRow, Sealing, TornInv
    <3> QED BY <1>2, <2>1, <2>2, <3>1 DEF KnownInv
  <2>3. CASE DiskRow(k)' # "held" /\ TornInv(k)'
    BY <2>3 DEF KnownInv
  <2>4. CASE k \in Granted /\ Sealing(k)' /\ TornInv(k)'
    BY <2>4 DEF KnownInv
  <2> QED BY <2>2, <2>3, <2>4
<1>5. HeldKeys' \cup Granted' \subseteq HeldKeys \cup Granted
  <2>1. HeldKeys' \subseteq HeldKeys \cup Granted
    BY <1>4 DEF HeldKeys
  <2>2. Granted' \subseteq Granted
    BY <1>1 DEF Granted
  <2> QED BY <2>1, <2>2
<1>6. (HeldKeys \cup Granted)' \in Affordable
  BY <1>5, FewerAfford DEF ShareInv
<1> QED BY <1>3, <1>4, <1>6 DEF ShareInv

-----------------------------------------------------------------------------
(* What a step makes of its thread *)

LEMMA OthersStay ==
  ASSUME CacheInv, CacheInv', NEW t \in Threads, NEW r, th' = [th EXCEPT ![t] = r]
  PROVE  Moved(t) /\ th'[t] = r
BY DEF CacheInv, CacheTypes, Moved

(* Off the way of a retained output, nothing on the disk has changed. *)
LEMMA ShareRests ==
  ASSUME CacheInv, CacheInv', ShareInv, NEW t \in Threads, Moved(t),
         UNCHANGED <<disk, acct, walk>>, ~Undoing(t),
         \A u \in Threads \ {t} : retain' = u <=> retain = u,
         th'[t].pc \notin Adopting, Place(t)' \in Releasing => acct.live
  PROVE  ShareInv'
<1>1. OwnInv(t)'
  <2>1. th'[t].pc \notin {"own swap", "own mark", "own seal"}
    BY DEF Adopting
  <2> HIDE DEF Place
  <2> QED BY <2>1 DEF OwnInv
<1> QED BY <1>1, ShareStep

(* Nor is the slot in hand shown retained when it has. *)
LEMMA ShareWrites ==
  ASSUME CacheInv, CacheInv', ShareInv, NEW t \in Threads, Moved(t),
         UNCHANGED <<retain, acct, walk>>, th[t].pc \notin Unlocked, th[t].pc # "note",
         NEW s, s = th[t].slot, \A k \in Keys \ {s} : disk'[k] = disk[k],
         DiskRow(s)' # "held", TornInv(s)',
         th'[t].pc \notin Adopting, Place(t)' \in Releasing => acct.live
  PROVE  ShareInv'
<1>1. OwnInv(t)'
  <2>1. th'[t].pc \notin {"own swap", "own mark", "own seal"}
    BY DEF Adopting
  <2> HIDE DEF Place
  <2> QED BY <2>1 DEF OwnInv
<1>2. s \in Keys /\ lock[s] = t
  BY InHand
<1>3. \A k \in Keys : disk'[k] = disk[k] \/ (lock[k] = t /\ DiskRow(k)' # "held" /\ TornInv(k)')
  BY <1>2
<1> QED BY <1>1, <1>3, ShareStep

-----------------------------------------------------------------------------
(* The steps that only move on *)

LEMMA ShareCalls ==
  ASSUME CacheInv, CacheInv', ShareInv, NEW t \in Threads, Call(t)
  PROVE  ShareInv'
<1>1. PICK k \in Keys, w \in {"look", "put", "rows"} :
        Enters(t, k, w) /\ (w = "rows" => retain = Nobody /\ retain' = t) /\ (w # "rows" => retain' = retain)
  BY DEF Call, GetLocks, PutLocks, RetainEnters
<1>2. UNCHANGED <<disk, acct, walk>>
  BY DEF Call, GetLocks, PutLocks, RetainEnters
<1>3. w \in Places /\ CacheTypes
  BY DEF Places, CacheInv
<1>4. Moved(t) /\ th[t].pc = "idle" /\ th'[t].pc = w
  BY <1>1, <1>3, Entering
<1>5. \A u \in Threads \ {t} : retain' = u <=> retain = u
  BY <1>1, CacheAssumption
<1>6. Place(t)' = w
  BY <1>4 DEF Place
<1>7. w \notin Adopting /\ w \notin Releasing /\ ~Undoing(t)
  BY <1>4 DEF Adopting, Releasing, Undoing, Dropping
<1> HIDE DEF Place, Undoing
<1> QED BY <1>2, <1>4, <1>5, <1>6, <1>7, ShareRests

(* A call that returns, or goes on to prune. *)
LEMMA ShareLeaves ==
  ASSUME CacheInv, CacheInv', ShareInv, NEW t \in Threads,
         Prunes(t) \/ \E out \in {"ok", "err", "unpruned"} : Ends(t, out),
         UNCHANGED <<disk, acct, walk>>, ~Undoing(t),
         retain' = retain \/ retain' = IF retain = t THEN Nobody ELSE retain
  PROVE  ShareInv'
<1>1. CacheTypes
  BY DEF CacheInv
<1>2. Moved(t) /\ th'[t].pc \in {"idle", "batch"}
  BY <1>1, Leaving
<1>3. \A u \in Threads \ {t} : retain' = u <=> retain = u
  BY CacheAssumption
<1>4. Place(t)' \in {"idle", "batch"}
  BY <1>2 DEF Place
<1>5. th'[t].pc \notin Adopting /\ Place(t)' \notin Releasing
  BY <1>2, <1>4 DEF Adopting, Releasing
<1> HIDE DEF Place, Undoing
<1> QED BY <1>2, <1>3, <1>5, ShareRests

LEMMA ShareReturns ==
  ASSUME CacheInv, CacheInv', ShareInv, NEW t \in Threads,
         \/ GetLooks(t) /\ Verdict(disk[Slot(t)]) = "lost"
         \/ GetFails(t) \/ PutFails(t) \/ GetLeases(t) \/ Reports(t) \/ AfterInvalidation(t)
         \/ Tallies(t) /\ ~Fits(th[t].key)
         \/ PruneEnds(t)
  PROVE  ShareInv'
<1>1. th[t].pc \in {"look", "fetch", "put", "lease", "reported", "invalidated", "release", "due"}
  BY DEF GetLooks, GetFails, PutFails, GetLeases, Reports, AfterInvalidation, Tallies, PruneEnds, At
<1>2. UNCHANGED <<disk, acct, walk>> /\ (Prunes(t) \/ \E out \in {"ok", "err", "unpruned"} : Ends(t, out))
  <2>1. CASE PruneEnds(t)
    <3>1. Pruned(t) /\ UNCHANGED <<disk, acct, walk>>
      BY <2>1 DEF PruneEnds
    <3>2. th[t].out \in {"none", "ok", "err", "unpruned"}
      BY DEF CacheInv, CacheTypes, PlaceType
    <3> QED BY <3>1, <3>2 DEF Pruned
  <2>2. CASE ~PruneEnds(t)
    BY <2>2 DEF GetLooks, GetFails, PutFails, GetLeases, Reports, AfterInvalidation, Tallies, stores, locks
  <2> QED BY <2>1, <2>2
<1>3. retain' = retain \/ retain' = IF retain = t THEN Nobody ELSE retain
  <2>1. CASE Tallies(t) /\ ~Fits(th[t].key)
    <3>1. th[t].pc = "release" /\ retain' = Nobody
      BY <2>1 DEF Tallies, At
    <3>2. "release" \in Unlocked
      BY DEF Unlocked
    <3>3. retain = t
      BY <3>1, <3>2, UnlockedThread
    <3> QED BY <3>1, <3>3
  <2>2. CASE ~Tallies(t)
    BY <2>2 DEF GetLooks, GetFails, PutFails, GetLeases, Reports, AfterInvalidation, PruneEnds, locks
  <2>3. CASE GetLooks(t) \/ GetFails(t) \/ PutFails(t) \/ GetLeases(t) \/ Reports(t)
               \/ AfterInvalidation(t) \/ PruneEnds(t)
    BY <2>3 DEF GetLooks, GetFails, PutFails, GetLeases, Reports, AfterInvalidation, PruneEnds, locks
  <2> QED BY <2>1, <2>3
<1>4. ~Undoing(t)
  BY <1>1 DEF Undoing, Dropping
<1> QED BY <1>2, <1>3, <1>4, ShareLeaves

(* One that goes on to w, or to its _note and then to w. *)
LEMMA ShareGoes ==
  ASSUME CacheInv, CacheInv', ShareInv, NEW t \in Threads, NEW w \in Places, Goes(t, w) \/ Notes(t, w),
         Notes(t, w) => w \in Noted, w # "note",
         UNCHANGED <<disk, retain, acct, walk>>, ~Undoing(t),
         w \notin Adopting, w \in Releasing => acct.live
  PROVE  ShareInv'
<1>1. CacheTypes
  BY DEF CacheInv
<1>2. Moved(t) /\ th'[t].pc \in {"note", w} /\ Place(t)' = w
  <2>1. CASE Goes(t, w)
    BY <1>1, <2>1, Going DEF Place
  <2>2. CASE Notes(t, w)
    BY <1>1, <2>2, Noting DEF Place
  <2> QED BY <2>1, <2>2
<1>3. th'[t].pc \notin Adopting
  BY <1>2 DEF Adopting
<1> HIDE DEF Place, Undoing
<1> QED BY <1>2, <1>3, ShareRests

LEMMA ShareAdvances ==
  ASSUME CacheInv, CacheInv', ShareInv, NEW t \in Threads,
         \/ GetLooks(t) /\ Verdict(disk[Slot(t)]) # "lost"
         \/ PutLands(t) \/ ChecksVictim(t)
  PROVE  ShareInv'
<1>1. /\ UNCHANGED <<disk, retain, acct, walk>>
      /\ \E w \in {"lease", "fetch", "heal", "unseal", "drop done", "evicted", "remove"} :
           Goes(t, w) \/ (Notes(t, w) /\ w = "evicted")
  BY DEF GetLooks, Verdict, PutLands, ChecksVictim, locks
<1>2. PICK w : /\ w \in {"lease", "fetch", "heal", "unseal", "drop done", "evicted", "remove"}
               /\ Goes(t, w) \/ (Notes(t, w) /\ w = "evicted")
  BY <1>1
<1>3. ~Undoing(t)
  <2>1. th[t].pc \in {"look", "put", "check"}
    BY DEF GetLooks, PutLands, ChecksVictim, At
  <2> QED BY <2>1 DEF Undoing, Dropping
<1>4. w \in Places /\ w # "note" /\ w \notin Adopting /\ w \notin Releasing
      /\ (w = "evicted" => w \in Noted)
  BY <1>2 DEF Places, Adopting, Releasing, Noted
<1> HIDE DEF Undoing
<1>5. CASE Goes(t, w) /\ ~Notes(t, w)
  BY <1>1, <1>3, <1>4, <1>5, ShareGoes
<1>6. CASE Notes(t, w) /\ w \in Noted
  BY <1>1, <1>3, <1>4, <1>6, ShareGoes
<1>7. CASE Goes(t, w) /\ Notes(t, w) /\ w \notin Noted
  <2>1. CacheTypes
    BY DEF CacheInv
  <2>2. th'[t].pc = w
    BY <1>4, <1>7, <2>1, Going
  <2>3. th'[t].pc = "note"
    BY <1>7, <2>1 DEF Notes, CacheTypes, PlaceType
  <2> QED BY <1>4, <2>2, <2>3
<1> QED BY <1>2, <1>4, <1>5, <1>6, <1>7

(* The loops of release_superseded and of prune. *)
LEMMA ShareLoops ==
  ASSUME CacheInv, CacheInv', ShareInv, NEW t \in Threads,
         \/ FindsSuperseded(t) \/ TakesOld(t) \/ FreesOld(t)
         \/ TakesBatch(t) \/ TakesVictim(t) \/ FreesVictim(t)
  PROVE  ShareInv'
<1>1. th \in [Threads -> PlaceType] /\ th[t] \in PlaceType /\ OwnInv(t)
  BY DEF CacheInv, CacheTypes, ShareInv
<1>2. /\ th[t].pc \in {"rows", "release", "old freed", "batch", "evict", "evicted"}
      /\ UNCHANGED <<disk, retain, acct, walk>>
  BY DEF FindsSuperseded, TakesOld, FreesOld, TakesBatch, TakesVictim, FreesVictim, At, stores, locks
<1>3. PICK r : th' = [th EXCEPT ![t] = r]
             /\ r.pc \in {"release", "old mark", "due", "evict", "batch", "check"}
               /\ (r.pc \in {"release", "old mark"} => acct.live)
  <2>1. CASE FindsSuperseded(t)
    <3> DEFINE r == [th[t] EXCEPT !.todo = Superseded(th[t].key), !.pc = "release"]
    <3>1. th' = [th EXCEPT ![t] = r] /\ r.pc = "release" /\ acct.live
      <4> HIDE DEF r
      <4>1. PICK old : old = Superseded(th[t].key)
        OBVIOUS
      <4>2. th' = [th EXCEPT ![t].todo = old, ![t].pc = "release"]
        BY <2>1, <4>1 DEF FindsSuperseded
      <4> QED BY <1>1, <2>1, <4>1, <4>2 DEF r, FindsSuperseded, PlaceType
    <3> QED BY <3>1
  <2>2. CASE TakesOld(t)
    <3>1. acct.live
      <4>1. Place(t) = "release"
        BY <2>2 DEF TakesOld, At, Place
      <4> HIDE DEF Place
      <4> QED BY <1>1, <4>1 DEF OwnInv, Releasing
    <3>2. PICK j \in th[t].todo :
            \/ th' = [th EXCEPT ![t].todo = @ \ {j}, ![t].slot = j, ![t].pc = "old mark"]
            \/ th' = [th EXCEPT ![t].todo = @ \ {j}]
      BY <2>2 DEF TakesOld
    <3>3. CASE th' = [th EXCEPT ![t].todo = @ \ {j}, ![t].slot = j, ![t].pc = "old mark"]
      <4> DEFINE r == [th[t] EXCEPT !.todo = @ \ {j}, !.slot = j, !.pc = "old mark"]
      <4>1. th' = [th EXCEPT ![t] = r] /\ r.pc = "old mark"
        BY <1>1, <3>3 DEF PlaceType
      <4> QED BY <3>1, <4>1
    <3>4. CASE th' = [th EXCEPT ![t].todo = @ \ {j}]
      <4> DEFINE r == [th[t] EXCEPT !.todo = @ \ {j}]
      <4>1. th' = [th EXCEPT ![t] = r] /\ r.pc = "release"
        BY <1>1, <2>2, <3>4 DEF PlaceType, TakesOld, At
      <4> QED BY <3>1, <4>1
    <3> QED BY <3>2, <3>3, <3>4
  <2>3. CASE FreesOld(t)
    <3>1. acct.live
      <4>1. Place(t) = "old freed"
        BY <2>3 DEF FreesOld, At, Place
      <4> HIDE DEF Place
      <4> QED BY <1>1, <4>1 DEF OwnInv, Releasing
    <3> DEFINE r == [th[t] EXCEPT !.slot = th[t].key, !.pc = "release"]
    <3>2. th' = [th EXCEPT ![t] = r] /\ r.pc = "release"
      BY <1>1, <2>3 DEF PlaceType, FreesOld
    <3> QED BY <3>1, <3>2
  <2>4. CASE TakesBatch(t)
    <3>1. CASE th' = [th EXCEPT ![t] = [Nowhere EXCEPT !.pc = "due", !.out = th[t].out]]
      <4> DEFINE r == [Nowhere EXCEPT !.pc = "due", !.out = th[t].out]
      <4>1. r.pc = "due"
        BY DEF Nowhere
      <4> QED BY <3>1, <4>1
    <3>2. CASE \E b \in Batches(t) :
                 th' = [th EXCEPT ![t].pc = "evict", ![t].todo = b, ![t].tried = @ \cup b]
      <4>1. PICK b \in Batches(t) :
                 th' = [th EXCEPT ![t].pc = "evict", ![t].todo = b, ![t].tried = @ \cup b]
        BY <3>2
      <4> DEFINE r == [th[t] EXCEPT !.pc = "evict", !.todo = b, !.tried = @ \cup b]
      <4>2. th' = [th EXCEPT ![t] = r] /\ r.pc = "evict"
        BY <1>1, <4>1 DEF PlaceType
      <4> QED BY <4>2
    <3> QED BY <2>4, <3>1, <3>2 DEF TakesBatch
  <2>5. CASE TakesVictim(t)
    <3>1. CASE Goes(t, "batch")
      <4> DEFINE r == [th[t] EXCEPT !.pc = "batch"]
      <4>1. th' = [th EXCEPT ![t] = r] /\ r.pc = "batch"
        BY <1>1, <3>1 DEF Goes, PlaceType
      <4> QED BY <4>1
    <3>2. CASE ~Goes(t, "batch")
      <4>1. PICK j \in th[t].todo :
              \/ th' = [th EXCEPT ![t].todo = @ \ {j}, ![t].slot = j, ![t].pc = "check"]
              \/ th' = [th EXCEPT ![t].todo = @ \ {j}]
        BY <2>5, <3>2 DEF TakesVictim
      <4>2. CASE th' = [th EXCEPT ![t].todo = @ \ {j}, ![t].slot = j, ![t].pc = "check"]
        <5> DEFINE r == [th[t] EXCEPT !.todo = @ \ {j}, !.slot = j, !.pc = "check"]
        <5>1. th' = [th EXCEPT ![t] = r] /\ r.pc = "check"
          BY <1>1, <4>2 DEF PlaceType
        <5> QED BY <5>1
      <4>3. CASE th' = [th EXCEPT ![t].todo = @ \ {j}]
        <5> DEFINE r == [th[t] EXCEPT !.todo = @ \ {j}]
        <5>1. th' = [th EXCEPT ![t] = r] /\ r.pc = "evict"
          BY <1>1, <2>5, <4>3 DEF PlaceType, TakesVictim, At
        <5> QED BY <5>1
      <4> QED BY <4>1, <4>2, <4>3
    <3> QED BY <3>1, <3>2
  <2>6. CASE FreesVictim(t)
    <3> DEFINE r == [th[t] EXCEPT !.slot = Nobody, !.pc = "evict"]
    <3>1. th' = [th EXCEPT ![t] = r] /\ r.pc = "evict"
      BY <1>1, <2>6 DEF PlaceType, FreesVictim
    <3> QED BY <3>1
  <2> QED BY <2>1, <2>2, <2>3, <2>4, <2>5, <2>6
<1>4. Moved(t) /\ th'[t] = r
  BY <1>3, OthersStay
<1>5. Place(t)' = r.pc
  BY <1>3, <1>4 DEF Place
<1>6. r.pc \notin Adopting /\ (r.pc \in Releasing => acct.live) /\ ~Undoing(t)
  BY <1>2, <1>3 DEF Adopting, Releasing, Undoing, Dropping
<1> HIDE DEF Place, Undoing
<1> QED BY <1>2, <1>4, <1>5, <1>6, ShareRests

-----------------------------------------------------------------------------
(* The steps that change a slot *)

(* ... which is unmarked, has lost its sentinel or its payload. *)
LEMMA ShareChanges ==
  ASSUME CacheInv, CacheInv', ShareInv, NEW t \in Threads, NEW w \in Places, Goes(t, w) \/ Notes(t, w),
         Notes(t, w) => w \in Noted, w # "note",
         UNCHANGED <<retain, acct, walk>>, th[t].pc \notin Unlocked, th[t].pc # "note",
         NEW s, s = th[t].slot, \A k \in Keys \ {s} : disk'[k] = disk[k],
         \/ disk'[s].mark = "no" \/ disk'[s].done = "no"
         \/ disk'[s].payload = 0 /\ disk'[s].mark = disk[s].mark /\ disk'[s].done = disk[s].done,
         w \notin Adopting, w \in Releasing => th[t].pc \in Releasing
  PROVE  ShareInv'
<1>1. CacheTypes /\ OwnInv(t) /\ s \in Keys /\ TornInv(s)
  BY InHand DEF CacheInv, ShareInv
<1>2. Moved(t) /\ th'[t].pc \in {"note", w} /\ Place(t)' = w
  <2>1. CASE Goes(t, w)
    BY <1>1, <2>1, Going DEF Place
  <2>2. CASE Notes(t, w)
    BY <1>1, <2>2, Noting DEF Place
  <2> QED BY <2>1, <2>2
<1>3. th'[t].pc \notin Adopting
  BY <1>2 DEF Adopting
<1>4. w \in Releasing => acct.live
  <2>1. Place(t) = th[t].pc
    BY DEF Place
  <2> HIDE DEF Place
  <2> QED BY <1>1, <2>1 DEF OwnInv
<1>5. DiskRow(s)' # "held" /\ TornInv(s)'
  BY <1>1 DEF DiskRow, TornInv
<1> HIDE DEF Place
<1> QED BY <1>2, <1>3, <1>4, <1>5, ShareWrites

(* Where the thread knows the slot unmarked, or unmarks it. *)
LEMMA ShareUnmarks ==
  ASSUME CacheInv, CacheInv', ShareInv, NEW t \in Threads,
         \/ GetHeals(t) \/ GetFetches(t) \/ GetSeals(t)
         \/ (PutUnmarks(t) \/ PutSwaps(t) \/ PutSeals(t)) /\ UNCHANGED <<stores, locks, acct, walk, proc>>
         \/ DropsMark(t) /\ UNCHANGED <<stores, locks, acct, walk, proc>>
         \/ UnmarksOld(t) \/ RemovesOld(t) \/ RemovesVictim(t)
  PROVE  ShareInv'
<1>1. PICK p : /\ p = th[t].pc
               /\ p \in {"heal", "fetch", "seal", "unmark", "swap", "put seal", "drop mark",
                         "old mark", "old tree", "remove"}
  BY DEF GetHeals, GetFetches, GetSeals, PutUnmarks, PutSwaps, PutSeals, DropsMark, UnmarksOld, RemovesOld,
         RemovesVictim, At
<1>2. p \notin Unlocked /\ p # "note"
  BY <1>1 DEF Unlocked
<1>3. PICK s : s = th[t].slot
  OBVIOUS
<1>4. s \in Keys /\ Slot(t) = s /\ disk[s] \in SlotType /\ CacheTypes
        /\ (p \in Unmarked => disk[s].mark = "no")
      /\ disk \in [Keys -> SlotType]
  <2>1. p = th[t].pc
    BY <1>1
  <2>2. s \in Keys /\ Slot(t) = s /\ disk[s] \in SlotType
          /\ Fit(p, disk[s], acked[s], remote[s], latest[s], retain, t)
    BY <1>2, <1>3, <2>1, InHand
  <2> QED BY <2>2 DEF Fit, CacheInv, CacheTypes
<1>5. \A k \in Keys \ {s} : disk'[k] = disk[k]
  BY <1>3, <1>4
  DEF GetHeals, GetFetches, GetSeals, PutUnmarks, PutSwaps, PutSeals, DropsMark, UnmarksOld, RemovesOld,
         RemovesVictim, Changes
<1>6. disk'[s].mark = "no"
  <2>1. CASE p \in Unmarked
    <3>1. disk[s].mark = "no"
      BY <1>4, <2>1
    <3>2. p # "unmark" /\ p # "drop mark" /\ p # "old mark"
      BY <2>1 DEF Unmarked
    <3>3. \/ disk' = [disk EXCEPT ![s] = Empty]
          \/ \E v : disk' = [disk EXCEPT ![s]["payload"] = v]
          \/ \E v : disk' = [disk EXCEPT ![s]["done"] = v]
      BY <1>1, <1>4, <3>2
      DEF GetHeals, GetFetches, GetSeals, PutUnmarks, PutSwaps, PutSeals, DropsMark, UnmarksOld,
         RemovesOld, RemovesVictim, Changes, At
    <3> QED BY <1>4, <3>1, <3>3 DEF Empty, SlotType
  <2>2. CASE p \notin Unmarked
    <3>1. p \in {"unmark", "drop mark", "old mark"}
      BY <1>1, <2>2 DEF Unmarked
    <3>2. disk' = [disk EXCEPT ![s]["mark"] = "no"]
      BY <1>1, <1>4, <3>1
      DEF GetHeals, GetFetches, GetSeals, PutUnmarks, PutSwaps, PutSeals, DropsMark, UnmarksOld,
         RemovesOld, RemovesVictim, Changes, At
    <3> QED BY <1>4, <3>2 DEF SlotType
  <2> QED BY <2>1, <2>2
<1>7. PICK w : /\ w \in {"fetch", "seal", "lease", "swap", "put seal", "reported", "invalidated",
                         "old tree", "old freed", "evicted"}
               /\ \/ Goes(t, w) /\ w \in {"seal", "swap", "put seal", "old tree"}
                  \/ Notes(t, w) /\ w \in Noted
               /\ (w \in {"old tree", "old freed"} => p \in {"old mark", "old tree"})
  <2>1. {"fetch", "lease", "reported", "invalidated", "old freed", "evicted"} \subseteq Noted
    BY DEF Noted
  <2>2. \/ Notes(t, "fetch") \/ Goes(t, "seal") \/ Notes(t, "lease") \/ Goes(t, "swap") \/ Goes(t, "put seal")
        \/ Notes(t, "reported") \/ Notes(t, "invalidated")
        \/ Goes(t, "old tree") /\ p = "old mark"
        \/ Notes(t, "old freed") /\ p = "old tree"
        \/ Notes(t, "evicted")
    BY <1>1 DEF GetHeals, GetFetches, GetSeals, PutUnmarks, PutSwaps, PutSeals, DropsMark, UnmarksOld,
                RemovesOld, RemovesVictim, At
  <2> HIDE DEF Noted
  <2> QED BY <2>1, <2>2
<1>8. UNCHANGED <<retain, acct, walk>>
  BY DEF GetHeals, GetFetches, GetSeals, UnmarksOld, RemovesOld, RemovesVictim, locks
<1>9. /\ w \in Places /\ w # "note" /\ w \notin Adopting
      /\ (w \in Releasing => p \in Releasing)
      /\ (w \in {"seal", "swap", "put seal", "old tree"} => w \notin Noted)
  BY <1>7 DEF Places, Adopting, Releasing, Noted
<1>10. Notes(t, w) => w \in Noted
  <2> SUFFICES ASSUME Notes(t, w), Goes(t, w) PROVE FALSE
    BY <1>7
  <2>1. th'[t].pc = w
    BY <1>4, <1>9, Going
  <2>2. th'[t].pc = "note"
    BY <1>4 DEF Notes, CacheTypes, PlaceType
  <2> QED BY <1>9, <2>1, <2>2
<1> QED BY <1>1, <1>2, <1>3, <1>5, <1>6, <1>7, <1>8, <1>9, <1>10, ShareChanges

LEMMA ShareUnseals ==
  ASSUME CacheInv, CacheInv', ShareInv, NEW t \in Threads,
         PutUnseals(t) \/ DropsDone(t) \/ DropsPayload(t), UNCHANGED <<stores, locks, acct, walk, proc>>
  PROVE  ShareInv'
<1>1. PICK p : p = th[t].pc /\ p \in {"unseal", "drop done", "drop payload"}
  BY DEF PutUnseals, DropsDone, DropsPayload, At
<1>2. p \notin Unlocked /\ p # "note"
  BY <1>1 DEF Unlocked
<1>3. PICK s : s = th[t].slot
  OBVIOUS
<1>4. s \in Keys /\ Slot(t) = s /\ CacheTypes
  <2>1. p = th[t].pc
    BY <1>1
  <2> QED BY <1>2, <1>3, <2>1, InHand DEF CacheInv
<1>5. PICK w : w \in {"unmark", "drop payload", "drop mark"} /\ Goes(t, w)
  BY DEF PutUnseals, DropsDone, DropsPayload
<1>6. /\ \A k \in Keys \ {s} : disk'[k] = disk[k]
      /\ \/ disk'[s].done = "no"
         \/ disk'[s].payload = 0 /\ disk'[s].mark = disk[s].mark /\ disk'[s].done = disk[s].done
  <2>1. Changes(t, "done", "no") \/ Changes(t, "payload", 0)
    BY DEF PutUnseals, DropsDone, DropsPayload
  <2>2. 0 \in Nat /\ "no" \in {"no", "ok", "torn"}
    OBVIOUS
  <2> QED BY <1>3, <1>4, <2>1, <2>2, Changed
<1>7. w \in Places /\ w # "note" /\ w \notin Adopting /\ w \notin Releasing
  BY <1>5 DEF Places, Adopting, Releasing
<1>8. ~Notes(t, w)
  <2> SUFFICES ASSUME Notes(t, w) PROVE FALSE
    OBVIOUS
  <2>1. th'[t].pc = w
    BY <1>4, <1>5, <1>7, Going
  <2>2. th'[t].pc = "note"
    BY <1>4 DEF Notes, CacheTypes, PlaceType
  <2> QED BY <1>7, <2>1, <2>2
<1> QED BY <1>1, <1>2, <1>3, <1>5, <1>6, <1>7, <1>8, ShareChanges DEF locks

(* The steps of an adoption before its seal: the slot has no sentinel. *)
LEMMA ShareOwns ==
  ASSUME CacheInv, CacheInv', ShareInv, NEW t \in Threads,
         \/ RetainLocks(t)
         \/ (OwnUnseals(t) \/ OwnSwaps(t) \/ OwnMarks(t)) /\ UNCHANGED <<locks, acct, walk, proc>>
  PROVE  ShareInv'
<1>1. PICK p : p = th[t].pc /\ p \in {"adopt", "own unseal", "own swap", "own mark"}
  BY DEF RetainLocks, OwnUnseals, OwnSwaps, OwnMarks, At
<1>2. p # "note" /\ p \in Adopting /\ p \in Retaining /\ CacheTypes /\ OwnInv(t) /\ ThreadInv(t)
  BY <1>1 DEF Adopting, Retaining, CacheInv, ShareInv
<1>3. PICK s : s = th[t].slot
  OBVIOUS
<1>4. s = th[t].key /\ s \in Keys /\ Slot(t) = s /\ retain = t /\ proc.holder \in Holders
        /\ latest[s] + 1 \in Nat
  <2>1. Place(t) = p
    BY <1>1, <1>2 DEF Place
  <2>2. retain = t /\ th[t].key \in Keys
    BY <1>2, <2>1 DEF ThreadInv, RetainInv
  <2>3. s = th[t].key
    BY <1>1, <1>2, <1>3 DEF OwnInv
  <2> QED BY <1>2, <1>3, <2>2, <2>3 DEF Slot, CacheTypes
<1>5. PICK w : /\ w \in {"own unseal", "own swap", "own mark", "own seal"} /\ Goes(t, w)
               /\ \/ w = "own unseal" /\ disk' = disk
                  \/ w = "own swap" /\ Changes(t, "done", "no") /\ p = "own unseal"
                  \/ w = "own mark" /\ Changes(t, "payload", latest[s] + 1) /\ p = "own swap"
                  \/ w = "own seal" /\ Changes(t, "mark", proc.holder) /\ p = "own mark"
  BY <1>1, <1>4 DEF RetainLocks, OwnUnseals, OwnSwaps, OwnMarks, At
<1>6. w \in Places /\ w \in Adopting /\ w # "note" /\ w \notin Releasing
  BY <1>5 DEF Places, Adopting, Releasing
<1>7. Moved(t) /\ th'[t].pc = w /\ th'[t].key = s /\ th'[t].slot = s
  <2>1. Keeps(t) /\ Moved(t) /\ th'[t].pc = w
    BY <1>2, <1>5, <1>6, Going
  <2> QED BY <1>3, <1>4, <2>1 DEF Keeps
<1>8. p \in {"own swap", "own mark"} => disk[s].done = "no"
  BY <1>1, <1>2, <1>3 DEF OwnInv
<1>9. /\ \A k \in Keys \ {s} : disk'[k] = disk[k]
      /\ w # "own unseal" => disk'[s].done = "no"
      /\ w = "own unseal" => disk'[s] = disk[s]
      /\ w = "own seal" => disk'[s].mark \in Holders
  <2>1. CASE w = "own unseal"
    BY <1>5, <2>1
  <2>2. CASE w = "own swap"
    <3>1. Changes(t, "done", "no") /\ "no" \in {"no", "ok", "torn"} /\ th[t].slot \in Keys
      BY <1>3, <1>4, <1>5, <2>2
    <3> QED BY <1>2, <1>3, <2>2, <3>1, Changed
  <2>3. CASE w = "own mark"
    <3>1. Changes(t, "payload", latest[s] + 1) /\ th[t].slot \in Keys /\ p = "own swap"
      BY <1>3, <1>4, <1>5, <2>3
    <3>2. PICK v \in Nat : v = latest[s] + 1
      BY <1>4
    <3>3. Changes(t, "payload", v)
      BY <3>1, <3>2
    <3>4. disk'[s].done = disk[s].done /\ \A k \in Keys \ {s} : disk'[k] = disk[k]
      BY <1>2, <1>3, <3>1, <3>3, Changed
    <3> QED BY <1>8, <2>3, <3>1, <3>4
  <2>4. CASE w = "own seal"
    <3>1. Changes(t, "mark", proc.holder) /\ th[t].slot \in Keys /\ p = "own mark"
      BY <1>3, <1>4, <1>5, <2>4
    <3>2. PICK v \in Holders : v = proc.holder
      BY <1>4
    <3>3. Changes(t, "mark", v)
      BY <3>1, <3>2
    <3>4. disk'[s].mark = v /\ disk'[s].done = disk[s].done /\ \A k \in Keys \ {s} : disk'[k] = disk[k]
      BY <1>2, <1>3, <3>1, <3>3, Changed
    <3> QED BY <1>8, <2>4, <3>1, <3>4
  <2> QED BY <1>5, <2>1, <2>2, <2>3, <2>4
<1>10. UNCHANGED <<retain, acct, walk>>
  BY DEF RetainLocks, locks
<1>11. OwnInv(t)'
  <2>1. Place(t)' = w
    BY <1>6, <1>7 DEF Place
  <2> HIDE DEF Place
  <2> QED BY <1>5, <1>6, <1>7, <1>9, <2>1 DEF OwnInv
<1>12. \A k \in Keys : disk'[k] = disk[k] \/ (lock[k] = t /\ DiskRow(k)' # "held" /\ TornInv(k)')
  <2>1. p # "adopt" => lock[s] = t
    <3>1. p # "adopt" => p \notin Unlocked
      BY <1>1 DEF Unlocked
    <3> QED BY <1>1, <1>2, <1>3, <3>1 DEF ThreadInv, LockInv
  <2>2. p = "adopt" => w = "own unseal"
    BY <1>5
  <2>3. w # "own unseal" => DiskRow(s)' # "held" /\ TornInv(s)'
    BY <1>9 DEF DiskRow, TornInv
  <2> QED BY <1>9, <2>1, <2>2, <2>3
<1>13. /\ \A u \in Threads \ {t} : retain' = u <=> retain = u
       /\ ~Undoing(t) /\ th[t].pc \in Adopting /\ th'[t].key = th[t].key
  BY <1>1, <1>2, <1>4, <1>7, <1>10 DEF Undoing, Dropping
<1> HIDE DEF Undoing
<1> QED BY <1>4, <1>7, <1>10, <1>11, <1>12, <1>13, ShareStep

-----------------------------------------------------------------------------
(* The changes of a slot that fail *)

(* What is left of the slot in hand is what it was, or unmarked. *)
LEMMA ShareCuts ==
  ASSUME CacheInv, CacheInv', ShareInv, NEW t \in Threads, Moved(t), retain' = retain, walk' = walk,
         acct'.rows = acct.rows, acct'.live = acct.live, acct'.touched = acct.touched,
         NEW s, s = th[t].slot, th[t].pc \notin Unlocked, th[t].pc # "note",
         \A k \in Keys \ {s} : disk'[k] = disk[k], disk'[s] = disk[s] \/ disk'[s].mark = "no",
         Undoing(t) => Undoing(t)' /\ th'[t].slot = s,
         th'[t].pc \notin Adopting, Place(t)' \in Releasing => acct.live
  PROVE  ShareInv'
<1>1. OwnInv(t)'
  <2>1. th'[t].pc \notin {"own swap", "own mark", "own seal"}
    BY DEF Adopting
  <2> HIDE DEF Place
  <2> QED BY <2>1 DEF OwnInv
<1>2. s \in Keys /\ lock[s] = t
  BY InHand
<1>3. disk'[s].mark = "no" => DiskRow(s)' # "held" /\ TornInv(s)'
  BY DEF DiskRow, TornInv
<1>4. \A k \in Keys : disk'[k] = disk[k] \/ (lock[k] = t /\ DiskRow(k)' # "held" /\ TornInv(k)')
  BY <1>2, <1>3
<1> HIDE DEF Undoing, DiskRow, TornInv
<1> QED BY <1>1, <1>4, ShareStep

LEMMA RemovalMoves ==
  ASSUME CacheInv, CacheInv', NEW t \in Threads, RemovalFails(t), NEW p, p = th[t].pc
  PROVE  /\ p \in Removals /\ Moved(t) /\ th'[t].pc = "note" /\ th'[t].then = AfterRemoval(p)
         /\ th'[t].slot = th[t].slot /\ th'[t].todo = th[t].todo /\ th'[t].tried = th[t].tried
         /\ th'[t].out = IF p = "remove" THEN "unpruned" ELSE th[t].out
<1>1. th \in [Threads -> PlaceType] /\ th[t] \in PlaceType
  BY DEF CacheInv, CacheTypes
<1>2. PICK o : o = IF p = "remove" THEN "unpruned" ELSE th[t].out
  OBVIOUS
<1>3. PICK w : w = AfterRemoval(p)
  OBVIOUS
<1> DEFINE r == [th[t] EXCEPT !.pc = "note", !.then = w, !.out = o]
<1>4. th' = [th EXCEPT ![t] = r]
  BY <1>1, <1>2, <1>3 DEF RemovalFails, At
<1>5. r.pc = "note" /\ r.then = w /\ r.out = o
      /\ r.slot = th[t].slot /\ r.todo = th[t].todo /\ r.tried = th[t].tried
  BY <1>1 DEF PlaceType
<1> HIDE DEF r
<1>6. Moved(t) /\ th'[t] = r
  BY <1>4, OthersStay
<1>7. p \in Removals
  BY CacheAssumption DEF RemovalFails
<1> QED BY <1>2, <1>3, <1>5, <1>6, <1>7

LEMMA ShareFails ==
  ASSUME CacheInv, CacheInv', ShareInv, NEW t \in Threads,
         AdoptionFails(t) \/ RemovalFails(t) \/ GetSealFails(t)
  PROVE  ShareInv'
<1>1. PICK s, p : s = th[t].slot /\ p = th[t].pc
  OBVIOUS
<1>2. /\ p \in {"unseal", "unmark", "swap", "put seal", "seal"} \cup Removals
      /\ CutShort(t) /\ UNCHANGED <<retain, walk>>
  BY <1>1, CacheAssumption DEF AdoptionFails, RemovalFails, GetSealFails, At, locks
<1>3. CacheTypes /\ p \notin Unlocked /\ p # "note" /\ p # "own mark" /\ p # "own seal"
  BY <1>2 DEF CacheInv, Unlocked, Removals
<1>4. /\ s \in Keys /\ Slot(t) = s /\ \A k \in Keys \ {s} : disk'[k] = disk[k]
      /\ (p \notin Torn => disk'[s] = disk[s])
      /\ disk'[s].mark = disk[s].mark
  BY <1>1, <1>2, <1>3, CutInHand DEF Slot
<1>5. disk'[s] = disk[s] \/ disk'[s].mark = "no"
  <2>1. p \in Torn => p \in Unmarked
    BY <1>3 DEF Torn, Unmarked
  <2>2. p = th[t].pc
    BY <1>1
  <2>3. Fit(p, disk[s], acked[s], remote[s], latest[s], retain, t)
    BY <1>1, <1>3, <2>2, InHand
  <2>4. p \in Unmarked => disk[s].mark = "no"
    BY <2>3 DEF Fit
  <2> QED BY <1>4, <2>1, <2>4
<1>6. /\ acct'.rows = acct.rows /\ acct'.live = acct.live /\ acct'.touched = acct.touched
  <2>1. acct' = acct \/ \E m : acct' = [acct EXCEPT !.missed = m]
    BY DEF AdoptionFails, RemovalFails, GetSealFails
  <2> QED BY <1>3, <2>1 DEF CacheTypes, AcctType
<1>7. Place(t) = p /\ OwnInv(t)
  BY <1>1, <1>3 DEF Place, ShareInv
<1>8. /\ Moved(t) /\ th'[t].pc \notin Adopting
      /\ Place(t)' \in Releasing => p \in Releasing
      /\ Undoing(t) => Undoing(t)' /\ th'[t].slot = s
  <2>1. CASE AdoptionFails(t)
    <3>1. Goes(t, "drop done") /\ "drop done" \in Places
      BY <2>1 DEF AdoptionFails, Places
    <3>2. Moved(t) /\ th'[t].pc = "drop done" /\ Keeps(t)
      BY <1>3, <3>1, Going
    <3> QED BY <1>1, <3>2 DEF Place, Keeps, Undoing, Dropping, Adopting, Releasing
  <2>2. CASE GetSealFails(t)
    <3>1. p = "seal" /\ Ends(t, "err")
      BY <1>1, <2>2 DEF GetSealFails, At
    <3>2. Moved(t) /\ th'[t].pc \in {"idle", "batch"}
      BY <1>3, <3>1, Leaving
    <3> QED BY <1>1, <3>1, <3>2 DEF Place, Undoing, Dropping, Adopting, Releasing
  <2>3. CASE RemovalFails(t)
    <3>1. PICK w : w = AfterRemoval(p)
      OBVIOUS
    <3>2. p \in Removals /\ Moved(t) /\ th'[t].pc = "note" /\ th'[t].then = w /\ th'[t].slot = s
      BY <1>1, <2>3, <3>1, RemovalMoves
    <3>3. /\ w \in Noted
          /\ w \in Releasing => p \in Releasing
          /\ p \in Dropping => w = "invalidated"
          /\ w \notin Adopting
      BY <3>1, <3>2 DEF AfterRemoval, Removals, Noted, Releasing, Dropping, Adopting
    <3>5. Undoing(t) => Undoing(t)'
      BY <1>1, <1>3, <3>2, <3>3 DEF Undoing
    <3> QED BY <3>2, <3>3, <3>5 DEF Place, Adopting
  <2> QED BY <2>1, <2>2, <2>3
<1>9. Place(t)' \in Releasing => acct.live
  <2> HIDE DEF Place
  <2> QED BY <1>7, <1>8 DEF OwnInv
<1> HIDE DEF Place, Undoing, CutShort
<1> QED BY <1>1, <1>2, <1>3, <1>4, <1>5, <1>6, <1>8, <1>9, ShareCuts

(* A retained output that was granted may be left shown; it is dropped next. *)
LEMMA ShareGivesUp ==
  ASSUME CacheInv, CacheInv', ShareInv, NEW t \in Threads, RetentionFails(t)
  PROVE  ShareInv'
<1>1. PICK s, p : s = th[t].slot /\ p = th[t].pc
  OBVIOUS
<1>2. /\ p \in {"own unseal", "own swap", "own mark", "own seal"} /\ CutShort(t)
      /\ Goes(t, "drop done") /\ UNCHANGED <<retain, acct, walk>>
  BY <1>1 DEF RetentionFails, locks
<1>3. CacheTypes /\ OwnInv(t) /\ p \notin Unlocked /\ p # "note" /\ p \in Retaining /\ p \in Adopting
  BY <1>2 DEF CacheInv, ShareInv, Unlocked, Retaining, Adopting
<1>4. s \in Keys /\ Slot(t) = s /\ lock[s] = t /\ disk[s] \in SlotType /\ disk \in [Keys -> SlotType]
  BY <1>1, <1>3, InHand DEF CacheTypes, Slot
<1>5. retain = t /\ th[t].key = s
  <2>1. Place(t) = p /\ RetainInv(t)
    BY <1>1, <1>3 DEF Place, CacheInv, ThreadInv
  <2> HIDE DEF Place
  <2> QED BY <1>1, <1>3, <2>1 DEF RetainInv, OwnInv
<1>6. PICK d \in Cut(disk[s], p) : disk'[s] = d /\ \A k \in Keys \ {s} : disk'[k] = disk[k]
  BY <1>1, <1>2, <1>4 DEF CutShort
<1>7. Moved(t) /\ th'[t].pc = "drop done" /\ th'[t].slot = s
  <2>1. "drop done" \in Places
    BY DEF Places
  <2>2. Moved(t) /\ th'[t].pc = "drop done" /\ Keeps(t)
    BY <1>2, <1>3, <2>1, Going
  <2> QED BY <1>1, <2>2 DEF Keeps
<1>8. Undoing(t)' /\ OwnInv(t)' /\ ~Undoing(t) /\ th'[t].pc \notin Adopting
  BY <1>1, <1>2, <1>7 DEF Undoing, Dropping, OwnInv, Place, Adopting, Releasing
<1>9. Sealing(s)' /\ s \in Granted
  <2>1. retain' = t /\ th'[t].slot = s /\ Undoing(t)'
    BY <1>2, <1>5, <1>7, <1>8
  <2>2. s \in Granted
    BY <1>1, <1>3, <1>4, <1>5 DEF Granted
  <2> QED BY <2>1, <2>2 DEF Sealing
<1>10. disk'[s] = disk[s] \/ TornInv(s)'
  <2>1. PICK e : e = disk[s]
    OBVIOUS
  <2>2. CASE p \in {"own unseal", "own swap"}
    BY <1>6, <2>2 DEF Cut
  <2>3. CASE p = "own mark"
    <3>1. e.done = "no"
      BY <1>1, <1>3, <2>1, <2>3 DEF OwnInv
    <3>2. d \in {e, [e EXCEPT !.mark = "torn"]}
      BY <2>1, <2>3 DEF Cut
    <3>3. d.done = "no"
      BY <1>4, <2>1, <3>1, <3>2 DEF SlotType
    <3> QED BY <1>6, <3>3 DEF TornInv
  <2>4. CASE p = "own seal"
    <3>1. e.mark \in Holders
      BY <1>1, <1>3, <2>1, <2>4 DEF OwnInv
    <3>2. d \in {e, [e EXCEPT !.done = "torn"]}
      BY <2>1, <2>4 DEF Cut
    <3>3. d.mark = e.mark
      BY <1>4, <2>1, <3>2 DEF SlotType
    <3> QED BY <1>6, <3>1, <3>3, CacheAssumption DEF TornInv
  <2> QED BY <1>2, <2>2, <2>3, <2>4
<1>11. ASSUME NEW k \in Keys
       PROVE  \/ disk'[k] = disk[k]
              \/ lock[k] = t /\ DiskRow(k)' # "held" /\ TornInv(k)'
              \/ lock[k] = t /\ k \in Granted /\ Sealing(k)' /\ TornInv(k)'
  <2>1. CASE k = s /\ disk'[k] # disk[k]
    <3>1. lock[k] = t /\ k \in Granted
      BY <1>4, <1>9, <2>1
    <3>2. Sealing(k)'
      BY <1>2, <1>5, <1>7, <1>8, <2>1 DEF Sealing
    <3>3. TornInv(k)'
      <4>1. disk'[s] # disk[s]
        BY <2>1
      <4> QED BY <1>10, <2>1, <4>1 DEF TornInv
    <3> QED BY <3>1, <3>2, <3>3
  <2>2. CASE ~(k = s /\ disk'[k] # disk[k])
    BY <1>6, <2>2
  <2> QED BY <2>1, <2>2
<1>12. \A u \in Threads \ {t} : retain' = u <=> retain = u
  BY <1>2
<1> HIDE DEF Undoing, Sealing, Granted
<1> QED BY <1>2, <1>7, <1>8, <1>11, <1>12, ShareStep

-----------------------------------------------------------------------------
(* The steps the share is about *)

(* What only th and retain decide, of the threads that do not move. *)
LEMMA OthersOwn ==
  ASSUME CacheInv, ShareInv, NEW t \in Threads, Moved(t),
         \A k \in Keys : lock[k] # t => disk'[k] = disk[k],
         acct.live => acct'.live, OwnInv(t)'
  PROVE  \A u \in Threads : OwnInv(u)'
<1>1. SUFFICES ASSUME NEW u \in Threads, u # t PROVE OwnInv(u)'
  OBVIOUS
<1>2. /\ th \in [Threads -> PlaceType] /\ LockInv(u) /\ th'[u] = th[u] /\ OwnInv(u)
  BY <1>1 DEF CacheInv, CacheTypes, ThreadInv, Moved, ShareInv
<1>3. th[u].pc \in {"own swap", "own mark", "own seal"} => disk'[th[u].slot] = disk[th[u].slot]
  <2>1. th[u].pc \in {"own swap", "own mark", "own seal"} => th[u].pc \notin Unlocked
    BY DEF Unlocked
  <2> QED BY <1>1, <1>2, <2>1 DEF LockInv
<1> QED BY <1>2, <1>3 DEF OwnInv, Place

(* The tally has counted whatever the disk shows retained: the account knows *)
(* of each object, for the adopter before it is past its own _note.          *)
LEMMA TallyCounts ==
  ASSUME CacheInv, ShareInv, NEW t \in Threads, Tallies(t)
  PROVE  HeldKeys \subseteq RetainedRows
<1>1. th[t].pc = "release" /\ OwnInv(t)
  BY DEF Tallies, At, ShareInv
<1>2. acct.live /\ retain = t
  <2>1. Place(t) = "release" /\ "release" \in Releasing /\ "release" \in Unlocked
    BY <1>1 DEF Place, Releasing, Unlocked
  <2> HIDE DEF Place
  <2> QED BY <1>1, <2>1, UnlockedThread DEF OwnInv
<1>3. SUFFICES ASSUME NEW k \in Keys, DiskRow(k) = "held"
               PROVE  k \in RetainedRows
  BY DEF HeldKeys
<1>4. KnownInv(k) /\ TornInv(k)
  BY DEF ShareInv
<1>5. ~Sealing(k)
  BY <1>1, <1>2 DEF Sealing, Undoing, Dropping
<1>6. disk[k].mark # "torn"
  BY <1>3, <1>4 DEF DiskRow, TornInv
<1> QED BY <1>2, <1>3, <1>4, <1>5, <1>6 DEF KnownInv, RetainedRows, Rows

LEMMA ShareTallies ==
  ASSUME CacheInv, CacheInv', ShareInv, NEW t \in Threads, Tallies(t), Fits(th[t].key)
  PROVE  ShareInv'
<1>1. PICK s : s = th[t].key
  OBVIOUS
<1>2. CacheTypes /\ th[t].pc = "release" /\ Goes(t, "adopt") /\ UNCHANGED <<disk, retain, acct, walk>>
  BY DEF Tallies, At, CacheInv
<1>3. retain = t /\ s \in Keys /\ th[t].slot = s
  <2>1. "release" \in Unlocked
    BY DEF Unlocked
  <2> QED BY <1>1, <1>2, <2>1, UnlockedThread
<1>4. Moved(t) /\ th'[t].pc = "adopt" /\ th'[t].key = s /\ th'[t].slot = s
  <2>1. "adopt" \in Places
    BY DEF Places
  <2>2. Moved(t) /\ Keeps(t) /\ th'[t].pc = "adopt"
    BY <1>2, <2>1, Going
  <2> QED BY <1>1, <1>3, <2>2 DEF Keeps
<1>5. \A u \in Threads : OwnInv(u)'
  <2>1. Place(t)' = "adopt"
    BY <1>4 DEF Place
  <2>2. OwnInv(t)'
    <3> HIDE DEF Place
    <3> QED BY <1>4, <2>1 DEF OwnInv, Releasing
  <2> QED BY <1>2, <1>4, <2>2, OthersOwn
<1>6. \A k \in Keys : DiskRow(k)' = DiskRow(k) /\ (TornInv(k)' <=> TornInv(k))
  BY <1>2 DEF DiskRow, TornInv
<1>7. ASSUME NEW k \in Keys PROVE KnownInv(k)' /\ TornInv(k)'
  <2>1. ~Sealing(k)
    BY <1>2, <1>3 DEF Sealing, Undoing, Dropping
  <2> QED BY <1>2, <1>6, <2>1 DEF KnownInv, ShareInv
<1>8. HeldKeys' = HeldKeys /\ Granted' \subseteq {s}
  <2>1. HeldKeys' = HeldKeys
    BY <1>6 DEF HeldKeys
  <2>2. Granted' \subseteq {s}
    BY <1>2, <1>3, <1>4 DEF Granted
  <2> QED BY <2>1, <2>2
<1>9. (RetainedRows \ {s}) \cup {s} \in Affordable
  <2> DEFINE R == RetainedRows \ {s}
             U == R \cup {s}
  <2>1. R \subseteq Keys /\ U \subseteq Keys /\ U \ {s} = R /\ s \in U
    BY <1>3 DEF RetainedRows, Rows
  <2>2. IsFiniteSet(U) /\ \A x \in U : Size[x] \in Nat
    BY <2>1, FS_Subset, CacheAssumption
  <2>3. Weight(R) + Size[s] <= RetainedCap
    BY <1>1 DEF Fits
  <2> HIDE DEF R, U
  <2>4. Weight(U) = Size[s] + Weight(R) /\ Weight(R) \in Nat
    BY <2>1, <2>2, SumTakesOut, WeightIs
  <2>5. Size[s] \in Nat
    BY <2>1, <2>2
  <2>6. Weight(U) <= RetainedCap
    BY <2>3, <2>4, <2>5
  <2>7. U \in Affordable
    BY <2>1, <2>6 DEF Affordable
  <2> QED BY <2>7 DEF R, U
<1>10. (HeldKeys \cup Granted)' \in Affordable
  <2>1. HeldKeys' \cup Granted' \subseteq (RetainedRows \ {s}) \cup {s}
    BY <1>8, TallyCounts
  <2> QED BY <1>9, <2>1, FewerAfford
<1> QED BY <1>5, <1>7, <1>10 DEF ShareInv

(* The seal shows it: it has been granted. *)
LEMMA ShareSeals ==
  ASSUME CacheInv, CacheInv', ShareInv, NEW t \in Threads, OwnSeals(t), UNCHANGED <<locks, acct, walk>>
  PROVE  ShareInv'
<1>1. PICK s : s = th[t].slot
  OBVIOUS
<1>2. CacheTypes /\ ThreadInv(t) /\ OwnInv(t) /\ th[t].pc = "own seal" /\ Changes(t, "done", "ok")
        /\ Notes(t, "reported")
      /\ UNCHANGED <<lock, retain, acct, walk>>
  BY DEF OwnSeals, At, CacheInv, ShareInv, locks
<1>3. retain = t /\ s = th[t].key /\ s \in Keys /\ lock[s] = t /\ disk[s].mark \in Holders
  <2>1. Place(t) = "own seal" /\ "own seal" \in Retaining /\ "own seal" \in Adopting
          /\ "own seal" \notin Unlocked
    BY <1>2 DEF Place, Retaining, Adopting, Unlocked
  <2> HIDE DEF Place
  <2>2. retain = t /\ th[t].key \in Keys
    BY <1>2, <2>1 DEF ThreadInv, RetainInv
  <2>3. lock[s] = t
    BY <1>1, <1>2, <2>1 DEF ThreadInv, LockInv
  <2> QED BY <1>1, <1>2, <2>1, <2>2, <2>3 DEF OwnInv
<1>4. Moved(t) /\ th'[t].pc = "note" /\ th'[t].then = "reported" /\ th'[t].slot = s
  <2>1. "reported" \in Noted
    BY DEF Noted
  <2>2. Moved(t) /\ Keeps(t) /\ th'[t].pc = "note" /\ th'[t].then = "reported"
    BY <1>2, <2>1, Noting
  <2> QED BY <1>1, <2>2 DEF Keeps
<1>5. (\A k \in Keys \ {s} : disk'[k] = disk[k]) /\ disk'[s].mark = disk[s].mark
  <2>1. "ok" \in {"no", "ok", "torn"} /\ th[t].slot \in Keys
    BY <1>1, <1>3
  <2> QED BY <1>1, <1>2, <2>1, Changed
<1>6. \A u \in Threads : OwnInv(u)'
  <2>1. Place(t)' = "reported"
    BY <1>4 DEF Place
  <2>2. OwnInv(t)'
    <3> HIDE DEF Place
    <3> QED BY <1>4, <2>1 DEF OwnInv, Releasing, Adopting
  <2>3. \A k \in Keys : lock[k] # t => disk'[k] = disk[k]
    BY <1>3, <1>5
  <2> QED BY <1>2, <1>4, <2>2, <2>3, OthersOwn
<1>7. \A k \in Keys \ {s} : DiskRow(k)' = DiskRow(k) /\ (TornInv(k)' <=> TornInv(k))
  BY <1>5 DEF DiskRow, TornInv
<1>8. ASSUME NEW k \in Keys PROVE KnownInv(k)' /\ TornInv(k)'
  <2>1. CASE k = s
    <3>1. Sealing(k)'
      <4>1. Undoing(t)'
        BY <1>4 DEF Undoing
      <4>2. retain' = t /\ th'[t].slot = k
        BY <1>2, <1>3, <1>4, <2>1
      <4> QED BY <4>1, <4>2 DEF Sealing
    <3>2. TornInv(k)'
      BY <1>3, <1>5, <2>1, CacheAssumption DEF TornInv
    <3> QED BY <3>1, <3>2 DEF KnownInv
  <2>2. CASE k # s
    <3>1. ~Sealing(k)
      BY <1>2, <1>3 DEF Sealing, Undoing, Dropping
    <3> QED BY <1>2, <1>7, <2>2, <3>1 DEF KnownInv, ShareInv
  <2> QED BY <2>1, <2>2
<1>9. HeldKeys' \subseteq HeldKeys \cup {s} /\ Granted' = {} /\ s \in Granted
  <2>1. HeldKeys' \subseteq HeldKeys \cup {s}
    BY <1>7 DEF HeldKeys
  <2>2. Granted' = {}
    BY <1>2, <1>3, <1>4 DEF Granted, Adopting
  <2>3. s \in Granted
    BY <1>2, <1>3 DEF Granted, Adopting
  <2> QED BY <2>1, <2>2, <2>3
<1>10. (HeldKeys \cup Granted)' \in Affordable
  <2>1. HeldKeys' \cup Granted' \subseteq HeldKeys \cup Granted
    BY <1>9
  <2> QED BY <2>1, FewerAfford DEF ShareInv
<1> QED BY <1>6, <1>8, <1>10 DEF ShareInv

(* _note tells the account what the disk shows, and the walk that it did. *)
LEMMA ShareNotes ==
  ASSUME CacheInv, CacheInv', ShareInv, NEW t \in Threads, Note(t)
  PROVE  ShareInv'
<1>1. PICK s : s = th[t].slot
  OBVIOUS
<1>2. /\ CacheTypes /\ ThreadInv(t) /\ OwnInv(t) /\ WalkInv /\ acct \in AcctType
      /\ th[t].pc = "note" /\ acct.live /\ Goes(t, th[t].then)
      /\ UNCHANGED <<disk, lock, retain, walk>>
  BY DEF Note, At, CacheInv, CacheTypes, ShareInv, stores, locks
<1>3. PICK w : w = th[t].then /\ w \in Noted
  BY <1>2 DEF ThreadInv, LockInv
<1>4. w \in Places /\ w # "note" /\ w \notin Adopting
  BY <1>3 DEF Noted, Places, Adopting
<1>5. Moved(t) /\ Keeps(t) /\ th'[t].pc = w
  BY <1>2, <1>3, <1>4, Going
<1>6. s \in Keys
  <2>1. "note" \notin Unlocked
    BY DEF Unlocked
  <2> QED BY <1>1, <1>2, <2>1 DEF ThreadInv, LockInv
<1>7. PICK row : row = DiskRow(s) /\ row \in RowType
  BY DEF DiskRow, RowType
<1>8. /\ acct'.live = acct.live /\ acct'.rows[s] = row
      /\ \A k \in Keys \ {s} : acct'.rows[k] = acct.rows[k]
      /\ acct.touched \subseteq acct'.touched
      /\ acct.reconciling => s \in acct'.touched
  <2>1. acct' = [acct EXCEPT !.rows[s] = row,
                             !.touched = IF acct.reconciling THEN @ \cup {s} ELSE @,
                             !.missed = @ \ {s}]
    BY <1>1, <1>7 DEF Note, PutRow, Slot
  <2> QED BY <1>2, <1>6, <1>7, <2>1 DEF AcctType
<1>9. \A u \in Threads : OwnInv(u)'
  <2>1. Place(t) = w /\ Place(t)' = w
    BY <1>2, <1>3, <1>4, <1>5 DEF Place
  <2>2. OwnInv(t)'
    <3>1. w \notin {"own swap", "own mark", "own seal"}
      BY <1>4 DEF Adopting
    <3> HIDE DEF Place
    <3> QED BY <1>2, <1>4, <1>5, <1>8, <2>1, <3>1 DEF OwnInv
  <2> QED BY <1>2, <1>5, <1>8, <2>2, OthersOwn
<1>10. \A k \in Keys : DiskRow(k)' = DiskRow(k) /\ (TornInv(k)' <=> TornInv(k))
  BY <1>2 DEF DiskRow, TornInv
<1>11. ASSUME NEW k \in Keys PROVE KnownInv(k)' /\ TornInv(k)'
  <2>1. CASE k = s
    <3>1. DiskRow(k)' = "held" => acct'.rows[k] = "held"
      BY <1>7, <1>8, <1>10, <2>1
    <3>2. walk'.on => k \in acct'.touched
      BY <1>2, <1>8, <2>1 DEF WalkInv
    <3> QED BY <1>2, <1>8, <1>10, <2>1, <3>1, <3>2 DEF KnownInv, ShareInv
  <2>2. CASE k # s
    <3>1. Sealing(k) => Sealing(k)'
      <4>1. SUFFICES ASSUME NEW u \in Threads, retain = u, th[u].slot = k, Undoing(u)
                     PROVE  Sealing(k)'
        BY DEF Sealing
      <4>2. u # t /\ th'[u] = th[u]
        BY <1>1, <1>5, <2>2, <4>1 DEF Moved
      <4>3. Undoing(u)' /\ retain' = u /\ th'[u].slot = k
        BY <1>2, <4>1, <4>2 DEF Undoing
      <4> QED BY <4>3 DEF Sealing
    <3>2. KnownInv(k) /\ TornInv(k)
      BY DEF ShareInv
    <3> QED BY <1>2, <1>8, <1>10, <2>2, <3>1, <3>2 DEF KnownInv
  <2> QED BY <2>1, <2>2
<1>12. (HeldKeys \cup Granted)' \in Affordable
  <2>1. HeldKeys' = HeldKeys
    BY <1>10 DEF HeldKeys
  <2>2. Granted' \subseteq Granted
    BY <1>2, <1>4, <1>5 DEF Granted, Moved
  <2>3. HeldKeys' \cup Granted' \subseteq HeldKeys \cup Granted
    BY <2>1, <2>2
  <2> QED BY <2>3, FewerAfford DEF ShareInv
<1> QED BY <1>9, <1>11, <1>12 DEF ShareInv

(* A step of the walk: it may know more, and what it knew is the account's. *)
LEMMA ShareSees ==
  ASSUME CacheInv, ShareInv, UNCHANGED <<disk, retain>>,
         \/ UNCHANGED th
         \/ \E t \in Threads : th[t].pc = "due" /\ \E out \in {"ok", "err", "unpruned"} : Ends(t, out),
         acct.live => acct'.live,
         \A k \in Keys : DiskRow(k) = "held" /\ KnownInv(k) /\ ~Sealing(k) =>
           /\ acct'.live => acct'.rows[k] = "held"
           /\ walk'.on /\ k \in DOMAIN walk'.seen => walk'.seen[k] = "held"
                \/ (acct'.live /\ k \in acct'.touched)
  PROVE  ShareInv'
<1>1. \A u \in Threads : \/ th'[u] = th[u]
                         \/ th[u].pc = "due" /\ th'[u].pc = "idle"
  <2>1. CASE UNCHANGED th
    BY <2>1
  <2>2. ASSUME NEW t \in Threads, th[t].pc = "due", NEW out \in {"ok", "err", "unpruned"}, Ends(t, out)
        PROVE  \A u \in Threads : th'[u] = th[u] \/ (th[u].pc = "due" /\ th'[u].pc = "idle")
    <3>1. th \in [Threads -> PlaceType] /\ th' = [th EXCEPT ![t] = [Nowhere EXCEPT !.out = out]]
      BY <2>2 DEF CacheInv, CacheTypes, Ends
    <3> DEFINE r == [Nowhere EXCEPT !.out = out]
    <3>2. r.pc = "idle"
      BY DEF Nowhere
    <3> HIDE DEF r
    <3>3. th' = [th EXCEPT ![t] = r]
      BY <3>1 DEF r
    <3> QED BY <2>2, <3>1, <3>2, <3>3
  <2> QED BY <2>1, <2>2
<1>2. ASSUME NEW u \in Threads PROVE OwnInv(u)'
  <2>1. OwnInv(u)
    BY DEF ShareInv
  <2>2. CASE th'[u] = th[u]
    BY <2>1, <2>2 DEF OwnInv, Place
  <2>3. CASE th'[u].pc = "idle"
    BY <2>3 DEF OwnInv, Place, Adopting, Releasing
  <2> QED BY <1>1, <2>2, <2>3
<1>3. \A k \in Keys : /\ DiskRow(k)' = DiskRow(k) /\ (TornInv(k)' <=> TornInv(k))
                      /\ Sealing(k) => Sealing(k)'
  <2>1. \A k \in Keys : DiskRow(k)' = DiskRow(k) /\ (TornInv(k)' <=> TornInv(k))
    BY DEF DiskRow, TornInv
  <2>2. \A k \in Keys : Sealing(k) => Sealing(k)'
    <3> SUFFICES ASSUME NEW k \in Keys, NEW u \in Threads, retain = u, th[u].slot = k, Undoing(u)
                 PROVE  Sealing(k)'
      BY DEF Sealing
    <3>1. th'[u] = th[u]
      BY <1>1 DEF Undoing, Dropping
    <3>2. Undoing(u)' /\ retain' = u /\ th'[u].slot = k
      BY <3>1 DEF Undoing
    <3> QED BY <3>2 DEF Sealing
  <2> QED BY <2>1, <2>2
<1>4. \A k \in Keys : KnownInv(k)' /\ TornInv(k)'
  <2> SUFFICES ASSUME NEW k \in Keys PROVE KnownInv(k)' /\ TornInv(k)'
    OBVIOUS
  <2>1. KnownInv(k) /\ TornInv(k)
    BY DEF ShareInv
  <2>2. DiskRow(k)' = DiskRow(k) /\ (TornInv(k)' <=> TornInv(k)) /\ (Sealing(k) => Sealing(k)')
    BY <1>3
  <2>3. DiskRow(k) = "held" /\ ~Sealing(k) =>
           /\ acct'.live => acct'.rows[k] = "held"
           /\ walk'.on /\ k \in DOMAIN walk'.seen => walk'.seen[k] = "held"
                \/ (acct'.live /\ k \in acct'.touched)
    BY <2>1
  <2>4. TornInv(k)'
    BY <2>1, <2>2
  <2>5. KnownInv(k)'
    <3> HIDE DEF DiskRow, Sealing, TornInv
    <3> QED BY <2>2, <2>3 DEF KnownInv
  <2> QED BY <2>4, <2>5
<1>5. (HeldKeys \cup Granted)' \in Affordable
  <2>1. HeldKeys' = HeldKeys
    BY <1>3 DEF HeldKeys
  <2>2. Granted' \subseteq Granted
    BY <1>1 DEF Granted, Adopting
  <2>3. HeldKeys' \cup Granted' \subseteq HeldKeys \cup Granted
    BY <2>1, <2>2
  <2> QED BY <2>3, FewerAfford DEF ShareInv
<1> QED BY <1>2, <1>4, <1>5 DEF ShareInv

LEMMA ShareWalks ==
  ASSUME CacheInv, ShareInv, Walks \/ \E t \in Threads : SeedStarts(t) \/ ReconcileFallsDue(t)
  PROVE  ShareInv'
<1>1. /\ CacheTypes /\ WalkInv /\ acct \in AcctType
      /\ walk = [on |-> walk.on, seen |-> walk.seen] /\ DOMAIN walk.seen \subseteq Keys
  BY DEF CacheInv, CacheTypes
<1>2. /\ UNCHANGED <<disk, retain>>
      /\ \/ UNCHANGED th
         \/ \E t \in Threads : th[t].pc = "due" /\ \E out \in {"ok", "err", "unpruned"} : Ends(t, out)
  <2>1. \A t \in Threads : th[t].out \in {"none", "ok", "err", "unpruned"}
    BY <1>1 DEF CacheTypes, PlaceType
  <2> QED BY <2>1 DEF Walks, WalkReads, WalkLoads, WalkFails, SeedStarts, ReconcileFallsDue, Pruned, At, locks
<1> DEFINE E == [k \in {} |-> "none"]
<1>3. DOMAIN E = {}
  OBVIOUS
<1> DEFINE Sees(k) ==
      DiskRow(k) = "held" /\ KnownInv(k) /\ ~Sealing(k) =>
        /\ acct'.live => acct'.rows[k] = "held"
        /\ walk'.on /\ k \in DOMAIN walk'.seen => walk'.seen[k] = "held"
             \/ (acct'.live /\ k \in acct'.touched)
<1>4. SUFFICES (acct.live => acct'.live) /\ \A k \in Keys : Sees(k)
  BY <1>2, ShareSees
<1>5. CASE \E t \in Threads : SeedStarts(t) \/ ReconcileFallsDue(t)
  <2>1. walk' = [on |-> TRUE, seen |-> E]
        /\ acct' \in {acct, [acct EXCEPT !.reconciling = TRUE, !.touched = {}]}
    BY <1>5 DEF SeedStarts, ReconcileFallsDue, NoWalk
  <2> HIDE DEF E
  <2>2. walk'.seen = E /\ acct'.live = acct.live /\ acct'.rows = acct.rows
    BY <1>1, <2>1 DEF AcctType
  <2> QED BY <1>3, <2>2 DEF KnownInv
<1>6. CASE WalkReads
  <2>1. PICK k : k = CHOOSE j \in Keys : j \notin DOMAIN walk.seen
    OBVIOUS
  <2>2. PICK row : row = DiskRow(k)
    OBVIOUS
  <2>3. walk' = [walk EXCEPT !.seen = [j \in DOMAIN @ \cup {k} |-> IF j = k THEN row ELSE @[j]]]
        /\ acct' = acct
    BY <1>6, <2>1, <2>2 DEF WalkReads
  <2>4. /\ walk'.on = walk.on /\ DOMAIN walk'.seen = DOMAIN walk.seen \cup {k}
        /\ walk'.seen[k] = row /\ \A j \in DOMAIN walk.seen \ {k} : walk'.seen[j] = walk.seen[j]
    BY <1>1, <2>3
  <2> HIDE DEF DiskRow
  <2>5. ASSUME NEW j \in Keys PROVE Sees(j)
    <3>1. CASE j = k
      BY <2>2, <2>3, <2>4, <3>1 DEF KnownInv
    <3>2. CASE j # k
      BY <2>3, <2>4, <3>2 DEF KnownInv
    <3> QED BY <3>1, <3>2
  <2> QED BY <2>3, <2>5
<1>7. CASE WalkLoads
  <2>1. /\ walk.on /\ DOMAIN walk.seen = Keys /\ walk' = [on |-> FALSE, seen |-> E]
        /\ acct' = [live |-> TRUE, reconciling |-> FALSE, touched |-> {}, missed |-> acct.missed,
                    rows |-> [k \in Keys |-> IF k \in acct.touched THEN acct.rows[k] ELSE walk.seen[k]]]
    BY <1>7 DEF WalkLoads, NoWalk
  <2> HIDE DEF E
  <2>2. walk'.on = FALSE /\ acct'.live = TRUE
        /\ \A k \in Keys : acct'.rows[k] = IF k \in acct.touched THEN acct.rows[k] ELSE walk.seen[k]
    BY <2>1
  <2>3. \A k \in acct.touched : acct.live
    BY <1>1 DEF WalkInv
  <2> QED BY <2>1, <2>2, <2>3 DEF KnownInv
<1>8. CASE WalkFails
  <2>1. acct.live /\ acct' = [acct EXCEPT !.reconciling = FALSE] /\ walk' = [on |-> FALSE, seen |-> E]
    BY <1>8 DEF WalkFails, NoWalk
  <2> HIDE DEF E
  <2>2. walk'.on = FALSE /\ acct'.live = acct.live /\ acct'.rows = acct.rows
    BY <1>1, <2>1 DEF AcctType
  <2> QED BY <2>2 DEF KnownInv
<1> QED BY <1>5, <1>6, <1>7, <1>8 DEF Walks

-----------------------------------------------------------------------------
(* A dying process may leave shown retained only what it was sealing. *)
LEMMA LeftIsHeld ==
  ASSUME CacheInv, ShareInv, NEW k \in Keys, NEW d \in Left(k)
  PROVE  /\ d.mark = "torn" => d.done = "no"
         /\ d.mark # "no" /\ d.done # "no" /\ d.payload # 0 => k \in HeldKeys \cup Granted
<1>1. disk[k] \in SlotType /\ lock[k] \in Threads \cup {Nobody} /\ TornInv(k)
  BY DEF CacheInv, CacheTypes, ShareInv
<1>2. PICK e : e = disk[k]
  OBVIOUS
<1>3. PICK p : p = IF lock[k] = Nobody THEN "idle" ELSE th[lock[k]].pc
  OBVIOUS
<1>4. p \notin Unlocked /\ p # "note" =>
        \E u \in Threads : /\ lock[k] = u /\ th[u].pc = p /\ th[u].slot = k /\ OwnInv(u)
                           /\ p \in Unmarked => e.mark = "no"
                           /\ p \in Retaining => retain = u
  <2> SUFFICES ASSUME p \notin Unlocked, p # "note"
               PROVE  \E u \in Threads : /\ lock[k] = u /\ th[u].pc = p /\ th[u].slot = k /\ OwnInv(u)
                                         /\ p \in Unmarked => e.mark = "no"
                                         /\ p \in Retaining => retain = u
    OBVIOUS
  <2>1. lock[k] # Nobody
    BY <1>3 DEF Unlocked
  <2>2. PICK u \in Threads : u = lock[k] /\ p = th[u].pc
    BY <1>1, <1>3, <2>1
  <2>3. k = th[u].slot
    BY <2>2 DEF CacheInv, ThreadInv, LockInv
  <2>4. Fit(p, disk[k], acked[k], remote[k], latest[k], retain, u)
        /\ (retain = u <=> p \in Retaining \/ (p \in Returning /\ retain = u))
    BY <2>2, <2>3, InHand
  <2>5. OwnInv(u)
    BY DEF ShareInv
  <2> QED BY <1>2, <2>2, <2>3, <2>4, <2>5 DEF Fit
<1>5. DiskRow(k) = IF e.done = "no" \/ e.payload = 0 THEN "none" ELSE IF e.mark = "no" THEN "plain"
        ELSE "held"
  BY <1>2 DEF DiskRow
<1>6. /\ e.mark = "torn" => e.done = "no"
      /\ e.mark # "no" /\ e.done # "no" /\ e.payload # 0 => k \in HeldKeys
  <2>1. e.mark = "torn" => e.done = "no"
    BY <1>1, <1>2 DEF TornInv
  <2>2. e.mark # "no" /\ e.done # "no" /\ e.payload # 0 => DiskRow(k) = "held"
    BY <1>5
  <2> HIDE DEF DiskRow
  <2> QED BY <2>1, <2>2 DEF HeldKeys
<1>7. CASE p \in {"heal", "remove", "old tree", "seal", "put seal"}
  <2>1. e.mark = "no"
    BY <1>4, <1>7 DEF Unlocked, Unmarked
  <2>2. d \in {e, [e EXCEPT !.payload = 0], [e EXCEPT !.done = "no"], [e EXCEPT !.done = "torn"]}
    BY <1>2, <1>3, <1>7 DEF Left, Cut
  <2>3. d.mark = "no"
    BY <1>1, <1>2, <2>1, <2>2 DEF SlotType
  <2> QED BY <2>3
<1>8. CASE p = "own seal"
  <2>1. d \in {e, [e EXCEPT !.done = "torn"]}
    BY <1>2, <1>3, <1>8 DEF Left, Cut
  <2>2. PICK u \in Threads : th[u].pc = p /\ th[u].slot = k /\ OwnInv(u) /\ retain = u
    BY <1>4, <1>8 DEF Unlocked, Retaining
  <2>3. th[u].key = k /\ disk[k].mark \in Holders
    BY <1>8, <2>2 DEF OwnInv, Adopting
  <2>4. k \in Granted
    BY <1>8, <2>2, <2>3 DEF Granted, Adopting
  <2>5. d.mark = e.mark /\ e.mark # "torn"
    BY <1>1, <1>2, <2>1, <2>3, CacheAssumption DEF SlotType
  <2> QED BY <2>4, <2>5
<1>9. CASE p = "own mark"
  <2>1. d \in {e, [e EXCEPT !.mark = "torn"]}
    BY <1>2, <1>3, <1>9 DEF Left, Cut
  <2>2. PICK u \in Threads : th[u].pc = p /\ th[u].slot = k /\ OwnInv(u)
    BY <1>4, <1>9 DEF Unlocked
  <2>3. e.done = "no"
    BY <1>2, <1>9, <2>2 DEF OwnInv
  <2>4. d.done = "no"
    BY <1>1, <1>2, <2>1, <2>3 DEF SlotType
  <2> QED BY <2>4
<1>10. CASE p \notin {"heal", "remove", "old tree", "seal", "put seal", "own seal", "own mark"}
  <2>1. d = e
    BY <1>2, <1>3, <1>10 DEF Left, Cut
  <2> QED BY <1>6, <2>1
<1> QED BY <1>7, <1>8, <1>9, <1>10

LEMMA ShareDies ==
  ASSUME CacheInv, ShareInv, Dies
  PROVE  ShareInv'
<1>1. /\ acct' = NoAccount /\ walk' = NoWalk /\ th' = [t \in Threads |-> Nowhere]
      /\ \A k \in Keys : disk'[k] \in Left(k)
  BY DEF Dies
<1>2. ~acct'.live /\ ~walk'.on /\ \A t \in Threads : th'[t].pc = "idle"
  BY <1>1 DEF NoAccount, NoWalk, Nowhere
<1>3. \A t \in Threads : OwnInv(t)'
  BY <1>2 DEF OwnInv, Place, Adopting, Releasing
<1>4. ASSUME NEW k \in Keys PROVE /\ KnownInv(k)' /\ TornInv(k)'
                                  /\ DiskRow(k)' = "held" => k \in HeldKeys \cup Granted
  <2>1. PICK d \in Left(k) : d = disk'[k]
    BY <1>1
  <2>2. /\ d.mark = "torn" => d.done = "no"
        /\ d.mark # "no" /\ d.done # "no" /\ d.payload # 0 => k \in HeldKeys \cup Granted
    BY LeftIsHeld
  <2>3. TornInv(k)' /\ (DiskRow(k)' = "held" => d.mark # "no" /\ d.done # "no" /\ d.payload # 0)
    BY <2>1, <2>2 DEF TornInv, DiskRow
  <2> QED BY <1>2, <2>2, <2>3 DEF KnownInv
<1>5. HeldKeys' \subseteq HeldKeys \cup Granted /\ Granted' = {}
  <2>1. HeldKeys' \subseteq HeldKeys \cup Granted
    BY <1>4 DEF HeldKeys
  <2>2. Granted' = {}
    BY <1>2 DEF Granted, Adopting
  <2> QED BY <2>1, <2>2
<1>6. (HeldKeys \cup Granted)' \in Affordable
  <2>1. HeldKeys' \cup Granted' \subseteq HeldKeys \cup Granted
    BY <1>5
  <2> QED BY <2>1, FewerAfford DEF ShareInv
<1> QED BY <1>3, <1>4, <1>6 DEF ShareInv

LEMMA ShareStarts ==
  ASSUME Init
  PROVE  ShareInv
<1>1. /\ acct.live = FALSE /\ walk.on = FALSE /\ \A t \in Threads : th[t].pc = "idle"
      /\ \A k \in Keys : disk[k].done = "no"
  BY DEF Init, NoAccount, NoWalk, Nowhere, Empty
<1>2. \A t \in Threads : OwnInv(t)
  BY <1>1 DEF OwnInv, Place, Adopting, Releasing
<1>3. \A k \in Keys : DiskRow(k) = "none" /\ TornInv(k) /\ KnownInv(k)
  BY <1>1 DEF DiskRow, TornInv, KnownInv
<1>4. HeldKeys \cup Granted = {}
  BY <1>1, <1>3 DEF HeldKeys, Granted, Adopting
<1>5. {} \in Affordable
  <2>1. Weight({}) = 0
    BY SumOfNone, WeightIs
  <2>2. RetainedCap \in Nat /\ {} \in SUBSET Keys
    BY CacheAssumption
  <2> QED BY <2>1, <2>2 DEF Affordable
<1> QED BY <1>2, <1>3, <1>4, <1>5 DEF ShareInv

LEMMA ShareProceeds ==
  ASSUME CacheInv, CacheInv', ShareInv, NEW t \in Threads, Proceeds(t)
  PROVE  ShareInv'
<1>1. CASE Note(t)
  BY <1>1, ShareNotes
<1>2. CASE \/ GetLooks(t) \/ GetFails(t) \/ GetLeases(t) \/ PutFails(t) \/ PutLands(t)
           \/ Reports(t) \/ AfterInvalidation(t) \/ ChecksVictim(t) \/ PruneEnds(t)
           \/ AdoptionFails(t) \/ RemovalFails(t) \/ GetSealFails(t) \/ RetentionFails(t)
  BY <1>2, ShareReturns, ShareAdvances, ShareFails, ShareGivesUp
<1>3. CASE GetHeals(t) \/ GetFetches(t) \/ GetSeals(t) \/ UnmarksOld(t) \/ RemovesOld(t) \/ RemovesVictim(t)
  BY <1>3, ShareUnmarks
<1>4. CASE PutAdopts(t) \/ Invalidates(t)
  <2>1. UNCHANGED <<stores, locks, acct, walk, proc>>
    BY <1>4 DEF PutAdopts, Invalidates
  <2>2. PutUnseals(t) \/ PutUnmarks(t) \/ PutSwaps(t) \/ PutSeals(t) \/ DropsDone(t)
          \/ DropsPayload(t) \/ DropsMark(t)
    BY <1>4 DEF PutAdopts, Invalidates
  <2> QED BY <2>1, <2>2, ShareUnseals, ShareUnmarks
<1>5. CASE FindsSuperseded(t) \/ TakesOld(t) \/ FreesOld(t) \/ TakesBatch(t) \/ TakesVictim(t)
             \/ FreesVictim(t)
  BY <1>5, ShareLoops
<1>6. CASE Tallies(t)
  BY <1>6, ShareTallies, ShareReturns
<1>7. CASE RetainLocks(t)
  BY <1>7, ShareOwns
<1>8. CASE Retains(t)
  <2>1. UNCHANGED <<locks, acct, walk, proc>>
    BY <1>8 DEF Retains
  <2>2. OwnUnseals(t) \/ OwnSwaps(t) \/ OwnMarks(t) \/ OwnSeals(t)
    BY <1>8 DEF Retains
  <2> QED BY <2>1, <2>2, ShareOwns, ShareSeals
<1>9. CASE ReconcileFallsDue(t) \/ SeedStarts(t)
  BY <1>9, ShareWalks
<1> QED BY <1>1, <1>2, <1>3, <1>4, <1>5, <1>6, <1>7, <1>8, <1>9 DEF Proceeds

LEMMA KeepsShare ==
  ASSUME CacheInv, CacheInv', ShareInv, [Next]_vars
  PROVE  ShareInv'
<1>1. CASE Dies
  BY <1>1, ShareDies
<1>2. CASE Rests \/ UNCHANGED vars
  <2>1. UNCHANGED <<disk, retain, acct, walk, th>>
    BY <1>2 DEF Rests, vars, locks
  <2>2. \A k \in Keys : KnownInv(k) => (DiskRow(k) = "held" /\ ~Sealing(k) =>
           /\ acct'.live => acct'.rows[k] = "held"
           /\ walk'.on /\ k \in DOMAIN walk'.seen => walk'.seen[k] = "held"
                \/ (acct'.live /\ k \in acct'.touched))
    BY <2>1 DEF KnownInv
  <2> QED BY <2>1, <2>2, ShareSees
<1>3. CASE Walks
  BY <1>3, ShareWalks
<1>4. ASSUME NEW t \in Threads, Call(t) PROVE ShareInv'
  BY <1>4, ShareCalls
<1>5. ASSUME NEW t \in Threads, Proceeds(t) PROVE ShareInv'
  BY <1>5, ShareProceeds
<1> QED BY <1>1, <1>2, <1>3, <1>4, <1>5 DEF Next

(* Once the budgets are read, what is retained never exceeds its share of   *)
(* the cap, whoever adopts, releases, prunes, forgets or dies meanwhile     *)
(* (_retain_share read and taken under _retain_lock).                       *)
THEOREM ShareHolds == Spec => []RetainedFits
<1>1. Init => ShareInv
  BY ShareStarts
<1>2. CacheInv /\ CacheInv' /\ ShareInv /\ [Next]_vars => ShareInv'
  BY KeepsShare
<1>3. ShareInv => RetainedFits
  <2> SUFFICES ASSUME ShareInv PROVE RetainedFits
    OBVIOUS
  <2>1. HeldKeys \in Affordable
    BY FewerAfford DEF ShareInv
  <2> QED BY <2>1 DEF Affordable, HeldKeys, RetainedFits
<1> QED BY <1>1, <1>2, <1>3, CacheHolds, PTL DEF Spec

-----------------------------------------------------------------------------
(* The cap. Whatever is left over it is owed: for each plain object some    *)
(* thread has a prune before it that has not passed over the object, or     *)
(* some call ended without one. A pruner that finds a slot in use passes it *)
(* over, and the call that uses it owes it in turn.                         *)

InCall(t)  == Place(t) \notin {"idle", "batch", "evict", "check", "remove", "evicted", "due"}
Pruning(t) == Place(t) \in {"batch", "evict", "check", "remove", "evicted"}
Owes(t, k) ==
  \/ InCall(t)
  \/ /\ Pruning(t)
     /\ k \notin th[t].tried \/ k \in th[t].todo
          \/ (th[t].slot = k /\ th[t].pc \in {"check", "remove", "note"})

(* Nobody prunes before the account is seeded. *)
QuietInv(t) ==
  /\ ~acct.live => \/ InCall(t)
                   \/ th[t].pc = "batch" /\ th[t].tried = {}
                   \/ th[t].pc = "idle" /\ th[t].out # "ok"
  /\ th[t].pc = "batch" => th[t].todo = {}

(* What the account, and a walk, know of a pruner's victim: its eviction    *)
(* adds nothing to the total.                                               *)
Glanced(k) == walk.on /\ k \in DOMAIN walk.seen /\ k \notin acct.touched
VictimInv(t) ==
  LET s == th[t].slot IN
  Place(t) \in {"check", "remove", "evicted"} =>
    /\ th[t].pc # "evicted" /\ s \notin acct.missed =>
         /\ DiskRow(s) # "none" => acct.rows[s] # "none" /\ (Glanced(s) => walk.seen[s] # "none")
         /\ acct.rows[s] = "none" /\ Glanced(s) => walk.seen[s] = "none"
    /\ th[t].pc # "evicted" /\ s \in acct.missed => DiskRow(s) # "held"
    /\ Place(t) = "evicted" => DiskRow(s) # "plain" \/ th[t].out = "unpruned"

WithinCap == {ks \in SUBSET Keys : Weight(ks) <= Cap}
Excused ==
  \/ ~acct.live
  \/ \A t \in Threads : th[t].pc = "idle" /\ th[t].out = "none"
  \/ \E t \in Threads : th[t].out \in {"err", "unpruned"}
  \/ Told({"plain", "held"}) \in WithinCap
OwedInv == Excused \/ \A k \in Told({"plain"}) : \E t \in Threads : Owes(t, k)

CapInv == (\A t \in Threads : QuietInv(t) /\ VictimInv(t)) /\ OwedInv

LEMMA FewerWithin ==
  ASSUME NEW ks \in WithinCap, NEW js \in SUBSET ks
  PROVE  js \in WithinCap
<1>1. Weight(js) \in Nat /\ Weight(ks) \in Nat /\ Weight(js) <= Weight(ks)
  BY WeightGrows DEF WithinCap
<1>2. Cap \in Nat /\ Weight(ks) <= Cap /\ js \in SUBSET Keys
  BY CacheAssumption DEF WithinCap
<1>3. Weight(js) <= Cap
  BY <1>1, <1>2
<1> QED BY <1>2, <1>3 DEF WithinCap

(* A victim stays as it is while its pruner rests. *)
LEMMA VictimKept ==
  ASSUME CacheInv, NEW u \in Threads, VictimInv(u), th'[u] = th[u],
         \A k \in Keys : lock[k] = u =>
            disk'[k] = disk[k] /\ acct'.rows[k] = acct.rows[k] /\ (k \in acct'.missed <=> k \in acct.missed),
         \/ walk' = walk /\ acct.touched \subseteq acct'.touched
         \/ DOMAIN walk'.seen = {}
  PROVE  VictimInv(u)'
<1>1. PICK s : s = th[u].slot
  OBVIOUS
<1>2. SUFFICES ASSUME Place(u) \in {"check", "remove", "evicted"}
               PROVE  VictimInv(u)'
  BY DEF VictimInv, Place
<1>3. s \in Keys /\ lock[s] = u
  <2>1. th[u].pc \notin Unlocked
    BY <1>2 DEF Place, Unlocked
  <2> QED BY <1>1, <2>1 DEF CacheInv, ThreadInv, LockInv
<1>4. /\ disk'[s] = disk[s] /\ acct'.rows[s] = acct.rows[s] /\ DiskRow(s)' = DiskRow(s)
      /\ (s \in acct'.missed <=> s \in acct.missed)
  BY <1>3 DEF DiskRow
<1>5. Place(u)' = Place(u) /\ th'[u].slot = s /\ th'[u].pc = th[u].pc /\ th'[u].out = th[u].out
  BY <1>1 DEF Place
<1>6. Glanced(s)' => Glanced(s) /\ walk' = walk
  BY DEF Glanced
<1> HIDE DEF Place, DiskRow, Glanced
<1> QED BY <1>1, <1>2, <1>4, <1>5, <1>6 DEF VictimInv

(* A step of one thread. *)
LEMMA CapStep ==
  ASSUME CacheInv, CapInv, NEW t \in Threads, Moved(t),
         \A k \in Keys : lock[k] # t =>
            disk'[k] = disk[k] /\ acct'.rows[k] = acct.rows[k] /\ (k \in acct'.missed <=> k \in acct.missed),
         acct'.live = acct.live,
         \/ walk' = walk /\ acct.touched \subseteq acct'.touched
         \/ DOMAIN walk'.seen = {},
         QuietInv(t)', VictimInv(t)', OwedInv'
  PROVE  CapInv'
<1>1. ASSUME NEW u \in Threads, u # t PROVE QuietInv(u)' /\ VictimInv(u)'
  <2>1. th'[u] = th[u] /\ QuietInv(u) /\ VictimInv(u)
    BY <1>1 DEF Moved, CapInv
  <2>2. QuietInv(u)'
    BY <2>1 DEF QuietInv, InCall, Place
  <2>3. VictimInv(u)'
    BY <1>1, <2>1, VictimKept
  <2> QED BY <2>2, <2>3
<1> QED BY <1>1 DEF CapInv

(* A thread in a call stays in it, prunes next, or ended without. *)
Onward(t) ==
  \/ InCall(t)
  \/ th[t].pc = "batch" /\ th[t].tried = {} /\ th[t].todo = {}
  \/ th[t].pc = "idle" /\ th[t].out \in {"err", "unpruned"}

LEMMA OnwardOwes ==
  ASSUME NEW t \in Threads, Onward(t)'
  PROVE  QuietInv(t)' /\ VictimInv(t)' /\ OwedInv'
<1>1. CASE InCall(t)'
  <2>1. \A k : Owes(t, k)'
    BY <1>1 DEF Owes
  <2>2. th'[t].pc # "batch" /\ Place(t)' \notin {"check", "remove", "evicted"}
    BY <1>1 DEF InCall, Place
  <2> HIDE DEF Place, InCall, Owes
  <2> QED BY <1>1, <2>1, <2>2 DEF QuietInv, VictimInv, OwedInv
<1>2. CASE th'[t].pc = "batch" /\ th'[t].tried = {} /\ th'[t].todo = {}
  <2>1. Place(t)' = "batch"
    BY <1>2 DEF Place
  <2>2. \A k : Owes(t, k)'
    <3> HIDE DEF Place
    <3> QED BY <1>2, <2>1 DEF Owes, Pruning
  <2> HIDE DEF Place, InCall, Owes
  <2> QED BY <1>2, <2>1, <2>2 DEF QuietInv, VictimInv, OwedInv
<1>3. CASE th'[t].pc = "idle" /\ th'[t].out \in {"err", "unpruned"}
  <2>1. Place(t)' = "idle"
    BY <1>3 DEF Place
  <2>2. Excused'
    BY <1>3 DEF Excused
  <2> HIDE DEF Place, InCall
  <2> QED BY <1>3, <2>1, <2>2 DEF QuietInv, VictimInv, OwedInv
<1> QED BY <1>1, <1>2, <1>3 DEF Onward

-----------------------------------------------------------------------------
(* What the steps of a thread leave alone *)

(* A change of the disk is under the lock of its slot. *)
LEMMA ChangesOwn ==
  ASSUME CacheInv, NEW t \in Threads, Call(t) \/ Proceeds(t)
  PROVE  \A k \in Keys : lock[k] # t => disk'[k] = disk[k]
<1>1. PICK s : s = th[t].slot
  OBVIOUS
<1>2. th[t].pc \notin Unlocked => lock[s] = t
  BY <1>1 DEF CacheInv, ThreadInv, LockInv
<1>3. CASE GetHeals(t) \/ GetFetches(t) \/ GetSeals(t) \/ UnmarksOld(t) \/ RemovesOld(t) \/ RemovesVictim(t)
  <2>1. th[t].pc \in {"heal", "fetch", "seal", "old mark", "old tree", "remove"}
    BY <1>3 DEF GetHeals, GetFetches, GetSeals, UnmarksOld, RemovesOld, RemovesVictim, At
  <2>2. th[t].pc \notin Unlocked
    BY <2>1 DEF Unlocked
  <2>3. disk \in [Keys -> SlotType]
    BY DEF CacheInv, CacheTypes
  <2> QED BY <1>1, <1>2, <1>3, <2>2, <2>3
          DEF GetHeals, GetFetches, GetSeals, UnmarksOld, RemovesOld, RemovesVictim,
                                             Changes, Slot
<1>4. CASE PutAdopts(t) \/ Invalidates(t) \/ Retains(t)
  <2>1. th[t].pc \in {"unseal", "unmark", "swap", "put seal", "drop done", "drop payload", "drop mark",
                      "own unseal", "own swap", "own mark", "own seal"}
    BY <1>4 DEF PutAdopts, Invalidates, Retains, PutUnseals, PutUnmarks, PutSwaps, PutSeals,
                DropsDone, DropsPayload, DropsMark, OwnUnseals, OwnSwaps, OwnMarks, OwnSeals, At
  <2>2. th[t].pc \notin Unlocked
    BY <2>1 DEF Unlocked
  <2>3. \E f \in {"payload", "done", "mark"} : \E v : Changes(t, f, v)
    BY <1>4 DEF PutAdopts, Invalidates, Retains, PutUnseals, PutUnmarks, PutSwaps, PutSeals,
                DropsDone, DropsPayload, DropsMark, OwnUnseals, OwnSwaps, OwnMarks, OwnSeals
  <2>4. disk \in [Keys -> SlotType]
    BY DEF CacheInv, CacheTypes
  <2> QED BY <1>1, <1>2, <2>2, <2>3, <2>4 DEF Changes, Slot
<1>5. CASE disk' = disk
  BY <1>5
<1>6. CASE GetLooks(t)
  BY <1>6 DEF GetLooks, Verdict
<1>7. CASE AdoptionFails(t) \/ RemovalFails(t) \/ GetSealFails(t) \/ RetentionFails(t)
  <2>1. /\ CutShort(t)
        /\ th[t].pc \in {"unseal", "unmark", "swap", "put seal", "seal",
                         "own unseal", "own swap", "own mark", "own seal"} \cup Removals
    BY <1>7, CacheAssumption DEF AdoptionFails, RemovalFails, GetSealFails, RetentionFails, At
  <2>2. th[t].pc \notin Unlocked
    BY <2>1 DEF Unlocked, Removals
  <2>3. disk \in [Keys -> SlotType]
    BY DEF CacheInv, CacheTypes
  <2>4. \E d : disk' = [disk EXCEPT ![s] = d]
    BY <1>1, <2>1 DEF CutShort, Slot
  <2> QED BY <1>2, <2>2, <2>3, <2>4
<1> QED BY <1>3, <1>4, <1>5, <1>6, <1>7
        DEF Call, Proceeds, GetLocks, PutLocks, RetainEnters, Note, GetFails, GetLeases,
      PutFails, PutLands, Reports, AfterInvalidation, FindsSuperseded, TakesOld,
      FreesOld, Tallies, RetainLocks, TakesBatch, TakesVictim, ChecksVictim, FreesVictim,
      PruneEnds, ReconcileFallsDue, SeedStarts

(* Only _note and a reconcile that falls due change the account or the      *)
(* walk, and what a get fails to seal is what the account is not told.      *)
Accounts(t) == Note(t) \/ ReconcileFallsDue(t) \/ SeedStarts(t) \/ GetSealFails(t)

LEMMA OthersFramed ==
  ASSUME CacheInv, NEW t \in Threads, Call(t) \/ Proceeds(t), ~Accounts(t)
  PROVE  UNCHANGED <<acct, walk>>
BY DEF Call, Proceeds, Accounts, GetLocks, PutLocks, RetainEnters, GetLooks, GetHeals, GetFetches, GetSeals,
      GetFails, GetLeases,
      PutFails, PutLands, PutAdopts, AdoptionFails, Reports, Invalidates, RemovalFails, AfterInvalidation,
      FindsSuperseded, TakesOld, UnmarksOld, RemovesOld, FreesOld, Tallies, RetainLocks, Retains,
        RetentionFails,
      TakesBatch, TakesVictim, ChecksVictim, RemovesVictim, FreesVictim, PruneEnds

-----------------------------------------------------------------------------
(* The steps of a call *)

CallPlaces == Places \ {"idle", "note", "batch", "evict", "check", "remove", "evicted", "due"}

(* The loop of release_superseded *)
LEMMA ReleaseMoves ==
  ASSUME CacheInv, CacheInv', NEW t \in Threads, FindsSuperseded(t) \/ TakesOld(t) \/ FreesOld(t)
  PROVE  Moved(t) /\ th'[t].pc \in {"release", "old mark"}
<1>1. th \in [Threads -> PlaceType] /\ th[t] \in PlaceType
  BY DEF CacheInv, CacheTypes
<1>2. SUFFICES \E r : th' = [th EXCEPT ![t] = r] /\ r.pc \in {"release", "old mark"}
  BY OthersStay
<1>3. CASE FindsSuperseded(t)
  <2>1. PICK old : old = Superseded(th[t].key)
    OBVIOUS
  <2> DEFINE r == [th[t] EXCEPT !.todo = old, !.pc = "release"]
  <2>2. th' = [th EXCEPT ![t].todo = old, ![t].pc = "release"]
    BY <1>3, <2>1 DEF FindsSuperseded
  <2>3. th' = [th EXCEPT ![t] = r] /\ r.pc = "release"
    BY <1>1, <2>2 DEF PlaceType
  <2> QED BY <2>3
<1>4. CASE TakesOld(t)
  <2>1. PICK j \in th[t].todo :
          \/ th' = [th EXCEPT ![t].todo = @ \ {j}, ![t].slot = j, ![t].pc = "old mark"]
          \/ th' = [th EXCEPT ![t].todo = @ \ {j}]
    BY <1>4 DEF TakesOld
  <2>2. CASE th' = [th EXCEPT ![t].todo = @ \ {j}, ![t].slot = j, ![t].pc = "old mark"]
    <3> DEFINE r == [th[t] EXCEPT !.todo = @ \ {j}, !.slot = j, !.pc = "old mark"]
    <3>1. th' = [th EXCEPT ![t] = r] /\ r.pc = "old mark"
      BY <1>1, <2>2 DEF PlaceType
    <3> QED BY <3>1
  <2>3. CASE th' = [th EXCEPT ![t].todo = @ \ {j}]
    <3> DEFINE r == [th[t] EXCEPT !.todo = @ \ {j}]
    <3>1. th' = [th EXCEPT ![t] = r] /\ r.pc = "release"
      BY <1>1, <1>4, <2>3 DEF PlaceType, TakesOld, At
    <3> QED BY <3>1
  <2> QED BY <2>1, <2>2, <2>3
<1>5. CASE FreesOld(t)
  <2> DEFINE r == [th[t] EXCEPT !.slot = th[t].key, !.pc = "release"]
  <2>1. th' = [th EXCEPT ![t] = r] /\ r.pc = "release"
    BY <1>1, <1>5 DEF PlaceType, FreesOld
  <2> QED BY <2>1
<1> QED BY <1>3, <1>4, <1>5

(* The loop of prune, and what it does to what the pruner owes. *)
LEMMA PruneMoves ==
  ASSUME CacheInv, CacheInv', NEW t \in Threads, TakesBatch(t) \/ TakesVictim(t) \/ FreesVictim(t)
  PROVE  /\ Moved(t)
         /\ \/ th[t].pc = "batch" /\ th'[t].pc = "due" /\ (Total <= Cap \/ Evictable(t) = {})
            \/ th[t].pc = "batch" /\ th'[t].pc = "evict" /\ th'[t].tried = th[t].tried \cup th'[t].todo
            \/ /\ th[t].pc = "evict" /\ th'[t].pc = "batch" /\ th[t].todo = {}
               /\ th'[t].todo = {} /\ th'[t].tried = th[t].tried
            \/ \E j \in th[t].todo :
                 /\ th[t].pc = "evict" /\ th'[t].tried = th[t].tried /\ th'[t].todo = th[t].todo \ {j}
                 /\ \/ th'[t].pc = "check" /\ th'[t].slot = j /\ lock[j] = Nobody
                    \/ th'[t].pc = "evict" /\ lock[j] # Nobody
            \/ /\ th[t].pc = "evicted" /\ th'[t].pc = "evict"
               /\ th'[t].todo = th[t].todo /\ th'[t].tried = th[t].tried
         /\ th'[t].out = th[t].out
<1>1. th \in [Threads -> PlaceType] /\ th[t] \in PlaceType
  BY DEF CacheInv, CacheTypes
<1>2. CASE TakesBatch(t)
  <2>1. CASE /\ th' = [th EXCEPT ![t] = [Nowhere EXCEPT !.pc = "due", !.out = th[t].out]]
             /\ (Total <= Cap \/ Evictable(t) = {})
    <3> DEFINE r == [Nowhere EXCEPT !.pc = "due", !.out = th[t].out]
    <3>1. r.pc = "due" /\ r.out = th[t].out
      BY DEF Nowhere
    <3>2. th' = [th EXCEPT ![t] = r]
      BY <2>1
    <3> HIDE DEF r
    <3>3. Moved(t) /\ th'[t] = r
      BY <3>2, OthersStay
    <3> QED BY <1>2, <2>1, <3>1, <3>3 DEF TakesBatch, At
  <2>2. CASE \E b \in Batches(t) :
               th' = [th EXCEPT ![t].pc = "evict", ![t].todo = b, ![t].tried = @ \cup b]
    <3>1. PICK b \in Batches(t) :
               th' = [th EXCEPT ![t].pc = "evict", ![t].todo = b, ![t].tried = @ \cup b]
      BY <2>2
    <3> DEFINE r == [th[t] EXCEPT !.pc = "evict", !.todo = b, !.tried = @ \cup b]
    <3>2. th' = [th EXCEPT ![t] = r]
      BY <1>1, <3>1
    <3>3. r.pc = "evict" /\ r.todo = b /\ r.tried = th[t].tried \cup b /\ r.out = th[t].out
      BY <1>1 DEF PlaceType
    <3> HIDE DEF r
    <3>4. Moved(t) /\ th'[t] = r
      BY <3>2, OthersStay
    <3> QED BY <1>2, <3>3, <3>4 DEF TakesBatch, At
  <2> QED BY <1>2, <2>1, <2>2 DEF TakesBatch
<1>3. CASE TakesVictim(t)
  <2>1. CASE th[t].todo = {} /\ Goes(t, "batch")
    <3> DEFINE r == [th[t] EXCEPT !.pc = "batch"]
    <3>1. th' = [th EXCEPT ![t] = r] /\ r.pc = "batch" /\ r.todo = th[t].todo /\ r.tried = th[t].tried
            /\ r.out = th[t].out
      BY <1>1, <2>1 DEF Goes, PlaceType
    <3> HIDE DEF r
    <3>2. Moved(t) /\ th'[t] = r
      BY <3>1, OthersStay
    <3> QED BY <1>3, <2>1, <3>1, <3>2 DEF TakesVictim, At
  <2>2. CASE ~(th[t].todo = {} /\ Goes(t, "batch"))
    <3>1. PICK j \in th[t].todo :
            \/ Takes(t, j) /\ th' = [th EXCEPT ![t].todo = @ \ {j}, ![t].slot = j, ![t].pc = "check"]
            \/ lock[j] # Nobody /\ th' = [th EXCEPT ![t].todo = @ \ {j}]
      BY <1>3, <2>2 DEF TakesVictim
    <3>2. CASE lock[j] = Nobody /\ th' = [th EXCEPT ![t].todo = @ \ {j}, ![t].slot = j, ![t].pc = "check"]
      <4> DEFINE r == [th[t] EXCEPT !.todo = @ \ {j}, !.slot = j, !.pc = "check"]
      <4>1. th' = [th EXCEPT ![t] = r] /\ r.pc = "check" /\ r.slot = j /\ r.todo = th[t].todo \ {j}
            /\ r.tried = th[t].tried /\ r.out = th[t].out
        BY <1>1, <3>2 DEF PlaceType
      <4> HIDE DEF r
      <4>2. Moved(t) /\ th'[t] = r
        BY <4>1, OthersStay
      <4> QED BY <1>3, <3>2, <4>1, <4>2 DEF TakesVictim, At
    <3>3. CASE lock[j] # Nobody /\ th' = [th EXCEPT ![t].todo = @ \ {j}]
      <4> DEFINE r == [th[t] EXCEPT !.todo = @ \ {j}]
      <4>1. th' = [th EXCEPT ![t] = r] /\ r.pc = "evict" /\ r.todo = th[t].todo \ {j} /\ r.tried = th[t].tried
            /\ r.out = th[t].out
        BY <1>1, <1>3, <3>3 DEF PlaceType, TakesVictim, At
      <4> HIDE DEF r
      <4>2. Moved(t) /\ th'[t] = r
        BY <4>1, OthersStay
      <4> QED BY <1>3, <3>3, <4>1, <4>2 DEF TakesVictim, At
    <3> QED BY <3>1, <3>2, <3>3 DEF Takes
  <2> QED BY <2>1, <2>2
<1>4. CASE FreesVictim(t)
  <2> DEFINE r == [th[t] EXCEPT !.slot = Nobody, !.pc = "evict"]
  <2>1. th' = [th EXCEPT ![t] = r] /\ r.pc = "evict" /\ r.todo = th[t].todo /\ r.tried = th[t].tried
          /\ r.out = th[t].out
    BY <1>1, <1>4 DEF PlaceType, FreesVictim
  <2> HIDE DEF r
  <2>2. Moved(t) /\ th'[t] = r
    BY <2>1, OthersStay
  <2> QED BY <1>4, <2>1, <2>2 DEF FreesVictim, At
<1> QED BY <1>2, <1>3, <1>4

(* Every step of a call leads on. *)
LEMMA CallGoes ==
  ASSUME CacheInv, CacheInv', NEW t \in Threads, NEW w,
         (Goes(t, w) /\ w \in CallPlaces) \/ (Notes(t, w) /\ w \in Noted \ {"evicted"})
  PROVE  Moved(t) /\ Onward(t)'
<1>1. CacheTypes
  BY DEF CacheInv
<1>2. CASE Goes(t, w) /\ w \in CallPlaces
  <2>1. w \in Places /\ w # "note"
    BY <1>2 DEF CallPlaces
  <2>2. Moved(t) /\ th'[t].pc = w
    BY <1>1, <1>2, <2>1, Going
  <2> QED BY <1>2, <2>2 DEF Onward, InCall, Place, CallPlaces
<1>3. CASE Notes(t, w) /\ w \in Noted \ {"evicted"}
  <2>1. Moved(t) /\ th'[t].pc = "note" /\ th'[t].then = w
    BY <1>1, <1>3, Noting
  <2> QED BY <1>3, <2>1 DEF Onward, InCall, Place, Noted
<1> QED BY <1>2, <1>3

LEMMA CallLeaves ==
  ASSUME CacheInv, CacheInv', NEW t \in Threads,
         Prunes(t) \/ \E out \in {"err", "unpruned"} : Ends(t, out)
  PROVE  Moved(t) /\ Onward(t)'
<1>1. CASE Prunes(t)
  <2> DEFINE r == [Nowhere EXCEPT !.pc = "batch"]
  <2>1. r.pc = "batch" /\ r.tried = {} /\ r.todo = {}
    BY DEF Nowhere
  <2>2. th' = [th EXCEPT ![t] = r]
    BY <1>1 DEF Prunes
  <2> HIDE DEF r
  <2> QED BY <2>1, <2>2, OthersStay DEF Onward
<1>2. ASSUME NEW out \in {"err", "unpruned"}, Ends(t, out)
      PROVE  Moved(t) /\ Onward(t)'
  <2> DEFINE r == [Nowhere EXCEPT !.out = out]
  <2>1. r.pc = "idle" /\ r.out = out
    BY DEF Nowhere
  <2>2. th' = [th EXCEPT ![t] = r]
    BY <1>2 DEF Ends
  <2> HIDE DEF r
  <2> QED BY <2>1, <2>2, OthersStay DEF Onward
<1> QED BY <1>1, <1>2

PrunerSteps(t) ==
  \/ TakesBatch(t) \/ TakesVictim(t) \/ ChecksVictim(t) \/ RemovesVictim(t) \/ FreesVictim(t) \/ PruneEnds(t)
  \/ RemovalFails(t) /\ th[t].pc = "remove"

LEMMA CallGoesOn ==
  ASSUME CacheInv, CacheInv', NEW t \in Threads, Call(t) \/ Proceeds(t), ~Accounts(t), ~PrunerSteps(t)
  PROVE  Moved(t) /\ Onward(t)'
<1>1. CASE Call(t)
  <2>1. PICK k \in Keys, w \in {"look", "put", "rows"} : Enters(t, k, w)
    BY <1>1 DEF Call, GetLocks, PutLocks, RetainEnters
  <2>2. w \in Places /\ CacheTypes
    BY DEF Places, CacheInv
  <2>3. Moved(t) /\ th'[t].pc = w
    BY <2>1, <2>2, Entering
  <2> QED BY <2>1, <2>3 DEF Onward, InCall, Place
<1>2. CASE GetFails(t) \/ GetLeases(t) \/ PutFails(t) \/ Reports(t) \/ AfterInvalidation(t)
  BY <1>2, CallLeaves DEF GetFails, GetLeases, PutFails, Reports, AfterInvalidation
<1>3. CASE FindsSuperseded(t) \/ TakesOld(t) \/ FreesOld(t)
  BY <1>3, ReleaseMoves DEF Onward, InCall, Place
<1>4. CASE GetLooks(t) \/ Tallies(t)
  <2>1. \/ Ends(t, "err")
        \/ \E w \in {"lease", "fetch", "heal", "adopt"} : Goes(t, w)
    BY <1>4 DEF GetLooks, Verdict, Tallies
  <2>2. {"lease", "fetch", "heal", "adopt"} \subseteq CallPlaces
    BY DEF CallPlaces, Places
  <2>3. ASSUME NEW w \in CallPlaces, Goes(t, w)
        PROVE  Moved(t) /\ Onward(t)'
    BY <2>3, CallGoes
  <2>4. Ends(t, "err") => Moved(t) /\ Onward(t)'
    BY CallLeaves
  <2> HIDE DEF CallPlaces
  <2> QED BY <2>1, <2>2, <2>3, <2>4
<1>5. CASE GetHeals(t) \/ GetFetches(t) \/ GetSeals(t) \/ PutLands(t) \/ PutAdopts(t) \/ AdoptionFails(t)
           \/ Invalidates(t) \/ UnmarksOld(t) \/ RemovesOld(t) \/ RetainLocks(t)
           \/ Retains(t) \/ RetentionFails(t)
  <2>1. \/ \E w \in {"seal", "unseal", "drop done", "unmark", "swap", "put seal", "drop payload", "drop mark",
                      "old tree", "own unseal", "own swap", "own mark", "own seal"} : Goes(t, w)
        \/ \E w \in {"fetch", "lease", "reported", "invalidated", "old freed"} : Notes(t, w)
    BY <1>5 DEF GetHeals, GetFetches, GetSeals, PutLands, PutAdopts, AdoptionFails,
           Invalidates, UnmarksOld, RemovesOld, RetainLocks, Retains, RetentionFails,
           PutUnseals, PutUnmarks, PutSwaps, PutSeals,
           DropsDone, DropsPayload, DropsMark, OwnUnseals, OwnSwaps, OwnMarks, OwnSeals
  <2>2. {"seal", "unseal", "drop done", "unmark", "swap", "put seal", "drop payload", "drop mark",
         "old tree", "own unseal", "own swap", "own mark", "own seal"} \subseteq CallPlaces
        /\ {"fetch", "lease", "reported", "invalidated", "old freed"} \subseteq Noted \ {"evicted"}
    BY DEF CallPlaces, Places, Noted
  <2>3. ASSUME NEW w \in CallPlaces, Goes(t, w)
        PROVE  Moved(t) /\ Onward(t)'
    BY <2>3, CallGoes
  <2>4. ASSUME NEW w \in Noted \ {"evicted"}, Notes(t, w)
        PROVE  Moved(t) /\ Onward(t)'
    BY <2>4, CallGoes
  <2> HIDE DEF CallPlaces, Noted
  <2> QED BY <2>1, <2>2, <2>3, <2>4
<1>6. CASE RemovalFails(t) /\ th[t].pc # "remove"
  <2>1. PICK p, w : p = th[t].pc /\ w = AfterRemoval(p)
    OBVIOUS
  <2>2. p \in Removals \ {"remove"} /\ Moved(t) /\ th'[t].pc = "note" /\ th'[t].then = w
    BY <1>6, <2>1, RemovalMoves
  <2>3. w \in {"fetch", "old freed", "invalidated"}
    BY <2>1, <2>2 DEF AfterRemoval, Removals
  <2> QED BY <2>2, <2>3 DEF Onward, InCall, Place
<1> QED BY <1>1, <1>2, <1>3, <1>4, <1>5, <1>6 DEF Proceeds, Accounts, PrunerSteps

LEMMA CapCalls ==
  ASSUME CacheInv, CacheInv', CapInv, NEW t \in Threads, Call(t) \/ Proceeds(t), ~Accounts(t), ~PrunerSteps(t)
  PROVE  CapInv'
<1>1. Moved(t) /\ Onward(t)'
  BY CallGoesOn
<1>2. QuietInv(t)' /\ VictimInv(t)' /\ OwedInv'
  BY <1>1, OnwardOwes
<1>3. UNCHANGED <<acct, walk>> /\ \A k \in Keys : lock[k] # t => disk'[k] = disk[k]
  BY ChangesOwn, OthersFramed
<1> QED BY <1>1, <1>2, <1>3, CapStep

LEMMA CapSealFails ==
  ASSUME CacheInv, CacheInv', CapInv, NEW t \in Threads, GetSealFails(t)
  PROVE  CapInv'
<1>1. PICK s : s = th[t].slot
  OBVIOUS
<1>2. /\ th[t].pc = "seal" /\ acct' = [acct EXCEPT !.missed = @ \cup {s}] /\ walk' = walk
      /\ Ends(t, "err") /\ acct \in AcctType
  BY <1>1 DEF GetSealFails, At, Slot, CacheInv, CacheTypes
<1>3. Moved(t) /\ Onward(t)'
  BY <1>2, CallLeaves
<1>4. QuietInv(t)' /\ VictimInv(t)' /\ OwedInv'
  BY <1>3, OnwardOwes
<1>5. lock[s] = t
  <2>1. th[t].pc \notin Unlocked
    BY <1>2 DEF Unlocked
  <2> QED BY <1>1, <2>1 DEF CacheInv, ThreadInv, LockInv
<1>6. /\ acct'.rows = acct.rows /\ acct'.live = acct.live /\ acct'.touched = acct.touched
      /\ acct'.missed = acct.missed \cup {s}
  BY <1>2 DEF AcctType
<1>7. \A k \in Keys : lock[k] # t =>
        disk'[k] = disk[k] /\ acct'.rows[k] = acct.rows[k] /\ (k \in acct'.missed <=> k \in acct.missed)
  <2>1. Proceeds(t)
    BY DEF Proceeds
  <2> QED BY <1>5, <1>6, <2>1, ChangesOwn
<1> QED BY <1>2, <1>3, <1>4, <1>6, <1>7, CapStep

-----------------------------------------------------------------------------
(* The steps of a pruner *)

LEMMA PrunerOwes ==
  ASSUME CapInv, NEW t \in Threads, Moved(t), acct'.rows = acct.rows, acct'.missed = acct.missed,
         acct.live, th[t].pc # "idle",
         th[t].out \in {"err", "unpruned"} => th'[t].out \in {"err", "unpruned"},
         \/ Told({"plain", "held"}) \in WithinCap
         \/ \E u \in Threads : th[u].out \in {"err", "unpruned"}
         \/ \A k \in Told({"plain"}) : Owes(t, k) => \E u \in Threads : Owes(u, k)'
  PROVE  OwedInv'
<1>1. \A u \in Threads \ {t} : th'[u] = th[u]
  BY DEF Moved
<1>2. \A ks : Told(ks)' = Told(ks)
  BY DEF Told, Rows
<1>3. \A u \in Threads \ {t} : \A k \in Keys : Owes(u, k) => Owes(u, k)'
  BY <1>1 DEF Owes, InCall, Pruning, Place
<1>4. CASE \E u \in Threads : th[u].out \in {"err", "unpruned"}
  <2>1. PICK u \in Threads : th[u].out \in {"err", "unpruned"}
    BY <1>4
  <2>2. th'[u].out \in {"err", "unpruned"}
    BY <1>1, <2>1
  <2>3. Excused'
    BY <2>2 DEF Excused
  <2> QED BY <2>3 DEF OwedInv
<1>5. CASE Told({"plain", "held"}) \in WithinCap
  BY <1>2, <1>5 DEF OwedInv, Excused
<1>6. CASE /\ ~\E u \in Threads : th[u].out \in {"err", "unpruned"}
           /\ Told({"plain", "held"}) \notin WithinCap
  <2>1. ~Excused
    BY <1>6 DEF Excused
  <2>2. ASSUME NEW k \in Told({"plain"}) PROVE \E u \in Threads : Owes(u, k)'
    <3>1. PICK u \in Threads : Owes(u, k)
      BY <2>1, <2>2 DEF CapInv, OwedInv
    <3>2. k \in Keys
      BY DEF Told, Rows
    <3> HIDE DEF Owes
    <3>3. CASE u = t
      BY <1>6, <3>1, <3>3
    <3>4. CASE u # t
      BY <1>3, <3>1, <3>2, <3>4
    <3> QED BY <3>3, <3>4
  <2> HIDE DEF Owes
  <2> QED BY <1>2, <2>2 DEF OwedInv
<1> QED BY <1>4, <1>5, <1>6

(* At batch, evict, ... the account is seeded. *)
LEMMA PrunerKnows ==
  ASSUME CapInv, NEW t \in Threads,
         Place(t) \in {"evict", "check", "remove", "evicted", "due"}
  PROVE  acct.live
<1>1. ~InCall(t) /\ th[t].pc \notin {"batch", "idle"}
  BY DEF InCall, Place
<1> HIDE DEF Place, InCall
<1> QED BY <1>1 DEF CapInv, QuietInv

LEMMA CapLoops ==
  ASSUME CacheInv, CacheInv', CapInv, NEW t \in Threads, TakesBatch(t) \/ TakesVictim(t) \/ FreesVictim(t)
  PROVE  CapInv'
<1>1. UNCHANGED <<disk, acct, walk>>
  BY DEF TakesBatch, TakesVictim, FreesVictim
<1>2. /\ Moved(t)
      /\ \/ th[t].pc = "batch" /\ th'[t].pc = "due" /\ (Total <= Cap \/ Evictable(t) = {})
         \/ th[t].pc = "batch" /\ th'[t].pc = "evict" /\ th'[t].tried = th[t].tried \cup th'[t].todo
         \/ /\ th[t].pc = "evict" /\ th'[t].pc = "batch" /\ th[t].todo = {}
            /\ th'[t].todo = {} /\ th'[t].tried = th[t].tried
         \/ \E j \in th[t].todo :
              /\ th[t].pc = "evict" /\ th'[t].tried = th[t].tried /\ th'[t].todo = th[t].todo \ {j}
              /\ \/ th'[t].pc = "check" /\ th'[t].slot = j /\ lock[j] = Nobody
                 \/ th'[t].pc = "evict" /\ lock[j] # Nobody
         \/ /\ th[t].pc = "evicted" /\ th'[t].pc = "evict"
            /\ th'[t].todo = th[t].todo /\ th'[t].tried = th[t].tried
      /\ th'[t].out = th[t].out
  BY PruneMoves
<1>3. /\ th[t].pc \in {"batch", "evict", "evicted"} /\ th'[t].pc \in {"due", "evict", "batch", "check"}
      /\ th[t].todo \subseteq Keys /\ acct.live
  <2>1. th[t].pc \in {"batch", "evict", "evicted"} /\ th'[t].pc \in {"due", "evict", "batch", "check"}
    BY <1>2
  <2>2. th[t].todo \subseteq Keys
    BY DEF CacheInv, CacheTypes, PlaceType
  <2>3. CASE th[t].pc = "batch"
    BY <2>1, <2>2, <2>3 DEF TakesBatch, TakesVictim, FreesVictim, At
  <2>4. CASE th[t].pc # "batch"
    <3>1. Place(t) \in {"evict", "evicted"}
      BY <2>1, <2>4 DEF Place
    <3> HIDE DEF Place
    <3> QED BY <2>1, <2>2, <3>1, PrunerKnows
  <2> QED BY <2>3, <2>4
<1>4. QuietInv(t)'
  BY <1>1, <1>2, <1>3 DEF QuietInv
<1>5. VictimInv(t)'
  <2>1. CASE th'[t].pc # "check"
    BY <1>3, <2>1 DEF VictimInv, Place
  <2>2. CASE th'[t].pc = "check"
    <3>1. PICK j \in th[t].todo : th'[t].slot = j /\ lock[j] = Nobody
      BY <1>2, <2>2
    <3>2. j \in Keys /\ RowInv(j) /\ Still(j)
      BY <1>3, <3>1 DEF CacheInv, Still
    <3>3. /\ j \notin acct.missed => acct.rows[j] = DiskRow(j) /\ (Glanced(j) => walk.seen[j] = DiskRow(j))
          /\ j \in acct.missed => DiskRow(j) # "held"
      <4>1. Untold(j) => j \in acct.missed
        BY <3>1 DEF Untold
      <4> HIDE DEF DiskRow, Untold, Still
      <4> QED BY <1>3, <3>2, <4>1 DEF RowInv, Glanced, Counts
    <3>4. DiskRow(j)' = DiskRow(j) /\ (Glanced(j)' <=> Glanced(j)) /\ Place(t)' = "check"
      BY <1>1, <2>2 DEF DiskRow, Glanced, Place
    <3> HIDE DEF DiskRow, Glanced, Place
    <3> QED BY <1>1, <2>2, <3>1, <3>3, <3>4 DEF VictimInv
  <2> QED BY <2>1, <2>2
<1>6. OwedInv'
  <2>1. CASE th'[t].pc = "due" /\ Total <= Cap
    <3>1. Rows({"plain", "held"}) \in WithinCap
      BY <2>1 DEF WithinCap, Total, Rows
    <3>2. Told({"plain", "held"}) \in WithinCap
      <4>1. Told({"plain", "held"}) \subseteq Rows({"plain", "held"})
        BY DEF Told
      <4> QED BY <3>1, <4>1, FewerWithin
    <3> QED BY <1>1, <1>2, <1>3, <3>2, PrunerOwes
  <2>2. CASE \E u \in Threads : th[u].out \in {"err", "unpruned"}
    <3> HIDE DEF Owes
    <3> QED BY <1>1, <1>2, <1>3, <2>2, PrunerOwes
  <2>3. CASE /\ ~(th'[t].pc = "due" /\ Total <= Cap)
             /\ ~\E u \in Threads : th[u].out \in {"err", "unpruned"}
    <3>1. ASSUME NEW k \in Told({"plain"}), Owes(t, k)
          PROVE  \E u \in Threads : Owes(u, k)'
      <4>0. k \in Keys /\ acct.rows[k] = "plain"
        BY DEF Told, Rows
      <4>1. Place(t) = th[t].pc /\ Place(t)' = th'[t].pc /\ ~InCall(t)
        BY <1>3 DEF Place, InCall
      <4>2. k \notin th[t].tried \/ k \in th[t].todo
        <5>1. th[t].pc \notin {"check", "remove", "note"}
          BY <1>3
        <5> HIDE DEF Place, InCall
        <5> QED BY <3>1, <4>1, <5>1 DEF Owes
      <4>3. th'[t].pc \in {"evict", "batch", "check"}
              /\ (k \notin th'[t].tried \/ k \in th'[t].todo) => Owes(t, k)'
        BY <4>1 DEF Owes, Pruning
      <4>4. CASE th'[t].pc = "due"
        <5>1. th[t].pc = "batch" /\ Evictable(t) = {}
          BY <1>2, <2>3, <4>4
        <5>2. th[t].todo = {}
          BY <5>1 DEF CapInv, QuietInv
        <5> QED BY <4>0, <4>2, <5>1, <5>2 DEF Evictable, Rows
      <4>5. CASE th[t].pc = "batch" /\ th'[t].pc = "evict" /\ th'[t].tried = th[t].tried \cup th'[t].todo
        <5>1. th[t].todo = {}
          BY <4>5 DEF CapInv, QuietInv
        <5> HIDE DEF Owes
        <5> QED BY <4>2, <4>3, <4>5, <5>1
      <4>6. CASE /\ th[t].pc = "evict" /\ th'[t].pc = "batch" /\ th[t].todo = {}
                 /\ th'[t].todo = {} /\ th'[t].tried = th[t].tried
        <5> HIDE DEF Owes
        <5> QED BY <4>2, <4>3, <4>6
      <4>7. CASE /\ th[t].pc = "evicted" /\ th'[t].pc = "evict"
                 /\ th'[t].todo = th[t].todo /\ th'[t].tried = th[t].tried
        <5> HIDE DEF Owes
        <5> QED BY <4>2, <4>3, <4>7
      <4>8. CASE \E j \in th[t].todo :
                   /\ th[t].pc = "evict" /\ th'[t].tried = th[t].tried /\ th'[t].todo = th[t].todo \ {j}
                   /\ \/ th'[t].pc = "check" /\ th'[t].slot = j /\ lock[j] = Nobody
                      \/ th'[t].pc = "evict" /\ lock[j] # Nobody
        <5>1. PICK j \in th[t].todo :
                   /\ th[t].pc = "evict" /\ th'[t].tried = th[t].tried /\ th'[t].todo = th[t].todo \ {j}
                   /\ \/ th'[t].pc = "check" /\ th'[t].slot = j /\ lock[j] = Nobody
                      \/ th'[t].pc = "evict" /\ lock[j] # Nobody
          BY <4>8
        <5>2. CASE k # j
          <6> HIDE DEF Owes
          <6> QED BY <4>2, <4>3, <5>1, <5>2
        <5>3. CASE k = j /\ th'[t].pc = "check"
          BY <4>1, <5>1, <5>3 DEF Owes, Pruning
        <5>4. CASE k = j /\ lock[j] # Nobody
          <6>1. PICK u \in Threads : u = lock[j]
            BY <1>3, <5>4 DEF CacheInv, CacheTypes
          <6>2. LockInv(u) /\ LockInv(t)
            BY DEF CacheInv, ThreadInv
          <6>3. j \in Keys
            BY <1>3
          <6>4. th[u].slot = j /\ th[u].pc \notin Unlocked /\ u # t
            BY <1>3, <5>1, <6>1, <6>2, <6>3 DEF LockInv, Unlocked
          <6>5. th[u].pc # "evicted"
            <7>1. SUFFICES ASSUME th[u].pc = "evicted" PROVE FALSE
              OBVIOUS
            <7>2. Still(j)
              BY <6>1, <7>1 DEF Still, Steady, Noted
            <7>3. DiskRow(j) = "plain"
              <8>1. Counts(j, acct.rows[j]) /\ acct.rows[j] = "plain"
                BY <1>3, <4>0, <5>4, <6>3, <7>2 DEF CacheInv, RowInv
              <8> HIDE DEF DiskRow
              <8> QED BY <8>1 DEF Counts
            <7>4. Place(u) = "evicted"
              BY <7>1 DEF Place
            <7>5. DiskRow(j) # "plain" \/ th[u].out = "unpruned"
              <8> HIDE DEF Place, DiskRow
              <8> QED BY <6>4, <7>4 DEF CapInv, VictimInv
            <7> HIDE DEF DiskRow
            <7> QED BY <2>3, <7>3, <7>5
          <6>6. Owes(u, k)
            <7>1. th[u].pc \notin {"idle", "batch", "evict", "due"}
              BY <6>4 DEF Unlocked
            <7>2. CASE th[u].pc = "note"
              <8>1. th[u].then \notin {"idle", "batch", "evict", "check", "remove", "due"}
                BY <6>2, <7>2 DEF LockInv, Noted
              <8> QED BY <5>4, <6>4, <7>2, <8>1 DEF Owes, InCall, Pruning, Place
            <7>3. CASE th[u].pc # "note"
              BY <5>4, <6>4, <6>5, <7>1, <7>3 DEF Owes, InCall, Pruning, Place
            <7> QED BY <7>2, <7>3
          <6>7. Owes(u, k)'
            <7>1. th'[u] = th[u]
              BY <1>2, <6>4 DEF Moved
            <7> QED BY <6>6, <7>1 DEF Owes, InCall, Pruning, Place
          <6> QED BY <6>7
        <5> QED BY <5>1, <5>2, <5>3, <5>4
      <4> QED BY <1>2, <4>4, <4>5, <4>6, <4>7, <4>8
    <3> HIDE DEF Owes
    <3> QED BY <1>1, <1>2, <1>3, <3>1, PrunerOwes
  <2> QED BY <2>1, <2>2, <2>3
<1> QED BY <1>1, <1>2, <1>4, <1>5, <1>6, CapStep

LEMMA CapVictims ==
  ASSUME CacheInv, CacheInv', CapInv, NEW t \in Threads, ChecksVictim(t) \/ RemovesVictim(t)
  PROVE  CapInv'
<1>1. PICK s : s = th[t].slot
  OBVIOUS
<1>2. /\ UNCHANGED <<acct, walk>> /\ th[t].pc \in {"check", "remove"} /\ CacheTypes /\ VictimInv(t)
      /\ \A k \in Keys : lock[k] # t => disk'[k] = disk[k]
  <2>1. Proceeds(t)
    BY DEF Proceeds
  <2> QED BY <2>1, ChangesOwn DEF ChecksVictim, RemovesVictim, At, CacheInv, CapInv
<1>3. s \in Keys /\ disk \in [Keys -> SlotType]
  <2>1. th[t].pc \notin Unlocked
    BY <1>2 DEF Unlocked
  <2> QED BY <1>1, <1>2, <2>1 DEF CacheInv, ThreadInv, LockInv, CacheTypes
<1>4. /\ Moved(t) /\ th'[t].slot = s /\ th'[t].todo = th[t].todo /\ th'[t].tried = th[t].tried
      /\ th'[t].out = th[t].out
      /\ \/ /\ th'[t].pc = "remove" /\ disk' = disk
         \/ /\ th'[t].pc = "note" /\ th'[t].then = "evicted"
            /\ \/ disk' = disk /\ Spared(s)
               \/ disk' = [disk EXCEPT ![s] = Empty]
  <2>1. th \in [Threads -> PlaceType] /\ th[t] \in PlaceType
    BY <1>2 DEF CacheTypes
  <2>2. CASE Goes(t, "remove") /\ disk' = disk
    <3> DEFINE r == [th[t] EXCEPT !.pc = "remove"]
    <3>1. th' = [th EXCEPT ![t] = r] /\ r.pc = "remove" /\ r.slot = s /\ r.todo = th[t].todo
            /\ r.tried = th[t].tried /\ r.out = th[t].out
      BY <1>1, <2>1, <2>2 DEF Goes, PlaceType
    <3> HIDE DEF r
    <3>2. Moved(t) /\ th'[t] = r
      BY <3>1, OthersStay
    <3> QED BY <2>2, <3>1, <3>2
  <2>3. CASE Notes(t, "evicted")
    <3> DEFINE r == [th[t] EXCEPT !.pc = "note", !.then = "evicted"]
    <3>1. /\ th' = [th EXCEPT ![t] = r] /\ r.pc = "note" /\ r.then = "evicted" /\ r.slot = s
          /\ r.todo = th[t].todo /\ r.tried = th[t].tried /\ r.out = th[t].out
      BY <1>1, <2>1, <2>3 DEF Notes, PlaceType
    <3> HIDE DEF r
    <3>2. Moved(t) /\ th'[t] = r
      BY <3>1, OthersStay
    <3>3. (disk' = disk /\ Spared(s)) \/ disk' = [disk EXCEPT ![s] = Empty]
      <4>1. th'[t].pc = "note"
        BY <3>1, <3>2
      <4>2. ~Goes(t, "remove")
        BY <2>1, <4>1 DEF Goes, PlaceType
      <4> QED BY <1>1, <4>2 DEF ChecksVictim, RemovesVictim, Slot
    <3> QED BY <3>1, <3>2, <3>3
  <2> QED BY <2>2, <2>3 DEF ChecksVictim, RemovesVictim
<1>5. acct.live
  <2>1. Place(t) \in {"check", "remove"}
    BY <1>2 DEF Place
  <2> HIDE DEF Place
  <2> QED BY <2>1, PrunerKnows
<1>6. QuietInv(t)'
  BY <1>2, <1>4, <1>5 DEF QuietInv
<1>7. VictimInv(t)'
  <2>1. Place(t) \in {"check", "remove"}
    BY <1>2 DEF Place
  <2>2. /\ s \notin acct.missed =>
             /\ DiskRow(s) # "none" => acct.rows[s] # "none" /\ (Glanced(s) => walk.seen[s] # "none")
             /\ acct.rows[s] = "none" /\ Glanced(s) => walk.seen[s] = "none"
        /\ s \in acct.missed => DiskRow(s) # "held"
    <3> HIDE DEF Place, DiskRow, Glanced
    <3> QED BY <1>1, <1>2, <2>1 DEF VictimInv
  <2>3. Glanced(s)' <=> Glanced(s)
    BY <1>2 DEF Glanced
  <2>4. /\ DiskRow(s)' # "none" => DiskRow(s) # "none"
        /\ DiskRow(s)' = "held" => DiskRow(s) = "held"
        /\ th'[t].pc = "note" => DiskRow(s)' # "plain"
    BY <1>3, <1>4 DEF DiskRow, Spared, Empty, SlotType
  <2>5. Place(t)' = "evicted" => th'[t].pc = "note"
    BY <1>4 DEF Place
  <2> HIDE DEF Place, DiskRow, Glanced
  <2> QED BY <1>2, <1>4, <2>2, <2>3, <2>4, <2>5 DEF VictimInv
<1>8. OwedInv'
  <2>1. ASSUME NEW k \in Told({"plain"}), Owes(t, k)
        PROVE  \E u \in Threads : Owes(u, k)'
    <3>1. k \notin th[t].tried \/ k \in th[t].todo \/ k = s
      BY <1>1, <1>2, <2>1 DEF Owes, InCall, Place
    <3>2. Place(t)' \in {"remove", "evicted"} /\ th'[t].pc \in {"remove", "note"}
      BY <1>4 DEF Place
    <3>3. Owes(t, k)'
      <4> HIDE DEF Place
      <4> QED BY <1>4, <3>1, <3>2 DEF Owes, Pruning
    <3> QED BY <3>3
  <2>2. th[t].pc # "idle" /\ acct' = acct
    BY <1>2
  <2> HIDE DEF Owes
  <2> QED BY <1>4, <1>5, <2>1, <2>2, PrunerOwes
<1> QED BY <1>2, <1>4, <1>6, <1>7, <1>8, CapStep

(* A victim that cannot be removed: the prune is as good as none. *)
LEMMA CapUnpruned ==
  ASSUME CacheInv, CacheInv', CapInv, NEW t \in Threads, RemovalFails(t), th[t].pc = "remove"
  PROVE  CapInv'
<1>1. PICK s : s = th[t].slot
  OBVIOUS
<1>2. /\ CutShort(t) /\ acct' = acct /\ walk' = walk /\ CacheTypes /\ VictimInv(t)
      /\ \A k \in Keys : lock[k] # t => disk'[k] = disk[k]
  <2>1. Proceeds(t)
    BY DEF Proceeds
  <2> QED BY <2>1, ChangesOwn DEF RemovalFails, CacheInv, CapInv
<1>3. s \in Keys /\ disk \in [Keys -> SlotType] /\ Place(t) = "remove"
  <2>1. th[t].pc \notin Unlocked
    BY DEF Unlocked
  <2> QED BY <1>1, <1>2, <2>1 DEF CacheInv, ThreadInv, LockInv, CacheTypes, Place
<1>4. /\ Moved(t) /\ th'[t].pc = "note" /\ th'[t].then = "evicted" /\ th'[t].slot = s
      /\ th'[t].out = "unpruned" /\ Place(t)' = "evicted"
  <2>1. PICK p : p = th[t].pc
    OBVIOUS
  <2>2. /\ Moved(t) /\ th'[t].pc = "note" /\ th'[t].then = AfterRemoval(p) /\ th'[t].slot = s
        /\ th'[t].out = IF p = "remove" THEN "unpruned" ELSE th[t].out
    BY <1>1, <2>1, RemovalMoves
  <2>3. AfterRemoval(p) = "evicted"
    BY <2>1 DEF AfterRemoval
  <2> QED BY <2>1, <2>2, <2>3 DEF Place
<1>5. DiskRow(s)' \in {DiskRow(s), "none"}
  <2>1. PICK e : e = disk[s]
    OBVIOUS
  <2>2. PICK d \in Cut(e, "remove") : disk' = [disk EXCEPT ![s] = d]
    BY <1>1, <1>2, <2>1 DEF CutShort, Slot
  <2>3. d \in {e, [e EXCEPT !.payload = 0], [e EXCEPT !.done = "no"]}
    BY <2>2 DEF Cut
  <2>4. e \in SlotType /\ disk'[s] = d
    BY <1>3, <2>1, <2>2
  <2>5. d = e \/ d.payload = 0 \/ d.done = "no"
    BY <2>3, <2>4 DEF SlotType
  <2> QED BY <2>1, <2>4, <2>5 DEF DiskRow
<1>6. acct.live
  <2> HIDE DEF Place
  <2> QED BY <1>3, PrunerKnows
<1>7. QuietInv(t)'
  BY <1>2, <1>4, <1>6 DEF QuietInv
<1>8. VictimInv(t)'
  <2>1. Glanced(s)' <=> Glanced(s)
    BY <1>2 DEF Glanced
  <2> HIDE DEF Place, DiskRow, Glanced
  <2> QED BY <1>1, <1>2, <1>3, <1>4, <1>5, <2>1 DEF VictimInv
<1>9. OwedInv'
  <2>1. Excused'
    BY <1>4 DEF Excused
  <2> QED BY <2>1 DEF OwedInv
<1> QED BY <1>2, <1>4, <1>7, <1>8, <1>9, CapStep

(* The last of a prune, and a reconcile that falls due with it. *)
LEMMA CapEnds ==
  ASSUME CacheInv, CacheInv', CapInv, NEW t \in Threads, PruneEnds(t) \/ ReconcileFallsDue(t)
  PROVE  CapInv'
<1>0. PICK o : o = IF th[t].out = "none" THEN "ok" ELSE th[t].out
  OBVIOUS
<1>1. /\ th[t].pc = "due" /\ Ends(t, o) /\ disk' = disk
      /\ \/ acct' = acct /\ walk' = walk
         \/ /\ acct' = [acct EXCEPT !.reconciling = TRUE, !.touched = {}]
            /\ walk' = [on |-> TRUE, seen |-> [k \in {} |-> "none"]]
  BY <1>0 DEF PruneEnds, ReconcileFallsDue, Pruned, At
<1>2. /\ acct'.rows = acct.rows /\ acct'.live = acct.live /\ acct'.missed = acct.missed
      /\ \/ walk' = walk /\ acct.touched \subseteq acct'.touched
         \/ DOMAIN walk'.seen = {}
  <2>1. acct \in AcctType
    BY DEF CacheInv, CacheTypes
  <2>2. CASE acct' = acct /\ walk' = walk
    BY <2>2
  <2>3. CASE /\ acct' = [acct EXCEPT !.reconciling = TRUE, !.touched = {}]
             /\ walk' = [on |-> TRUE, seen |-> [k \in {} |-> "none"]]
    BY <2>1, <2>3 DEF AcctType
  <2> QED BY <1>1, <2>2, <2>3
<1>3. Moved(t) /\ th'[t].pc = "idle" /\ th'[t].out = o
  <2> DEFINE r == [Nowhere EXCEPT !.out = o]
  <2>1. r.pc = "idle" /\ r.out = o
    BY DEF Nowhere
  <2>2. th' = [th EXCEPT ![t] = r]
    BY <1>1 DEF Ends
  <2> HIDE DEF r
  <2> QED BY <2>1, <2>2, OthersStay
<1>4. acct.live
  <2>1. Place(t) = "due"
    BY <1>1 DEF Place
  <2> HIDE DEF Place
  <2> QED BY <2>1, PrunerKnows
<1>5. QuietInv(t)' /\ VictimInv(t)'
  BY <1>2, <1>3, <1>4 DEF QuietInv, VictimInv, Place
<1>6. OwedInv'
  <2>1. \A k : ~Owes(t, k)
    BY <1>1 DEF Owes, InCall, Pruning, Place
  <2>2. th[t].pc # "idle"
    BY <1>1
  <2> HIDE DEF Owes
  <2> QED BY <1>0, <1>2, <1>3, <1>4, <2>1, <2>2, PrunerOwes
<1> QED BY <1>1, <1>2, <1>3, <1>5, <1>6, CapStep

(* A pruner's _note adds nothing to the total, and leaves its victim in no *)
(* row that could be evicted.                                              *)
LEMMA CapNotes ==
  ASSUME CacheInv, CacheInv', CapInv, NEW t \in Threads, Note(t)
  PROVE  CapInv'
<1>1. PICK s : s = th[t].slot
  OBVIOUS
<1>2. /\ CacheTypes /\ ThreadInv(t) /\ VictimInv(t) /\ acct \in AcctType /\ th \in [Threads -> PlaceType]
      /\ th[t].pc = "note" /\ acct.live /\ Goes(t, th[t].then) /\ UNCHANGED <<disk, walk>>
  BY DEF Note, At, CacheInv, CacheTypes, CapInv
<1>3. PICK w : w = th[t].then /\ w \in Noted
  BY <1>2 DEF ThreadInv, LockInv
<1>4. s \in Keys /\ \A k \in Keys : lock[k] = t => k = s
  <2>1. "note" \notin Unlocked
    BY DEF Unlocked
  <2> QED BY <1>1, <1>2, <2>1 DEF ThreadInv, LockInv
<1>5. PICK row : row = DiskRow(s) /\ row \in RowType
  BY DEF DiskRow, RowType
<1>6. /\ acct'.live = acct.live /\ acct'.rows[s] = row
      /\ \A k \in Keys \ {s} : acct'.rows[k] = acct.rows[k]
      /\ acct.touched \subseteq acct'.touched /\ acct'.missed = acct.missed \ {s}
  <2>1. acct' = [acct EXCEPT !.rows[s] = row,
                             !.touched = IF acct.reconciling THEN @ \cup {s} ELSE @,
                             !.missed = @ \ {s}]
    BY <1>1, <1>5 DEF Note, PutRow, Slot
  <2> QED BY <1>2, <1>4, <1>5, <2>1 DEF AcctType
<1>7. /\ Moved(t) /\ th'[t].pc = w /\ th'[t].slot = s /\ th'[t].todo = th[t].todo
      /\ th'[t].tried = th[t].tried /\ th'[t].out = th[t].out
  <2> DEFINE r == [th[t] EXCEPT !.pc = w]
  <2>1. th' = [th EXCEPT ![t] = r] /\ r.pc = w /\ r.slot = s /\ r.todo = th[t].todo /\ r.tried = th[t].tried
        /\ r.out = th[t].out
    BY <1>1, <1>2, <1>3 DEF Goes, PlaceType
  <2> HIDE DEF r
  <2> QED BY <2>1, OthersStay
<1>8. Place(t) = w /\ Place(t)' = w
  BY <1>2, <1>3, <1>7 DEF Place, Noted
<1>9. CASE w # "evicted"
  <2>1. InCall(t)'
    <3> HIDE DEF Place
    <3> QED BY <1>3, <1>8, <1>9 DEF InCall, Noted
  <2>2. QuietInv(t)' /\ VictimInv(t)' /\ OwedInv'
    BY <2>1, OnwardOwes DEF Onward
  <2>3. \A k \in Keys : lock[k] # t =>
          acct'.rows[k] = acct.rows[k] /\ (k \in acct'.missed <=> k \in acct.missed)
    <3>1. lock[s] = t
      <4>1. "note" \notin Unlocked
        BY DEF Unlocked
      <4> QED BY <1>1, <1>2, <4>1 DEF ThreadInv, LockInv
    <3> QED BY <1>6, <3>1
  <2> QED BY <1>2, <1>6, <1>7, <2>2, <2>3, CapStep
<1>10. CASE w = "evicted"
  <2>1. /\ s \notin acct.missed /\ row # "none" => acct.rows[s] # "none"
        /\ s \in acct.missed => row # "held"
        /\ row # "plain" \/ th[t].out = "unpruned"
    <3> HIDE DEF Place, DiskRow
    <3> QED BY <1>1, <1>2, <1>5, <1>8, <1>10 DEF VictimInv
  <2>2. QuietInv(t)'
    BY <1>2, <1>6, <1>7, <1>10 DEF QuietInv
  <2>3. VictimInv(t)'
    <3>1. DiskRow(s)' = row
      BY <1>2, <1>5 DEF DiskRow
    <3> HIDE DEF Place, DiskRow
    <3> QED BY <1>7, <1>8, <1>10, <2>1, <3>1 DEF VictimInv
  <2>4. row # "plain" =>
          /\ Told({"plain"})' \subseteq Told({"plain"}) \ {s}
          /\ Told({"plain", "held"})' \subseteq Told({"plain", "held"})
    BY <1>2, <1>4, <1>5, <1>6, <2>1 DEF Told, Rows, AcctType, RowType
  <2>5. OwedInv'
    <3>1. ASSUME NEW u \in Threads, NEW k \in Keys \ {s}, Owes(u, k)
          PROVE  Owes(u, k)'
      <4>1. CASE u = t
        <5>1. ~InCall(t)
          BY <1>8, <1>10 DEF InCall
        <5>2. k \notin th[t].tried \/ k \in th[t].todo
          BY <1>1, <3>1, <4>1, <5>1 DEF Owes
        <5> HIDE DEF Place
        <5> QED BY <1>7, <1>8, <1>10, <4>1, <5>2 DEF Owes, Pruning
      <4>2. CASE u # t
        <5>1. th'[u] = th[u]
          BY <1>7, <4>2 DEF Moved
        <5> QED BY <3>1, <5>1 DEF Owes, InCall, Pruning, Place
      <4> QED BY <4>1, <4>2
    <3>2. CASE row # "plain" /\ Told({"plain", "held"}) \in WithinCap
      <4>1. Told({"plain", "held"})' \in WithinCap
        BY <2>4, <3>2, FewerWithin
      <4> QED BY <4>1 DEF OwedInv, Excused
    <3>3. CASE \E u \in Threads : th[u].out \in {"err", "unpruned"}
      <4>1. PICK u \in Threads : th[u].out \in {"err", "unpruned"}
        BY <3>3
      <4>2. th'[u].out = th[u].out
        BY <1>7, <4>1 DEF Moved
      <4>3. Excused'
        BY <4>1, <4>2 DEF Excused
      <4> QED BY <4>3 DEF OwedInv
    <3>4. CASE row # "plain" /\ \A k \in Told({"plain"}) : \E u \in Threads : Owes(u, k)
      <4>1. \A k \in Told({"plain"})' : k \in Told({"plain"}) /\ k \in Keys \ {s}
        BY <2>4, <3>4 DEF Told, Rows
      <4>2. ASSUME NEW k \in Told({"plain"})' PROVE \E u \in Threads : Owes(u, k)'
        <5>1. PICK u \in Threads : Owes(u, k)
          BY <3>4, <4>1
        <5> HIDE DEF Owes
        <5> QED BY <3>1, <4>1, <5>1
      <4> HIDE DEF Owes
      <4> QED BY <4>2 DEF OwedInv
    <3>5. ~(\A u \in Threads : th[u].pc = "idle" /\ th[u].out = "none")
      BY <1>2
    <3>6. CASE row = "plain"
      <4>1. \E u \in Threads : th[u].out \in {"err", "unpruned"}
        BY <2>1, <3>6
      <4> QED BY <3>3, <4>1
    <3> HIDE DEF Owes
    <3> QED BY <1>2, <3>2, <3>3, <3>4, <3>5, <3>6 DEF CapInv, OwedInv, Excused
  <2>6. \A k \in Keys : lock[k] # t =>
          acct'.rows[k] = acct.rows[k] /\ (k \in acct'.missed <=> k \in acct.missed)
    <3>1. lock[s] = t
      <4>1. "note" \notin Unlocked
        BY DEF Unlocked
      <4> QED BY <1>1, <1>2, <4>1 DEF ThreadInv, LockInv
    <3> QED BY <1>6, <3>1
  <2> QED BY <1>2, <1>6, <1>7, <2>2, <2>3, <2>5, <2>6, CapStep
<1> QED BY <1>9, <1>10

-----------------------------------------------------------------------------
(* The walk *)

(* It changes no thread. *)
LEMMA WalkKeeps ==
  ASSUME UNCHANGED th
  PROVE  /\ \A t \in Threads : Place(t)' = Place(t) /\ (InCall(t)' <=> InCall(t))
         /\ \A t \in Threads : \A k : Owes(t, k)' <=> Owes(t, k)
BY DEF Owes, InCall, Pruning, Place

LEMMA CapWalkRests ==
  ASSUME CacheInv, CacheInv', CapInv, WalkReads \/ WalkFails \/ \E t \in Threads : SeedStarts(t)
  PROVE  CapInv'
<1>1. UNCHANGED <<disk, th, lock>> /\ acct'.rows = acct.rows /\ acct'.live = acct.live
        /\ acct'.touched = acct.touched /\ acct'.missed = acct.missed
      /\ CacheTypes
  <2>1. CacheTypes /\ acct \in AcctType
    BY DEF CacheInv, CacheTypes
  <2>2. acct' = acct \/ acct' = [acct EXCEPT !.reconciling = FALSE]
    BY DEF WalkReads, WalkFails, SeedStarts
  <2>3. acct'.rows = acct.rows /\ acct'.live = acct.live /\ acct'.touched = acct.touched
          /\ acct'.missed = acct.missed
    BY <2>1, <2>2 DEF AcctType
  <2> QED BY <2>1, <2>3 DEF WalkReads, WalkFails, SeedStarts, locks
<1>2. \A k \in Keys : DiskRow(k)' = DiskRow(k)
  BY <1>1 DEF DiskRow
<1>3. \A k \in Keys : Glanced(k)' => walk'.seen[k] = DiskRow(k)
        \/ (Glanced(k) /\ walk'.seen[k] = walk.seen[k])
  <2>1. CASE walk' = NoWalk \/ walk' = [NoWalk EXCEPT !.on = TRUE]
    BY <2>1 DEF NoWalk, Glanced
  <2>2. CASE WalkReads
    <3>1. PICK k : k = CHOOSE j \in Keys : j \notin DOMAIN walk.seen
      OBVIOUS
    <3>2. PICK row : row = DiskRow(k)
      OBVIOUS
    <3>3. walk' = [walk EXCEPT !.seen = [j \in DOMAIN @ \cup {k} |-> IF j = k THEN row ELSE @[j]]]
      BY <2>2, <3>1, <3>2 DEF WalkReads
    <3>4. walk = [on |-> walk.on, seen |-> walk.seen]
      BY <1>1 DEF CacheTypes
    <3>5. /\ walk'.on = walk.on /\ DOMAIN walk'.seen = DOMAIN walk.seen \cup {k}
          /\ walk'.seen[k] = row /\ \A j \in DOMAIN walk.seen \ {k} : walk'.seen[j] = walk.seen[j]
      BY <3>3, <3>4
    <3> HIDE DEF DiskRow
    <3> QED BY <1>1, <3>2, <3>5 DEF Glanced
  <2> QED BY <2>1, <2>2 DEF WalkFails, SeedStarts
<1>4. ASSUME NEW t \in Threads PROVE QuietInv(t)' /\ VictimInv(t)'
  <2>1. Place(t)' = Place(t) /\ (InCall(t)' <=> InCall(t)) /\ QuietInv(t) /\ VictimInv(t)
    BY <1>1, WalkKeeps DEF CapInv
  <2>2. QuietInv(t)'
    <3> HIDE DEF InCall
    <3> QED BY <1>1, <2>1 DEF QuietInv
  <2>3. VictimInv(t)'
    <3>1. PICK s : s = th[t].slot
      OBVIOUS
    <3>2. Place(t) \in {"check", "remove", "evicted"} => s \in Keys
      <4>1. Place(t) \in {"check", "remove", "evicted"} => th[t].pc \notin Unlocked
        BY DEF Place, Unlocked
      <4> HIDE DEF Place
      <4> QED BY <3>1, <4>1 DEF CacheInv, ThreadInv, LockInv
    <3> HIDE DEF Place, DiskRow, Glanced
    <3> QED BY <1>1, <1>2, <1>3, <2>1, <3>1, <3>2 DEF VictimInv
  <2> QED BY <2>2, <2>3
<1>5. OwedInv'
  <2>1. \A ks : Told(ks)' = Told(ks)
    BY <1>1 DEF Told, Rows
  <2>2. \A t \in Threads : \A k : Owes(t, k)' <=> Owes(t, k)
    BY <1>1, WalkKeeps
  <2> HIDE DEF Owes
  <2> QED BY <1>1, <2>1, <2>2 DEF CapInv, OwedInv, Excused
<1> QED BY <1>4, <1>5 DEF CapInv

(* A load changes only rows of slots somebody is at work on: a call, which  *)
(* has a prune before it, or a pruner, whose victim the total gains nothing *)
(* by. The seed finds nobody pruning yet.                                   *)
LEMMA CapLoads ==
  ASSUME CacheInv, CacheInv', CapInv, WalkLoads
  PROVE  CapInv'
<1>1. /\ UNCHANGED <<disk, th, lock>> /\ CacheTypes /\ WalkInv
      /\ walk.on /\ DOMAIN walk.seen = Keys
      /\ walk'.on = FALSE /\ acct'.live = TRUE /\ acct'.missed = acct.missed
      /\ \A k \in Keys : acct'.rows[k] = IF k \in acct.touched THEN acct.rows[k] ELSE walk.seen[k]
  BY DEF WalkLoads, NoWalk, CacheInv, locks
<1>2. /\ \A t \in Threads : Place(t)' = Place(t) /\ (InCall(t)' <=> InCall(t))
      /\ \A t \in Threads : \A k : Owes(t, k)' <=> Owes(t, k)
  BY <1>1, WalkKeeps
<1>3. ASSUME NEW t \in Threads PROVE QuietInv(t)' /\ VictimInv(t)'
  <2>1. QuietInv(t)'
    BY <1>1 DEF QuietInv, CapInv
  <2>2. VictimInv(t)'
    <3>1. PICK s : s = th[t].slot
      OBVIOUS
    <3>2. Place(t) \in {"check", "remove", "evicted"} => s \in Keys
      <4>1. Place(t) \in {"check", "remove", "evicted"} => th[t].pc \notin Unlocked
        BY DEF Place, Unlocked
      <4> HIDE DEF Place
      <4> QED BY <3>1, <4>1 DEF CacheInv, ThreadInv, LockInv
    <3>3. s \in Keys => DiskRow(s)' = DiskRow(s)
      BY <1>1 DEF DiskRow
    <3>4. ~Glanced(s)' /\ (s \in Keys /\ s \notin acct.touched => Glanced(s))
      BY <1>1 DEF Glanced
    <3>5. VictimInv(t)
      BY DEF CapInv
    <3> HIDE DEF Place, DiskRow, Glanced
    <3> QED BY <1>1, <1>2, <3>1, <3>2, <3>3, <3>4, <3>5 DEF VictimInv
  <2> QED BY <2>1, <2>2
<1>4. OwedInv'
  <2>1. CASE \E t \in Threads : InCall(t)
    <3>1. PICK t \in Threads : InCall(t)
      BY <2>1
    <3>2. \A k : Owes(t, k)'
      BY <1>2, <3>1 DEF Owes
    <3> HIDE DEF Owes
    <3> QED BY <3>2 DEF OwedInv
  <2>2. CASE ~acct.live /\ \A t \in Threads : ~InCall(t)
    <3>1. \A t \in Threads : \/ th[t].pc = "batch" /\ th[t].tried = {}
                             \/ th[t].pc = "idle" /\ th[t].out # "ok"
      BY <2>2 DEF CapInv, QuietInv
    <3>2. CASE \E t \in Threads : th[t].pc = "batch" /\ th[t].tried = {}
      <4>1. PICK t \in Threads : th[t].pc = "batch" /\ th[t].tried = {}
        BY <3>2
      <4>2. \A k : Owes(t, k)
        BY <4>1 DEF Owes, Pruning, Place
      <4>3. \A k : Owes(t, k)'
        BY <1>2, <4>2
      <4> HIDE DEF Owes
      <4> QED BY <4>3 DEF OwedInv
    <3>3. CASE \A t \in Threads : th[t].pc = "idle" /\ th[t].out # "ok"
      <4>1. th' = th
        BY <1>1
      <4>2. \A t \in Threads : th[t].out \in {"none", "err", "unpruned"}
        BY <1>1, <3>3 DEF CacheTypes, PlaceType
      <4>3. Excused'
        BY <3>3, <4>1, <4>2 DEF Excused
      <4> QED BY <4>3 DEF OwedInv
    <3> QED BY <3>1, <3>2, <3>3
  <2>3. CASE acct.live /\ \A t \in Threads : ~InCall(t)
    <3>1. ASSUME NEW k \in Keys, ~Still(k)
          PROVE  \E u \in Threads : /\ th[u].slot = k /\ Place(u) \in {"check", "remove", "evicted"}
                                    /\ th[u].pc # "evicted" /\ Owes(u, k)
      <4>1. PICK u \in Threads : u = lock[k]
        BY <1>1, <3>1 DEF Still, CacheTypes
      <4>2. LockInv(u) /\ ~InCall(u) /\ th[u].pc \notin Steady
        BY <2>3, <3>1, <4>1 DEF CacheInv, ThreadInv, Still
      <4>3. th[u].pc \notin Unlocked /\ th[u].slot = k
        BY <4>1, <4>2 DEF LockInv
      <4>4. Place(u) \in {"check", "remove", "evicted"} /\ th[u].pc # "evicted"
        <5>1. CASE th[u].pc = "note"
          <6>1. Place(u) = th[u].then /\ th[u].then \in Noted
            BY <4>2, <5>1 DEF Place, LockInv
          <6> HIDE DEF Place
          <6> QED BY <4>2, <5>1, <6>1 DEF InCall, Noted
        <5>2. CASE th[u].pc # "note"
          <6>1. Place(u) = th[u].pc
            BY <5>2 DEF Place
          <6>2. th[u].pc # "evicted"
            BY <4>2 DEF Steady, Noted
          <6> HIDE DEF Place
          <6> QED BY <4>2, <4>3, <6>1, <6>2 DEF InCall, Unlocked
        <5> QED BY <5>1, <5>2
      <4>5. th[u].pc \in {"check", "remove", "note"}
        BY <4>4 DEF Place
      <4>6. Owes(u, k)
        <5> HIDE DEF Place
        <5> QED BY <4>3, <4>4, <4>5 DEF Owes, Pruning
      <4> QED BY <4>3, <4>4, <4>6
    <3>2. ASSUME NEW k \in Keys, Still(k), k \notin acct.missed PROVE acct'.rows[k] = acct.rows[k]
      <4>1. RowInv(k)
        BY DEF CacheInv
      <4>2. ~Untold(k)
        <5>1. SUFFICES ASSUME lock[k] # Nobody, th[lock[k]].pc = "seal" PROVE FALSE
          BY <3>2 DEF Untold
        <5>2. lock[k] \in Threads
          BY <1>1, <5>1 DEF CacheTypes
        <5>3. InCall(lock[k])
          BY <5>1 DEF InCall, Place
        <5> QED BY <2>3, <5>2, <5>3
      <4> HIDE DEF DiskRow, Still, Untold
      <4> QED BY <1>1, <2>3, <3>2, <4>1, <4>2 DEF RowInv, Counts
    <3>3. Told({"plain", "held"})' \subseteq Told({"plain", "held"})
      <4>1. SUFFICES ASSUME NEW k \in Keys, acct'.rows[k] # "none", k \notin acct.missed
                     PROVE  acct.rows[k] # "none"
        <5>1. acct \in AcctType /\ acct' \in AcctType
          BY DEF CacheInv, CacheTypes
        <5> QED BY <1>1, <5>1 DEF Told, Rows, AcctType, RowType
      <4>2. CASE Still(k)
        BY <3>2, <4>1, <4>2
      <4>3. CASE ~Still(k)
        <5>1. PICK u \in Threads : /\ th[u].slot = k /\ Place(u) \in {"check", "remove", "evicted"}
                                   /\ th[u].pc # "evicted"
          BY <3>1, <4>3
        <5>2. VictimInv(u)
          BY DEF CapInv
        <5>3. k \notin acct.touched => Glanced(k)
          BY <1>1 DEF Glanced
        <5>4. acct.rows[k] = "none" /\ Glanced(k) => walk.seen[k] = "none"
          <6> HIDE DEF Place, Glanced, DiskRow
          <6> QED BY <4>1, <5>1, <5>2 DEF VictimInv
        <5> HIDE DEF Glanced
        <5> QED BY <1>1, <4>1, <5>3, <5>4
      <4> QED BY <4>2, <4>3
    <3>4. CASE Told({"plain", "held"}) \in WithinCap
      <4>1. Told({"plain", "held"})' \in WithinCap
        BY <3>3, <3>4, FewerWithin
      <4> QED BY <4>1 DEF OwedInv, Excused
    <3>5. CASE \/ \A t \in Threads : th[t].pc = "idle" /\ th[t].out = "none"
               \/ \E t \in Threads : th[t].out \in {"err", "unpruned"}
      <4>1. th' = th
        BY <1>1
      <4>2. Excused'
        BY <3>5, <4>1 DEF Excused
      <4> QED BY <4>2 DEF OwedInv
    <3>6. CASE \A k \in Told({"plain"}) : \E t \in Threads : Owes(t, k)
      <4>1. ASSUME NEW k \in Told({"plain"})' PROVE \E u \in Threads : Owes(u, k)'
        <5>1. k \in Keys /\ acct'.rows[k] = "plain" /\ k \notin acct.missed
          BY <1>1 DEF Told, Rows
        <5>2. CASE Still(k)
          <6>1. k \in Told({"plain"})
            BY <3>2, <5>1, <5>2 DEF Told, Rows
          <6> HIDE DEF Owes
          <6> QED BY <1>2, <3>6, <6>1
        <5>3. CASE ~Still(k)
          <6> HIDE DEF Owes, Still
          <6> QED BY <1>2, <3>1, <5>1, <5>3
        <5> QED BY <5>2, <5>3
      <4> HIDE DEF Owes
      <4> QED BY <4>1 DEF OwedInv
    <3> QED BY <2>3, <3>4, <3>5, <3>6 DEF CapInv, OwedInv, Excused
  <2> QED BY <2>1, <2>2, <2>3
<1> QED BY <1>3, <1>4 DEF CapInv

-----------------------------------------------------------------------------
(* With nobody in a call and no account, nothing is owed.                   *)
LEMMA StartOwesNothing ==
  ASSUME ~acct.live, \A t \in Threads : th[t] = Nowhere
  PROVE  CapInv
<1>1. Nowhere.pc = "idle" /\ Nowhere.out = "none"
  BY DEF Nowhere
<1>2. \A t \in Threads : th[t].pc = "idle" /\ th[t].out = "none" /\ Place(t) = "idle"
  BY <1>1 DEF Place
<1>3. \A t \in Threads : QuietInv(t) /\ VictimInv(t)
  <2> HIDE DEF Place
  <2> QED BY <1>2 DEF QuietInv, VictimInv
<1> QED BY <1>3 DEF CapInv, OwedInv, Excused

(* After a death nobody is in a call, there is no account, and nothing is   *)
(* owed.                                                                    *)
LEMMA DeathOwesNothing ==
  ASSUME ~acct'.live, \A t \in Threads : th'[t] = Nowhere
  PROVE  CapInv'
<1>1. Nowhere.pc = "idle" /\ Nowhere.out = "none"
  BY DEF Nowhere
<1>2. \A t \in Threads : th'[t].pc = "idle" /\ th'[t].out = "none" /\ Place(t)' = "idle"
  BY <1>1 DEF Place
<1>3. \A t \in Threads : QuietInv(t)' /\ VictimInv(t)'
  <2> HIDE DEF Place
  <2> QED BY <1>2 DEF QuietInv, VictimInv
<1> QED BY <1>3 DEF CapInv, OwedInv, Excused

LEMMA KeepsCap ==
  ASSUME CacheInv, CacheInv', CapInv, [Next]_vars
  PROVE  CapInv'
<1>1. CASE Dies
  <2>1. ~acct'.live /\ \A t \in Threads : th'[t] = Nowhere
    BY <1>1 DEF Dies, NoAccount
  <2> QED BY <2>1, DeathOwesNothing
<1>2. CASE Rests \/ UNCHANGED vars
  <2>1. UNCHANGED <<disk, lock, acct, walk, th>>
    BY <1>2 DEF Rests, vars, locks
  <2>2. \A t \in Threads : QuietInv(t)' /\ VictimInv(t)'
    BY <2>1 DEF CapInv, QuietInv, VictimInv, InCall, Place, DiskRow, Glanced
  <2>3. OwedInv'
    <3>1. \A t \in Threads : \A k : Owes(t, k)' <=> Owes(t, k)
      BY <2>1, WalkKeeps
    <3>2. \A ks : Told(ks)' = Told(ks)
      BY <2>1 DEF Told, Rows
    <3> HIDE DEF Owes
    <3> QED BY <2>1, <3>1, <3>2 DEF CapInv, OwedInv, Excused
  <2> QED BY <2>2, <2>3 DEF CapInv
<1>3. CASE Walks
  BY <1>3, CapWalkRests, CapLoads DEF Walks
<1>4. ASSUME NEW t \in Threads, Call(t) \/ Proceeds(t) PROVE CapInv'
  <2>1. CASE Note(t)
    BY <2>1, CapNotes
  <2>2. CASE SeedStarts(t)
    BY <2>2, CapWalkRests
  <2>3. CASE ReconcileFallsDue(t) \/ PruneEnds(t)
    BY <2>3, CapEnds
  <2>4. CASE TakesBatch(t) \/ TakesVictim(t) \/ FreesVictim(t)
    BY <2>4, CapLoops
  <2>5. CASE ChecksVictim(t) \/ RemovesVictim(t)
    BY <2>5, CapVictims
  <2>6. CASE GetSealFails(t)
    BY <2>6, CapSealFails
  <2>7. CASE RemovalFails(t) /\ th[t].pc = "remove"
    BY <2>7, CapUnpruned
  <2>8. CASE ~Accounts(t) /\ ~PrunerSteps(t)
    BY <1>4, <2>8, CapCalls
  <2> QED BY <2>1, <2>2, <2>3, <2>4, <2>5, <2>6, <2>7, <2>8 DEF Accounts, PrunerSteps
<1> QED BY <1>1, <1>2, <1>3, <1>4 DEF Next

(* The account is the disk's, the objects retained fit their share however  *)
(* adoptions, releases and deaths interleave, and once the calls are over   *)
(* the cache fits its cap or has nothing left that prune may delete.        *)
THEOREM AccountIsKept == Spec => []AccountHolds
<1>1. Init => CapInv
  <2> SUFFICES ASSUME Init PROVE CapInv
    OBVIOUS
  <2>1. ~acct.live /\ \A t \in Threads : th[t] = Nowhere
    BY DEF Init, NoAccount
  <2> QED BY <2>1, StartOwesNothing
<1>2. CacheInv /\ CacheInv' /\ CapInv /\ [Next]_vars => CapInv'
  BY KeepsCap
<1>3. CapInv => CapHeld
  <2> SUFFICES ASSUME CapInv, \A t \in Threads : At(t, "idle") /\ th[t].out \notin {"err", "unpruned"},
                      NEW t \in Threads, th[t].out = "ok"
               PROVE  Weight(Told({"plain", "held"})) <= Cap \/ Told({"plain"}) = {}
    BY DEF CapHeld
  <2>1. \A u \in Threads : th[u].pc = "idle" /\ ~InCall(u) /\ \A k : ~Owes(u, k)
    BY DEF At, Owes, InCall, Pruning, Place
  <2>2. acct.live
    BY <2>1 DEF CapInv, QuietInv
  <2>3. Told({"plain", "held"}) \in WithinCap => Weight(Told({"plain", "held"})) <= Cap
    BY DEF WithinCap
  <2> HIDE DEF Owes, InCall
  <2> QED BY <2>1, <2>2, <2>3 DEF CapInv, OwedInv, Excused
<1>4. AccountIsTheDisk /\ RetainedFits /\ CapHeld => AccountHolds
  BY DEF AccountHolds
<1> QED BY <1>1, <1>2, <1>3, <1>4, CacheHolds, AccountIsExact, ShareHolds, PTL DEF Spec

-----------------------------------------------------------------------------
(* The cache implements ObjectStore *)

LEMMA StoreStutter ==
  ASSUME UNCHANGED <<latest, acked, leased>>
  PROVE  [Store!Next]_(Store!storeVars)
BY DEF Store!storeVars

(* A read returns the version in the slot: whole, and no older than a       *)
(* reported write when an unlink of the payload cannot fail.                *)
LEMMA LeaseIsFresh ==
  ASSUME CacheInv, Unlinks, NEW t \in Threads, GetLeases(t)
  PROVE  [Store!Next]_(Store!storeVars)
<1>1. PICK s : s = th[t].slot
  OBVIOUS
<1>2. PICK p : p = "lease" /\ p = th[t].pc
  BY DEF GetLeases, At
<1>3. p \notin Unlocked /\ p # "note"
  BY <1>2 DEF Unlocked
<1>4. /\ s \in Keys /\ disk[s] \in SlotType /\ acked[s] \in Nat /\ remote[s] \in Nat /\ latest[s] \in Nat
      /\ Sound(disk[s], acked[s], remote[s], latest[s])
      /\ Fit(p, disk[s], acked[s], remote[s], latest[s], retain, t)
  BY <1>1, <1>2, <1>3, InHand
<1>5. PICK v : v = disk[s].payload
  OBVIOUS
<1>6. v \in Nat /\ v # 0 /\ acked[s] <= v /\ v <= latest[s]
  BY <1>2, <1>4, <1>5 DEF SlotType, Sound, Fit
<1>7. leased' = [leased EXCEPT ![s] = v] /\ UNCHANGED <<latest, acked>>
  BY <1>1, <1>5 DEF GetLeases, Slot
<1>8. v \in acked[s]..latest[s]
  BY <1>4, <1>6
<1>9. Store!Lease(s)
  BY <1>6, <1>7, <1>8 DEF Store!Lease
<1> QED BY <1>4, <1>9 DEF Store!Next

LEMMA WriteMaps ==
  ASSUME CacheInv, NEW t \in Threads,
         PutLands(t) \/ (OwnSwaps(t) /\ UNCHANGED <<acked, leased>>)
  PROVE  [Store!Next]_(Store!storeVars)
<1>1. PICK s : s = th[t].slot
  OBVIOUS
<1>2. PICK p : p = th[t].pc /\ p \in {"put", "own swap"}
  BY DEF PutLands, OwnSwaps, At
<1>3. p \notin Unlocked /\ p # "note"
  BY <1>2 DEF Unlocked
<1>4. s \in Keys
  BY <1>1, <1>2, <1>3, InHand
<1>5. latest' = [latest EXCEPT ![s] = @ + 1] /\ UNCHANGED <<acked, leased>>
  BY <1>1 DEF PutLands, OwnSwaps, Slot
<1>6. Store!Write(s)
  BY <1>5 DEF Store!Write
<1> QED BY <1>4, <1>6 DEF Store!Next

LEMMA ReportMaps ==
  ASSUME CacheInv, NEW t \in Threads, Reports(t) \/ AfterInvalidation(t)
  PROVE  [Store!Next]_(Store!storeVars)
<1>1. PICK s : s = th[t].slot
  OBVIOUS
<1>2. PICK p : p = th[t].pc /\ p \in {"reported", "invalidated"}
  BY DEF Reports, AfterInvalidation, At
<1>3. p \notin Unlocked /\ p # "note"
  BY <1>2 DEF Unlocked
<1>4. s \in Keys
  BY <1>1, <1>2, <1>3, InHand
<1>5. acked' = acked \/ acked' = [acked EXCEPT ![s] = latest[s]]
  BY <1>1 DEF Reports, AfterInvalidation, Slot
<1>6. UNCHANGED <<latest, leased>>
  BY DEF Reports, AfterInvalidation
<1>7. UNCHANGED <<latest, acked, leased>> \/ Store!Report(s)
  BY <1>5, <1>6 DEF Store!Report
<1> QED BY <1>4, <1>7, StoreStutter DEF Store!Next

LEMMA ForgetMaps ==
  ASSUME CacheInv, NEW t \in Threads, FindsSuperseded(t) \/ RetentionFails(t)
  PROVE  [Store!Next]_(Store!storeVars)
<1>1. UNCHANGED <<latest, leased>>
  BY DEF FindsSuperseded, RetentionFails
<1>2. PICK ks : ks \subseteq Keys /\ acked' = [k \in Keys |-> IF k \in ks THEN 0 ELSE acked[k]]
  <2>1. CASE FindsSuperseded(t)
    <3>1. PICK old : old = Superseded(th[t].key)
      OBVIOUS
    <3>2. old \subseteq Keys
      BY <3>1 DEF Superseded, RetainedRows, Rows
    <3>3. acked' = [k \in Keys |-> IF k \in old THEN 0 ELSE acked[k]]
      BY <2>1, <3>1 DEF FindsSuperseded
    <3> QED BY <3>2, <3>3
  <2>2. CASE RetentionFails(t)
    <3>1. PICK s : s = th[t].slot
      OBVIOUS
    <3>2. PICK p : p = th[t].pc /\ p \in {"own unseal", "own swap", "own mark", "own seal"}
      BY <2>2 DEF RetentionFails
    <3>3. p \notin Unlocked /\ p # "note"
      BY <3>2 DEF Unlocked
    <3>4. s \in Keys
      BY <3>1, <3>2, <3>3, InHand
    <3>5. acked \in [Keys -> Nat] /\ acked' = [acked EXCEPT ![s] = 0]
      BY <2>2, <3>1 DEF RetentionFails, Slot, CacheInv, CacheTypes
    <3>6. acked' = [k \in Keys |-> IF k \in {s} THEN 0 ELSE acked[k]]
      BY <3>4, <3>5
    <3>7. {s} \subseteq Keys
      BY <3>4
    <3> QED BY <3>6, <3>7
  <2> QED BY <2>1, <2>2
<1>3. Store!Forget(ks)
  BY <1>1, <1>2 DEF Store!Forget
<1>4. ks \in SUBSET Keys
  BY <1>2
<1> QED BY <1>3, <1>4 DEF Store!Next

LEMMA ProceedsMaps ==
  ASSUME CacheInv, Unlinks, NEW t \in Threads, Proceeds(t)
  PROVE  [Store!Next]_(Store!storeVars)
<1>1. CASE GetLeases(t)
  BY <1>1, LeaseIsFresh
<1>2. CASE PutLands(t)
  BY <1>2, WriteMaps
<1>3. CASE Reports(t) \/ AfterInvalidation(t)
  BY <1>3, ReportMaps
<1>4. CASE FindsSuperseded(t) \/ RetentionFails(t)
  BY <1>4, ForgetMaps
<1>5. CASE Retains(t)
  <2>1. UNCHANGED <<acked, leased>>
    BY <1>5 DEF Retains
  <2>2. CASE OwnSwaps(t)
    BY <2>1, <2>2, WriteMaps
  <2>3. CASE OwnUnseals(t) \/ OwnMarks(t) \/ OwnSeals(t)
    <3>1. UNCHANGED <<latest, acked, leased>>
      BY <2>1, <2>3 DEF OwnUnseals, OwnMarks, OwnSeals
    <3> QED BY <3>1, StoreStutter
  <2> QED BY <1>5, <2>2, <2>3 DEF Retains
<1>6. CASE UNCHANGED stores
  BY <1>6, StoreStutter DEF stores
<1>7. GetLooks(t) \/ GetHeals(t) \/ GetFetches(t) \/ GetFails(t) \/ GetSeals(t) \/ GetSealFails(t)
      \/ PutFails(t) \/ PutAdopts(t) \/ AdoptionFails(t) => UNCHANGED stores
  BY DEF GetLooks, GetHeals, GetFetches, GetFails, GetSeals, GetSealFails, PutFails, PutAdopts, AdoptionFails
<1>8. Note(t) \/ Invalidates(t) \/ RemovalFails(t) \/ TakesOld(t) \/ UnmarksOld(t) \/ RemovesOld(t)
      \/ FreesOld(t) \/ Tallies(t) \/ RetainLocks(t) => UNCHANGED stores
  BY DEF Note, Invalidates, RemovalFails, TakesOld, UnmarksOld, RemovesOld, FreesOld, Tallies, RetainLocks
<1>9. TakesBatch(t) \/ TakesVictim(t) \/ ChecksVictim(t) \/ RemovesVictim(t) \/ FreesVictim(t)
      \/ PruneEnds(t) \/ ReconcileFallsDue(t) \/ SeedStarts(t) => UNCHANGED stores
  BY DEF TakesBatch, TakesVictim, ChecksVictim, RemovesVictim, FreesVictim, PruneEnds,
         ReconcileFallsDue, SeedStarts
<1> QED BY <1>1, <1>2, <1>3, <1>4, <1>5, <1>6, <1>7, <1>8, <1>9 DEF Proceeds

(* A chain that binds an object is given a whole version, never older than  *)
(* the last write the pod has reported done, through concurrent puts,       *)
(* adoptions, evictions and deaths of the process: what the invalidation    *)
(* promises, provided its unlinks of the sentinel and of the payload do not *)
(* fail. Where they may, the promise is broken, as the run stale_served     *)
(* shows of the payload's.                                                  *)
THEOREM ReadsAreFresh ==
  ASSUME Fragile \cap {"drop done", "drop payload"} = {}
  PROVE  Spec => NeverStale
<1>1. Unlinks
  BY DEF Unlinks
<1>2. Init => Store!Init
  <2> SUFFICES ASSUME Init PROVE Store!Init
    OBVIOUS
  <2>1. remote = [k \in Keys |-> IF k \in Inputs THEN 1 ELSE 0] /\ latest = remote /\ acked = remote
        /\ leased = [k \in Keys |-> 0]
    BY DEF Init
  <2>2. latest \in [Keys -> {0, 1}]
    BY <2>1
  <2> QED BY <2>1, <2>2 DEF Store!Init
<1>3. ASSUME CacheInv, [Next]_vars PROVE [Store!Next]_(Store!storeVars)
  <2>1. CASE UNCHANGED vars \/ Rests \/ Dies \/ Walks
    <3>1. UNCHANGED <<latest, acked, leased>>
      BY <2>1 DEF vars, Rests, Dies, Walks, WalkReads, WalkLoads, WalkFails, stores
    <3> QED BY <3>1, StoreStutter
  <2>2. ASSUME NEW t \in Threads, Call(t) PROVE [Store!Next]_(Store!storeVars)
    <3>1. UNCHANGED <<latest, acked, leased>>
      BY <2>2 DEF Call, GetLocks, PutLocks, RetainEnters, stores
    <3> QED BY <3>1, StoreStutter
  <2>3. ASSUME NEW t \in Threads, Proceeds(t) PROVE [Store!Next]_(Store!storeVars)
    BY <1>1, <1>3, <2>3, ProceedsMaps
  <2> QED BY <1>3, <2>1, <2>2, <2>3 DEF Next
<1> QED BY <1>2, <1>3, CacheHolds, PTL DEF Spec, NeverStale, Store!Spec

=============================================================================
