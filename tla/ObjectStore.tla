---------------------------- MODULE ObjectStore ----------------------------
(***************************************************************************)
(* What the input cache promises a chain that binds an object: it is given *)
(* a whole version, never older than the last write of that object that    *)
(* this pod has reported done, and never one that was not written. A write *)
(* may be in doubt (made, not reported); a retained object that nobody can *)
(* address any more, or whose adoption failed loudly, is forgotten.        *)
(***************************************************************************)
EXTENDS Naturals

CONSTANT Keys

VARIABLES
  latest,  \* the last version written of each object, 0 for none
  acked,   \* the last version reported written and still promised
  leased   \* the version the last reader of each object was given

storeVars == <<latest, acked, leased>>

Init ==
  /\ latest \in [Keys -> {0, 1}]
  /\ acked = latest
  /\ leased = [k \in Keys |-> 0]

Write(k)  == latest' = [latest EXCEPT ![k] = @ + 1] /\ UNCHANGED <<acked, leased>>
Report(k) == acked' = [acked EXCEPT ![k] = latest[k]] /\ UNCHANGED <<latest, leased>>
Lease(k)  == /\ \E v \in acked[k]..latest[k] : v # 0 /\ leased' = [leased EXCEPT ![k] = v]
             /\ UNCHANGED <<latest, acked>>
Forget(ks) == acked' = [k \in Keys |-> IF k \in ks THEN 0 ELSE acked[k]] /\ UNCHANGED <<latest, leased>>

Next == (\E k \in Keys : Write(k) \/ Report(k) \/ Lease(k)) \/ (\E ks \in SUBSET Keys : Forget(ks))

Spec == Init /\ [][Next]_storeVars

=============================================================================
