-------------------------------- MODULE Upload --------------------------------
(***************************************************************************)
(* upload (cp.py) and what its callers share: the store session, which     *)
(* swaps its connection pool for a fresh one after an idle period, and the *)
(* aggregate PUT rate, which counts the PUTs on the wire. A thread puts an *)
(* object in at most Attempts attempts, each from byte 0; the trace of the *)
(* attempts and the seconds lost to them belong to the thread.             *)
(***************************************************************************)
EXTENDS Naturals, Sequences, FiniteSets

CONSTANTS
  Threads,   \* threads that put
  Attempts,  \* _XFER_ATTEMPTS
  MaxPuts,   \* bound: calls of upload
  MaxIdles   \* bound: idle periods longer than _STORE_IDLE_RESET_S

UploadAssumption == {Attempts, MaxPuts, MaxIdles} \subseteq Nat /\ Attempts > 0

VARIABLES
  pc,      \* per thread: "idle", "begin", "reset", "pool", "wire", "pause", "sent", "rejected", "failed"
  attempt, \* per thread: the attempt it is at
  rows,    \* per thread: put_trace, the outcome of each attempt
  lost,    \* per thread: attempts whose seconds the retry clock holds
  adapter, \* per thread: the pool its request goes through
  session, \* _StoreSession: inflight, used, idle (long since a request ended), pool
  rate,    \* _PutRate._in_flight
  left     \* calls and idle periods left

vars == <<pc, attempt, rows, lost, adapter, session, rate, left>>

Goes(t, where) == pc' = [pc EXCEPT ![t] = where]
At(where)      == {t \in Threads : pc[t] = where}
Resting        == {"idle", "sent", "rejected", "failed"}

(* The caller clears the thread's trace and clock, then puts (_put_one).    *)
Begins(t) ==
  /\ pc[t] \in Resting /\ left.puts > 0
  /\ left' = [left EXCEPT !.puts = @ - 1]
  /\ Goes(t, "begin") /\ attempt' = [attempt EXCEPT ![t] = 1]
  /\ rows' = [rows EXCEPT ![t] = << >>] /\ lost' = [lost EXCEPT ![t] = 0]
  /\ UNCHANGED <<adapter, session, rate>>

(* put_rate.begin: the deadline was sized just before. *)
CountsIn(t) ==
  /\ pc[t] = "begin"
  /\ rate' = rate + 1 /\ Goes(t, "reset")
  /\ UNCHANGED <<attempt, rows, lost, adapter, session, left>>

Fresh == IF session.inflight = 0 /\ session.idle THEN session.pool + 1 ELSE session.pool

(* Mutant of ResetsIfIdle: the request is not counted. *)
ResetsUncounted(t) ==
  /\ pc[t] = "reset" /\ Goes(t, "pool")
  /\ session' = [session EXCEPT !.pool = Fresh]
  /\ UNCHANGED <<attempt, rows, lost, adapter, rate, left>>

(* _reset_if_idle: under the lock, with nothing in flight, fresh adapters   *)
(* take the place of the old ones, which are closed; the request counts.    *)
ResetsIfIdle(t) ==
  /\ pc[t] = "reset" /\ Goes(t, "pool")
  /\ session' = [session EXCEPT !.inflight = @ + 1, !.pool = Fresh]
  /\ UNCHANGED <<attempt, rows, lost, adapter, rate, left>>

(* get_adapter *)
TakesPool(t) ==
  /\ pc[t] = "pool" /\ Goes(t, "wire")
  /\ adapter' = [adapter EXCEPT ![t] = session.pool]
  /\ UNCHANGED <<attempt, rows, lost, session, rate, left>>

(* The request is over, however: session and rate count it out. *)
Off ==
  /\ session' = [session EXCEPT !.inflight = @ - 1, !.idle = FALSE, !.used = TRUE]
  /\ rate' = rate - 1

(* PutRejected: a 4xx other than 408 and 429 fails the same on every try.   *)
Retryable(t, how) == how = "fault" /\ attempt[t] < Attempts

Outcome(t, how) ==
  IF how = "ok" THEN "sent" ELSE IF Retryable(t, how) THEN "pause"
  ELSE IF how = "4xx" THEN "rejected" ELSE "failed"

(* The PUT is answered, or dies: connect, send and answer have a deadline.  *)
(* An attempt that failed adds its seconds to the clock, the last one too.  *)
Answered(t) ==
  /\ pc[t] = "wire"
  /\ \E how \in {"ok", "4xx", "fault"} :
       /\ Off /\ Goes(t, Outcome(t, how))
       /\ rows' = [rows EXCEPT ![t] = Append(@, how)]
       /\ lost' = [lost EXCEPT ![t] = IF how = "ok" THEN @ ELSE @ + 1]
  /\ UNCHANGED <<attempt, adapter, left>>

(* The sleep between two attempts. *)
Resends(t) ==
  /\ pc[t] = "pause" /\ Goes(t, "begin")
  /\ attempt' = [attempt EXCEPT ![t] = @ + 1]
  /\ UNCHANGED <<rows, lost, adapter, session, rate, left>>

(* A long time passes with no request in flight; the origin's side of the   *)
(* pooled connections may be gone.                                          *)
Idles ==
  /\ left.idles > 0 /\ session.inflight = 0 /\ ~session.idle /\ session.used
  /\ session' = [session EXCEPT !.idle = TRUE]
  /\ left' = [left EXCEPT !.idles = @ - 1]
  /\ UNCHANGED <<pc, attempt, rows, lost, adapter, rate>>

Rests == left.puts = 0 /\ (\A t \in Threads : pc[t] \in Resting) /\ UNCHANGED vars

Starts(puts, idles) ==
  /\ pc = [t \in Threads |-> "idle"] /\ attempt = [t \in Threads |-> 0]
  /\ rows = [t \in Threads |-> << >>] /\ lost = [t \in Threads |-> 0]
  /\ adapter = [t \in Threads |-> 0]
  /\ session = [inflight |-> 0, used |-> FALSE, idle |-> FALSE, pool |-> 0] /\ rate = 0
  /\ left = [puts |-> puts, idles |-> idles]

Init == Starts(MaxPuts, MaxIdles)

Puts(t) == CountsIn(t) \/ ResetsIfIdle(t) \/ TakesPool(t) \/ Answered(t) \/ Resends(t)
Next == Idles \/ Rests \/ \E t \in Threads : Begins(t) \/ Puts(t)
Spec == Init /\ [][Next]_vars

-----------------------------------------------------------------------------
(* The rate is shared among exactly the PUTs between begin and end, and no  *)
(* request goes through a pool that was closed under it: whichever attempts *)
(* fail, and however requests meet at the end of an idle period.            *)
WireIsCounted ==
  /\ rate = Cardinality(At("reset") \cup At("pool") \cup At("wire"))
  /\ session.inflight = Cardinality(At("pool") \cup At("wire"))
  /\ \A t \in At("wire") : adapter[t] = session.pool

(* A call that ended left a row for each attempt and the clock its failed   *)
(* ones; it sent again only what had no answer or a retryable one, and gave *)
(* up only then or at the last attempt.                                     *)
TraceTellsAttempts ==
  \A t \in Threads : pc[t] \in Resting \ {"idle"} =>
    /\ Len(rows[t]) = attempt[t]
    /\ lost[t] = IF pc[t] = "sent" THEN attempt[t] - 1 ELSE attempt[t]
    /\ \A n \in 1..(attempt[t] - 1) : rows[t][n] = "fault"
    /\ rows[t][attempt[t]] = CASE pc[t] = "sent" -> "ok" [] pc[t] = "rejected" -> "4xx" [] OTHER -> "fault"
    /\ pc[t] = "failed" => attempt[t] = Attempts

(* Both of them: the rate, the pool and the trace tell what is on the wire. *)
PutsAreAccounted == WireIsCounted /\ TraceTellsAttempts

=============================================================================
