----------------------------- MODULE OriginFetch -----------------------------
(***************************************************************************)
(* The third-party images of one clip_rank request: the request puts each  *)
(* url in the process-wide fetch pool, gathers them in order and judges    *)
(* the phase (infer_cliprank.py); each fetch is paced by the limiter of    *)
(* the host it talks to and retried (originrule.py); the outcomes fill a   *)
(* window per host, and a tile that finds every host dead stops the        *)
(* request.                                                                *)
(*                                                                         *)
(* Time is a clock that moves to the phase's deadline and no further: past *)
(* it, no attempt starts and no wait goes on.                              *)
(***************************************************************************)
EXTENDS Naturals, Sequences, FiniteSets, SequencesExt

CONSTANTS
  N,         \* tiles of the request, submitted in order
  Hosts,     \* origin hosts; a redirect may lead to any of them
  Pool,      \* threads of the fetch pool
  PoolWidth, \* _POOL_WIDTH: the limiter's ceiling
  Attempts,  \* _ORIGIN_ATTEMPTS
  MaxHold,   \* _HOLD_MAX_S, in ticks
  Deadline,  \* _ORIGIN_FETCH_PHASE_S, in ticks
  WindowN, MinN, \* _EGRESS_WINDOW_N, _EGRESS_MIN_N
  Urls,      \* which host each tile's url names
  Windows    \* what the windows may hold when the request begins

Tiles == 1..N
None  == 0

OriginAssumption ==
  /\ {N, Pool, PoolWidth, Attempts, MaxHold, Deadline, WindowN, MinN} \subseteq Nat \ {0}
  /\ Urls \subseteq [Tiles -> Hosts] /\ Windows \subseteq Seq(BOOLEAN)

VARIABLES
  pc,     \* per tile: "new", "queued", "cancelled", "acquire", "sleep", "wire", "ends", "done"
  at,     \* per tile: the host it talks to, the attempt, when it wakes, its outcome
  host,   \* per host: limit, inflight, hold (hold_until)
  window, \* per host: _EGRESS, the latest outcomes; TRUE is a failure of the network
  clock,  \* _now(), in ticks
  egress, \* _RequestEgress: hosts, error; and the tile that holds its lock to cancel
  shared, \* the futures that will be cancelled: url -> future
  req     \* the request: step, and the tile it is at

tiles == <<pc, at>>
vars  == <<pc, at, host, window, clock, egress, shared, req>>

Goes(t, where) == pc' = [pc EXCEPT ![t] = where]
Late           == clock >= Deadline
Running        == {t \in Tiles : pc[t] \in {"acquire", "sleep", "wire", "ends"}}

-----------------------------------------------------------------------------
(* originrule: the limiter of a host, a fetch and its attempts. *)

Smaller(x, y) == IF x < y THEN x ELSE y
Larger(x, y)  == IF x < y THEN y ELSE x

(* The fetch is over: its outcome goes to the window, then to the request.  *)
EndsAs(t, how) == at' = [at EXCEPT ![t].out = how, ![t].attempt = 1] /\ Goes(t, "ends")

(* _fetch_once: a hop checks and resolves its url, and asks its host for a  *)
(* slot; an address the guard refuses, or no address, ends the fetch.       *)
Resolves(t, h, n) ==
  \/ at' = [at EXCEPT ![t].host = h, ![t].attempt = n] /\ Goes(t, "acquire")
  \/ \E out \in {"refused", "net"} :
       at' = [at EXCEPT ![t].host = h, ![t].out = out, ![t].attempt = 1] /\ Goes(t, "ends")

HoldOutlives(h) == host[h].hold > Deadline

(* _Host.acquire: a slot if there is one and no hold is on; past the        *)
(* deadline, or if the hold would end after it, the fetch gives up.         *)
Acquires(t) ==
  LET h == at[t].host IN
  /\ pc[t] = "acquire"
  /\ \/ (Late \/ HoldOutlives(h)) /\ EndsAs(t, "late") /\ UNCHANGED host
     \/ /\ ~Late /\ host[h].hold <= clock /\ host[h].inflight < host[h].limit
        /\ host' = [host EXCEPT ![h].inflight = @ + 1]
        /\ Goes(t, "wire") /\ UNCHANGED at
     \/ /\ ~Late /\ host[h].hold > clock /\ ~HoldOutlives(h)
        /\ at' = [at EXCEPT ![t].wake = host[h].hold] /\ Goes(t, "sleep") /\ UNCHANGED host
  /\ UNCHANGED <<window, clock, egress, shared, req>>

(* It holds no slot while it sleeps, and looks again when it wakes. *)
Wakes(t) ==
  /\ pc[t] = "sleep" /\ clock >= at[t].wake /\ Goes(t, "acquire")
  /\ at' = [at EXCEPT ![t].wake = 0]
  /\ UNCHANGED <<host, window, clock, egress, shared, req>>

(* _Host.release: how the fetch went moves the limit; a throttle also holds *)
(* new fetches, for as long as the host asks or longer each time, with a    *)
(* jitter, up to a cap.                                                     *)
Learns(s, outcome, hold) ==
  [s EXCEPT
    !.inflight = @ - 1,
    !.limit    = IF outcome = "ok" THEN Smaller(PoolWidth, @ + 1)
                 ELSE IF outcome = "neutral" THEN @ ELSE Larger(1, @ \div 2),
    !.hold     = IF outcome = "throttle" THEN Larger(@, clock + hold) ELSE @]

Releases(t, outcome, hold) ==
  host' = [host EXCEPT ![at[t].host] = Learns(@, outcome, hold)]

(* _fetch_retrying: a connection that died, or an answer that says the      *)
(* origin could not, is tried again; the last one's outcome is the fetch's. *)
Retries(t, out) ==
  IF at[t].attempt = Attempts THEN EndsAs(t, out)
  ELSE IF Late THEN EndsAs(t, "late")
  ELSE Resolves(t, at[t].of, at[t].attempt + 1)

(* Mutant of Redirects: the slot is kept while the next hop is made. *)
RedirectsHolding(t) == UNCHANGED host /\ \E h \in Hosts : Resolves(t, h, at[t].attempt)

(* A redirect: the slot is given back, the next hop is checked anew.        *)
Redirects(t) == Releases(t, "ok", 0) /\ \E h \in Hosts : Resolves(t, h, at[t].attempt)

Answers(t) ==
  /\ pc[t] = "wire"
  /\ \/ at[t].host = at[t].of /\ Redirects(t)
     \/ Releases(t, "conn_error", 0) /\ Retries(t, "net")
     \/ \E hold \in 1..MaxHold : Releases(t, "throttle", hold) /\ Retries(t, "net")
     \/ Releases(t, "neutral", 0) /\ Retries(t, "origin")                    \* 408, 5xx
     \/ Releases(t, "block", 0) /\ (EndsAs(t, "net") \/ EndsAs(t, "origin")) \* 403
     \/ Releases(t, "neutral", 0) /\ EndsAs(t, "origin")                     \* 404, 410
     \/ Releases(t, "ok", 0) /\ (EndsAs(t, "ok") \/ EndsAs(t, "refused"))    \* 2xx, or too large
  /\ UNCHANGED <<window, clock, egress, shared, req>>

(* fetch records the outcome, a failure for the host it came from; a        *)
(* refusal or a deadline is no attempt.                                     *)
Recorded(t) ==
  IF at[t].out \in {"refused", "late"} THEN window
  ELSE LET h == IF at[t].out = "ok" THEN at[t].of ELSE at[t].host
           w == Append(window[h], at[t].out = "net")
       IN [window EXCEPT ![h] = IF Len(w) > WindowN THEN Tail(w) ELSE w]

(* host_dead, egress_dead: every host with a record fails nearly always.    *)
Failures(w) == Cardinality({n \in 1..Len(w) : w[n]})
HostDead(w) == Len(w) >= MinN /\ 10 * Failures(w) >= 9 * Len(w)
Dead(hosts) ==
  LET seen == {h \in hosts : window[h] # << >>}
  IN seen # {} /\ \A h \in seen : HostDead(window[h])

-----------------------------------------------------------------------------
(* _fetch_origin_tile: a thread of the pool takes it; one that slipped past *)
(* cancel, or starts too late, fetches nothing.                             *)
Starts(t) ==
  /\ pc[t] = "queued" /\ Cardinality(Running) < Pool
  /\ IF egress.error \/ Late
     THEN at' = [at EXCEPT ![t].out = "late"] /\ Goes(t, "done") /\ UNCHANGED egress
     ELSE /\ egress' = [egress EXCEPT !.hosts = @ \cup {at[t].host}]
          /\ Resolves(t, at[t].host, 1)
  /\ UNCHANGED <<host, window, clock, shared, req>>

Records(t) ==
  /\ pc[t] = "ends" /\ at[t].told = FALSE
  /\ window' = Recorded(t)
  /\ at' = [at EXCEPT ![t].told = TRUE]
  /\ UNCHANGED <<pc, host, clock, egress, shared, req>>

Cancelled(t) == [u \in Tiles |-> IF u = t THEN "done"
                                 ELSE IF u \in shared /\ pc[u] = "queued" THEN "cancelled" ELSE pc[u]]
Condemns(t)  == at[t].out # "ok" /\ ~egress.error /\ Dead(egress.hosts)

(* Mutant of Tells: the futures are cancelled before the error is there. *)
CancelsFirst(t) ==
  /\ pc[t] = "ends" /\ at[t].told
  /\ \/ egress.by = None /\ ~Condemns(t) /\ Goes(t, "done") /\ UNCHANGED egress
     \/ egress.by = None /\ Condemns(t) /\ pc' = [Cancelled(t) EXCEPT ![t] = "ends"]
                        /\ egress' = [egress EXCEPT !.by = t]
     \/ egress.by = t /\ Goes(t, "done") /\ egress' = [egress EXCEPT !.error = TRUE, !.by = None]
  /\ UNCHANGED <<at, host, window, clock, shared, req>>

(* _RequestEgress.done, under its lock: the first failed tile that finds    *)
(* the network dead sets the error, then cancels the futures known so far.  *)
(* A tile that a deadline cut, or that timed out, does not ask.             *)
Tells(t) ==
  /\ pc[t] = "ends" /\ at[t].told
  /\ \/ at[t].out \in {"late", "net"} /\ egress.by # t /\ Goes(t, "done") /\ UNCHANGED egress
     \/ /\ at[t].out # "late" /\ egress.by = None
        /\ IF Condemns(t) THEN egress' = [egress EXCEPT !.error = TRUE, !.by = t] /\ UNCHANGED pc
                          ELSE Goes(t, "done") /\ UNCHANGED egress
     \/ egress.by = t /\ pc' = Cancelled(t) /\ egress' = [egress EXCEPT !.by = None]
  /\ UNCHANGED <<at, host, window, clock, shared, req>>

-----------------------------------------------------------------------------
(* The request. *)

Step(s, n) == req' = [step |-> s, tile |-> n]

(* _submit_origins: once the verdict is in, nothing more is queued. *)
Submits ==
  /\ req.step = "submit" /\ UNCHANGED <<at, host, window, clock, egress, shared>>
  /\ IF egress.error THEN Step("egress", 0) /\ UNCHANGED pc
                     ELSE Goes(req.tile, "queued") /\ Step("share", req.tile)

(* The future becomes known to the verdict a step after it was queued. *)
Shares ==
  /\ req.step = "share"
  /\ shared' = shared \cup {req.tile}
  /\ IF req.tile < N THEN Step("submit", req.tile + 1) ELSE Step("gather", 1)
  /\ UNCHANGED <<pc, at, host, window, clock, egress>>

(* _phase_verdict: too few images among the tiles that say anything about   *)
(* the network, those the deadline cut included.                            *)
Had(outs)  == Cardinality({t \in Tiles : at[t].out \in outs})
PhaseDead ==
  LET judged == Had({"ok", "net", "late"})
  IN judged >= MinN /\ 10 * Had({"ok"}) <= judged

(* _gather_origins, in order; then the whole phase is judged. *)
Gathers ==
  /\ req.step = "gather"
  /\ \/ /\ pc[req.tile] = "cancelled"
        /\ Step(IF egress.error THEN "egress" ELSE "bare", 0)
     \/ /\ pc[req.tile] = "done"
        /\ IF egress.error THEN Step("egress", 0)
           ELSE IF req.tile < N THEN Step("gather", req.tile + 1)
           ELSE Step(IF PhaseDead THEN "egress" ELSE "scored", 0)
  /\ UNCHANGED <<pc, at, host, window, clock, egress, shared>>

-----------------------------------------------------------------------------
Tick ==
  /\ ~Late /\ clock' = clock + 1
  /\ UNCHANGED <<pc, at, host, window, egress, shared, req>>

Over  == req.step \in {"scored", "egress", "bare"}

(* The clock of the model stops at the deadline. *)
Rests == Late /\ UNCHANGED vars

Begins(of, record) ==
  /\ pc = [t \in Tiles |-> "new"]
  /\ at = [t \in Tiles |-> [host |-> of[t], of |-> of[t], attempt |-> 1, wake |-> 0, out |-> "none", told |-> FALSE]]
  /\ host = [h \in Hosts |-> [limit |-> PoolWidth, inflight |-> 0, hold |-> 0]]
  /\ window = record /\ clock = 0
  /\ egress = [hosts |-> {}, error |-> FALSE, by |-> None]
  /\ shared = {} /\ req = [step |-> "submit", tile |-> 1]

Init == \E of \in Urls, record \in [Hosts -> Windows] : Begins(of, record)

Fetches(t) == Starts(t) \/ Acquires(t) \/ Wakes(t) \/ Answers(t) \/ Records(t) \/ Tells(t)
Asks       == Submits \/ Shares \/ Gathers
Next       == Tick \/ Rests \/ Asks \/ \E t \in Tiles : Fetches(t)

(* Time goes on; a request on the wire has a timeout; the pool's threads    *)
(* and the request's run.                                                   *)
Fairness == WF_vars(Tick) /\ WF_vars(Asks) /\ \A t \in Tiles : WF_vars(Fetches(t))
Spec     == Init /\ [][Next]_vars /\ Fairness

-----------------------------------------------------------------------------
(* A host's slots are the fetches on its wire, whichever way each of them   *)
(* ended and wherever its redirects led; and while the limit moves under    *)
(* them it stays between one and the ceiling, so no host is shut for good.  *)
SlotsAreExact ==
  \A h \in Hosts :
    /\ host[h].inflight = Cardinality({t \in Tiles : pc[t] = "wire" /\ at[t].host = h})
    /\ host[h].limit \in 1..PoolWidth

(* A request on a dead network fails by that name: it is never scored once  *)
(* a tile has seen the verdict, and no tile that the verdict cancelled      *)
(* reaches the request as anything else ("Raised, not scored").             *)
VerdictReachesRequest ==
  /\ req.step # "bare"
  /\ req.step = "scored" => ~egress.error

(* The request ends, with every tile of it: no hold, no full host and no    *)
(* retry keeps it past its deadline.                                        *)
Ended       == Over /\ Running = {}
RequestEnds == <>Ended

=============================================================================
