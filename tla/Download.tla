------------------------------- MODULE Download -------------------------------
(***************************************************************************)
(* download (cp.py): a presigned object to a path on disk, in concurrent   *)
(* ranges pinned to the probe's ETag when it is large, else in one stream  *)
(* that resumes what an earlier attempt left. The object may be replaced   *)
(* at the origin between two requests; a body comes from the version the   *)
(* request found.                                                          *)
(*                                                                         *)
(* A file is the sequence of the versions its blocks were read from. The   *)
(* temporary file of a ranged attempt has the same name in every call of a *)
(* thread, so a worker that outlives its call may open a later one's.      *)
(***************************************************************************)
EXTENDS Naturals, Sequences, FiniteSets

CONSTANTS
  Threads,   \* threads that download the object to the path
  Sizes,     \* per origin: the length, in blocks, of each version
  Threshold, \* _RANGE_THRESHOLD_BYTES
  Width,     \* workers of a ranged attempt
  Attempts,  \* _XFER_ATTEMPTS
  MaxCalls,  \* bound: calls
  Origins    \* what an origin may do: [tagged, framed, honors (If-Range)]

DownloadAssumption ==
  /\ Sizes \subseteq Seq(Nat \ {0}) \ {<< >>} /\ Sizes # {}
  /\ Origins \subseteq [tagged : BOOLEAN, framed : BOOLEAN, honors : BOOLEAN]
  /\ {Threshold, Width, Attempts, MaxCalls} \subseteq Nat \ {0}

None    == 0                \* no pin, no file name, no version
Calls   == 1..MaxCalls
Parts   == 1..Width
Ranges  == Calls \X Parts

VARIABLES
  origin,  \* the origin: what it does, and the version it holds
  pc,      \* per thread: "idle", "probe", "ranged", "drain", "get", "done", "failed"
  call,    \* per thread: its call
  attempt, \* per thread: attempts its call has used
  pin,     \* per thread: pinned_total and pinned_etag
  file,    \* the blocks at dest; << >> when there is none
  used,    \* calls that have begun
  path,    \* per thread: the call whose temporary file its name leads to
  temp,    \* per call: the blocks of its temporary file
  dest,    \* the call whose temporary file is dest
  worker,  \* per range: "none", "run", "head", "open", "done" or "failed", version, file
  abort    \* calls whose workers were told to stop

mine   == <<pc, call, attempt, pin>>
disk   == <<file, dest>>
ranged == <<path, temp, worker, abort>>
vars   == <<origin, mine, disk, used, ranged>>

Size(v) == origin.size[v]
Whole(v) == [i \in 1..Size(v) |-> v]
NoWorker == [st |-> "none", of |-> None, fd |-> None, by |-> None]
NoPin   == [total |-> None, etag |-> None]
Part(n) == (n + Width - 1) \div Width  \* _range_bounds
Span(p, n) == {i \in 1..n : (p - 1) * Part(n) < i /\ i <= p * Part(n)}
Etag    == IF origin.tagged THEN origin.version ELSE None
Total   == IF origin.framed THEN Size(origin.version) ELSE None
Writing == {"run", "head", "open"}
Live(c) == {p \in Parts : worker[<<c, p>>].st \in Writing}

Goes(t, where) == pc' = [pc EXCEPT ![t] = where]
Pins(t, p)     == pin' = [pin EXCEPT ![t] = p]
Unlinks        == file' = << >> /\ dest' = None

Replaces ==
  /\ origin.version < Len(origin.size)
  /\ origin' = [origin EXCEPT !.version = @ + 1]
  /\ UNCHANGED <<mine, disk, used, ranged>>

(* A call begins, on a path its caller has cleared (inputcache.get) or a    *)
(* new workspace's; what is over of earlier calls is forgotten.             *)
Begins(t) ==
  /\ pc[t] \in {"idle", "done", "failed"} /\ used < MaxCalls
  /\ used' = used + 1 /\ call' = [call EXCEPT ![t] = used + 1]
  /\ Goes(t, "probe") /\ attempt' = [attempt EXCEPT ![t] = 0] /\ Pins(t, NoPin)
  /\ Unlinks
  /\ worker' = [r \in Ranges |-> IF worker[r].st \in Writing THEN worker[r] ELSE NoWorker]
  /\ temp' = [c \in Calls |-> [i \in DOMAIN temp[c] |-> None]]
  /\ UNCHANGED <<origin, path, abort>>

-----------------------------------------------------------------------------
(* _range_probe and the start of _download_ranged: one worker per range of  *)
(* a large object whose origin proves it honours ranges and has an ETag.    *)
Probes(t) ==
  /\ pc[t] = "probe"
  /\ \/ Goes(t, "get") /\ UNCHANGED <<pin, ranged>>
     \/ LET v == origin.version IN
        /\ origin.tagged /\ Size(v) >= Threshold
        /\ Goes(t, "ranged") /\ Pins(t, [total |-> Size(v), etag |-> v])
        /\ path' = [path EXCEPT ![t] = call[t]]
        /\ temp' = [temp EXCEPT ![call[t]] = [i \in 1..Size(v) |-> None]]
        /\ worker' = [r \in Ranges |-> IF r[1] = call[t] /\ Span(r[2], Size(v)) # {}
                                       THEN [st |-> "run", of |-> v, fd |-> None, by |-> t]
                                       ELSE worker[r]]
        /\ UNCHANGED abort
  /\ UNCHANGED <<origin, call, attempt, disk, used>>

(* _ranged_worker *)
Becomes(r, state) == worker' = [worker EXCEPT ![r] = state]
(* A fault of a range is tried against the same pin, or ends the worker.    *)
Retries(r) == Becomes(r, [NoWorker EXCEPT !.st = "failed"]) \/ Becomes(r, [worker[r] EXCEPT !.st = "run", !.fd = None])

(* A request, accepted when it answers 206 for the pinned version. *)
WorkerFetches(r) ==
  /\ worker[r].st = "run"
  /\ \/ r[1] \in abort /\ Becomes(r, NoWorker)
     \/ origin.version = worker[r].of /\ Becomes(r, [worker[r] EXCEPT !.st = "head"])
     \/ Retries(r)
  /\ UNCHANGED <<origin, mine, disk, used, path, temp, abort>>

(* The temporary file is opened by its name. *)
WorkerOpens(r) ==
  /\ worker[r].st = "head"
  /\ LET fd == path[worker[r].by]
     IN Becomes(r, IF fd = None THEN [NoWorker EXCEPT !.st = "failed"]
                                ELSE [worker[r] EXCEPT !.st = "open", !.fd = fd])
  /\ UNCHANGED <<origin, mine, disk, used, path, temp, abort>>

Filled(bytes, r) ==
  LET v == worker[r].of
  IN [i \in DOMAIN bytes |-> IF i \in Span(r[2], Size(v)) THEN v ELSE bytes[i]]
Lands(r) ==
  LET fd == worker[r].fd
  IN IF fd = dest THEN file' = Filled(file, r) /\ UNCHANGED temp
                  ELSE temp' = [temp EXCEPT ![fd] = Filled(@, r)] /\ UNCHANGED file

(* The body goes into the open file unless the call has given up; a short   *)
(* or dropped body is tried once more.                                      *)
WorkerWrites(r) ==
  /\ worker[r].st = "open"
  /\ \/ r[1] \in abort /\ Becomes(r, NoWorker) /\ UNCHANGED <<file, temp>>
     \/ r[1] \notin abort /\ Retries(r) /\ UNCHANGED <<file, temp>>
     \/ r[1] \notin abort /\ Becomes(r, [NoWorker EXCEPT !.st = "done"]) /\ Lands(r)
  /\ UNCHANGED <<origin, mine, dest, used, path, abort>>

(* Every worker's own count adds up: the temporary file becomes dest. *)
RangedLands(t) ==
  /\ pc[t] = "ranged" /\ \A p \in Parts : Span(p, pin[t].total) # {} => worker[<<call[t], p>>].st = "done"
  /\ file' = temp[call[t]] /\ dest' = call[t]
  /\ path' = [path EXCEPT ![t] = None] /\ Goes(t, "done")
  /\ UNCHANGED <<origin, call, attempt, pin, used, temp, worker, abort>>

(* The first failure, or the aggregate wall while a range is pending. *)
RangedFails(t) ==
  /\ pc[t] = "ranged"
  /\ Live(call[t]) # {} \/ \E p \in Parts : worker[<<call[t], p>>].st = "failed"
  /\ abort' = abort \cup {call[t]} /\ Goes(t, "drain")
  /\ UNCHANGED <<origin, call, attempt, pin, disk, used, path, temp, worker>>

(* Mutant of Drains: the grace of _drain_ranged is not bounded. *)
DrainsAll(t) ==
  /\ pc[t] = "drain" /\ Live(call[t]) = {}
  /\ path' = [path EXCEPT ![t] = None] /\ Unlinks
  /\ attempt' = [attempt EXCEPT ![t] = @ + 1] /\ Goes(t, "get")
  /\ UNCHANGED <<origin, call, pin, used, temp, worker, abort>>

(* _drain_ranged gives the workers a grace and no more; the temporary file  *)
(* and dest are unlinked, and the next attempt is one stream.               *)
Drains(t) ==
  /\ pc[t] = "drain"
  /\ path' = [path EXCEPT ![t] = None] /\ Unlinks
  /\ attempt' = [attempt EXCEPT ![t] = @ + 1] /\ Goes(t, "get")
  /\ UNCHANGED <<origin, call, pin, used, temp, worker, abort>>

-----------------------------------------------------------------------------
(* One attempt of the single stream: a request, its answer and its body.    *)
Have(t) == IF attempt[t] = 0 THEN 0 ELSE Len(file)

Last(t)  == attempt[t] + 1 = Attempts
Ends(t)  == Goes(t, "done") /\ UNCHANGED attempt
Again(t) ==
  IF Last(t) THEN Goes(t, "failed") /\ UNCHANGED attempt
             ELSE attempt' = [attempt EXCEPT ![t] = @ + 1] /\ UNCHANGED pc

(* An untrustworthy answer is never appended to: 416, an unsolicited or     *)
(* transcoded 206, another status, a range or an ETag of something else.    *)
RestartRequired(t) == Unlinks /\ Pins(t, NoPin) /\ Again(t)

(* A file that reaches its pinned length, or has none, is returned; at the  *)
(* last attempt a shorter one is deleted.                                   *)
Judged(t, bytes, total) ==
  IF total = None \/ Len(bytes) >= total THEN file' = bytes /\ Ends(t)
  ELSE file' = (IF Last(t) THEN << >> ELSE bytes) /\ Again(t)

(* No answer, an error status, or a timeout before a byte of the body. *)
NoAnswer(t) == Again(t) /\ UNCHANGED <<pin, disk>>

Prefixes(v, from) == {[i \in 1..n |-> v] : n \in 0..(Size(v) - from)}

(* 200: dest is truncated and the pins are made afresh; a torn body is      *)
(* deleted, a dropped one kept.                                             *)
FullBody(t) ==
  /\ Pins(t, [total |-> Total, etag |-> IF origin.tagged THEN Etag ELSE pin[t].etag])
  /\ dest' = None
  /\ \E got \in Prefixes(origin.version, 0) :
       \/ Total # None /\ Len(got) # Total /\ file' = << >> /\ Again(t)
       \/ (Total = None \/ Len(got) = Total) /\ Judged(t, got, Total)
       \/ file' = got /\ Again(t)

(* An origin answers a Range request with a 206, or with the whole object.  *)
Resumes(t) ==
  /\ 0 < Have(t) /\ Have(t) < Size(origin.version)
  /\ origin.honors => pin[t].etag \in {None, Etag}

(* Mutant of Splices: an answer of the right length is taken for the rest.  *)
SplicesByLength(t) == pin[t].total # None /\ Total # None /\ Total # pin[t].total

(* _resume_range and the ETag test: the 206 is of something else. *)
Splices(t) ==
  \/ pin[t].total # None /\ Total # None /\ Total # pin[t].total
  \/ pin[t].etag # None /\ Etag # None /\ Etag # pin[t].etag

(* 206 to the Range asked for: the rest of the version or a part of it,     *)
(* appended; a span that is not delivered is a dropped connection.          *)
RestOfBody(t) ==
  /\ Resumes(t) /\ ~Splices(t)
  /\ LET total == IF Total # None THEN Total ELSE pin[t].total
     IN /\ Pins(t, [total |-> total, etag |-> IF Etag # None THEN Etag ELSE pin[t].etag])
        /\ \E more \in Prefixes(origin.version, Have(t)) :
             Judged(t, file \o more, total) \/ (file' = file \o more /\ Again(t))
  /\ UNCHANGED dest

Gets(t) ==
  /\ pc[t] = "get"
  /\ NoAnswer(t) \/ RestartRequired(t) \/ FullBody(t) \/ RestOfBody(t)
  /\ UNCHANGED <<origin, call, used, ranged>>

-----------------------------------------------------------------------------
Rests ==
  /\ used = MaxCalls /\ \A t \in Threads : pc[t] \in {"idle", "done", "failed"}
  /\ UNCHANGED vars

Starts(o, s) ==
  /\ origin = [tagged |-> o.tagged, framed |-> o.framed, honors |-> o.honors, size |-> s, version |-> 1]
  /\ pc = [t \in Threads |-> "idle"] /\ call = [t \in Threads |-> None]
  /\ attempt = [t \in Threads |-> 0] /\ pin = [t \in Threads |-> NoPin]
  /\ file = << >> /\ dest = None /\ used = 0
  /\ path = [t \in Threads |-> None] /\ temp = [c \in Calls |-> << >>]
  /\ worker = [r \in Ranges |-> NoWorker]
  /\ abort = {}

Init == \E o \in Origins, s \in Sizes : Starts(o, s)

Downloads(t) == Probes(t) \/ RangedLands(t) \/ RangedFails(t) \/ Drains(t) \/ Gets(t)

Next ==
  \/ Replaces \/ Rests
  \/ \E t \in Threads : Begins(t) \/ Downloads(t)
  \/ \E r \in Ranges : WorkerFetches(r) \/ WorkerOpens(r) \/ WorkerWrites(r)

(* Requests, the aggregate wall and the grace of the drain are bounded, so  *)
(* a caller goes on; a worker on a body that drips may never end.           *)
Spec == Init /\ [][Next]_vars /\ \A t \in Threads : WF_vars(Downloads(t))

-----------------------------------------------------------------------------
Ended(t) == pc[t] \in {"idle", "done", "failed"}

(* What a call returns from an origin that frames its bodies has the length *)
(* of a version it held; if it tags them too, every block is of that one    *)
(* version, wherever it was replaced and however often the call resumed.    *)
WholeObject ==
  \A t \in Threads : pc[t] = "done" /\ origin.framed =>
    \E v \in 1..origin.version :
      /\ Len(file) = Size(v)
      /\ origin.tagged => file = Whole(v)

(* A call ends, even if no worker of a ranged attempt ever does. *)
CallEnds == \A t \in Threads : ~Ended(t) ~> Ended(t)

=============================================================================
