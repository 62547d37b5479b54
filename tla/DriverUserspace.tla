--------------------------- MODULE DriverUserspace ---------------------------
(***************************************************************************)
(* The fetch of the host driver's own userspace (driver_userspace.py): a   *)
(* call takes the vendor's archive in concurrent ranges under a supervisor *)
(* that knows a wall, falls back to one stream, hashes, extracts, reduces  *)
(* to the allowlist and renames the result in. A range thread may outlive  *)
(* the call that started it; the process may die at any step, and a later  *)
(* call (the encoder's and the ladder's are two) finds what is left.       *)
(*                                                                         *)
(* The archive is what each range of it holds. Names, sizes and speeds are *)
(* choices; the stall rule and the wall are one clock that may run out.    *)
(***************************************************************************)
EXTENDS Naturals, FiniteSets

CONSTANTS
  Parts,      \* ranges of the archive (RANGE_STREAMS)
  MaxFetches, \* bound: calls in a behaviour
  MaxDeaths   \* bound: deaths of the process

DriverAssumption ==
  IsFiniteSet(Parts) /\ Parts # {} /\ MaxFetches \in Nat \ {0} /\ MaxDeaths \in Nat

Calls == 1 .. MaxFetches

VARIABLES
  dir,     \* nvidia-<version>/: "absent", "leftover", "whole", or "wrong" bytes that _verified takes
  pc,      \* where the call stands
  answer,  \* what the last call returned
  call,    \* number of the call
  work,    \* its .fetch- directory exists
  late,    \* the wall has run out, or the stall rule fired
  file,    \* what run_file holds, per range
  thread,  \* per call and range: the thread that fetches it
  stop,    \* per call: the event its threads poll
  failed,  \* per call: the failure the first of them recorded
  fd,      \* per call: the descriptor its threads write through: "none", "open" or "closed"
  deaths   \* deaths of the process

ranged == <<thread, stop, failed, fd>>
driver == <<dir, pc, answer, call, work, late, file, ranged, deaths>>

Live(c) == {p \in Parts : thread[c][p] \in {"ask", "read", "write"}}
Each(x) == [p \in Parts |-> x]
Goes(where) == pc' = where
Refuses == Goes("refuse") /\ UNCHANGED <<dir, answer, call, work, late, file, ranged, deaths>>

Init ==
  /\ dir \in {"absent", "leftover"} /\ pc = "idle" /\ answer = "none" /\ call = 0
  /\ work = FALSE /\ late = FALSE /\ file = Each("hole") /\ deaths = 0
  /\ thread = [c \in Calls |-> Each("off")] /\ stop = [c \in Calls |-> FALSE]
  /\ failed = [c \in Calls |-> "none"] /\ fd = [c \in Calls |-> "none"]

-----------------------------------------------------------------------------
(* The call: a directory that verifies is reused; else one to work in. *)

Asks ==
  /\ pc = "idle" /\ call < MaxFetches /\ call' = call + 1
  /\ Goes("look") /\ answer' = "none" /\ late' = FALSE /\ file' = Each("hole")
  /\ UNCHANGED <<dir, work, ranged, deaths>>

\* _verified looks at names, links and sizes, never at bytes.
Verified == dir \in {"whole", "wrong"}

Looks ==
  /\ pc = "look"
  /\ \/ Verified /\ Goes("idle") /\ answer' = "ok" /\ UNCHANGED work
     \/ ~Verified /\ Goes("variant") /\ work' = TRUE /\ UNCHANGED answer
     \/ ~Verified /\ Goes("refuse") /\ UNCHANGED <<work, answer>>   \* the state directory is not writable
  /\ UNCHANGED <<dir, call, late, file, ranged, deaths>>

\* The wall runs out, or the vendor publishes nothing, or nothing that parses.
PicksVariant ==
  /\ pc = "variant"
  /\ \/ Refuses
     \/ ~late /\ Goes("probe") /\ UNCHANGED <<dir, answer, call, work, late, file, ranged, deaths>>

\* A proper 206 to a one-byte range, or one stream.
Probes ==
  /\ pc = "probe"
  /\ \/ Refuses
     \/ ~late /\ Goes("single") /\ UNCHANGED ranged
     \/ /\ ~late /\ Goes("watch")
        /\ thread' = [thread EXCEPT ![call] = Each("ask")] /\ fd' = [fd EXCEPT ![call] = "open"]
        /\ UNCHANGED <<stop, failed>>
  /\ UNCHANGED <<dir, answer, call, work, late, file, deaths>>

-----------------------------------------------------------------------------
(* _range_worker: the stop is looked at before the body and before a write,*)
(* and may be set between the look and the write.                          *)

Ends(c, p) == thread' = [thread EXCEPT ![c][p] = "done"]
\* What a thread raises is kept only if it is the first thing that stops the others.
Raises(c, p, what) ==
  /\ Ends(c, p) /\ stop' = [stop EXCEPT ![c] = TRUE]
  /\ failed' = [failed EXCEPT ![c] = IF stop[c] THEN @ ELSE what]

Opens(c, p) ==
  /\ thread[c][p] = "ask"
  /\ \/ Raises(c, p, "range")
     \/ /\ IF stop[c] THEN Ends(c, p) ELSE thread' = [thread EXCEPT ![c][p] = "read"]
        /\ UNCHANGED <<stop, failed>>
  /\ UNCHANGED <<fd, file>>

Reads(c, p) ==
  /\ thread[c][p] = "read"
  /\ \/ Raises(c, p, "range")                              \* headers, a body too long or too short, a broken read
     \/ /\ IF stop[c] THEN Ends(c, p) ELSE thread' = [thread EXCEPT ![c][p] = "write"]
        /\ UNCHANGED <<stop, failed>>
  /\ UNCHANGED <<fd, file>>

Writes(c, p) ==
  /\ thread[c][p] = "write"
  /\ \/ Raises(c, p, "disk") /\ UNCHANGED file              \* ENOSPC
     \/ /\ Ends(c, p) /\ UNCHANGED <<stop, failed>>
        /\ \E bytes \in {"good", "bad"} :
             file' = IF c = call /\ pc \in {"watch", "join", "drop"} THEN [file EXCEPT ![p] = bytes] ELSE file
  /\ UNCHANGED fd

Worker(c, p) ==
  /\ Opens(c, p) \/ Reads(c, p) \/ Writes(c, p)
  /\ UNCHANGED <<dir, pc, answer, call, work, late, deaths>>

-----------------------------------------------------------------------------
(* The supervisor of _download_ranged. *)

\* A recorded failure, else the wall or the stall rule, else every range on disk.
Judges ==
  /\ pc = "watch"
  /\ failed[call] # "none" \/ late \/ Live(call) = {}
  /\ Goes(IF failed[call] = "none" /\ late THEN "drop" ELSE "join")
  /\ stop' = [stop EXCEPT ![call] = @ \/ late]
  /\ UNCHANGED <<dir, answer, call, work, late, file, thread, failed, fd, deaths>>

ClosesAlways == fd' = [fd EXCEPT ![call] = "closed"]      \* mutant: a live writer is not asked for
\* Never close a descriptor that a live writer still uses.
Closes == IF Live(call) = {} THEN fd' = [fd EXCEPT ![call] = "closed"] ELSE fd' = fd

\* After the join, or after JOIN_DEADLINE_S of it. A range that failed alone
\* leaves one stream to try, under a fresh name.
Joined ==
  /\ pc \in {"join", "drop"} /\ Closes
  /\ IF Live(call) # {} \/ pc = "drop" \/ failed[call] = "disk"
       THEN Goes("refuse") /\ file' = file
       ELSE IF failed[call] = "range" THEN Goes("single") /\ file' = Each("hole")
                                      ELSE Goes("hash") /\ file' = file
  /\ UNCHANGED <<dir, answer, call, work, late, thread, stop, failed, deaths>>

Single ==
  /\ pc = "single"
  /\ \/ Refuses
     \/ /\ ~late /\ Goes("hash") /\ \E bytes \in {"good", "bad"} : file' = Each(bytes)
        /\ UNCHANGED <<dir, answer, call, work, late, ranged, deaths>>

-----------------------------------------------------------------------------
(* _provision, from the archive to the rename, and the way out. *)

MatchesLength == \A p \in Parts : file[p] # "hole"       \* mutant: an archive of full length is taken
\* The whole file against the vendor's checksum.
Matches == file = Each("good")

Hashes ==
  /\ pc = "hash" /\ Goes(IF Matches /\ ~late THEN "extract" ELSE "refuse")
  /\ UNCHANGED <<dir, answer, call, work, late, file, ranged, deaths>>

\* The vendor's script fails, misses a library of the allowlist, or times out.
Extracts ==
  /\ pc = "extract"
  /\ \/ Refuses
     \/ ~late /\ Goes("clear") /\ UNCHANGED <<dir, answer, call, work, late, file, ranged, deaths>>

Clears ==
  /\ pc = "clear"
  /\ \/ dir # "absent" /\ dir' = "absent" /\ Goes("rename")
     \/ dir # "absent" /\ dir' = dir /\ Goes("refuse")              \* rmtree raised
     \/ dir = "absent" /\ dir' = dir /\ Goes("rename")
  /\ UNCHANGED <<answer, call, work, late, file, ranged, deaths>>

Renames ==
  /\ pc = "rename"
  /\ \/ dir' = (IF file = Each("good") THEN "whole" ELSE "wrong") /\ Goes("clean")
     \/ dir' = dir /\ Goes("refuse")
  /\ UNCHANGED <<answer, call, work, late, file, ranged, deaths>>

\* finally: the working directory goes, whatever happened.
Returns ==
  /\ pc \in {"refuse", "clean"} /\ Goes("idle")
  /\ work' = FALSE /\ answer' = IF pc = "clean" THEN "ok" ELSE "refused"
  /\ UNCHANGED <<dir, call, late, file, ranged, deaths>>

WallRunsOut ==
  /\ pc \notin {"idle", "look"} /\ ~late /\ late' = TRUE
  /\ UNCHANGED <<dir, pc, answer, call, work, file, ranged, deaths>>

Dies ==
  /\ deaths < MaxDeaths /\ deaths' = deaths + 1
  /\ Goes("idle") /\ answer' = "none" /\ work' = FALSE
  /\ thread' = [c \in Calls |-> Each("off")] /\ fd' = [c \in Calls |-> "none"]
  /\ UNCHANGED <<dir, call, late, file, stop, failed>>

Steps == Looks \/ PicksVariant \/ Probes \/ Judges \/ Joined \/ Single \/ Hashes
           \/ Extracts \/ Clears \/ Renames \/ Returns
Next  == Asks \/ Steps \/ WallRunsOut \/ Dies \/ \E c \in Calls, p \in Parts : Worker(c, p)
Spec  == Init /\ [][Next]_driver /\ WF_driver(Steps) /\ WF_driver(WallRunsOut)

-----------------------------------------------------------------------------
(* What must hold. *)

Promise == INSTANCE DriverDirectory WITH asked <- pc # "idle"
\* The fetch implements what it promises the preflight: only bytes that match
\* the vendor's checksum are ever published, a directory that verifies is
\* never torn down under the process that loads from it, an answer tells the
\* truth about the directory, and a call ends by its wall (fetch_driver_userspace).
KeepsPromise == Promise!Spec

\* No thread of a failed or abandoned ranged download can write through a
\* descriptor number that was closed, and so into whatever file the process
\* opens next under that number (_download_ranged's finally).
WritersKeepTheirFile == \A c \in Calls : Live(c) # {} => fd[c] = "open"
=============================================================================
