------------------------------ MODULE BootProofs ------------------------------
(***************************************************************************)
(* Proofs about the boots of the pod, for every number of ranges, calls,   *)
(* deaths and processes. First that a live range thread of the driver-     *)
(* userspace fetch never holds a closed descriptor; then that the fetch    *)
(* implements DriverDirectory, step by step; then that what a process      *)
(* tells of its past and host is true (BootPreflight). That a call and a   *)
(* boot end is left to the runs.                                           *)
(***************************************************************************)
EXTENDS MCBoot, TLAPS

ThreadStates == {"off", "ask", "read", "write", "done"}

\* The threads and descriptors have their types, and the promise holds of them.
WritersInv ==
  /\ thread \in [Calls -> [Parts -> ThreadStates]]
  /\ fd \in [Calls -> {"none", "open", "closed"}]
  /\ WritersKeepTheirFile

\* No thread runs when the process starts: none holds a descriptor.
LEMMA WritersInit == Init => WritersInv
<1> SUFFICES ASSUME Init PROVE WritersInv
  OBVIOUS
<1>1. thread \in [Calls -> [Parts -> ThreadStates]] /\ fd \in [Calls -> {"none", "open", "closed"}]
  BY DEF Init, Each, ThreadStates
<1>2. \A c \in Calls : Live(c) = {}
  BY DEF Init, Each, Live
<1> QED
  BY <1>1, <1>2 DEF WritersInv, WritersKeepTheirFile

\* A thread that takes a step was alive before it, and nobody else changes.
LEMMA WorkerKeeps ==
  ASSUME WritersInv, NEW c \in Calls, NEW p \in Parts, Worker(c, p)
  PROVE  WritersInv'
<1>1. fd' = fd
  BY DEF Worker, Opens, Reads, Writes
<1>2. PICK s \in ThreadStates : thread' = [thread EXCEPT ![c][p] = s]
  BY DEF Worker, Opens, Reads, Writes, Ends, Raises, ThreadStates
<1>3. thread[c][p] \in {"ask", "read", "write"}
  BY DEF Worker, Opens, Reads, Writes
<1>4. thread' \in [Calls -> [Parts -> ThreadStates]]
  BY <1>2 DEF WritersInv
<1>5. ASSUME NEW d \in Calls PROVE Live(d)' \subseteq Live(d)
  <2>1. ASSUME NEW q \in Parts, thread'[d][q] \in {"ask", "read", "write"}
        PROVE  thread[d][q] \in {"ask", "read", "write"}
    <3>1. CASE d = c /\ q = p
      BY <1>3, <3>1
    <3>2. CASE ~(d = c /\ q = p)
      <4>1. thread'[d][q] = thread[d][q]
        BY <1>2, <3>2 DEF WritersInv
      <4> QED
        BY <4>1, <2>1
    <3> QED
      BY <3>1, <3>2
  <2> QED
    BY <2>1 DEF Live
<1> QED
  BY <1>1, <1>4, <1>5 DEF WritersInv, WritersKeepTheirFile

\* Every range of a new attempt starts on a descriptor that was just opened.
LEMMA ProbesKeep == WritersInv /\ Probes => WritersInv'
<1> SUFFICES ASSUME WritersInv, Probes PROVE WritersInv'
  OBVIOUS
<1>1. CASE UNCHANGED <<thread, fd>>
  BY <1>1 DEF WritersInv, WritersKeepTheirFile, Live
<1>2. CASE /\ thread' = [thread EXCEPT ![call] = Each("ask")]
           /\ fd' = [fd EXCEPT ![call] = "open"]
  <2>1. Each("ask") \in [Parts -> ThreadStates]
    BY DEF Each, ThreadStates
  <2>2. thread' \in [Calls -> [Parts -> ThreadStates]] /\ fd' \in [Calls -> {"none", "open", "closed"}]
    BY <1>2, <2>1 DEF WritersInv
  <2>3. ASSUME NEW c \in Calls, Live(c)' # {} PROVE fd'[c] = "open"
    <3>1. CASE c = call
      BY <1>2, <3>1 DEF WritersInv
    <3>2. CASE c # call
      <4>1. thread'[c] = thread[c] /\ fd'[c] = fd[c]
        BY <1>2, <3>2 DEF WritersInv
      <4> QED
        BY <4>1, <2>3 DEF WritersInv, WritersKeepTheirFile, Live
    <3> QED
      BY <3>1, <3>2
  <2> QED
    BY <2>2, <2>3 DEF WritersInv, WritersKeepTheirFile
<1> QED
  BY <1>1, <1>2 DEF Probes, Refuses, ranged

\* The supervisor closes the descriptor of its own call, and only if no thread of it lives.
LEMMA JoinedKeeps == WritersInv /\ Joined => WritersInv'
<1> SUFFICES ASSUME WritersInv, Joined PROVE WritersInv'
  OBVIOUS
<1>1. thread' = thread
  BY DEF Joined
<1>2. CASE Live(call) = {}
  <2>1. fd' = [fd EXCEPT ![call] = "closed"]
    BY <1>2 DEF Joined, Closes
  <2>2. fd' \in [Calls -> {"none", "open", "closed"}]
    BY <2>1 DEF WritersInv
  <2>3. ASSUME NEW c \in Calls, Live(c)' # {} PROVE fd'[c] = "open"
    <3>1. Live(c) # {}
      BY <1>1, <2>3 DEF Live
    <3>2. c # call
      BY <3>1, <1>2
    <3> QED
      BY <3>1, <3>2, <2>1 DEF WritersInv, WritersKeepTheirFile
  <2> QED
    BY <1>1, <2>2, <2>3 DEF WritersInv, WritersKeepTheirFile
<1>3. CASE Live(call) # {}
  <2>1. fd' = fd
    BY <1>3 DEF Joined, Closes
  <2> QED
    BY <1>1, <2>1 DEF WritersInv, WritersKeepTheirFile, Live
<1> QED
  BY <1>2, <1>3

\* A death takes every thread with it.
LEMMA DiesKeeps == Dies => WritersInv'
<1> SUFFICES ASSUME Dies PROVE WritersInv'
  OBVIOUS
<1>1. thread' \in [Calls -> [Parts -> ThreadStates]] /\ fd' \in [Calls -> {"none", "open", "closed"}]
  BY DEF Dies, Each, ThreadStates
<1>2. \A c \in Calls : Live(c)' = {}
  BY DEF Dies, Each, Live
<1> QED
  BY <1>1, <1>2 DEF WritersInv, WritersKeepTheirFile

\* Every step keeps it; the ones not named above touch neither threads nor descriptors.
LEMMA WritersStep == WritersInv /\ [Next]_driver => WritersInv'
<1> SUFFICES ASSUME WritersInv, [Next]_driver PROVE WritersInv'
  OBVIOUS
<1>1. CASE UNCHANGED <<thread, fd>>
  BY <1>1 DEF WritersInv, WritersKeepTheirFile, Live
<1>2. CASE Asks \/ Looks \/ PicksVariant \/ Judges \/ Single \/ Hashes \/ Extracts \/ Clears
             \/ Renames \/ Returns \/ WallRunsOut
  <2>1. UNCHANGED <<thread, fd>>
    BY <1>2 DEF Asks, Looks, PicksVariant, Judges, Single, Hashes, Extracts, Clears, Renames,
                Returns, WallRunsOut, Refuses, ranged
  <2> QED
    BY <2>1, <1>1
<1>3. CASE Probes
  BY <1>3, ProbesKeep
<1>4. CASE Joined
  BY <1>4, JoinedKeeps
<1>5. CASE Dies
  BY <1>5, DiesKeeps
<1>6. CASE \E c \in Calls, p \in Parts : Worker(c, p)
  BY <1>6, WorkerKeeps
<1>7. CASE UNCHANGED driver
  BY <1>7, <1>1 DEF driver, ranged
<1> QED
  BY <1>2, <1>3, <1>4, <1>5, <1>6, <1>7 DEF Next, Steps

\* WritersKeepTheirFile, for every archive, number of calls and deaths: no
\* thread of a failed or abandoned download writes through a closed descriptor.
THEOREM WritersKeep == Spec => []WritersKeepTheirFile
<1>1. WritersInv => WritersKeepTheirFile
  BY DEF WritersInv
<1> QED
  BY WritersInit, WritersStep, <1>1, PTL DEF Spec

-----------------------------------------------------------------------------
(* The refinement. *)

Looking  == {"variant", "probe", "single", "watch", "join", "drop", "hash", "extract", "clear",
             "rename", "refuse"}
Checked  == {"extract", "clear", "rename"}

\* While a call works the directory does not verify; from the checksum on the
\* archive is the vendor's; the directory is out of the way at the rename and
\* whole after it.
DirInv ==
  /\ dir \in {"absent", "leftover", "whole"}
  /\ pc \in Looking \cup {"idle", "look", "clean"}
  /\ pc \in Looking => dir # "whole"
  /\ pc \in Checked => file = Each("good")
  /\ pc = "rename" => dir = "absent"
  /\ pc = "clean" => dir = "whole"

\* What an earlier process left verifies only if it is whole.
LEMMA DirInit == Init => DirInv
BY DEF Init, DirInv, Looking, Checked

\* Every step of the fetch is one of the promise, or none, and keeps DirInv.
LEMMA FetchStep ==
  ASSUME DirInv, [Next]_driver
  PROVE  DirInv' /\ [Promise!Next]_(Promise!directory)
<1> USE DEF Goes
<1>1. CASE Asks
  <2>1. DirInv'
    BY <1>1 DEF Asks, DirInv, Looking, Checked
  <2>2. Promise!Ask
    BY <1>1 DEF Asks, Promise!Ask
  <2> QED
    BY <2>1, <2>2 DEF Promise!Next
<1>2. CASE Looks
  <2>1. CASE Verified /\ Goes("idle") /\ answer' = "ok" /\ UNCHANGED dir /\ pc = "look"
    <3>1. dir = "whole"
      BY <2>1 DEF Verified, DirInv
    <3>2. DirInv'
      BY <2>1, <3>1 DEF DirInv, Looking, Checked
    <3>3. Promise!Answer
      BY <2>1, <3>1 DEF Promise!Answer
    <3> QED
      BY <3>2, <3>3 DEF Promise!Next
  <2>2. CASE ~Verified /\ pc' \in {"variant", "refuse"} /\ UNCHANGED <<answer, dir>> /\ pc = "look"
    <3>1. DirInv'
      BY <2>2 DEF Verified, DirInv, Looking, Checked
    <3>2. UNCHANGED Promise!directory
      BY <2>2 DEF Promise!directory
    <3> QED
      BY <3>1, <3>2
  <2> QED
    BY <1>2, <2>1, <2>2 DEF Looks
<1>3. CASE PicksVariant \/ Probes \/ Judges \/ Joined \/ Single \/ Hashes \/ Extracts
  <2>1. pc \in Looking /\ pc' \in Looking \ {"rename"} /\ UNCHANGED <<dir, answer>>
    BY <1>3 DEF PicksVariant, Probes, Judges, Joined, Single, Hashes, Extracts, Refuses, Looking
  <2>2. pc' \in Checked => file' = Each("good")
    BY <1>3 DEF PicksVariant, Probes, Judges, Joined, Single, Hashes, Extracts, Refuses, Checked,
                Matches, DirInv
  <2>3. DirInv'
    BY <2>1, <2>2 DEF DirInv, Looking
  <2>4. UNCHANGED Promise!directory
    BY <2>1 DEF Promise!directory, Looking
  <2> QED
    BY <2>3, <2>4
<1>4. CASE Clears
  <2>1. CASE dir # "absent" /\ dir' = "absent"
    <3>1. pc = "clear" /\ pc' = "rename" /\ dir = "leftover" /\ UNCHANGED <<answer, file>>
      BY <1>4, <2>1 DEF Clears, DirInv, Looking
    <3>2. DirInv'
      BY <2>1, <3>1 DEF DirInv, Looking, Checked
    <3>3. Promise!Clear
      BY <2>1, <3>1 DEF Promise!Clear
    <3> QED
      BY <3>2, <3>3 DEF Promise!Next
  <2>2. CASE dir' = dir
    <3>1. pc = "clear" /\ UNCHANGED <<answer, file>> /\ (pc' = "refuse" \/ (pc' = "rename" /\ dir = "absent"))
      BY <1>4, <2>2 DEF Clears
    <3>2. DirInv'
      BY <2>2, <3>1 DEF DirInv, Looking, Checked
    <3>3. UNCHANGED Promise!directory
      BY <2>2, <3>1 DEF Promise!directory
    <3> QED
      BY <3>2, <3>3
  <2> QED
    BY <1>4, <2>1, <2>2 DEF Clears
<1>5. CASE Renames
  <2>1. pc = "rename" /\ dir = "absent" /\ file = Each("good") /\ UNCHANGED answer
    BY <1>5 DEF Renames, DirInv, Checked
  <2>2. CASE dir' = "whole" /\ pc' = "clean"
    <3>1. DirInv'
      BY <2>1, <2>2 DEF DirInv, Looking, Checked
    <3>2. Promise!Publish
      BY <2>1, <2>2 DEF Promise!Publish
    <3> QED
      BY <3>1, <3>2 DEF Promise!Next
  <2>3. CASE dir' = dir /\ pc' = "refuse"
    <3>1. DirInv'
      BY <2>1, <2>3 DEF DirInv, Looking, Checked
    <3>2. UNCHANGED Promise!directory
      BY <2>1, <2>3 DEF Promise!directory
    <3> QED
      BY <3>1, <3>2
  <2> QED
    BY <1>5, <2>1, <2>2, <2>3 DEF Renames
<1>6. CASE Returns
  <2>1. pc \in {"refuse", "clean"} /\ pc' = "idle" /\ dir' = dir
        /\ answer' = IF pc = "clean" THEN "ok" ELSE "refused"
    BY <1>6 DEF Returns
  <2>2. DirInv'
    BY <2>1 DEF DirInv, Looking, Checked
  <2>3. (pc = "clean") <=> (dir = "whole")
    BY <2>1 DEF DirInv, Looking
  <2>4. Promise!Answer
    BY <2>1, <2>3 DEF Promise!Answer
  <2> QED
    BY <2>2, <2>4 DEF Promise!Next
<1>7. CASE Dies
  <2>1. DirInv'
    BY <1>7 DEF Dies, DirInv, Looking, Checked
  <2>2. Promise!Die
    BY <1>7 DEF Dies, Promise!Die
  <2> QED
    BY <2>1, <2>2 DEF Promise!Next
<1>8. CASE \E c \in Calls, p \in Parts : Worker(c, p)
  <2>1. UNCHANGED <<dir, pc, answer>> /\ (pc \in Checked => file' = file)
    BY <1>8 DEF Worker, Opens, Reads, Writes, Checked
  <2>2. DirInv'
    BY <2>1 DEF DirInv
  <2>3. UNCHANGED Promise!directory
    BY <2>1 DEF Promise!directory
  <2> QED
    BY <2>2, <2>3
<1>9. CASE WallRunsOut \/ UNCHANGED driver
  <2>1. UNCHANGED <<dir, pc, answer, file>>
    BY <1>9 DEF WallRunsOut, driver
  <2> QED
    BY <2>1 DEF DirInv, Promise!directory
<1> QED
  BY <1>1, <1>2, <1>3, <1>4, <1>5, <1>6, <1>7, <1>8, <1>9 DEF Next, Steps

\* The fetch implements what DriverDirectory promises, as far as safety goes:
\* it starts like the promise and every step maps to a step of it or to none
\* (fetch_driver_userspace: "nothing but a verified directory is left behind").
THEOREM FetchRefines == Spec => Promise!Init /\ [][Promise!Next]_(Promise!directory)
<1>1. Init => Promise!Init
  BY DEF Init, Promise!Init
<1>2. DirInv /\ [Next]_driver => DirInv' /\ [Promise!Next]_(Promise!directory)
  BY FetchStep
<1> QED
  BY DirInit, <1>1, <1>2, PTL DEF Spec
-----------------------------------------------------------------------------
(* The boots of one container (BootPreflight), as MCBoot explores them.     *)

Envs     == [icd : {"found", "egl", "userspace"}, files : {"found", "userspace"}, ld : BOOLEAN]
Versions == {"none", "1.3.0", "1.2.0"}

(* What the invariant reads has its type.                                   *)
BootTypes ==
  /\ bpc \in {"gone", "kinds", "report", "claim", "encode", "provide", "card", "decode", "default",
              "1.3.0", "1.2.0", "driver", "rank", "ready", "await", "serving"}
  /\ left \in {"nothing", "stopped", "kept", "died", "execd"}
  /\ env \in Envs /\ preset \in Envs /\ manifest \in Versions
  /\ proof \in [encoder : SUBSET Envs, vulkan : SUBSET [env : Envs, manifest : Versions]]
  /\ host \in [dry : BOOLEAN, badKinds : BOOLEAN] /\ asked \in BOOLEAN

(* The liveness mark and the planned mark say how the process before this   *)
(* one ended, until the post-mortem has read them; from then on this        *)
(* process's own mark stands as long as it runs.                            *)
MarksTell ==
  /\ bpc = "gone" =>
       /\ left = "execd" => planned
       /\ left \in {"nothing", "stopped"} => ~mark
       /\ left = "kept" => mark
       /\ left = "died" /\ claims => mark
  /\ bpc \in {"kinds", "report"} =>
       /\ planned <=> left = "execd"
       /\ left \in {"nothing", "stopped"} => ~mark
       /\ left = "kept" => mark
       /\ left = "died" /\ wrote => mark
       /\ ~claims
  /\ bpc = "claim" => ~claims /\ B!PostMortemIsTrue
  /\ bpc # "gone" => (claims => mark)

EncoderHas(e) == proof.encoder # {} /\ \A s \in proof.encoder : s.ld => e.ld

(* What the encoder was proved with is still in the loader's path; from     *)
(* the first Vulkan rank on, also in the environment the ladder falls back  *)
(* to. A green rank is the environment the process serves in.               *)
ProofStands ==
  /\ bpc \in {"card", "decode", "default", "1.3.0", "1.2.0", "driver", "rank"} => EncoderHas(env)
  /\ bpc \in {"default", "1.3.0", "1.2.0", "driver", "rank"} => EncoderHas(preset)
  /\ bpc \in {"ready", "await", "serving"} /\ ~host.dry =>
       proof.vulkan = {[env |-> env, manifest |-> manifest]} /\ EncoderHas(env)

(* Nothing names the kept directory, in this process's environment or in    *)
(* the one the ladder falls back to, before it is whole; and no call takes  *)
(* a whole one away.                                                        *)
NamedIsWhole ==
  /\ told = "ok" => given = "whole"
  /\ \A e \in {env, preset} : e.ld \/ e.icd = "userspace" => given = "whole"

BootInv == BootTypes /\ MarksTell /\ ProofStands /\ NamedIsWhole

(* A fresh container: nothing is marked and nothing is proved. *)
LEMMA BootInit == B!Init => BootInv
<1> SUFFICES ASSUME B!Init PROVE BootInv
  OBVIOUS
<1>1. BootTypes
  BY DEF B!Init, B!Fresh, B!Unproven, B!Lib!Init, BootTypes, Envs, Versions
<1>2. MarksTell /\ ProofStands
  BY DEF B!Init, MarksTell, ProofStands
<1>3. NamedIsWhole
  BY DEF B!Init, B!Fresh, B!Lib!Init, NamedIsWhole
<1> QED
  BY <1>1, <1>2, <1>3 DEF BootInv

(* How a process begins and ends: an exit that is meant clears the mark or  *)
(* finds that it cannot, a death leaves it, an exec leaves the planned mark *)
(* beside it.                                                               *)
LEMMA LifeKeeps ==
  ASSUME BootInv, B!Boots \/ B!Signalled \/ B!Dies \/ B!Execs \/ B!Refuses
  PROVE  BootInv'
<1>1. CASE B!Boots
  <2>1. /\ bpc = "gone" /\ bpc' = "kinds" /\ proof' = B!Unproven
        /\ IF left = "execd" THEN UNCHANGED <<env, planned>> ELSE env' = B!Fresh /\ planned' = FALSE
        /\ wrote' = claims /\ claims' = FALSE
        /\ UNCHANGED <<left, mark, preset, manifest, host, given, asked, told>>
    BY <1>1 DEF B!Boots, B!Goes, B!lib
  <2>BootTypes. BootTypes'
    <3>1. B!Fresh \in Envs
            /\ B!Unproven \in [encoder : SUBSET Envs, vulkan : SUBSET [env : Envs, manifest : Versions]]
      BY DEF B!Fresh, B!Unproven, Envs
    <3> QED
      BY <2>1, <3>1 DEF BootInv, BootTypes
  <2>MarksTell. MarksTell'
    BY <2>1 DEF B!Fresh, B!Unproven, BootInv, MarksTell
  <2>ProofStands. ProofStands'
    BY <2>1 DEF B!Fresh, B!Unproven, BootInv, ProofStands, EncoderHas
  <2>NamedIsWhole. NamedIsWhole'
    BY <2>1 DEF B!Fresh, B!Unproven, BootInv, NamedIsWhole, BootTypes
  <2> QED
    BY <2>BootTypes, <2>MarksTell, <2>ProofStands, <2>NamedIsWhole DEF BootInv
<1>2. ASSUME NEW how \in {"stopped", "kept", "died", "execd"}, B!Gone(how),
             \/ how = "stopped" /\ mark' = FALSE
             \/ how = "kept" /\ mark /\ mark' = mark
             \/ how = "died" /\ UNCHANGED <<mark, planned>> /\ bpc # "gone"
             \/ how = "execd" /\ planned' = TRUE
      PROVE  BootInv'
  <2>1. /\ bpc' = "gone" /\ left' = how /\ asked' = FALSE /\ told' = "none"
        /\ UNCHANGED <<given, wrote, claims, env, preset, manifest, proof, host>>
    BY <1>2 DEF B!Gone, B!Goes, B!Lib!Die, B!card, B!rest
  <2>BootTypes. BootTypes'
    BY <1>2, <2>1 DEF BootInv, BootTypes
  <2>MarksTell. MarksTell'
    BY <1>2, <2>1 DEF BootInv, MarksTell
  <2>ProofStands. ProofStands'
    BY <1>2, <2>1 DEF BootInv, ProofStands, EncoderHas
  <2>NamedIsWhole. NamedIsWhole'
    BY <1>2, <2>1 DEF BootInv, NamedIsWhole, BootTypes
  <2> QED
    BY <2>BootTypes, <2>MarksTell, <2>ProofStands, <2>NamedIsWhole DEF BootInv
<1> QED
  BY <1>1, <1>2 DEF B!Signalled, B!Dies, B!Execs, B!Refuses, B!Stopped

(* The kinds, the post-mortem, the mark. *)
LEMMA PastKeeps ==
  ASSUME BootInv, B!ReadsKinds \/ B!PostMortem \/ B!MarksAlive
  PROVE  BootInv'
<1>1. CASE B!ReadsKinds
  <2>1. CASE host.badKinds /\ B!Stopped
    BY <1>1, <2>1, LifeKeeps DEF B!ReadsKinds, B!Signalled
  <2>2. CASE B!Only("report") /\ UNCHANGED B!card
    BY <1>1, <2>2 DEF B!ReadsKinds, B!Only, B!Goes, B!past, B!card, B!rest, B!lib,
                      BootInv, BootTypes, MarksTell, ProofStands, EncoderHas, NamedIsWhole
  <2> QED
    BY <1>1, <2>1, <2>2 DEF B!ReadsKinds
<1>2. CASE B!PostMortem
  BY <1>2 DEF B!PostMortem, B!Goes, B!card, B!rest, B!lib, B!PostMortemIsTrue,
              BootInv, BootTypes, MarksTell, ProofStands, EncoderHas, NamedIsWhole
<1>3. CASE B!MarksAlive
  BY <1>3 DEF B!MarksAlive, B!Goes, B!card, B!rest, B!lib,
              BootInv, BootTypes, MarksTell, ProofStands, EncoderHas, NamedIsWhole
<1> QED
  BY <1>1, <1>2, <1>3

(* A call of the fetch never takes a whole directory away.                  *)
LEMMA FetchesKeep ==
  ASSUME BootInv, B!Fetches
  PROVE  BootInv'
BY DEF B!Fetches, B!Lib!Clear, B!Lib!Publish, B!Lib!Answer, B!past, B!card, B!rest, BootInv, BootTypes,
       MarksTell, ProofStands, EncoderHas, NamedIsWhole

(* A probe that is green is green in the environment the process goes on    *)
(* with; a losing rank puts back the one it found.                          *)
LEMMA ProbesKeepProof ==
  ASSUME BootInv, \/ B!Encodes \/ B!EncodesAgain \/ B!FindsRoom \/ B!Decodes \/ B!DefaultRank
                  \/ B!EglRank("1.3.0") \/ B!EglRank("1.2.0") \/ B!AsksDriver \/ B!DriverRank
  PROVE  BootInv'
<1> USE DEF B!Only, B!Goes, B!past, B!rest, B!card
<1>1. MarksTell'
  BY DEF B!Encodes, B!EncodesAgain, B!FindsRoom, B!Decodes, B!DefaultRank, B!EglRank, B!AsksDriver,
     B!DriverRank,
         BootInv, MarksTell
<1>2. CASE B!Encodes
  <2>BootTypes. BootTypes'
    <3>1. /\ UNCHANGED <<left, env, preset, manifest, host>> /\ bpc' \in {"card", "provide"}
          /\ asked' \in BOOLEAN
          /\ proof' = proof \/ proof' = [proof EXCEPT !.encoder = {env}]
      BY <1>2 DEF B!Encodes, B!Lib!Ask, B!lib, BootInv, BootTypes
    <3> QED
      BY <3>1 DEF BootInv, BootTypes
  <2>ProofStands. ProofStands'
    <3>1. \/ bpc' = "card" /\ env' = env /\ proof'.encoder = {env}
          \/ bpc' = "provide"
      BY <1>2 DEF B!Encodes, BootInv, BootTypes
    <3> QED
      BY <3>1 DEF ProofStands, EncoderHas
  <2>NamedIsWhole. NamedIsWhole'
    BY <1>2 DEF B!Encodes, B!Lib!Ask, B!lib, BootInv, NamedIsWhole, BootTypes
  <2> QED
    BY <2>BootTypes, <2>ProofStands, <2>NamedIsWhole, <1>1 DEF BootInv
<1>3. CASE B!EncodesAgain
  <2>BootTypes. BootTypes'
    <3>1. /\ UNCHANGED <<left, preset, manifest, host, asked>> /\ bpc' = "card"
          /\ env' = [env EXCEPT !.ld = TRUE]
          /\ proof' = [proof EXCEPT !.encoder = {env'}]
      BY <1>3 DEF B!EncodesAgain, B!lib
    <3>2. env' \in Envs
      BY <3>1 DEF BootInv, BootTypes, Envs
    <3> QED
      BY <3>1, <3>2 DEF BootInv, BootTypes
  <2>ProofStands. ProofStands'
    BY <1>3 DEF B!EncodesAgain, B!Provided, B!lib, BootInv, ProofStands, EncoderHas
  <2>NamedIsWhole. NamedIsWhole'
    BY <1>3 DEF B!EncodesAgain, B!Provided, B!lib, BootInv, NamedIsWhole, BootTypes
  <2> QED
    BY <2>BootTypes, <2>ProofStands, <2>NamedIsWhole, <1>1 DEF BootInv
<1>4. CASE B!FindsRoom \/ B!Decodes
  BY <1>1, <1>4 DEF B!FindsRoom, B!Decodes, B!lib, BootInv, BootTypes, ProofStands, EncoderHas, NamedIsWhole
<1>5. CASE B!DefaultRank
  BY <1>1, <1>5 DEF B!DefaultRank, B!Proves, B!lib, BootInv, BootTypes, ProofStands, EncoderHas, NamedIsWhole
<1>6. ASSUME NEW api \in {"1.3.0", "1.2.0"}, B!EglRank(api) PROVE BootInv'
  BY <1>1, <1>6
  DEF B!EglRank, B!Proves, B!lib, BootInv, BootTypes, Envs, Versions, ProofStands, EncoderHas, NamedIsWhole
<1>7. CASE B!AsksDriver
  BY <1>1, <1>7 DEF B!AsksDriver, B!Lib!Ask, BootInv, BootTypes, ProofStands, EncoderHas, NamedIsWhole
<1>8. CASE B!DriverRank
  <2>BootTypes. BootTypes'
    <3>1. /\ UNCHANGED <<left, preset, manifest, host, asked>> /\ bpc' = "ready" /\ env' = B!Userspace
          /\ proof' = [proof EXCEPT !.vulkan = {[env |-> B!Userspace, manifest |-> manifest]}]
      BY <1>8 DEF B!DriverRank, B!KeepsGreen, B!lib
    <3>2. B!Userspace \in Envs
      BY DEF B!Userspace, Envs
    <3> QED
      BY <3>1, <3>2 DEF BootInv, BootTypes
  <2>ProofStands. ProofStands'
    BY <1>8 DEF B!DriverRank, B!KeepsGreen, B!Userspace, B!Provided, B!lib, BootInv, ProofStands, EncoderHas
  <2>NamedIsWhole. NamedIsWhole'
    BY <1>8 DEF B!DriverRank, B!KeepsGreen, B!Userspace, B!Provided, B!lib, BootInv, NamedIsWhole, BootTypes
  <2> QED
    BY <2>BootTypes, <2>ProofStands, <2>NamedIsWhole, <1>1 DEF BootInv
<1> QED
  BY <1>2, <1>3, <1>4, <1>5, <1>6, <1>7, <1>8

(* The ready frame and the control plane's verdicts on it. *)
LEMMA FrameKeeps ==
  ASSUME BootInv, B!Announces \/ B!Awaits \/ B!Accepts \/ B!Settles
  PROVE  BootInv'
<1>1. CASE B!Awaits /\ B!Stopped
  BY <1>1, LifeKeeps DEF B!Awaits, B!Signalled
<1>2. CASE B!Announces \/ B!Accepts \/ B!Settles \/ (B!Awaits /\ ~B!Stopped)
  <2>1. /\ bpc' = bpc \/ (bpc = "ready" /\ bpc' = "await") \/ (bpc = "await" /\ bpc' = "serving")
        /\ UNCHANGED <<left, wrote, claims, mark, planned, report, env, preset, manifest, proof,
             host, given, asked, told>>
    BY <1>2 DEF B!Announces, B!Awaits, B!Accepts, B!Settles, B!Reannounce, B!Only, B!Goes, B!past,
       B!card, B!rest, B!lib
  <2> QED
    BY <2>1 DEF BootInv, BootTypes, MarksTell, B!PostMortemIsTrue, ProofStands, EncoderHas, NamedIsWhole
<1> QED
  BY <1>1, <1>2

(* A step of the boots, or of the fetch beside them.                        *)
LEMMA BootStep == BootInv /\ [MCNext]_<<part, boot, driver>> => BootInv'
<1> SUFFICES ASSUME BootInv, [MCNext]_<<part, boot, driver>> PROVE BootInv'
  OBVIOUS
<1>1. CASE B!Next
  BY <1>1, LifeKeeps, PastKeeps, FetchesKeep, ProbesKeepProof, FrameKeeps DEF B!Next, B!Steps
<1>2. CASE UNCHANGED boot
  BY <1>2 DEF boot, BootInv, BootTypes, MarksTell, B!PostMortemIsTrue, ProofStands, EncoderHas, NamedIsWhole
<1> QED
  BY <1>1, <1>2 DEF MCNext

(* However often the processes of a container are killed, stopped or        *)
(* replace themselves: the beacon tells how the last one ended, or that its *)
(* mark could not be cleared; a pod that announces itself serves in the     *)
(* environment it saw the card open in, and its loader's path never names a *)
(* directory that is not whole (_post_mortem, _mark_stopped,                *)
(* _vulkan_preflight, _provide_video_libs).                                 *)
THEOREM BootsAreHonest == MCSpec => []BootIsHonest
<1>1. MCInit => BootInv
  BY BootInit DEF MCInit
<1>2. BootInv => BootIsHonest
  BY DEF BootInv, BootTypes, MarksTell, ProofStands, EncoderHas, NamedIsWhole, BootIsHonest, B!BootIsHonest,
         B!PostMortemIsTrue, B!ServesWhatItProved, B!LoadsFromWhole
<1> QED
  BY <1>1, <1>2, BootStep, PTL DEF MCSpec
==============================================================================
