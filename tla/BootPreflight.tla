---------------------------- MODULE BootPreflight ----------------------------
(***************************************************************************)
(* The boots of the agent in one container (main.py, before the first      *)
(* claim): the post-mortem of the process before it, the capability probes *)
(* with the libraries the pod may have to fetch for them, and the ready    *)
(* frame that opens admission. A process may be killed or signalled at any *)
(* step; one that serves may replace itself by exec, which hands its       *)
(* environment on. The disk survives them all.                             *)
(*                                                                         *)
(* What a probe says is a choice. A call of the driver-userspace fetch is  *)
(* what DriverDirectory promises of it; DriverUserspace keeps the promise. *)
(***************************************************************************)
EXTENDS Naturals

CONSTANT MaxBoots   \* bound: processes in a behaviour

BootAssumption == MaxBoots \in Nat

VARIABLES
  pc,        \* where the process stands; "gone" between two
  left,      \* how the process before this one ended: "nothing", "stopped", "kept", "died" or "execd"
  wrote,     \* the process before this one wrote its liveness mark
  claims,    \* this one did
  mark,      \* /tmp/podagent.alive exists
  planned,   \* the environment carries the planned-restart mark
  report,    \* what the boot beacon says of the process before
  env,       \* VK_ICD_FILENAMES, VK_DRIVER_FILES, and the kept directory in LD_LIBRARY_PATH
  preset,    \* the environment as the ladder found it
  manifest,  \* api_version in the ICD manifest the pod writes for itself
  proof,     \* what the green probes of this process ran under
  frame,     \* the ready frame: "none", "pending", "accepted", "dead" or "rejected"
  host,      \* a contour-dry pod, and one whose infer kinds do not parse
  boots,     \* processes so far
  dir, asked, answer   \* the kept driver directory, and the call that provides it

Lib == INSTANCE DriverDirectory

past  == <<left, wrote, claims, mark, planned, report>>
card  == <<env, preset, manifest, proof>>
lib   == <<dir, asked, answer>>
rest  == <<host, boots>>
boot  == <<pc, past, card, frame, rest, lib>>

Fresh    == [icd |-> "found", files |-> "found", ld |-> FALSE]
Unproven == [encoder |-> {}, vulkan |-> {}]
Goes(where) == pc' = where
Only(where) == Goes(where) /\ UNCHANGED <<past, frame, rest, lib>>

Init ==
  /\ pc = "gone" /\ left = "nothing" /\ wrote = FALSE /\ claims = FALSE /\ mark = FALSE
  /\ planned = FALSE /\ report = "none" /\ env = Fresh /\ preset = Fresh /\ manifest = "none"
  /\ proof = Unproven /\ frame = "none" /\ boots = 0
  /\ host \in [dry : BOOLEAN, badKinds : BOOLEAN] /\ Lib!Init

-----------------------------------------------------------------------------
(* How a process begins and ends. *)

Boots ==
  /\ pc = "gone" /\ boots < MaxBoots /\ boots' = boots + 1
  /\ Goes("kinds") /\ proof' = Unproven /\ frame' = "none"
  /\ IF left = "execd" THEN UNCHANGED <<env, planned>> ELSE env' = Fresh /\ planned' = FALSE
  /\ wrote' = claims /\ claims' = FALSE
  /\ UNCHANGED <<left, mark, report, preset, manifest, host, lib>>

Gone(how) == Goes("gone") /\ left' = how /\ Lib!Die /\ UNCHANGED <<wrote, claims, report, card, frame, rest>>

StopsOnly == Gone("stopped") /\ UNCHANGED <<mark, planned>>          \* mutant: an exit that leaves the mark
\* A refusal, a signal that is handled, an exit that is meant: _mark_stopped. A
\* disk that refuses to clear the mark keeps it, and the log says what comes of it.
Stopped ==
  /\ planned' = planned
  /\ \/ Gone("stopped") /\ mark' = FALSE
     \/ mark /\ Gone("kept") /\ mark' = mark

Signalled == pc # "gone" /\ Stopped
Dies      == pc # "gone" /\ Gone("died") /\ UNCHANGED <<mark, planned>>    \* and a failed exec: os._exit(1)

\* _drain_and_restart: marked in the environment, the mark on disk left standing.
Execs == pc = "serving" /\ Gone("execd") /\ planned' = TRUE /\ mark' = mark

-----------------------------------------------------------------------------
(* _served_kinds_or_refuse, then _report_boot. *)

ReadsKinds ==
  /\ pc = "kinds"
  /\ \/ host.badKinds /\ Stopped
     \/ ~host.badKinds /\ Only("report") /\ UNCHANGED card

\* The planned mark is read, then cleared: no later process sees a stale one.
PostMortem ==
  /\ pc = "report" /\ Goes("claim") /\ planned' = FALSE
  /\ report' = IF planned THEN "PLANNED" ELSE IF mark THEN "UNCLEAN" ELSE "none"
  /\ UNCHANGED <<left, wrote, claims, mark, card, frame, rest, lib>>

\* The mark is best effort: a disk that refuses it costs the next post-mortem its evidence.
MarksAlive ==
  /\ pc = "claim" /\ Goes(IF host.dry THEN "ready" ELSE "encode")
  /\ \/ claims' = TRUE /\ mark' = TRUE
     \/ UNCHANGED <<claims, mark>>
  /\ UNCHANGED <<left, wrote, planned, report, card, frame, rest, lib>>

-----------------------------------------------------------------------------
(* The probes. Each of them may refuse the pod. *)

Refuses ==
  /\ pc \in {"encode", "card", "decode", "driver", "provide", "rank"} /\ ~asked
  /\ Stopped

\* _nvenc_or_refuse: it opens, or the host injected no libnvidia-encode and the pod fetches it.
Encodes ==
  /\ pc = "encode"
  /\ \/ Only("card") /\ proof' = [proof EXCEPT !.encoder = {env}] /\ UNCHANGED <<env, preset, manifest>>
     \/ Goes("provide") /\ Lib!Ask /\ UNCHANGED <<past, card, frame, rest>>

\* The call of the fetch, step by step.
Fetches ==
  /\ pc \in {"provide", "rank"}
  /\ Lib!Clear \/ Lib!Publish \/ Lib!Answer
  /\ UNCHANGED <<pc, past, card, frame, rest>>

Provided == ~asked /\ answer = "ok"

\* _provide_video_libs: the same probe once more, and the directory stays in the path if it opens.
EncodesAgain ==
  /\ pc = "provide" /\ Provided
  /\ env' = [env EXCEPT !.ld = TRUE] /\ proof' = [proof EXCEPT !.encoder = {env'}]
  /\ Only("card") /\ UNCHANGED <<preset, manifest>>

\* _free_vram_or_refuse and _nvdec_or_refuse; a card that cannot be read is not refused.
FindsRoom == pc = "card" /\ Only("decode") /\ UNCHANGED card
Decodes   == pc = "decode" /\ Only("default") /\ preset' = env /\ UNCHANGED <<env, manifest, proof>>

-----------------------------------------------------------------------------
(* _vulkan_preflight: the first green rank wins, a losing one leaves the   *)
(* environment as it was found.                                            *)

Proves == proof' = [proof EXCEPT !.vulkan = {[env |-> env', manifest |-> manifest']}]

DefaultRank ==
  /\ pc = "default" /\ UNCHANGED <<env, preset, manifest>>
  /\ \/ Only("ready") /\ Proves
     \/ Only("1.3.0") /\ proof' = proof
     \/ Only("driver") /\ proof' = proof                  \* no libEGL_nvidia to write a manifest for

\* Our own manifest; a lower api_version is claimed on INCOMPATIBLE_DRIVER only.
EglRank(api) ==
  /\ pc = api
  /\ \/ Only("driver") /\ env' = preset /\ UNCHANGED <<manifest, proof>>   \* cannot be written
     \/ /\ manifest' = api
        /\ \/ Only("ready") /\ env' = [env EXCEPT !.icd = "egl"] /\ Proves
           \/ api = "1.3.0" /\ Only("1.2.0") /\ env' = [env EXCEPT !.icd = "egl"] /\ proof' = proof
           \/ Only("driver") /\ env' = preset /\ proof' = proof
  /\ UNCHANGED preset

\* _driver_userspace_rank, if every GPU names one driver version.
AsksDriver == pc = "driver" /\ Goes("rank") /\ Lib!Ask /\ UNCHANGED <<past, card, frame, rest>>

Userspace  == [icd |-> "userspace", files |-> "userspace", ld |-> TRUE]
KeepsGreen == env' = Userspace

DriverRank ==
  /\ pc = "rank" /\ Provided
  /\ proof' = [proof EXCEPT !.vulkan = {[env |-> Userspace, manifest |-> manifest]}]
  /\ KeepsGreen /\ Only("ready") /\ UNCHANGED <<preset, manifest>>

-----------------------------------------------------------------------------
(* _report_ready, and the control plane's verdicts on the frame. *)

Announces == pc = "ready" /\ Goes("await") /\ frame' = "pending" /\ UNCHANGED <<past, card, rest, lib>>

WaitsOn    == frame' = frame /\ pc' = pc                    \* mutant: a dead letter is waited for
Reannounce == frame' = "pending" /\ pc' = pc

Awaits ==
  /\ pc = "await" /\ frame # "pending"
  /\ \/ frame = "accepted" /\ Only("serving") /\ UNCHANGED card
     \/ frame = "dead" /\ Reannounce /\ UNCHANGED <<past, card, rest, lib>>
     \/ frame = "rejected" /\ Stopped                       \* an identity that will never validate

Accepts == frame = "pending" /\ frame' = "accepted" /\ UNCHANGED <<pc, past, card, rest, lib>>
Settles == frame = "pending" /\ frame' \in {"dead", "rejected"} /\ UNCHANGED <<pc, past, card, rest, lib>>

Steps ==
  \/ ReadsKinds \/ PostMortem \/ MarksAlive \/ Refuses \/ Encodes \/ Fetches \/ EncodesAgain
  \/ FindsRoom \/ Decodes \/ DefaultRank \/ EglRank("1.3.0") \/ EglRank("1.2.0")
  \/ AsksDriver \/ DriverRank \/ Announces \/ Awaits

Next == Boots \/ Signalled \/ Dies \/ Execs \/ Steps \/ Accepts \/ Settles
Spec == Init /\ [][Next]_boot /\ WF_boot(Steps) /\ SF_boot(Accepts)

-----------------------------------------------------------------------------
(* What must hold. *)

\* The beacon calls the process before a planned restart exactly when it
\* replaced itself. It calls it a death only when it died, or when it stopped
\* and could not clear the mark, and then always ("the next boot will read this
\* clean stop as a crash"); and it never misses the death of one whose liveness
\* mark was written (_post_mortem, _mark_stopped).
PostMortemIsTrue ==
  pc = "claim" =>
    /\ report = "PLANNED" <=> left = "execd"
    /\ report = "UNCLEAN" => left \in {"died", "kept"}
    /\ left = "kept" => report = "UNCLEAN"
    /\ left = "died" /\ wrote => report = "UNCLEAN"

\* A pod that has a card and announces itself runs its work in the very
\* environment, and against the manifest, in which this process saw Vulkan
\* open, and never without the libraries its encoder opened with
\* (_vulkan_preflight, _provide_video_libs).
ServesWhatItProved ==
  pc \in {"await", "serving"} /\ ~host.dry =>
    /\ proof.vulkan = {[env |-> env, manifest |-> manifest]}
    /\ proof.encoder # {} /\ \A e \in proof.encoder : e.ld => env.ld

\* Nothing tears down the driver directory from under a process whose loader
\* path names it, the second fetch of the same boot included.
LoadsFromWhole == pc # "gone" /\ (env.ld \/ env.icd = "userspace") => dir = "whole"

\* What the process tells of its past and of its host is true, and it does not
\* pull from under itself what it told.
BootIsHonest == PostMortemIsTrue /\ ServesWhatItProved /\ LoadsFromWhole

\* Every boot ends, in a process that serves or in one that has left: no
\* refusal, dead-lettered ready frame or fetch leaves it waiting for ever, if
\* the control plane takes a frame that is offered to it often enough.
BootConcludes == pc # "gone" ~> pc \in {"serving", "gone"}
=============================================================================
