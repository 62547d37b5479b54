-------------------------------- MODULE MCBoot --------------------------------
(***************************************************************************)
(* The driver-userspace fetch against its promise, and the boots of one    *)
(* container against what the fetch promises, each explored on its own in  *)
(* one run: a behaviour is one of the boots with the fetch asleep, or the  *)
(* other way round.                                                        *)
(***************************************************************************)
EXTENDS DriverUserspace

CONSTANT MaxBoots

VARIABLES part, bpc, left, wrote, claims, mark, planned, report, env, preset, manifest, proof,
          frame, host, boots, asked, given, told

boot == <<bpc, left, wrote, claims, mark, planned, report, env, preset, manifest, proof,
          frame, host, boots, asked, given, told>>

B == INSTANCE BootPreflight WITH pc <- bpc, dir <- given, answer <- told

ASSUME FetchAssumption == DriverAssumption
ASSUME BootsAssumption == B!BootAssumption

MCInit ==
  /\ Init /\ B!Init
  /\ \/ part = "boot" /\ dir = "absent"
     \/ part = "fetch" /\ given = "absent" /\ host = [dry |-> FALSE, badKinds |-> FALSE]

MCNext ==
  /\ UNCHANGED part
  /\ \/ part = "boot" /\ B!Next /\ UNCHANGED driver
     \/ part = "fetch" /\ Next /\ UNCHANGED boot

Booting == part = "boot"
MCSpec ==
  /\ MCInit /\ [][MCNext]_<<part, boot, driver>>
  /\ WF_boot(Booting /\ B!Steps) /\ SF_boot(Booting /\ B!Accepts)
  /\ WF_driver(Steps) /\ WF_driver(WallRunsOut)

\* What a process tells of its past and host, and the environment it serves
\* in, are true (BootPreflight).
BootIsHonest  == B!BootIsHonest
\* Every boot concludes (BootPreflight).
BootConcludes == B!BootConcludes
==============================================================================
