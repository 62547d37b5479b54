--------------------------- MODULE DriverDirectory ---------------------------
(***************************************************************************)
(* What fetch_driver_userspace (driver_userspace.py) promises the preflight*)
(* that calls it, whatever the vendor's host, the disk and the clock do:   *)
(* the kept directory of a driver version is published whole or not at     *)
(* all, a whole one is never touched again, an answer is yes exactly when  *)
(* the directory is whole, and every question is answered.                 *)
(***************************************************************************)

VARIABLES
  dir,    \* nvidia-<version>/: "absent", a "leftover" that verifies no more, or "whole"
  asked,  \* a call runs
  answer  \* what the last call returned: "none" yet, "ok" or "refused"

directory == <<dir, asked, answer>>

Init == dir \in {"absent", "leftover"} /\ asked = FALSE /\ answer = "none"

Ask == ~asked /\ asked' = TRUE /\ answer' = "none" /\ dir' = dir

\* The new tree goes where an unverified leftover stood.
Clear   == asked /\ dir = "leftover" /\ dir' = "absent" /\ UNCHANGED <<asked, answer>>
Publish == asked /\ dir = "absent" /\ dir' = "whole" /\ UNCHANGED <<asked, answer>>

Answer ==
  /\ asked /\ asked' = FALSE
  /\ answer' = IF dir = "whole" THEN "ok" ELSE "refused"
  /\ dir' = dir

\* The process that asked is gone; what it published stays.
Die == asked' = FALSE /\ answer' = "none" /\ dir' = dir

Next == Ask \/ Clear \/ Publish \/ Answer \/ Die

Spec == Init /\ [][Next]_directory /\ WF_directory(Answer)
=============================================================================
