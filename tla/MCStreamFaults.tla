---------------------------- MODULE MCStreamFaults ----------------------------
(***************************************************************************)
(* One job under three kinds of trouble, in one run: the initial states    *)
(* differ in how much of each bound is already spent.                      *)
(***************************************************************************)
EXTENDS EventStream

CONSTANTS good, bad   \* a job that is decoded, and one that cannot be

TwoLives == <<12, 12>>

Made(goods, bads) == [j \in Jobs |-> IF j = good THEN goods ELSE bads]

MCInit ==
  \* Two incarnations, one attempt, one failed write at any point, an event.
  \/ FreshPod(1, 0, Made(MaxAttempt - 1, MaxAttempt),
              [trouble |-> MaxTrouble, refusals |-> MaxRefusals, events |-> 0])
  \* The control plane refuses once and hands the job out again; one failed write.
  \/ FreshPod(MaxStreams, 0, Made(0, MaxAttempt),
              [trouble |-> MaxTrouble, refusals |-> 0, events |-> MaxEvents])
  \* A frame that cannot be decoded, on the only socket left, with one failed
  \* write: a refusal and a loss, or two losses, timeouts or reopens in vain.
  \/ \E spent \in {[trouble |-> MaxTrouble - 1, refusals |-> 0, events |-> MaxEvents],
                   [trouble |-> 0, refusals |-> MaxRefusals, events |-> MaxEvents]} :
       FreshPod(MaxStreams, MaxConns - 1, Made(MaxAttempt, MaxAttempt - 1), spent)

MCSpec == MCInit /\ [][StreamNext]_vars
=============================================================================
