---------------------------- MODULE StreamState ----------------------------
(***************************************************************************)
(* The durable half of podagent's EventStream (event_stream.py): the       *)
(* ordered outbox, the dead-letter, the job inbox, the one JSON file they  *)
(* are persisted to, and the admission latches. Every action is one hold   *)
(* of the `_state` lock, every write of the file may fail, and the process *)
(* may be replaced at any time. Who calls these operations, and in what    *)
(* order, is left open here: EventStream.tla composes them with the sender *)
(* thread, the reader, the intake, the claimer and the control plane.      *)
(***************************************************************************)
EXTENDS Naturals, Sequences, FiniteSets

CONSTANTS
  Jobs,          \* correlation ids; a job's delivery_id equals its corr_id
  NoJob,         \* the corr_id of a frame that names no job
  MaxAttempt,    \* bound: claim attempts the control plane makes per job
  MaxStreams,    \* bound: process incarnations, one fresh stream_id each
  MaxSeq,        \* bound, per incarnation: frames it creates
  MaxFaults      \* bound: writes of the state file that fail

ASSUME JobsAssumption   == NoJob \notin Jobs /\ IsFiniteSet(Jobs)
ASSUME BoundsAssumption ==
  /\ {MaxAttempt, MaxFaults} \subseteq Nat /\ MaxStreams \in Nat \ {0}
  /\ MaxSeq \in [1..MaxStreams -> Nat]

VARIABLES
  outbox,        \* _outbox: frames owed to the control plane, in order
  rejected,      \* _rejected: the dead-letter, as the set of its frames
  inbox,         \* _inbox/_delivery_meta: the attempt held per job, 0 for none
  disk,          \* the state file
  stream,        \* _stream_id of this incarnation
  nextSeq,       \* _next_seq
  adm,           \* the four admission latches, see Admission below
  jobsQ,         \* _jobs: delivery ids waiting to be claimed
  claimed,       \* _claimed_ids
  running,       \* how many executions of each job this process has under way
  bootstrap,     \* _bootstrap_event is set
  pendingBoot,   \* seq in _pending_bootstrap_key, 0 for None
  pendingReopen, \* seq in _pending_reopen_key, 0 for None
  faults,        \* failed writes so far
  owed           \* history: frames made durable and not acknowledged

fileVars  == <<outbox, rejected, inbox, disk>>
headVars  == <<bootstrap, pendingBoot, pendingReopen>>
workVars  == <<jobsQ, claimed, running>>
stateVars == <<outbox, rejected, inbox, disk, stream, nextSeq, adm, jobsQ,
               claimed, running, bootstrap, pendingBoot, pendingReopen,
               faults, owed>>

-----------------------------------------------------------------------------
(* Frames and the state file *)

BootKinds  == {"ready", "reopen"}
FrameKinds == {"event", "result", "job_ack"} \cup BootKinds

FrameType == [stream : Nat, seq : Nat, kind : FrameKinds,
              corr : Jobs \cup {NoJob}, attempt : 0..MaxAttempt]
FileType  == [outbox : Seq(FrameType), rejected : SUBSET FrameType,
              inbox : [Jobs -> 0..MaxAttempt]]

Key(f)      == <<f.stream, f.seq>>
IsBoot(f)   == f.kind \in BootKinds
Elems(s)    == {s[i] : i \in DOMAIN s}
NewFrame(kind, corr, attempt, seq) ==
  [stream |-> stream, seq |-> seq, kind |-> kind, corr |-> corr, attempt |-> attempt]

Mem == [outbox |-> outbox, rejected |-> rejected, inbox |-> inbox]

ResultCorrs(d) == {f.corr : f \in {g \in Elems(d.outbox) \cup d.rejected : g.kind = "result"}}

(* What `_load` accepts at the next boot; anything else refuses to start. *)
UniqueKeys(s) == \A i, k \in DOMAIN s : Key(s[i]) = Key(s[k]) => i = k
Loadable(d) ==
  /\ UniqueKeys(d.outbox)
  /\ \A j \in ResultCorrs(d) \cap Jobs : d.inbox[j] = 0

-----------------------------------------------------------------------------
(* Admission: err is _admission_error, storage is _storage_error, from is  *)
(* _admission_from_storage, before is _admission_before_storage.           *)

Errors    == {"none", "pending", "verdict", "protocol", "storage"}
Permanent == {"verdict", "protocol"}
Admission == [err : Errors, storage : BOOLEAN, from : BOOLEAN, before : Errors]
Open      == [err |-> "none", storage |-> FALSE, from |-> FALSE, before |-> "none"]

Latch(a, e, storage) ==
  LET replaces == a.err = "none" \/ e # "pending"
  IN [err     |-> IF replaces THEN e ELSE a.err,
      storage |-> a.storage \/ storage,
      from    |-> IF replaces THEN storage ELSE a.from,
      before  |-> IF replaces /\ storage /\ ~a.from THEN a.err ELSE a.before]

(* Mutant of Recovered: a write that succeeds clears whatever was latched. *)
RecoversOpen(a, box) == IF a.storage THEN Open ELSE a

(* A write that succeeds is the storage latch's recovery point. *)
Recovered(a, box) ==
  IF ~a.storage THEN a
  ELSE IF ~a.from THEN [a EXCEPT !.storage = FALSE]
  ELSE [Open EXCEPT !.err = IF a.before = "pending" /\ box = <<>> THEN "none" ELSE a.before]

ClearPending(a, box) ==
  IF a.err = "pending" /\ box = <<>> /\ ~a.storage THEN [a EXCEPT !.err = "none"] ELSE a

-----------------------------------------------------------------------------
(* _persist_locked: the file takes the new value, or the write fails. A    *)
(* write that fails raises after the rename too (the directory fsync), so  *)
(* the file is then either value while memory is rolled back.              *)

Persist(d) ==
  /\ outbox' = d.outbox /\ rejected' = d.rejected /\ inbox' = d.inbox
  /\ disk' = d

PersistFails(d, onDisk) ==
  /\ faults < MaxFaults
  /\ faults' = faults + 1
  /\ disk' \in {onDisk, d}

(* `_append` first rewrites the current state when the storage latch is set. *)
ProbedDisk == IF adm.storage THEN Mem ELSE disk
ProbedAdm  == IF adm.storage THEN Recovered(adm, outbox) ELSE adm

(* Mutants of WithFrame: a result leaves its delivery held; a frame jumps the queue. *)
KeepsDelivery(d, f) == [d EXCEPT !.outbox = Append(d.outbox, f)]
JumpsQueue(d, f) ==
  [d EXCEPT !.outbox = <<f>> \o d.outbox,
            !.inbox = IF f.kind = "result" THEN [d.inbox EXCEPT ![f.corr] = 0] ELSE d.inbox]

WithFrame(d, f) ==
  [d EXCEPT !.outbox = Append(d.outbox, f),
            !.inbox = IF f.kind = "result" THEN [d.inbox EXCEPT ![f.corr] = 0] ELSE d.inbox]

Appended(kind, corr, attempt) ==
  LET f == NewFrame(kind, corr, attempt, nextSeq)
  IN /\ nextSeq <= MaxSeq[stream]
     /\ Persist(WithFrame(Mem, f))
     /\ nextSeq' = nextSeq + 1
     /\ adm' = ProbedAdm
     /\ owed' = owed \cup {f}
     /\ claimed' = IF kind = "result" THEN claimed \ {corr} ELSE claimed
     /\ UNCHANGED <<stream, jobsQ, headVars, faults>>

(* Mutant of AppendFails: the frame whose write failed is not popped again. *)
KeepsFailedFrame(kind, corr, attempt) ==
  LET d == WithFrame(Mem, NewFrame(kind, corr, attempt, nextSeq))
  IN /\ nextSeq <= MaxSeq[stream] /\ ~adm.storage
     /\ PersistFails(d, disk)
     /\ outbox' = d.outbox
     /\ adm' = Latch(adm, "storage", TRUE)
     /\ UNCHANGED <<rejected, inbox, stream, nextSeq, jobsQ, claimed, headVars, owed>>

(* The probe fails, or the frame's own write does: nothing stays appended. *)
AppendFails(kind, corr, attempt) ==
  /\ nextSeq <= MaxSeq[stream]
  /\ \/ /\ adm.storage
        /\ PersistFails(Mem, disk)
        /\ UNCHANGED adm
     \/ /\ PersistFails(WithFrame(Mem, NewFrame(kind, corr, attempt, nextSeq)), ProbedDisk)
        /\ adm' = Latch(ProbedAdm, "storage", TRUE)
  /\ UNCHANGED <<outbox, rejected, inbox, stream, nextSeq, jobsQ, claimed, headVars, owed>>

(* Refused alone, without a latch: a second result of one corr, or a result *)
(* whose attempt_id is gone with the delivery it belonged to.               *)
ResultRefused(j) ==
  /\ j \in ResultCorrs(Mem) \/ inbox[j] = 0
  /\ adm' = ProbedAdm /\ disk' = ProbedDisk
  /\ UNCHANGED <<outbox, rejected, inbox, stream, nextSeq, jobsQ, claimed, headVars, faults, owed>>

(* _append_bootstrap_head, with the key its callers store once it returns. *)
WithHead(f) == [Mem EXCEPT !.outbox = <<f>> \o outbox]

HeadAppended(kind) ==
  LET f == NewFrame(kind, NoJob, 0, nextSeq)
  IN /\ nextSeq <= MaxSeq[stream]
     /\ Persist(WithHead(f))
     /\ nextSeq' = nextSeq + 1
     /\ adm' = Recovered(adm, WithHead(f).outbox)
     /\ pendingBoot' = IF kind = "ready" THEN nextSeq ELSE pendingBoot
     /\ pendingReopen' = IF kind = "reopen" THEN nextSeq ELSE pendingReopen
     /\ UNCHANGED <<stream, workVars, faults, owed>>

HeadAppendFails(kind) ==
  /\ nextSeq <= MaxSeq[stream]
  /\ PersistFails(WithHead(NewFrame(kind, NoJob, 0, nextSeq)), disk)
  /\ adm' = Latch(adm, "storage", TRUE)
  /\ UNCHANGED <<outbox, rejected, inbox, stream, nextSeq, workVars,
                 pendingBoot, pendingReopen, owed>>

-----------------------------------------------------------------------------
(* main.py's worker threads and its readiness report *)

WorkerEvent(j) ==
  /\ running[j] > 0
  /\ Appended("event", j, 0)
  /\ UNCHANGED running

WorkerResult(j) ==
  /\ running[j] > 0
  /\ inbox[j] # 0 /\ j \notin ResultCorrs(Mem)
  /\ Appended("result", j, inbox[j])
  /\ running' = [running EXCEPT ![j] = @ - 1]

(* Mutant of WorkerAborts: a job that is not running ends. *)
AbortsIdle(j) == ResultRefused(j) /\ running' = [running EXCEPT ![j] = @ - 1]

(* A worker whose append raises ends without a terminal of its own. *)
WorkerAborts(j) ==
  /\ running[j] > 0
  /\ \/ AppendFails("event", j, 0)
     \/ inbox[j] # 0 /\ j \notin ResultCorrs(Mem) /\ AppendFails("result", j, inbox[j])
     \/ ResultRefused(j)
  /\ running' = [running EXCEPT ![j] = @ - 1]

AnnounceReady ==
  /\ bootstrap' = TRUE
  /\ HeadAppended("ready")

AnnounceReadyFails ==
  /\ bootstrap' = TRUE
  /\ HeadAppendFails("ready")

-----------------------------------------------------------------------------
(* _accept_job: one lock hold makes the job durable, then its receipt. A    *)
(* replay rewrites the delivery it already holds; a job whose result is     *)
(* still held is only receipted again.                                      *)

Deduplicated(j, a) == j \in ResultCorrs(Mem) /\ Appended("job_ack", j, a) /\ UNCHANGED running

Acceptable(j, a) ==
  /\ j \notin ResultCorrs(Mem)
  /\ \/ inbox[j] = a
     \/ inbox[j] = 0 /\ adm.err \in {"none", "pending"}

WithJob(j, a) == [Mem EXCEPT !.inbox = [inbox EXCEPT ![j] = a]]
Queued(j)     == IF inbox[j] = 0 THEN Append(jobsQ, j) ELSE jobsQ

(* Mutant of JobAccepted: the job is queued without a receipt. *)
AcceptsUnreceipted(j, a) ==
  /\ Acceptable(j, a)
  /\ Persist(WithJob(j, a))
  /\ adm' = Recovered(adm, outbox)
  /\ jobsQ' = Queued(j)
  /\ UNCHANGED <<stream, nextSeq, claimed, running, headVars, faults, owed>>

JobAccepted(j, a) ==
  LET f == NewFrame("job_ack", j, a, nextSeq)
  IN /\ Acceptable(j, a)
     /\ nextSeq <= MaxSeq[stream]
     /\ Persist(WithFrame(WithJob(j, a), f))
     /\ nextSeq' = nextSeq + 1
     /\ adm' = Recovered(adm, outbox)
     /\ owed' = owed \cup {f}
     /\ jobsQ' = Queued(j)
     /\ UNCHANGED <<stream, claimed, running, headVars, faults>>

JobNotSaved(j, a) ==
  /\ Acceptable(j, a)
  /\ PersistFails(WithJob(j, a), disk)
  /\ adm' = Latch(adm, "storage", TRUE)
  /\ UNCHANGED <<outbox, rejected, inbox, stream, nextSeq, workVars, headVars, owed>>

(* The job is saved, its receipt is not: it stays claimable all the same. *)
ReceiptNotSaved(j, a) ==
  /\ nextSeq <= MaxSeq[stream]
  /\ \/ /\ Acceptable(j, a)
        /\ PersistFails(WithFrame(WithJob(j, a), NewFrame("job_ack", j, a, nextSeq)), WithJob(j, a))
        /\ inbox' = WithJob(j, a).inbox
        /\ adm' = Latch(Recovered(adm, outbox), "storage", TRUE)
        /\ jobsQ' = Queued(j)
        /\ UNCHANGED <<outbox, rejected, stream, nextSeq, claimed, headVars, owed>>
     \/ j \in ResultCorrs(Mem) /\ AppendFails("job_ack", j, a)
  /\ UNCHANGED running

(* The same delivery id under another attempt_id, or other content. *)
JobConflicts(j, a) ==
  /\ j \notin ResultCorrs(Mem) /\ inbox[j] \notin {0, a}
  /\ adm' = Latch(adm, "protocol", FALSE)
  /\ UNCHANGED <<outbox, rejected, inbox, disk, stream, nextSeq, workVars, headVars, faults, owed>>

(* The steps of _reject_invalid_job, each an append of its own. *)
InvalidEvent(j)     == Appended("event", j, 0) /\ UNCHANGED running
InvalidReceipt(j,a) == Appended("job_ack", j, a) /\ UNCHANGED running
InvalidResult(j, a) ==
  /\ j \notin ResultCorrs(Mem)
  /\ Appended("result", j, a)
  /\ UNCHANGED running

(* An emit that raises: _accept_job then latches the frame as unanswerable. *)
InvalidUnanswered(kind, j, a) ==
  LET f == NewFrame(kind, j, IF kind = "event" THEN 0 ELSE a, nextSeq)
  IN /\ \/ /\ nextSeq <= MaxSeq[stream] /\ adm.storage
           /\ PersistFails(Mem, disk)
           /\ adm' = Latch(adm, "protocol", FALSE)
        \/ /\ nextSeq <= MaxSeq[stream]
           /\ kind = "result" => j \notin ResultCorrs(Mem)
           /\ PersistFails(WithFrame(Mem, f), ProbedDisk)
           /\ adm' = Latch(Latch(ProbedAdm, "storage", TRUE), "protocol", FALSE)
        \/ /\ kind = "result" /\ j \in ResultCorrs(Mem)
           /\ disk' = ProbedDisk
           /\ adm' = Latch(ProbedAdm, "protocol", FALSE)
           /\ UNCHANGED faults
     /\ UNCHANGED <<outbox, rejected, inbox, stream, nextSeq, workVars, headVars, owed>>

-----------------------------------------------------------------------------
(* _settle: one verdict of the sender on one frame. "reassigned" is the     *)
(* one_frame verdict whose text says the corr has another owner. A frame    *)
(* that is no longer the head is judged without leaving the outbox.         *)

Refusals     == {"rejected", "abandoned", "one_frame", "reassigned"}
Dispositions == Refusals \cup {"accepted", "pending"}

IsReport(f)  == f.kind = "reopen"
AtHead(f)    == outbox # <<>> /\ Key(Head(outbox)) = Key(f)
Leaves(f, disp) == AtHead(f) /\ (disp # "pending" \/ IsReport(f))

Acked(f, disp) == IF disp = "accepted" /\ f.kind = "result"
                  THEN <<NewFrame("event", f.corr, 0, nextSeq)>> ELSE <<>>

(* Mutant of WithoutHead: a refused frame is not dead-lettered. *)
ForgetsRefused(f, disp) ==
  [outbox |-> Tail(outbox) \o Acked(f, disp), rejected |-> rejected, inbox |-> inbox]

WithoutHead(f, disp) ==
  [outbox   |-> Tail(outbox) \o Acked(f, disp),
   rejected |-> IF disp \in Refusals /\ ~IsReport(f) THEN rejected \cup {f} ELSE rejected,
   inbox    |-> inbox]

(* Mutant of Releases: a claimed job is released as well. *)
ReleasesClaimed(f, disp) == disp = "reassigned" /\ f.kind = "job_ack" /\ inbox[f.corr] # 0

(* _release_reassigned_job_locked *)
Releases(f, disp) ==
  /\ disp = "reassigned" /\ f.kind = "job_ack"
  /\ inbox[f.corr] # 0 /\ f.corr \notin claimed

Verdict(a, f, disp, box) ==
  CASE disp # "accepted" /\ IsReport(f) -> a
    [] disp = "pending"  /\ ~IsReport(f) -> Latch(a, "pending", FALSE)
    [] disp = "rejected" /\ ~IsReport(f) -> Latch(a, "verdict", FALSE)
    [] OTHER -> ClearPending(a, box)

ForgetsHead(f) ==
  /\ pendingBoot'   = IF Key(f) = <<stream, pendingBoot>> THEN 0 ELSE pendingBoot
  /\ pendingReopen' = IF Key(f) = <<stream, pendingReopen>> THEN 0 ELSE pendingReopen

Settled(f, disp) ==
  LET leaves == Leaves(f, disp)
      d1     == IF leaves THEN WithoutHead(f, disp) ELSE Mem
      d2     == IF Releases(f, disp) THEN [d1 EXCEPT !.inbox = [inbox EXCEPT ![f.corr] = 0]] ELSE d1
      wrote  == leaves \/ Releases(f, disp)
      acked  == IF leaves THEN Elems(Acked(f, disp)) ELSE {}
  IN /\ nextSeq + Cardinality(acked) <= MaxSeq[stream] + 1
     /\ outbox' = d2.outbox /\ rejected' = d2.rejected /\ inbox' = d2.inbox
     /\ disk' = IF wrote THEN d2 ELSE disk
     /\ adm' = Verdict(IF wrote THEN Recovered(adm, d1.outbox) ELSE adm, f, disp, d1.outbox)
     /\ nextSeq' = nextSeq + Cardinality(acked)
     /\ owed' = (IF disp = "accepted" THEN owed \ {f} ELSE owed) \cup acked
     /\ ForgetsHead(f)
     /\ UNCHANGED <<stream, workVars, bootstrap, faults>>

(* The head's own write fails; the sender's handler latches storage. *)
SettleFails(f, disp) ==
  /\ Leaves(f, disp)
  /\ nextSeq <= MaxSeq[stream]
  /\ PersistFails(WithoutHead(f, disp), disk)
  /\ adm' = Latch(adm, "storage", TRUE)
  /\ owed' = IF disp = "accepted" THEN owed \ {f} ELSE owed
  /\ ForgetsHead(f)
  /\ UNCHANGED <<outbox, rejected, inbox, stream, nextSeq, workVars, bootstrap>>

(* The release's own write fails: only logged, memory and file now differ. *)
ReleaseNotSaved(f, disp) ==
  LET leaves == Leaves(f, disp)
      d1     == IF leaves THEN WithoutHead(f, disp) ELSE Mem
      d2     == [d1 EXCEPT !.inbox = [inbox EXCEPT ![f.corr] = 0]]
  IN /\ Releases(f, disp)
     /\ outbox' = d2.outbox /\ rejected' = d2.rejected /\ inbox' = d2.inbox
     /\ PersistFails(d2, IF leaves THEN d1 ELSE disk)
     /\ adm' = ClearPending(IF leaves THEN Recovered(adm, d1.outbox) ELSE adm, d1.outbox)
     /\ ForgetsHead(f)
     /\ UNCHANGED <<stream, nextSeq, workVars, bootstrap, owed>>

-----------------------------------------------------------------------------
(* Latches set outside a write, the claim queue, and the next incarnation  *)

(* _ensure_open: a socket opened with nothing left to deliver. *)
SocketOpened ==
  /\ adm' = ClearPending(adm, outbox)
  /\ UNCHANGED <<fileVars, stream, nextSeq, workVars, headVars, faults, owed>>

(* claim() could not open, or a caller's delivery wall expired. *)
LatchPending ==
  /\ adm' = Latch(adm, "pending", FALSE)
  /\ UNCHANGED <<fileVars, stream, nextSeq, workVars, headVars, faults, owed>>

(* The intake latches an identity verdict before the sender settles it. *)
LatchVerdict ==
  /\ adm' = Latch(adm, "verdict", FALSE)
  /\ UNCHANGED <<fileVars, stream, nextSeq, workVars, headVars, faults, owed>>

ClaimJob(j) ==
  /\ jobsQ # <<>> /\ Head(jobsQ) = j
  /\ adm.err = "none" /\ inbox[j] # 0
  /\ jobsQ' = Tail(jobsQ)
  /\ claimed' = claimed \cup {j}
  /\ running' = [running EXCEPT ![j] = @ + 1]
  /\ UNCHANGED <<fileVars, stream, nextSeq, adm, headVars, faults, owed>>

(* Put back behind a latch, or dropped because its job has left the inbox. *)
ClaimSkips(j) ==
  /\ jobsQ # <<>> /\ Head(jobsQ) = j
  /\ \/ adm.err # "none" /\ jobsQ' = Append(Tail(jobsQ), j)
     \/ adm.err = "none" /\ inbox[j] = 0 /\ jobsQ' = Tail(jobsQ)
  /\ UNCHANGED <<fileVars, stream, nextSeq, adm, claimed, running, headVars, faults, owed>>

HeldJobs(d) == {j \in Jobs : d.inbox[j] # 0}
Orders(S)   == {q \in [1..Cardinality(S) -> S] : Elems(q) = S}

(* The elements of s at the indexes idx, in their order: a comprehension    *)
(* over s, as the one-element set of its results, a form proofs can use.    *)
Kept(s, idx) ==
  LET n == Cardinality(idx)
  IN {[k \in 1..n |-> s[at[k]]] :
        at \in {e \in [1..n -> idx] : \A k, l \in 1..n : k < l => e[k] < e[l]}}

WithoutBoot(s) == Kept(s, {i \in DOMAIN s : ~IsBoot(s[i])})

(* The process ends anywhere; __init__ and _load start the next one. *)
Restart ==
  /\ stream < MaxStreams
  /\ Loadable(disk)
  /\ stream' = stream + 1 /\ nextSeq' = 1
  /\ \E kept \in WithoutBoot(disk.outbox) :
       /\ Persist([disk EXCEPT !.outbox = kept])
       /\ adm' = [Open EXCEPT !.err = IF kept = <<>> THEN "none" ELSE "pending"]
  /\ jobsQ' \in Orders(HeldJobs(disk))
  /\ claimed' = {} /\ running' = [j \in Jobs |-> 0]
  /\ bootstrap' = FALSE /\ pendingBoot' = 0 /\ pendingReopen' = 0
  /\ UNCHANGED <<faults, owed>>

-----------------------------------------------------------------------------
\* Incarnation `life`, with nothing left from the ones before.
FreshState(life) ==
  /\ outbox = <<>> /\ rejected = {} /\ inbox = [j \in Jobs |-> 0]
  /\ disk = Mem
  /\ stream = life /\ nextSeq = 1
  /\ adm = Open
  /\ jobsQ = <<>> /\ claimed = {} /\ running = [j \in Jobs |-> 0]
  /\ bootstrap = FALSE /\ pendingBoot = 0 /\ pendingReopen = 0
  /\ faults = 0 /\ owed = {}

Init == \E life \in 1..MaxStreams : FreshState(life)

WorkStep == \E j \in Jobs :
  WorkerEvent(j) \/ WorkerResult(j) \/ WorkerAborts(j) \/ ClaimJob(j) \/ ClaimSkips(j)

IntakeStep == \E j \in Jobs, a \in 1..MaxAttempt :
  \/ Deduplicated(j, a) \/ JobAccepted(j, a) \/ JobNotSaved(j, a) \/ ReceiptNotSaved(j, a)
  \/ JobConflicts(j, a)
  \/ InvalidEvent(j) \/ InvalidReceipt(j, a) \/ InvalidResult(j, a)
  \/ \E kind \in {"event", "job_ack", "result"} : InvalidUnanswered(kind, j, a)

HeadStep ==
  \/ AnnounceReady \/ AnnounceReadyFails
  \/ bootstrap /\ HeadAppended("ready") /\ UNCHANGED bootstrap
  \/ bootstrap /\ HeadAppendFails("ready") /\ UNCHANGED bootstrap
  \/ HeadAppended("reopen") /\ UNCHANGED bootstrap
  \/ HeadAppendFails("reopen") /\ UNCHANGED bootstrap

SettleStep == \E f \in Elems(outbox), disp \in Dispositions :
  Settled(f, disp) \/ SettleFails(f, disp) \/ ReleaseNotSaved(f, disp)

LatchStep == SocketOpened \/ LatchPending \/ LatchVerdict

Next == WorkStep \/ IntakeStep \/ HeadStep \/ SettleStep \/ LatchStep \/ Restart

Spec == Init /\ [][Next]_stateVars

-----------------------------------------------------------------------------
(* Properties *)

(* Types of every variable of the durable half. *)
TypeOK ==
  /\ Mem \in FileType /\ disk \in FileType
  /\ stream \in 1..MaxStreams /\ nextSeq \in Nat \ {0}
  /\ adm \in Admission
  /\ jobsQ \in Seq(Jobs) /\ claimed \subseteq Jobs /\ running \in [Jobs -> Nat]
  /\ bootstrap \in BOOLEAN /\ pendingBoot \in Nat /\ pendingReopen \in Nat
  /\ faults \in 0..MaxFaults
  /\ owed \subseteq FrameType

(* No sequence of appends, settles, accepts, failed writes and restarts     *)
(* leaves a state file that `_load` would refuse: no identity is repeated   *)
(* although a failed append gives its seq back, and no job is held next to  *)
(* its own result.                                                          *)
BootNeverRefuses == Loadable(disk) /\ Loadable(Mem)

(* "process restarts cannot turn completed work into silence": a frame that *)
(* was made durable is in the outbox or in the dead-letter, in memory and   *)
(* in the file, until the control plane has acknowledged it.                *)
Holds(d) == Elems(d.outbox) \cup d.rejected
NothingOwedIsLost == owed \subseteq Holds(Mem) \cap Holds(disk)

(* A permanent verdict on the worker stays latched for the incarnation: no  *)
(* storage latch, nor its recovery, nor a settle, ever reopens admission.   *)
ClosedForGood(a) == a.err \in Permanent \/ (a.from /\ a.before \in Permanent)
VerdictSticks == [][ClosedForGood(adm) => stream' # stream \/ ClosedForGood(adm')]_stateVars

=============================================================================
