-------------------------- MODULE EventStreamProofs --------------------------
(***************************************************************************)
(* What the event stream promises for every value of its constants.        *)
(*                                                                         *)
(* First the durable half alone, StreamState: its types, that the next     *)
(* boot always accepts the state file, that what is owed is held, and that *)
(* a permanent verdict on the worker outlives every storage failure. Then  *)
(* the threads: each of their steps is a step of StreamState, so all of    *)
(* this holds under the sender, the reader, the intake, the claimer and    *)
(* any control plane; and what they add about the wire and about time.     *)
(***************************************************************************)
EXTENDS EventStream, FiniteSetTheorems, FunctionTheorems, SequenceTheorems, TLAPS

-----------------------------------------------------------------------------
(* What the operators of the model return *)

(* Every admission latch, recovery and verdict yields admission latches. *)
LEMMA AdmissionTypes ==
  ASSUME NEW a \in Admission
  PROVE  /\ \A e \in Errors, st \in BOOLEAN : Latch(a, e, st) \in Admission
         /\ \A box : Recovered(a, box) \in Admission
         /\ \A box : ClearPending(a, box) \in Admission
         /\ \A f, disp, box : Verdict(a, f, disp, box) \in Admission
<1>1. \A e \in Errors, st \in BOOLEAN : Latch(a, e, st) \in Admission
  BY DEF Latch, Admission
<1>2. \A box : Recovered(a, box) \in Admission
  BY DEF Recovered, Open, Admission, Errors
<1>3. \A box : ClearPending(a, box) \in Admission
  BY DEF ClearPending, Admission, Errors
<1>4. \A f, disp, box : Verdict(a, f, disp, box) \in Admission
  BY <1>1, <1>3 DEF Verdict, Errors
<1> QED BY <1>1, <1>2, <1>3, <1>4

(* A new frame, and the file with a frame or a job more, have their types. *)
LEMMA FileTypes ==
  ASSUME TypeOK
  PROVE  /\ Mem \in FileType
         /\ \A kind \in FrameKinds, j \in Jobs \cup {NoJob}, a \in 0..MaxAttempt :
              NewFrame(kind, j, a, nextSeq) \in FrameType
         /\ \A d \in FileType, f \in FrameType : WithFrame(d, f) \in FileType
         /\ \A f \in FrameType : WithHead(f) \in FileType
         /\ \A j \in Jobs, a \in 0..MaxAttempt : WithJob(j, a) \in FileType
         /\ ProbedDisk \in FileType
         /\ ProbedAdm \in Admission
<1> USE DEF TypeOK
<1>1. Mem \in FileType
  OBVIOUS
<1>2. \A kind \in FrameKinds, j \in Jobs \cup {NoJob}, a \in 0..MaxAttempt :
        NewFrame(kind, j, a, nextSeq) \in FrameType
  BY DEF NewFrame, FrameType
<1>3. \A d \in FileType, f \in FrameType : WithFrame(d, f) \in FileType
  <2> SUFFICES ASSUME NEW d \in FileType, NEW f \in FrameType
               PROVE  WithFrame(d, f) \in FileType
    OBVIOUS
  <2>1. Append(d.outbox, f) \in Seq(FrameType)
    BY DEF FileType
  <2>2. 0 \in 0..MaxAttempt
    BY BoundsAssumption
  <2>3. [d.inbox EXCEPT ![f.corr] = 0] \in [Jobs -> 0..MaxAttempt]
    BY <2>2 DEF FileType
  <2> QED BY <2>1, <2>3 DEF WithFrame, FileType
<1>4. \A f \in FrameType : WithHead(f) \in FileType
  <2> SUFFICES ASSUME NEW f \in FrameType PROVE WithHead(f) \in FileType
    OBVIOUS
  <2>1. <<f>> \o outbox \in Seq(FrameType)
    BY DEF FileType, Mem
  <2> QED BY <2>1 DEF WithHead, FileType, Mem
<1>5. \A j \in Jobs, a \in 0..MaxAttempt : WithJob(j, a) \in FileType
  BY DEF WithJob, FileType, Mem
<1>6. ProbedDisk \in FileType
  BY DEF ProbedDisk
<1>7. ProbedAdm \in Admission
  BY AdmissionTypes DEF ProbedAdm
<1> QED BY <1>1, <1>2, <1>3, <1>4, <1>5, <1>6, <1>7

(* A write that succeeds, or fails either way, leaves two typed values. *)
LEMMA WriteTypes ==
  ASSUME TypeOK, NEW d \in FileType
  PROVE  /\ Persist(d) => Mem' \in FileType /\ disk' \in FileType
         /\ \A other \in FileType : PersistFails(d, other) => disk' \in FileType /\ faults' \in 0..MaxFaults
<1>1. Persist(d) => Mem' \in FileType /\ disk' \in FileType
  BY DEF Persist, Mem, FileType
<1>2. \A other \in FileType : PersistFails(d, other) => disk' \in FileType /\ faults' \in 0..MaxFaults
  BY BoundsAssumption DEF PersistFails, TypeOK
<1> QED BY <1>1, <1>2

(* The shared append keeps every type, whatever frame it appends. *)
LEMMA AppendTypes ==
  ASSUME TypeOK, NEW kind \in FrameKinds, NEW j \in Jobs \cup {NoJob}, NEW a \in 0..MaxAttempt
  PROVE  /\ Appended(kind, j, a) /\ running' \in [Jobs -> Nat] => TypeOK'
         /\ AppendFails(kind, j, a) /\ running' \in [Jobs -> Nat] => TypeOK'
<1> DEFINE f == NewFrame(kind, j, a, nextSeq)
<1>1. WithFrame(Mem, f) \in FileType /\ f \in FrameType /\ Mem \in FileType
  BY FileTypes
<1>2. ProbedDisk \in FileType /\ ProbedAdm \in Admission
  BY FileTypes
<1>3. ASSUME Appended(kind, j, a), running' \in [Jobs -> Nat] PROVE TypeOK'
  <2>1. Mem' \in FileType /\ disk' \in FileType
    BY <1>1, <1>3, WriteTypes DEF Appended
  <2> QED BY <1>1, <1>2, <1>3, <2>1 DEF Appended, headVars, TypeOK
<1>4. ASSUME AppendFails(kind, j, a), running' \in [Jobs -> Nat] PROVE TypeOK'
  <2>1. Mem' = Mem
    BY <1>4 DEF AppendFails, Mem
  <2>2. disk' \in FileType /\ faults' \in 0..MaxFaults
    <3>1. CASE adm.storage /\ PersistFails(Mem, disk)
      BY <1>1, <3>1, WriteTypes DEF TypeOK
    <3>2. CASE PersistFails(WithFrame(Mem, f), ProbedDisk)
      BY <1>1, <1>2, <3>2, WriteTypes
    <3> QED BY <1>4, <3>1, <3>2 DEF AppendFails
  <2>3. adm' \in Admission
    BY <1>2, <1>4, AdmissionTypes DEF AppendFails, Errors, TypeOK
  <2> QED BY <1>1, <1>4, <2>1, <2>2, <2>3 DEF AppendFails, headVars, TypeOK
<1> QED BY <1>3, <1>4

(* Workers and the claim queue keep every type. *)
LEMMA WorkTypes ==
  ASSUME TypeOK, WorkStep
  PROVE  TypeOK'
<1>1. PICK j \in Jobs : WorkerEvent(j) \/ WorkerResult(j) \/ WorkerAborts(j) \/ ClaimJob(j) \/ ClaimSkips(j)
  BY DEF WorkStep
<1>2. /\ 0 \in 0..MaxAttempt /\ {"event", "result"} \subseteq FrameKinds
      /\ inbox[j] \in 0..MaxAttempt /\ running[j] \in Nat /\ running \in [Jobs -> Nat]
  BY BoundsAssumption DEF FrameKinds, TypeOK, FileType, Mem
<1>3. ASSUME running[j] > 0 PROVE [running EXCEPT ![j] = @ - 1] \in [Jobs -> Nat]
  BY <1>2, <1>3
<1>4. CASE WorkerEvent(j)
  BY <1>2, <1>4, AppendTypes DEF WorkerEvent
<1>5. CASE WorkerResult(j)
  BY <1>2, <1>3, <1>5, AppendTypes DEF WorkerResult
<1>6. CASE WorkerAborts(j)
  <2>1. running' \in [Jobs -> Nat]
    BY <1>3, <1>6 DEF WorkerAborts
  <2>2. CASE AppendFails("event", j, 0) \/ AppendFails("result", j, inbox[j])
    BY <1>2, <2>1, <2>2, AppendTypes
  <2>3. CASE ResultRefused(j)
    <3>1. ProbedDisk \in FileType /\ ProbedAdm \in Admission
      BY FileTypes
    <3> QED BY <2>1, <2>3, <3>1 DEF ResultRefused, headVars, TypeOK, Mem
  <2> QED BY <1>6, <2>2, <2>3 DEF WorkerAborts
<1>7. CASE ClaimJob(j)
  <2>1. [running EXCEPT ![j] = @ + 1] \in [Jobs -> Nat]
    BY <1>2
  <2>2. Tail(jobsQ) \in Seq(Jobs)
    BY <1>7 DEF ClaimJob, TypeOK
  <2> QED BY <1>7, <2>1, <2>2 DEF ClaimJob, fileVars, headVars, TypeOK, Mem
<1>8. CASE ClaimSkips(j)
  <2>1. Tail(jobsQ) \in Seq(Jobs)
    BY <1>8 DEF ClaimSkips, TypeOK
  <2>2. jobsQ' \in Seq(Jobs)
    BY <1>8, <2>1 DEF ClaimSkips
  <2> QED BY <1>8, <2>2 DEF ClaimSkips, fileVars, headVars, TypeOK, Mem
<1> QED BY <1>1, <1>4, <1>5, <1>6, <1>7, <1>8

(* So does the intake of a job, whichever of its writes fails. *)
LEMMA IntakeTypes ==
  ASSUME TypeOK, IntakeStep
  PROVE  TypeOK'
<1>1. PICK j \in Jobs, a \in 1..MaxAttempt :
        \/ Deduplicated(j, a) \/ JobAccepted(j, a) \/ JobNotSaved(j, a) \/ ReceiptNotSaved(j, a)
        \/ JobConflicts(j, a)
        \/ InvalidEvent(j) \/ InvalidReceipt(j, a) \/ InvalidResult(j, a)
        \/ \E kind \in {"event", "job_ack", "result"} : InvalidUnanswered(kind, j, a)
  BY DEF IntakeStep
<1>2. /\ 0 \in 0..MaxAttempt /\ a \in 0..MaxAttempt
      /\ {"event", "result", "job_ack"} \subseteq FrameKinds
  BY BoundsAssumption DEF FrameKinds
<1>3. /\ Mem \in FileType /\ disk \in FileType /\ adm \in Admission
      /\ running \in [Jobs -> Nat]
  BY DEF TypeOK
<1> DEFINE f == NewFrame("job_ack", j, a, nextSeq)
<1>4. /\ f \in FrameType /\ WithJob(j, a) \in FileType
      /\ WithFrame(WithJob(j, a), f) \in FileType
  BY <1>2, FileTypes
<1>5. Queued(j) \in Seq(Jobs)
  BY DEF Queued, TypeOK
<1>6. CASE Deduplicated(j, a) \/ InvalidEvent(j) \/ InvalidReceipt(j, a) \/ InvalidResult(j, a)
  BY <1>2, <1>3, <1>6, AppendTypes DEF Deduplicated, InvalidEvent, InvalidReceipt, InvalidResult
<1>7. CASE JobAccepted(j, a)
  <2>1. Mem' \in FileType /\ disk' \in FileType
    BY <1>4, <1>7, WriteTypes DEF JobAccepted
  <2>2. adm' \in Admission
    BY <1>3, <1>7, AdmissionTypes DEF JobAccepted
  <2> QED BY <1>4, <1>5, <1>7, <2>1, <2>2 DEF JobAccepted, headVars, TypeOK
<1>8. CASE JobNotSaved(j, a)
  <2>1. disk' \in FileType /\ faults' \in 0..MaxFaults
    BY <1>3, <1>4, <1>8, WriteTypes DEF JobNotSaved
  <2>2. adm' \in Admission
    BY <1>3, <1>8, AdmissionTypes DEF JobNotSaved, Errors
  <2> QED BY <1>8, <2>1, <2>2 DEF JobNotSaved, workVars, headVars, TypeOK, Mem
<1>9. CASE ReceiptNotSaved(j, a)
  <2>1. CASE j \in ResultCorrs(Mem) /\ AppendFails("job_ack", j, a)
    BY <1>2, <1>3, <1>9, <2>1, AppendTypes DEF ReceiptNotSaved
  <2>2. CASE ~(j \in ResultCorrs(Mem) /\ AppendFails("job_ack", j, a))
    <3>1. /\ PersistFails(WithFrame(WithJob(j, a), f), WithJob(j, a))
          /\ inbox' = WithJob(j, a).inbox
          /\ adm' = Latch(Recovered(adm, outbox), "storage", TRUE)
          /\ jobsQ' = Queued(j)
          /\ UNCHANGED <<outbox, rejected, stream, nextSeq, claimed, headVars, owed, running>>
      BY <1>9, <2>2 DEF ReceiptNotSaved
    <3>2. disk' \in FileType /\ faults' \in 0..MaxFaults
      BY <1>4, <3>1, WriteTypes
    <3>3. adm' \in Admission
      BY <1>3, <3>1, AdmissionTypes DEF Errors
    <3>4. Mem' \in FileType
      BY <1>3, <1>4, <3>1 DEF Mem, FileType
    <3> QED BY <1>5, <3>1, <3>2, <3>3, <3>4 DEF headVars, TypeOK
  <2> QED BY <2>1, <2>2
<1>10. CASE JobConflicts(j, a)
  <2>1. adm' \in Admission
    BY <1>3, <1>10, AdmissionTypes DEF JobConflicts, Errors
  <2> QED BY <1>10, <2>1 DEF JobConflicts, workVars, headVars, TypeOK, Mem
<1>11. CASE \E kind \in {"event", "job_ack", "result"} : InvalidUnanswered(kind, j, a)
  <2>1. PICK kind \in {"event", "job_ack", "result"} : InvalidUnanswered(kind, j, a)
    BY <1>11
  <2> DEFINE g == NewFrame(kind, j, IF kind = "event" THEN 0 ELSE a, nextSeq)
  <2>2. WithFrame(Mem, g) \in FileType /\ ProbedDisk \in FileType /\ ProbedAdm \in Admission
    BY <1>2, <1>3, FileTypes
  <2>3. disk' \in FileType /\ faults' \in 0..MaxFaults
    <3>1. CASE PersistFails(Mem, disk)
      BY <1>3, <3>1, WriteTypes
    <3>2. CASE PersistFails(WithFrame(Mem, g), ProbedDisk)
      BY <2>2, <3>2, WriteTypes
    <3>3. CASE disk' = ProbedDisk /\ UNCHANGED faults
      BY <2>2, <3>3 DEF TypeOK
    <3> QED BY <2>1, <3>1, <3>2, <3>3 DEF InvalidUnanswered
  <2>4. adm' \in Admission
    BY <1>3, <2>1, <2>2, AdmissionTypes DEF InvalidUnanswered, Errors
  <2> QED BY <2>1, <2>3, <2>4 DEF InvalidUnanswered, workVars, headVars, TypeOK, Mem
<1> QED BY <1>1, <1>6, <1>7, <1>8, <1>9, <1>10, <1>11

(* And the two bootstrap frames put at the head of the outbox. *)
LEMMA HeadTypes ==
  ASSUME TypeOK, HeadStep
  PROVE  TypeOK'
<1>1. PICK kind \in BootKinds : HeadAppended(kind) \/ HeadAppendFails(kind)
  BY DEF HeadStep, AnnounceReady, AnnounceReadyFails, BootKinds
<1> DEFINE f == NewFrame(kind, NoJob, 0, nextSeq)
<1>2. WithHead(f) \in FileType /\ Mem \in FileType /\ disk \in FileType /\ adm \in Admission
  <2>1. 0 \in 0..MaxAttempt /\ kind \in FrameKinds
    BY BoundsAssumption DEF FrameKinds
  <2>2. f \in FrameType
    BY <2>1, FileTypes
  <2> QED BY <2>2, FileTypes DEF TypeOK
<1>3. bootstrap' \in BOOLEAN
  BY DEF HeadStep, AnnounceReady, AnnounceReadyFails, TypeOK
<1>4. CASE HeadAppended(kind)
  <2>1. Mem' \in FileType /\ disk' \in FileType
    BY <1>2, <1>4, WriteTypes DEF HeadAppended
  <2>2. adm' \in Admission
    BY <1>2, <1>4, AdmissionTypes DEF HeadAppended
  <2> QED BY <1>3, <1>4, <2>1, <2>2 DEF HeadAppended, workVars, TypeOK
<1>5. CASE HeadAppendFails(kind)
  <2>1. disk' \in FileType /\ faults' \in 0..MaxFaults
    BY <1>2, <1>5, WriteTypes DEF HeadAppendFails
  <2>2. adm' \in Admission
    BY <1>2, <1>5, AdmissionTypes DEF HeadAppendFails, Errors
  <2> QED BY <1>3, <1>5, <2>1, <2>2 DEF HeadAppendFails, workVars, TypeOK, Mem
<1> QED BY <1>1, <1>4, <1>5

(* The elements of a sequence of frames, and the state file without its head. *)
LEMMA SettleTypesOfOperators ==
  ASSUME TypeOK, NEW f \in Elems(outbox), NEW disp \in Dispositions
  PROVE  /\ f \in FrameType
         /\ Cardinality(Elems(Acked(f, disp))) \in Nat
         /\ Elems(Acked(f, disp)) \subseteq FrameType
         /\ AtHead(f) => WithoutHead(f, disp) \in FileType
<1>1. f \in FrameType
  BY DEF Elems, TypeOK, FileType, Mem
<1>2. Acked(f, disp) = <<>> \/ \E g \in FrameType : Acked(f, disp) = <<g>>
  <2>1. 0 \in 0..MaxAttempt /\ "event" \in FrameKinds /\ f.corr \in Jobs \cup {NoJob}
    BY <1>1, BoundsAssumption DEF FrameKinds, FrameType
  <2>2. NewFrame("event", f.corr, 0, nextSeq) \in FrameType
    BY <2>1, FileTypes
  <2> QED BY <2>2 DEF Acked
<1>3. /\ Cardinality(Elems(Acked(f, disp))) \in Nat
      /\ Elems(Acked(f, disp)) \subseteq FrameType
  <2>1. CASE Acked(f, disp) = <<>>
    <3>1. Elems(Acked(f, disp)) = {}
      BY <2>1 DEF Elems
    <3>2. Cardinality({}) = 0
      BY FS_EmptySet
    <3> QED BY <3>1, <3>2
  <2>2. CASE Acked(f, disp) # <<>>
    <3>1. PICK g \in FrameType : Acked(f, disp) = <<g>>
      BY <1>2, <2>2
    <3>2. Elems(Acked(f, disp)) = {g}
      BY <3>1 DEF Elems
    <3>3. Cardinality({g}) = 1
      BY FS_Singleton
    <3> QED BY <3>1, <3>2, <3>3
  <2> QED BY <2>1, <2>2
<1>4. ASSUME AtHead(f) PROVE WithoutHead(f, disp) \in FileType
  <2>1. outbox \in Seq(FrameType) /\ outbox # <<>> /\ rejected \subseteq FrameType
    BY <1>4 DEF AtHead, TypeOK, FileType, Mem
  <2>2. Tail(outbox) \in Seq(FrameType)
    BY <2>1
  <2>3. \A g \in FrameType : <<g>> \in Seq(FrameType)
    OBVIOUS
  <2>4. Acked(f, disp) \in Seq(FrameType)
    BY <1>2, <2>3, EmptySeq
  <2>5. Tail(outbox) \o Acked(f, disp) \in Seq(FrameType)
    BY <2>2, <2>4
  <2> QED BY <1>1, <2>1, <2>5 DEF WithoutHead, TypeOK, FileType, Mem
<1> QED BY <1>1, <1>3, <1>4

(* A settled verdict, with or without a failing write, keeps every type. *)
LEMMA SettleTypes ==
  ASSUME TypeOK, SettleStep
  PROVE  TypeOK'
<1>1. PICK f \in Elems(outbox), disp \in Dispositions :
        Settled(f, disp) \/ SettleFails(f, disp) \/ ReleaseNotSaved(f, disp)
  BY DEF SettleStep
<1> DEFINE leaves == Leaves(f, disp)
           d1     == IF leaves THEN WithoutHead(f, disp) ELSE Mem
           free   == [d1 EXCEPT !.inbox = [inbox EXCEPT ![f.corr] = 0]]
           acked  == IF leaves THEN Elems(Acked(f, disp)) ELSE {}
<1>2. /\ f \in FrameType /\ d1 \in FileType /\ acked \subseteq FrameType
      /\ Cardinality(acked) \in Nat
  BY SettleTypesOfOperators, FS_EmptySet DEF Leaves, TypeOK
<1>3. free \in FileType
  <2>1. 0 \in 0..MaxAttempt /\ inbox \in [Jobs -> 0..MaxAttempt]
    BY BoundsAssumption DEF TypeOK, FileType, Mem
  <2>2. [inbox EXCEPT ![f.corr] = 0] \in [Jobs -> 0..MaxAttempt]
    BY <2>1
  <2> QED BY <1>2, <2>2 DEF FileType
<1>4. ForgetsHead(f) => pendingBoot' \in Nat /\ pendingReopen' \in Nat
  BY DEF ForgetsHead, TypeOK
<1>5. /\ Mem \in FileType /\ disk \in FileType /\ adm \in Admission /\ owed \subseteq FrameType
      /\ nextSeq \in Nat \ {0}
  BY DEF TypeOK
<1>6. CASE Settled(f, disp)
  <2> DEFINE d2 == IF Releases(f, disp) THEN free ELSE d1
  <2>1. /\ outbox' = d2.outbox /\ rejected' = d2.rejected /\ inbox' = d2.inbox
        /\ disk' = IF leaves \/ Releases(f, disp) THEN d2 ELSE disk
    BY <1>6 DEF Settled
  <2>2. Mem' \in FileType /\ disk' \in FileType
    <3>1. d2 \in FileType
      BY <1>2, <1>3
    <3> HIDE DEF d2
    <3> QED BY <1>5, <2>1, <3>1 DEF Mem, FileType
  <2>3. /\ adm' = Verdict(IF leaves \/ Releases(f, disp) THEN Recovered(adm, d1.outbox) ELSE adm,
                         f, disp, d1.outbox)
        /\ nextSeq' = nextSeq + Cardinality(acked)
        /\ owed' = (IF disp = "accepted" THEN owed \ {f} ELSE owed) \cup acked
        /\ ForgetsHead(f)
        /\ UNCHANGED <<stream, workVars, bootstrap, faults>>
    BY <1>6 DEF Settled
  <2> HIDE DEF d1, acked, leaves
  <2>4. adm' \in Admission
    <3>1. Recovered(adm, d1.outbox) \in Admission
      BY <1>5, AdmissionTypes
    <3> QED BY <1>5, <2>3, <3>1, AdmissionTypes
  <2>5. nextSeq' \in Nat \ {0} /\ owed' \subseteq FrameType
    BY <1>2, <1>5, <2>3
  <2> QED BY <1>4, <2>2, <2>3, <2>4, <2>5 DEF workVars, TypeOK
<1>7. CASE SettleFails(f, disp)
  <2>1. WithoutHead(f, disp) \in FileType
    BY <1>7, SettleTypesOfOperators DEF SettleFails, Leaves
  <2>2. disk' \in FileType /\ faults' \in 0..MaxFaults
    BY <1>5, <1>7, <2>1, WriteTypes DEF SettleFails
  <2>3. adm' \in Admission
    BY <1>5, <1>7, AdmissionTypes DEF SettleFails, Errors
  <2>4. owed' \subseteq FrameType
    BY <1>5, <1>7 DEF SettleFails
  <2> QED BY <1>4, <1>7, <2>2, <2>3, <2>4 DEF SettleFails, workVars, TypeOK, Mem
<1>8. CASE ReleaseNotSaved(f, disp)
  <2>1. /\ outbox' = free.outbox /\ rejected' = free.rejected /\ inbox' = free.inbox
        /\ PersistFails(free, IF leaves THEN d1 ELSE disk)
        /\ adm' = ClearPending(IF leaves THEN Recovered(adm, d1.outbox) ELSE adm, d1.outbox)
        /\ ForgetsHead(f)
        /\ UNCHANGED <<stream, nextSeq, workVars, bootstrap, owed>>
    BY <1>8 DEF ReleaseNotSaved
  <2> HIDE DEF d1, free, leaves
  <2>2. Mem' \in FileType
    BY <1>3, <2>1 DEF Mem, FileType
  <2>3. disk' \in FileType /\ faults' \in 0..MaxFaults
    BY <1>2, <1>3, <1>5, <2>1, WriteTypes
  <2>4. adm' \in Admission
    <3>1. Recovered(adm, d1.outbox) \in Admission
      BY <1>5, AdmissionTypes
    <3> QED BY <1>5, <2>1, <3>1, AdmissionTypes
  <2> QED BY <1>4, <2>1, <2>2, <2>3, <2>4 DEF workVars, TypeOK
<1> QED BY <1>1, <1>6, <1>7, <1>8

(* What a boot keeps of the outbox are frames of it, still in their order. *)
LEMMA BootKeeps ==
  ASSUME NEW s \in Seq(FrameType), NEW kept \in WithoutBoot(s)
  PROVE  /\ kept \in Seq(FrameType)
         /\ Elems(kept) \subseteq Elems(s)
         /\ UniqueKeys(s) => UniqueKeys(kept)
         /\ \A f \in Elems(s) : ~IsBoot(f) => f \in Elems(kept)
<1> DEFINE idx == {i \in DOMAIN s : ~IsBoot(s[i])}
           n   == Cardinality(idx)
<1>1. PICK at \in [1..n -> idx] :
        /\ \A k, l \in 1..n : k < l => at[k] < at[l]
        /\ kept = [k \in 1..n |-> s[at[k]]]
  BY DEF WithoutBoot, Kept
<1>2. n \in Nat /\ DOMAIN s = 1..Len(s) /\ Len(s) \in Nat /\ IsFiniteSet(idx)
  <2>1. IsFiniteSet(1..Len(s))
    BY FS_Interval
  <2>2. IsFiniteSet(idx)
    BY <2>1, FS_Subset
  <2> QED BY <2>2, FS_CardinalityType
<1> HIDE DEF n
<1>3. \A k \in 1..n : at[k] \in DOMAIN s /\ s[at[k]] \in FrameType
  BY <1>1, <1>2
<1>4. kept \in Seq(FrameType)
  BY <1>1, <1>2, <1>3, IsASeq
<1>5. Elems(kept) \subseteq Elems(s)
  BY <1>1, <1>3 DEF Elems
<1>6. ASSUME UniqueKeys(s) PROVE UniqueKeys(kept)
  <2> SUFFICES ASSUME NEW k \in 1..n, NEW l \in 1..n, Key(s[at[k]]) = Key(s[at[l]])
               PROVE  k = l
    BY <1>1 DEF UniqueKeys
  <2>1. at[k] = at[l]
    BY <1>3, <1>6 DEF UniqueKeys
  <2>2. at[k] \in Nat /\ at[l] \in Nat
    BY <1>2, <1>3
  <2> QED BY <1>1, <1>2, <2>1, <2>2
<1>7. ASSUME NEW i \in idx PROVE \E k \in 1..n : at[k] = i
  <2>1. Cardinality(1..n) = n /\ IsFiniteSet(1..n)
    BY <1>2, FS_Interval
  <2>2. \A k, l \in 1..n : at[k] = at[l] => k = l
    <3> SUFFICES ASSUME NEW k \in 1..n, NEW l \in 1..n, at[k] = at[l] PROVE k = l
      OBVIOUS
    <3>1. at[k] \in Nat /\ at[l] \in Nat /\ k \in Nat /\ l \in Nat
      BY <1>2, <1>3
    <3>2. (k < l => at[k] < at[l]) /\ (l < k => at[l] < at[k])
      BY <1>1
    <3> QED BY <3>1, <3>2
  <2>3. at \in Injection(1..n, idx)
    BY <1>1, <2>2, Fun_IsInj
  <2>4. at \in Surjection(1..n, idx)
    BY <1>2, <2>1, <2>3, FS_Injection DEF n
  <2> HIDE DEF idx
  <2> QED BY <2>4 DEF Surjection
<1>8. ASSUME NEW f \in Elems(s), ~IsBoot(f) PROVE f \in Elems(kept)
  <2>1. PICK i \in idx : s[i] = f
    BY <1>8 DEF Elems
  <2>2. PICK k \in 1..n : at[k] = i
    BY <1>7
  <2>3. DOMAIN kept = 1..n /\ kept[k] = f
    BY <1>1, <2>1, <2>2
  <2> QED BY <2>3 DEF Elems
<1> QED BY <1>4, <1>5, <1>6, <1>8

(* Latches set without a write, and the boot of the next incarnation. *)
LEMMA LatchTypes ==
  ASSUME TypeOK, LatchStep
  PROVE  TypeOK'
<1>1. adm' \in Admission
  BY AdmissionTypes DEF LatchStep, SocketOpened, LatchPending, LatchVerdict, TypeOK, Errors
<1>2. UNCHANGED <<fileVars, stream, nextSeq, workVars, headVars, faults, owed>>
  BY DEF LatchStep, SocketOpened, LatchPending, LatchVerdict
<1> QED BY <1>1, <1>2 DEF fileVars, workVars, headVars, TypeOK, Mem

(* A restart keeps every type: the surviving frames are frames of the file. *)
LEMMA RestartTypes ==
  ASSUME TypeOK, Restart
  PROVE  TypeOK'
<1>1. PICK kept \in WithoutBoot(disk.outbox) :
        /\ Persist([disk EXCEPT !.outbox = kept])
        /\ adm' = [Open EXCEPT !.err = IF kept = <<>> THEN "none" ELSE "pending"]
  BY DEF Restart
<1>2. disk \in FileType /\ disk.outbox \in Seq(FrameType)
  BY DEF TypeOK, FileType
<1>3. kept \in Seq(FrameType)
  BY <1>2, BootKeeps
<1>4. [disk EXCEPT !.outbox = kept] \in FileType
  BY <1>2, <1>3 DEF FileType
<1>5. Mem' \in FileType /\ disk' \in FileType
  BY <1>1, <1>4, WriteTypes
<1>6. adm' \in Admission
  BY <1>1 DEF Open, Admission, Errors
<1>7. jobsQ' \in Seq(Jobs)
  <2>1. HeldJobs(disk) \subseteq Jobs
    BY DEF HeldJobs
  <2>2. Cardinality(HeldJobs(disk)) \in Nat
    BY <2>1, JobsAssumption, FS_Subset, FS_CardinalityType
  <2>3. jobsQ' \in [1..Cardinality(HeldJobs(disk)) -> Jobs]
    BY <2>1 DEF Restart, Orders
  <2> QED BY <2>2, <2>3
<1>8. stream' \in 1..MaxStreams /\ nextSeq' \in Nat \ {0}
  BY BoundsAssumption DEF Restart, TypeOK
<1>9. /\ claimed' = {} /\ running' = [j \in Jobs |-> 0]
      /\ bootstrap' = FALSE /\ pendingBoot' = 0 /\ pendingReopen' = 0
      /\ UNCHANGED <<faults, owed>>
  BY DEF Restart
<1> QED BY <1>5, <1>6, <1>7, <1>8, <1>9 DEF TypeOK

(* A process that starts is well typed, and every step keeps it so. *)
LEMMA TypesStart == Init => TypeOK
<1> SUFFICES ASSUME Init PROVE TypeOK
  OBVIOUS
<1>1. 0 \in 0..MaxAttempt /\ 0 \in 0..MaxFaults /\ 1 \in 1..MaxStreams
  BY BoundsAssumption
<1>2. <<>> \in Seq(FrameType) /\ <<>> \in Seq(Jobs)
  BY EmptySeq
<1>3. Mem \in FileType /\ disk \in FileType
  BY <1>1, <1>2 DEF Init, FreshState, Mem, FileType
<1>4. adm \in Admission
  BY DEF Init, FreshState, Open, Admission, Errors
<1>5. [j \in Jobs |-> 0] \in [Jobs -> Nat] /\ 1 \in Nat \ {0} /\ 0 \in Nat
  OBVIOUS
<1>6. /\ stream \in 1..MaxStreams /\ nextSeq \in Nat \ {0} /\ jobsQ \in Seq(Jobs) /\ claimed \subseteq Jobs
      /\ running \in [Jobs -> Nat] /\ bootstrap \in BOOLEAN /\ pendingBoot \in Nat
      /\ pendingReopen \in Nat /\ faults \in 0..MaxFaults /\ owed \subseteq FrameType
  BY <1>1, <1>2, <1>5 DEF Init, FreshState
<1> QED BY <1>3, <1>4, <1>6 DEF TypeOK

LEMMA TypesKept == TypeOK /\ [Next]_stateVars => TypeOK'
<1> SUFFICES ASSUME TypeOK, [Next]_stateVars PROVE TypeOK'
  OBVIOUS
<1>1. CASE UNCHANGED stateVars
  BY <1>1 DEF stateVars, TypeOK, Mem
<1> QED BY <1>1, WorkTypes, IntakeTypes, HeadTypes, SettleTypes, LatchTypes, RestartTypes DEF Next

(* Every variable of the durable half keeps its type. *)
THEOREM TypesHold == Spec => []TypeOK
BY TypesStart, TypesKept, PTL DEF Spec

-----------------------------------------------------------------------------
(* Permanent verdicts. The strengthening: the storage latch is what holds   *)
(* admission only while it is itself latched, so what it covers is restored.*)

StorageHolds(a) == a.from => a.err = "storage" /\ a.storage
Keeps(a, b) ==
  b \in Admission /\ StorageHolds(b) /\ (ClosedForGood(a) => ClosedForGood(b))

(* No operation on the latches reopens one that is closed for good. *)
LEMMA AdmissionKeeps ==
  ASSUME NEW a \in Admission, StorageHolds(a)
  PROVE  /\ Keeps(a, a)
         /\ \A e \in {"pending", "verdict", "protocol"} : Keeps(a, Latch(a, e, FALSE))
         /\ Keeps(a, Latch(a, "storage", TRUE))
         /\ \A box : Keeps(a, Recovered(a, box))
         /\ \A box : Keeps(a, ClearPending(a, box))
         /\ \A f, disp, box : Keeps(a, Verdict(a, f, disp, box))
<1> USE DEF Keeps, StorageHolds, ClosedForGood, Permanent
<1>1. Keeps(a, a)
  OBVIOUS
<1>2. \A e \in {"pending", "verdict", "protocol"} : Keeps(a, Latch(a, e, FALSE))
  BY DEF Latch, Admission, Errors
<1>3. Keeps(a, Latch(a, "storage", TRUE))
  BY DEF Latch, Admission, Errors
<1>4. \A box : Keeps(a, Recovered(a, box))
  BY DEF Recovered, Open, Admission, Errors
<1>5. \A box : Keeps(a, ClearPending(a, box))
  BY DEF ClearPending, Admission, Errors
<1>6. \A f, disp, box : Keeps(a, Verdict(a, f, disp, box))
  <2> SUFFICES ASSUME NEW f, NEW disp, NEW box PROVE Keeps(a, Verdict(a, f, disp, box))
    OBVIOUS
  <2> HIDE DEF Keeps, StorageHolds
  <2>1. \/ Verdict(a, f, disp, box) = a
        \/ \E e \in {"pending", "verdict"} : Verdict(a, f, disp, box) = Latch(a, e, FALSE)
        \/ Verdict(a, f, disp, box) = ClearPending(a, box)
    BY DEF Verdict
  <2> QED BY <1>1, <1>2, <1>5, <2>1
<1> QED BY <1>1, <1>2, <1>3, <1>4, <1>5, <1>6

(* One step of the model composes at most three of these. *)
LEMMA KeepsComposes ==
  ASSUME NEW a \in Admission, NEW b \in Admission, NEW c, Keeps(a, b), Keeps(b, c)
  PROVE  Keeps(a, c)
BY DEF Keeps

(* Every step within an incarnation keeps storage latches consistent and a permanent verdict latched. *)
LEMMA StepKeeps ==
  ASSUME TypeOK, StorageHolds(adm), Next
  PROVE  Keeps(adm, adm') \/ (Restart /\ StorageHolds(adm'))
<1> DEFINE Latched(a) == {Latch(a, "storage", TRUE)} \cup
                         {Latch(a, e, FALSE) : e \in {"pending", "verdict", "protocol"}}
<1>1. adm \in Admission
  BY DEF TypeOK
<1>2. /\ Keeps(adm, adm) /\ Keeps(adm, ProbedAdm)
      /\ \A box : Keeps(adm, Recovered(adm, box))
      /\ ProbedAdm \in Admission /\ StorageHolds(ProbedAdm)
  BY <1>1, AdmissionKeeps DEF ProbedAdm, Keeps
<1>3. ASSUME NEW a \in Admission, StorageHolds(a), Keeps(adm, a), NEW b \in Latched(a)
      PROVE  Keeps(adm, b)
  <2>1. Keeps(a, b)
    BY <1>3, AdmissionKeeps
  <2> QED BY <1>1, <1>3, <2>1, KeepsComposes DEF Keeps
<1>4. \A b \in Latched(adm) \cup Latched(ProbedAdm) : Keeps(adm, b)
  BY <1>1, <1>2, <1>3
<1>5. \A kind, j, a : Appended(kind, j, a) \/ AppendFails(kind, j, a) => Keeps(adm, adm')
  BY <1>2, <1>4 DEF Appended, AppendFails
<1>6. WorkStep => Keeps(adm, adm')
  BY <1>2, <1>5 DEF WorkStep, WorkerEvent, WorkerResult, WorkerAborts, ResultRefused, ClaimJob, ClaimSkips
<1>7. IntakeStep => Keeps(adm, adm')
  <2> SUFFICES ASSUME NEW j \in Jobs, NEW a \in 1..MaxAttempt
               PROVE  /\ Deduplicated(j, a) \/ InvalidEvent(j) \/ InvalidReceipt(j, a)
                           \/ InvalidResult(j, a) => Keeps(adm, adm')
                      /\ JobAccepted(j, a) \/ JobNotSaved(j, a) \/ JobConflicts(j, a) => Keeps(adm, adm')
                      /\ ReceiptNotSaved(j, a) => Keeps(adm, adm')
                      /\ \A kind : InvalidUnanswered(kind, j, a) => Keeps(adm, adm')
    BY DEF IntakeStep
  <2>1. Deduplicated(j, a) \/ InvalidEvent(j) \/ InvalidReceipt(j, a) \/ InvalidResult(j, a)
          => Keeps(adm, adm')
    BY <1>5 DEF Deduplicated, InvalidEvent, InvalidReceipt, InvalidResult
  <2>2. JobAccepted(j, a) \/ JobNotSaved(j, a) \/ JobConflicts(j, a) => Keeps(adm, adm')
    BY <1>2, <1>4 DEF JobAccepted, JobNotSaved, JobConflicts
  <2>3. ReceiptNotSaved(j, a) => Keeps(adm, adm')
    <3>1. Recovered(adm, outbox) \in Admission /\ StorageHolds(Recovered(adm, outbox))
      BY <1>2 DEF Keeps
    <3>2. Keeps(adm, Latch(Recovered(adm, outbox), "storage", TRUE))
      BY <1>2, <1>3, <3>1
    <3> QED BY <1>5, <3>2 DEF ReceiptNotSaved
  <2>4. \A kind : InvalidUnanswered(kind, j, a) => Keeps(adm, adm')
    <3> DEFINE b == Latch(ProbedAdm, "storage", TRUE)
    <3>1. Keeps(adm, b) /\ b \in Admission /\ StorageHolds(b)
      BY <1>4 DEF Keeps
    <3> HIDE DEF b
    <3>2. Keeps(adm, Latch(b, "protocol", FALSE))
      BY <1>3, <3>1
    <3> QED BY <1>4, <3>2 DEF InvalidUnanswered, b
  <2> QED BY <2>1, <2>2, <2>3, <2>4
<1>8. HeadStep => Keeps(adm, adm')
  BY <1>2, <1>4 DEF HeadStep, AnnounceReady, AnnounceReadyFails, HeadAppended, HeadAppendFails
<1>9. SettleStep => Keeps(adm, adm')
  <2> SUFFICES ASSUME NEW f, NEW disp,
                      Settled(f, disp) \/ SettleFails(f, disp) \/ ReleaseNotSaved(f, disp)
               PROVE  Keeps(adm, adm')
    BY DEF SettleStep
  <2>1. \A box : LET a == Recovered(adm, box) IN a \in Admission /\ StorageHolds(a) /\ Keeps(adm, a)
    BY <1>2 DEF Keeps
  <2>2. ASSUME NEW a \in Admission, StorageHolds(a), Keeps(adm, a), NEW box
        PROVE  Keeps(adm, Verdict(a, f, disp, box)) /\ Keeps(adm, ClearPending(a, box))
    <3>1. Keeps(a, Verdict(a, f, disp, box)) /\ Keeps(a, ClearPending(a, box))
      BY <2>2, AdmissionKeeps
    <3> QED BY <1>1, <2>2, <3>1, KeepsComposes DEF Keeps
  <2>3. CASE Settled(f, disp)
    <3>1. PICK a \in Admission : /\ StorageHolds(a) /\ Keeps(adm, a)
                                 /\ \E box : adm' = Verdict(a, f, disp, box)
      BY <1>1, <1>2, <2>1, <2>3 DEF Settled
    <3> QED BY <2>2, <3>1
  <2>4. CASE ReleaseNotSaved(f, disp)
    <3>1. PICK a \in Admission : /\ StorageHolds(a) /\ Keeps(adm, a)
                                 /\ \E box : adm' = ClearPending(a, box)
      BY <1>1, <1>2, <2>1, <2>4 DEF ReleaseNotSaved
    <3> QED BY <2>2, <3>1
  <2>5. CASE SettleFails(f, disp)
    BY <1>4, <2>5 DEF SettleFails
  <2> QED BY <2>3, <2>4, <2>5
<1>10. LatchStep => Keeps(adm, adm')
  BY <1>1, <1>4, AdmissionKeeps DEF LatchStep, SocketOpened, LatchPending, LatchVerdict
<1>11. Restart => StorageHolds(adm')
  BY DEF Restart, StorageHolds, Open
<1> QED BY <1>6, <1>7, <1>8, <1>9, <1>10, <1>11 DEF Next

(* Whatever fails and recovers afterwards, a permanent verdict stays until  *)
(* the process is replaced.                                                 *)
THEOREM PermanentVerdicts == Spec => VerdictSticks
<1>1. Init => StorageHolds(adm)
  BY DEF Init, FreshState, Open, StorageHolds
<1>2. TypeOK /\ StorageHolds(adm) /\ [Next]_stateVars => StorageHolds(adm)'
  <2>1. StorageHolds(adm) /\ UNCHANGED stateVars => StorageHolds(adm)'
    BY DEF stateVars
  <2> QED BY <2>1, StepKeeps DEF Keeps
<1>3. TypeOK /\ StorageHolds(adm) /\ [Next]_stateVars
        => [ClosedForGood(adm) => stream' # stream \/ ClosedForGood(adm')]_stateVars
  <2>1. TypeOK /\ Restart => stream' # stream
    BY DEF Restart, TypeOK
  <2> QED BY <2>1, StepKeeps DEF Keeps
<1> QED BY <1>1, <1>2, <1>3, TypesHold, PTL DEF Spec, VerdictSticks

-----------------------------------------------------------------------------
(* The next boot. The strengthening: no frame in memory has the sequence    *)
(* number the next one will take, although a failed write hands a number    *)
(* out again, and no frame in the file is of a later incarnation.           *)

OlderThan(f, n) == f.stream < stream \/ (f.stream = stream /\ f.seq < n)
Fits(d, n)      == Loadable(d) /\ \A f \in Elems(d.outbox) : OlderThan(f, n)
OnDisk(d)       == Loadable(d) /\ \A f \in Elems(d.outbox) : f.stream <= stream
BootInv         == Fits(Mem, nextSeq) /\ OnDisk(disk)

(* The frames of a well-typed outbox are frames. *)
LEMMA ElemsAreFrames ==
  ASSUME NEW s \in Seq(FrameType)
  PROVE  /\ DOMAIN s = 1..Len(s) /\ Len(s) \in Nat
         /\ \A i \in 1..Len(s) : s[i] \in Elems(s)
         /\ \A f \in Elems(s) : f \in FrameType /\ f.stream \in Nat /\ f.seq \in Nat
<1>1. DOMAIN s = 1..Len(s) /\ Len(s) \in Nat
  OBVIOUS
<1>2. \A i \in 1..Len(s) : s[i] \in Elems(s)
  BY <1>1 DEF Elems
<1>3. \A f \in Elems(s) : f \in FrameType
  BY <1>1 DEF Elems
<1>4. \A f \in FrameType : f.stream \in Nat /\ f.seq \in Nat
  BY DEF FrameType
<1> QED BY <1>1, <1>2, <1>3, <1>4

(* A frame that is older than the next one does not have its key. *)
LEMMA FreshKey ==
  ASSUME TypeOK, NEW g \in FrameType, NEW f, OlderThan(g, nextSeq),
         f.stream = stream, f.seq = nextSeq
  PROVE  Key(g) # Key(f) /\ OlderThan(g, nextSeq + 1) /\ OlderThan(f, nextSeq + 1)
BY DEF OlderThan, Key, FrameType, TypeOK

(* What a handler saves is a well-typed file. *)
LEMMA FitsOnDisk ==
  ASSUME NEW d \in FileType, NEW n, Fits(d, n), stream \in Nat
  PROVE  OnDisk(d)
<1>1. \A f \in Elems(d.outbox) : f.stream \in Nat
  BY ElemsAreFrames DEF FileType
<1> QED BY <1>1 DEF Fits, OnDisk, OlderThan

(* Only the three fields of a state file matter. *)
LEMMA SameFieldsFit ==
  ASSUME NEW d, NEW e, NEW n, Fits(d, n),
         e.outbox = d.outbox, e.rejected = d.rejected, e.inbox = d.inbox
  PROVE  Fits(e, n)
<1>1. ResultCorrs(e) = ResultCorrs(d)
  BY DEF ResultCorrs
<1> QED BY <1>1 DEF Fits, Loadable

(* A fresh frame at the end keeps the file loadable: a result takes its     *)
(* delivery out of the inbox in the same write.                             *)
LEMMA AppendFits ==
  ASSUME TypeOK, NEW d \in FileType, Fits(d, nextSeq),
         NEW kind \in FrameKinds, NEW j \in Jobs \cup {NoJob}, NEW a \in 0..MaxAttempt
  PROVE  Fits(WithFrame(d, NewFrame(kind, j, a, nextSeq)), nextSeq + 1)
<1> DEFINE f == NewFrame(kind, j, a, nextSeq)
           e == WithFrame(d, f)
<1>1. /\ f \in FrameType /\ f.stream = stream /\ f.seq = nextSeq /\ f.corr = j /\ f.kind = kind
      /\ stream \in Nat /\ nextSeq \in Nat
  BY FileTypes DEF NewFrame, TypeOK
<1>2. /\ e.outbox = Append(d.outbox, f) /\ e.rejected = d.rejected
      /\ e.inbox = IF kind = "result" THEN [d.inbox EXCEPT ![j] = 0] ELSE d.inbox
      /\ d.outbox \in Seq(FrameType) /\ d.inbox \in [Jobs -> 0..MaxAttempt]
  BY <1>1 DEF WithFrame, FileType
<1> HIDE DEF f, e
<1>3. /\ Len(e.outbox) = Len(d.outbox) + 1 /\ e.outbox[Len(d.outbox) + 1] = f
      /\ \A i \in 1..Len(d.outbox) : e.outbox[i] = d.outbox[i]
      /\ DOMAIN e.outbox = 1..(Len(d.outbox) + 1) /\ DOMAIN d.outbox = 1..Len(d.outbox)
      /\ Len(d.outbox) \in Nat
  BY <1>1, <1>2, AppendProperties
<1>4. Elems(e.outbox) = Elems(d.outbox) \cup {f}
  <2>1. ASSUME NEW g \in Elems(e.outbox) PROVE g \in Elems(d.outbox) \cup {f}
    <3>1. PICK i \in 1..(Len(d.outbox) + 1) : g = e.outbox[i]
      BY <1>3, <2>1 DEF Elems
    <3>2. i \in 1..Len(d.outbox) \/ i = Len(d.outbox) + 1
      BY <1>3
    <3> QED BY <1>3, <3>1, <3>2 DEF Elems
  <2>2. ASSUME NEW i \in 1..Len(d.outbox) PROVE d.outbox[i] \in Elems(e.outbox)
    <3>1. i \in 1..(Len(d.outbox) + 1) /\ e.outbox[i] = d.outbox[i]
      BY <1>3
    <3> QED BY <1>3, <3>1 DEF Elems
  <2>3. f \in Elems(e.outbox)
    BY <1>3 DEF Elems
  <2>4. \A g \in Elems(d.outbox) : g \in Elems(e.outbox)
    BY <1>3, <2>2 DEF Elems
  <2> QED BY <2>1, <2>3, <2>4
<1>5. UniqueKeys(e.outbox)
  <2>1. \A i \in DOMAIN d.outbox : Key(d.outbox[i]) # Key(f)
    BY <1>1, <1>2, <1>3, ElemsAreFrames, FreshKey DEF Fits
  <2>2. UniqueKeys(d.outbox)
    BY DEF Fits, Loadable
  <2>3. \A i \in DOMAIN e.outbox : i \in DOMAIN d.outbox \/ i = Len(d.outbox) + 1
    BY <1>3
  <2> QED BY <1>3, <2>1, <2>2, <2>3 DEF UniqueKeys
<1>6. \A k \in ResultCorrs(e) \cap Jobs : e.inbox[k] = 0
  <2> SUFFICES ASSUME NEW k \in ResultCorrs(e) \cap Jobs PROVE e.inbox[k] = 0
    OBVIOUS
  <2>1. k \in ResultCorrs(d) \/ (kind = "result" /\ k = j)
    BY <1>1, <1>2, <1>4 DEF ResultCorrs
  <2>2. k \in ResultCorrs(d) => d.inbox[k] = 0
    BY DEF Fits, Loadable
  <2> QED BY <1>2, <2>1, <2>2
<1>7. \A g \in Elems(e.outbox) : OlderThan(g, nextSeq + 1)
  <2>1. \A g \in Elems(d.outbox) : OlderThan(g, nextSeq) /\ g \in FrameType
    BY <1>2, ElemsAreFrames DEF Fits
  <2>2. OlderThan(f, nextSeq + 1)
    BY <1>1 DEF OlderThan
  <2> QED BY <1>1, <1>4, <2>1, <2>2, FreshKey
<1> QED BY <1>5, <1>6, <1>7 DEF Fits, Loadable, e, f

(* So does a bootstrap frame put at the head. *)
LEMMA HeadFits ==
  ASSUME TypeOK, BootInv, NEW kind \in BootKinds
  PROVE  Fits(WithHead(NewFrame(kind, NoJob, 0, nextSeq)), nextSeq + 1)
<1> DEFINE f == NewFrame(kind, NoJob, 0, nextSeq)
           e == WithHead(f)
<1>1. /\ f.stream = stream /\ f.seq = nextSeq /\ f.kind \in BootKinds /\ f \in FrameType
      /\ stream \in Nat /\ nextSeq \in Nat
  <2>1. 0 \in 0..MaxAttempt /\ kind \in FrameKinds
    BY BoundsAssumption DEF FrameKinds
  <2>2. f \in FrameType
    BY <2>1, FileTypes
  <2> QED BY <2>2 DEF NewFrame, TypeOK
<1>2. /\ e.outbox = <<f>> \o outbox /\ e.rejected = rejected /\ e.inbox = inbox
      /\ Mem.outbox = outbox /\ Mem.rejected = rejected /\ Mem.inbox = inbox
      /\ outbox \in Seq(FrameType)
  BY DEF WithHead, Mem, TypeOK, FileType
<1> HIDE DEF f, e
<1>3. /\ DOMAIN e.outbox = 1..(Len(outbox) + 1) /\ DOMAIN outbox = 1..Len(outbox) /\ Len(outbox) \in Nat
      /\ e.outbox[1] = f /\ \A i \in 2..(Len(outbox) + 1) : e.outbox[i] = outbox[i - 1]
  <2>1. <<f>> \in Seq(FrameType) /\ Len(<<f>>) = 1 /\ <<f>>[1] = f
    BY <1>1
  <2> QED BY <1>2, <2>1, ConcatProperties
<1>4. Elems(e.outbox) = Elems(outbox) \cup {f}
  <2>1. \A i \in 1..Len(outbox) : outbox[i] = e.outbox[i + 1] /\ i + 1 \in DOMAIN e.outbox
    BY <1>3
  <2>2. \A i \in DOMAIN e.outbox : i = 1 \/ (i - 1 \in DOMAIN outbox /\ e.outbox[i] = outbox[i - 1])
    BY <1>3
  <2>3. f \in Elems(e.outbox)
    <3>1. 1 \in DOMAIN e.outbox
      BY <1>3
    <3> QED BY <1>3, <3>1 DEF Elems
  <2>4. Elems(e.outbox) \subseteq Elems(outbox) \cup {f}
    BY <1>3, <2>2 DEF Elems
  <2>5. Elems(outbox) \subseteq Elems(e.outbox)
    BY <1>3, <2>1 DEF Elems
  <2> QED BY <2>3, <2>4, <2>5
<1>5. UniqueKeys(e.outbox)
  <2>1. \A i \in DOMAIN outbox : Key(outbox[i]) # Key(f)
    BY <1>1, <1>2, <1>3, ElemsAreFrames, FreshKey DEF BootInv, Fits
  <2>2. UniqueKeys(outbox)
    BY <1>2 DEF BootInv, Fits, Loadable
  <2>3. \A i \in DOMAIN e.outbox : i = 1 \/ (i - 1 \in DOMAIN outbox /\ e.outbox[i] = outbox[i - 1])
    BY <1>3
  <2> QED BY <1>3, <2>1, <2>2, <2>3 DEF UniqueKeys
<1>6. \A k \in ResultCorrs(e) \cap Jobs : e.inbox[k] = 0
  <2>1. ResultCorrs(e) = ResultCorrs(Mem)
    BY <1>1, <1>2, <1>4 DEF ResultCorrs, BootKinds
  <2> QED BY <1>2, <2>1 DEF BootInv, Fits, Loadable
<1>7. \A g \in Elems(e.outbox) : OlderThan(g, nextSeq + 1)
  <2>1. \A g \in Elems(outbox) : OlderThan(g, nextSeq) /\ g \in FrameType
    BY <1>2, ElemsAreFrames DEF BootInv, Fits
  <2>2. OlderThan(f, nextSeq + 1)
    BY <1>1 DEF OlderThan
  <2> QED BY <1>1, <1>4, <2>1, <2>2, FreshKey
<1> QED BY <1>5, <1>6, <1>7 DEF Fits, Loadable, e, f

(* A job is saved only while no result of it is held. *)
LEMMA JobFits ==
  ASSUME TypeOK, BootInv, NEW j \in Jobs, NEW a \in 0..MaxAttempt, j \notin ResultCorrs(Mem)
  PROVE  Fits(WithJob(j, a), nextSeq)
<1> DEFINE d == WithJob(j, a)
<1>1. /\ d.outbox = outbox /\ d.rejected = rejected /\ d.inbox = [inbox EXCEPT ![j] = a]
      /\ Mem.outbox = outbox /\ Mem.rejected = rejected /\ Mem.inbox = inbox
      /\ inbox \in [Jobs -> 0..MaxAttempt]
  BY DEF WithJob, Mem, TypeOK, FileType
<1> HIDE DEF d
<1>2. ResultCorrs(d) = ResultCorrs(Mem)
  BY <1>1 DEF ResultCorrs
<1>3. \A k \in ResultCorrs(d) \cap Jobs : d.inbox[k] = 0
  BY <1>1, <1>2 DEF BootInv, Fits, Loadable
<1> QED BY <1>1, <1>3 DEF BootInv, Fits, Loadable, d

(* Giving a delivery up never hurts. *)
LEMMA ReleaseFits ==
  ASSUME NEW d \in FileType, NEW n, Fits(d, n), NEW inb, NEW j,
         inb = [d.inbox EXCEPT ![j] = 0]
  PROVE  Fits([d EXCEPT !.inbox = inb], n)
<1> DEFINE e == [d EXCEPT !.inbox = inb]
<1>1. e.outbox = d.outbox /\ e.rejected = d.rejected /\ e.inbox = inb /\ d.inbox \in [Jobs -> 0..MaxAttempt]
  BY DEF FileType
<1> HIDE DEF e
<1>2. ResultCorrs(e) = ResultCorrs(d)
  BY <1>1 DEF ResultCorrs
<1>3. \A k \in ResultCorrs(e) \cap Jobs : e.inbox[k] = 0
  BY <1>1, <1>2 DEF Fits, Loadable
<1> QED BY <1>1, <1>3 DEF Fits, Loadable, e

(* The head leaves, to the dead-letter or for good, and the event that      *)
(* reports an acknowledged result takes the next sequence number.           *)
LEMMA LeavingFits ==
  ASSUME TypeOK, BootInv, NEW f \in Elems(outbox), NEW disp \in Dispositions, AtHead(f)
  PROVE  Fits(WithoutHead(f, disp), nextSeq + Cardinality(Elems(Acked(f, disp))))
<1> DEFINE gone == IF disp \in Refusals /\ ~IsReport(f) THEN rejected \cup {f} ELSE rejected
           base == [outbox |-> Tail(outbox), rejected |-> gone, inbox |-> inbox]
<1>1. /\ outbox \in Seq(FrameType) /\ outbox # <<>> /\ rejected \subseteq FrameType
      /\ inbox \in [Jobs -> 0..MaxAttempt] /\ f \in FrameType /\ nextSeq \in Nat
      /\ Mem.outbox = outbox /\ Mem.rejected = rejected /\ Mem.inbox = inbox
  BY SettleTypesOfOperators DEF AtHead, TypeOK, FileType, Mem
<1>2. /\ Tail(outbox) \in Seq(FrameType) /\ Len(Tail(outbox)) = Len(outbox) - 1
      /\ \A i \in 1..(Len(outbox) - 1) : Tail(outbox)[i] = outbox[i + 1]
      /\ DOMAIN Tail(outbox) = 1..(Len(outbox) - 1) /\ DOMAIN outbox = 1..Len(outbox)
      /\ Len(outbox) \in Nat
  BY <1>1, HeadTailProperties
<1>3. base \in FileType /\ base.outbox = Tail(outbox) /\ base.rejected = gone /\ base.inbox = inbox
  BY <1>1, <1>2 DEF FileType
<1>4. Elems(Tail(outbox)) \subseteq Elems(outbox)
  <2>1. \A i \in 1..(Len(outbox) - 1) : i + 1 \in DOMAIN outbox
    BY <1>2
  <2> QED BY <1>2, <2>1 DEF Elems
<1>5. Fits(base, nextSeq)
  <2>1. UniqueKeys(Tail(outbox))
    <3>1. UniqueKeys(outbox)
      BY <1>1 DEF BootInv, Fits, Loadable
    <3>2. \A i \in 1..(Len(outbox) - 1) : i + 1 \in DOMAIN outbox /\ i \in Nat
      BY <1>2
    <3>3. \A i, k \in 1..(Len(outbox) - 1) :
            Key(Tail(outbox)[i]) = Key(Tail(outbox)[k]) => i + 1 = k + 1
      BY <1>2, <3>1, <3>2 DEF UniqueKeys
    <3>4. \A i, k \in 1..(Len(outbox) - 1) : i + 1 = k + 1 => i = k
      OBVIOUS
    <3> QED BY <1>2, <3>3, <3>4 DEF UniqueKeys
  <2>2. ResultCorrs(base) \subseteq ResultCorrs(Mem)
    BY <1>1, <1>3, <1>4 DEF ResultCorrs
  <2>3. \A k \in ResultCorrs(base) \cap Jobs : base.inbox[k] = 0
    BY <1>1, <1>3, <2>2 DEF BootInv, Fits, Loadable
  <2>4. \A g \in Elems(base.outbox) : OlderThan(g, nextSeq)
    BY <1>1, <1>3, <1>4 DEF BootInv, Fits
  <2> HIDE DEF base
  <2> QED BY <1>3, <2>1, <2>3, <2>4 DEF Fits, Loadable
<1>6. CASE Acked(f, disp) = <<>>
  <2>1. Tail(outbox) \o Acked(f, disp) = Tail(outbox)
    BY <1>2, <1>6, ConcatEmptySeq
  <2>2. WithoutHead(f, disp) = base
    BY <2>1 DEF WithoutHead
  <2>3. Elems(Acked(f, disp)) = {}
    BY <1>6 DEF Elems
  <2>4. Cardinality({}) = 0
    BY FS_EmptySet
  <2> HIDE DEF base
  <2>5. nextSeq + Cardinality(Elems(Acked(f, disp))) = nextSeq
    BY <1>1, <2>3, <2>4
  <2> QED BY <1>5, <2>2, <2>5
<1>7. CASE Acked(f, disp) # <<>>
  <2> DEFINE g == NewFrame("event", f.corr, 0, nextSeq)
  <2>1. Acked(f, disp) = <<g>>
    BY <1>7 DEF Acked
  <2>2. 0 \in 0..MaxAttempt /\ "event" \in FrameKinds /\ f.corr \in Jobs \cup {NoJob}
    BY <1>1, BoundsAssumption DEF FrameKinds, FrameType
  <2>3. g \in FrameType /\ g.kind # "result"
    BY <2>2, FileTypes DEF NewFrame
  <2>4. Fits(WithFrame(base, g), nextSeq + 1)
    <3> HIDE DEF base
    <3> QED BY <1>3, <1>5, <2>2, AppendFits
  <2>5. Tail(outbox) \o <<g>> = Append(Tail(outbox), g)
    <3> HIDE DEF g
    <3> QED BY <1>2, <2>3, AppendIsConcat
  <2>6. /\ WithoutHead(f, disp).outbox = WithFrame(base, g).outbox
        /\ WithoutHead(f, disp).rejected = WithFrame(base, g).rejected
        /\ WithoutHead(f, disp).inbox = WithFrame(base, g).inbox
    <3> HIDE DEF g
    <3>1. /\ WithFrame(base, g).outbox = Append(Tail(outbox), g)
          /\ WithFrame(base, g).rejected = gone /\ WithFrame(base, g).inbox = inbox
      BY <2>3 DEF WithFrame
    <3> QED BY <2>1, <2>5, <3>1 DEF WithoutHead
  <2>7. Elems(Acked(f, disp)) = {g}
    BY <2>1 DEF Elems
  <2>8. Cardinality({g}) = 1
    BY FS_Singleton
  <2> HIDE DEF base, g
  <2>9. Fits(WithoutHead(f, disp), nextSeq + 1)
    BY <2>4, <2>6, SameFieldsFit
  <2> QED BY <2>7, <2>8, <2>9
<1> QED BY <1>6, <1>7

(* What one step has to show, while the incarnation lasts. *)
LEMMA BootKept ==
  ASSUME UNCHANGED stream, Fits(Mem', nextSeq'), OnDisk(disk')
  PROVE  BootInv'
<1>1. \A d, n : Fits(d, n) => Fits(d, n)'
  BY DEF Fits, OlderThan
<1> QED BY DEF BootInv, Fits, OnDisk, OlderThan

(* A write that succeeds leaves its value in both places; one that fails    *)
(* leaves one of two values in the file.                                    *)
LEMMA WriteKeeps ==
  ASSUME TypeOK, NEW d \in FileType, NEW n, Fits(d, n)
  PROVE  /\ Persist(d) => Mem' = d /\ OnDisk(disk')
         /\ \A other : OnDisk(other) /\ PersistFails(d, other) => OnDisk(disk')
<1>1. OnDisk(d)
  BY FitsOnDisk DEF TypeOK
<1>2. Persist(d) => Mem' = d
  BY DEF Persist, Mem, FileType
<1> QED BY <1>1, <1>2 DEF Persist, PersistFails

(* The probe before an append writes a file that was already sound. *)
LEMMA ProbeKeeps ==
  ASSUME TypeOK, BootInv
  PROVE  OnDisk(ProbedDisk) /\ OnDisk(Mem)
BY FitsOnDisk DEF ProbedDisk, BootInv, TypeOK

(* An append, or one that fails, keeps the file loadable: its seq is fresh in memory. *)
LEMMA AppendKeepsBoot ==
  ASSUME TypeOK, BootInv, NEW kind \in FrameKinds, NEW j \in Jobs \cup {NoJob}, NEW a \in 0..MaxAttempt
  PROVE  Appended(kind, j, a) \/ AppendFails(kind, j, a) => BootInv'
<1> DEFINE f == NewFrame(kind, j, a, nextSeq)
           d == WithFrame(Mem, f)
<1>1. Fits(d, nextSeq + 1) /\ d \in FileType /\ Fits(Mem, nextSeq) /\ Mem \in FileType
  BY AppendFits, FileTypes DEF BootInv
<1>2. OnDisk(ProbedDisk) /\ OnDisk(disk)
  BY ProbeKeeps DEF BootInv
<1>3. ASSUME Appended(kind, j, a) PROVE BootInv'
  <2>1. Persist(d) /\ nextSeq' = nextSeq + 1 /\ UNCHANGED stream
    BY <1>3 DEF Appended
  <2> HIDE DEF d
  <2> QED BY <1>1, <2>1, WriteKeeps, BootKept
<1>4. ASSUME AppendFails(kind, j, a) PROVE BootInv'
  <2>1. /\ PersistFails(Mem, disk) \/ PersistFails(d, ProbedDisk)
        /\ UNCHANGED <<outbox, rejected, inbox, stream, nextSeq>>
    BY <1>4 DEF AppendFails
  <2> HIDE DEF d
  <2>2. OnDisk(disk')
    BY <1>1, <1>2, <2>1, WriteKeeps
  <2>3. Mem' = Mem
    BY <2>1 DEF Mem
  <2> QED BY <1>1, <2>1, <2>2, <2>3, BootKept
<1> QED BY <1>3, <1>4

(* A step that touches no frame, delivery or seq keeps the boot invariant. *)
LEMMA UnchangedKeepsBoot ==
  ASSUME BootInv, UNCHANGED <<fileVars, stream, nextSeq>>
  PROVE  BootInv'
<1>1. Mem' = Mem /\ disk' = disk
  BY DEF fileVars, Mem
<1> QED BY <1>1, BootKept DEF BootInv

(* The workers and the claim queue keep the boot invariant. *)
LEMMA WorkKeepsBoot ==
  ASSUME TypeOK, BootInv, WorkStep
  PROVE  BootInv'
<1>1. PICK j \in Jobs : WorkerEvent(j) \/ WorkerResult(j) \/ WorkerAborts(j) \/ ClaimJob(j) \/ ClaimSkips(j)
  BY DEF WorkStep
<1>2. /\ 0 \in 0..MaxAttempt /\ {"event", "result"} \subseteq FrameKinds /\ inbox[j] \in 0..MaxAttempt
  BY BoundsAssumption DEF FrameKinds, TypeOK, FileType, Mem
<1>3. CASE WorkerEvent(j) \/ WorkerResult(j)
  BY <1>2, <1>3, AppendKeepsBoot DEF WorkerEvent, WorkerResult
<1>4. CASE WorkerAborts(j)
  <2>1. CASE ResultRefused(j)
    <3>1. UNCHANGED <<outbox, rejected, inbox, stream, nextSeq>> /\ disk' = ProbedDisk
      BY <2>1 DEF ResultRefused
    <3>2. Mem' = Mem
      BY <3>1 DEF Mem
    <3> QED BY <3>1, <3>2, ProbeKeeps, BootKept DEF BootInv
  <2>2. CASE AppendFails("event", j, 0) \/ AppendFails("result", j, inbox[j])
    BY <1>2, <2>2, AppendKeepsBoot
  <2> QED BY <1>4, <2>1, <2>2 DEF WorkerAborts
<1>5. CASE ClaimJob(j) \/ ClaimSkips(j)
  BY <1>5, UnchangedKeepsBoot DEF ClaimJob, ClaimSkips
<1> QED BY <1>1, <1>3, <1>4, <1>5

(* The intake keeps the boot invariant: a job is held only while no result of it is. *)
LEMMA IntakeKeepsBoot ==
  ASSUME TypeOK, BootInv, IntakeStep
  PROVE  BootInv'
<1>1. PICK j \in Jobs, a \in 1..MaxAttempt :
        \/ Deduplicated(j, a) \/ JobAccepted(j, a) \/ JobNotSaved(j, a) \/ ReceiptNotSaved(j, a)
        \/ JobConflicts(j, a)
        \/ InvalidEvent(j) \/ InvalidReceipt(j, a) \/ InvalidResult(j, a)
        \/ \E kind \in {"event", "job_ack", "result"} : InvalidUnanswered(kind, j, a)
  BY DEF IntakeStep
<1>2. /\ 0 \in 0..MaxAttempt /\ a \in 0..MaxAttempt
      /\ {"event", "result", "job_ack"} \subseteq FrameKinds
  BY BoundsAssumption DEF FrameKinds
<1>3. CASE Deduplicated(j, a) \/ InvalidEvent(j) \/ InvalidReceipt(j, a) \/ InvalidResult(j, a)
  BY <1>2, <1>3, AppendKeepsBoot DEF Deduplicated, InvalidEvent, InvalidReceipt, InvalidResult
<1> DEFINE d == WithJob(j, a)
           e == WithFrame(d, NewFrame("job_ack", j, a, nextSeq))
<1>4. ASSUME Acceptable(j, a)
      PROVE  /\ Fits(d, nextSeq) /\ d \in FileType /\ OnDisk(d)
             /\ Fits(e, nextSeq + 1) /\ e \in FileType
  <2>1. Fits(d, nextSeq) /\ d \in FileType
    BY <1>2, <1>4, JobFits, FileTypes DEF Acceptable
  <2>2. Fits(e, nextSeq + 1) /\ e \in FileType
    BY <1>2, <2>1, AppendFits, FileTypes
  <2> QED BY <2>1, <2>2, FitsOnDisk DEF TypeOK
<1>5. CASE JobAccepted(j, a)
  <2>1. Acceptable(j, a) /\ Persist(e) /\ nextSeq' = nextSeq + 1 /\ UNCHANGED stream
    BY <1>5 DEF JobAccepted
  <2> HIDE DEF e
  <2> QED BY <1>4, <2>1, WriteKeeps, BootKept
<1>6. CASE JobNotSaved(j, a)
  <2>1. /\ Acceptable(j, a) /\ PersistFails(d, disk)
        /\ UNCHANGED <<outbox, rejected, inbox, stream, nextSeq>>
    BY <1>6 DEF JobNotSaved
  <2>2. Mem' = Mem
    BY <2>1 DEF Mem
  <2> HIDE DEF d
  <2> QED BY <1>4, <2>1, <2>2, WriteKeeps, BootKept DEF BootInv
<1>7. CASE ReceiptNotSaved(j, a)
  <2>1. CASE AppendFails("job_ack", j, a)
    BY <1>2, <2>1, AppendKeepsBoot
  <2>2. CASE ~AppendFails("job_ack", j, a)
    <3>1. /\ Acceptable(j, a) /\ PersistFails(e, d) /\ inbox' = d.inbox
          /\ UNCHANGED <<outbox, rejected, stream, nextSeq>>
      BY <1>7, <2>2 DEF ReceiptNotSaved
    <3>2. Mem'.outbox = d.outbox /\ Mem'.rejected = d.rejected /\ Mem'.inbox = d.inbox
      BY <3>1 DEF Mem, WithJob
    <3> HIDE DEF d, e
    <3>3. Fits(Mem', nextSeq)
      BY <1>4, <3>1, <3>2, SameFieldsFit
    <3>4. OnDisk(disk')
      BY <1>4, <3>1, WriteKeeps
    <3> QED BY <3>1, <3>3, <3>4, BootKept
  <2> QED BY <2>1, <2>2
<1>8. CASE JobConflicts(j, a)
  BY <1>8, UnchangedKeepsBoot DEF JobConflicts, fileVars
<1>9. CASE \E kind \in {"event", "job_ack", "result"} : InvalidUnanswered(kind, j, a)
  <2>1. PICK kind \in {"event", "job_ack", "result"} : InvalidUnanswered(kind, j, a)
    BY <1>9
  <2> DEFINE n == IF kind = "event" THEN 0 ELSE a
             w == WithFrame(Mem, NewFrame(kind, j, n, nextSeq))
  <2>2. n \in 0..MaxAttempt
    BY <1>2
  <2>3. /\ PersistFails(Mem, disk) \/ PersistFails(w, ProbedDisk) \/ disk' = ProbedDisk
        /\ UNCHANGED <<outbox, rejected, inbox, stream, nextSeq>>
    BY <2>1 DEF InvalidUnanswered
  <2> HIDE DEF n
  <2>4. Fits(w, nextSeq + 1) /\ w \in FileType /\ Fits(Mem, nextSeq) /\ Mem \in FileType
    BY <1>2, <2>2, AppendFits, FileTypes DEF BootInv
  <2> HIDE DEF w
  <2>5. OnDisk(disk')
    BY <2>3, <2>4, WriteKeeps, ProbeKeeps DEF BootInv
  <2>6. Mem' = Mem
    BY <2>3 DEF Mem
  <2> QED BY <2>3, <2>4, <2>5, <2>6, BootKept
<1> QED BY <1>1, <1>3, <1>5, <1>6, <1>7, <1>8, <1>9

(* A frame put at the head keeps the boot invariant. *)
LEMMA HeadKeepsBoot ==
  ASSUME TypeOK, BootInv, HeadStep
  PROVE  BootInv'
<1>1. PICK kind \in BootKinds : HeadAppended(kind) \/ HeadAppendFails(kind)
  BY DEF HeadStep, AnnounceReady, AnnounceReadyFails, BootKinds
<1> DEFINE d == WithHead(NewFrame(kind, NoJob, 0, nextSeq))
<1>2. Fits(d, nextSeq + 1) /\ d \in FileType
  <2>1. 0 \in 0..MaxAttempt /\ kind \in FrameKinds
    BY BoundsAssumption DEF FrameKinds
  <2> QED BY <2>1, HeadFits, FileTypes
<1>3. CASE HeadAppended(kind)
  <2>1. Persist(d) /\ nextSeq' = nextSeq + 1 /\ UNCHANGED stream
    BY <1>3 DEF HeadAppended
  <2> HIDE DEF d
  <2> QED BY <1>2, <2>1, WriteKeeps, BootKept
<1>4. CASE HeadAppendFails(kind)
  <2>1. PersistFails(d, disk) /\ UNCHANGED <<outbox, rejected, inbox, stream, nextSeq>>
    BY <1>4 DEF HeadAppendFails
  <2>2. Mem' = Mem
    BY <2>1 DEF Mem
  <2> HIDE DEF d
  <2> QED BY <1>2, <2>1, <2>2, WriteKeeps, BootKept DEF BootInv
<1> QED BY <1>1, <1>3, <1>4

(* Settling a frame keeps the boot invariant. *)
LEMMA SettleKeepsBoot ==
  ASSUME TypeOK, BootInv, SettleStep
  PROVE  BootInv'
<1>1. PICK f \in Elems(outbox), disp \in Dispositions :
        Settled(f, disp) \/ SettleFails(f, disp) \/ ReleaseNotSaved(f, disp)
  BY DEF SettleStep
<1> DEFINE leaves == Leaves(f, disp)
           d1     == IF leaves THEN WithoutHead(f, disp) ELSE Mem
           free   == [d1 EXCEPT !.inbox = [inbox EXCEPT ![f.corr] = 0]]
           acked  == IF leaves THEN Elems(Acked(f, disp)) ELSE {}
           n      == nextSeq + Cardinality(acked)
<1>2. d1 \in FileType /\ d1.inbox = inbox
  <2>1. WithoutHead(f, disp).inbox = inbox /\ Mem.inbox = inbox
    BY DEF WithoutHead, Mem
  <2> QED BY <2>1, FileTypes, SettleTypesOfOperators DEF Leaves
<1>3. Fits(d1, n)
  <2>1. CASE leaves
    BY <2>1, LeavingFits DEF Leaves
  <2>2. CASE ~leaves
    <3>1. Cardinality({}) = 0
      BY FS_EmptySet
    <3>2. n = nextSeq
      BY <2>2, <3>1 DEF TypeOK
    <3> QED BY <2>2, <3>2 DEF BootInv
  <2> QED BY <2>1, <2>2
<1>4. Fits(free, n) /\ free \in FileType
  <2>1. 0 \in 0..MaxAttempt /\ inbox \in [Jobs -> 0..MaxAttempt]
    BY BoundsAssumption DEF TypeOK, FileType, Mem
  <2>2. [inbox EXCEPT ![f.corr] = 0] \in [Jobs -> 0..MaxAttempt]
    BY <2>1
  <2>3. free \in FileType
    BY <1>2, <2>2 DEF FileType
  <2> HIDE DEF d1, n
  <2> QED BY <1>2, <1>3, <2>3, ReleaseFits
<1>5. OnDisk(d1) /\ OnDisk(free) /\ OnDisk(disk)
  <2> HIDE DEF d1, free, n
  <2> QED BY <1>2, <1>3, <1>4, FitsOnDisk DEF BootInv, TypeOK
<1>6. CASE Settled(f, disp)
  <2> DEFINE d2 == IF Releases(f, disp) THEN free ELSE d1
  <2>1. /\ outbox' = d2.outbox /\ rejected' = d2.rejected /\ inbox' = d2.inbox
        /\ disk' = IF leaves \/ Releases(f, disp) THEN d2 ELSE disk
        /\ nextSeq' = n /\ UNCHANGED stream
    BY <1>6 DEF Settled
  <2> HIDE DEF d1, free, n, leaves
  <2>2. Fits(d2, n) /\ OnDisk(d2)
    BY <1>3, <1>4, <1>5
  <2> HIDE DEF d2
  <2>3. Mem'.outbox = d2.outbox /\ Mem'.rejected = d2.rejected /\ Mem'.inbox = d2.inbox
    BY <2>1 DEF Mem
  <2>4. Fits(Mem', nextSeq')
    BY <2>1, <2>2, <2>3, SameFieldsFit
  <2>5. OnDisk(disk')
    BY <1>5, <2>1, <2>2
  <2> QED BY <2>1, <2>4, <2>5, BootKept
<1>7. CASE SettleFails(f, disp)
  <2>1. /\ leaves /\ PersistFails(WithoutHead(f, disp), disk)
        /\ UNCHANGED <<outbox, rejected, inbox, stream, nextSeq>>
    BY <1>7 DEF SettleFails
  <2>2. d1 = WithoutHead(f, disp)
    BY <2>1
  <2>3. Mem' = Mem
    BY <2>1 DEF Mem
  <2> HIDE DEF d1
  <2>4. OnDisk(disk')
    BY <1>5, <2>1, <2>2 DEF PersistFails
  <2> QED BY <2>1, <2>3, <2>4, BootKept DEF BootInv
<1>8. CASE ReleaseNotSaved(f, disp)
  <2>1. /\ outbox' = free.outbox /\ rejected' = free.rejected /\ inbox' = free.inbox
        /\ PersistFails(free, IF leaves THEN d1 ELSE disk)
        /\ Releases(f, disp) /\ UNCHANGED <<stream, nextSeq>>
    BY <1>8 DEF ReleaseNotSaved
  <2>2. n = nextSeq
    <3>1. Acked(f, disp) = <<>>
      BY <2>1 DEF Acked, Releases
    <3>2. Elems(Acked(f, disp)) = {}
      BY <3>1 DEF Elems
    <3>3. Cardinality({}) = 0
      BY FS_EmptySet
    <3> QED BY <3>2, <3>3 DEF TypeOK
  <2> HIDE DEF d1, free, n, leaves
  <2>3. Mem'.outbox = free.outbox /\ Mem'.rejected = free.rejected /\ Mem'.inbox = free.inbox
    BY <2>1 DEF Mem
  <2>4. Fits(Mem', nextSeq')
    BY <1>4, <2>1, <2>2, <2>3, SameFieldsFit
  <2>5. OnDisk(disk')
    BY <1>5, <2>1 DEF PersistFails
  <2> QED BY <2>1, <2>4, <2>5, BootKept
<1> QED BY <1>1, <1>6, <1>7, <1>8

(* The next incarnation starts from the file, with a stream of its own. *)
LEMMA RestartKeepsBoot ==
  ASSUME TypeOK, BootInv, Restart
  PROVE  BootInv'
<1>1. PICK kept \in WithoutBoot(disk.outbox) : Persist([disk EXCEPT !.outbox = kept])
  BY DEF Restart
<1>2. /\ disk.outbox \in Seq(FrameType) /\ disk \in FileType
      /\ stream \in Nat /\ stream' = stream + 1 /\ Loadable(disk)
  BY DEF Restart, TypeOK, FileType
<1>3. kept \in Seq(FrameType) /\ Elems(kept) \subseteq Elems(disk.outbox) /\ UniqueKeys(kept)
  BY <1>2, BootKeeps DEF Loadable
<1> DEFINE d == [disk EXCEPT !.outbox = kept]
<1>4. /\ d.outbox = kept /\ d.rejected = disk.rejected /\ d.inbox = disk.inbox /\ d \in FileType
  BY <1>2, <1>3 DEF FileType
<1> HIDE DEF d
<1>5. Loadable(d)
  <2>1. ResultCorrs(d) \subseteq ResultCorrs(disk)
    BY <1>3, <1>4 DEF ResultCorrs
  <2> QED BY <1>2, <1>3, <1>4, <2>1 DEF Loadable
<1>6. \A f \in Elems(d.outbox) : f.stream <= stream /\ f.stream \in Nat
  BY <1>2, <1>3, <1>4, ElemsAreFrames DEF BootInv, OnDisk
<1>7. \A f \in Elems(d.outbox) : f.stream < stream' /\ f.stream <= stream'
  BY <1>2, <1>6
<1>8. Mem' = d /\ disk' = d
  <2>1. Persist(d)
    BY <1>1 DEF d
  <2> QED BY <1>4, <2>1 DEF Persist, Mem, FileType
<1> QED BY <1>5, <1>7, <1>8 DEF BootInv, Fits, OnDisk, OlderThan

(* The inductive invariant behind the next two theorems. *)
LEMMA BootInvHolds == Spec => []BootInv
<1>1. Init => BootInv
  <2> SUFFICES ASSUME Init PROVE BootInv
    OBVIOUS
  <2>1. Mem.outbox = <<>> /\ Mem.rejected = {} /\ disk = Mem
    BY DEF Init, FreshState, Mem
  <2>2. Elems(Mem.outbox) = {} /\ ResultCorrs(Mem) = {} /\ UniqueKeys(Mem.outbox)
    BY <2>1 DEF Elems, ResultCorrs, UniqueKeys
  <2> QED BY <2>1, <2>2 DEF BootInv, Fits, OnDisk, Loadable
<1>2. TypeOK /\ BootInv /\ [Next]_stateVars => BootInv'
  <2> SUFFICES ASSUME TypeOK, BootInv, [Next]_stateVars PROVE BootInv'
    OBVIOUS
  <2>1. CASE UNCHANGED stateVars
    BY <2>1, UnchangedKeepsBoot DEF stateVars, fileVars
  <2>2. CASE LatchStep
    BY <2>2, UnchangedKeepsBoot DEF LatchStep, SocketOpened, LatchPending, LatchVerdict
  <2> QED BY <2>1, <2>2, WorkKeepsBoot, IntakeKeepsBoot, HeadKeepsBoot, SettleKeepsBoot,
            RestartKeepsBoot DEF Next
<1> QED BY <1>1, <1>2, TypesHold, PTL DEF Spec

(* No order of appends, settles, accepts, failed writes and restarts leaves *)
(* a state file that the next boot refuses.                                 *)
THEOREM BootsAlways == Spec => []BootNeverRefuses
<1>1. BootInv => BootNeverRefuses
  BY DEF BootInv, Fits, OnDisk, BootNeverRefuses
<1> QED BY <1>1, BootInvHolds, PTL

-----------------------------------------------------------------------------
(* Frames that are owed. The strengthening: bootstrap frames are never owed,*)
(* since a boot drops them and a refused reopen report is forgotten.        *)

Covers(d) == owed \subseteq Holds(d)
OwedInv   == Covers(Mem) /\ Covers(disk) /\ \A f \in owed : ~IsBoot(f)

(* An append adds one frame to what is held; the head append keeps the rest.*)
LEMMA AppendHolds ==
  ASSUME NEW d \in FileType, NEW f \in FrameType
  PROVE  Holds(WithFrame(d, f)) = Holds(d) \cup {f}
<1> DEFINE e == WithFrame(d, f)
<1>1. e.outbox = Append(d.outbox, f) /\ e.rejected = d.rejected /\ d.outbox \in Seq(FrameType)
  BY DEF WithFrame, FileType
<1> HIDE DEF e
<1>2. /\ DOMAIN e.outbox = 1..(Len(d.outbox) + 1) /\ DOMAIN d.outbox = 1..Len(d.outbox)
      /\ e.outbox[Len(d.outbox) + 1] = f /\ Len(d.outbox) \in Nat
      /\ \A i \in 1..Len(d.outbox) : e.outbox[i] = d.outbox[i]
  BY <1>1, AppendProperties
<1>3. Elems(e.outbox) = Elems(d.outbox) \cup {f}
  BY <1>2 DEF Elems
<1> QED BY <1>1, <1>3 DEF Holds, e

(* A frame put at the head leaves every frame held that was. *)
LEMMA HeadHolds ==
  ASSUME TypeOK, NEW f \in FrameType
  PROVE  Holds(Mem) \subseteq Holds(WithHead(f))
<1> DEFINE e == WithHead(f)
<1>1. /\ e.outbox = <<f>> \o outbox /\ e.rejected = rejected
      /\ Mem.outbox = outbox /\ Mem.rejected = rejected /\ outbox \in Seq(FrameType)
  BY DEF WithHead, Mem, TypeOK, FileType
<1> HIDE DEF e
<1>2. /\ DOMAIN e.outbox = 1..(Len(outbox) + 1) /\ DOMAIN outbox = 1..Len(outbox) /\ Len(outbox) \in Nat
      /\ \A i \in 2..(Len(outbox) + 1) : e.outbox[i] = outbox[i - 1]
  <2>1. <<f>> \in Seq(FrameType) /\ Len(<<f>>) = 1
    OBVIOUS
  <2> QED BY <1>1, <2>1, ConcatProperties
<1>3. \A i \in 1..Len(outbox) : outbox[i] = e.outbox[i + 1] /\ i + 1 \in DOMAIN e.outbox
  BY <1>2
<1>4. Elems(outbox) \subseteq Elems(e.outbox)
  BY <1>2, <1>3 DEF Elems
<1> QED BY <1>1, <1>4 DEF Holds, e

(* Retiring the head loses at most that frame, and a refused one not at all,*)
(* unless it is a reopen report.                                            *)
LEMMA LeavingHolds ==
  ASSUME TypeOK, BootInv, NEW f \in Elems(outbox), NEW disp \in Dispositions, AtHead(f)
  PROVE  /\ Holds(Mem) \ {f} \subseteq Holds(WithoutHead(f, disp))
         /\ Elems(Acked(f, disp)) \subseteq Holds(WithoutHead(f, disp))
         /\ disp \in Refusals /\ ~IsReport(f) => f \in Holds(WithoutHead(f, disp))
<1> DEFINE e == WithoutHead(f, disp)
           t == Tail(outbox)
           k == Acked(f, disp)
<1>1. /\ outbox \in Seq(FrameType) /\ outbox # <<>> /\ t \in Seq(FrameType)
      /\ Mem.outbox = outbox /\ Mem.rejected = rejected
  BY DEF AtHead, TypeOK, FileType, Mem
<1>2. /\ Len(t) = Len(outbox) - 1 /\ \A i \in 1..Len(t) : t[i] = outbox[i + 1]
      /\ DOMAIN t = 1..Len(t) /\ DOMAIN outbox = 1..Len(outbox) /\ Len(outbox) \in Nat
      /\ Len(outbox) > 0 /\ Head(outbox) = outbox[1] /\ Len(t) \in Nat
  BY <1>1, HeadTailProperties
<1>3. f = outbox[1]
  <2>1. PICK i \in DOMAIN outbox : f = outbox[i]
    BY DEF Elems
  <2>2. 1 \in DOMAIN outbox /\ Key(outbox[i]) = Key(outbox[1])
    BY <1>2, <2>1 DEF AtHead
  <2> QED BY <1>1, <2>1, <2>2 DEF BootInv, Fits, Loadable, UniqueKeys
<1>4. k \in Seq(FrameType)
  <2> f \in FrameType
    BY SettleTypesOfOperators
  <2>1. 0 \in 0..MaxAttempt /\ "event" \in FrameKinds /\ f.corr \in Jobs \cup {NoJob}
    BY BoundsAssumption DEF FrameKinds, FrameType
  <2>2. NewFrame("event", f.corr, 0, nextSeq) \in FrameType
    BY <2>1, FileTypes
  <2>3. \A g \in FrameType : <<g>> \in Seq(FrameType)
    OBVIOUS
  <2> QED BY <2>2, <2>3, EmptySeq DEF Acked
<1>5. /\ e.outbox = t \o k /\ rejected \subseteq e.rejected
      /\ disp \in Refusals /\ ~IsReport(f) => f \in e.rejected
  BY DEF WithoutHead
<1> HIDE DEF e, k, t
<1>6. /\ DOMAIN e.outbox = 1..(Len(t) + Len(k)) /\ DOMAIN k = 1..Len(k) /\ Len(k) \in Nat
      /\ \A i \in 1..Len(t) : e.outbox[i] = t[i]
      /\ \A i \in (Len(t) + 1)..(Len(t) + Len(k)) : e.outbox[i] = k[i - Len(t)]
  BY <1>1, <1>4, <1>5, ConcatProperties
<1>7. Elems(outbox) \ {f} \subseteq Elems(e.outbox)
  <2> SUFFICES ASSUME NEW i \in DOMAIN outbox, outbox[i] # f PROVE outbox[i] \in Elems(e.outbox)
    BY DEF Elems
  <2>1. i - 1 \in 1..Len(t) /\ i - 1 + 1 = i
    BY <1>2, <1>3
  <2>2. outbox[i] = e.outbox[i - 1] /\ i - 1 \in DOMAIN e.outbox
    BY <1>2, <1>6, <2>1
  <2> QED BY <2>2 DEF Elems
<1>8. Elems(k) \subseteq Elems(e.outbox)
  <2> SUFFICES ASSUME NEW i \in 1..Len(k) PROVE k[i] \in Elems(e.outbox)
    BY <1>6 DEF Elems
  <2> DEFINE m == Len(t) + i
  <2>1. m \in (Len(t) + 1)..(Len(t) + Len(k)) /\ m - Len(t) = i /\ m \in 1..(Len(t) + Len(k))
    BY <1>2, <1>6
  <2> HIDE DEF m
  <2>2. e.outbox[m] = k[m - Len(t)]
    BY <1>6, <2>1
  <2>3. e.outbox[m] = k[i] /\ m \in DOMAIN e.outbox
    BY <1>6, <2>1, <2>2
  <2> QED BY <2>3 DEF Elems
<1> QED BY <1>1, <1>5, <1>7, <1>8 DEF Holds, e, k

(* What one step has to show of the debts. *)
LEMMA OwedKept ==
  ASSUME OwedInv, UNCHANGED owed, Covers(Mem'), Covers(disk')
  PROVE  OwedInv'
BY DEF OwedInv, Covers, Holds

(* A step that touches no frame keeps what is owed held. *)
LEMMA OwedUnchanged ==
  ASSUME OwedInv, UNCHANGED <<fileVars, owed>>
  PROVE  OwedInv'
<1>1. Mem' = Mem /\ disk' = disk
  BY DEF fileVars, Mem
<1> QED BY <1>1, OwedKept DEF OwedInv

(* An append adds its frame to what is owed and to what is held. *)
LEMMA AppendKeepsOwed ==
  ASSUME TypeOK, OwedInv, NEW kind \in FrameKinds \ BootKinds,
         NEW j \in Jobs \cup {NoJob}, NEW a \in 0..MaxAttempt
  PROVE  Appended(kind, j, a) \/ AppendFails(kind, j, a) => OwedInv'
<1> DEFINE f == NewFrame(kind, j, a, nextSeq)
           d == WithFrame(Mem, f)
<1>1. /\ d \in FileType /\ Mem \in FileType /\ Holds(d) = Holds(Mem) \cup {f} /\ ~IsBoot(f)
  <2>1. f \in FrameType /\ d \in FileType /\ Mem \in FileType
    BY FileTypes
  <2> QED BY <2>1, AppendHolds DEF IsBoot, NewFrame
<1>2. Covers(ProbedDisk) /\ Covers(d)
  BY <1>1 DEF ProbedDisk, OwedInv, Covers
<1>3. ASSUME Appended(kind, j, a) PROVE OwedInv'
  <2>1. Persist(d) /\ owed' = owed \cup {f}
    BY <1>3 DEF Appended
  <2> HIDE DEF d, f
  <2>2. Mem' = d /\ disk' = d
    BY <1>1, <2>1 DEF Persist, Mem, FileType
  <2>3. owed' \subseteq Holds(d)
    BY <1>1, <2>1 DEF OwedInv, Covers
  <2>4. Holds(Mem)' = Holds(d) /\ Holds(disk)' = Holds(d)
    BY <2>2 DEF Holds, Elems
  <2> QED BY <1>1, <2>1, <2>3, <2>4 DEF OwedInv, Covers, IsBoot
<1>4. ASSUME AppendFails(kind, j, a) PROVE OwedInv'
  <2>1. /\ PersistFails(Mem, disk) \/ PersistFails(d, ProbedDisk)
        /\ UNCHANGED <<outbox, rejected, inbox, owed>>
    BY <1>4 DEF AppendFails
  <2> HIDE DEF d
  <2>2. Covers(disk')
    BY <1>2, <2>1 DEF PersistFails, OwedInv
  <2>3. Mem' = Mem
    BY <2>1 DEF Mem
  <2> QED BY <2>1, <2>2, <2>3, OwedKept DEF OwedInv
<1> QED BY <1>3, <1>4

(* The workers and the claim queue lose no owed frame. *)
LEMMA WorkKeepsOwed ==
  ASSUME TypeOK, OwedInv, WorkStep
  PROVE  OwedInv'
<1>1. PICK j \in Jobs : WorkerEvent(j) \/ WorkerResult(j) \/ WorkerAborts(j) \/ ClaimJob(j) \/ ClaimSkips(j)
  BY DEF WorkStep
<1>2. /\ 0 \in 0..MaxAttempt /\ {"event", "result"} \subseteq FrameKinds \ BootKinds
      /\ inbox[j] \in 0..MaxAttempt
  BY BoundsAssumption DEF FrameKinds, BootKinds, TypeOK, FileType, Mem
<1>3. CASE WorkerEvent(j) \/ WorkerResult(j)
  BY <1>2, <1>3, AppendKeepsOwed DEF WorkerEvent, WorkerResult
<1>4. CASE WorkerAborts(j)
  <2>1. CASE ResultRefused(j)
    <3>1. UNCHANGED <<outbox, rejected, inbox, owed>> /\ disk' = ProbedDisk
      BY <2>1 DEF ResultRefused
    <3>2. Mem' = Mem
      BY <3>1 DEF Mem
    <3> QED BY <3>1, <3>2, OwedKept DEF ProbedDisk, OwedInv
  <2>2. CASE AppendFails("event", j, 0) \/ AppendFails("result", j, inbox[j])
    BY <1>2, <2>2, AppendKeepsOwed
  <2> QED BY <1>4, <2>1, <2>2 DEF WorkerAborts
<1>5. CASE ClaimJob(j) \/ ClaimSkips(j)
  BY <1>5, OwedUnchanged DEF ClaimJob, ClaimSkips
<1> QED BY <1>1, <1>3, <1>4, <1>5

(* The intake loses no owed frame, in memory or in the file. *)
LEMMA IntakeKeepsOwed ==
  ASSUME TypeOK, OwedInv, IntakeStep
  PROVE  OwedInv'
<1>1. PICK j \in Jobs, a \in 1..MaxAttempt :
        \/ Deduplicated(j, a) \/ JobAccepted(j, a) \/ JobNotSaved(j, a) \/ ReceiptNotSaved(j, a)
        \/ JobConflicts(j, a)
        \/ InvalidEvent(j) \/ InvalidReceipt(j, a) \/ InvalidResult(j, a)
        \/ \E kind \in {"event", "job_ack", "result"} : InvalidUnanswered(kind, j, a)
  BY DEF IntakeStep
<1>2. /\ 0 \in 0..MaxAttempt /\ a \in 0..MaxAttempt
      /\ {"event", "result", "job_ack"} \subseteq FrameKinds \ BootKinds
  BY BoundsAssumption DEF FrameKinds, BootKinds
<1>3. CASE Deduplicated(j, a) \/ InvalidEvent(j) \/ InvalidReceipt(j, a) \/ InvalidResult(j, a)
  BY <1>2, <1>3, AppendKeepsOwed DEF Deduplicated, InvalidEvent, InvalidReceipt, InvalidResult
<1> DEFINE f == NewFrame("job_ack", j, a, nextSeq)
           d == WithJob(j, a)
           e == WithFrame(d, f)
<1>4. /\ d \in FileType /\ e \in FileType /\ Holds(d) = Holds(Mem)
      /\ Holds(e) = Holds(Mem) \cup {f} /\ ~IsBoot(f)
  <2>1. f \in FrameType /\ d \in FileType /\ e \in FileType
    BY <1>2, FileTypes
  <2>2. Holds(d) = Holds(Mem)
    BY DEF WithJob, Mem, Holds
  <2> QED BY <2>1, <2>2, AppendHolds DEF IsBoot, BootKinds, NewFrame
<1>5. Covers(d) /\ Covers(e) /\ Covers(disk) /\ Covers(Mem)
  BY <1>4 DEF OwedInv, Covers
<1>6. CASE JobAccepted(j, a)
  <2>1. Persist(e) /\ owed' = owed \cup {f}
    BY <1>6 DEF JobAccepted
  <2> HIDE DEF d, e, f
  <2>2. Mem' = e /\ disk' = e
    BY <1>4, <2>1 DEF Persist, Mem, FileType
  <2>3. owed' \subseteq Holds(e)
    BY <1>4, <1>5, <2>1 DEF Covers
  <2>4. Holds(Mem)' = Holds(e) /\ Holds(disk)' = Holds(e)
    BY <2>2 DEF Holds, Elems
  <2> QED BY <1>4, <2>1, <2>3, <2>4 DEF OwedInv, Covers, IsBoot
<1>7. CASE JobNotSaved(j, a)
  <2>1. PersistFails(d, disk) /\ UNCHANGED <<outbox, rejected, inbox, owed>>
    BY <1>7 DEF JobNotSaved
  <2>2. Mem' = Mem
    BY <2>1 DEF Mem
  <2> HIDE DEF d
  <2> QED BY <1>5, <2>1, <2>2, OwedKept DEF PersistFails
<1>8. CASE ReceiptNotSaved(j, a)
  <2>1. CASE AppendFails("job_ack", j, a)
    BY <1>2, <2>1, AppendKeepsOwed
  <2>2. CASE ~AppendFails("job_ack", j, a)
    <3>1. PersistFails(e, d) /\ UNCHANGED <<outbox, rejected, owed>>
      BY <1>8, <2>2 DEF ReceiptNotSaved
    <3>2. Holds(Mem') = Holds(Mem)
      BY <3>1 DEF Holds, Mem
    <3> HIDE DEF d, e
    <3> QED BY <1>5, <3>1, <3>2, OwedKept DEF PersistFails, Covers
  <2> QED BY <2>1, <2>2
<1>9. CASE JobConflicts(j, a)
  BY <1>9, OwedUnchanged DEF JobConflicts, fileVars
<1>10. CASE \E kind \in {"event", "job_ack", "result"} : InvalidUnanswered(kind, j, a)
  <2>1. PICK kind \in {"event", "job_ack", "result"} : InvalidUnanswered(kind, j, a)
    BY <1>10
  <2> DEFINE n == IF kind = "event" THEN 0 ELSE a
             g == NewFrame(kind, j, n, nextSeq)
             w == WithFrame(Mem, g)
  <2>2. n \in 0..MaxAttempt
    BY <1>2
  <2>3. /\ PersistFails(Mem, disk) \/ PersistFails(w, ProbedDisk) \/ disk' = ProbedDisk
        /\ UNCHANGED <<outbox, rejected, inbox, owed>>
    BY <2>1 DEF InvalidUnanswered
  <2> HIDE DEF n
  <2>4. g \in FrameType /\ Mem \in FileType
    BY <1>2, <2>2, FileTypes
  <2>5. Covers(w) /\ Covers(ProbedDisk)
    BY <1>5, <2>4, AppendHolds DEF Covers, ProbedDisk
  <2> HIDE DEF w
  <2>6. Covers(disk')
    BY <1>5, <2>3, <2>5 DEF PersistFails
  <2>7. Mem' = Mem
    BY <2>3 DEF Mem
  <2> QED BY <1>5, <2>3, <2>6, <2>7, OwedKept
<1> QED BY <1>1, <1>3, <1>6, <1>7, <1>8, <1>9, <1>10

(* A frame put at the head displaces no other. *)
LEMMA HeadKeepsOwed ==
  ASSUME TypeOK, OwedInv, HeadStep
  PROVE  OwedInv'
<1>1. PICK kind \in BootKinds : HeadAppended(kind) \/ HeadAppendFails(kind)
  BY DEF HeadStep, AnnounceReady, AnnounceReadyFails, BootKinds
<1> DEFINE f == NewFrame(kind, NoJob, 0, nextSeq)
           d == WithHead(f)
<1>2. d \in FileType /\ Covers(d)
  <2>1. 0 \in 0..MaxAttempt /\ kind \in FrameKinds
    BY BoundsAssumption DEF FrameKinds
  <2>2. f \in FrameType
    BY <2>1, FileTypes
  <2> HIDE DEF f
  <2> QED BY <2>2, FileTypes, HeadHolds DEF OwedInv, Covers
<1> HIDE DEF d
<1>3. CASE HeadAppended(kind)
  <2>1. Persist(d) /\ UNCHANGED owed
    BY <1>3 DEF HeadAppended, d
  <2>2. Mem' = d /\ disk' = d
    BY <1>2, <2>1 DEF Persist, Mem, FileType
  <2> QED BY <1>2, <2>1, <2>2, OwedKept
<1>4. CASE HeadAppendFails(kind)
  <2>1. PersistFails(d, disk) /\ UNCHANGED <<outbox, rejected, inbox, owed>>
    BY <1>4 DEF HeadAppendFails, d
  <2>2. Mem' = Mem
    BY <2>1 DEF Mem
  <2> QED BY <1>2, <2>1, <2>2, OwedKept DEF PersistFails, OwedInv
<1> QED BY <1>1, <1>3, <1>4

(* A refused frame moves to the dead-letter; only an acknowledged one, and  *)
(* a reopen report, which is not owed, leave both places.                   *)
LEMMA SettleKeepsOwed ==
  ASSUME TypeOK, BootInv, OwedInv, SettleStep
  PROVE  OwedInv'
<1>1. PICK f \in Elems(outbox), disp \in Dispositions :
        Settled(f, disp) \/ SettleFails(f, disp) \/ ReleaseNotSaved(f, disp)
  BY DEF SettleStep
<1> DEFINE leaves == Leaves(f, disp)
           d1     == IF leaves THEN WithoutHead(f, disp) ELSE Mem
           free   == [d1 EXCEPT !.inbox = [inbox EXCEPT ![f.corr] = 0]]
           acked  == IF leaves THEN Elems(Acked(f, disp)) ELSE {}
           left   == (IF disp = "accepted" THEN owed \ {f} ELSE owed)
<1>2. left \cup acked \subseteq Holds(d1)
  <2>1. CASE ~leaves
    BY <2>1 DEF OwedInv, Covers
  <2>2. CASE leaves
    <3>1. f \in left => disp \in Refusals /\ ~IsReport(f)
      BY <2>2 DEF OwedInv, Leaves, IsReport, IsBoot, BootKinds, Dispositions
    <3>2. /\ Holds(Mem) \ {f} \subseteq Holds(WithoutHead(f, disp))
          /\ Elems(Acked(f, disp)) \subseteq Holds(WithoutHead(f, disp))
          /\ disp \in Refusals /\ ~IsReport(f) => f \in Holds(WithoutHead(f, disp))
      BY <2>2, LeavingHolds DEF Leaves
    <3>3. left \subseteq Holds(Mem)
      BY DEF OwedInv, Covers
    <3> HIDE DEF left
    <3> QED BY <2>2, <3>1, <3>2, <3>3
  <2> QED BY <2>1, <2>2
<1>3. Holds(free) = Holds(d1)
  <2>1. d1 \in FileType
    BY FileTypes, SettleTypesOfOperators DEF Leaves
  <2> HIDE DEF d1
  <2>2. free.outbox = d1.outbox /\ free.rejected = d1.rejected
    BY <2>1 DEF FileType
  <2> QED BY <2>2 DEF Holds
<1>4. \A g \in acked : ~IsBoot(g)
  BY DEF Acked, Elems, NewFrame, IsBoot, BootKinds
<1>5. CASE Settled(f, disp)
  <2> DEFINE d2 == IF Releases(f, disp) THEN free ELSE d1
  <2>1. /\ outbox' = d2.outbox /\ rejected' = d2.rejected
        /\ disk' = IF leaves \/ Releases(f, disp) THEN d2 ELSE disk
        /\ owed' = left \cup acked
    BY <1>5 DEF Settled
  <2>2. leaves \/ acked = {}
    OBVIOUS
  <2>3. left \subseteq owed
    OBVIOUS
  <2> HIDE DEF d1, free, leaves, acked, left
  <2>4. Holds(d2) = Holds(d1)
    BY <1>3
  <2> HIDE DEF d2
  <2>5. Holds(Mem)' = Holds(d2)
    BY <2>1 DEF Mem, Holds, Elems
  <2>6. owed' \subseteq Holds(disk)'
    <3>1. CASE leaves \/ Releases(f, disp)
      BY <1>2, <2>1, <2>4, <3>1 DEF Holds, Elems
    <3>2. CASE ~(leaves \/ Releases(f, disp))
      BY <2>1, <2>2, <2>3, <3>2 DEF OwedInv, Covers, Holds, Elems
    <3> QED BY <3>1, <3>2
  <2>7. \A g \in owed' : ~IsBoot(g)
    BY <1>4, <2>1, <2>3 DEF OwedInv
  <2> QED BY <1>2, <2>1, <2>4, <2>5, <2>6, <2>7 DEF OwedInv, Covers, IsBoot
<1>6. CASE SettleFails(f, disp)
  <2>1. /\ leaves /\ PersistFails(WithoutHead(f, disp), disk) /\ owed' = left
        /\ UNCHANGED <<outbox, rejected, inbox>>
    BY <1>6 DEF SettleFails
  <2>2. left \subseteq Holds(WithoutHead(f, disp)) /\ left \subseteq owed
    BY <1>2, <2>1
  <2> HIDE DEF left
  <2>3. owed' \subseteq Holds(disk')
    BY <2>1, <2>2 DEF PersistFails, OwedInv, Covers
  <2>4. Mem' = Mem
    BY <2>1 DEF Mem
  <2> QED BY <2>1, <2>2, <2>3, <2>4 DEF OwedInv, Covers, IsBoot, Holds, Elems
<1>7. CASE ReleaseNotSaved(f, disp)
  <2>1. /\ outbox' = free.outbox /\ rejected' = free.rejected
        /\ PersistFails(free, IF leaves THEN d1 ELSE disk)
        /\ disp = "reassigned" /\ UNCHANGED owed
    BY <1>7 DEF ReleaseNotSaved, Releases
  <2>2. owed \subseteq Holds(d1)
    BY <1>2, <2>1
  <2> HIDE DEF d1, free, leaves
  <2>3. Covers(Mem')
    BY <1>3, <2>1, <2>2 DEF Covers, Mem, Holds
  <2>4. Covers(disk')
    BY <1>3, <2>1, <2>2 DEF Covers, PersistFails, OwedInv
  <2> QED BY <2>1, <2>3, <2>4, OwedKept
<1> QED BY <1>1, <1>5, <1>6, <1>7

(* A restart drops boot frames only, and those are never owed. *)
LEMMA RestartKeepsOwed ==
  ASSUME TypeOK, OwedInv, Restart
  PROVE  OwedInv'
<1>1. PICK kept \in WithoutBoot(disk.outbox) : Persist([disk EXCEPT !.outbox = kept]) /\ UNCHANGED owed
  BY DEF Restart
<1>2. disk.outbox \in Seq(FrameType) /\ disk \in FileType
  BY DEF TypeOK, FileType
<1>3. kept \in Seq(FrameType) /\ \A f \in Elems(disk.outbox) : ~IsBoot(f) => f \in Elems(kept)
  BY <1>2, BootKeeps
<1> DEFINE d == [disk EXCEPT !.outbox = kept]
<1>4. d.outbox = kept /\ d.rejected = disk.rejected /\ d \in FileType
  BY <1>2, <1>3 DEF FileType
<1> HIDE DEF d
<1>5. Mem' = d /\ disk' = d
  <2>1. Persist(d)
    BY <1>1 DEF d
  <2> QED BY <1>4, <2>1 DEF Persist, Mem, FileType
<1>6. Covers(d)
  BY <1>3, <1>4 DEF OwedInv, Covers, Holds
<1> QED BY <1>1, <1>5, <1>6, OwedKept

LEMMA OwedInvHolds == Spec => []OwedInv
<1>1. Init => OwedInv
  BY DEF Init, FreshState, OwedInv, Covers
<1>2. TypeOK /\ BootInv /\ OwedInv /\ [Next]_stateVars => OwedInv'
  <2> SUFFICES ASSUME TypeOK, BootInv, OwedInv, [Next]_stateVars PROVE OwedInv'
    OBVIOUS
  <2>1. CASE UNCHANGED stateVars
    BY <2>1, OwedUnchanged DEF stateVars, fileVars
  <2>2. CASE LatchStep
    BY <2>2, OwedUnchanged DEF LatchStep, SocketOpened, LatchPending, LatchVerdict
  <2> QED BY <2>1, <2>2, WorkKeepsOwed, IntakeKeepsOwed, HeadKeepsOwed, SettleKeepsOwed,
            RestartKeepsOwed DEF Next
<1> QED BY <1>1, <1>2, TypesHold, BootInvHolds, PTL DEF Spec

(* A frame made durable stays in memory and in the file until it has been   *)
(* acknowledged, whatever fails and however often the process is replaced.  *)
THEOREM OwedIsHeld == Spec => []NothingOwedIsLost
<1>1. OwedInv => NothingOwedIsLost
  BY DEF OwedInv, Covers, NothingOwedIsLost
<1> QED BY <1>1, OwedInvHolds, PTL

-----------------------------------------------------------------------------
(* Types of what the threads pass to each other. The durable half is typed  *)
(* by TypeOK; of the pod's own state only what decides a handler's inputs.  *)

Answered  == {"accepted", "one_frame", "reassigned", "rejected"}
Verdicts  == Answered \cup {"retry"}
KeyType   == Nat \X Nat
JobMsg    == [type : {"job"}, corr : Jobs, attempt : 1..MaxAttempt]
AckMsg    == [type : {"ack"}, key : KeyType, verdict : Verdicts]
Marked(V) == [key : KeyType, verdict : V, mark : Nat]
CurType   == [frame : FrameType, verdict : Dispositions, mark : Nat,
              then : {"settle", "leftover", "idle"}]

NetTypes ==
  /\ conns \in 0..MaxConns /\ conn \in 0..conns
  /\ up \in [Sockets -> Seq(FrameType)]
  /\ down \in [Sockets -> Seq(JobMsg \cup AckMsg)]
DeferredTypes ==
  /\ received \in Nat /\ rejecting \in [Sockets -> 0..2]
  /\ intakeQ \in [Sockets -> Seq(JobMsg \cup {VerdictItem})]
SenderTypes ==
  /\ pending \in Seq(FrameType)
  /\ acks \subseteq Marked(Verdicts) /\ known \subseteq Marked(Answered)
  /\ cur \in CurType
PeerTypes ==
  /\ assigned \in [Jobs -> 0..MaxAttempt] /\ lastAttempt \in [Jobs -> 0..MaxAttempt]
  /\ heard \subseteq FrameType
PodTypes == NetTypes /\ DeferredTypes /\ SenderTypes /\ PeerTypes

(* What the sender took from the outbox to settle is still in the outbox    *)
(* when it takes the lock again: nobody else retires a frame.               *)
Judging == spc = "apply" => cur.frame \in Elems(outbox)

ThreadInv == PodTypes /\ Judging

(* A comprehension over a sequence yields some of its elements. *)
LEMMA KeptAreElements ==
  ASSUME NEW S, NEW s \in Seq(S), NEW idx \in SUBSET (DOMAIN s), NEW t \in Kept(s, idx)
  PROVE  t \in Seq(S) /\ Elems(t) \subseteq Elems(s)
<1> DEFINE n == Cardinality(idx)
<1>1. PICK at \in [1..n -> idx] : t = [k \in 1..n |-> s[at[k]]]
  BY DEF Kept
<1>2. DOMAIN s = 1..Len(s) /\ Len(s) \in Nat
  OBVIOUS
<1>3. IsFiniteSet(1..Len(s))
  BY <1>2, FS_Interval
<1>4. n \in Nat
  BY <1>2, <1>3, FS_Subset, FS_CardinalityType
<1> HIDE DEF n
<1>5. \A k \in 1..n : at[k] \in DOMAIN s
  BY <1>1
<1>6. \A k \in 1..n : s[at[k]] \in S
  BY <1>5
<1>7. t \in Seq(S)
  BY <1>1, <1>4, <1>6, IsASeq
<1>8. Elems(t) \subseteq Elems(s)
  BY <1>1, <1>5 DEF Elems
<1> QED BY <1>7, <1>8

(* What is left of a window is part of the window. *)
LEMMA WithoutIsPart ==
  ASSUME NEW s \in Seq(FrameType), NEW keys, NEW t \in Without(s, keys)
  PROVE  t \in Seq(FrameType) /\ Elems(t) \subseteq Elems(s)
<1>1. {i \in DOMAIN s : Key(s[i]) \notin keys} \in SUBSET (DOMAIN s)
  OBVIOUS
<1> QED BY <1>1, KeptAreElements DEF Without

(* The window is a prefix of the outbox. *)
LEMMA WindowIsPart ==
  ASSUME NEW s \in Seq(FrameType)
  PROVE  WindowOf(s) \in Seq(FrameType) /\ Elems(WindowOf(s)) \subseteq Elems(s)
<1> DEFINE n == IF Len(s) < AckWindow THEN Len(s) ELSE AckWindow
           t == SubSeq(s, 1, n)
<1>1. n \in Nat /\ n <= Len(s) /\ Len(s) \in Nat /\ DOMAIN s = 1..Len(s)
  BY StreamAssumption
<1> HIDE DEF n
<1>2. /\ t \in Seq(FrameType) /\ DOMAIN t = 1..n /\ \A i \in 1..n : t[i] = s[i]
  BY <1>1
<1>3. \A i \in DOMAIN t : i \in DOMAIN s /\ t[i] = s[i]
  BY <1>1, <1>2
<1>4. Elems(t) \subseteq Elems(s)
  BY <1>3 DEF Elems
<1> QED BY <1>2, <1>4 DEF WindowOf, n

(* The elements of a concatenation are those of its parts. *)
LEMMA ConcatElements ==
  ASSUME NEW S, NEW s \in Seq(S), NEW t \in Seq(S)
  PROVE  s \o t \in Seq(S) /\ Elems(s \o t) = Elems(s) \cup Elems(t)
<1> DEFINE c == s \o t
<1>1. /\ c \in Seq(S) /\ DOMAIN c = 1..(Len(s) + Len(t))
      /\ DOMAIN s = 1..Len(s) /\ DOMAIN t = 1..Len(t) /\ Len(s) \in Nat /\ Len(t) \in Nat
  BY ConcatProperties
<1>2. \A i \in 1..Len(s) : c[i] = s[i]
  BY ConcatProperties
<1>3. \A i \in (Len(s) + 1)..(Len(s) + Len(t)) : c[i] = t[i - Len(s)]
  BY ConcatProperties
<1> HIDE DEF c
<1>4. \A i \in 1..Len(t) : t[i] = c[Len(s) + i] /\ Len(s) + i \in 1..(Len(s) + Len(t))
  <2> TAKE i \in 1..Len(t)
  <2> DEFINE m == Len(s) + i
  <2>1. m \in (Len(s) + 1)..(Len(s) + Len(t)) /\ m - Len(s) = i
    BY <1>1
  <2>2. c[m] = t[m - Len(s)]
    BY <1>3, <2>1
  <2> QED BY <1>1, <2>1, <2>2
<1>5. Elems(s) \subseteq Elems(c)
  BY <1>1, <1>2 DEF Elems
<1>6. Elems(t) \subseteq Elems(c)
  BY <1>1, <1>4 DEF Elems
<1>7. Elems(c) \subseteq Elems(s) \cup Elems(t)
  <2> SUFFICES ASSUME NEW i \in 1..(Len(s) + Len(t)) PROVE c[i] \in Elems(s) \cup Elems(t)
    BY <1>1 DEF Elems
  <2>1. CASE i <= Len(s)
    BY <1>1, <1>2, <2>1 DEF Elems
  <2>2. CASE i > Len(s)
    <3>1. i - Len(s) \in 1..Len(t) /\ c[i] = t[i - Len(s)]
      BY <1>1, <1>3, <2>2
    <3> QED BY <1>1, <3>1 DEF Elems
  <2> QED BY <1>1, <2>1, <2>2
<1> QED BY <1>1, <1>5, <1>6, <1>7 DEF c

(* What is left of a sequence without its first element is part of it. *)
LEMMA TailElements ==
  ASSUME NEW S, NEW s \in Seq(S), s # <<>>
  PROVE  /\ Tail(s) \in Seq(S) /\ Head(s) \in S
         /\ Elems(Tail(s)) \subseteq Elems(s) /\ Head(s) \in Elems(s)
<1>1. /\ Tail(s) \in Seq(S) /\ Len(Tail(s)) = Len(s) - 1 /\ Head(s) = s[1]
      /\ \A i \in 1..Len(Tail(s)) : Tail(s)[i] = s[i + 1]
      /\ DOMAIN s = 1..Len(s) /\ DOMAIN Tail(s) = 1..Len(Tail(s)) /\ Len(s) \in Nat /\ Len(s) > 0
  BY HeadTailProperties
<1>2. 1 \in DOMAIN s /\ \A i \in DOMAIN Tail(s) : i + 1 \in DOMAIN s /\ Tail(s)[i] = s[i + 1]
  BY <1>1
<1>3. Elems(Tail(s)) \subseteq Elems(s)
  BY <1>2 DEF Elems
<1> QED BY <1>1, <1>2, <1>3 DEF Elems

(* A window that is written is made of frames of the outbox and frames that *)
(* were pending.                                                            *)
LEMMA WrittenIsPart ==
  ASSUME TypeOK, pending \in Seq(FrameType), NEW win \in HeadsFirst(pending)
  PROVE  win \in Seq(FrameType) /\ Elems(win) \subseteq Elems(outbox) \cup Elems(pending)
<1>1. outbox \in Seq(FrameType)
  BY DEF TypeOK, FileType, Mem
<1>2. \A seq : \A t \in FramesAt(seq) : t \in Seq(FrameType) /\ Elems(t) \subseteq Elems(outbox)
  <2> SUFFICES ASSUME NEW seq, NEW t \in FramesAt(seq)
               PROVE  t \in Seq(FrameType) /\ Elems(t) \subseteq Elems(outbox)
    OBVIOUS
  <2>1. {i \in DOMAIN outbox : Key(outbox[i]) = <<stream, seq>>} \in SUBSET (DOMAIN outbox)
    OBVIOUS
  <2> QED BY <1>1, <2>1, KeptAreElements DEF FramesAt
<1>3. PICK heads \in HeadFrames : \E rest \in Without(pending, Keys(heads)) : win = heads \o rest
  BY DEF HeadsFirst
<1>4. PICK rest \in Without(pending, Keys(heads)) : win = heads \o rest
  BY <1>3
<1>5. PICK reopen \in FramesAt(pendingReopen), ready \in FramesAt(pendingBoot) : heads = reopen \o ready
  BY DEF HeadFrames
<1>6. heads \in Seq(FrameType) /\ Elems(heads) \subseteq Elems(outbox)
  BY <1>2, <1>5, ConcatElements
<1>7. rest \in Seq(FrameType) /\ Elems(rest) \subseteq Elems(pending)
  BY WithoutIsPart
<1> QED BY <1>4, <1>6, <1>7, ConcatElements

(* Whatever the control plane answers, the pod files it as one verdict. *)
LEMMA AnswersAreVerdicts == \A f, answer : Classify(f, answer) \in Verdicts
BY DEF Classify, Verdicts, Answered

-----------------------------------------------------------------------------
(* Every step of a thread is a step of the durable half, or leaves it alone *)

(* The job at the head of an intake is one the durable half can be given. *)
LEMMA HeadOfIntake ==
  ASSUME PodTypes, NEW c \in Sockets, IntakeHas(c, "job")
  PROVE  Head(intakeQ[c]).corr \in Jobs /\ Head(intakeQ[c]).attempt \in 1..MaxAttempt
<1>1. intakeQ[c] \in Seq(JobMsg \cup {VerdictItem}) /\ intakeQ[c] # <<>>
  BY DEF PodTypes, DeferredTypes, IntakeHas
<1>2. Head(intakeQ[c]) \in JobMsg \cup {VerdictItem}
  BY <1>1, TailElements
<1>3. Head(intakeQ[c]).type = "job"
  BY DEF IntakeHas
<1>4. Head(intakeQ[c]) \in JobMsg
  BY <1>2, <1>3 DEF VerdictItem
<1> QED BY <1>4 DEF JobMsg

(* Opening a socket. *)
LEMMA OpeningRefines == Opening => Next \/ UNCHANGED stateVars
<1>1. OpenConnects => LatchStep
  BY DEF OpenConnects, LatchStep
<1>2. OpenRefused => UNCHANGED stateVars
  BY DEF OpenRefused
<1>3. OpenBootstraps => HeadStep \/ UNCHANGED stateVars
  BY DEF OpenBootstraps, HeadStep
<1>4. OpenBootstrapFails => HeadStep
  BY DEF OpenBootstrapFails, HeadStep
<1>5. OpenReports => HeadStep \/ UNCHANGED stateVars
  BY DEF OpenReports, HeadStep
<1> QED BY <1>1, <1>2, <1>3, <1>4, <1>5 DEF Opening, Next

(* The sender: the frame it settles is one the outbox still holds, and its  *)
(* verdict is one that `_settle` knows.                                     *)
LEMMA SenderRefines ==
  ASSUME ThreadInv, Sender
  PROVE  SettleStep \/ UNCHANGED stateVars
<1>1. SenderSlices \/ SenderOpens \/ SenderWrites \/ SenderCollects \/ SenderPicks \/ SenderEnds
        => UNCHANGED stateVars
  BY DEF SenderSlices, SenderOpens, OpenStarts, SenderWrites, SenderCollects, SenderPicks, SenderEnds
<1>2. cur.verdict \in Dispositions
  BY DEF ThreadInv, PodTypes, SenderTypes, CurType
<1>3. CASE SenderSettles
  <2>1. cur.frame \in Elems(outbox)
    BY <1>3 DEF ThreadInv, Judging, SenderSettles
  <2>2. Settled(cur.frame, cur.verdict) \/ ReleaseNotSaved(cur.frame, cur.verdict)
    BY <1>3 DEF SenderSettles
  <2> QED BY <1>2, <2>1, <2>2 DEF SettleStep
<1>4. CASE SenderSettleFails
  <2>1. cur.frame \in Elems(outbox)
    BY <1>4 DEF ThreadInv, Judging, SenderSettleFails
  <2>2. SettleFails(cur.frame, cur.verdict)
    BY <1>4 DEF SenderSettleFails
  <2> QED BY <1>2, <2>1, <2>2 DEF SettleStep
<1> QED BY <1>1, <1>3, <1>4 DEF Sender

(* The intake of a socket: what it hands over is a job of a real attempt. *)
LEMMA IntakeRefines ==
  ASSUME PodTypes, NEW c \in Sockets, Intake(c)
  PROVE  IntakeStep \/ LatchStep \/ UNCHANGED stateVars
<1> DEFINE j == Head(intakeQ[c]).corr
           a == Head(intakeQ[c]).attempt
<1>1. IntakeHas(c, "job") => j \in Jobs /\ a \in 1..MaxAttempt
  BY HeadOfIntake
<1>2. IntakeLatches(c) => LatchStep
  BY DEF IntakeLatches, LatchStep
<1>3. ASSUME IntakeAccepts(c) PROVE IntakeStep
  <2>1. j \in Jobs /\ a \in 1..MaxAttempt /\ (Deduplicated(j, a) \/ JobAccepted(j, a))
    BY <1>1, <1>3 DEF IntakeAccepts
  <2> QED BY <2>1 DEF IntakeStep
<1>4. ASSUME IntakeRaises(c) PROVE IntakeStep \/ UNCHANGED stateVars
  <2>1. /\ j \in Jobs /\ a \in 1..MaxAttempt
        /\ JobNotSaved(j, a) \/ ReceiptNotSaved(j, a) \/ JobConflicts(j, a) \/ AdmissionRefuses(j)
    BY <1>1, <1>4 DEF IntakeRaises
  <2> QED BY <2>1 DEF IntakeStep, AdmissionRefuses
<1>5. ASSUME IntakeRejects(c) PROVE IntakeStep
  <2>1. /\ j \in Jobs /\ a \in 1..MaxAttempt
        /\ InvalidEvent(j) \/ InvalidReceipt(j, a) \/ InvalidResult(j, a)
    BY <1>1, <1>5 DEF IntakeRejects
  <2> QED BY <2>1 DEF IntakeStep
<1>6. ASSUME IntakeRejectFails(c) PROVE IntakeStep
  <2>1. j \in Jobs /\ a \in 1..MaxAttempt /\ InvalidUnanswered(RejectKind(c), j, a)
    BY <1>1, <1>6 DEF IntakeRejectFails
  <2>2. RejectKind(c) \in {"event", "job_ack", "result"}
    <3>1. rejecting[c] \in 0..2
      BY DEF PodTypes, DeferredTypes
    <3> QED BY <3>1 DEF RejectKind
  <2> QED BY <2>1, <2>2 DEF IntakeStep
<1> QED BY <1>2, <1>3, <1>4, <1>5, <1>6 DEF Intake

(* The claimer and the workers. *)
LEMMA ClaimerRefines == Claimer => HeadStep \/ LatchStep \/ WorkStep \/ UNCHANGED stateVars
BY DEF Claimer, MainAnnounces, ClaimOpens, OpenStarts, ClaimEnters, ClaimRefused, ClaimTakes,
       ClaimReturns, HeadStep, LatchStep, WorkStep

LEMMA WorkerRefines == \A j \in Jobs : Worker(j) => WorkStep
BY DEF Worker, WorkStep

(* The sockets and the control plane touch nothing durable. *)
LEMMA PeerRefines ==
  /\ ControlPlane => UNCHANGED stateVars
  /\ \A c \in Sockets : ReaderReads(c) \/ ReaderEnds(c) \/ NetDrops(c) => UNCHANGED stateVars
<1>1. ControlPlane => UNCHANGED stateVars
  BY DEF ControlPlane, CpAssigns, CpSendsJob, CpReads
<1>2. \A c \in Sockets : ReaderReads(c) \/ ReaderEnds(c) \/ NetDrops(c) => UNCHANGED stateVars
  BY DEF ReaderReads, ReaderEnds, NetDrops
<1> QED BY <1>1, <1>2

(* A step of the pod and its peer, as a step of StreamState. *)
LEMMA StepRefines ==
  ASSUME ThreadInv, [StreamNext]_vars
  PROVE  [Next]_stateVars
<1>1. CASE UNCHANGED vars
  BY <1>1 DEF vars
<1>2. CASE Opening \/ Sender \/ Claimer
  BY <1>2, OpeningRefines, SenderRefines, ClaimerRefines DEF Next
<1>3. CASE ControlPlane \/ PodRestarts
  BY <1>3, PeerRefines DEF PodRestarts, Next
<1>4. CASE \E j \in Jobs : Worker(j)
  BY <1>4, WorkerRefines DEF Next
<1>5. CASE \E c \in Sockets : ReaderReads(c) \/ ReaderEnds(c) \/ Intake(c) \/ NetDrops(c)
  BY <1>5, PeerRefines, IntakeRefines DEF ThreadInv, Next
<1> QED BY <1>1, <1>2, <1>3, <1>4, <1>5 DEF StreamNext

-----------------------------------------------------------------------------
(* The threads keep the types of what they exchange *)

(* A step that leaves a part of the pod alone keeps its types. *)
LEMMA SameTypes ==
  ASSUME PodTypes
  PROVE  /\ UNCHANGED <<conn, conns, up, down>> => NetTypes'
         /\ UNCHANGED <<intakeQ, received, rejecting>> => DeferredTypes'
         /\ UNCHANGED <<pending, acks, known, cur>> => SenderTypes'
         /\ UNCHANGED <<assigned, lastAttempt, heard>> => PeerTypes'
<1>1. UNCHANGED <<conn, conns, up, down>> => NetTypes'
  BY DEF PodTypes, NetTypes
<1>2. UNCHANGED <<intakeQ, received, rejecting>> => DeferredTypes'
  BY DEF PodTypes, DeferredTypes
<1>3. UNCHANGED <<pending, acks, known, cur>> => SenderTypes'
  BY DEF PodTypes, SenderTypes
<1>4. UNCHANGED <<assigned, lastAttempt, heard>> => PeerTypes'
  BY DEF PodTypes, PeerTypes
<1> QED BY <1>1, <1>2, <1>3, <1>4

(* A socket that fails is the live one or an old one: _conn stays typed. *)
LEMMA FailedConn ==
  ASSUME PodTypes, NEW c, FailsConn(c), UNCHANGED <<conns, up, down>>
  PROVE  NetTypes'
BY DEF PodTypes, NetTypes, FailsConn

(* Opening a socket. *)
LEMMA OpeningTypes ==
  ASSUME PodTypes, Opening
  PROVE  PodTypes'
<1>1. /\ UNCHANGED <<intakeQ, received, rejecting>> /\ UNCHANGED <<pending, acks, known, cur>>
      /\ UNCHANGED <<assigned, lastAttempt, heard>> /\ UNCHANGED <<up, down>>
  BY DEF Opening, OpenConnects, OpenRefused, OpenBootstraps, OpenBootstrapFails, OpenReports,
         OpenReturnsFalse, connVars, intakeVars, senderVars, cpVars
<1>2. NetTypes'
  <2>1. CASE OpenConnects
    BY <1>1, <2>1, StreamAssumption DEF OpenConnects, PodTypes, NetTypes
  <2>2. CASE OpenBootstrapFails
    BY <1>1, <2>2, FailedConn DEF OpenBootstrapFails
  <2>3. CASE OpenRefused \/ OpenBootstraps \/ OpenReports
    BY <1>1, <2>3, SameTypes DEF OpenRefused, OpenBootstraps, OpenReports, connVars
  <2> QED BY <2>1, <2>2, <2>3 DEF Opening
<1> QED BY <1>1, <1>2, SameTypes DEF PodTypes

(* The sender slices, writes and collects windows, and settles their heads. *)
LEMMA SenderKeepsTypes ==
  ASSUME TypeOK, PodTypes, Sender
  PROVE  PodTypes'
<1>1. outbox \in Seq(FrameType)
  BY DEF TypeOK, FileType, Mem
<1>2. /\ UNCHANGED <<intakeQ, received, rejecting>> /\ UNCHANGED <<assigned, lastAttempt, heard>>
      /\ UNCHANGED <<conns, down>>
  BY DEF Sender, SenderSlices, SenderOpens, OpenStarts, SenderWrites, SenderCollects, SenderPicks,
         SenderEnds, SenderSettles, SenderSettleFails, connVars, intakeVars, cpVars
<1>3. DeferredTypes' /\ PeerTypes'
  BY <1>2, SameTypes
<1>4. \A f \in Elems(outbox) : f \in FrameType
  BY <1>1, ElemsAreFrames
<1>5. outbox # <<>> => Head(outbox) \in FrameType
  BY <1>1
<1>6. SenderTypes
  BY DEF PodTypes
<1>7. CASE SenderSlices
  <2>1. UNCHANGED <<conn, conns, up, down, acks, known, cur>>
    BY <1>7 DEF SenderSlices, connVars
  <2>2. PICK unsent \in Without(WindowOf(outbox), Judged) : pending' = unsent
    BY <1>7 DEF SenderSlices
  <2>3. pending' \in Seq(FrameType)
    BY <1>1, <2>2, WindowIsPart, WithoutIsPart
  <2> QED BY <1>3, <1>6, <2>1, <2>3, SameTypes DEF PodTypes, SenderTypes
<1>8. CASE SenderOpens
  <2>1. UNCHANGED <<conn, conns, up, down, pending, acks, known, cur>>
    BY <1>8 DEF SenderOpens, OpenStarts, connVars, senderVars
  <2> QED BY <1>3, <2>1, SameTypes DEF PodTypes
<1>9. CASE SenderWrites
  <2>1. PICK win \in HeadsFirst(pending) : pending' = win /\ up' = [up EXCEPT ![conn] = @ \o win]
    BY <1>9 DEF SenderWrites
  <2>2. win \in Seq(FrameType)
    BY <1>6, WrittenIsPart DEF SenderTypes
  <2>3. UNCHANGED <<conn, conns, down, known, cur>> /\ acks' = {}
    BY <1>9 DEF SenderWrites
  <2>4. SenderTypes'
    BY <1>6, <2>1, <2>2, <2>3 DEF SenderTypes
  <2>5. up' \in [Sockets -> Seq(FrameType)]
    <3>1. up \in [Sockets -> Seq(FrameType)]
      BY DEF PodTypes, NetTypes
    <3>2. \A c \in Sockets : up[c] \o win \in Seq(FrameType)
      BY <2>2, <3>1
    <3> QED BY <2>1, <3>1, <3>2
  <2>6. NetTypes'
    BY <2>3, <2>5 DEF PodTypes, NetTypes
  <2> QED BY <1>3, <2>4, <2>6 DEF PodTypes
<1>10. CASE SenderCollects
  <2> DEFINE got == {a \in acks : a.verdict # "retry"}
  <2>1. PICK left \in Without(pending, {a.key : a \in got}) : pending' = left
    BY <1>10 DEF SenderCollects
  <2>2. pending' \in Seq(FrameType)
    BY <1>6, <2>1, WithoutIsPart DEF SenderTypes
  <2>3. /\ known' = {k \in known : \A a \in got : a.key # k.key} \cup got
        /\ acks' = {} /\ UNCHANGED <<cur, up>>
    BY <1>10 DEF SenderCollects
  <2>4. got \subseteq Marked(Answered)
    BY <1>6 DEF SenderTypes, Marked, Verdicts
  <2> HIDE DEF got
  <2>5. SenderTypes'
    BY <1>6, <2>2, <2>3, <2>4 DEF SenderTypes
  <2>6. NetTypes'
    <3>1. FailsConn(onWire) \/ UNCHANGED <<conn, lastClose>>
      BY <1>10 DEF SenderCollects
    <3> QED BY <1>2, <2>3, <3>1, FailedConn, SameTypes
  <2> QED BY <1>3, <2>5, <2>6 DEF PodTypes
<1>11. CASE SenderPicks \/ SenderEnds
  <2>1. UNCHANGED <<conn, conns, up, down, pending, acks, known>>
    BY <1>11 DEF SenderPicks, SenderEnds, connVars
  <2>2. cur' \in CurType
    <3>1. CASE SenderPicks
      <4>1. PICK k \in known : cur' = [frame |-> Head(outbox), verdict |-> k.verdict,
                                       mark |-> k.mark, then |-> "settle"]
        BY <3>1 DEF SenderPicks
      <4>2. k.verdict \in Dispositions /\ k.mark \in Nat
        BY <1>6 DEF SenderTypes, Marked, Answered, Dispositions, Refusals
      <4>3. Head(outbox) \in FrameType
        BY <1>5, <3>1 DEF SenderPicks, HeadJudged
      <4> QED BY <4>1, <4>2, <4>3 DEF CurType
    <3>2. CASE SenderEnds
      <4>1. \/ UNCHANGED cur
            \/ /\ outbox # <<>>
               /\ \E v \in {"abandoned", "pending"}, t \in {"leftover", "idle"} :
                    cur' = [frame |-> Head(outbox), verdict |-> v, mark |-> 0, then |-> t]
        BY <3>2 DEF SenderEnds
      <4>2. {"abandoned", "pending"} \subseteq Dispositions
        BY DEF Dispositions, Refusals
      <4> QED BY <1>5, <1>6, <4>1, <4>2 DEF SenderTypes, CurType
    <3> QED BY <1>11, <3>1, <3>2
  <2> QED BY <1>3, <1>6, <2>1, <2>2, SameTypes DEF PodTypes, SenderTypes
<1>12. CASE SenderSettles
  <2>1. UNCHANGED <<conn, conns, up, down, pending, acks, cur>> /\ known' \subseteq known
    BY <1>12 DEF SenderSettles, connVars
  <2> QED BY <1>3, <1>6, <2>1, SameTypes DEF PodTypes, SenderTypes
<1>13. CASE SenderSettleFails
  <2>1. /\ UNCHANGED <<conn, conns, up, down, pending, acks, cur>>
        /\ known' = {IF k.key = Key(cur.frame) THEN [k EXCEPT !.mark = 0] ELSE k : k \in known}
    BY <1>13 DEF SenderSettleFails, connVars
  <2>2. \A k \in Marked(Answered) : [k EXCEPT !.mark = 0] \in Marked(Answered)
    BY DEF Marked
  <2>3. known' \subseteq Marked(Answered)
    BY <1>6, <2>1, <2>2 DEF SenderTypes
  <2> QED BY <1>3, <1>6, <2>1, <2>3, SameTypes DEF PodTypes, SenderTypes
<1> QED BY <1>7, <1>8, <1>9, <1>10, <1>11, <1>12, <1>13 DEF Sender

(* The reader moves a job to its intake, and an acknowledgement to the      *)
(* window it answers.                                                       *)
LEMMA ReaderTypes ==
  ASSUME PodTypes, NEW c \in Sockets, ReaderReads(c) \/ ReaderEnds(c)
  PROVE  PodTypes'
<1>1. /\ down \in [Sockets -> Seq(JobMsg \cup AckMsg)] /\ NetTypes
      /\ intakeQ \in [Sockets -> Seq(JobMsg \cup {VerdictItem})] /\ received \in Nat
  BY DEF PodTypes, NetTypes, DeferredTypes
<1>2. PeerTypes'
  BY SameTypes DEF ReaderReads, ReaderEnds, cpVars
<1>3. CASE ReaderEnds(c)
  <2>1. FailsConn(c) /\ down' = [down EXCEPT ![c] = <<>>] /\ UNCHANGED <<conns, up>>
    BY <1>3 DEF ReaderEnds
  <2>2. down' \in [Sockets -> Seq(JobMsg \cup AckMsg)]
    BY <1>1, <2>1, EmptySeq
  <2>3. NetTypes'
    BY <1>1, <2>1, <2>2 DEF NetTypes, FailsConn
  <2>4. DeferredTypes' /\ SenderTypes'
    BY <1>3, SameTypes DEF ReaderEnds, intakeVars, senderVars
  <2> QED BY <1>2, <2>3, <2>4 DEF PodTypes
<1>4. CASE ReaderReads(c)
  <2> DEFINE m == Head(down[c])
  <2>1. /\ down[c] \in Seq(JobMsg \cup AckMsg) /\ down[c] # <<>>
        /\ intakeQ[c] \in Seq(JobMsg \cup {VerdictItem})
    BY <1>1, <1>4 DEF ReaderReads
  <2>2. m \in JobMsg \cup AckMsg /\ Tail(down[c]) \in Seq(JobMsg \cup AckMsg)
    BY <2>1, TailElements
  <2>3. /\ down' = [down EXCEPT ![c] = Tail(@)]
        /\ UNCHANGED <<conns, up, rejecting, pending, known, cur>>
        /\ \/ UNCHANGED conn
           \/ FailsConn(c)
    BY <1>4 DEF ReaderReads
  <2>4. down' \in [Sockets -> Seq(JobMsg \cup AckMsg)]
    BY <1>1, <2>2, <2>3
  <2>5. NetTypes'
    BY <1>1, <2>3, <2>4 DEF NetTypes, FailsConn
  <2>6. DeferredTypes' /\ SenderTypes'
    <3>1. CASE m.type = "job"
      <4>1. m \in JobMsg
        BY <2>2, <3>1 DEF AckMsg
      <4>2. received' \in Nat /\ UNCHANGED acks
        BY <1>1, <1>4, <3>1 DEF ReaderReads
      <4>3. intakeQ' = intakeQ \/ intakeQ' = [intakeQ EXCEPT ![c] = Append(@, m)]
        BY <1>4, <3>1 DEF ReaderReads
      <4>4. Append(intakeQ[c], m) \in Seq(JobMsg \cup {VerdictItem})
        BY <2>1, <4>1
      <4>5. intakeQ' \in [Sockets -> Seq(JobMsg \cup {VerdictItem})]
        BY <1>1, <4>3, <4>4
      <4> QED BY <2>3, <4>2, <4>5 DEF PodTypes, DeferredTypes, SenderTypes
    <3>2. CASE m.type = "ack"
      <4>1. m \in AckMsg
        BY <2>2, <3>2 DEF JobMsg
      <4>2. UNCHANGED received
        BY <1>4, <3>2 DEF ReaderReads
      <4>3. intakeQ' = intakeQ \/ intakeQ' = [intakeQ EXCEPT ![c] = Append(@, VerdictItem)]
        BY <1>4, <3>2 DEF ReaderReads
      <4>4. Append(intakeQ[c], VerdictItem) \in Seq(JobMsg \cup {VerdictItem})
        BY <2>1
      <4>5. intakeQ' \in [Sockets -> Seq(JobMsg \cup {VerdictItem})]
        BY <1>1, <4>3, <4>4
      <4>6. MarkOf(m) \in Marked(Verdicts)
        BY <1>1, <4>1 DEF MarkOf, Marked, AckMsg
      <4>7. acks' \subseteq acks \cup {MarkOf(m)}
        BY <1>4, <3>2 DEF ReaderReads
      <4> HIDE DEF m
      <4>8. acks' \subseteq Marked(Verdicts)
        BY <4>6, <4>7 DEF PodTypes, SenderTypes
      <4> QED BY <2>3, <4>2, <4>5, <4>8 DEF PodTypes, DeferredTypes, SenderTypes
    <3> QED BY <2>2, <3>1, <3>2 DEF JobMsg, AckMsg
  <2> QED BY <1>2, <2>5, <2>6 DEF PodTypes
<1> QED BY <1>3, <1>4

(* The intake handles the head of its queue, or ends with all of it. *)
LEMMA IntakeKeepsTypes ==
  ASSUME PodTypes, NEW c \in Sockets, Intake(c)
  PROVE  PodTypes'
<1>1. /\ intakeQ \in [Sockets -> Seq(JobMsg \cup {VerdictItem})] /\ received \in Nat
      /\ rejecting \in [Sockets -> 0..2]
  BY DEF PodTypes, DeferredTypes
<1>2. UNCHANGED IntakeRest
  BY DEF Intake, IntakeLatches, IntakeAccepts, IntakeRaises, IntakeRejects, IntakeRejectFails
<1>3. PeerTypes' /\ SenderTypes' /\ UNCHANGED <<conns, up, down>>
  BY <1>2, SameTypes DEF IntakeRest, cpVars, senderVars
<1>4. ASSUME IntakeNext(c), intakeQ[c] # <<>> PROVE DeferredTypes' /\ NetTypes'
  <2>1. Tail(intakeQ[c]) \in Seq(JobMsg \cup {VerdictItem})
    BY <1>1, <1>4
  <2>2. DeferredTypes'
    BY <1>1, <1>4, <2>1 DEF IntakeNext, DeferredTypes
  <2>3. NetTypes'
    BY <1>3, <1>4, SameTypes DEF IntakeNext
  <2> QED BY <2>2, <2>3
<1>5. ASSUME IntakeDies(c) PROVE DeferredTypes' /\ NetTypes'
  <2>1. DeferredTypes'
    BY <1>1, <1>5, EmptySeq DEF IntakeDies, DeferredTypes
  <2>2. NetTypes'
    BY <1>3, <1>5, FailedConn DEF IntakeDies
  <2> QED BY <2>1, <2>2
<1>6. CASE IntakeLatches(c) \/ IntakeAccepts(c)
  BY <1>3, <1>4, <1>6 DEF IntakeLatches, IntakeAccepts, IntakeHas, PodTypes
<1>7. CASE IntakeRaises(c) \/ IntakeRejectFails(c)
  BY <1>3, <1>5, <1>7 DEF IntakeRaises, IntakeRejectFails, PodTypes
<1>8. CASE IntakeRejects(c)
  <2>1. CASE IntakeNext(c)
    BY <1>3, <1>4, <1>8, <2>1 DEF IntakeRejects, IntakeHas, PodTypes
  <2>2. CASE ~IntakeNext(c)
    <3>1. /\ rejecting' = [rejecting EXCEPT ![c] = @ + 1] /\ RejectKind(c) # "result"
          /\ UNCHANGED <<intakeQ, received, conn>>
      BY <1>8, <2>2 DEF IntakeRejects
    <3>2. rejecting[c] \in 0..1
      BY <1>1, <3>1 DEF RejectKind
    <3>3. DeferredTypes'
      BY <1>1, <3>1, <3>2 DEF DeferredTypes
    <3>4. NetTypes'
      BY <1>3, <3>1, SameTypes
    <3> QED BY <1>3, <3>3, <3>4 DEF PodTypes
  <2> QED BY <2>1, <2>2
<1> QED BY <1>6, <1>7, <1>8 DEF Intake

(* The control plane assigns, offers and answers. *)
LEMMA PeerKeepsTypes ==
  ASSUME PodTypes, ControlPlane
  PROVE  PodTypes'
<1>1. /\ assigned \in [Jobs -> 0..MaxAttempt] /\ lastAttempt \in [Jobs -> 0..MaxAttempt]
      /\ heard \subseteq FrameType /\ MaxAttempt \in Nat
      /\ NetTypes /\ down \in [Sockets -> Seq(JobMsg \cup AckMsg)]
      /\ up \in [Sockets -> Seq(FrameType)]
  BY BoundsAssumption DEF PodTypes, PeerTypes, NetTypes
<1>2. UNCHANGED <<intakeQ, received, rejecting>> /\ UNCHANGED <<pending, acks, known, cur>>
  BY DEF ControlPlane, CpAssigns, CpSendsJob, CpReads, podVars, intakeVars, senderVars
<1>3. DeferredTypes' /\ SenderTypes'
  BY <1>2, SameTypes
<1>4. ASSUME NEW j \in Jobs, CpAssigns(j) PROVE PodTypes'
  <2>1. lastAttempt[j] + 1 \in 0..MaxAttempt
    BY <1>1, <1>4 DEF CpAssigns
  <2>2. /\ assigned' = [assigned EXCEPT ![j] = lastAttempt[j] + 1]
        /\ lastAttempt' = [lastAttempt EXCEPT ![j] = lastAttempt[j] + 1]
        /\ UNCHANGED <<conn, conns, up, down, heard>>
    BY <1>4 DEF CpAssigns, podVars, connVars
  <2>3. assigned' \in [Jobs -> 0..MaxAttempt] /\ lastAttempt' \in [Jobs -> 0..MaxAttempt]
    BY <1>1, <2>1, <2>2
  <2> QED BY <1>1, <1>3, <2>2, <2>3, SameTypes DEF PodTypes, PeerTypes
<1>5. ASSUME NEW j \in Jobs, CpSendsJob(j) PROVE PodTypes'
  <2>1. assigned[j] \in 1..MaxAttempt
    BY <1>1, <1>5 DEF CpSendsJob
  <2>2. JobItem(j, assigned[j]) \in JobMsg \cup AckMsg
    BY <2>1 DEF JobItem, JobMsg
  <2>3. /\ down' = [down EXCEPT ![conn] = Append(@, JobItem(j, assigned[j]))]
        /\ UNCHANGED <<conn, conns, up, assigned, lastAttempt, heard>>
    BY <1>5 DEF CpSendsJob
  <2>4. down' \in [Sockets -> Seq(JobMsg \cup AckMsg)]
    <3>1. \A c \in Sockets : Append(down[c], JobItem(j, assigned[j])) \in Seq(JobMsg \cup AckMsg)
      BY <1>1, <2>2
    <3> QED BY <1>1, <2>3, <3>1
  <2> QED BY <1>1, <1>3, <2>3, <2>4, SameTypes DEF PodTypes, NetTypes
<1>6. ASSUME NEW c \in Sockets, CpReads(c) PROVE PodTypes'
  <2> DEFINE f == Head(up[c])
  <2>1. up[c] \in Seq(FrameType) /\ up[c] # <<>>
    BY <1>1, <1>6 DEF CpReads
  <2>2. f \in FrameType /\ Tail(up[c]) \in Seq(FrameType)
    BY <2>1
  <2>3. PICK answer \in Answers :
          /\ assigned' = assigned \/ assigned' = [assigned EXCEPT ![f.corr] = 0]
          /\ down' = down \/ down' = [down EXCEPT ![c] = Append(@, Ack(Key(f), Classify(f, answer)))]
    BY <1>6 DEF CpReads
  <2>4. /\ up' = [up EXCEPT ![c] = Tail(@)] /\ heard' = heard \cup {f}
        /\ UNCHANGED <<conn, conns, lastAttempt>>
    BY <1>6 DEF CpReads
  <2>5. Ack(Key(f), Classify(f, answer)) \in JobMsg \cup AckMsg
    <3>1. Key(f) \in KeyType
      BY <2>2 DEF Key, KeyType, FrameType
    <3> HIDE DEF f
    <3>2. Classify(f, answer) \in Verdicts
      BY AnswersAreVerdicts
    <3> QED BY <3>1, <3>2 DEF Ack, AckMsg
  <2> HIDE DEF f
  <2>6. down' \in [Sockets -> Seq(JobMsg \cup AckMsg)]
    <3>1. Append(down[c], Ack(Key(f), Classify(f, answer))) \in Seq(JobMsg \cup AckMsg)
      BY <1>1, <2>5
    <3> QED BY <1>1, <2>3, <3>1
  <2>7. up' \in [Sockets -> Seq(FrameType)]
    BY <1>1, <2>2, <2>4
  <2>8. assigned' \in [Jobs -> 0..MaxAttempt]
    <3>1. 0 \in 0..MaxAttempt
      BY <1>1
    <3>2. \A corr : [assigned EXCEPT ![corr] = 0] \in [Jobs -> 0..MaxAttempt]
      BY <1>1, <3>1
    <3>3. [assigned EXCEPT ![f.corr] = 0] \in [Jobs -> 0..MaxAttempt]
      BY <3>2
    <3> QED BY <1>1, <2>3, <3>3
  <2>9. NetTypes' /\ PeerTypes'
    BY <1>1, <2>2, <2>4, <2>6, <2>7, <2>8 DEF NetTypes, PeerTypes
  <2> QED BY <1>3, <2>9 DEF PodTypes
<1> QED BY <1>4, <1>5, <1>6 DEF ControlPlane

(* A new incarnation starts with nothing in hand; what was on the way up    *)
(* stays on the way.                                                        *)
LEMMA FreshPodTypes ==
  ASSUME MaxAttempt \in Nat
  PROVE  /\ NoCur \in CurType
         /\ Fresh \in [Sockets -> Seq(JobMsg \cup AckMsg)]
         /\ Fresh \in [Sockets -> Seq(FrameType)]
         /\ Fresh \in [Sockets -> Seq(JobMsg \cup {VerdictItem})]
         /\ [c \in Sockets |-> 0] \in [Sockets -> 0..2]
<1>1. NoCur \in CurType
  <2>1. NoCur.frame \in FrameType
    BY DEF NoCur, FrameType, FrameKinds
  <2> QED BY <2>1 DEF NoCur, CurType, Dispositions
<1>2. \A S : <<>> \in Seq(S)
  BY EmptySeq
<1> QED BY <1>1, <1>2 DEF Fresh

LEMMA RestartPodTypes ==
  ASSUME PodTypes, PodRestarts
  PROVE  PodTypes'
<1>1. MaxAttempt \in Nat /\ <<>> \in Seq(FrameType)
  BY BoundsAssumption, EmptySeq
<1>2. NetTypes'
  BY <1>1, FreshPodTypes DEF PodRestarts, PodTypes, NetTypes
<1>3. DeferredTypes'
  BY <1>1, FreshPodTypes DEF PodRestarts, DeferredTypes
<1>4. SenderTypes'
  BY <1>1, FreshPodTypes DEF PodRestarts, SenderTypes
<1>5. PeerTypes'
  BY SameTypes DEF PodRestarts, cpVars
<1> QED BY <1>2, <1>3, <1>4, <1>5 DEF PodTypes

(* Every step keeps the types. *)
LEMMA StepTypes ==
  ASSUME TypeOK, PodTypes, [StreamNext]_vars
  PROVE  PodTypes'
<1>1. CASE UNCHANGED vars \/ Claimer \/ \E j \in Jobs : Worker(j)
  <2>1. /\ UNCHANGED <<conn, conns, up, down>> /\ UNCHANGED <<intakeQ, received, rejecting>>
        /\ UNCHANGED <<pending, acks, known, cur>> /\ UNCHANGED <<assigned, lastAttempt, heard>>
    BY <1>1 DEF vars, Claimer, MainAnnounces, ClaimOpens, OpenStarts, ClaimEnters, ClaimRefused,
                ClaimTakes, ClaimReturns, OthersClaim, Worker, podVars, connVars, intakeVars,
                senderVars, cpVars
  <2> QED BY <2>1, SameTypes DEF PodTypes
<1>2. CASE \E c \in Sockets : NetDrops(c)
  <2>1. PICK c \in Sockets : NetDrops(c)
    BY <1>2
  <2>2. /\ UNCHANGED <<intakeQ, received, rejecting>> /\ UNCHANGED <<pending, acks, known, cur>>
        /\ UNCHANGED <<assigned, lastAttempt, heard>> /\ UNCHANGED <<conn, conns, down>>
        /\ up' = [up EXCEPT ![c] = <<>>]
    BY <2>1 DEF NetDrops, intakeVars, senderVars, cpVars
  <2>3. NetTypes'
    BY <2>2, EmptySeq DEF PodTypes, NetTypes
  <2> QED BY <2>2, <2>3, SameTypes DEF PodTypes
<1> QED BY <1>1, <1>2, OpeningTypes, SenderKeepsTypes, ReaderTypes, IntakeKeepsTypes, PeerKeepsTypes,
           RestartPodTypes DEF StreamNext

-----------------------------------------------------------------------------
(* The frame under judgement *)

(* Only a settle and a restart take a frame out of the outbox. *)
LEMMA AppendKeepsFrames ==
  ASSUME TypeOK, NEW kind \in FrameKinds, NEW j \in Jobs \cup {NoJob}, NEW a \in 0..MaxAttempt
  PROVE  Appended(kind, j, a) => Elems(outbox) \subseteq Elems(outbox')
<1> SUFFICES ASSUME Appended(kind, j, a) PROVE Elems(outbox) \subseteq Elems(outbox')
  OBVIOUS
<1> DEFINE f == NewFrame(kind, j, a, nextSeq)
<1>1. outbox' = WithFrame(Mem, f).outbox
  BY DEF Appended, Persist
<1>2. WithFrame(Mem, f).outbox = Append(outbox, f)
  BY DEF WithFrame, Mem
<1>3. f \in FrameType /\ outbox \in Seq(FrameType)
  BY FileTypes DEF TypeOK, FileType, Mem
<1> HIDE DEF f
<1>4. outbox' = outbox \o <<f>> /\ <<f>> \in Seq(FrameType)
  BY <1>1, <1>2, <1>3
<1>5. Elems(outbox \o <<f>>) = Elems(outbox) \cup Elems(<<f>>)
  BY <1>3, <1>4, ConcatElements
<1> QED BY <1>4, <1>5

LEMMA OthersKeepFrames ==
  ASSUME TypeOK, WorkStep \/ IntakeStep \/ HeadStep \/ LatchStep \/ UNCHANGED stateVars
  PROVE  Elems(outbox) \subseteq Elems(outbox')
<1>1. outbox \in Seq(FrameType) /\ 0 \in 0..MaxAttempt /\ inbox \in [Jobs -> 0..MaxAttempt]
  BY BoundsAssumption DEF TypeOK, FileType, Mem
<1>2. CASE LatchStep \/ UNCHANGED stateVars
  BY <1>2 DEF LatchStep, SocketOpened, LatchPending, LatchVerdict, stateVars, fileVars
<1>3. CASE WorkStep
  <2>1. PICK j \in Jobs : WorkerEvent(j) \/ WorkerResult(j) \/ WorkerAborts(j) \/ ClaimJob(j) \/ ClaimSkips(j)
    BY <1>3 DEF WorkStep
  <2>2. CASE WorkerEvent(j) \/ WorkerResult(j)
    <3>1. "event" \in FrameKinds /\ "result" \in FrameKinds /\ inbox[j] \in 0..MaxAttempt
      BY <1>1 DEF FrameKinds
    <3> QED BY <1>1, <2>2, <3>1, AppendKeepsFrames DEF WorkerEvent, WorkerResult
  <2>3. CASE WorkerAborts(j) \/ ClaimJob(j) \/ ClaimSkips(j)
    BY <2>3 DEF WorkerAborts, AppendFails, ResultRefused, ClaimJob, ClaimSkips, fileVars
  <2> QED BY <2>1, <2>2, <2>3
<1>4. CASE IntakeStep
  <2>1. PICK j \in Jobs, a \in 1..MaxAttempt :
        \/ Deduplicated(j, a) \/ JobAccepted(j, a) \/ JobNotSaved(j, a) \/ ReceiptNotSaved(j, a)
        \/ JobConflicts(j, a)
        \/ InvalidEvent(j) \/ InvalidReceipt(j, a) \/ InvalidResult(j, a)
        \/ \E kind \in {"event", "job_ack", "result"} : InvalidUnanswered(kind, j, a)
    BY <1>4 DEF IntakeStep
  <2>2. /\ a \in 0..MaxAttempt /\ "event" \in FrameKinds /\ "job_ack" \in FrameKinds
        /\ "result" \in FrameKinds
    BY <1>1, BoundsAssumption DEF FrameKinds
  <2>3. CASE Deduplicated(j, a) \/ InvalidEvent(j) \/ InvalidReceipt(j, a) \/ InvalidResult(j, a)
    BY <1>1, <2>2, <2>3, AppendKeepsFrames DEF Deduplicated, InvalidEvent, InvalidReceipt, InvalidResult
  <2>4. CASE JobAccepted(j, a)
    <3> DEFINE f == NewFrame("job_ack", j, a, nextSeq)
    <3>1. outbox' = WithFrame(WithJob(j, a), f).outbox
      BY <2>4 DEF JobAccepted, Persist
    <3>2. WithFrame(WithJob(j, a), f).outbox = Append(outbox, f)
      BY DEF WithFrame, WithJob, Mem
    <3>3. f \in FrameType
      BY <2>2, FileTypes
    <3> HIDE DEF f
    <3>4. outbox' = outbox \o <<f>> /\ <<f>> \in Seq(FrameType)
      BY <1>1, <3>1, <3>2, <3>3
    <3>5. Elems(outbox \o <<f>>) = Elems(outbox) \cup Elems(<<f>>)
      BY <1>1, <3>4, ConcatElements
    <3> QED BY <3>4, <3>5
  <2>5. CASE ~(Deduplicated(j, a) \/ InvalidEvent(j) \/ InvalidReceipt(j, a) \/ InvalidResult(j, a)
               \/ JobAccepted(j, a))
    BY <2>1, <2>5 DEF JobNotSaved, ReceiptNotSaved, AppendFails, JobConflicts, InvalidUnanswered
  <2> QED BY <2>3, <2>4, <2>5
<1>5. CASE HeadStep
  <2>1. PICK kind \in BootKinds : HeadAppended(kind) \/ HeadAppendFails(kind)
    BY <1>5 DEF HeadStep, AnnounceReady, AnnounceReadyFails, BootKinds
  <2>2. CASE HeadAppendFails(kind)
    BY <2>2 DEF HeadAppendFails
  <2>3. CASE HeadAppended(kind)
    <3> DEFINE f == NewFrame(kind, NoJob, 0, nextSeq)
    <3>1. kind \in FrameKinds
      BY DEF FrameKinds
    <3>2. f \in FrameType
      BY <1>1, <3>1, FileTypes
    <3>3. outbox' = WithHead(f).outbox
      BY <2>3 DEF HeadAppended, Persist
    <3>4. WithHead(f).outbox = <<f>> \o outbox
      BY DEF WithHead, Mem
    <3> HIDE DEF f
    <3>5. <<f>> \in Seq(FrameType)
      BY <3>2
    <3>6. Elems(<<f>> \o outbox) = Elems(<<f>>) \cup Elems(outbox)
      BY <1>1, <3>5, ConcatElements
    <3> QED BY <3>3, <3>4, <3>6
  <2> QED BY <2>1, <2>2, <2>3
<1> QED BY <1>2, <1>3, <1>4, <1>5

(* Nobody but the sender retires the frame the sender is about to settle. *)
LEMMA StepJudging ==
  ASSUME TypeOK, ThreadInv, [StreamNext]_vars
  PROVE  Judging'
<1>1. outbox \in Seq(FrameType)
  BY DEF TypeOK, FileType, Mem
<1>2. ASSUME UNCHANGED <<spc, cur>>,
             WorkStep \/ IntakeStep \/ HeadStep \/ LatchStep \/ UNCHANGED stateVars
      PROVE  Judging'
  BY <1>2, OthersKeepFrames DEF ThreadInv, Judging
<1>3. ASSUME spc' # "apply" PROVE Judging'
  BY <1>3 DEF Judging
<1>4. CASE Opening
  <2>1. HeadStep \/ LatchStep \/ UNCHANGED stateVars
    BY <1>4 DEF Opening, OpenConnects, OpenRefused, OpenBootstraps, OpenBootstrapFails, OpenReports,
                HeadStep, LatchStep
  <2>2. UNCHANGED <<spc, cur>> \/ spc' # "apply"
    BY <1>4 DEF Opening, OpenConnects, OpenRefused, OpenBootstraps, OpenBootstrapFails, OpenReports,
                OpenReturnsFalse, AfterAttempt, senderVars
  <2> QED BY <1>2, <1>3, <2>1, <2>2
<1>5. CASE Sender
  <2>1. CASE SenderSlices \/ SenderOpens \/ SenderWrites \/ SenderCollects
    <3>1. (UNCHANGED <<spc, cur>> /\ UNCHANGED stateVars) \/ spc' # "apply"
      BY <2>1 DEF SenderSlices, SenderOpens, OpenStarts, SenderWrites, SenderCollects, AfterAttempt,
                  senderVars
    <3> QED BY <1>2, <1>3, <3>1
  <2>2. CASE SenderPicks
    <3>1. outbox # <<>> /\ UNCHANGED outbox /\ cur'.frame = Head(outbox)
      BY <2>2 DEF SenderPicks, HeadJudged, stateVars
    <3>2. Head(outbox) \in Elems(outbox)
      BY <1>1, <3>1, TailElements
    <3> QED BY <3>1, <3>2 DEF Judging
  <2>3. CASE SenderEnds
    <3>1. UNCHANGED outbox
      BY <2>3 DEF SenderEnds, stateVars
    <3>2. spc' # "apply" \/ (outbox # <<>> /\ cur'.frame = Head(outbox))
      BY <2>3 DEF SenderEnds
    <3>3. outbox # <<>> => Head(outbox) \in Elems(outbox)
      BY <1>1, TailElements
    <3> QED BY <3>1, <3>2, <3>3 DEF Judging
  <2>4. CASE SenderSettles \/ SenderSettleFails
    <3>1. cur.then # "apply"
      BY DEF ThreadInv, PodTypes, SenderTypes, CurType
    <3> QED BY <1>3, <2>4, <3>1 DEF SenderSettles, SenderSettleFails
  <2> QED BY <1>5, <2>1, <2>2, <2>3, <2>4 DEF Sender
<1>6. CASE Claimer
  <2>1. UNCHANGED <<spc, cur>>
    BY <1>6 DEF Claimer, MainAnnounces, ClaimOpens, OpenStarts, ClaimEnters, ClaimRefused,
                ClaimTakes, ClaimReturns, OthersClaim, senderVars
  <2> QED BY <1>2, <1>6, <2>1, ClaimerRefines
<1>7. CASE \E j \in Jobs : Worker(j)
  <2>1. UNCHANGED <<spc, cur>>
    BY <1>7 DEF Worker, podVars, senderVars
  <2> QED BY <1>2, <1>7, <2>1, WorkerRefines
<1>8. CASE ControlPlane
  <2>1. UNCHANGED <<spc, cur>>
    BY <1>8 DEF ControlPlane, CpAssigns, CpSendsJob, CpReads, podVars, senderVars
  <2> QED BY <1>2, <1>8, <2>1, PeerRefines
<1>9. CASE \E c \in Sockets : ReaderReads(c) \/ ReaderEnds(c) \/ Intake(c) \/ NetDrops(c)
  <2>1. PICK c \in Sockets : ReaderReads(c) \/ ReaderEnds(c) \/ Intake(c) \/ NetDrops(c)
    BY <1>9
  <2>2. UNCHANGED <<spc, cur>>
    BY <2>1 DEF ReaderReads, ReaderEnds, NetDrops, Intake, IntakeLatches, IntakeAccepts, IntakeRaises,
                IntakeRejects, IntakeRejectFails, IntakeRest, senderVars
  <2> QED BY <1>2, <2>1, <2>2, PeerRefines, IntakeRefines DEF ThreadInv
<1>10. CASE PodRestarts
  BY <1>3, <1>10 DEF PodRestarts
<1>11. CASE UNCHANGED vars
  BY <1>2, <1>11 DEF vars, podVars, senderVars
<1> QED BY <1>4, <1>5, <1>6, <1>7, <1>8, <1>9, <1>10, <1>11 DEF StreamNext

-----------------------------------------------------------------------------
(* The refinement, and what the durable half keeps under the threads *)

LEMMA ThreadsStart == StreamInit => Init /\ ThreadInv
<1> SUFFICES ASSUME StreamInit PROVE Init /\ ThreadInv
  OBVIOUS
<1>1. Init
  BY BoundsAssumption DEF StreamInit, FreshPod, Init
<1>2. MaxAttempt \in Nat /\ 0 \in 0..MaxAttempt /\ 0 \in 0..MaxConns /\ 0 \in 0..0 /\ 0 \in Nat
  BY BoundsAssumption, StreamAssumption
<1>3. NetTypes /\ DeferredTypes
  BY <1>2, FreshPodTypes DEF StreamInit, FreshPod, PodStarts, NetTypes, DeferredTypes
<1>4. SenderTypes
  BY <1>2, FreshPodTypes, EmptySeq DEF StreamInit, FreshPod, PodStarts, SenderTypes
<1>5. PeerTypes
  BY <1>2 DEF StreamInit, FreshPod, PeerTypes
<1>6. Judging
  BY DEF StreamInit, FreshPod, PodStarts, Judging
<1> QED BY <1>1, <1>3, <1>4, <1>5, <1>6 DEF PodTypes, ThreadInv

LEMMA ThreadsHold == StreamSpec => [](TypeOK /\ ThreadInv)
<1>1. StreamInit => TypeOK /\ ThreadInv
  BY ThreadsStart, TypesStart
<1>2. TypeOK /\ ThreadInv /\ [StreamNext]_vars => (TypeOK /\ ThreadInv)'
  BY StepRefines, TypesKept, StepTypes, StepJudging DEF ThreadInv
<1> QED BY <1>1, <1>2, PTL DEF StreamSpec

(* Every step of the sender, the reader, the intake, the claimer, a worker, *)
(* the sockets and the control plane is a step of the durable half, or      *)
(* leaves it alone: what a thread decided before it took the lock is still  *)
(* legal when it acts on it.                                                *)
THEOREM ThreadsRefine == StreamSpec => DurableHandlers
<1>1. StreamInit => Init
  BY ThreadsStart
<1>2. ThreadInv /\ [StreamNext]_vars => [Next]_stateVars
  BY StepRefines
<1> QED BY <1>1, <1>2, ThreadsHold, PTL DEF StreamSpec, DurableHandlers, Spec

(* So under any interleaving of the threads the next boot accepts the file, *)
(* no frame that is owed is lost, and a permanent verdict stays latched.    *)
THEOREM ThreadsKeepTheFile == StreamSpec => [](BootNeverRefuses /\ NothingOwedIsLost) /\ VerdictSticks
BY ThreadsRefine, BootsAlways, OwedIsHeld, PermanentVerdicts, PTL DEF DurableHandlers

-----------------------------------------------------------------------------
(* One name, one frame. The strengthening: frames on their way to the       *)
(* control plane and frames in the window count as well, everything in      *)
(* memory or beyond was named before the next sequence number, and only the *)
(* file, after a failed write, may hold a frame of that number itself.      *)

InFlight == UNION {Elems(up[c]) : c \in Sockets}
Sent     == heard \cup InFlight \cup Elems(pending)

OneName(S) == \A f, g \in S : Key(f) = Key(g) => f = g
NamesHold(S) ==
  /\ S \subseteq FrameType
  /\ OneName(S \cup Holds(Mem) \cup Holds(disk))
  /\ \A f \in S \cup Holds(Mem) : OlderThan(f, nextSeq)
  /\ \A f \in Holds(disk) : OlderThan(f, nextSeq + 1)
NamesInv == NamesHold(Sent)

(* What a step of the durable half does with the next sequence number: it   *)
(* takes it for one frame, it spares it, or a new incarnation starts over.  *)
NextName(f) == f \in FrameType /\ f.stream = stream /\ f.seq = nextSeq
Takes(f) ==
  /\ NextName(f) /\ stream' = stream /\ nextSeq' = nextSeq + 1
  /\ Holds(Mem)' \subseteq Holds(Mem) \cup {f}
  /\ Holds(disk)' \subseteq Holds(Mem) \cup {f}
Spares ==
  /\ stream' = stream /\ nextSeq' = nextSeq
  /\ Holds(Mem)' \subseteq Holds(Mem)
  /\ \/ Holds(disk)' \subseteq Holds(Mem) \cup Holds(disk)
     \/ \E f : NextName(f) /\ Holds(disk)' \subseteq Holds(Mem) \cup {f}
StartsOver ==
  /\ stream' = stream + 1 /\ nextSeq' = 1
  /\ Holds(Mem)' \subseteq Holds(disk) /\ Holds(disk)' \subseteq Holds(disk)
Names == (\E f : Takes(f)) \/ Spares \/ StartsOver

(* What memory and the file hold are frames. *)
LEMMA HeldAreFrames ==
  ASSUME TypeOK
  PROVE  Holds(Mem) \subseteq FrameType /\ Holds(disk) \subseteq FrameType
<1>1. \A d \in FileType : Holds(d) \subseteq FrameType
  BY ElemsAreFrames DEF Holds, FileType
<1> QED BY <1>1 DEF TypeOK

(* Each of the three keeps names apart, whatever set was sent. *)
LEMMA NamesKept ==
  ASSUME TypeOK, TypeOK', NEW S, NamesHold(S), Names
  PROVE  NamesHold(S)'
<1>1. /\ S \subseteq FrameType /\ Holds(Mem) \subseteq FrameType /\ Holds(disk) \subseteq FrameType
      /\ stream \in Nat /\ nextSeq \in Nat
  BY HeldAreFrames DEF NamesHold, TypeOK
<1>2. \A f \in FrameType : f.stream \in Nat /\ f.seq \in Nat
  BY DEF FrameType
<1>3. ASSUME NEW f, Takes(f) PROVE NamesHold(S)'
  <2>1. \A g \in S \cup Holds(Mem) : Key(g) # Key(f)
    BY <1>1, <1>2, <1>3 DEF NamesHold, OlderThan, Takes, NextName, Key
  <2>2. OneName(S \cup Holds(Mem) \cup {f})
    BY <2>1 DEF NamesHold, OneName
  <2>3. OneName(S \cup Holds(Mem)' \cup Holds(disk)')
    BY <1>3, <2>2 DEF OneName, Takes
  <2>4. \A g \in S \cup Holds(Mem) \cup {f} :
          g.stream < stream \/ (g.stream = stream /\ g.seq < nextSeq + 1)
    BY <1>1, <1>2, <1>3 DEF NamesHold, OlderThan, Takes, NextName
  <2>5. \A g \in S \cup Holds(Mem) \cup {f} :
          /\ g.stream < stream' \/ (g.stream = stream' /\ g.seq < nextSeq')
          /\ g.stream < stream' \/ (g.stream = stream' /\ g.seq < nextSeq' + 1)
    BY <1>1, <1>2, <1>3, <2>4 DEF Takes, NextName
  <2> QED BY <1>1, <1>3, <2>3, <2>5 DEF NamesHold, OneName, OlderThan, Takes
<1>4. ASSUME Spares PROVE NamesHold(S)'
  <2>1. CASE Holds(disk)' \subseteq Holds(Mem) \cup Holds(disk)
    <3>1. \A g \in Holds(Mem) \cup Holds(disk) : OlderThan(g, nextSeq + 1)
      BY <1>1, <1>2 DEF NamesHold, OlderThan
    <3> QED BY <1>1, <1>4, <2>1, <3>1 DEF NamesHold, OneName, OlderThan, Spares
  <2>2. CASE \E f : NextName(f) /\ Holds(disk)' \subseteq Holds(Mem) \cup {f}
    <3>1. PICK f : NextName(f) /\ Holds(disk)' \subseteq Holds(Mem) \cup {f}
      BY <2>2
    <3>2. \A g \in S \cup Holds(Mem) : Key(g) # Key(f)
      BY <1>1, <1>2, <3>1 DEF NamesHold, OlderThan, NextName, Key
    <3>3. OneName(S \cup Holds(Mem) \cup {f})
      BY <3>2 DEF NamesHold, OneName
    <3>4. \A g \in Holds(Mem) \cup {f} : OlderThan(g, nextSeq + 1)
      BY <1>1, <1>2, <3>1 DEF NamesHold, OlderThan, NextName
    <3> QED BY <1>1, <1>4, <3>1, <3>3, <3>4 DEF NamesHold, OneName, OlderThan, Spares
  <2> QED BY <1>4, <2>1, <2>2 DEF Spares
<1>5. ASSUME StartsOver PROVE NamesHold(S)'
  <2>1. \A g \in S \cup Holds(disk) : g.stream < stream + 1
    BY <1>1, <1>2 DEF NamesHold, OlderThan
  <2>2. \A g \in S \cup Holds(Mem)' \cup Holds(disk)' : g.stream < stream'
    BY <1>5, <2>1 DEF StartsOver
  <2>3. OneName(S \cup Holds(Mem)' \cup Holds(disk)')
    BY <1>5 DEF NamesHold, OneName, StartsOver
  <2> QED BY <1>1, <2>2, <2>3 DEF NamesHold, OneName, OlderThan
<1> QED BY <1>3, <1>4, <1>5 DEF Names

(* The frame an emit makes has the next name. *)
LEMMA NewFrameIsNext ==
  ASSUME TypeOK, NEW kind \in FrameKinds, NEW j \in Jobs \cup {NoJob}, NEW a \in 0..MaxAttempt
  PROVE  NextName(NewFrame(kind, j, a, nextSeq))
<1>1. NewFrame(kind, j, a, nextSeq) \in FrameType
  BY FileTypes
<1> QED BY <1>1 DEF NextName, NewFrame

(* A save of d, and one that fails, as what is held afterwards. *)
LEMMA SavedHolds ==
  ASSUME NEW d
  PROVE  /\ Persist(d) => Holds(Mem)' = Holds(d) /\ Holds(disk)' = Holds(d)
         /\ \A other : PersistFails(d, other) =>
              Holds(disk)' = Holds(other) \/ Holds(disk)' = Holds(d)
         /\ UNCHANGED <<outbox, rejected>> => Holds(Mem)' = Holds(Mem)
<1>1. Persist(d) => Holds(Mem)' = Holds(d) /\ Holds(disk)' = Holds(d)
  BY DEF Persist, Holds, Mem, Elems
<1>2. \A other : PersistFails(d, other) => Holds(disk)' = Holds(other) \/ Holds(disk)' = Holds(d)
  BY DEF PersistFails, Holds, Elems
<1>3. UNCHANGED <<outbox, rejected>> => Holds(Mem)' = Holds(Mem)
  BY DEF Holds, Mem, Elems
<1> QED BY <1>1, <1>2, <1>3

(* The probe of a latched storage rewrites memory, which is already held. *)
LEMMA ProbedHolds == Holds(ProbedDisk) \subseteq Holds(Mem) \cup Holds(disk)
BY DEF ProbedDisk

(* The shared append takes one name, or spares it. *)
LEMMA AppendNames ==
  ASSUME TypeOK, NEW kind \in FrameKinds, NEW j \in Jobs \cup {NoJob}, NEW a \in 0..MaxAttempt
  PROVE  Appended(kind, j, a) \/ AppendFails(kind, j, a) => Names
<1> DEFINE f == NewFrame(kind, j, a, nextSeq)
<1>1. f \in FrameType /\ NextName(f) /\ Mem \in FileType
  BY NewFrameIsNext, FileTypes DEF NextName
<1> HIDE DEF f
<1>2. Holds(WithFrame(Mem, f)) = Holds(Mem) \cup {f}
  BY <1>1, AppendHolds
<1>3. ASSUME Appended(kind, j, a) PROVE Takes(f)
  <2>1. Persist(WithFrame(Mem, f)) /\ stream' = stream /\ nextSeq' = nextSeq + 1
    BY <1>3 DEF Appended, f
  <2> QED BY <1>1, <1>2, <2>1, SavedHolds DEF Takes
<1>4. ASSUME AppendFails(kind, j, a) PROVE Spares
  <2>1. /\ PersistFails(Mem, disk) \/ PersistFails(WithFrame(Mem, f), ProbedDisk)
        /\ UNCHANGED <<outbox, rejected, stream, nextSeq>>
    BY <1>4 DEF AppendFails, f
  <2>2. Holds(Mem)' = Holds(Mem)
    BY <2>1, SavedHolds
  <2>3. Holds(disk)' \subseteq Holds(Mem) \cup Holds(disk) \/ Holds(disk)' \subseteq Holds(Mem) \cup {f}
    BY <1>2, <2>1, SavedHolds, ProbedHolds
  <2> QED BY <1>1, <2>1, <2>2, <2>3 DEF Spares
<1> QED BY <1>3, <1>4 DEF Names

(* A step that touches neither memory's frames nor the file. *)
LEMMA UntouchedNames ==
  UNCHANGED <<outbox, rejected, disk, stream, nextSeq>> => Names
<1>1. UNCHANGED <<outbox, rejected, disk, stream, nextSeq>>
        => Holds(Mem)' = Holds(Mem) /\ Holds(disk)' = Holds(disk)
  BY DEF Holds, Mem, Elems
<1> QED BY <1>1 DEF Names, Spares

(* Workers and the claim queue. *)
LEMMA WorkNames ==
  ASSUME TypeOK, WorkStep
  PROVE  Names
<1>1. PICK j \in Jobs : WorkerEvent(j) \/ WorkerResult(j) \/ WorkerAborts(j) \/ ClaimJob(j) \/ ClaimSkips(j)
  BY DEF WorkStep
<1>2. /\ 0 \in 0..MaxAttempt /\ "event" \in FrameKinds /\ "result" \in FrameKinds
      /\ inbox[j] \in 0..MaxAttempt
  BY BoundsAssumption DEF FrameKinds, TypeOK, FileType, Mem
<1>3. CASE WorkerEvent(j) \/ WorkerResult(j)
  BY <1>2, <1>3, AppendNames DEF WorkerEvent, WorkerResult
<1>4. CASE WorkerAborts(j)
  <2>1. CASE AppendFails("event", j, 0) \/ AppendFails("result", j, inbox[j])
    BY <1>2, <2>1, AppendNames
  <2>2. CASE ResultRefused(j)
    <3>1. disk' = ProbedDisk /\ UNCHANGED <<outbox, rejected, stream, nextSeq>>
      BY <2>2 DEF ResultRefused
    <3>2. Holds(disk)' = Holds(ProbedDisk)
      BY <3>1 DEF Holds, Elems
    <3> QED BY <3>1, <3>2, SavedHolds, ProbedHolds DEF Names, Spares
  <2> QED BY <1>4, <2>1, <2>2 DEF WorkerAborts
<1>5. CASE ClaimJob(j) \/ ClaimSkips(j)
  BY <1>5, UntouchedNames DEF ClaimJob, ClaimSkips, fileVars
<1> QED BY <1>1, <1>3, <1>4, <1>5

(* The intake: a job and its receipt are saved, or one of them is not. *)
LEMMA IntakeNames ==
  ASSUME TypeOK, IntakeStep
  PROVE  Names
<1>1. PICK j \in Jobs, a \in 1..MaxAttempt :
        \/ Deduplicated(j, a) \/ JobAccepted(j, a) \/ JobNotSaved(j, a) \/ ReceiptNotSaved(j, a)
        \/ JobConflicts(j, a)
        \/ InvalidEvent(j) \/ InvalidReceipt(j, a) \/ InvalidResult(j, a)
        \/ \E kind \in {"event", "job_ack", "result"} : InvalidUnanswered(kind, j, a)
  BY DEF IntakeStep
<1>2. /\ 0 \in 0..MaxAttempt /\ a \in 0..MaxAttempt
      /\ "event" \in FrameKinds /\ "job_ack" \in FrameKinds /\ "result" \in FrameKinds
  BY BoundsAssumption DEF FrameKinds
<1> DEFINE f == NewFrame("job_ack", j, a, nextSeq)
           w == WithJob(j, a)
<1>3. f \in FrameType /\ NextName(f) /\ w \in FileType
  BY <1>2, NewFrameIsNext, FileTypes DEF NextName
<1>4. Holds(w) = Holds(Mem)
  BY DEF WithJob, Holds, Mem
<1> HIDE DEF f, w
<1>5. Holds(WithFrame(w, f)) = Holds(Mem) \cup {f}
  BY <1>3, <1>4, AppendHolds
<1>6. CASE Deduplicated(j, a) \/ InvalidEvent(j) \/ InvalidReceipt(j, a) \/ InvalidResult(j, a)
  BY <1>2, <1>6, AppendNames DEF Deduplicated, InvalidEvent, InvalidReceipt, InvalidResult
<1>7. CASE JobAccepted(j, a)
  <2>1. Persist(WithFrame(w, f)) /\ stream' = stream /\ nextSeq' = nextSeq + 1
    BY <1>7 DEF JobAccepted, f, w
  <2> QED BY <1>3, <1>5, <2>1, SavedHolds DEF Takes, Names
<1>8. CASE JobNotSaved(j, a)
  <2>1. PersistFails(w, disk) /\ UNCHANGED <<outbox, rejected, stream, nextSeq>>
    BY <1>8 DEF JobNotSaved, w
  <2> QED BY <1>4, <2>1, SavedHolds DEF Names, Spares
<1>9. CASE ReceiptNotSaved(j, a)
  <2>1. CASE AppendFails("job_ack", j, a)
    BY <1>2, <2>1, AppendNames
  <2>2. CASE ~AppendFails("job_ack", j, a)
    <3>1. PersistFails(WithFrame(w, f), w) /\ UNCHANGED <<outbox, rejected, stream, nextSeq>>
      BY <1>9, <2>2 DEF ReceiptNotSaved, f, w
    <3>2. Holds(disk)' \subseteq Holds(Mem) \cup {f}
      BY <1>4, <1>5, <3>1, SavedHolds
    <3> QED BY <1>3, <3>1, <3>2, SavedHolds DEF Names, Spares
  <2> QED BY <2>1, <2>2
<1>10. CASE JobConflicts(j, a)
  BY <1>10, UntouchedNames DEF JobConflicts
<1>11. CASE \E kind \in {"event", "job_ack", "result"} : InvalidUnanswered(kind, j, a)
  <2>1. PICK kind \in {"event", "job_ack", "result"} : InvalidUnanswered(kind, j, a)
    BY <1>11
  <2> DEFINE g == NewFrame(kind, j, IF kind = "event" THEN 0 ELSE a, nextSeq)
  <2>2. g \in FrameType /\ NextName(g) /\ Mem \in FileType
    <3>1. NextName(g)
      BY <1>2, NewFrameIsNext
    <3> QED BY <3>1, FileTypes DEF NextName
  <2>3. /\ \/ PersistFails(Mem, disk) \/ PersistFails(WithFrame(Mem, g), ProbedDisk)
           \/ disk' = ProbedDisk
        /\ UNCHANGED <<outbox, rejected, stream, nextSeq>>
    BY <2>1 DEF InvalidUnanswered
  <2> HIDE DEF g
  <2>4. Holds(WithFrame(Mem, g)) = Holds(Mem) \cup {g}
    BY <2>2, AppendHolds
  <2>5. disk' = ProbedDisk => Holds(disk)' = Holds(ProbedDisk)
    BY DEF Holds, Elems
  <2>6. \/ Holds(disk)' \subseteq Holds(Mem) \cup Holds(disk)
        \/ Holds(disk)' \subseteq Holds(Mem) \cup {g}
    BY <2>3, <2>4, <2>5, SavedHolds, ProbedHolds
  <2> QED BY <2>2, <2>3, <2>6, SavedHolds DEF Names, Spares
<1> QED BY <1>1, <1>6, <1>7, <1>8, <1>9, <1>10, <1>11

(* A frame put at the head. *)
LEMMA HeadNames ==
  ASSUME TypeOK, HeadStep
  PROVE  Names
<1>1. PICK kind \in BootKinds : HeadAppended(kind) \/ HeadAppendFails(kind)
  BY DEF HeadStep, AnnounceReady, AnnounceReadyFails, BootKinds
<1> DEFINE f == NewFrame(kind, NoJob, 0, nextSeq)
           d == WithHead(f)
<1>2. f \in FrameType /\ NextName(f)
  <2>1. 0 \in 0..MaxAttempt /\ kind \in FrameKinds
    BY BoundsAssumption DEF FrameKinds
  <2> QED BY <2>1, NewFrameIsNext DEF NextName
<1> HIDE DEF f
<1>3. Holds(d) \subseteq Holds(Mem) \cup {f}
  <2>1. outbox \in Seq(FrameType) /\ <<f>> \in Seq(FrameType)
    BY <1>2 DEF TypeOK, FileType, Mem
  <2>2. Elems(<<f>> \o outbox) = Elems(<<f>>) \cup Elems(outbox)
    BY <2>1, ConcatElements
  <2>3. Elems(<<f>>) = {f}
    BY DEF Elems
  <2>4. d.outbox = <<f>> \o outbox /\ d.rejected = rejected /\ Mem.outbox = outbox /\ Mem.rejected = rejected
    BY DEF WithHead, Mem
  <2> QED BY <2>2, <2>3, <2>4 DEF Holds
<1> HIDE DEF d
<1>4. CASE HeadAppended(kind)
  <2>1. Persist(d) /\ stream' = stream /\ nextSeq' = nextSeq + 1
    BY <1>4 DEF HeadAppended, d, f
  <2> QED BY <1>2, <1>3, <2>1, SavedHolds DEF Takes, Names
<1>5. CASE HeadAppendFails(kind)
  <2>1. PersistFails(d, disk) /\ UNCHANGED <<outbox, rejected, stream, nextSeq>>
    BY <1>5 DEF HeadAppendFails, d, f
  <2>2. Holds(disk)' = Holds(disk) \/ Holds(disk)' = Holds(d)
    BY <2>1, SavedHolds
  <2>3. Holds(Mem)' = Holds(Mem)
    BY <2>1, SavedHolds
  <2> QED BY <1>2, <1>3, <2>1, <2>2, <2>3 DEF Names, Spares
<1> QED BY <1>1, <1>4, <1>5

(* What the outbox and the dead-letter are left with once the head leaves. *)
LEMMA LeavingNames ==
  ASSUME TypeOK, NEW f \in Elems(outbox), NEW disp \in Dispositions, AtHead(f)
  PROVE  Holds(WithoutHead(f, disp)) \subseteq Holds(Mem) \cup Elems(Acked(f, disp))
<1> DEFINE e == WithoutHead(f, disp)
           k == Acked(f, disp)
<1>1. outbox \in Seq(FrameType) /\ outbox # <<>> /\ Mem.outbox = outbox /\ Mem.rejected = rejected
  BY DEF AtHead, TypeOK, FileType, Mem
<1>2. k \in Seq(FrameType)
  <2>1. f \in FrameType /\ 0 \in 0..MaxAttempt /\ "event" \in FrameKinds
    BY SettleTypesOfOperators, BoundsAssumption DEF FrameKinds
  <2>2. NewFrame("event", f.corr, 0, nextSeq) \in FrameType
    <3>1. f.corr \in Jobs \cup {NoJob}
      BY <2>1 DEF FrameType
    <3> QED BY <2>1, <3>1, FileTypes
  <2>3. \A g \in FrameType : <<g>> \in Seq(FrameType)
    OBVIOUS
  <2> QED BY <2>2, <2>3, EmptySeq DEF Acked
<1>3. Tail(outbox) \in Seq(FrameType) /\ Elems(Tail(outbox)) \subseteq Elems(outbox)
  BY <1>1, TailElements
<1>4. e.outbox = Tail(outbox) \o k /\ e.rejected \subseteq rejected \cup {f}
  BY DEF WithoutHead
<1> HIDE DEF e, k
<1>5. Elems(Tail(outbox) \o k) = Elems(Tail(outbox)) \cup Elems(k)
  BY <1>2, <1>3, ConcatElements
<1> QED BY <1>1, <1>3, <1>4, <1>5 DEF Holds, e, k

(* A settled verdict takes a name only for the terminal's event. *)
LEMMA SettleNames ==
  ASSUME TypeOK, SettleStep
  PROVE  Names
<1>1. PICK f \in Elems(outbox), disp \in Dispositions :
        Settled(f, disp) \/ SettleFails(f, disp) \/ ReleaseNotSaved(f, disp)
  BY DEF SettleStep
<1> DEFINE leaves == Leaves(f, disp)
           d1     == IF leaves THEN WithoutHead(f, disp) ELSE Mem
           free   == [d1 EXCEPT !.inbox = [inbox EXCEPT ![f.corr] = 0]]
           acked  == IF leaves THEN Elems(Acked(f, disp)) ELSE {}
           e      == NewFrame("event", f.corr, 0, nextSeq)
<1>2. NextName(e) /\ e \in FrameType
  <2>1. f \in FrameType /\ 0 \in 0..MaxAttempt /\ "event" \in FrameKinds
    BY SettleTypesOfOperators, BoundsAssumption DEF FrameKinds
  <2>2. f.corr \in Jobs \cup {NoJob}
    BY <2>1 DEF FrameType
  <2> QED BY <2>1, <2>2, NewFrameIsNext DEF NextName
<1>3. \/ acked = {} /\ Cardinality(acked) = 0
      \/ acked = {e} /\ Cardinality(acked) = 1 /\ disp = "accepted" /\ leaves
  <2> HIDE DEF e
  <2>1. Acked(f, disp) = <<>> \/ (Acked(f, disp) = <<e>> /\ disp = "accepted")
    BY DEF Acked, e
  <2>2. Elems(<<>>) = {} /\ Elems(<<e>>) = {e}
    BY DEF Elems
  <2>3. acked = {} \/ (acked = {e} /\ disp = "accepted" /\ leaves)
    BY <2>1, <2>2
  <2>4. Cardinality({}) = 0 /\ Cardinality({e}) = 1
    BY FS_EmptySet, FS_Singleton
  <2> HIDE DEF acked
  <2> QED BY <2>3, <2>4
<1>4. Holds(d1) \subseteq Holds(Mem) \cup acked
  BY LeavingNames DEF Leaves
<1>5. d1.outbox = free.outbox /\ d1.rejected = free.rejected
  <2>1. d1 \in FileType
    BY FileTypes, SettleTypesOfOperators DEF Leaves
  <2> HIDE DEF d1
  <2> QED BY <2>1 DEF FileType
<1>6. Holds(free) = Holds(d1)
  BY <1>5 DEF Holds
<1>7. CASE Settled(f, disp)
  <2> DEFINE d2 == IF Releases(f, disp) THEN free ELSE d1
  <2>1. /\ outbox' = d2.outbox /\ rejected' = d2.rejected
        /\ disk' = IF leaves \/ Releases(f, disp) THEN d2 ELSE disk
        /\ nextSeq' = nextSeq + Cardinality(acked) /\ stream' = stream
    BY <1>7 DEF Settled
  <2> HIDE DEF d1, free, acked, leaves, e
  <2>2. Holds(d2) = Holds(d1)
    BY <1>6
  <2> HIDE DEF d2
  <2>3. Holds(Mem)' = Holds(d1)
    BY <2>1, <2>2 DEF Mem, Holds, Elems
  <2>4. Holds(disk)' = Holds(d1) \/ (Holds(disk)' = Holds(disk) /\ ~leaves)
    <3>1. CASE leaves \/ Releases(f, disp)
      BY <2>1, <2>2, <3>1 DEF Holds, Elems
    <3>2. CASE ~(leaves \/ Releases(f, disp))
      BY <2>1, <3>2 DEF Holds, Elems
    <3> QED BY <3>1, <3>2
  <2>5. nextSeq \in Nat
    BY DEF TypeOK
  <2>6. CASE acked = {e}
    BY <1>2, <1>3, <1>4, <2>1, <2>3, <2>4, <2>6 DEF Names, Takes
  <2>7. CASE acked = {}
    BY <1>3, <1>4, <2>1, <2>3, <2>4, <2>5, <2>7 DEF Names, Spares
  <2> QED BY <1>3, <2>6, <2>7
<1>8. CASE SettleFails(f, disp)
  <2>1. /\ leaves /\ PersistFails(d1, disk) /\ UNCHANGED <<outbox, rejected, stream, nextSeq>>
    BY <1>8 DEF SettleFails
  <2> HIDE DEF d1, free, acked, leaves, e
  <2>2. Holds(disk)' = Holds(disk) \/ Holds(disk)' = Holds(d1)
    BY <2>1, SavedHolds
  <2>3. Holds(Mem)' = Holds(Mem)
    BY <2>1, SavedHolds
  <2>4. \/ Holds(disk)' \subseteq Holds(Mem) \cup Holds(disk)
        \/ Holds(disk)' \subseteq Holds(Mem) \cup {e}
    BY <1>3, <1>4, <2>2
  <2> QED BY <1>2, <2>1, <2>3, <2>4 DEF Names, Spares
<1>9. CASE ReleaseNotSaved(f, disp)
  <2>1. /\ outbox' = free.outbox /\ rejected' = free.rejected
        /\ PersistFails(free, IF leaves THEN d1 ELSE disk)
        /\ UNCHANGED <<stream, nextSeq>> /\ disp = "reassigned"
    BY <1>9 DEF ReleaseNotSaved, Releases
  <2>2. acked = {}
    BY <1>3, <2>1
  <2> HIDE DEF d1, free, acked, leaves, e
  <2>3. Holds(Mem)' = Holds(free)
    BY <2>1 DEF Mem, Holds, Elems
  <2>4. Holds(disk)' = Holds(d1) \/ Holds(disk)' = Holds(disk)
    BY <1>6, <2>1, SavedHolds
  <2> QED BY <1>4, <1>6, <2>1, <2>2, <2>3, <2>4 DEF Names, Spares
<1> QED BY <1>1, <1>7, <1>8, <1>9

(* The boot of the next incarnation keeps frames of the file only. *)
LEMMA RestartNames ==
  ASSUME TypeOK, Restart
  PROVE  StartsOver
<1>1. PICK kept \in WithoutBoot(disk.outbox) : Persist([disk EXCEPT !.outbox = kept])
  BY DEF Restart
<1>2. disk.outbox \in Seq(FrameType) /\ disk \in FileType
  BY DEF TypeOK, FileType
<1>3. Elems(kept) \subseteq Elems(disk.outbox)
  BY <1>2, BootKeeps
<1> DEFINE d == [disk EXCEPT !.outbox = kept]
<1>4. d.outbox = kept /\ d.rejected = disk.rejected
  BY <1>2 DEF FileType
<1> HIDE DEF d
<1>5. Persist(d)
  BY <1>1 DEF d
<1>6. Holds(d) \subseteq Holds(disk)
  BY <1>3, <1>4 DEF Holds
<1>7. Holds(Mem)' = Holds(d) /\ Holds(disk)' = Holds(d)
  BY <1>5, SavedHolds
<1> QED BY <1>6, <1>7 DEF StartsOver, Restart

(* Every step of the durable half takes, spares or starts over. *)
LEMMA StepNames ==
  ASSUME TypeOK, [Next]_stateVars
  PROVE  Names
<1>1. CASE LatchStep \/ UNCHANGED stateVars
  BY <1>1, UntouchedNames DEF LatchStep, SocketOpened, LatchPending, LatchVerdict, stateVars, fileVars
<1> QED BY <1>1, WorkNames, IntakeNames, HeadNames, SettleNames, RestartNames DEF Next, Names

-----------------------------------------------------------------------------
(* What has been sent was in the outbox before *)

LEMMA SentComes ==
  ASSUME TypeOK, PodTypes, [StreamNext]_vars
  PROVE  Sent' \subseteq Sent \cup Holds(Mem)
<1>1. /\ up \in [Sockets -> Seq(FrameType)] /\ pending \in Seq(FrameType)
      /\ outbox \in Seq(FrameType) /\ Elems(outbox) \subseteq Holds(Mem)
  BY DEF PodTypes, NetTypes, SenderTypes, TypeOK, FileType, Mem, Holds
<1>2. ASSUME UNCHANGED <<up, heard>>, Elems(pending') \subseteq Sent \cup Holds(Mem)
      PROVE  Sent' \subseteq Sent \cup Holds(Mem)
  <2>1. Sent' = heard \cup InFlight \cup Elems(pending')
    BY <1>2 DEF Sent, InFlight, Elems
  <2> QED BY <1>2, <2>1 DEF Sent
<1>3. ASSUME UNCHANGED <<up, heard, pending>> PROVE Sent' \subseteq Sent \cup Holds(Mem)
  BY <1>2, <1>3 DEF Sent
<1>4. ASSUME NEW c \in Sockets, NEW q \in Seq(FrameType), up' = [up EXCEPT ![c] = q],
             Elems(q) \subseteq Sent \cup Holds(Mem),
             heard' \subseteq Sent \cup Holds(Mem), Elems(pending') \subseteq Sent \cup Holds(Mem)
      PROVE  Sent' \subseteq Sent \cup Holds(Mem)
  <2>1. \A x \in Sockets : Elems(up'[x]) \subseteq Sent \cup Holds(Mem)
    <3>1. \A x \in Sockets : up'[x] = IF x = c THEN q ELSE up[x]
      BY <1>1, <1>4
    <3>2. \A x \in Sockets : Elems(up[x]) \subseteq Sent
      BY DEF Sent, InFlight
    <3> QED BY <1>4, <3>1, <3>2
  <2>2. InFlight' \subseteq Sent \cup Holds(Mem)
    BY <2>1 DEF InFlight, Elems
  <2>3. Sent' = heard' \cup InFlight' \cup Elems(pending')
    BY DEF Sent, Elems
  <2> QED BY <1>4, <2>2, <2>3
<1>5. Elems(<<>>) = {} /\ <<>> \in Seq(FrameType)
  BY EmptySeq DEF Elems
<1>6. Elems(pending) \subseteq Sent /\ heard \subseteq Sent /\ \A c \in Sockets : Elems(up[c]) \subseteq Sent
  BY DEF Sent, InFlight
<1>7. CASE Sender
  <2>1. CASE SenderSlices
    <3>1. PICK unsent \in Without(WindowOf(outbox), Judged) : pending' = unsent
      BY <2>1 DEF SenderSlices
    <3>2. Elems(pending') \subseteq Elems(outbox)
      BY <1>1, <3>1, WindowIsPart, WithoutIsPart
    <3> QED BY <1>1, <1>2, <2>1, <3>2 DEF SenderSlices, connVars, cpVars
  <2>2. CASE SenderWrites
    <3>1. PICK win \in HeadsFirst(pending) : pending' = win /\ up' = [up EXCEPT ![conn] = @ \o win]
      BY <2>2 DEF SenderWrites
    <3>2. win \in Seq(FrameType) /\ Elems(win) \subseteq Sent \cup Holds(Mem)
      BY <1>1, <1>6, WrittenIsPart
    <3>3. conn \in Sockets
      BY <2>2, StreamAssumption DEF SenderWrites, PodTypes, NetTypes, Sockets
    <3>4. up[conn] \o win \in Seq(FrameType) /\ Elems(up[conn] \o win) = Elems(up[conn]) \cup Elems(win)
      BY <1>1, <3>2, <3>3, ConcatElements
    <3>5. UNCHANGED heard /\ up' = [up EXCEPT ![conn] = up[conn] \o win]
      BY <2>2, <3>1 DEF SenderWrites, cpVars
    <3> HIDE DEF Sent
    <3> QED BY <1>4, <1>6, <3>1, <3>2, <3>3, <3>4, <3>5
  <2>3. CASE SenderCollects
    <3>1. PICK keys : \E left \in Without(pending, keys) : pending' = left
      BY <2>3 DEF SenderCollects
    <3>2. Elems(pending') \subseteq Elems(pending)
      BY <1>1, <3>1, WithoutIsPart
    <3> QED BY <1>2, <1>6, <2>3, <3>2 DEF SenderCollects, cpVars
  <2>4. CASE SenderOpens \/ SenderPicks \/ SenderEnds \/ SenderSettles \/ SenderSettleFails
    BY <1>3, <2>4 DEF SenderOpens, OpenStarts, SenderPicks, SenderEnds, SenderSettles,
                      SenderSettleFails, connVars, senderVars, cpVars
  <2> QED BY <1>7, <2>1, <2>2, <2>3, <2>4 DEF Sender
<1>8. CASE ControlPlane
  <2>1. CASE \E j \in Jobs : CpAssigns(j) \/ CpSendsJob(j)
    BY <1>3, <2>1 DEF CpAssigns, CpSendsJob, podVars, connVars, senderVars
  <2>2. CASE \E c \in Sockets : CpReads(c)
    <3>1. PICK c \in Sockets : CpReads(c)
      BY <2>2
    <3>2. /\ up[c] # <<>> /\ up' = [up EXCEPT ![c] = Tail(up[c])]
          /\ heard' = heard \cup {Head(up[c])} /\ UNCHANGED pending
      BY <3>1 DEF CpReads, senderVars
    <3>3. /\ Tail(up[c]) \in Seq(FrameType) /\ Elems(Tail(up[c])) \subseteq Elems(up[c])
          /\ Head(up[c]) \in Elems(up[c])
      BY <1>1, <3>2, TailElements
    <3> HIDE DEF Sent
    <3> QED BY <1>4, <1>6, <3>2, <3>3
  <2> QED BY <1>8, <2>1, <2>2 DEF ControlPlane
<1>9. CASE \E c \in Sockets : ReaderReads(c) \/ ReaderEnds(c) \/ Intake(c) \/ NetDrops(c)
  <2>1. PICK c \in Sockets : ReaderReads(c) \/ ReaderEnds(c) \/ Intake(c) \/ NetDrops(c)
    BY <1>9
  <2>2. CASE NetDrops(c)
    <3>1. up' = [up EXCEPT ![c] = <<>>] /\ UNCHANGED <<heard, pending>>
      BY <2>2 DEF NetDrops, senderVars, cpVars
    <3> HIDE DEF Sent
    <3> QED BY <1>4, <1>5, <1>6, <3>1
  <2>3. CASE ReaderReads(c) \/ ReaderEnds(c) \/ Intake(c)
    BY <1>3, <2>3 DEF ReaderReads, ReaderEnds, Intake, IntakeLatches, IntakeAccepts, IntakeRaises,
                      IntakeRejects, IntakeRejectFails, IntakeRest, senderVars, cpVars
  <2> QED BY <2>1, <2>2, <2>3
<1>10. CASE PodRestarts
  <2>1. UNCHANGED <<up, heard>> /\ pending' = <<>>
    BY <1>10 DEF PodRestarts, cpVars
  <2> QED BY <1>2, <1>5, <2>1
<1>11. CASE Opening \/ Claimer \/ (\E j \in Jobs : Worker(j)) \/ UNCHANGED vars
  BY <1>3, <1>11 DEF Opening, OpenConnects, OpenRefused, OpenBootstraps, OpenBootstrapFails,
       OpenReports, OpenReturnsFalse, Claimer, MainAnnounces, ClaimOpens, OpenStarts, ClaimEnters,
       ClaimRefused, ClaimTakes, ClaimReturns, OthersClaim, Worker, vars, podVars, connVars,
       senderVars, cpVars
<1> QED BY <1>7, <1>8, <1>9, <1>10, <1>11 DEF StreamNext

(* Names are kept apart along every behaviour. *)
LEMMA NamesInvHolds == StreamSpec => []NamesInv
<1>1. StreamInit => NamesInv
  <2> SUFFICES ASSUME StreamInit PROVE NamesInv
    OBVIOUS
  <2>1. Elems(<<>>) = {}
    BY DEF Elems
  <2>2. outbox = <<>> /\ rejected = {} /\ disk = Mem /\ heard = {} /\ pending = <<>> /\ up = Fresh
    BY DEF StreamInit, FreshPod, FreshState, PodStarts
  <2>3. Holds(Mem) = {} /\ Holds(disk) = {}
    BY <2>1, <2>2 DEF Holds, Mem
  <2>4. InFlight = {}
    BY <2>1, <2>2 DEF InFlight, Fresh
  <2>5. Sent = {}
    BY <2>1, <2>2, <2>4 DEF Sent
  <2> QED BY <2>3, <2>5 DEF NamesInv, NamesHold, OneName
<1>2. TypeOK /\ ThreadInv /\ NamesInv /\ TypeOK' /\ [StreamNext]_vars => NamesInv'
  <2> SUFFICES ASSUME TypeOK, ThreadInv, NamesInv, TypeOK', [StreamNext]_vars PROVE NamesInv'
    OBVIOUS
  <2>1. PICK S : S = Sent \cup Holds(Mem)
    OBVIOUS
  <2>2. NamesHold(S)
    <3>1. S \subseteq FrameType
      BY <2>1, HeldAreFrames DEF NamesInv, NamesHold
    <3>2. S \cup Holds(Mem) \cup Holds(disk) = Sent \cup Holds(Mem) \cup Holds(disk)
      BY <2>1
    <3>3. \A f \in S \cup Holds(Mem) : OlderThan(f, nextSeq)
      BY <2>1 DEF NamesInv, NamesHold
    <3> QED BY <3>1, <3>2, <3>3 DEF NamesInv, NamesHold
  <2>3. Names
    BY StepRefines, StepNames
  <2>4. NamesHold(S)'
    BY <2>2, <2>3, NamesKept
  <2>5. Sent' \subseteq S
    BY <2>1, SentComes DEF ThreadInv
  <2> QED BY <2>4, <2>5 DEF NamesInv, NamesHold, OneName, OlderThan
<1> QED BY <1>1, <1>2, ThreadsHold, PTL DEF StreamSpec

(* One stream_id and seq never name two frames: not in what the control     *)
(* plane has read, not next to what memory, or the file after a failed      *)
(* write, still holds, although a failed append hands its seq out again.    *)
THEOREM IdentitiesAreUnique == StreamSpec => []OneFramePerIdentity
<1>1. NamesInv => OneFramePerIdentity
  <2> SUFFICES ASSUME NamesInv, NEW d \in {Mem, disk}, NEW f \in heard \cup Holds(d),
                      NEW g \in heard \cup Holds(d), Key(f) = Key(g)
               PROVE  f = g
    BY DEF OneFramePerIdentity
  <2> QED BY DEF NamesInv, NamesHold, OneName, Sent
<1> QED BY <1>1, NamesInvHolds, PTL

-----------------------------------------------------------------------------
(* What an acknowledgement means. The strengthening: wherever an "accepted" *)
(* stands between the control plane and the outbox, the frame it names has  *)
(* been read, and a terminal's job committed.                               *)

Told(key) == \E f \in heard : Key(f) = key /\ (f.kind = "result" => f.corr \in committed)
Accepts(m) == m.type = "ack" /\ m.verdict = "accepted"
AckInv ==
  /\ \A c \in Sockets : \A m \in Elems(down[c]) : Accepts(m) => Told(m.key)
  /\ \A a \in acks \cup known : a.verdict = "accepted" => Told(a.key)
  /\ spc = "apply" /\ cur.verdict = "accepted" => Told(Key(cur.frame))

(* The control plane forgets neither what it has read nor what it committed.*)
LEMMA HeardStays ==
  ASSUME [StreamNext]_vars
  PROVE  heard \subseteq heard' /\ committed \subseteq committed'
<1>1. CASE ControlPlane
  <2>1. CASE \E j \in Jobs : CpAssigns(j) \/ CpSendsJob(j)
    BY <2>1 DEF CpAssigns, CpSendsJob
  <2>2. CASE \E c \in Sockets : CpReads(c)
    BY <2>2 DEF CpReads
  <2> QED BY <1>1, <2>1, <2>2 DEF ControlPlane
<1>2. CASE Opening \/ Sender \/ Claimer \/ PodRestarts
  BY <1>2 DEF Opening, OpenConnects, OpenRefused, OpenBootstraps, OpenBootstrapFails, OpenReports,
       Sender, SenderSlices, SenderOpens, OpenStarts, SenderWrites, SenderCollects, SenderPicks,
       SenderEnds, SenderSettles, SenderSettleFails, Claimer, MainAnnounces, ClaimOpens,
       ClaimEnters, ClaimRefused, ClaimTakes, ClaimReturns, OthersClaim, PodRestarts, cpVars
<1>3. CASE \E j \in Jobs : Worker(j)
  BY <1>3 DEF Worker, cpVars
<1>4. CASE \E c \in Sockets : ReaderReads(c) \/ ReaderEnds(c) \/ Intake(c) \/ NetDrops(c)
  BY <1>4 DEF ReaderReads, ReaderEnds, NetDrops, Intake, IntakeLatches, IntakeAccepts, IntakeRaises,
       IntakeRejects, IntakeRejectFails, IntakeRest, cpVars
<1>5. CASE UNCHANGED vars
  BY <1>5 DEF vars, cpVars
<1> QED BY <1>1, <1>2, <1>3, <1>4, <1>5 DEF StreamNext

LEMMA ToldStays ==
  ASSUME [StreamNext]_vars, NEW key, Told(key)
  PROVE  Told(key)'
<1>1. heard \subseteq heard' /\ committed \subseteq committed'
  BY HeardStays
<1>2. PICK f \in heard : Key(f) = key /\ (f.kind = "result" => f.corr \in committed)
  BY DEF Told
<1> QED BY <1>1, <1>2 DEF Told

(* The three places an "accepted" can stand, one step later. *)
LEMMA AckParts ==
  ASSUME AckInv, [StreamNext]_vars
  PROVE  /\ UNCHANGED down => \A c \in Sockets : \A m \in Elems(down'[c]) : Accepts(m) => Told(m.key)'
         /\ acks' \cup known' \subseteq acks \cup known
              => \A a \in acks' \cup known' : a.verdict = "accepted" => Told(a.key)'
         /\ UNCHANGED <<spc, cur>> \/ spc' # "apply"
              => (spc' = "apply" /\ cur'.verdict = "accepted" => Told(Key(cur.frame))')
<1>1. ASSUME UNCHANGED down, NEW c \in Sockets, NEW m \in Elems(down'[c]), Accepts(m) PROVE Told(m.key)'
  <2>1. m \in Elems(down[c])
    BY <1>1
  <2>2. Told(m.key)
    BY <1>1, <2>1 DEF AckInv
  <2> QED BY <2>2, ToldStays
<1>2. ASSUME acks' \cup known' \subseteq acks \cup known,
             NEW a \in acks' \cup known', a.verdict = "accepted"
      PROVE  Told(a.key)'
  BY <1>2, ToldStays DEF AckInv
<1>3. ASSUME UNCHANGED <<spc, cur>>, spc' = "apply", cur'.verdict = "accepted"
      PROVE  Told(Key(cur.frame))'
  <2>1. PICK key : key = Key(cur.frame)
    OBVIOUS
  <2>2. Told(key)
    BY <1>3, <2>1 DEF AckInv
  <2>3. Told(key)'
    BY <2>2, ToldStays
  <2>4. key = Key(cur.frame)'
    BY <1>3, <2>1 DEF Key
  <2> QED BY <2>3, <2>4 DEF Told, Key
<1> QED BY <1>1, <1>2, <1>3

(* A step that touches none of the three. *)
LEMMA AckUntouched ==
  ASSUME AckInv, [StreamNext]_vars, UNCHANGED <<down, acks, known, spc, cur>>
  PROVE  AckInv'
<1>1. acks' \cup known' \subseteq acks \cup known
  OBVIOUS
<1> QED BY <1>1, AckParts DEF AckInv, Elems

(* The sender: what it collects it was sent, what it picks it has collected.*)
LEMMA SenderAcks ==
  ASSUME PodTypes, AckInv, StreamNext, Sender
  PROVE  AckInv'
<1>1. UNCHANGED down
  BY DEF Sender, SenderSlices, SenderOpens, OpenStarts, SenderWrites, SenderCollects, SenderPicks,
         SenderEnds, SenderSettles, SenderSettleFails, connVars
<1>2. \A c \in Sockets : \A m \in Elems(down[c])' : Accepts(m) => Told(m.key)'
  BY <1>1, AckParts DEF Elems
<1>3. CASE SenderSlices \/ SenderOpens \/ SenderWrites \/ SenderCollects
  <2>1. acks' \cup known' \subseteq acks \cup known
    BY <1>3 DEF SenderSlices, SenderOpens, OpenStarts, SenderWrites, SenderCollects, senderVars
  <2>2. UNCHANGED <<spc, cur>> \/ spc' # "apply"
    BY <1>3 DEF SenderSlices, SenderOpens, OpenStarts, SenderWrites, SenderCollects, AfterAttempt,
                senderVars
  <2> QED BY <1>2, <2>1, <2>2, AckParts DEF AckInv
<1>4. CASE SenderPicks
  <2>1. UNCHANGED <<acks, known>>
    BY <1>4 DEF SenderPicks
  <2>2. \A a \in acks' \cup known' : a.verdict = "accepted" => Told(a.key)'
    BY <2>1, AckParts
  <2>3. PICK k \in known :
          /\ k.key = Key(Head(outbox))
          /\ cur' = [frame |-> Head(outbox), verdict |-> k.verdict, mark |-> k.mark, then |-> "settle"]
    BY <1>4 DEF SenderPicks
  <2>4. cur'.verdict = "accepted" => Told(k.key)'
    BY <2>1, <2>2, <2>3
  <2>5. Key(cur.frame)' = k.key
    BY <2>3 DEF Key
  <2>6. cur'.verdict = "accepted" => Told(Key(cur.frame))'
    BY <2>4, <2>5 DEF Told
  <2> QED BY <1>2, <2>2, <2>6 DEF AckInv
<1>5. CASE SenderEnds
  <2>1. UNCHANGED <<acks, known>> /\ (spc' = "apply" => cur'.verdict # "accepted")
    BY <1>5 DEF SenderEnds
  <2>2. \A a \in acks' \cup known' : a.verdict = "accepted" => Told(a.key)'
    BY <2>1, AckParts
  <2> QED BY <1>2, <2>1, <2>2 DEF AckInv
<1>6. CASE SenderSettles
  <2>1. acks' \cup known' \subseteq acks \cup known
    BY <1>6 DEF SenderSettles
  <2>2. UNCHANGED cur /\ spc' = cur.then
    BY <1>6 DEF SenderSettles
  <2> QED BY <1>2, <2>1, <2>2, AckParts, <1>6 DEF AckInv, SenderSettles
<1>7. CASE SenderSettleFails
  <2>1. /\ UNCHANGED acks /\ spc' = "idle"
        /\ known' = {IF k.key = Key(cur.frame) THEN [k EXCEPT !.mark = 0] ELSE k : k \in known}
    BY <1>7 DEF SenderSettleFails
  <2>2. \A k \in Marked(Answered) : [k EXCEPT !.mark = 0].key = k.key
          /\ [k EXCEPT !.mark = 0].verdict = k.verdict
    BY DEF Marked
  <2>3. \A a \in known' : \E k \in known : a.key = k.key /\ a.verdict = k.verdict
    <3> SUFFICES ASSUME NEW a \in known'
                 PROVE  \E k \in known : a.key = k.key /\ a.verdict = k.verdict
      OBVIOUS
    <3>1. PICK k \in known : a = IF k.key = Key(cur.frame) THEN [k EXCEPT !.mark = 0] ELSE k
      BY <2>1
    <3>2. k \in Marked(Answered)
      BY DEF PodTypes, SenderTypes
    <3>3. a.key = k.key /\ a.verdict = k.verdict
      BY <2>2, <3>1, <3>2
    <3> QED BY <3>3
  <2>4. \A k \in acks \cup known : k.verdict = "accepted" => Told(k.key)'
    BY ToldStays DEF AckInv
  <2>5. \A a \in acks' \cup known' : a.verdict = "accepted" => Told(a.key)'
    BY <2>1, <2>3, <2>4
  <2> QED BY <1>2, <2>1, <2>5 DEF AckInv
<1> QED BY <1>3, <1>4, <1>5, <1>6, <1>7 DEF Sender

(* The reader hands an acknowledgement on, with the key it names. *)
LEMMA ReaderAcks ==
  ASSUME PodTypes, AckInv, StreamNext, NEW c \in Sockets, ReaderReads(c) \/ ReaderEnds(c)
  PROVE  AckInv'
<1>1. down \in [Sockets -> Seq(JobMsg \cup AckMsg)]
  BY DEF PodTypes, NetTypes
<1>2. UNCHANGED <<known, spc, cur>>
  BY DEF ReaderReads, ReaderEnds, senderVars
<1>3. \A d \in Sockets : \A m \in Elems(down[d]) : Accepts(m) => Told(m.key)'
  BY ToldStays DEF AckInv
<1>4. \A d \in Sockets : Elems(down'[d]) \subseteq Elems(down[d])
  <2>1. CASE ReaderReads(c)
    <3>1. down' = [down EXCEPT ![c] = Tail(@)] /\ down[c] # <<>>
      BY <2>1 DEF ReaderReads
    <3>2. down'[c] = Tail(down[c]) /\ \A d \in Sockets : d # c => down'[d] = down[d]
      BY <1>1, <3>1
    <3>3. Elems(Tail(down[c])) \subseteq Elems(down[c])
      BY <1>1, <3>1, TailElements
    <3> QED BY <3>2, <3>3
  <2>2. CASE ReaderEnds(c)
    <3>1. down' = [down EXCEPT ![c] = <<>>]
      BY <2>2 DEF ReaderEnds
    <3>2. down'[c] = <<>> /\ \A d \in Sockets : d # c => down'[d] = down[d]
      BY <1>1, <3>1
    <3>3. Elems(<<>>) = {}
      BY DEF Elems
    <3> QED BY <3>2, <3>3
  <2> QED BY <2>1, <2>2
<1>5. \A d \in Sockets : \A m \in Elems(down[d])' : Accepts(m) => Told(m.key)'
  BY <1>3, <1>4 DEF Elems
<1>6. \A a \in acks' \cup known' : a.verdict = "accepted" => Told(a.key)'
  <2>1. CASE UNCHANGED acks
    BY <1>2, <2>1, AckParts
  <2>2. CASE ~UNCHANGED acks
    <3>1. PICK m : m = Head(down[c])
      OBVIOUS
    <3>2. /\ m.type = "ack" /\ down[c] # <<>>
          /\ acks' = {a \in acks : a.key # m.key} \cup {MarkOf(m)}
      BY <2>2, <3>1 DEF ReaderReads, ReaderEnds, senderVars
    <3>3. m \in Elems(down[c])
      BY <1>1, <3>1, <3>2, TailElements
    <3>4. PICK x : x = MarkOf(m)
      OBVIOUS
    <3>5. x.key = m.key /\ x.verdict = m.verdict
      BY <3>4 DEF MarkOf
    <3>6. x.verdict = "accepted" => Told(x.key)'
      BY <1>3, <3>2, <3>3, <3>5 DEF Accepts
    <3>7. \A a \in acks \cup known : a.verdict = "accepted" => Told(a.key)'
      BY ToldStays DEF AckInv
    <3>8. acks' \cup known' \subseteq acks \cup known \cup {x}
      BY <1>2, <3>2, <3>4
    <3> QED BY <3>6, <3>7, <3>8
  <2> QED BY <2>1, <2>2
<1> QED BY <1>2, <1>5, <1>6, AckParts DEF AckInv

(* The control plane acknowledges what it has just read. *)
LEMMA PeerAcks ==
  ASSUME PodTypes, AckInv, StreamNext, ControlPlane
  PROVE  AckInv'
<1>1. down \in [Sockets -> Seq(JobMsg \cup AckMsg)]
  BY DEF PodTypes, NetTypes
<1>2. UNCHANGED <<acks, known, spc, cur>>
  BY DEF ControlPlane, CpAssigns, CpSendsJob, CpReads, podVars, senderVars
<1>3. \A c \in Sockets : \A m \in Elems(down[c]) : Accepts(m) => Told(m.key)'
  BY ToldStays DEF AckInv
<1>4. ASSUME NEW c, NEW m \in JobMsg \cup AckMsg, Accepts(m) => Told(m.key)',
             down' = [down EXCEPT ![c] = Append(@, m)]
      PROVE  AckInv'
  <2>1. \A d \in Sockets : down'[d] = IF d = c THEN Append(down[d], m) ELSE down[d]
    BY <1>1, <1>4
  <2>2. ASSUME NEW d \in Sockets PROVE Elems(Append(down[d], m)) = Elems(down[d]) \cup {m}
    <3>1. down[d] \in Seq(JobMsg \cup AckMsg) /\ <<m>> \in Seq(JobMsg \cup AckMsg)
      BY <1>1, <1>4
    <3>2. Append(down[d], m) = down[d] \o <<m>>
      BY <3>1
    <3>3. Elems(down[d] \o <<m>>) = Elems(down[d]) \cup Elems(<<m>>)
      BY <3>1, ConcatElements
    <3>4. Elems(<<m>>) = {m}
      BY DEF Elems
    <3> QED BY <3>2, <3>3, <3>4
  <2>3. \A d \in Sockets : Elems(down'[d]) \subseteq Elems(down[d]) \cup {m}
    BY <2>1, <2>2
  <2>4. \A d \in Sockets : \A x \in Elems(down[d])' : Accepts(x) => Told(x.key)'
    BY <1>3, <1>4, <2>3 DEF Elems
  <2> QED BY <1>2, <2>4, AckParts DEF AckInv
<1>5. ASSUME NEW j \in Jobs, CpAssigns(j) PROVE AckInv'
  BY <1>2, <1>5, AckUntouched DEF CpAssigns, podVars, connVars
<1>6. ASSUME NEW j \in Jobs, CpSendsJob(j) PROVE AckInv'
  <2>1. assigned[j] \in 1..MaxAttempt
    BY <1>6 DEF CpSendsJob, PodTypes, PeerTypes
  <2>2. JobItem(j, assigned[j]) \in JobMsg \cup AckMsg /\ ~Accepts(JobItem(j, assigned[j]))
    BY <2>1 DEF JobItem, JobMsg, Accepts
  <2> QED BY <1>4, <1>6, <2>2 DEF CpSendsJob
<1>7. ASSUME NEW c \in Sockets, CpReads(c) PROVE AckInv'
  <2> DEFINE f == Head(up[c])
  <2>2. PICK answer \in Answers :
          /\ committed' = IF answer[1] = 200 /\ f.kind = "result" THEN committed \cup {f.corr} ELSE committed
          /\ down' = IF conn = c
                     THEN [down EXCEPT ![c] = Append(@, Ack(Key(f), Classify(f, answer)))] ELSE down
    BY <1>7 DEF CpReads
  <2>3. heard' = heard \cup {f} /\ up[c] \in Seq(FrameType) /\ up[c] # <<>>
    BY <1>7 DEF CpReads, PodTypes, NetTypes
  <2>4. f \in FrameType
    BY <2>3
  <2> HIDE DEF f
  <2>5. Key(f) \in KeyType
    BY <2>4 DEF Key, KeyType, FrameType
  <2>6. PICK m : m = Ack(Key(f), Classify(f, answer))
    OBVIOUS
  <2>7. m \in JobMsg \cup AckMsg /\ m.key = Key(f) /\ m.verdict = Classify(f, answer)
    <3>1. Classify(f, answer) \in Verdicts
      BY AnswersAreVerdicts
    <3> QED BY <2>5, <2>6, <3>1 DEF Ack, AckMsg
  <2>8. Accepts(m) => Told(m.key)'
    <3> SUFFICES ASSUME Accepts(m) PROVE Told(m.key)'
      OBVIOUS
    <3>1. answer[1] = 200
      BY <2>7 DEF Classify, Accepts
    <3>2. f.kind = "result" => f.corr \in committed'
      BY <2>2, <3>1
    <3>3. f \in heard' /\ Key(f) = m.key
      BY <2>3, <2>7
    <3> QED BY <3>2, <3>3 DEF Told
  <2>9. CASE conn = c
    BY <1>4, <2>2, <2>6, <2>7, <2>8, <2>9
  <2>10. CASE conn # c
    BY <1>2, <2>2, <2>10, AckUntouched
  <2> QED BY <2>9, <2>10
<1> QED BY <1>5, <1>6, <1>7 DEF ControlPlane

LEMMA StepAcks ==
  ASSUME PodTypes, AckInv, [StreamNext]_vars
  PROVE  AckInv'
<1>1. CASE Opening
  <2>1. UNCHANGED <<down, acks, known>> /\ (UNCHANGED <<spc, cur>> \/ spc' # "apply")
    BY <1>1 DEF Opening, OpenConnects, OpenRefused, OpenBootstraps, OpenBootstrapFails, OpenReports,
                OpenReturnsFalse, AfterAttempt, connVars, senderVars
  <2> QED BY <2>1, AckParts DEF AckInv, Elems
<1>2. CASE Claimer \/ \E j \in Jobs : Worker(j)
  <2>1. UNCHANGED <<down, acks, known, spc, cur>>
    BY <1>2 DEF Claimer, MainAnnounces, ClaimOpens, OpenStarts, ClaimEnters, ClaimRefused, ClaimTakes,
                ClaimReturns, OthersClaim, Worker, podVars, connVars, senderVars
  <2> QED BY <2>1, AckUntouched
<1>3. CASE \E c \in Sockets : Intake(c) \/ NetDrops(c)
  <2>1. UNCHANGED <<down, acks, known, spc, cur>>
    BY <1>3 DEF NetDrops, Intake, IntakeLatches, IntakeAccepts, IntakeRaises, IntakeRejects,
                IntakeRejectFails, IntakeRest, senderVars
  <2> QED BY <2>1, AckUntouched
<1>4. CASE PodRestarts
  <2>1. down' = Fresh /\ acks' = {} /\ known' = {} /\ spc' = "idle"
    BY <1>4 DEF PodRestarts
  <2>2. \A c \in Sockets : Elems(down[c])' = {}
    BY <2>1 DEF Fresh, Elems
  <2> QED BY <2>1, <2>2 DEF AckInv
<1>5. CASE UNCHANGED vars
  BY <1>5, AckUntouched DEF vars, podVars, connVars, senderVars
<1> QED BY <1>1, <1>2, <1>3, <1>4, <1>5, SenderAcks, ReaderAcks, PeerAcks DEF StreamNext

(* Only the verdict "accepted" stops a frame being owed. *)
LEMMA OnlySettlesForget ==
  ASSUME WorkStep \/ IntakeStep \/ HeadStep \/ LatchStep \/ Restart \/ UNCHANGED stateVars
  PROVE  owed \subseteq owed'
<1>1. CASE WorkStep
  BY <1>1 DEF WorkStep, WorkerEvent, WorkerResult, WorkerAborts, ClaimJob, ClaimSkips, Appended,
              AppendFails, ResultRefused
<1>2. CASE IntakeStep
  <2>1. PICK j \in Jobs, a \in 1..MaxAttempt :
        \/ Deduplicated(j, a) \/ JobAccepted(j, a) \/ JobNotSaved(j, a) \/ ReceiptNotSaved(j, a)
        \/ JobConflicts(j, a)
        \/ InvalidEvent(j) \/ InvalidReceipt(j, a) \/ InvalidResult(j, a)
        \/ \E kind \in {"event", "job_ack", "result"} : InvalidUnanswered(kind, j, a)
    BY <1>2 DEF IntakeStep
  <2>2. CASE Deduplicated(j, a) \/ InvalidEvent(j) \/ InvalidReceipt(j, a) \/ InvalidResult(j, a)
    BY <2>2 DEF Deduplicated, InvalidEvent, InvalidReceipt, InvalidResult, Appended
  <2>3. CASE JobAccepted(j, a) \/ JobNotSaved(j, a) \/ JobConflicts(j, a)
    BY <2>3 DEF JobAccepted, JobNotSaved, JobConflicts
  <2>4. CASE ReceiptNotSaved(j, a)
    BY <2>4 DEF ReceiptNotSaved, AppendFails
  <2>5. CASE \E kind \in {"event", "job_ack", "result"} : InvalidUnanswered(kind, j, a)
    BY <2>5 DEF InvalidUnanswered
  <2> QED BY <2>1, <2>2, <2>3, <2>4, <2>5
<1>3. CASE HeadStep
  BY <1>3 DEF HeadStep, AnnounceReady, AnnounceReadyFails, HeadAppended, HeadAppendFails
<1>4. CASE LatchStep \/ Restart \/ UNCHANGED stateVars
  BY <1>4 DEF LatchStep, SocketOpened, LatchPending, LatchVerdict, Restart, stateVars
<1> QED BY <1>1, <1>2, <1>3, <1>4

(* What stops being owed in a step was read, and its terminal committed. *)
LEMMA ForgottenIsEarned ==
  ASSUME TypeOK, ThreadInv, OwedInv, NamesInv, AckInv, [StreamNext]_vars, NEW f \in owed \ owed'
  PROVE  f \in heard /\ (f.kind = "result" => f.corr \in committed)
<1>1. ~(WorkStep \/ IntakeStep \/ HeadStep \/ LatchStep \/ Restart \/ UNCHANGED stateVars)
  BY OnlySettlesForget
<1>2. SenderSettles \/ SenderSettleFails
  <2>1. ~Opening
    BY <1>1 DEF Opening, OpenConnects, OpenRefused, OpenBootstraps, OpenBootstrapFails, OpenReports,
                HeadStep, LatchStep
  <2>2. ~(UNCHANGED vars \/ Claimer \/ ControlPlane \/ PodRestarts \/ \E j \in Jobs : Worker(j))
    BY <1>1, ClaimerRefines, PeerRefines, WorkerRefines DEF PodRestarts, vars
  <2>3. ~\E c \in Sockets : ReaderReads(c) \/ ReaderEnds(c) \/ Intake(c) \/ NetDrops(c)
    BY <1>1, PeerRefines, IntakeRefines DEF ThreadInv
  <2>4. Sender
    BY <2>1, <2>2, <2>3 DEF StreamNext
  <2> QED BY <1>1, <2>4 DEF Sender, SenderSlices, SenderOpens, OpenStarts, SenderWrites,
                            SenderCollects, SenderPicks, SenderEnds
<1>3. f = cur.frame /\ cur.verdict = "accepted" /\ spc = "apply"
  BY <1>2 DEF SenderSettles, SenderSettleFails, Settled, ReleaseNotSaved, SettleFails
<1>4. PICK g \in heard : Key(g) = Key(f) /\ (g.kind = "result" => g.corr \in committed)
  BY <1>3 DEF AckInv, Told
<1>5. f \in Holds(Mem)
  BY DEF OwedInv, Covers
<1>6. f = g
  BY <1>4, <1>5 DEF NamesInv, NamesHold, OneName, Sent
<1> QED BY <1>4, <1>6

LEMMA AckInvHolds == StreamSpec => []AckInv
<1>1. StreamInit => AckInv
  <2>1. Elems(<<>>) = {}
    BY DEF Elems
  <2> QED BY <2>1 DEF StreamInit, FreshPod, PodStarts, Fresh, AckInv
<1>2. ThreadInv /\ AckInv /\ [StreamNext]_vars => AckInv'
  BY StepAcks DEF ThreadInv
<1> QED BY <1>1, <1>2, ThreadsHold, PTL DEF StreamSpec

LEMMA StreamOwes == StreamSpec => []OwedInv
BY ThreadsRefine, OwedInvHolds, PTL DEF DurableHandlers

(* A result stops being owed only once the control plane has committed it,  *)
(* and any frame only once it has been read there.                          *)
THEOREM AcksAreEarned == StreamSpec => AckedWasCommitted
<1>1. TypeOK /\ ThreadInv /\ OwedInv /\ NamesInv /\ AckInv /\ [StreamNext]_vars
        => [\A f \in owed \ owed' : f \in heard /\ (f.kind = "result" => f.corr \in committed)]_vars
  BY ForgottenIsEarned
<1> QED BY <1>1, ThreadsHold, StreamOwes, NamesInvHolds, AckInvHolds, PTL DEF StreamSpec, AckedWasCommitted

-----------------------------------------------------------------------------
(* What runs is not released. The strengthening: a job that runs is claimed,*)
(* or its result is held, or the control plane has committed one.           *)

ClaimInv == \A j \in Jobs : running[j] > 0 => j \in claimed \cup ResultCorrs(Mem) \cup committed

(* What every step but a settle and a restart does with claims: it takes    *)
(* one off, and frees a delivery, only by putting the result in its place.  *)
KeepsClaims ==
  /\ Holds(Mem) \subseteq Holds(Mem)'
  /\ \A j \in Jobs : /\ running'[j] > 0 => running[j] > 0 \/ j \in claimed'
                     /\ j \in claimed => j \in claimed' \cup ResultCorrs(Mem)'
                     /\ inbox'[j] = 0 => inbox[j] = 0 \/ j \in ResultCorrs(Mem)'

LEMMA ResultsAreHeld ==
  ASSUME NEW d PROVE ResultCorrs(d) = {f.corr : f \in {g \in Holds(d) : g.kind = "result"}}
BY DEF ResultCorrs, Holds

LEMMA ResultsAreHeldNext ==
  ResultCorrs(Mem)' = {f.corr : f \in {g \in Holds(Mem)' : g.kind = "result"}}
BY DEF ResultCorrs, Holds

LEMMA AppendClaims ==
  ASSUME TypeOK, NEW kind \in FrameKinds \ BootKinds, NEW j \in Jobs, NEW a \in 0..MaxAttempt,
         \/ Appended(kind, j, a)
         \/ AppendFails(kind, j, a)
  PROVE  /\ Holds(Mem) \subseteq Holds(Mem)'
         /\ \A i \in Jobs : /\ i \in claimed => i \in claimed' \cup ResultCorrs(Mem)'
                            /\ inbox'[i] = 0 => inbox[i] = 0 \/ i \in ResultCorrs(Mem)'
<1> DEFINE f == NewFrame(kind, j, a, nextSeq)
           d == WithFrame(Mem, f)
<1>1. CASE Appended(kind, j, a)
  <2>1. f \in FrameType /\ d \in FileType /\ Mem \in FileType /\ f.kind = kind /\ f.corr = j
    BY FileTypes DEF NewFrame
  <2>2. Holds(d) = Holds(Mem) \cup {f}
    BY <2>1, AppendHolds
  <2>3. /\ d.inbox = IF f.kind = "result" THEN [inbox EXCEPT ![f.corr] = 0] ELSE inbox
        /\ inbox \in [Jobs -> 0..MaxAttempt]
    BY <2>1 DEF WithFrame, Mem, FileType
  <2>4. Persist(d) /\ claimed' = IF kind = "result" THEN claimed \ {j} ELSE claimed
    BY <1>1 DEF Appended
  <2> HIDE DEF f, d
  <2>5. Mem' = d /\ inbox' = d.inbox
    BY <2>1, <2>4 DEF Persist, Mem, FileType
  <2>6. Holds(Mem)' = Holds(d)
    BY <2>5 DEF Holds, Elems
  <2>7. kind = "result" => j \in ResultCorrs(Mem)'
    BY <2>1, <2>2, <2>6, ResultsAreHeldNext
  <2>8. \A i \in Jobs : i # j \/ kind # "result" => inbox'[i] = inbox[i]
    BY <2>1, <2>3, <2>5
  <2> QED BY <2>2, <2>4, <2>6, <2>7, <2>8
<1>2. CASE AppendFails(kind, j, a)
  <2>1. UNCHANGED <<outbox, rejected, inbox, claimed>>
    BY <1>2 DEF AppendFails
  <2>2. Holds(Mem)' = Holds(Mem)
    BY <2>1 DEF Holds, Mem, Elems
  <2> QED BY <2>1, <2>2
<1> QED BY <1>1, <1>2

(* A step that changes neither frames, deliveries nor claims. *)
LEMMA QuietClaims ==
  ASSUME UNCHANGED <<outbox, rejected, inbox, claimed>>,
         \A i \in Jobs : running'[i] > 0 => running[i] > 0
  PROVE  KeepsClaims
<1>1. Holds(Mem)' = Holds(Mem)
  BY DEF Holds, Mem, Elems
<1> QED BY <1>1 DEF KeepsClaims

LEMMA WorkClaims ==
  ASSUME TypeOK, WorkStep
  PROVE  KeepsClaims
<1>1. PICK j \in Jobs : WorkerEvent(j) \/ WorkerResult(j) \/ WorkerAborts(j) \/ ClaimJob(j) \/ ClaimSkips(j)
  BY DEF WorkStep
<1>2. /\ 0 \in 0..MaxAttempt /\ {"event", "result"} \subseteq FrameKinds \ BootKinds
      /\ inbox[j] \in 0..MaxAttempt /\ running \in [Jobs -> Nat] /\ claimed \subseteq Jobs
  BY BoundsAssumption DEF FrameKinds, BootKinds, TypeOK, FileType, Mem
<1>3. ASSUME running' = running \/ (running[j] > 0 /\ running' = [running EXCEPT ![j] = @ - 1])
      PROVE  \A i \in Jobs : running'[i] > 0 => running[i] > 0
  BY <1>2, <1>3
<1>4. CASE WorkerEvent(j) \/ WorkerResult(j)
  <2>1. \/ Appended("event", j, 0)
        \/ Appended("result", j, inbox[j])
    BY <1>4 DEF WorkerEvent, WorkerResult
  <2>2. \A i \in Jobs : running'[i] > 0 => running[i] > 0
    BY <1>3, <1>4 DEF WorkerEvent, WorkerResult
  <2>3. /\ Holds(Mem) \subseteq Holds(Mem)'
        /\ \A i \in Jobs : /\ i \in claimed => i \in claimed' \cup ResultCorrs(Mem)'
                           /\ inbox'[i] = 0 => inbox[i] = 0 \/ i \in ResultCorrs(Mem)'
    BY <1>2, <2>1, AppendClaims
  <2> QED BY <2>2, <2>3 DEF KeepsClaims
<1>5. CASE WorkerAborts(j)
  <2>1. UNCHANGED <<outbox, rejected, inbox, claimed>>
    BY <1>5 DEF WorkerAborts, AppendFails, ResultRefused
  <2>2. \A i \in Jobs : running'[i] > 0 => running[i] > 0
    BY <1>3, <1>5 DEF WorkerAborts
  <2> QED BY <2>1, <2>2, QuietClaims
<1>6. CASE ClaimJob(j)
  <2>1. UNCHANGED <<outbox, rejected, inbox>> /\ claimed' = claimed \cup {j}
        /\ running' = [running EXCEPT ![j] = @ + 1]
    BY <1>6 DEF ClaimJob, fileVars
  <2>2. \A i \in Jobs : running'[i] > 0 => running[i] > 0 \/ i \in claimed'
    BY <1>2, <2>1
  <2>3. Holds(Mem)' = Holds(Mem)
    BY <2>1 DEF Holds, Mem, Elems
  <2> QED BY <2>1, <2>2, <2>3 DEF KeepsClaims
<1>7. CASE ClaimSkips(j)
  BY <1>7, QuietClaims DEF ClaimSkips, fileVars
<1> QED BY <1>1, <1>4, <1>5, <1>6, <1>7

LEMMA IntakeClaims ==
  ASSUME TypeOK, IntakeStep
  PROVE  KeepsClaims
<1>1. PICK j \in Jobs, a \in 1..MaxAttempt :
        \/ Deduplicated(j, a) \/ JobAccepted(j, a) \/ JobNotSaved(j, a) \/ ReceiptNotSaved(j, a)
        \/ JobConflicts(j, a)
        \/ InvalidEvent(j) \/ InvalidReceipt(j, a) \/ InvalidResult(j, a)
        \/ \E kind \in {"event", "job_ack", "result"} : InvalidUnanswered(kind, j, a)
  BY DEF IntakeStep
<1>2. /\ 0 \in 0..MaxAttempt /\ a \in 0..MaxAttempt /\ a # 0
      /\ {"event", "result", "job_ack"} \subseteq FrameKinds \ BootKinds
      /\ inbox \in [Jobs -> 0..MaxAttempt]
  BY BoundsAssumption DEF FrameKinds, BootKinds, TypeOK, FileType, Mem
<1>3. CASE Deduplicated(j, a) \/ InvalidEvent(j) \/ InvalidReceipt(j, a) \/ InvalidResult(j, a)
  <2>1. /\ \/ Appended("event", j, 0)
           \/ Appended("job_ack", j, a)
           \/ Appended("result", j, a)
        /\ UNCHANGED running
    BY <1>3 DEF Deduplicated, InvalidEvent, InvalidReceipt, InvalidResult
  <2>2. /\ Holds(Mem) \subseteq Holds(Mem)'
        /\ \A i \in Jobs : /\ i \in claimed => i \in claimed' \cup ResultCorrs(Mem)'
                           /\ inbox'[i] = 0 => inbox[i] = 0 \/ i \in ResultCorrs(Mem)'
    BY <1>2, <2>1, AppendClaims
  <2> QED BY <2>1, <2>2 DEF KeepsClaims
<1>4. CASE JobNotSaved(j, a) \/ JobConflicts(j, a) \/ (\E kind \in {"event", "job_ack", "result"} :
                                                         InvalidUnanswered(kind, j, a))
  <2>1. UNCHANGED <<outbox, rejected, inbox, claimed, running>>
    BY <1>4 DEF JobNotSaved, JobConflicts, InvalidUnanswered, workVars
  <2> QED BY <2>1, QuietClaims
<1>5. WithJob(j, a).inbox = [inbox EXCEPT ![j] = a]
  BY DEF WithJob, Mem
<1>6. \A i \in Jobs : [inbox EXCEPT ![j] = a][i] = 0 => inbox[i] = 0
  BY <1>2
<1>7. CASE JobAccepted(j, a)
  <2> DEFINE d == WithJob(j, a)
             f == NewFrame("job_ack", j, a, nextSeq)
             e == WithFrame(d, f)
  <2>1. Persist(e) /\ UNCHANGED <<claimed, running>>
    BY <1>7 DEF JobAccepted
  <2>2. d \in FileType /\ f \in FrameType /\ f.kind = "job_ack" /\ e \in FileType
    BY <1>2, FileTypes DEF NewFrame
  <2>3. Holds(d) = Holds(Mem)
    BY DEF WithJob, Mem, Holds
  <2>4. Holds(e) = Holds(d) \cup {f}
    BY <2>2, AppendHolds
  <2>5. e.inbox = d.inbox
    BY <2>2 DEF WithFrame, FileType
  <2> HIDE DEF d, e, f
  <2>6. Mem' = e /\ inbox' = e.inbox
    BY <2>1, <2>2 DEF Persist, Mem, FileType
  <2>7. Holds(Mem)' = Holds(e)
    BY <2>6 DEF Holds, Elems
  <2>8. inbox' = [inbox EXCEPT ![j] = a]
    BY <1>5, <2>5, <2>6 DEF d
  <2> QED BY <1>6, <2>1, <2>3, <2>4, <2>7, <2>8 DEF KeepsClaims
<1>8. CASE ReceiptNotSaved(j, a)
  <2>1. /\ UNCHANGED <<outbox, rejected, claimed, running>>
        /\ inbox' = inbox \/ inbox' = [inbox EXCEPT ![j] = a]
    BY <1>5, <1>8 DEF ReceiptNotSaved, AppendFails
  <2>2. Holds(Mem)' = Holds(Mem)
    BY <2>1 DEF Holds, Mem, Elems
  <2> QED BY <1>6, <2>1, <2>2 DEF KeepsClaims
<1> QED BY <1>1, <1>3, <1>4, <1>7, <1>8

LEMMA HeadClaims ==
  ASSUME TypeOK, HeadStep
  PROVE  KeepsClaims
<1>1. PICK kind \in BootKinds : HeadAppended(kind) \/ HeadAppendFails(kind)
  BY DEF HeadStep, AnnounceReady, AnnounceReadyFails, BootKinds
<1> DEFINE f == NewFrame(kind, NoJob, 0, nextSeq)
           d == WithHead(f)
<1>2. d \in FileType /\ d.inbox = inbox /\ Holds(Mem) \subseteq Holds(d)
  <2>1. 0 \in 0..MaxAttempt /\ kind \in FrameKinds
    BY BoundsAssumption DEF FrameKinds
  <2>2. f \in FrameType
    BY <2>1, FileTypes
  <2> HIDE DEF f
  <2> QED BY <2>2, FileTypes, HeadHolds DEF WithHead, Mem
<1> HIDE DEF d
<1>3. CASE HeadAppended(kind)
  <2>1. Persist(d) /\ UNCHANGED <<claimed, running>>
    BY <1>3 DEF HeadAppended, d, workVars
  <2>2. Mem' = d /\ inbox' = inbox
    BY <1>2, <2>1 DEF Persist, Mem, FileType
  <2>3. Holds(Mem)' = Holds(d)
    BY <2>2 DEF Holds, Elems
  <2> QED BY <1>2, <2>1, <2>2, <2>3 DEF KeepsClaims
<1>4. CASE HeadAppendFails(kind)
  BY <1>4, QuietClaims DEF HeadAppendFails, workVars
<1> QED BY <1>1, <1>3, <1>4

(* A settle frees an unclaimed delivery at most, and forgets a frame only   *)
(* when it is the head and was accepted.                                    *)
LEMMA SettleClaims ==
  ASSUME TypeOK, BootInv, NEW f \in Elems(outbox), NEW disp \in Dispositions,
         Settled(f, disp) \/ SettleFails(f, disp) \/ ReleaseNotSaved(f, disp)
  PROVE  /\ UNCHANGED workVars
         /\ \A g \in Holds(Mem) : \/ g \in Holds(Mem)'
                                  \/ IsReport(g)
                                  \/ disp = "accepted" /\ g = f
         /\ \A j \in Jobs : inbox'[j] = inbox[j] \/ j \notin claimed
<1> DEFINE leaves == Leaves(f, disp)
           d1     == IF leaves THEN WithoutHead(f, disp) ELSE Mem
           free   == [d1 EXCEPT !.inbox = [inbox EXCEPT ![f.corr] = 0]]
<1>1. d1 \in FileType /\ d1.inbox = inbox /\ inbox \in [Jobs -> 0..MaxAttempt]
  <2>1. d1 \in FileType /\ Mem \in FileType
    BY FileTypes, SettleTypesOfOperators DEF Leaves
  <2>2. d1.inbox = inbox
    BY DEF WithoutHead, Mem
  <2> QED BY <2>1, <2>2 DEF FileType, Mem
<1>2. \A g \in Holds(Mem) : g \in Holds(d1) \/ IsReport(g) \/ (disp = "accepted" /\ g = f)
  <2>1. CASE ~leaves
    BY <2>1
  <2>2. CASE leaves
    <3>1. /\ Holds(Mem) \ {f} \subseteq Holds(WithoutHead(f, disp))
          /\ disp \in Refusals /\ ~IsReport(f) => f \in Holds(WithoutHead(f, disp))
      BY <2>2, LeavingHolds DEF Leaves
    <3>2. disp \in Refusals \/ disp = "accepted" \/ IsReport(f)
      BY <2>2 DEF Leaves, Dispositions
    <3> QED BY <2>2, <3>1, <3>2
  <2> QED BY <2>1, <2>2
<1>3. ASSUME outbox' = d1.outbox, rejected' = d1.rejected, inbox' = inbox, UNCHANGED workVars
      PROVE  /\ UNCHANGED workVars
             /\ \A g \in Holds(Mem) : \/ g \in Holds(Mem)'
                                      \/ IsReport(g)
                                      \/ disp = "accepted" /\ g = f
             /\ \A j \in Jobs : inbox'[j] = inbox[j] \/ j \notin claimed
  <2> HIDE DEF d1
  <2>1. Holds(Mem)' = Holds(d1)
    BY <1>3 DEF Holds, Mem, Elems
  <2> QED BY <1>2, <1>3, <2>1
<1>4. ASSUME outbox' = free.outbox, rejected' = free.rejected, inbox' = free.inbox,
             Releases(f, disp), UNCHANGED workVars
      PROVE  /\ UNCHANGED workVars
             /\ \A g \in Holds(Mem) : \/ g \in Holds(Mem)'
                                      \/ IsReport(g)
                                      \/ disp = "accepted" /\ g = f
             /\ \A j \in Jobs : inbox'[j] = inbox[j] \/ j \notin claimed
  <2> HIDE DEF d1
  <2>1. free.outbox = d1.outbox /\ free.rejected = d1.rejected /\ free.inbox = [inbox EXCEPT ![f.corr] = 0]
    BY <1>1 DEF FileType
  <2>2. Holds(Mem)' = Holds(d1)
    BY <1>4, <2>1 DEF Holds, Mem, Elems
  <2>3. \A j \in Jobs : j # f.corr => inbox'[j] = inbox[j]
    BY <1>1, <1>4, <2>1
  <2> QED BY <1>2, <1>4, <2>2, <2>3 DEF Releases
<1>5. CASE Settled(f, disp)
  <2>1. CASE Releases(f, disp)
    <3>1. outbox' = free.outbox /\ rejected' = free.rejected /\ inbox' = free.inbox /\ UNCHANGED workVars
      BY <1>5, <2>1 DEF Settled
    <3> HIDE DEF free
    <3> QED BY <1>4, <2>1, <3>1
  <2>2. CASE ~Releases(f, disp)
    <3>1. outbox' = d1.outbox /\ rejected' = d1.rejected /\ inbox' = d1.inbox /\ UNCHANGED workVars
      BY <1>5, <2>2 DEF Settled
    <3> HIDE DEF d1
    <3> QED BY <1>1, <1>3, <3>1
  <2> QED BY <2>1, <2>2
<1>6. CASE SettleFails(f, disp)
  <2>1. UNCHANGED <<outbox, rejected, inbox, workVars>>
    BY <1>6 DEF SettleFails
  <2>2. Holds(Mem)' = Holds(Mem)
    BY <2>1 DEF Holds, Mem, Elems
  <2> QED BY <2>1, <2>2
<1>7. CASE ReleaseNotSaved(f, disp)
  <2>1. outbox' = free.outbox /\ rejected' = free.rejected /\ inbox' = free.inbox /\ UNCHANGED workVars
    BY <1>7 DEF ReleaseNotSaved
  <2>2. Releases(f, disp)
    BY <1>7 DEF ReleaseNotSaved
  <2> HIDE DEF free
  <2> QED BY <1>4, <2>1, <2>2
<1> QED BY <1>5, <1>6, <1>7

LEMMA SettlesOrKeeps ==
  ASSUME TypeOK, ThreadInv, [StreamNext]_vars
  PROVE  KeepsClaims \/ Restart \/ SenderSettles \/ SenderSettleFails
<1>1. WorkStep \/ IntakeStep \/ HeadStep \/ LatchStep \/ UNCHANGED stateVars => KeepsClaims
  <2>1. LatchStep \/ UNCHANGED stateVars => KeepsClaims
    BY QuietClaims DEF LatchStep, SocketOpened, LatchPending, LatchVerdict, stateVars, fileVars, workVars
  <2> QED BY <2>1, WorkClaims, IntakeClaims, HeadClaims
<1>2. CASE Opening
  BY <1>1, <1>2 DEF Opening, OpenConnects, OpenRefused, OpenBootstraps, OpenBootstrapFails,
                    OpenReports, HeadStep, LatchStep
<1>3. CASE Sender
  BY <1>1, <1>3 DEF Sender, SenderSlices, SenderOpens, OpenStarts, SenderWrites, SenderCollects,
                    SenderPicks, SenderEnds
<1>4. CASE Claimer \/ ControlPlane \/ PodRestarts \/ (\E j \in Jobs : Worker(j)) \/ UNCHANGED vars
  BY <1>1, <1>4, ClaimerRefines, PeerRefines, WorkerRefines DEF PodRestarts, vars
<1>5. CASE \E c \in Sockets : ReaderReads(c) \/ ReaderEnds(c) \/ Intake(c) \/ NetDrops(c)
  BY <1>1, <1>5, PeerRefines, IntakeRefines DEF ThreadInv
<1> QED BY <1>2, <1>3, <1>4, <1>5 DEF StreamNext

(* What a settle forgets is committed by then, by what its ack means. *)
LEMMA SettleKeepsResults ==
  ASSUME TypeOK, ThreadInv, BootInv, NamesInv, AckInv, [StreamNext]_vars,
         SenderSettles \/ SenderSettleFails
  PROVE  /\ UNCHANGED workVars
         /\ ResultCorrs(Mem) \subseteq ResultCorrs(Mem)' \cup committed
         /\ \A j \in Jobs : inbox'[j] = inbox[j] \/ j \notin claimed
<1>1. /\ spc = "apply"
      /\ \/ Settled(cur.frame, cur.verdict)
         \/ SettleFails(cur.frame, cur.verdict)
         \/ ReleaseNotSaved(cur.frame, cur.verdict)
  BY DEF SenderSettles, SenderSettleFails
<1>2. cur.frame \in Elems(outbox) /\ cur.verdict \in Dispositions
  BY <1>1 DEF ThreadInv, Judging, PodTypes, SenderTypes, CurType
<1>3. /\ UNCHANGED workVars
      /\ \A g \in Holds(Mem) : \/ g \in Holds(Mem)'
                               \/ IsReport(g)
                               \/ cur.verdict = "accepted" /\ g = cur.frame
      /\ \A j \in Jobs : inbox'[j] = inbox[j] \/ j \notin claimed
  BY <1>1, <1>2, SettleClaims
<1>4. ASSUME NEW g \in Holds(Mem), g.kind = "result"
      PROVE  g.corr \in ResultCorrs(Mem)' \cup committed
  <2>1. CASE g \in Holds(Mem)'
    BY <1>4, <2>1, ResultsAreHeldNext
  <2>2. CASE g \notin Holds(Mem)'
    <3>1. cur.verdict = "accepted" /\ g = cur.frame
      BY <1>3, <1>4, <2>2 DEF IsReport
    <3>2. PICK h \in heard : Key(h) = Key(g) /\ (h.kind = "result" => h.corr \in committed)
      BY <1>1, <3>1 DEF AckInv, Told
    <3>3. h = g
      BY <3>2 DEF NamesInv, NamesHold, OneName, Sent
    <3> QED BY <1>4, <3>2, <3>3
  <2> QED BY <2>1, <2>2
<1>5. ResultCorrs(Mem) \subseteq ResultCorrs(Mem)' \cup committed
  BY <1>4, ResultsAreHeld
<1> QED BY <1>3, <1>5

LEMMA StepClaims ==
  ASSUME TypeOK, ThreadInv, BootInv, NamesInv, AckInv, ClaimInv, [StreamNext]_vars
  PROVE  ClaimInv'
<1>1. committed \subseteq committed'
  BY HeardStays
<1>2. CASE KeepsClaims
  <2>1. ResultCorrs(Mem) \subseteq ResultCorrs(Mem)'
    BY <1>2, ResultsAreHeld, ResultsAreHeldNext DEF KeepsClaims
  <2>2. \A j \in Jobs : running'[j] > 0 => j \in claimed' \cup ResultCorrs(Mem)' \cup committed'
    BY <1>1, <1>2, <2>1 DEF KeepsClaims, ClaimInv
  <2> QED BY <2>2 DEF ClaimInv, ResultCorrs, Elems
<1>3. CASE Restart
  BY <1>3 DEF Restart, ClaimInv
<1>4. CASE SenderSettles \/ SenderSettleFails
  <2>1. /\ UNCHANGED workVars
        /\ ResultCorrs(Mem) \subseteq ResultCorrs(Mem)' \cup committed
    BY <1>4, SettleKeepsResults
  <2>2. \A j \in Jobs : running'[j] > 0 => j \in claimed' \cup ResultCorrs(Mem)' \cup committed'
    BY <1>1, <2>1 DEF ClaimInv, workVars
  <2> QED BY <2>2 DEF ClaimInv, ResultCorrs, Elems
<1> QED BY <1>2, <1>3, <1>4, SettlesOrKeeps

LEMMA ClaimInvHolds == StreamSpec => []ClaimInv
<1>1. StreamInit => ClaimInv
  BY DEF StreamInit, FreshPod, FreshState, ClaimInv
<1>2. TypeOK /\ ThreadInv /\ BootInv /\ NamesInv /\ AckInv /\ ClaimInv /\ [StreamNext]_vars => ClaimInv'
  BY StepClaims
<1>3. StreamSpec => []BootInv
  BY ThreadsRefine, BootInvHolds, PTL DEF DurableHandlers
<1> QED BY <1>1, <1>2, <1>3, ThreadsHold, NamesInvHolds, AckInvHolds, PTL DEF StreamSpec

(* Until the control plane has committed a result of a job, its delivery is *)
(* not released under the worker: not by a refused receipt that a replay    *)
(* sent again, nor by one whose job was claimed while its verdict waited.   *)
THEOREM WorkStaysHeld == StreamSpec => RunningIsNeverReleased
<1>1. TypeOK /\ ThreadInv /\ BootInv /\ NamesInv /\ AckInv /\ ClaimInv /\ [StreamNext]_vars
        => [\A j \in Jobs : inbox[j] # 0 /\ inbox'[j] = 0 /\ running[j] > 0 /\ stream' = stream
              => j \in ResultCorrs(Mem)' \cup committed]_vars
  <2> SUFFICES ASSUME TypeOK, ThreadInv, BootInv, NamesInv, AckInv, ClaimInv, [StreamNext]_vars,
                      NEW j \in Jobs, inbox[j] # 0, inbox'[j] = 0, running[j] > 0, stream' = stream
               PROVE  j \in ResultCorrs(Mem)' \cup committed
    OBVIOUS
  <2>1. CASE KeepsClaims
    BY <2>1 DEF KeepsClaims
  <2>2. CASE Restart
    <3>1. stream \in Nat /\ stream' = stream + 1
      BY <2>2 DEF Restart, TypeOK
    <3> QED BY <3>1
  <2>3. CASE SenderSettles \/ SenderSettleFails
    <3>1. j \notin claimed
      BY <2>3, SettleKeepsResults
    <3>2. j \notin ResultCorrs(Mem)
      BY DEF BootInv, Fits, Loadable, Mem
    <3> QED BY <3>1, <3>2 DEF ClaimInv
  <2> QED BY <2>1, <2>2, <2>3, SettlesOrKeeps
<1>2. StreamSpec => []BootInv
  BY ThreadsRefine, BootInvHolds, PTL DEF DurableHandlers
<1> QED BY <1>1, <1>2, ThreadsHold, NamesInvHolds, AckInvHolds, ClaimInvHolds, PTL
        DEF StreamSpec, RunningIsNeverReleased

-----------------------------------------------------------------------------
(* The order frames leave in. The strengthening: memory and the file hold   *)
(* the frames, bootstrap frames apart, in the order of their names. What a  *)
(* step may write is the outbox, or it without its head, and a new frame    *)
(* behind it; or a new bootstrap frame in front of it.                      *)

Older(f, g)  == f.stream < g.stream \/ (f.stream = g.stream /\ f.seq < g.seq)
Before(f, g) == ~IsBoot(f) /\ ~IsBoot(g) => Older(f, g)
Ordered(s)   == \A i, k \in DOMAIN s : i < k => Before(s[i], s[k])
OrderInv     == Ordered(outbox) /\ Ordered(disk.outbox)

NewLast(t) == t = <<>> \/ \E f : NextName(f) /\ t = <<f>>
Line(s) ==
  \/ \E t : NewLast(t) /\ s = outbox \o t
  \/ \E t : NewLast(t) /\ outbox # <<>> /\ s = Tail(outbox) \o t
  \/ \E f : NextName(f) /\ IsBoot(f) /\ s = <<f>> \o outbox
Writes ==
  /\ stream' = stream /\ Line(outbox')
  /\ disk'.outbox = disk.outbox \/ Line(disk'.outbox)
Reboots == stream' = stream + 1 /\ outbox' \in WithoutBoot(disk.outbox) /\ disk'.outbox = outbox'

(* New last frames are frames. *)
LEMMA NewLastTypes ==
  ASSUME NEW t, NewLast(t)
  PROVE  t \in Seq(FrameType) /\ \A f \in Elems(t) : NextName(f)
<1>1. CASE t = <<>>
  <2>1. Elems(<<>>) = {}
    BY DEF Elems
  <2> QED BY <1>1, <2>1, EmptySeq
<1>2. CASE \E f : NextName(f) /\ t = <<f>>
  <2>1. PICK f : NextName(f) /\ t = <<f>>
    BY <1>2
  <2>2. Elems(<<f>>) = {f}
    BY DEF Elems
  <2> QED BY <2>1, <2>2 DEF NextName
<1> QED BY <1>1, <1>2 DEF NewLast

(* A frame created now goes behind every frame held. *)
LEMMA NewIsLast ==
  ASSUME TypeOK, NEW f \in FrameType, OlderThan(f, nextSeq), NEW g, NextName(g)
  PROVE  Before(f, g)
BY DEF TypeOK, OlderThan, NextName, Before, Older, FrameType

(* Order survives a new frame at the end ... *)
LEMMA OrderGrows ==
  ASSUME TypeOK, NEW r \in Seq(FrameType), Ordered(r), \A f \in Elems(r) : OlderThan(f, nextSeq),
         NEW t, NewLast(t)
  PROVE  Ordered(r \o t)
<1>1. CASE t = <<>>
  <2>1. r \o t = r
    BY <1>1
  <2> QED BY <2>1
<1>2. CASE \E f : NextName(f) /\ t = <<f>>
  <2>1. PICK f : NextName(f) /\ t = <<f>>
    BY <1>2
  <2>2. f \in FrameType
    BY <2>1 DEF NextName
  <2>3. r \o <<f>> = Append(r, f)
    BY <2>2, AppendIsConcat
  <2>4. PICK s : s = Append(r, f)
    OBVIOUS
  <2>5. /\ DOMAIN s = 1..(Len(r) + 1) /\ DOMAIN r = 1..Len(r) /\ Len(r) \in Nat
        /\ \A i \in 1..Len(r) : s[i] = r[i]
        /\ s[Len(r) + 1] = f
    BY <2>2, <2>4, AppendProperties
  <2>6. ASSUME NEW i \in DOMAIN s, NEW k \in DOMAIN s, i < k PROVE Before(s[i], s[k])
    <3>1. i \in 1..Len(r) /\ (k \in 1..Len(r) \/ k = Len(r) + 1)
      BY <2>5, <2>6
    <3>2. r[i] \in FrameType /\ OlderThan(r[i], nextSeq)
      BY <3>1, ElemsAreFrames
    <3>3. Before(r[i], f)
      BY <2>1, <3>2, NewIsLast
    <3>4. k \in 1..Len(r) => Before(r[i], r[k])
      BY <2>5, <2>6, <3>1 DEF Ordered
    <3> QED BY <2>5, <3>1, <3>3, <3>4
  <2> QED BY <2>1, <2>3, <2>4, <2>6 DEF Ordered
<1> QED BY <1>1, <1>2 DEF NewLast

(* ... the loss of the head ... *)
LEMMA OrderOfTail ==
  ASSUME NEW s \in Seq(FrameType), s # <<>>, Ordered(s)
  PROVE  /\ Tail(s) \in Seq(FrameType) /\ Ordered(Tail(s))
         /\ \A f \in Elems(s) \ Elems(Tail(s)) : f = s[1]
         /\ \A g \in Elems(Tail(s)) : Before(s[1], g)
<1>1. /\ Tail(s) \in Seq(FrameType) /\ DOMAIN Tail(s) = 1..(Len(s) - 1)
      /\ \A i \in 1..(Len(s) - 1) : Tail(s)[i] = s[i + 1]
      /\ DOMAIN s = 1..Len(s) /\ Len(s) \in Nat
  BY HeadTailProperties
<1>2. \A i \in 1..(Len(s) - 1) : i + 1 \in DOMAIN s /\ 1 \in DOMAIN s /\ 1 < i + 1
  BY <1>1
<1>3. \A i, k \in 1..(Len(s) - 1) : i < k => Before(s[i + 1], s[k + 1])
  <2>1. \A i, k \in 1..(Len(s) - 1) : i < k => i + 1 < k + 1
    OBVIOUS
  <2> QED BY <1>2, <2>1 DEF Ordered
<1>4. Ordered(Tail(s))
  BY <1>1, <1>3 DEF Ordered
<1>5. \A g \in Elems(Tail(s)) : Before(s[1], g)
  BY <1>1, <1>2 DEF Ordered, Elems
<1>6. ASSUME NEW f \in Elems(s) \ Elems(Tail(s)) PROVE f = s[1]
  <2>1. PICK i \in DOMAIN s : f = s[i]
    BY DEF Elems
  <2>2. i = 1 \/ (i - 1 \in 1..(Len(s) - 1) /\ (i - 1) + 1 = i)
    BY <1>1
  <2> QED BY <1>1, <1>6, <2>1, <2>2 DEF Elems
<1> QED BY <1>1, <1>4, <1>5, <1>6

(* ... a bootstrap frame in front ... *)
LEMMA OrderOfHead ==
  ASSUME NEW s \in Seq(FrameType), Ordered(s), NEW f \in FrameType, IsBoot(f)
  PROVE  Ordered(<<f>> \o s)
<1>1. PICK e : e = <<f>> \o s
  OBVIOUS
<1>2. /\ DOMAIN e = 1..(Len(s) + 1) /\ DOMAIN s = 1..Len(s) /\ Len(s) \in Nat
      /\ e[1] = f /\ \A i \in 2..(Len(s) + 1) : e[i] = s[i - 1]
  <2>1. <<f>> \in Seq(FrameType) /\ Len(<<f>>) = 1 /\ <<f>>[1] = f
    OBVIOUS
  <2> QED BY <1>1, <2>1, ConcatProperties
<1>3. ASSUME NEW i \in DOMAIN e, NEW k \in DOMAIN e, i < k PROVE Before(e[i], e[k])
  <2>1. i = 1 \/ (i - 1 \in DOMAIN s /\ k - 1 \in DOMAIN s /\ i - 1 < k - 1
                  /\ e[i] = s[i - 1] /\ e[k] = s[k - 1])
    BY <1>2, <1>3
  <2>2. i = 1 => Before(e[i], e[k])
    BY <1>2 DEF Before
  <2> QED BY <2>1, <2>2 DEF Ordered
<1> QED BY <1>1, <1>3 DEF Ordered

(* ... and the next boot. *)
LEMMA OrderAtBoot ==
  ASSUME NEW s \in Seq(FrameType), Ordered(s), NEW kept \in WithoutBoot(s)
  PROVE  Ordered(kept)
<1> DEFINE idx == {i \in DOMAIN s : ~IsBoot(s[i])}
           n   == Cardinality(idx)
<1>1. PICK at \in [1..n -> idx] :
        /\ \A k, l \in 1..n : k < l => at[k] < at[l]
        /\ kept = [k \in 1..n |-> s[at[k]]]
  BY DEF WithoutBoot, Kept
<1> HIDE DEF n
<1>2. \A k \in 1..n : at[k] \in DOMAIN s
  BY <1>1
<1> QED BY <1>1, <1>2 DEF Ordered

(* Whatever a step writes is in order. *)
LEMMA LinesAreOrdered ==
  ASSUME TypeOK, BootInv, Ordered(outbox), NEW s, Line(s)
  PROVE  Ordered(s)
<1>1. outbox \in Seq(FrameType) /\ \A f \in Elems(outbox) : OlderThan(f, nextSeq)
  BY DEF TypeOK, FileType, BootInv, Fits, Mem
<1>2. CASE \E t : NewLast(t) /\ s = outbox \o t
  BY <1>1, <1>2, OrderGrows
<1>3. CASE \E t : NewLast(t) /\ outbox # <<>> /\ s = Tail(outbox) \o t
  <2>1. PICK t : NewLast(t) /\ outbox # <<>> /\ s = Tail(outbox) \o t
    BY <1>3
  <2>2. Tail(outbox) \in Seq(FrameType) /\ Ordered(Tail(outbox))
    BY <1>1, <2>1, OrderOfTail
  <2>3. \A f \in Elems(Tail(outbox)) : OlderThan(f, nextSeq)
    BY <1>1, <2>1, TailElements
  <2> QED BY <2>1, <2>2, <2>3, OrderGrows
<1>4. CASE \E f : NextName(f) /\ IsBoot(f) /\ s = <<f>> \o outbox
  <2>1. PICK f : NextName(f) /\ IsBoot(f) /\ s = <<f>> \o outbox
    BY <1>4
  <2>2. f \in FrameType
    BY <2>1 DEF NextName
  <2> QED BY <1>1, <2>1, <2>2, OrderOfHead
<1> QED BY <1>2, <1>3, <1>4 DEF Line

(* A frame missing from what a step writes was the head, and is older than  *)
(* everything that stays.                                                   *)
LEMMA OnlyTheHeadLeaves ==
  ASSUME TypeOK, BootInv, Ordered(outbox), NEW s, Line(s),
         NEW f \in Elems(outbox) \ Elems(s), NEW g \in Elems(s)
  PROVE  Before(f, g)
<1>1. outbox \in Seq(FrameType) /\ \A h \in Elems(outbox) : OlderThan(h, nextSeq) /\ h \in FrameType
  <2>1. outbox \in Seq(FrameType)
    BY DEF TypeOK, FileType, Mem
  <2> QED BY <2>1, ElemsAreFrames DEF BootInv, Fits, Mem
<1>2. \A a, b \in Seq(FrameType) : Elems(a \o b) = Elems(a) \cup Elems(b)
  BY ConcatElements
<1>3. CASE \E t : NewLast(t) /\ s = outbox \o t
  <2>1. PICK t : NewLast(t) /\ s = outbox \o t
    BY <1>3
  <2>2. Elems(outbox \o t) = Elems(outbox) \cup Elems(t)
    BY <1>1, <2>1, NewLastTypes, ConcatElements
  <2> QED BY <2>1, <2>2
<1>4. CASE \E h : NextName(h) /\ IsBoot(h) /\ s = <<h>> \o outbox
  <2>1. PICK h : NextName(h) /\ IsBoot(h) /\ s = <<h>> \o outbox
    BY <1>4
  <2>2. h \in FrameType
    BY <2>1 DEF NextName
  <2>3. <<h>> \in Seq(FrameType)
    BY <2>2
  <2>4. Elems(<<h>> \o outbox) = Elems(<<h>>) \cup Elems(outbox)
    <3>1. outbox \in Seq(FrameType)
      BY <1>1
    <3> QED BY <1>2, <2>3, <3>1
  <2> QED BY <2>1, <2>4
<1>5. CASE \E t : NewLast(t) /\ outbox # <<>> /\ s = Tail(outbox) \o t
  <2>1. PICK t : NewLast(t) /\ outbox # <<>> /\ s = Tail(outbox) \o t
    BY <1>5
  <2>2. /\ Tail(outbox) \in Seq(FrameType)
        /\ \A h \in Elems(outbox) \ Elems(Tail(outbox)) : h = outbox[1]
        /\ \A h \in Elems(Tail(outbox)) : Before(outbox[1], h)
    BY <1>1, <2>1, OrderOfTail
  <2>3. Elems(Tail(outbox) \o t) = Elems(Tail(outbox)) \cup Elems(t)
    <3>1. t \in Seq(FrameType)
      BY <2>1, NewLastTypes
    <3>2. Tail(outbox) \in Seq(FrameType)
      BY <2>2
    <3> QED BY <1>2, <3>1, <3>2
  <2>4. f = outbox[1]
    BY <2>1, <2>2, <2>3
  <2>5. CASE g \in Elems(t)
    <3>1. NextName(g)
      BY <2>1, <2>5, NewLastTypes
    <3> QED BY <1>1, <3>1, NewIsLast
  <2> QED BY <2>1, <2>2, <2>3, <2>4, <2>5
<1> QED BY <1>3, <1>4, <1>5 DEF Line

-----------------------------------------------------------------------------
(* Each step writes such a line, or boots. *)

(* A value whose outbox is memory's is a line, with a frame behind it or not. *)
LEMMA FrameLine ==
  ASSUME TypeOK, NEW d \in FileType, d.outbox = outbox, NEW f, NextName(f)
  PROVE  Line(outbox) /\ Line(WithFrame(d, f).outbox)
<1>1. outbox \in Seq(FrameType) /\ f \in FrameType
  BY DEF TypeOK, FileType, Mem, NextName
<1>2. outbox = outbox \o <<>> /\ NewLast(<<>>)
  BY <1>1 DEF NewLast
<1>3. WithFrame(d, f).outbox = Append(outbox, f)
  BY DEF WithFrame, FileType
<1>4. Append(outbox, f) = outbox \o <<f>> /\ NewLast(<<f>>)
  BY <1>1, AppendIsConcat DEF NewLast
<1> QED BY <1>2, <1>3, <1>4 DEF Line

(* A save, or one that fails. *)
LEMMA SavedLine ==
  ASSUME NEW d, Line(d.outbox), stream' = stream
  PROVE  /\ Persist(d) => Writes
         /\ \A other : /\ PersistFails(d, other) /\ UNCHANGED outbox /\ Line(outbox)
                       /\ other.outbox = disk.outbox \/ Line(other.outbox)
                       => Writes
BY DEF Persist, PersistFails, Writes

(* The rewrite of memory that a latched storage is probed with. *)
LEMMA ProbedLine ==
  ASSUME Line(outbox)
  PROVE  ProbedDisk.outbox = disk.outbox \/ Line(ProbedDisk.outbox)
BY DEF ProbedDisk, Mem

(* The shared append. *)
LEMMA AppendWrites ==
  ASSUME TypeOK, NEW kind \in FrameKinds, NEW j \in Jobs \cup {NoJob}, NEW a \in 0..MaxAttempt
  PROVE  Appended(kind, j, a) \/ AppendFails(kind, j, a) => Writes
<1> DEFINE f == NewFrame(kind, j, a, nextSeq)
           d == WithFrame(Mem, f)
<1>1. NextName(f) /\ Mem \in FileType /\ Mem.outbox = outbox
  BY NewFrameIsNext DEF TypeOK, Mem
<1> HIDE DEF f
<1>2. Line(outbox) /\ Line(d.outbox)
  BY <1>1, FrameLine
<1>3. ASSUME Appended(kind, j, a) PROVE Writes
  <2>1. Persist(d) /\ stream' = stream
    BY <1>3 DEF Appended, f
  <2> HIDE DEF d
  <2> QED BY <1>2, <2>1, SavedLine
<1>4. ASSUME AppendFails(kind, j, a) PROVE Writes
  <2>1. /\ PersistFails(Mem, disk) \/ PersistFails(d, ProbedDisk)
        /\ UNCHANGED <<outbox, stream>>
    BY <1>4 DEF AppendFails, f
  <2> HIDE DEF d
  <2> QED BY <1>1, <1>2, <2>1, SavedLine, ProbedLine
<1> QED BY <1>3, <1>4

(* A step that writes nothing, or only probes. *)
LEMMA QuietWrites ==
  ASSUME TypeOK, UNCHANGED <<outbox, stream>>, disk' \in {disk, ProbedDisk}
  PROVE  Writes
<1>1. outbox = outbox \o <<>> /\ NewLast(<<>>)
  BY DEF NewLast, TypeOK, FileType, Mem
<1>2. Line(outbox)
  BY <1>1 DEF Line
<1> QED BY <1>2, ProbedLine DEF Writes

(* Workers and the claim queue. *)
LEMMA WorkWrites ==
  ASSUME TypeOK, WorkStep
  PROVE  Writes
<1>1. PICK j \in Jobs : WorkerEvent(j) \/ WorkerResult(j) \/ WorkerAborts(j) \/ ClaimJob(j) \/ ClaimSkips(j)
  BY DEF WorkStep
<1>2. /\ 0 \in 0..MaxAttempt /\ "event" \in FrameKinds /\ "result" \in FrameKinds
      /\ inbox[j] \in 0..MaxAttempt
  BY BoundsAssumption DEF FrameKinds, TypeOK, FileType, Mem
<1>3. CASE WorkerEvent(j) \/ WorkerResult(j)
  BY <1>2, <1>3, AppendWrites DEF WorkerEvent, WorkerResult
<1>4. CASE WorkerAborts(j)
  <2>1. CASE AppendFails("event", j, 0) \/ AppendFails("result", j, inbox[j])
    BY <1>2, <2>1, AppendWrites
  <2>2. CASE ResultRefused(j)
    BY <2>2, QuietWrites DEF ResultRefused
  <2> QED BY <1>4, <2>1, <2>2 DEF WorkerAborts
<1>5. CASE ClaimJob(j) \/ ClaimSkips(j)
  BY <1>5, QuietWrites DEF ClaimJob, ClaimSkips, fileVars
<1> QED BY <1>1, <1>3, <1>4, <1>5

(* The intake. *)
LEMMA IntakeWrites ==
  ASSUME TypeOK, IntakeStep
  PROVE  Writes
<1>1. PICK j \in Jobs, a \in 1..MaxAttempt :
        \/ Deduplicated(j, a) \/ JobAccepted(j, a) \/ JobNotSaved(j, a) \/ ReceiptNotSaved(j, a)
        \/ JobConflicts(j, a)
        \/ InvalidEvent(j) \/ InvalidReceipt(j, a) \/ InvalidResult(j, a)
        \/ \E kind \in {"event", "job_ack", "result"} : InvalidUnanswered(kind, j, a)
  BY DEF IntakeStep
<1>2. /\ 0 \in 0..MaxAttempt /\ a \in 0..MaxAttempt
      /\ "event" \in FrameKinds /\ "job_ack" \in FrameKinds /\ "result" \in FrameKinds
  BY BoundsAssumption DEF FrameKinds
<1> DEFINE f == NewFrame("job_ack", j, a, nextSeq)
           w == WithJob(j, a)
           d == WithFrame(w, f)
<1>3. NextName(f) /\ w \in FileType /\ w.outbox = outbox
  BY <1>2, NewFrameIsNext, FileTypes DEF WithJob, Mem
<1> HIDE DEF f, w
<1>4. Line(outbox) /\ Line(d.outbox) /\ Line(w.outbox)
  BY <1>3, FrameLine
<1> HIDE DEF d
<1>5. CASE Deduplicated(j, a) \/ InvalidEvent(j) \/ InvalidReceipt(j, a) \/ InvalidResult(j, a)
  BY <1>2, <1>5, AppendWrites DEF Deduplicated, InvalidEvent, InvalidReceipt, InvalidResult
<1>6. CASE JobAccepted(j, a)
  <2>1. Persist(d) /\ stream' = stream
    BY <1>6 DEF JobAccepted, d, f, w
  <2> QED BY <1>4, <2>1, SavedLine
<1>7. CASE JobNotSaved(j, a)
  <2>1. PersistFails(w, disk) /\ UNCHANGED <<outbox, stream>>
    BY <1>7 DEF JobNotSaved, w
  <2> QED BY <1>4, <2>1, SavedLine
<1>8. CASE ReceiptNotSaved(j, a)
  <2>1. CASE AppendFails("job_ack", j, a)
    BY <1>2, <2>1, AppendWrites
  <2>2. CASE ~AppendFails("job_ack", j, a)
    <3>1. PersistFails(d, w) /\ UNCHANGED <<outbox, stream>>
      BY <1>8, <2>2 DEF ReceiptNotSaved, d, f, w
    <3> QED BY <1>4, <3>1, SavedLine
  <2> QED BY <2>1, <2>2
<1>9. CASE JobConflicts(j, a)
  BY <1>9, QuietWrites DEF JobConflicts
<1>10. CASE \E kind \in {"event", "job_ack", "result"} : InvalidUnanswered(kind, j, a)
  <2>1. PICK kind \in {"event", "job_ack", "result"} : InvalidUnanswered(kind, j, a)
    BY <1>10
  <2> DEFINE g == NewFrame(kind, j, IF kind = "event" THEN 0 ELSE a, nextSeq)
             e == WithFrame(Mem, g)
  <2>2. NextName(g) /\ Mem \in FileType /\ Mem.outbox = outbox
    BY <1>2, NewFrameIsNext DEF TypeOK, Mem
  <2>3. /\ \/ PersistFails(Mem, disk) \/ PersistFails(e, ProbedDisk)
           \/ disk' = ProbedDisk
        /\ UNCHANGED <<outbox, stream>>
    BY <2>1 DEF InvalidUnanswered
  <2> HIDE DEF g
  <2>4. Line(e.outbox)
    BY <2>2, FrameLine
  <2> HIDE DEF e
  <2> QED BY <1>4, <2>2, <2>3, <2>4, SavedLine, ProbedLine, QuietWrites
<1> QED BY <1>1, <1>5, <1>6, <1>7, <1>8, <1>9, <1>10

(* A frame put at the head. *)
LEMMA HeadWrites ==
  ASSUME TypeOK, HeadStep
  PROVE  Writes
<1>1. PICK kind \in BootKinds : HeadAppended(kind) \/ HeadAppendFails(kind)
  BY DEF HeadStep, AnnounceReady, AnnounceReadyFails, BootKinds
<1> DEFINE f == NewFrame(kind, NoJob, 0, nextSeq)
           d == WithHead(f)
<1>2. NextName(f) /\ IsBoot(f)
  <2>1. 0 \in 0..MaxAttempt /\ kind \in FrameKinds
    BY BoundsAssumption DEF FrameKinds
  <2>2. NextName(f)
    BY <2>1, NewFrameIsNext
  <2> QED BY <2>2 DEF IsBoot, NewFrame
<1> HIDE DEF f
<1>3. d.outbox = <<f>> \o outbox
  BY DEF WithHead, Mem
<1>4. Line(d.outbox) /\ Line(outbox)
  <2>1. Mem \in FileType /\ Mem.outbox = outbox
    BY DEF TypeOK, Mem
  <2>2. Line(outbox)
    BY <1>2, <2>1, FrameLine
  <2> QED BY <1>2, <1>3, <2>2 DEF Line
<1> HIDE DEF d
<1>5. CASE HeadAppended(kind)
  <2>1. Persist(d) /\ stream' = stream
    BY <1>5 DEF HeadAppended, d, f
  <2> QED BY <1>4, <2>1, SavedLine
<1>6. CASE HeadAppendFails(kind)
  <2>1. PersistFails(d, disk) /\ UNCHANGED <<outbox, stream>>
    BY <1>6 DEF HeadAppendFails, d, f
  <2> QED BY <1>4, <2>1, SavedLine
<1> QED BY <1>1, <1>5, <1>6

(* A settled verdict: the head leaves, and the event that reports an        *)
(* acknowledged terminal goes to the end.                                   *)
LEMMA SettleWrites ==
  ASSUME TypeOK, SettleStep
  PROVE  Writes
<1>1. PICK f \in Elems(outbox), disp \in Dispositions :
        Settled(f, disp) \/ SettleFails(f, disp) \/ ReleaseNotSaved(f, disp)
  BY DEF SettleStep
<1> DEFINE leaves == Leaves(f, disp)
           d1     == IF leaves THEN WithoutHead(f, disp) ELSE Mem
           free   == [d1 EXCEPT !.inbox = [inbox EXCEPT ![f.corr] = 0]]
           e      == NewFrame("event", f.corr, 0, nextSeq)
<1>2. NextName(e)
  <2>1. f \in FrameType /\ 0 \in 0..MaxAttempt /\ "event" \in FrameKinds
    BY SettleTypesOfOperators, BoundsAssumption DEF FrameKinds
  <2>2. f.corr \in Jobs \cup {NoJob}
    BY <2>1 DEF FrameType
  <2> QED BY <2>1, <2>2, NewFrameIsNext
<1>3. NewLast(Acked(f, disp))
  <2>1. Acked(f, disp) = <<>> \/ Acked(f, disp) = <<e>>
    BY DEF Acked
  <2> HIDE DEF e
  <2> QED BY <1>2, <2>1 DEF NewLast
<1>4. Line(outbox)
  BY NewFrameIsNext, FrameLine, <1>2 DEF TypeOK, Mem
<1>5. Line(d1.outbox)
  <2>1. CASE leaves
    <3>1. outbox # <<>> /\ d1.outbox = Tail(outbox) \o Acked(f, disp)
      BY <2>1 DEF Leaves, AtHead, WithoutHead
    <3> QED BY <1>3, <3>1 DEF Line
  <2>2. CASE ~leaves
    BY <1>4, <2>2 DEF Mem
  <2> QED BY <2>1, <2>2
<1>6. free.outbox = d1.outbox
  <2>1. d1 \in FileType
    BY FileTypes, SettleTypesOfOperators DEF Leaves
  <2> HIDE DEF d1
  <2> QED BY <2>1 DEF FileType
<1>7. CASE Settled(f, disp)
  <2> DEFINE d2 == IF Releases(f, disp) THEN free ELSE d1
  <2>1. /\ outbox' = d2.outbox /\ stream' = stream
        /\ disk' = IF leaves \/ Releases(f, disp) THEN d2 ELSE disk
    BY <1>7 DEF Settled
  <2> HIDE DEF d1, free, leaves
  <2>2. d2.outbox = d1.outbox
    BY <1>6
  <2> HIDE DEF d2
  <2>3. disk'.outbox = d2.outbox \/ disk'.outbox = disk.outbox
    BY <2>1
  <2> QED BY <1>5, <2>1, <2>2, <2>3 DEF Writes
<1>8. CASE SettleFails(f, disp)
  <2>1. leaves /\ PersistFails(d1, disk) /\ UNCHANGED <<outbox, stream>>
    BY <1>8 DEF SettleFails
  <2> HIDE DEF d1, leaves
  <2> QED BY <1>4, <1>5, <2>1, SavedLine
<1>9. CASE ReleaseNotSaved(f, disp)
  <2>1. /\ outbox' = free.outbox /\ PersistFails(free, IF leaves THEN d1 ELSE disk)
        /\ UNCHANGED stream
    BY <1>9 DEF ReleaseNotSaved
  <2> HIDE DEF d1, free, leaves
  <2>2. disk' = free \/ disk' = d1 \/ disk' = disk
    BY <2>1 DEF PersistFails
  <2> QED BY <1>5, <1>6, <2>1, <2>2 DEF Writes
<1> QED BY <1>1, <1>7, <1>8, <1>9

(* Every step of the durable half writes a line, or boots. *)
LEMMA StepWrites ==
  ASSUME TypeOK, [Next]_stateVars
  PROVE  Writes \/ Reboots
<1>1. CASE LatchStep \/ UNCHANGED stateVars
  BY <1>1, QuietWrites DEF LatchStep, SocketOpened, LatchPending, LatchVerdict, stateVars, fileVars
<1>2. CASE Restart
  <2>1. PICK kept \in WithoutBoot(disk.outbox) : Persist([disk EXCEPT !.outbox = kept])
    BY <1>2 DEF Restart
  <2>2. [disk EXCEPT !.outbox = kept].outbox = kept
    BY DEF TypeOK, FileType
  <2> QED BY <1>2, <2>1, <2>2 DEF Restart, Reboots, Persist
<1> QED BY <1>1, <1>2, WorkWrites, IntakeWrites, HeadWrites, SettleWrites DEF Next

LEMMA OrderInvHolds == Spec => []OrderInv
<1>1. Init => OrderInv
  BY DEF Init, FreshState, OrderInv, Ordered, Mem
<1>2. TypeOK /\ BootInv /\ OrderInv /\ [Next]_stateVars => OrderInv'
  <2> SUFFICES ASSUME TypeOK, BootInv, OrderInv, [Next]_stateVars PROVE OrderInv'
    OBVIOUS
  <2>1. \A s : Ordered(s) => Ordered(s)'
    BY DEF Ordered, Before, Older
  <2>2. CASE Writes
    BY <2>1, <2>2, LinesAreOrdered DEF Writes, OrderInv, Ordered, Before, Older
  <2>3. CASE Reboots
    <3>1. disk.outbox \in Seq(FrameType)
      BY DEF TypeOK, FileType
    <3>2. Ordered(outbox')
      BY <2>3, <3>1, OrderAtBoot DEF Reboots, OrderInv
    <3> QED BY <2>3, <3>2 DEF Reboots, OrderInv, Ordered, Before, Older
  <2> QED BY <2>2, <2>3, StepWrites
<1> QED BY <1>1, <1>2, TypesHold, BootInvHolds, PTL DEF Spec

(* However acks, retries and reopened sockets interleave, a frame leaves    *)
(* the outbox only ahead of every frame of its incarnation created later.   *)
THEOREM FramesLeaveInOrder == StreamSpec => RetiresInOrder
<1>1. TypeOK /\ ThreadInv /\ BootInv /\ OrderInv /\ [StreamNext]_vars
        => [\A f \in Elems(outbox) \ Elems(outbox') : \A g \in Elems(outbox') :
              ~IsBoot(f) /\ ~IsBoot(g) /\ f.stream = g.stream /\ stream' = stream => f.seq < g.seq]_vars
  <2> SUFFICES ASSUME TypeOK, ThreadInv, BootInv, OrderInv, [StreamNext]_vars,
                      NEW f \in Elems(outbox) \ Elems(outbox'), NEW g \in Elems(outbox'),
                      ~IsBoot(f), ~IsBoot(g), f.stream = g.stream, stream' = stream
               PROVE  f.seq < g.seq
    OBVIOUS
  <2>1. stream \in Nat /\ outbox \in Seq(FrameType)
    BY DEF TypeOK, FileType, Mem
  <2>2. Writes
    BY <2>1, StepRefines, StepWrites DEF Reboots
  <2>3. Before(f, g)
    BY <2>2, OnlyTheHeadLeaves DEF Writes, OrderInv
  <2>4. f.stream \in Nat
    BY <2>1, ElemsAreFrames
  <2> QED BY <2>3, <2>4 DEF Before, Older
<1> QED BY <1>1, ThreadsHold, ThreadsRefine, BootInvHolds, OrderInvHolds, PTL
        DEF StreamSpec, RetiresInOrder, DurableHandlers

-----------------------------------------------------------------------------
(* The receipt before the terminal, while no write of the file has failed.  *)
(* The strengthening: a receipt is owed or has been read from the moment    *)
(* its attempt is held, and it is older than every result of that attempt.  *)
(* A receipt still owed is in the outbox or the dead-letter (OwedInv), and  *)
(* the outbox is in the order of the names (OrderInv).                      *)

Receipted(j, a) == \E g \in heard \cup owed : g.kind = "job_ack" /\ g.corr = j /\ g.attempt = a
ResultsBacked ==
  \A f \in Elems(outbox) : f.kind = "result" =>
    \E g \in heard \cup owed : IsReceiptOf(g, f) /\ Older(g, f)
RejectsBacked ==
  \A c \in Sockets :
    /\ rejecting[c] # 0 => intakeQ[c] # <<>>
    /\ rejecting[c] = 2 => Receipted(Head(intakeQ[c]).corr, Head(intakeQ[c]).attempt)
HeldBacked == \A j \in Jobs : inbox[j] # 0 => Receipted(j, inbox[j])
ReceiptInv == faults = 0 => disk = Mem /\ HeldBacked /\ RejectsBacked /\ ResultsBacked

(* What a step does to jobs and results when no write fails: a job taken in *)
(* leaves with its receipt owed, a new result is of an attempt held.        *)
NewResults(F) == \A f \in Elems(outbox') \ Elems(outbox) : f.kind = "result" => f \in F
Receipts(F) ==
  /\ faults = 0
  /\ disk' = Mem'
  /\ \A j \in Jobs : \/ inbox'[j] \in {0, inbox[j]}
                     \/ \E g \in owed' : g.kind = "job_ack" /\ g.corr = j /\ g.attempt = inbox'[j]
  /\ NewResults(F)
HeldResults == {f \in FrameType : NextName(f) /\ f.corr \in Jobs /\ f.attempt # 0
  /\ f.attempt = inbox[f.corr]}

(* A write that fails is counted. *)
LEMMA FailuresCount ==
  ASSUME TypeOK, faults' = 0
  PROVE  \A d, other : ~PersistFails(d, other)
BY DEF TypeOK, PersistFails

(* A save: the file is memory's value. *)
LEMMA SavedClean ==
  ASSUME TypeOK, NEW d \in FileType, Persist(d)
  PROVE  disk' = Mem' /\ outbox' = d.outbox /\ inbox' = d.inbox
<1>1. Mem' = [outbox |-> d.outbox, rejected |-> d.rejected, inbox |-> d.inbox]
  BY DEF Persist, Mem
<1>2. d = [outbox |-> d.outbox, rejected |-> d.rejected, inbox |-> d.inbox]
  BY DEF FileType
<1> QED BY <1>1, <1>2 DEF Persist

(* The shared append, when it succeeds. *)
LEMMA AppendReceipts ==
  ASSUME TypeOK, faults' = 0,
         NEW kind \in FrameKinds, NEW j \in Jobs \cup {NoJob}, NEW a \in 0..MaxAttempt,
         Appended(kind, j, a), kind = "result" => j \in Jobs
  PROVE  /\ faults = 0 /\ disk' = Mem'
         /\ \A k \in Jobs : inbox'[k] \in {0, inbox[k]}
         /\ Elems(outbox') = Elems(outbox) \cup {NewFrame(kind, j, a, nextSeq)}
         /\ NewFrame(kind, j, a, nextSeq) \in owed'
<1> DEFINE f == NewFrame(kind, j, a, nextSeq)
           d == WithFrame(Mem, f)
<1>1. f \in FrameType /\ Mem \in FileType /\ f.kind = kind /\ f.corr = j
  BY FileTypes DEF TypeOK, NewFrame
<1>2. d \in FileType
  BY FileTypes
<1>3. Persist(d) /\ faults' = faults /\ f \in owed'
  BY DEF Appended
<1> HIDE DEF f
<1>4. d.outbox = Append(outbox, f)
        /\ d.inbox = IF f.kind = "result" THEN [inbox EXCEPT ![f.corr] = 0] ELSE inbox
  BY DEF WithFrame, Mem
<1> HIDE DEF d
<1>5. disk' = Mem' /\ outbox' = Append(outbox, f) /\ inbox' = d.inbox
  BY <1>2, <1>3, <1>4, SavedClean
<1>6. Elems(Append(outbox, f)) = Elems(outbox) \cup {f}
  <2>1. outbox \in Seq(FrameType) /\ <<f>> \in Seq(FrameType)
    BY <1>1 DEF TypeOK, FileType, Mem
  <2>2. Append(outbox, f) = outbox \o <<f>>
    BY <1>1, <2>1, AppendIsConcat
  <2>3. Elems(outbox \o <<f>>) = Elems(outbox) \cup Elems(<<f>>)
    BY <2>1, ConcatElements
  <2>4. Elems(<<f>>) = {f}
    BY DEF Elems
  <2> QED BY <2>2, <2>3, <2>4
<1>7. \A k \in Jobs : inbox'[k] \in {0, inbox[k]}
  <2>1. inbox \in [Jobs -> 0..MaxAttempt]
    BY DEF TypeOK, FileType, Mem
  <2> QED BY <1>1, <1>4, <1>5, <2>1
<1> QED BY <1>3, <1>5, <1>6, <1>7 DEF f

(* A step that leaves outbox and inbox alone, the file at most probed. *)
LEMMA QuietReceipts ==
  ASSUME disk = Mem, faults' = 0, UNCHANGED <<outbox, rejected, inbox, faults>>, disk' \in {disk, ProbedDisk}
  PROVE  Receipts({})
<1>1. Mem' = Mem /\ ProbedDisk = Mem
  BY DEF Mem, ProbedDisk
<1> QED BY <1>1 DEF Receipts, NewResults, Elems

(* Workers and the claim queue: a result carries the attempt held. *)
LEMMA WorkReceipts ==
  ASSUME TypeOK, disk = Mem, faults' = 0, WorkStep
  PROVE  Receipts(HeldResults)
<1>1. PICK j \in Jobs : WorkerEvent(j) \/ WorkerResult(j) \/ WorkerAborts(j) \/ ClaimJob(j) \/ ClaimSkips(j)
  BY DEF WorkStep
<1>2. /\ 0 \in 0..MaxAttempt /\ "event" \in FrameKinds /\ "result" \in FrameKinds
      /\ inbox[j] \in 0..MaxAttempt
  BY BoundsAssumption DEF FrameKinds, TypeOK, FileType, Mem
<1>3. CASE WorkerEvent(j)
  <2>1. Appended("event", j, 0)
    BY <1>3 DEF WorkerEvent
  <2>2. NewFrame("event", j, 0, nextSeq).kind # "result"
    BY DEF NewFrame
  <2> QED BY <1>2, <2>1, <2>2, AppendReceipts DEF Receipts, NewResults
<1>4. CASE WorkerResult(j)
  <2> DEFINE f == NewFrame("result", j, inbox[j], nextSeq)
  <2>1. Appended("result", j, inbox[j]) /\ inbox[j] # 0
    BY <1>4 DEF WorkerResult
  <2>2. f \in HeldResults
    <3>1. NextName(f) /\ f.corr = j /\ f.attempt = inbox[j]
      BY <1>2, NewFrameIsNext DEF NewFrame
    <3> QED BY <2>1, <3>1 DEF HeldResults, NextName
  <2> HIDE DEF f
  <2>3. /\ faults = 0 /\ disk' = Mem' /\ \A k \in Jobs : inbox'[k] \in {0, inbox[k]}
        /\ Elems(outbox') = Elems(outbox) \cup {f}
    BY <1>2, <2>1, AppendReceipts DEF f
  <2> QED BY <2>2, <2>3 DEF Receipts, NewResults
<1>5. CASE WorkerAborts(j)
  <2>1. ResultRefused(j)
    BY <1>5, FailuresCount DEF WorkerAborts, AppendFails
  <2>2. Receipts({})
    BY <2>1, QuietReceipts DEF ResultRefused
  <2> QED BY <2>2 DEF Receipts, NewResults
<1>6. CASE ClaimJob(j) \/ ClaimSkips(j)
  <2>1. Receipts({})
    BY <1>6, QuietReceipts DEF ClaimJob, ClaimSkips, fileVars
  <2> QED BY <2>1 DEF Receipts, NewResults
<1> QED BY <1>1, <1>3, <1>4, <1>5, <1>6

(* Readiness and reopen reports. *)
LEMMA HeadReceipts ==
  ASSUME TypeOK, faults' = 0, HeadStep
  PROVE  Receipts({})
<1>1. PICK kind \in BootKinds : HeadAppended(kind)
  BY FailuresCount DEF HeadStep, AnnounceReady, AnnounceReadyFails, BootKinds, HeadAppendFails
<1> DEFINE f == NewFrame(kind, NoJob, 0, nextSeq)
           d == WithHead(f)
<1>2. f \in FrameType /\ f.kind # "result"
  <2>1. 0 \in 0..MaxAttempt /\ kind \in FrameKinds
    BY BoundsAssumption DEF FrameKinds
  <2>2. f \in FrameType
    BY <2>1, FileTypes
  <2> QED BY <2>2 DEF NewFrame, BootKinds
<1> HIDE DEF f
<1>3. outbox \in Seq(FrameType) /\ <<f>> \in Seq(FrameType) /\ Mem \in FileType
  BY <1>2 DEF TypeOK, FileType, Mem
<1>4. <<f>> \o outbox \in Seq(FrameType) /\ Elems(<<f>> \o outbox) = Elems(<<f>>) \cup Elems(outbox)
  BY <1>3, ConcatElements
<1>5. Elems(<<f>>) = {f}
  BY DEF Elems
<1>6. d.outbox = <<f>> \o outbox /\ d.inbox = inbox /\ d \in FileType
  BY <1>3, <1>4 DEF WithHead, Mem, FileType
<1>7. Persist(d) /\ faults' = faults
  BY <1>1 DEF HeadAppended, d, f
<1> HIDE DEF d
<1>8. disk' = Mem' /\ outbox' = <<f>> \o outbox /\ inbox' = inbox
  BY <1>6, <1>7, SavedClean
<1>9. NewResults({})
  BY <1>2, <1>4, <1>5, <1>8 DEF NewResults
<1> QED BY <1>7, <1>8, <1>9 DEF Receipts

(* A settled verdict adds at most an event, and releases at most a job. *)
LEMMA SettleReceipts ==
  ASSUME TypeOK, disk = Mem, faults' = 0, SettleStep
  PROVE  Receipts({})
<1>1. PICK f \in Elems(outbox), disp \in Dispositions : Settled(f, disp)
  BY FailuresCount DEF SettleStep, SettleFails, ReleaseNotSaved
<1> DEFINE leaves == Leaves(f, disp)
           d1     == IF leaves THEN WithoutHead(f, disp) ELSE Mem
           free   == [d1 EXCEPT !.inbox = [inbox EXCEPT ![f.corr] = 0]]
           d2     == IF Releases(f, disp) THEN free ELSE d1
<1>2. d1 \in FileType /\ Mem \in FileType /\ inbox \in [Jobs -> 0..MaxAttempt] /\ outbox \in Seq(FrameType)
  BY FileTypes, SettleTypesOfOperators DEF Leaves, TypeOK, FileType, Mem
<1>3. d1.inbox = inbox
  BY DEF WithoutHead, Mem
<1>4. ASSUME NEW g \in Elems(d1.outbox) \ Elems(outbox) PROVE g.kind # "result"
  <2>1. CASE ~leaves
    BY <1>4, <2>1 DEF Mem
  <2>2. CASE leaves
    <3>1. d1.outbox = Tail(outbox) \o Acked(f, disp) /\ outbox # <<>>
      BY <2>2 DEF WithoutHead, Leaves, AtHead
    <3>2. Tail(outbox) \in Seq(FrameType) /\ Elems(Tail(outbox)) \subseteq Elems(outbox)
      BY <1>2, <3>1, TailElements
    <3>3. \A h \in Elems(Acked(f, disp)) : h.kind = "event"
      BY DEF Acked, NewFrame, Elems
    <3>4. Acked(f, disp) \in Seq(FrameType)
      <4>1. f \in FrameType /\ 0 \in 0..MaxAttempt /\ "event" \in FrameKinds
        BY SettleTypesOfOperators, BoundsAssumption DEF FrameKinds
      <4>2. f.corr \in Jobs \cup {NoJob}
        BY <4>1 DEF FrameType
      <4>3. NewFrame("event", f.corr, 0, nextSeq) \in FrameType
        BY <4>1, <4>2, FileTypes
      <4>4. \A g1 \in FrameType : <<g1>> \in Seq(FrameType)
        OBVIOUS
      <4> QED BY <4>3, <4>4, EmptySeq DEF Acked
    <3> HIDE DEF d1
    <3>5. Elems(Tail(outbox) \o Acked(f, disp)) = Elems(Tail(outbox)) \cup Elems(Acked(f, disp))
      <4>1. \A s, t \in Seq(FrameType) : Elems(s \o t) = Elems(s) \cup Elems(t)
        BY ConcatElements
      <4> QED BY <3>2, <3>4, <4>1
    <3> QED BY <1>4, <3>1, <3>2, <3>3, <3>5
  <2> QED BY <2>1, <2>2
<1>5. /\ outbox' = d2.outbox /\ inbox' = d2.inbox /\ rejected' = d2.rejected /\ faults' = faults
      /\ disk' = IF leaves \/ Releases(f, disp) THEN d2 ELSE disk
  BY <1>1 DEF Settled
<1>6. ~leaves => d1 = Mem
  OBVIOUS
<1> HIDE DEF d1, leaves
<1>7. free \in FileType /\ free.outbox = d1.outbox /\ free.inbox = [inbox EXCEPT ![f.corr] = 0]
  <2>1. [inbox EXCEPT ![f.corr] = 0] \in [Jobs -> 0..MaxAttempt]
    <3>1. 0 \in 0..MaxAttempt
      BY BoundsAssumption
    <3> QED BY <1>2, <3>1
  <2> QED BY <1>2, <2>1 DEF FileType
<1> HIDE DEF free
<1>8. d2 \in FileType /\ d2.outbox = d1.outbox /\ \A j \in Jobs : d2.inbox[j] \in {0, inbox[j]}
  BY <1>2, <1>3, <1>7
<1>9. disk' = d2
  BY <1>5, <1>6
<1> HIDE DEF d2
<1>10. disk' = Mem'
  <2>1. d2 = [outbox |-> d2.outbox, rejected |-> d2.rejected, inbox |-> d2.inbox]
    BY <1>8 DEF FileType
  <2> QED BY <1>5, <1>9, <2>1 DEF Mem
<1>11. NewResults({})
  BY <1>4, <1>5, <1>8 DEF NewResults
<1> QED BY <1>5, <1>8, <1>10, <1>11 DEF Receipts

(* The intake: a job is saved with its receipt, and the terminal of one     *)
(* that cannot be decoded follows the receipt.                              *)
BackedResults == {f \in FrameType : NextName(f) /\ Receipted(f.corr, f.attempt)}

LEMMA MoreReceipts ==
  ASSUME NEW F, NEW G, Receipts(F), F \subseteq G
  PROVE  Receipts(G)
BY DEF Receipts, NewResults

LEMMA JobReceipts ==
  ASSUME TypeOK, NEW j \in Jobs, NEW a \in 1..MaxAttempt, JobAccepted(j, a), faults' = 0
  PROVE  Receipts({})
<1> DEFINE f == NewFrame("job_ack", j, a, nextSeq)
           w == WithJob(j, a)
           d == WithFrame(w, f)
<1>1. a \in 0..MaxAttempt /\ "job_ack" \in FrameKinds
  BY BoundsAssumption DEF FrameKinds
<1>2. f \in FrameType /\ w \in FileType /\ f.kind = "job_ack" /\ f.corr = j /\ f.attempt = a
  BY <1>1, FileTypes DEF NewFrame
<1>3. d \in FileType
  BY <1>1, <1>2, FileTypes
<1>4. Persist(d) /\ faults' = faults /\ f \in owed'
  BY DEF JobAccepted
<1> HIDE DEF f
<1>5. w.outbox = outbox /\ w.inbox = [inbox EXCEPT ![j] = a]
  BY DEF WithJob, Mem
<1> HIDE DEF w
<1>6. d.outbox = Append(outbox, f) /\ d.inbox = [inbox EXCEPT ![j] = a]
  BY <1>2, <1>5 DEF WithFrame, FileType
<1> HIDE DEF d
<1>7. disk' = Mem' /\ outbox' = Append(outbox, f) /\ inbox' = [inbox EXCEPT ![j] = a]
  BY <1>3, <1>4, <1>6, SavedClean
<1>8. Elems(Append(outbox, f)) = Elems(outbox) \cup {f}
  <2>1. outbox \in Seq(FrameType) /\ <<f>> \in Seq(FrameType)
    BY <1>2 DEF TypeOK, FileType, Mem
  <2>2. Append(outbox, f) = outbox \o <<f>>
    BY <1>2, <2>1, AppendIsConcat
  <2>3. Elems(outbox \o <<f>>) = Elems(outbox) \cup Elems(<<f>>)
    BY <2>1, ConcatElements
  <2>4. Elems(<<f>>) = {f}
    BY DEF Elems
  <2> QED BY <2>2, <2>3, <2>4
<1>9. NewResults({})
  BY <1>2, <1>7, <1>8 DEF NewResults
<1>10. \A k \in Jobs : inbox'[k] = IF k = j THEN a ELSE inbox[k]
  BY <1>7 DEF TypeOK, FileType, Mem
<1> QED BY <1>2, <1>4, <1>7, <1>9, <1>10 DEF Receipts

LEMMA IntakeReceipts ==
  ASSUME TypeOK, PodTypes, disk = Mem, RejectsBacked, faults' = 0, NEW c \in Sockets, Intake(c)
  PROVE  Receipts(BackedResults)
<1>1. PICK j, a : j = Head(intakeQ[c]).corr /\ a = Head(intakeQ[c]).attempt
  OBVIOUS
<1>2. IntakeHas(c, "job") => j \in Jobs /\ a \in 1..MaxAttempt /\ a \in 0..MaxAttempt
  BY <1>1, HeadOfIntake
<1>3. 0 \in 0..MaxAttempt /\ "event" \in FrameKinds /\ "job_ack" \in FrameKinds /\ "result" \in FrameKinds
  BY BoundsAssumption DEF FrameKinds
<1>4. ASSUME NEW kind \in {"event", "job_ack"}, NEW b \in 0..MaxAttempt, j \in Jobs, Appended(kind, j, b)
      PROVE  Receipts({})
  <2>1. NewFrame(kind, j, b, nextSeq).kind # "result"
    BY DEF NewFrame
  <2> QED BY <1>3, <1>4, <2>1, AppendReceipts DEF Receipts, NewResults
<1>5. CASE IntakeLatches(c)
  <2>1. Receipts({})
    BY <1>5, QuietReceipts DEF IntakeLatches, LatchVerdict, fileVars
  <2> QED BY <2>1, MoreReceipts
<1>6. CASE IntakeAccepts(c)
  <2>1. j \in Jobs /\ a \in 1..MaxAttempt /\ a \in 0..MaxAttempt /\ (Deduplicated(j, a) \/ JobAccepted(j, a))
    BY <1>1, <1>2, <1>6 DEF IntakeAccepts
  <2>2. Receipts({})
    BY <1>4, <2>1, JobReceipts DEF Deduplicated
  <2> QED BY <2>2, MoreReceipts
<1>7. CASE IntakeRaises(c)
  <2>1. j \in Jobs /\ (JobConflicts(j, a) \/ AdmissionRefuses(j))
    BY <1>1, <1>2, <1>7, FailuresCount DEF IntakeRaises, JobNotSaved, ReceiptNotSaved, AppendFails
  <2>2. Receipts({})
    BY <2>1, QuietReceipts DEF JobConflicts, AdmissionRefuses, stateVars, fileVars
  <2> QED BY <2>2, MoreReceipts
<1>8. CASE IntakeRejects(c)
  <2>1. /\ j \in Jobs /\ a \in 1..MaxAttempt /\ a \in 0..MaxAttempt
        /\ \/ InvalidEvent(j) \/ InvalidReceipt(j, a)
           \/ RejectKind(c) = "result" /\ InvalidResult(j, a)
    BY <1>1, <1>2, <1>8 DEF IntakeRejects
  <2>2. CASE InvalidEvent(j) \/ InvalidReceipt(j, a)
    <3>1. Receipts({})
      BY <1>3, <1>4, <2>1, <2>2 DEF InvalidEvent, InvalidReceipt
    <3> QED BY <3>1, MoreReceipts
  <2>3. CASE RejectKind(c) = "result" /\ InvalidResult(j, a)
    <3> DEFINE f == NewFrame("result", j, a, nextSeq)
    <3>1. rejecting[c] = 2
      <4>1. rejecting[c] \in 0..2
        BY DEF PodTypes, DeferredTypes
      <4> QED BY <2>3, <4>1 DEF RejectKind
    <3>2. Receipted(j, a)
      BY <1>1, <3>1 DEF RejectsBacked
    <3>3. NextName(f) /\ f.corr = j /\ f.attempt = a
      BY <1>3, <2>1, NewFrameIsNext DEF NewFrame
    <3>4. Appended("result", j, a)
      BY <2>3 DEF InvalidResult
    <3> HIDE DEF f
    <3>5. f \in BackedResults
      BY <3>2, <3>3 DEF BackedResults, NextName
    <3>6. /\ faults = 0 /\ disk' = Mem' /\ \A k \in Jobs : inbox'[k] \in {0, inbox[k]}
          /\ Elems(outbox') = Elems(outbox) \cup {f}
      BY <1>3, <2>1, <3>4, AppendReceipts DEF f
    <3> QED BY <3>5, <3>6 DEF Receipts, NewResults
  <2> QED BY <2>1, <2>2, <2>3
<1>9. CASE IntakeRejectFails(c)
  <2>1. disk' = ProbedDisk /\ UNCHANGED <<outbox, rejected, inbox, faults>>
    BY <1>9, FailuresCount DEF IntakeRejectFails, InvalidUnanswered
  <2>2. Receipts({})
    BY <2>1, QuietReceipts
  <2> QED BY <2>2, MoreReceipts
<1> QED BY <1>5, <1>6, <1>7, <1>8, <1>9 DEF Intake

(* The next boot takes the file, which is what memory held. *)
LEMMA RestartReceipts ==
  ASSUME TypeOK, disk = Mem, faults' = 0, Restart
  PROVE  Receipts({})
<1>1. PICK kept \in WithoutBoot(disk.outbox) : Persist([disk EXCEPT !.outbox = kept])
  BY DEF Restart
<1>2. disk \in FileType /\ disk.outbox \in Seq(FrameType)
  BY DEF TypeOK, FileType
<1>3. kept \in Seq(FrameType) /\ Elems(kept) \subseteq Elems(disk.outbox)
  BY <1>2, BootKeeps
<1> DEFINE d == [disk EXCEPT !.outbox = kept]
<1>4. d \in FileType /\ d.outbox = kept /\ d.inbox = disk.inbox
  BY <1>2, <1>3 DEF FileType
<1>5. Persist(d) /\ faults' = faults
  BY <1>1 DEF Restart
<1> HIDE DEF d
<1>6. disk' = Mem' /\ outbox' = kept /\ inbox' = disk.inbox
  BY <1>4, <1>5, SavedClean
<1>7. disk.inbox = inbox /\ disk.outbox = outbox
  BY DEF Mem
<1> QED BY <1>3, <1>5, <1>6, <1>7 DEF Receipts, NewResults

(* Failures are never forgotten. *)
LEMMA FaultsOnlyGrow ==
  ASSUME TypeOK, [Next]_stateVars, faults' = 0
  PROVE  faults = 0
<1>1. CASE WorkStep
  BY <1>1, FailuresCount DEF WorkStep, WorkerEvent, WorkerResult, WorkerAborts, ClaimJob, ClaimSkips,
                             Appended, AppendFails, ResultRefused
<1>2. CASE IntakeStep
  <2>1. PICK j \in Jobs, a \in 1..MaxAttempt :
          \/ Deduplicated(j, a) \/ JobAccepted(j, a) \/ JobNotSaved(j, a) \/ ReceiptNotSaved(j, a)
          \/ JobConflicts(j, a)
          \/ InvalidEvent(j) \/ InvalidReceipt(j, a) \/ InvalidResult(j, a)
          \/ \E kind \in {"event", "job_ack", "result"} : InvalidUnanswered(kind, j, a)
    BY <1>2 DEF IntakeStep
  <2>2. CASE Deduplicated(j, a) \/ InvalidEvent(j) \/ InvalidReceipt(j, a) \/ InvalidResult(j, a)
    BY <2>2 DEF Deduplicated, InvalidEvent, InvalidReceipt, InvalidResult, Appended
  <2>3. CASE JobAccepted(j, a) \/ JobConflicts(j, a)
    BY <2>3 DEF JobAccepted, JobConflicts
  <2>4. ~JobNotSaved(j, a) /\ ~ReceiptNotSaved(j, a)
    BY FailuresCount DEF JobNotSaved, ReceiptNotSaved, AppendFails
  <2>5. CASE \E kind \in {"event", "job_ack", "result"} : InvalidUnanswered(kind, j, a)
    BY <2>5, FailuresCount DEF InvalidUnanswered
  <2> QED BY <2>1, <2>2, <2>3, <2>4, <2>5
<1>3. CASE HeadStep
  BY <1>3, FailuresCount DEF HeadStep, AnnounceReady, AnnounceReadyFails, HeadAppended, HeadAppendFails
<1>4. CASE SettleStep
  <2>1. PICK f \in Elems(outbox), disp \in Dispositions :
          Settled(f, disp) \/ SettleFails(f, disp) \/ ReleaseNotSaved(f, disp)
    BY <1>4 DEF SettleStep
  <2>2. ~SettleFails(f, disp)
    BY FailuresCount DEF SettleFails
  <2>3. ~ReleaseNotSaved(f, disp)
    BY FailuresCount DEF ReleaseNotSaved
  <2>4. CASE Settled(f, disp)
    <3>1. UNCHANGED faults
      BY <2>4 DEF Settled
    <3> QED BY <3>1
  <2> QED BY <2>1, <2>2, <2>3, <2>4
<1>5. CASE LatchStep \/ Restart \/ UNCHANGED stateVars
  BY <1>5 DEF LatchStep, SocketOpened, LatchPending, LatchVerdict, Restart, stateVars
<1> QED BY <1>1, <1>2, <1>3, <1>4, <1>5 DEF Next

LEMMA StepReceipts ==
  ASSUME TypeOK, ThreadInv, disk = Mem, HeldBacked, RejectsBacked, faults' = 0, [StreamNext]_vars
  PROVE  Receipts(BackedResults)
<1>1. HeldResults \subseteq BackedResults
  BY DEF HeldResults, BackedResults, HeldBacked
<1>2. ASSUME WorkStep \/ HeadStep \/ SettleStep \/ Restart \/ LatchStep \/ UNCHANGED stateVars
      PROVE  Receipts(BackedResults)
  <2>1. CASE WorkStep
    BY <1>1, <2>1, WorkReceipts, MoreReceipts
  <2>2. CASE HeadStep \/ SettleStep \/ Restart
    <3>1. Receipts({})
      BY <2>2, HeadReceipts, SettleReceipts, RestartReceipts
    <3> QED BY <3>1, MoreReceipts
  <2>3. CASE LatchStep \/ UNCHANGED stateVars
    <3>1. Receipts({})
      BY <2>3, QuietReceipts DEF LatchStep, SocketOpened, LatchPending, LatchVerdict, stateVars, fileVars
    <3> QED BY <3>1, MoreReceipts
  <2> QED BY <1>2, <2>1, <2>2, <2>3
<1>3. CASE Opening
  BY <1>2, <1>3 DEF Opening, OpenConnects, OpenRefused, OpenBootstraps, OpenBootstrapFails, OpenReports,
                    HeadStep, LatchStep
<1>4. CASE Sender \/ Claimer \/ ControlPlane \/ PodRestarts \/ UNCHANGED vars
  BY <1>2, <1>4, SenderRefines, ClaimerRefines, PeerRefines DEF PodRestarts, vars
<1>5. CASE \E j \in Jobs : Worker(j)
  BY <1>2, <1>5, WorkerRefines
<1>6. CASE \E c \in Sockets : ReaderReads(c) \/ ReaderEnds(c) \/ Intake(c) \/ NetDrops(c)
  BY <1>2, <1>6, PeerRefines, IntakeReceipts DEF ThreadInv
<1> QED BY <1>3, <1>4, <1>5, <1>6 DEF StreamNext

-----------------------------------------------------------------------------
(* The job an intake is rejecting stays at the head of its queue *)

Follows(d) ==
  \/ rejecting'[d] = 0
  \/ /\ intakeQ[d] # <<>> /\ intakeQ'[d] # <<>> /\ Head(intakeQ'[d]) = Head(intakeQ[d])
     /\ \/ rejecting'[d] # 2 \/ rejecting[d] = 2
        \/ \E g \in owed' : /\ g.kind = "job_ack" /\ g.corr = Head(intakeQ[d]).corr
                            /\ g.attempt = Head(intakeQ[d]).attempt

LEMMA StepFollows ==
  ASSUME TypeOK, PodTypes, RejectsBacked, [StreamNext]_vars, NEW d \in Sockets
  PROVE  Follows(d)
<1>1. /\ intakeQ \in [Sockets -> Seq(JobMsg \cup {VerdictItem})] /\ rejecting \in [Sockets -> 0..2]
  BY DEF PodTypes, DeferredTypes
<1>2. ASSUME intakeQ'[d] = intakeQ[d], rejecting'[d] = rejecting[d] PROVE Follows(d)
  BY <1>2 DEF Follows, RejectsBacked
<1>3. CASE \E c \in Sockets : Intake(c)
  <2>1. PICK c \in Sockets : Intake(c)
    BY <1>3
  <2>2. ASSUME IntakeNext(c) \/ IntakeDies(c) PROVE Follows(d)
    <3>1. CASE c = d
      BY <1>1, <2>2, <3>1 DEF IntakeNext, IntakeDies, Follows
    <3>2. CASE c # d
      BY <1>1, <1>2, <2>2, <3>2 DEF IntakeNext, IntakeDies
    <3> QED BY <3>1, <3>2
  <2>3. CASE IntakeRejects(c) /\ ~IntakeNext(c)
    <3>1. /\ intakeQ' = intakeQ /\ rejecting' = [rejecting EXCEPT ![c] = @ + 1]
          /\ ~Replayed(c) /\ IntakeHas(c, "job") /\ RejectKind(c) # "result"
      BY <2>3 DEF IntakeRejects
    <3>2. CASE c # d
      BY <1>1, <1>2, <3>1, <3>2
    <3>3. CASE c = d
      <4>1. intakeQ[d] # <<>>
        BY <3>1, <3>3 DEF IntakeHas
      <4>2. CASE rejecting[d] # 1
        <5>1. rejecting[d] = 0
          BY <1>1, <3>1, <3>3, <4>2 DEF RejectKind
        <5>2. rejecting'[d] = 1
          BY <1>1, <3>1, <3>3, <5>1
        <5> QED BY <3>1, <4>1, <5>2 DEF Follows
      <4>3. CASE rejecting[d] = 1
        <5> DEFINE f == NewFrame("job_ack", Head(intakeQ[d]).corr, Head(intakeQ[d]).attempt, nextSeq)
        <5>1. InvalidReceipt(Head(intakeQ[d]).corr, Head(intakeQ[d]).attempt)
          BY <2>3, <3>3, <4>3 DEF IntakeRejects, RejectKind
        <5>2. f \in owed'
          BY <5>1 DEF InvalidReceipt, Appended
        <5>3. f.kind = "job_ack" /\ f.corr = Head(intakeQ[d]).corr /\ f.attempt = Head(intakeQ[d]).attempt
          BY DEF NewFrame
        <5> HIDE DEF f
        <5> QED BY <3>1, <4>1, <5>2, <5>3 DEF Follows
      <4> QED BY <4>2, <4>3
    <3> QED BY <3>2, <3>3
  <2> QED BY <2>1, <2>2, <2>3 DEF Intake, IntakeLatches, IntakeAccepts, IntakeRaises, IntakeRejects,
                                  IntakeRejectFails
<1>4. CASE \E c \in Sockets : ReaderReads(c)
  <2>1. PICK c \in Sockets : ReaderReads(c)
    BY <1>4
  <2>2. UNCHANGED rejecting /\ (intakeQ' = intakeQ \/ \E m : intakeQ' = [intakeQ EXCEPT ![c] = Append(@, m)])
    BY <2>1 DEF ReaderReads
  <2>3. CASE intakeQ' = intakeQ
    BY <1>2, <2>2, <2>3
  <2>4. CASE \E m : intakeQ' = [intakeQ EXCEPT ![c] = Append(@, m)]
    <3>1. PICK m : intakeQ' = [intakeQ EXCEPT ![c] = Append(@, m)]
      BY <2>4
    <3>2. CASE c # d
      BY <1>1, <1>2, <2>2, <3>1, <3>2
    <3>3. CASE c = d /\ intakeQ[d] = <<>>
      BY <2>2, <3>3 DEF RejectsBacked, Follows
    <3>4. CASE c = d /\ intakeQ[d] # <<>>
      <4>1. intakeQ'[d] = Append(intakeQ[d], m)
        BY <1>1, <3>1, <3>4
      <4>2. Append(intakeQ[d], m) # <<>> /\ Head(Append(intakeQ[d], m)) = Head(intakeQ[d])
        BY <1>1, <3>4
      <4> QED BY <2>2, <3>4, <4>1, <4>2 DEF Follows
    <3> QED BY <3>2, <3>3, <3>4
  <2> QED BY <2>2, <2>3, <2>4
<1>5. CASE PodRestarts
  BY <1>5 DEF PodRestarts, Follows
<1>6. CASE Opening \/ Sender \/ Claimer \/ ControlPlane \/ UNCHANGED vars
  <2>1. UNCHANGED <<intakeQ, rejecting>>
    <3>1. CASE ControlPlane
      BY <3>1 DEF ControlPlane, CpAssigns, CpSendsJob, CpReads, podVars, intakeVars
    <3> QED BY <1>6, <3>1 DEF Opening, OpenConnects, OpenRefused, OpenBootstraps, OpenBootstrapFails,
         OpenReports, Sender, SenderSlices, SenderOpens, OpenStarts, SenderWrites, SenderCollects,
         SenderPicks, SenderEnds, SenderSettles, SenderSettleFails, Claimer, MainAnnounces, ClaimOpens,
         ClaimEnters, ClaimRefused, ClaimTakes, ClaimReturns, OthersClaim, intakeVars, vars, podVars
  <2> QED BY <1>2, <2>1
<1>7. CASE (\E j \in Jobs : Worker(j)) \/ \E c \in Sockets : ReaderEnds(c) \/ NetDrops(c)
  <2>1. UNCHANGED <<intakeQ, rejecting>>
    BY <1>7 DEF Worker, ReaderEnds, NetDrops, podVars, intakeVars
  <2> QED BY <1>2, <2>1
<1> QED BY <1>3, <1>4, <1>5, <1>6, <1>7 DEF StreamNext

-----------------------------------------------------------------------------
LEMMA StepReceiptInv ==
  ASSUME TypeOK, ThreadInv, OwedInv, NamesInv, AckInv, ReceiptInv, [StreamNext]_vars
  PROVE  ReceiptInv'
<1> SUFFICES ASSUME faults' = 0
             PROVE  disk' = Mem' /\ HeldBacked' /\ RejectsBacked' /\ ResultsBacked'
  BY DEF ReceiptInv
<1>1. disk = Mem /\ HeldBacked /\ RejectsBacked /\ ResultsBacked
  BY StepRefines, FaultsOnlyGrow DEF ReceiptInv
<1>2. Receipts(BackedResults)
  BY <1>1, StepReceipts
<1>3. heard \cup owed \subseteq heard' \cup owed'
  BY HeardStays, ForgottenIsEarned
<1>4. HeldBacked'
  <2> SUFFICES ASSUME NEW j \in Jobs, inbox'[j] # 0 
               PROVE  \E g \in heard' \cup owed' : g.kind = "job_ack" /\ g.corr = j /\ g.attempt = inbox'[j]
    BY DEF HeldBacked, Receipted
  <2>1. CASE inbox'[j] = inbox[j]
    BY <1>1, <1>3, <2>1 DEF HeldBacked, Receipted
  <2>2. CASE \E g \in owed' : g.kind = "job_ack" /\ g.corr = j /\ g.attempt = inbox'[j]
    BY <2>2
  <2> QED BY <1>2, <2>1, <2>2 DEF Receipts
<1>5. RejectsBacked'
  <2> SUFFICES ASSUME NEW c \in Sockets, rejecting'[c] # 0
               PROVE  /\ intakeQ'[c] # <<>>
                      /\ rejecting'[c] = 2 =>
                           \E g \in heard' \cup owed' : /\ g.kind = "job_ack"
                                                       /\ g.corr = Head(intakeQ'[c]).corr
                                                       /\ g.attempt = Head(intakeQ'[c]).attempt
    BY DEF RejectsBacked, Receipted
  <2>1. Follows(c)
    BY <1>1, StepFollows DEF ThreadInv
  <2>2. PICK m : m = Head(intakeQ[c])
    OBVIOUS
  <2>3. intakeQ'[c] # <<>> /\ Head(intakeQ'[c]) = m
    BY <2>1, <2>2 DEF Follows
  <2>4. CASE rejecting[c] = 2
    <3>1. \E g \in heard \cup owed : g.kind = "job_ack" /\ g.corr = m.corr /\ g.attempt = m.attempt
      BY <1>1, <2>2, <2>4 DEF RejectsBacked, Receipted
    <3> QED BY <1>3, <2>3, <3>1
  <2>5. CASE \E g \in owed' : g.kind = "job_ack" /\ g.corr = m.corr /\ g.attempt = m.attempt
    BY <2>3, <2>5
  <2> QED BY <2>1, <2>2, <2>3, <2>4, <2>5 DEF Follows
<1>6. ResultsBacked'
  <2> SUFFICES ASSUME NEW f \in Elems(outbox'), f.kind = "result"
               PROVE  \E g \in heard' \cup owed' : IsReceiptOf(g, f) /\ Older(g, f)
    BY DEF ResultsBacked, Elems, IsReceiptOf, Older
  <2>1. CASE f \in Elems(outbox)
    BY <1>1, <1>3, <2>1 DEF ResultsBacked
  <2>2. CASE f \notin Elems(outbox)
    <3>1. NextName(f) /\ Receipted(f.corr, f.attempt)
      BY <1>2, <2>2 DEF Receipts, NewResults, BackedResults
    <3>2. PICK g \in heard \cup owed : g.kind = "job_ack" /\ g.corr = f.corr /\ g.attempt = f.attempt
      BY <3>1 DEF Receipted
    <3>3. OlderThan(g, nextSeq)
      BY DEF OwedInv, Covers, NamesInv, NamesHold, Sent
    <3>4. IsReceiptOf(g, f) /\ Older(g, f)
      BY <3>1, <3>2, <3>3 DEF NextName, OlderThan, Older, IsReceiptOf
    <3> QED BY <1>3, <3>4
  <2> QED BY <2>1, <2>2
<1> QED BY <1>2, <1>4, <1>5, <1>6 DEF Receipts

LEMMA ReceiptInvHolds == StreamSpec => []ReceiptInv
<1>1. StreamInit => ReceiptInv
  <2>1. Elems(<<>>) = {}
    BY DEF Elems
  <2> QED BY <2>1 DEF StreamInit, FreshPod, FreshState, PodStarts, ReceiptInv, HeldBacked, RejectsBacked,
                      ResultsBacked, Mem
<1> QED BY <1>1, StepReceiptInv, ThreadsHold, StreamOwes, NamesInvHolds, AckInvHolds, PTL DEF StreamSpec

(* Until a write of the state file fails, no terminal is in the outbox      *)
(* without the receipt of its attempt before it, or already read, or in the *)
(* dead-letter: whatever is refused, replayed on another socket, rejected   *)
(* as undecodable, or cut by a restart.                                     *)
THEOREM ReceiptsComeFirst == StreamSpec => [](faults = 0 => ReceiptPrecedesResult)
<1>1. TypeOK /\ OwedInv /\ OrderInv /\ ReceiptInv => (faults = 0 => ReceiptPrecedesResult)
  <2> SUFFICES ASSUME TypeOK, OwedInv, OrderInv, ReceiptInv, faults = 0,
                      NEW i \in DOMAIN outbox, outbox[i].kind = "result"
               PROVE  \/ \E f \in heard \cup rejected : IsReceiptOf(f, outbox[i])
                      \/ \E k \in 1..(i - 1) : IsReceiptOf(outbox[k], outbox[i])
    BY DEF ReceiptPrecedesResult
  <2>1. outbox \in Seq(FrameType) /\ outbox[i] \in Elems(outbox) /\ DOMAIN outbox = 1..Len(outbox)
        /\ Len(outbox) \in Nat
    BY DEF TypeOK, FileType, Mem, Elems
  <2>2. PICK g \in heard \cup owed : IsReceiptOf(g, outbox[i]) /\ Older(g, outbox[i])
    BY <2>1 DEF ReceiptInv, ResultsBacked
  <2>3. g \in heard \cup rejected \/ g \in Elems(outbox)
    BY DEF OwedInv, Covers, Holds, Mem
  <2>4. CASE g \in Elems(outbox)
    <3>1. PICK k \in DOMAIN outbox : g = outbox[k]
      BY <2>4 DEF Elems
    <3>2. ~IsBoot(outbox[i]) /\ ~IsBoot(outbox[k]) /\ i # k
      BY <2>2, <3>1 DEF IsReceiptOf, IsBoot, BootKinds
    <3>3. /\ outbox[i].stream \in Nat /\ outbox[i].seq \in Nat
          /\ outbox[k].stream \in Nat /\ outbox[k].seq \in Nat
      BY <2>1, <3>1, ElemsAreFrames
    <3>4. ~Older(outbox[i], outbox[k])
      BY <2>2, <3>1, <3>3 DEF Older
    <3>5. ~(i < k)
      BY <3>1, <3>2, <3>4 DEF OrderInv, Ordered, Before
    <3>6. k \in 1..(i - 1)
      BY <2>1, <3>1, <3>2, <3>5
    <3> QED BY <2>2, <3>1, <3>6
  <2> QED BY <2>2, <2>3, <2>4
<1>2. StreamSpec => []OrderInv
  BY ThreadsRefine, OrderInvHolds, PTL DEF DurableHandlers
<1> QED BY <1>1, <1>2, ThreadsHold, StreamOwes, ReceiptInvHolds, PTL
=============================================================================
