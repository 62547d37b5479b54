---------------------------- MODULE EventStream ----------------------------
(***************************************************************************)
(* podagent's EventStream with its threads and its peer: the sender loop,  *)
(* one reader and one intake thread per socket, the claimer (main's        *)
(* readiness report, then its dispatch loop), the workers, the sockets and *)
(* the control plane. The durable handlers are those of StreamState; each  *)
(* step here is one of them, or leaves the durable half alone.             *)
(*                                                                         *)
(* The control plane is external: it acknowledges each frame it reads with *)
(* one of the verdicts `_classify_verdict` tells apart, delivers a job on  *)
(* every socket until that job's terminal is committed, and may give a job *)
(* it took away back under a new attempt.                                  *)
(***************************************************************************)
EXTENDS StreamState

CONSTANTS
  InvalidJobs,   \* jobs whose frame the pod's wire model cannot decode
  AckWindow,     \* ACK_WINDOW
  MaxReopens,    \* MAX_REOPENS
  PendingCap,    \* DELIVERY_PENDING_MAX_ATTEMPTS
  MaxConns,      \* bound: sockets opened
  MaxTrouble,    \* bound: failures of the network and retryable answers
  MaxRefusals,   \* bound: permanent refusals by the control plane
  MaxEvents      \* bound: progress events of workers

ASSUME StreamAssumption ==
  /\ InvalidJobs \subseteq Jobs
  /\ {AckWindow, MaxReopens, PendingCap, MaxConns, MaxTrouble, MaxRefusals, MaxEvents} \subseteq Nat

VARIABLES
  \* sockets
  conn,        \* _conn: the live socket, 0 for None
  conns,       \* sockets opened so far
  up, down,    \* frames in flight to and from the control plane, per socket
  reading,     \* sockets whose reader thread still runs
  intakeQ,     \* per socket, what its reader deferred to its intake
  intakeDead,  \* sockets whose intake has ended
  rejecting,   \* steps done of _reject_invalid_job on the intake's head item, per socket
  received,    \* _intake_received
  done,        \* _intake_done
  lastClose,   \* _last_close is set
  opening,     \* who holds _open_lock, and the step it has reached
  \* the sender
  spc,         \* where the sender loop stands
  pending,     \* the frames _deliver_window still has to settle
  tries,       \* its attempt counter
  attempted,   \* keys of this cycle's window
  onWire,      \* socket of the window being exchanged, 0 for none
  acks,        \* _acks of that window
  known,       \* verdicts not settled yet
  cur,         \* the verdict being settled
  wired,       \* keys of _wire_attempts
  cycles,      \* _pending_settlement_attempts, as the set of <<key, n>>
  \* the claimer and the control plane
  cpc,         \* where main's claiming thread stands
  assigned,    \* attempt the control plane holds the pod to, 0 for none
  lastAttempt, \* the newest attempt it made
  committed,   \* jobs whose terminal it has committed
  heard,       \* frames it has read
  offered,     \* <<socket, job, attempt>> it has sent
  trouble, refusals, events  \* spent bounds

connVars   == <<conn, conns, up, down, reading, lastClose>>
intakeVars == <<intakeQ, intakeDead, rejecting, received, done>>
senderVars == <<spc, pending, tries, attempted, onWire, acks, known, cur, wired, cycles>>
cpVars     == <<assigned, lastAttempt, committed, heard, offered>>
bounds     == <<trouble, refusals, events>>
podVars    == <<connVars, intakeVars, opening, senderVars, cpc>>
vars       == <<stateVars, podVars, cpVars, bounds>>

-----------------------------------------------------------------------------
(* Messages, verdicts and small helpers *)

Sockets     == 1..MaxConns
NoOpen      == [who |-> "none", step |-> "none"]
JobItem(j, a)     == [type |-> "job", corr |-> j, attempt |-> a]
VerdictItem       == [type |-> "verdict"]
Ack(key, verdict) == [type |-> "ack", key |-> key, verdict |-> verdict]

Keys(s)        == {Key(f) : f \in Elems(s)}
Judged         == {k.key : k \in known}
MarkOf(ack)    == [key |-> ack.key, verdict |-> ack.verdict, mark |-> received]
JobsIn(q)     == {i \in DOMAIN q : q[i].type = "job"}

(* Mutant of Classify: a conflict is taken for an acknowledgement. *)
AcceptsConflict(f, answer) == IF answer[1] \in {200, 409} THEN "accepted" ELSE "retry"

(* _classify_verdict over <<status, error text>>; "retry" is its None. *)
Answers == {<<200, "ok">>, <<403, "not owned">>, <<403, "one frame">>, <<403, "other">>,
            <<409, "one frame">>, <<409, "other">>, <<422, "invalid">>, <<503, "busy">>}
Classify(f, answer) ==
  LET status == answer[1]
      text   == answer[2]
  IN CASE status = 200 -> "accepted"
       [] IsReport(f) /\ status \in {403, 409, 422} -> "one_frame"
       [] ~IsReport(f) /\ text = "not owned" -> "reassigned"
       [] ~IsReport(f) /\ text = "one frame" -> "one_frame"
       [] ~IsReport(f) /\ status = 403 /\ text = "other" -> "rejected"
       [] ~IsReport(f) /\ status = 422 -> IF IsBoot(f) THEN "rejected" ELSE "one_frame"
       [] OTHER -> "retry"

(* _fail_connection: only the close of the live socket is recorded. *)
FailsConn(c) ==
  /\ conn' = IF conn = c THEN 0 ELSE conn
  /\ lastClose' = (lastClose \/ conn = c)

-----------------------------------------------------------------------------
(* _ensure_open, under _open_lock, by the sender or by the claimer *)

OpenStarts(who) ==
  /\ conn = 0 /\ opening = NoOpen
  /\ opening' = [who |-> who, step |-> "connect"]
  /\ UNCHANGED <<stateVars, connVars, intakeVars, senderVars, cpc, cpVars, bounds>>

OpenConnects ==
  /\ opening.step = "connect" /\ conns < MaxConns
  /\ SocketOpened
  /\ conns' = conns + 1 /\ conn' = conns + 1
  /\ opening' = [opening EXCEPT !.step = "boot"]
  /\ UNCHANGED <<up, down, reading, lastClose, intakeVars, senderVars, cpc, cpVars, bounds>>

(* What a False costs its caller: an attempt of the sender, the claim. *)
AfterAttempt(left) == IF left = <<>> \/ tries >= MaxReopens THEN "settle" ELSE "deliver"

OpenReturnsFalse ==
  /\ opening' = NoOpen
  /\ IF opening.who = "sender"
     THEN tries' = tries + 1 /\ spc' = AfterAttempt(pending) /\ UNCHANGED cpc
     ELSE cpc' = "refused" /\ UNCHANGED <<tries, spc>>
  /\ UNCHANGED <<pending, attempted, onWire, acks, known, cur, wired, cycles>>

OpenRefused ==
  /\ opening.step = "connect" /\ trouble < MaxTrouble
  /\ trouble' = trouble + 1
  /\ OpenReturnsFalse
  /\ UNCHANGED <<stateVars, connVars, intakeVars, cpVars, refusals, events>>

ReadyPending == \E f \in Elems(outbox) : f.kind = "ready"

(* Mutant of OpenBootstraps: readiness is sent before main announced it. *)
GreetsUnannounced ==
  /\ opening.step = "boot"
  /\ IF ~ReadyPending THEN HeadAppended("ready") /\ UNCHANGED bootstrap ELSE UNCHANGED stateVars
  /\ opening' = [opening EXCEPT !.step = "report"]
  /\ UNCHANGED <<connVars, intakeVars, senderVars, cpc, cpVars, bounds>>

OpenBootstraps ==
  /\ opening.step = "boot"
  /\ IF bootstrap /\ ~ReadyPending
     THEN HeadAppended("ready") /\ UNCHANGED bootstrap
     ELSE UNCHANGED stateVars
  /\ opening' = [opening EXCEPT !.step = "report"]
  /\ UNCHANGED <<connVars, intakeVars, senderVars, cpc, cpVars, bounds>>

OpenBootstrapFails ==
  /\ opening.step = "boot" /\ bootstrap /\ ~ReadyPending
  /\ HeadAppendFails("ready") /\ UNCHANGED bootstrap
  /\ FailsConn(conn)
  /\ OpenReturnsFalse
  /\ UNCHANGED <<conns, up, down, reading, intakeVars, cpVars, bounds>>

(* _install_reopen_report, whose failure is swallowed; then the reader. *)
OpenReports ==
  /\ opening.step = "report"
  /\ \/ lastClose /\ (HeadAppended("reopen") \/ HeadAppendFails("reopen")) /\ UNCHANGED bootstrap
     \/ ~lastClose /\ UNCHANGED stateVars
  /\ lastClose' = FALSE
  /\ reading' = reading \cup {conn}
  /\ opening' = NoOpen
  /\ cpc' = IF opening.who = "claim" THEN "take" ELSE cpc
  /\ UNCHANGED <<conn, conns, up, down, intakeVars, senderVars, cpVars, bounds>>

Opening ==
  \/ OpenConnects \/ OpenRefused \/ OpenBootstraps \/ OpenBootstrapFails \/ OpenReports

-----------------------------------------------------------------------------
(* _sender_loop *)

WindowOf(box) == SubSeq(box, 1, IF Len(box) < AckWindow THEN Len(box) ELSE AckWindow)

(* The comprehension `[f for f in s if key(f) not in keys]`. *)
Without(s, keys) == Kept(s, {i \in DOMAIN s : Key(s[i]) \notin keys})

SenderSlices ==
  /\ spc = "idle" /\ outbox # <<>>
  /\ \E unsent \in Without(WindowOf(outbox), Judged) :
       /\ pending' = unsent /\ attempted' = Keys(unsent) /\ tries' = 0
       /\ spc' = IF unsent = <<>> THEN "settle" ELSE "deliver"
  /\ UNCHANGED <<stateVars, connVars, intakeVars, opening, onWire, acks, known, cur, wired,
                 cycles, cpc, cpVars, bounds>>

SenderOpens == spc = "deliver" /\ OpenStarts("sender")

(* The reopen report, then readiness, go first even when they were put at   *)
(* the outbox head after the window was sliced.                             *)
FramesAt(seq) == Kept(outbox, {i \in DOMAIN outbox : Key(outbox[i]) = <<stream, seq>>})
HeadFrames    == {reopen \o ready : reopen \in FramesAt(pendingReopen), ready \in FramesAt(pendingBoot)}
HeadsFirst(win) == UNION {{heads \o rest : rest \in Without(win, Keys(heads))} : heads \in HeadFrames}

SenderWrites ==
  /\ spc = "deliver" /\ conn # 0 /\ opening = NoOpen
  /\ spc' = "exchange" /\ onWire' = conn /\ acks' = {}
  /\ \E win \in HeadsFirst(pending) :
       /\ pending' = win
       /\ wired' = wired \cup Keys(win)
       /\ up' = [up EXCEPT ![conn] = @ \o win]
  /\ UNCHANGED <<stateVars, conn, conns, down, reading, lastClose, intakeVars, opening, tries,
                 attempted, known, cur, cycles, cpc, cpVars, bounds>>

(* _exchange_window ends: every frame is acknowledged, the socket is gone,  *)
(* or nothing has happened for FRAME_WALL_S.                                *)
SenderCollects ==
  LET got     == {a \in acks : a.verdict # "retry"}
      missing == Keys(pending) # {a.key : a \in acks}
  IN /\ spc = "exchange"
     /\ \/ (conn # onWire \/ ~missing) /\ UNCHANGED trouble
        \/ conn = onWire /\ missing /\ trouble < MaxTrouble /\ trouble' = trouble + 1
     /\ IF missing THEN FailsConn(onWire) ELSE UNCHANGED <<conn, lastClose>>
     /\ known' = {k \in known : \A a \in got : a.key # k.key} \cup got
     /\ \E left \in Without(pending, {a.key : a \in got}) :
          pending' = left /\ tries' = tries + 1 /\ spc' = AfterAttempt(left)
     /\ onWire' = 0 /\ acks' = {}
     /\ UNCHANGED <<stateVars, conns, up, down, reading, intakeVars, opening, attempted, cur, wired,
                    cycles, cpc, cpVars, refusals, events>>

(* The head has a verdict: settle it, in outbox order. *)
HeadJudged == outbox # <<>> /\ Key(Head(outbox)) \in Judged

SenderPicks ==
  /\ spc = "settle" /\ HeadJudged
  /\ \E k \in known :
       /\ k.key = Key(Head(outbox))
       /\ cur' = [frame |-> Head(outbox), verdict |-> k.verdict, mark |-> k.mark, then |-> "settle"]
  /\ spc' = "apply"
  /\ UNCHANGED <<stateVars, connVars, intakeVars, opening, pending, tries, attempted, onWire, acks,
                 known, wired, cycles, cpc, cpVars, bounds>>

(* The head has none: an undelivered report is dropped, any other frame of *)
(* this cycle's window is pending, or dead-lettered at the cap.             *)
CyclesOf(key) == IF \E p \in cycles : p[1] = key
                 THEN (CHOOSE p \in cycles : p[1] = key)[2] ELSE 0

SenderEnds ==
  LET head == Head(outbox)
      key  == Key(head)
      n    == CyclesOf(key) + 1
  IN /\ (spc = "settle" /\ ~HeadJudged) \/ spc = "leftover"
     /\ CASE outbox # <<>> /\ IsReport(head) /\ key \in attempted \cup wired ->
               /\ cur' = [frame |-> head, verdict |-> "abandoned", mark |-> 0, then |-> "leftover"]
               /\ spc' = "apply" /\ UNCHANGED cycles
          [] outbox # <<>> /\ ~(IsReport(head) /\ key \in attempted \cup wired)
             /\ key \in attempted ->
               /\ cur' = [frame |-> head, mark |-> 0, then |-> "idle",
                          verdict |-> IF n > PendingCap THEN "abandoned" ELSE "pending"]
               /\ cycles' = {p \in cycles : p[1] # key} \cup {<<key, n>>}
               /\ spc' = "apply"
          [] OTHER -> spc' = "idle" /\ UNCHANGED <<cur, cycles>>
     /\ UNCHANGED <<stateVars, connVars, intakeVars, opening, pending, tries, attempted, onWire,
                    acks, known, wired, cpc, cpVars, bounds>>

(* main's _report_ready waits for the verdict on the frame it announced. *)
Reported(verdict) ==
  IF cpc # "ready" \/ cur.frame.kind # "ready" THEN cpc
  ELSE CASE verdict = "accepted"  -> "poll"
         [] verdict = "pending"   -> "ready"
         [] verdict = "abandoned" -> "boot"
         [] OTHER -> "exit"

(* Mutant of IntakeReached: waits for one job more than was read. *)
WaitsOneMore == cur.mark = 0 \/ conn = 0 \/ done > cur.mark

(* _await_intake, then _settle. *)
IntakeReached == cur.mark = 0 \/ conn = 0 \/ done >= cur.mark

SenderSettles ==
  LET key == Key(cur.frame)
  IN /\ spc = "apply" /\ IntakeReached
     /\ Settled(cur.frame, cur.verdict) \/ ReleaseNotSaved(cur.frame, cur.verdict)
     /\ spc' = cur.then
     /\ known' = {k \in known : k.key # key}
     /\ IF cur.verdict = "pending"
        THEN UNCHANGED <<wired, cycles>>
        ELSE wired' = wired \ {key} /\ cycles' = {p \in cycles : p[1] # key}
     /\ cpc' = Reported(cur.verdict)
     /\ UNCHANGED <<connVars, intakeVars, opening, pending, tries, attempted, onWire, acks, cur,
                    cpVars, bounds>>

SenderSettleFails ==
  /\ spc = "apply" /\ IntakeReached
  /\ SettleFails(cur.frame, cur.verdict)
  /\ spc' = "idle"
  /\ known' = {IF k.key = Key(cur.frame) THEN [k EXCEPT !.mark = 0] ELSE k : k \in known}
  /\ cpc' = Reported("failed")
  /\ UNCHANGED <<connVars, intakeVars, opening, pending, tries, attempted, onWire, acks, cur, wired,
                 cycles, cpVars, bounds>>

Sender ==
  \/ SenderSlices \/ SenderOpens \/ SenderWrites \/ SenderCollects
  \/ SenderPicks \/ SenderEnds \/ SenderSettles \/ SenderSettleFails

-----------------------------------------------------------------------------
(* _read_frames: jobs go to the socket's intake in arrival order; an ack is *)
(* kept for the window in flight, with the count of jobs read before it.    *)

ReaderReads(c) ==
  LET m == Head(down[c])
  IN /\ c \in reading /\ down[c] # <<>>
     /\ down' = [down EXCEPT ![c] = Tail(@)]
     /\ \/ /\ m.type = "job"
           /\ IF c \in intakeDead
              THEN UNCHANGED <<intakeQ, received>>
              ELSE received' = received + 1 /\ intakeQ' = [intakeQ EXCEPT ![c] = Append(@, m)]
           /\ UNCHANGED <<conn, lastClose, reading, acks>>
        \/ /\ m.type = "ack" /\ conn = c /\ m.key \in Keys(pending) /\ onWire # 0
           /\ acks' = {a \in acks : a.key # m.key} \cup {MarkOf(m)}
           /\ intakeQ' = IF m.verdict = "rejected"
                         THEN [intakeQ EXCEPT ![c] = Append(@, VerdictItem)] ELSE intakeQ
           /\ UNCHANGED <<conn, lastClose, reading, received>>
        \/ /\ m.type = "ack" /\ (conn # c \/ m.key \notin Keys(pending) \/ onWire = 0)
           /\ FailsConn(c)
           /\ reading' = reading \ {c}
           /\ UNCHANGED <<intakeQ, received, acks>>
     /\ UNCHANGED <<stateVars, conns, up, intakeDead, rejecting, done, opening, spc, pending, tries,
                    attempted, onWire, known, cur, wired, cycles, cpc, cpVars, bounds>>

(* recv raises: the peer closed the live socket, or it was shut down here. *)
ReaderEnds(c) ==
  /\ c \in reading
  /\ IF conn = c THEN trouble < MaxTrouble /\ trouble' = trouble + 1 ELSE UNCHANGED trouble
  /\ FailsConn(c)
  /\ reading' = reading \ {c}
  /\ down' = [down EXCEPT ![c] = <<>>]
  /\ UNCHANGED <<stateVars, conns, up, intakeVars, opening, senderVars, cpc, cpVars, refusals, events>>

-----------------------------------------------------------------------------
(* _deferred_loop *)

IntakeHas(c, type) == intakeQ[c] # <<>> /\ Head(intakeQ[c]).type = type

IntakeNext(c) ==
  /\ intakeQ' = [intakeQ EXCEPT ![c] = Tail(@)]
  /\ rejecting' = [rejecting EXCEPT ![c] = 0]
  /\ UNCHANGED <<intakeDead, received, conn, lastClose>>

(* Its handler raised: the socket fails, and the jobs this intake will now  *)
(* never handle stop holding the sender.                                    *)
IntakeDies(c) ==
  /\ done' = done + Cardinality(JobsIn(intakeQ[c]))
  /\ intakeQ' = [intakeQ EXCEPT ![c] = <<>>]
  /\ rejecting' = [rejecting EXCEPT ![c] = 0]
  /\ intakeDead' = intakeDead \cup {c}
  /\ FailsConn(c)
  /\ UNCHANGED received

IntakeRest == <<conns, up, down, reading, opening, senderVars, cpc, cpVars, bounds>>

IntakeLatches(c) ==
  /\ IntakeHas(c, "verdict")
  /\ LatchVerdict
  /\ IntakeNext(c) /\ UNCHANGED done
  /\ UNCHANGED IntakeRest

IntakeAccepts(c) ==
  LET j == Head(intakeQ[c]).corr
      a == Head(intakeQ[c]).attempt
  IN /\ IntakeHas(c, "job") /\ j \notin InvalidJobs
     /\ Deduplicated(j, a) \/ JobAccepted(j, a)
     /\ IntakeNext(c) /\ done' = done + 1
     /\ UNCHANGED IntakeRest

AdmissionRefuses(j) ==
  /\ j \notin ResultCorrs(Mem) /\ inbox[j] = 0 /\ adm.err \notin {"none", "pending"}
  /\ UNCHANGED stateVars

IntakeRaises(c) ==
  LET j == Head(intakeQ[c]).corr
      a == Head(intakeQ[c]).attempt
  IN /\ IntakeHas(c, "job") /\ j \notin InvalidJobs
     /\ JobNotSaved(j, a) \/ ReceiptNotSaved(j, a) \/ JobConflicts(j, a) \/ AdmissionRefuses(j)
     /\ IntakeDies(c)
     /\ UNCHANGED IntakeRest

(* _reject_invalid_job: the event, the receipt, then the error terminal; or *)
(* only a fresh receipt when the terminal is already held.                  *)
Replayed(c) == rejecting[c] = 0 /\ Head(intakeQ[c]).corr \in ResultCorrs(Mem)
RejectKind(c) ==
  CASE rejecting[c] = 0 -> IF Replayed(c) THEN "job_ack" ELSE "event"
    [] rejecting[c] = 1 -> "job_ack"
    [] rejecting[c] = 2 -> "result"

IntakeRejects(c) ==
  LET j    == Head(intakeQ[c]).corr
      a    == Head(intakeQ[c]).attempt
      kind == RejectKind(c)
  IN /\ IntakeHas(c, "job") /\ j \in InvalidJobs
     /\ \/ kind = "event" /\ InvalidEvent(j)
        \/ kind = "job_ack" /\ InvalidReceipt(j, a)
        \/ kind = "result" /\ InvalidResult(j, a)
     /\ IF Replayed(c) \/ kind = "result"
        THEN IntakeNext(c) /\ done' = done + 1
        ELSE /\ rejecting' = [rejecting EXCEPT ![c] = @ + 1]
             /\ UNCHANGED <<intakeQ, intakeDead, received, done, conn, lastClose>>
     /\ UNCHANGED IntakeRest

IntakeRejectFails(c) ==
  /\ IntakeHas(c, "job") /\ Head(intakeQ[c]).corr \in InvalidJobs
  /\ InvalidUnanswered(RejectKind(c), Head(intakeQ[c]).corr, Head(intakeQ[c]).attempt)
  /\ IntakeDies(c)
  /\ UNCHANGED IntakeRest

Intake(c) ==
  \/ IntakeLatches(c) \/ IntakeAccepts(c) \/ IntakeRaises(c)
  \/ IntakeRejects(c) \/ IntakeRejectFails(c)

-----------------------------------------------------------------------------
(* main's claiming thread and the workers it starts *)

OthersClaim == <<connVars, intakeVars, opening, senderVars, cpVars, bounds>>

MainAnnounces ==
  /\ cpc = "boot"
  /\ \/ AnnounceReady /\ cpc' = "ready"
     \/ AnnounceReadyFails /\ cpc' = "exit"
  /\ UNCHANGED OthersClaim

(* claim(): admission is checked on entry, before the socket. *)
ClaimOpens   == cpc = "poll" /\ adm.err = "none" /\ OpenStarts("claim")

ClaimEnters ==
  /\ cpc = "poll" /\ adm.err = "none" /\ conn # 0 /\ opening = NoOpen
  /\ cpc' = "take"
  /\ UNCHANGED <<stateVars, OthersClaim>>

ClaimRefused == cpc = "refused" /\ LatchPending /\ cpc' = "poll" /\ UNCHANGED OthersClaim

ClaimTakes ==
  /\ cpc = "take"
  /\ \E j \in Jobs :
       \/ ClaimJob(j) /\ cpc' = "poll"
       \/ ClaimSkips(j) /\ cpc' = IF adm.err = "none" THEN "take" ELSE "poll"
  /\ UNCHANGED OthersClaim

(* The wall passes, or a latch wakes the claim, which raises. *)
ClaimReturns ==
  /\ cpc = "take" /\ (jobsQ = <<>> \/ adm.err # "none")
  /\ cpc' = "poll"
  /\ UNCHANGED <<stateVars, OthersClaim>>

Claimer == MainAnnounces \/ ClaimOpens \/ ClaimEnters \/ ClaimRefused \/ ClaimTakes \/ ClaimReturns

Worker(j) ==
  /\ \/ events < MaxEvents /\ WorkerEvent(j) /\ events' = events + 1
     \/ (WorkerResult(j) \/ WorkerAborts(j)) /\ UNCHANGED events
  /\ UNCHANGED <<podVars, cpVars, trouble, refusals>>

-----------------------------------------------------------------------------
(* The control plane *)

CpAssigns(j) ==
  /\ assigned[j] = 0 /\ j \notin committed /\ lastAttempt[j] < MaxAttempt
  /\ assigned' = [assigned EXCEPT ![j] = lastAttempt[j] + 1]
  /\ lastAttempt' = [lastAttempt EXCEPT ![j] = @ + 1]
  /\ UNCHANGED <<stateVars, podVars, committed, heard, offered, bounds>>

CpSendsJob(j) ==
  /\ conn # 0 /\ assigned[j] # 0 /\ <<conn, j, assigned[j]>> \notin offered
  /\ down' = [down EXCEPT ![conn] = Append(@, JobItem(j, assigned[j]))]
  /\ offered' = offered \cup {<<conn, j, assigned[j]>>}
  /\ UNCHANGED <<stateVars, conn, conns, up, reading, lastClose, intakeVars, opening, senderVars, cpc,
                 assigned, lastAttempt, committed, heard, bounds>>

(* A receipt or a result of an attempt it does not hold the pod to is never *)
(* accepted; "not owned" is an answer to receipts only.                     *)
Stale(f) == /\ f.kind \in {"job_ack", "result"}
            /\ assigned[f.corr] # f.attempt /\ f.corr \notin committed
Plausible(f, answer) ==
  /\ answer[2] = "not owned" => f.kind = "job_ack"
  /\ answer[1] = 200 => ~Stale(f)

Cost(verdict, f) ==
  CASE verdict = "retry" -> trouble' = trouble + 1 /\ UNCHANGED refusals
    [] verdict \in Refusals /\ ~Stale(f) -> refusals' = refusals + 1 /\ UNCHANGED trouble
    [] OTHER -> UNCHANGED <<trouble, refusals>>

CpReads(c) ==
  LET f == Head(up[c])
  IN /\ up[c] # <<>>
     /\ up' = [up EXCEPT ![c] = Tail(@)]
     /\ \E answer \in Answers :
          LET verdict == Classify(f, answer)
              owner   == f.kind = "job_ack" /\ assigned[f.corr] = f.attempt
          IN /\ Plausible(f, answer)
             /\ Cost(verdict, f) /\ trouble' <= MaxTrouble /\ refusals' <= MaxRefusals
             /\ committed' = IF answer[1] = 200 /\ f.kind = "result"
                             THEN committed \cup {f.corr} ELSE committed
             /\ assigned' = IF (answer[1] = 200 /\ f.kind = "result")
                               \/ (answer[2] = "not owned" /\ owner)
                            THEN [assigned EXCEPT ![f.corr] = 0] ELSE assigned
             /\ down' = IF conn = c
                        THEN [down EXCEPT ![c] = Append(@, Ack(Key(f), verdict))] ELSE down
     /\ heard' = heard \cup {f}
     /\ UNCHANGED <<stateVars, conn, conns, reading, lastClose, intakeVars, opening, senderVars, cpc,
                    lastAttempt, offered, events>>

(* What a dead socket still carried is lost. *)
NetDrops(c) ==
  /\ conn # c /\ up[c] # <<>>
  /\ up' = [up EXCEPT ![c] = <<>>]
  /\ UNCHANGED <<stateVars, conn, conns, down, reading, lastClose, intakeVars, opening, senderVars,
                 cpc, cpVars, bounds>>

ControlPlane == (\E j \in Jobs : CpAssigns(j) \/ CpSendsJob(j)) \/ \E c \in Sockets : CpReads(c)

-----------------------------------------------------------------------------
Fresh == [c \in Sockets |-> <<>>]
NoCur   == [frame |-> [stream |-> 0, seq |-> 0, kind |-> "event", corr |-> NoJob, attempt |-> 0],
            verdict |-> "pending", mark |-> 0, then |-> "idle"]

PodStarts ==
  /\ conn = 0 /\ down = Fresh /\ reading = {} /\ lastClose = FALSE
  /\ intakeQ = Fresh /\ intakeDead = {} /\ rejecting = [c \in Sockets |-> 0]
  /\ received = 0 /\ done = 0
  /\ opening = NoOpen
  /\ spc = "idle" /\ pending = <<>> /\ tries = 0 /\ attempted = {} /\ onWire = 0 /\ acks = {}
  /\ known = {} /\ cur = NoCur /\ wired = {} /\ cycles = {}
  /\ cpc = "boot"

PodRestarts ==
  /\ Restart
  /\ conn' = 0 /\ down' = Fresh /\ reading' = {} /\ lastClose' = FALSE
  /\ intakeQ' = Fresh /\ intakeDead' = {} /\ rejecting' = [c \in Sockets |-> 0]
  /\ received' = 0 /\ done' = 0
  /\ opening' = NoOpen
  /\ spc' = "idle" /\ pending' = <<>> /\ tries' = 0 /\ attempted' = {} /\ onWire' = 0 /\ acks' = {}
  /\ known' = {} /\ cur' = NoCur /\ wired' = {} /\ cycles' = {}
  /\ cpc' = "boot"
  /\ UNCHANGED <<conns, up, cpVars, bounds>>

\* A process with nothing behind it, when the control plane has made the
\* attempts `made` of each job and part of the bounds is spent.
FreshPod(life, sockets, made, spent) ==
  /\ FreshState(life) /\ PodStarts
  /\ conns = sockets /\ up = Fresh
  /\ assigned = [j \in Jobs |-> 0] /\ lastAttempt = made
  /\ committed = {} /\ heard = {} /\ offered = {}
  /\ trouble = spent.trouble /\ refusals = spent.refusals /\ events = spent.events

StreamInit == FreshPod(1, 0, [j \in Jobs |-> 0], [trouble |-> 0, refusals |-> 0, events |-> 0])

StreamNext ==
  \/ Opening \/ Sender \/ Claimer \/ ControlPlane \/ PodRestarts
  \/ \E j \in Jobs : Worker(j)
  \/ \E c \in Sockets : ReaderReads(c) \/ ReaderEnds(c) \/ Intake(c) \/ NetDrops(c)

StreamSpec == StreamInit /\ [][StreamNext]_vars

(* Every thread of the pod runs, sockets deliver, and the control plane     *)
(* reads, answers and hands out work. Trouble and refusals are bounded, so  *)
(* what is left is a healthy network and a control plane that accepts.      *)
Fairness ==
  /\ WF_vars(Opening) /\ WF_vars(Sender) /\ WF_vars(Claimer)
  /\ \A j \in Jobs : WF_vars(Worker(j)) /\ WF_vars(CpAssigns(j)) /\ WF_vars(CpSendsJob(j))
  /\ \A c \in Sockets : WF_vars(ReaderReads(c)) /\ WF_vars(Intake(c)) /\ WF_vars(CpReads(c))

FairStreamSpec == StreamSpec /\ Fairness

-----------------------------------------------------------------------------
(* Properties *)

(* Every step of the threads, the sockets and the control plane is a step   *)
(* of the durable half's specification, or leaves it alone: what a thread   *)
(* decided before it took the lock is still legal when it acts on it.       *)
DurableHandlers == Spec

(* One stream_id and seq never name two frames: not in what the control     *)
(* plane has read, not next to what memory, or the file after a failed      *)
(* write, still holds, although a failed append hands its seq out again.    *)
OneFramePerIdentity ==
  \A d \in {Mem, disk} : \A f, g \in heard \cup Holds(d) : Key(f) = Key(g) => f = g

(* "The receipt must precede the terminal on the outbox": wherever a result *)
(* stands, the receipt of its attempt stands before it or was read already. *)
IsReceiptOf(f, g) == f.kind = "job_ack" /\ f.corr = g.corr /\ f.attempt = g.attempt
ReceiptPrecedesResult ==
  \A i \in DOMAIN outbox : outbox[i].kind = "result" =>
    \/ \E f \in heard \cup rejected : IsReceiptOf(f, outbox[i])
    \/ \E k \in 1..(i - 1) : IsReceiptOf(outbox[k], outbox[i])

(* "If it is still sitting UNCLAIMED": whatever order receipts are refused, *)
(* replayed and claimed in, no job is released under its worker before the  *)
(* control plane has committed a result of it. (After that a late replay    *)
(* may be, when a job runs twice: one worker's result takes the claim off   *)
(* the other as well.)                                                      *)
RunningIsNeverReleased ==
  [][\A j \in Jobs : inbox[j] # 0 /\ inbox'[j] = 0 /\ running[j] > 0 /\ stream' = stream
       => j \in ResultCorrs(Mem)' \cup committed]_vars

(* A result stops being owed only once the control plane has committed it. *)
AckedWasCommitted ==
  [][\A f \in owed \ owed' : f \in heard /\ (f.kind = "result" => f.corr \in committed)]_vars

(* "A frame leaves the active outbox, in order": however acks, retries and  *)
(* reopened sockets interleave, no frame overtakes one created before it.   *)
(* Readiness and reopen reports go to the head and are left out.            *)
RetiresInOrder ==
  [][\A f \in Elems(outbox) \ Elems(outbox') : \A g \in Elems(outbox') :
       ~IsBoot(f) /\ ~IsBoot(g) /\ f.stream = g.stream /\ stream' = stream => f.seq < g.seq]_vars

(* Every job the control plane assigns gets its terminal committed. *)
AssignedGetsCommitted == \A j \in Jobs : (assigned[j] # 0) ~> (j \in committed)

=============================================================================
