# Verification of the monty pod

TLA+ models of the monty-pod agent (`src/podagent`), the TLC runs that check
them on small instances, and TLAPS proofs of what matters most for every
instance. The pod is a worker on a rented GPU box: it dials out to a control
plane, receives render, inference and ops jobs over one WebSocket, executes
them in pools of threads, and answers with durable events and results. What is
hard to get right is everything around the work: an outbox that survives lost
sockets, failed writes and restarts; a card that heavy operations share; caches
on disk that threads and dead processes leave half written; transfers that
resume, retry and outlive the call that began them; a process that must stop,
or replace itself, in the middle of all that.

Line numbers below are those of the repository; `PROJECT.json` maps every
definition that models code to its lines.

## The system

| component | state it keeps | what is hard | what makes it correct | status |
|---|---|---|---|---|
| **event stream, durable half** (`event_stream.py`) | outbox, dead-letter, inbox, the state file, sequence numbers, admission latches, claim queue | every write may fail before or after the rename; a crash at any point; one latch displaces another | the next boot accepts the file; nothing owed is lost; a permanent verdict stays | modelled, proved |
| **event stream, threads** (`event_stream.py`, `main.py`) | live socket, window in flight, acks, intake queues, readiness | sender, claimer, and a reader and an intake per socket interleave; acks are lost with their socket; jobs are replayed on every socket | receipt before result; results retired in order and only when committed; what was assigned is committed | partly, proved |
| **dispatch loop, restart coordinator** (`main.py`) | two latches, futures of three pools, flip history | a latch trips while a claim is in flight; a bounded drain races with results | a latch is heard; a job is run, refused or held for the next boot, never dropped; no chain is left behind | modelled, proved |
| **boot preflight** (`main.py`) | liveness and restart marks, the environment, the ready frame | a process dies, is stopped, or replaces itself and hands its environment on | the beacon tells the truth; the pod serves in the environment it proved | modelled, proved |
| **driver userspace fetch** (`driver_userspace.py`) | the kept directory, range threads, their descriptor | threads outlive the call; the process dies between removal and rename | a directory that verifies is whole and stays; no write through a closed descriptor | modelled, proved |
| **ops runner** (`ops/runner.py`) | steps of each chain, permits, workers of the pack, PUT arms and drain | PUTs drain while the result is built; optional steps fail; several chains meet at the permits | a result names only what landed; a workspace outlives its transfers; chains end | partly, proved |
| **GPU admission ledger** (`ops/gpu_admission.py`) | FIFO of waiters, reservations, cached budget | a condition variable; a budget read outside the lock; deadlines | no lost wake-up; the card is not oversold; a priced deadline suffices | modelled, proved |
| **inference lanes and services** (`main.py`, `infer_lanes.py`, `infer_cliprank.py`) | caches of loaded services, load lock, lanes | two lanes miss one cache; a small card holds one kind; loads and forwards fail | one copy of the weights; lanes come back; a score is its tile's | modelled, proved |
| **input cache** (`ops/inputcache.py`) | object slots, retention markers, in-memory account | the account against the disk; an only copy among disposable ones; four writes per adoption | never stale; the only copy survives; the caps hold | modelled, proved |
| **result cache** (`ops/resultcache.py`) | a directory per key, a lock per key | prune removes a directory whose lock it does not hold | what is delivered is what the handler made | modelled, proved |
| **artifact cache** (`artifact.py`) | content-addressed trees | concurrent ranges and callers; a death before the rename | what is served is whole and stays | modelled, proved |
| **control-plane transfers** (`cp.py`) | temporary files, the store session, PUT rate and trace | the object changes between ranges; a straggler writes late; the pool is swapped under a PUT | one version in a file; every PUT accounted for | partly, proved |
| **origin limiter and fetch phase** (`originrule.py`, `infer_cliprank.py`) | limit, slots and hold per host; egress windows | the limit moves under held slots; redirects change the host; a verdict cancels siblings | slots are exact; a dead network is reported as such; the phase ends | partly, proved |
| ops pack and registry, align and face probe, dry ops, render, wire models, helpers, release tools | none across jobs, or loaded once | sequential, numerical or textual | | not modelled |

The control plane, the object store, the origins and the vendor's host are not
in the repository. They are modelled from how the code treats them and marked
external in the map.

How they interact. The boot preflight ends in a ready frame that opens
admission. The dispatch loop calls `claim`, which takes delivery ids the intake
queued; each job runs in the pool of its lane and reports through `send_event`
and `send_result`, which append to the outbox; the sender delivers the outbox
and settles the verdicts; a verdict may latch admission, which wakes and
refuses `claim`. A chain binds its inputs through the input cache, runs its
heavy steps under the GPU ledger, keeps results in the result cache, and PUTs
its outputs, or retains them on the box, from a drain. An inference request
fetches its images through the origin limiter and takes a lane of the card.

## The modules

| module | models | grain |
|---|---|---|
| `StreamState` | the durable half of the stream | one action per hold of the `_state` lock |
| `EventStream` | its threads, sockets and peer, over `StreamState` | one action per step of a thread between two waits |
| `Dispatch` | the loop, the pools and what follows them | as above; the stream is what the two modules above promise |
| `BootPreflight` | the boots of one container | one action per stage of the preflight |
| `DriverDirectory` | what the fetch promises the preflight | abstract |
| `DriverUserspace` | the fetch and its threads | implements `DriverDirectory` |
| `OpsChain` | `run_chain`, its steps, permits and drain | one action per stage of a step, an arm or a chain |
| `GpuAdmission` | the ledger | one action per lock hold, and the unlocked reads between |
| `InferServices` | `_run_infer` and `ClipRankService.run` | one action per stage of a request and of an image set |
| `ObjectStore` | what the input cache promises a chain | abstract |
| `InputCache` | slots, markers, account, walk | one action per change of the disk, the account or a lock; implements `ObjectStore` |
| `ResultCache` | one directory per key | likewise |
| `ArtifactCache` | one tree | one action per stage of a call or a range |
| `Download`, `Upload` | `cp.download`, `cp.upload` | one action per request, and per write of a range worker |
| `OriginFetch` | the images of one request | one action per stage of a fetch, and a clock |

`MC*` modules hold the bounds that a `.cfg` cannot write. Several of them join
modules that share no state in the program (`MCStores`, `MCTransfers`,
`MCExecutors`, `MCBoot`): the initial state picks which part a behaviour is about
and the others sleep, so that each part is explored in full and alone.
`MCStreamFaults` starts `EventStream` with part of its bounds spent, a different
part for each kind of trouble.

The theorems are in modules of their own: `EventStreamProofs` (`StreamState` and
`EventStream`), `DispatchProofs`, `GpuAdmissionProofs`, `InputCacheProofs`,
`StoresProofs` (`ResultCache`, `ArtifactCache`), `BootProofs` (`BootPreflight`,
`DriverUserspace`) and `WorkProofs` (`OpsChain`, `InferServices`, `Download`,
`Upload`, `OriginFetch`). `Sums` holds the facts about sums over finite sets that
the ledger and the account of the cache need.

### How state and actions correspond to the code

`StreamState`. `Mem` is what memory holds (`outbox`, `rejected`, `inbox`),
`disk` is the state file. `Persist` is a `_persist_locked` that returns,
`PersistFails` one that raises: the file is then either value, since the
directory fsync runs after the rename, and memory is rolled back. `adm` collects
the four latch variables; `Latch` and `Recovered` are `_latch_locked` and the
recovery in `_persist_locked`. A frame is its identity, kind, job and attempt;
payloads are left out. `owed` is a history variable: frames made durable and not
acknowledged, boot frames excepted.

`EventStream`. `spc` is where `_sender_loop` stands, `opening` who holds
`_open_lock` and how far `_ensure_open` has come, `intakeQ` what a reader
deferred, `known` the verdicts not settled yet, `cpc` where the claiming thread
stands. A step that changes the durable half is a step of `StreamState`,
conjoined with what the thread does. The control plane acknowledges every frame
it reads with one of `Answers`, which `Classify` turns into a verdict; it
delivers an assigned job once on every socket, and may take a job away and hand
it out under a new attempt. An action ends with what its
thread does next without a wait: it notes the number of a head frame just
appended, latches or closes the socket after a write that failed, counts the item
it has handled. In the code these are further holds of a lock, merged here with
the first.

`Dispatch`. `loop` is the dispatch thread, `worker` each job's thread, `latch`
the coordinator. `inbox` is the stream's: a job is held from its delivery until
a terminal is durable, and a held job of an earlier process is claimed again.
The interrupt that a worker puts in the queue is an entry of it. A worker's
stage may never end; the drains have deadlines. Which of two queued jobs a pool
thread takes first is a choice, where the executor is FIFO.

`BootPreflight`. `pc` is the stage, `env` what `VK_ICD_FILENAMES`,
`VK_DRIVER_FILES` and `LD_LIBRARY_PATH` hold, `proof` what the green probes ran
under; `mark` and `planned` are the marks the next process reads. A call of the
driver fetch is the actions of `DriverDirectory`. `DriverUserspace` has one
action per stage of the call, and `Opens`, `Reads`, `Writes` of each range
thread; the archive is what each of its ranges holds, and `late` is the wall or
the stall rule. What a probe, the vendor or the disk says is a choice.

`OpsChain`. `step` and `put` are where a step and its transfers stand, `arm` each
PUT's port; `Scheduled` takes every step whose producers are done,
`Collects` is the coordinator's loop over finished futures, `Settles` the final
wait of `_PutDrain`. Permits are the two semaphores; a heavy step is one of
`GpuWidth` (the ledger has a module of its own).

`InferServices`. `cache` and `uses` are the service caches and who runs on one,
`lock` the load lock, `slots` the lanes, `image` where an image set stands.
A tile's row is the number of the tile it was computed from; 0 is none. `Ok(got)`,
like `Kept` of `StreamState`, is a comprehension of the code, written as the set of
the one sequence that fits it: a form a proof can use without a recursion.

`InputCache`. A slot is its payload (a version), its sentinel `DONE` and its
marker `RETAINED`; `lock` is the slot's lock, `acct` the account with the names
touched since the walk began, `walk` the daemon. `remote` and `acked` are the
store's version and the last one reported done. Every unlink, rename and write
of `upload_and_adopt`, `adopt_local`, `release_superseded` and `_evict` is an
action, and may be the last of the process. `Fragile` names the removals that may
fail: the three unlinks of an invalidation, the marker and the tree of a release,
the tree of a heal and that of an eviction. `Cut` is what an error or a death in
the middle of a removal or a write leaves. `acct.missed` is a history that only
properties read: the slots whose last change the account was not told of.

`ResultCache`, `ArtifactCache`, `Download`. Content is what tells versions
apart: a payload is good or not, a tar is what each of its ranges holds, a file
is the sequence of the versions its blocks came from. Threads that an attempt
abandons keep running. `Upload` has the store session with its swapped pool,
the rate over PUTs in flight, and the rows a call's attempts leave.
`OriginFetch` has per host the limiter's `limit`, `inflight`, `hold` and the
window of outcomes, and `req`, where the request stands.

`GpuAdmission`. A thread has one admission at a time and stands for its token;
`asleep` is the set of threads inside `_cond.wait`. `Tick` is a discrete clock in
units of a fraction of `HEAVY_OP_CEILING_S`: it advances only while every thread
runs a handler, sleeps, reads the card, holds its admission outside the handler
or is outside, so lock holds take no time, and no handler outlives its ceiling.
That is the assumption under which the deadline is judged. An admission is held
for longer than its handler runs: before it for the events and the wait for a
step slot (`ops/runner.py:1259`), which nothing bounds, after it for what is
stored. `StartsHandler` and `HandlerEnds` are where the handler's time begins and
ends, and `lent` is a history of each park: the ticks in which some admission was
held outside its handler.

## The runs

| run | modules and bounds | properties | shows |
|---|---|---|---|
| `durable_state` | `StreamState`: 1 job, 2 attempts, 2 incarnations, 2 and 1 frames, 1 failed write | `TypeOK`, `BootNeverRefuses`, `NothingOwedIsLost`, `VerdictSticks` | every handler in every order, with no thread to restrict it |
| `stream_reconnect` | `EventStream`: 1 job, 2 sockets, 1 failure, fair | `ReceiptPrecedesResult`, `AckedWasCommitted`, `RetiresInOrder`, `AssignedGetsCommitted` | one job through a socket that is lost at any point |
| `stream_faults` | `EventStream`, 1 failed write, with either 2 incarnations and 1 event, or 2 attempts and 1 refusal, or an undecodable job on the last socket with a refusal and 1 loss, or 2 losses | `OneFramePerIdentity`, `RunningIsNeverReleased`, `DurableHandlers` | what crashes, refusals and failed writes leave; every step of a thread is a step of `StreamState` |
| `gpu_ledger` | 4 threads, 2 kinds of need, 2 card levels, reads that fail, queue of 3, cap of 2 ceilings | `NoLostWakeup`, `CardIsShared`, `PricedDeadlineSuffices` | wake-ups, exclusion and deadlines under every interleaving |
| `input_cache` | 2 threads, 3 calls or deaths, 2 objects (two generations of one output, the older in the store from the start), a cap that holds one of them, removals that fail: the marker's, a release's, a heal's | `AccountHolds`, `OnlyCopySurvives`, `NeverStale` | the account follows the disk, the only copy stays, and the cache implements `ObjectStore` |
| `stores` | `ResultCache`: 2 threads, 2 keys of which one fits, 1 fault; `ArtifactCache`: 2 callers, 2 ranges, 1 death | `ServedIsWhole`, `DeliveredIsExact`, `StoreCallsEnd` | what is handed out is whole and exact, and calls end |
| `transfers` | `Download`: 2 calls of 2 ranges, 3 attempts, 1 replacement, 3 kinds of origin; `Upload`: 2 threads, 3 PUTs, 1 idle period; `OriginFetch`: 2 tiles, 2 hosts, 2 attempts, a deadline of 2 ticks | `WholeObject`, `PutsAreAccounted`, `SlotsAreExact`, `VerdictReachesRequest`, `TransfersEnd` | only whole objects are kept, every slot and counter is given back, one verdict reaches the request |
| `agent` | 9 jobs in four loads of 3, 3 pools, 1 fault, 1 flip, 2 processes | `LatchIsHeard`, `RestartLeavesNoWork`, `BootBilledOnce`, `HeldIsSomewhere`, `LatchEndsLoop` | no latch is missed, nothing is dropped or left behind, a latched loop ends |
| `executors` | `OpsChain`: three loads of up to 3 chains, 1 permit of each kind; `InferServices`: three loads of up to 4 requests, 2 lanes, 2 tiles, both sizes of card | `NamedHasLanded`, `WorkspaceOutlivesUse`, `ResidencyHolds`, `LanesAreExact`, `ScoresAreTheTiles`, `ExecutorsEnd` | what a chain reports has landed; cards, lanes and scores stay right; work ends |
| `boot` | `BootPreflight`: 3 processes; `DriverUserspace`: 2 calls of 2 ranges, 1 death | `BootIsHonest`, `WritersKeepTheirFile`, `KeepsPromise`, `BootConcludes` | beacon, environment and directory; the fetch implements `DriverDirectory` |
| `fault_unlatched` | as `agent` | `FaultIsLatched`, violated | finding 1 |
| `stale_served` | as `input_cache`, 1 thread, another unlink fails | `InvalidatedIsDownloaded`, violated | finding 2 |

### Why the bounds are enough

*Stream.* Jobs share the outbox and the latches only, and the frames of one job
and the boot frames already fill and reorder windows. Two sockets give every
overlap of an old socket's reader and intake with a new one; two incarnations
give one crash, and the file a crash leaves is a start as good as any.
`AckWindow = 2` makes a window shorter than the outbox and lets acks arrive in
both orders. `MaxReopens = 0` and `PendingCap = 1` bring the retry and
dead-letter limits within reach. `MaxTrouble` counts what the network or a
retryable answer does wrong; a network that fails for ever delivers nothing.

*Ledger.* Four threads with a queue of three give a full queue and a refusal,
and a park behind a holder and two waiters: more work ahead than the cap pays
for, so that a deadline does expire. Two card levels let weights load once,
which is what a stale budget needs.

*Caches.* Two threads are what each race needs: a pruner and a writer, two
retentions, a reader and an adoption; the walk is a third process. A cap that
holds one of two objects makes every prune choose, between the plain ones and
beside a retained one; two generations of one output are what
`release_superseded` tells apart. In `stores` one of two results fits, so every
store prunes the other's key; a call may be followed by another that finds what
it left.

*Transfers.* Two ranges, two calls and one replacement give the splice of two
versions and the straggler of one call in the next one's file. Two PUTs meet at
the end of an idle period, and a third follows them. Two tiles on two hosts,
each host one failure away from being dead, give a verdict with a sibling not
submitted, pacing, on the wire, or done; a redirect brings both to one host.

*Agent and executors.* The loads put together those jobs that interact: three
of one lane, chains of two packs, both lanes with a chain, an invalid job with
others. A width of 2 lets two workers of a lane meet, with a third job queued.
The ops loads are a fan-out with a reader by url, two chains that meet at every
permit, and a chain of another pack.

*Boot.* Three processes are one that leaves a mark, one that reads it and
replaces itself, and one that inherits its environment. Two calls of the fetch
are the encoder's and the ladder's.

Three things the runs do not reach and only the proofs cover: two intakes that
reject an undecodable job at the same time (`stream_faults` has one such intake,
`ThreadsRefine` any number), a release for a changed lease (`input_cache` has one
holder, `OnlyCopyIsKept` any), and an eviction that takes several victims at
once, or whose removal fails (`AccountIsKept`, any sizes and any `Fragile`).

`CHECK_DEADLOCK FALSE` is set where a bounded behaviour may stop for good: the
pod may be idle once the bounds are spent. The other modules have a `Rests` step
that says exactly when they may stop, so a deadlock anywhere else is found.

### Fairness

Weak fairness is assumed of every thread of the pod that loops or works without
an unbounded wait: Python schedules every runnable thread, requests have
timeouts, waits have walls. It is enough because such a step, once enabled,
stays so until it is taken. In particular:

- Stream: the sender, the claimer, the opening of a socket, workers, readers and
  intakes; and that the control plane assigns, sends and reads, as the stream's
  own contract does.
- `Dispatch`: the loop, and the workers' steps but the stage they run, which
  nothing bounds: `LatchEndsLoop` holds even if a worker never ends.
- `Download`: the caller, but no worker of a range, which may hang on a body that
  drips; the abandoned wait is what has to end. `ArtifactCache`: callers with
  their ranges, whose reads have a timeout.
- `OriginFetch`: the clock, the request and each fetch. `DriverUserspace`: the
  call and its wall, but no range thread.
- `BootPreflight`: the stages; and strong fairness of the control plane's
  acceptance, since a frame is offered again after each dead letter: a plane
  that never takes any frame leaves a pod that rightly never serves.

Crashes, failed writes, losses, refusals, evictions and new calls are not fair.

### Refinements

The safety half of each is also proved, that of `NeverStale` under a hypothesis that
"What is proved" discusses.

- `EventStream` over `StreamState`: `DurableHandlers`, every step of a thread is a
  legal step of the durable half, so what is proved of that half holds of the
  threads.
- `InputCache` implements `ObjectStore`: `NeverStale`. The store's variables are
  the cache's own history: `latest`, `acked`, and `leased`, what a reader was given.
- `DriverUserspace` implements `DriverDirectory`: `KeepsPromise`, with
  `asked <- pc # "idle"`.
- `BootPreflight` is composed with `DriverDirectory`, whose actions are its calls.

## The findings

1. An infer job that fails with an infra class is reported first; if the report
   raises, because the stream latched its admission meanwhile, the lines that
   latch the fault are never reached, and the loop goes on claiming for a card
   known to be broken (`main.py:1101`; `main.py:909` promises the latch).
2. `_invalidate_locked` unlinks the sentinel, the payload and the marker in one
   `try`. When the payload's unlink raises, a retained object keeps its marker;
   `get` decides by the marker before it looks at the sentinel and serves the
   old payload, although a newer PUT was reported done
   (`ops/inputcache.py:333`; the docstring at line 328 promises the download).
   The sentinel's own unlink, the first of the three (line 332), has the same
   outcome when it raises, for any object: the others are skipped and the old
   slot stays COMPLETE.

Both need one failing call at one place. `NeverStale` is checked with the
removals of a marker, a release and a heal failing, where the promise does hold,
and proved with every removal failing but the sentinel's and the payload's.

Behaviours of the models that bound what the properties above may claim, each a
reachable case and none of them contradicting a property that is checked:

- A replay read from a lost socket after its job's result was retired is queued
  and executed again (`event_stream.py:1317`); a refused receipt leaves the id in
  the claim queue, so that a job handed out again can run twice at once
  (`event_stream.py:962`). Once the first of two workers has reported, a late
  replay may be released beside the second. Hence no property says "one run per
  job": `RunningIsNeverReleased` says what holds, until the control plane has
  committed a result.
- A receipt whose write fails leaves its job claimable, with no receipt before its
  result (`event_stream.py:1327`). Hence `ReceiptPrecedesResult` is checked
  without failed writes.
- `claim` may latch `DeliveryPending` with an empty outbox, which nobody lifts
  (`event_stream.py:1609`). `AssignedGetsCommitted` speaks of jobs, whose frames
  wake the sender.
- The deadline of a park prices the handlers ahead of it, not the time for which
  their admissions are held beside: a heavy step waits for its step slot inside
  its admission (`ops/runner.py:1267`), without a bound. A park may time out for
  that although every handler keeps to its ceiling.
  `PricedDeadlineSuffices` says that it then times out for nothing else: what the
  handlers ahead may still take is no more than the time so lent.
- A `get` that cannot write its sentinel (`ops/inputcache.py:779`), on a full disk
  for instance, raises after the payload was renamed in, with neither `_note` nor
  prune. If the sentinel is there, though torn, the slot counts on disk and has
  no row, until a walk or the next change of that slot, and the bytes are missing
  from the cap's total. `AccountHolds` says that this is the only difference: a row
  too few, never one too many, and never that of a retained object.
- A step that reads a sibling's object by its url need not list it in `needs`: the
  validator asks that of `from_step` inputs only (`models.py:896`), and neither
  `_sibling_url_readers` nor the schedule adds it (`ops/runner.py:1093`, `1616`).
  Such a reader may start before the PUT has landed. `NamedHasLanded` speaks of
  what a step reads from the steps it waits for, directly or through others; the
  run has a reader of either kind.
- A process that stops and cannot unlink its liveness mark is reported as a crash
  by the next one (`main.py:1296`, whose log says so). `BootIsHonest` allows that
  case, and requires it: the report is then always UNCLEAN.
- A waiter of the ledger is priced with a budget that an idle refresh may shrink
  before it is admitted (`ops/gpu_admission.py:173`). `CardIsShared` bounds what
  is reserved by the card at its emptiest instead of the budget in force.

## What is proved

Every invariant and every action property of the passing runs, and the safety
half of every refinement, is a theorem: it holds for every value of the
constants, of which only the named assumptions are used. Each rests on an
inductive invariant, named below with why it takes that form. Three theorems
have a hypothesis, and in each case it is the line between what the code
promises and what it does not:

| theorem | hypothesis | without it |
|---|---|---|
| `ReceiptsComeFirst` | `faults = 0`: no write of the file has failed so far | a receipt whose write fails leaves a job without one (above) |
| `ServedTreesStay` | `"bare" \notin Overlap`: no two calls overlap on a slot without sentinel | the take-over removes a published tree (below) |
| `ReadsAreFresh` | `Fragile \cap {"drop done", "drop payload"} = {}`: an invalidation's unlinks of the sentinel and of the payload do not fail | finding 2, for either; the run `stale_served` shows it of the payload's |

and `OnlyWholeObjects` is about one thread per path, which the callers ensure: a
path is a slot whose lock the caller holds, or in a workspace of its own.

Two properties are stated as they are because a proof attempt refuted an earlier
form beyond the bounds of its run. The cap clause of `AccountHolds` has to except
a state in which some call ended in an error or unpruned: a pruner passes over a
slot that an upload holds, and the upload may raise; or a victim cannot be
removed. `RunningIsNeverReleased` has to stop at
the first result committed of a job that runs twice.

### The event stream (`EventStreamProofs`)

The durable half, for every number of jobs, attempts, incarnations, frames and
failed writes, starting in any incarnation:

- `TypesHold`, `TypeOK`: inductive; one lemma per group of handlers, over lemmas
  on what appends, writes and latches return.
- `BootsAlways`, `BootNeverRefuses`: inductive with `BootInv`, by which frames of
  the current incarnation in memory carry numbers below `nextSeq`, and no frame
  belongs to a later incarnation. Without it a rolled back append that
  nevertheless reached the file could collide with the frame that reuses its
  number.
- `OwedIsHeld`, `NothingOwedIsLost`: with `OwedInv`, that boot frames, which a
  restart drops, are never owed.
- `PermanentVerdicts`, `VerdictSticks`: with `StorageHolds`, that a latch which
  came from storage has the storage flag set, so that the recovery that restores
  a displaced verdict is the only way back.

The threads, for every window, wire, control plane and number of sockets:

- `ThreadsRefine`, `DurableHandlers`: each of their steps is a handler of
  `StreamState` or leaves it alone. It needs `Judging`: the frame the sender is
  settling is still in the outbox when it takes the lock again. So the four
  theorems above hold of the composition (`ThreadsKeepTheFile`).
- `IdentitiesAreUnique`, `OneFramePerIdentity`: `NamesInv` extends it to frames in
  flight and in the window. All of them are older than the next name, and only
  the file may hold that very name, after a write that failed past its rename.
- `AcksAreEarned`, `AckedWasCommitted`: `AckInv`, every acceptance on a wire, in
  `acks`, in `known` or in the sender's hand was answered to a frame read.
- `FramesLeaveInOrder`, `RetiresInOrder`: `OrderInv`, the outbox, in memory and in
  the file, is in the order of its names.
- `ReceiptsComeFirst`, `ReceiptPrecedesResult`: `ReceiptInv`, from the moment an
  attempt is held its receipt is owed or read, and older than every result of
  it; `OwedInv` then puts it in the outbox or the dead-letter, `OrderInv` ahead.
- `WorkStaysHeld`, `RunningIsNeverReleased`: `ClaimInv`, a job that runs is
  claimed, or its result is held, or the control plane has committed one.

### Dispatch and restart (`DispatchProofs`)

`LatchHeard`, `RestartIsClean`, `BootIsBilledOnce` and `HeldJobsAreSomewhere` follow
from one invariant, `IInv`. Its core is `OnePlace`: a job is in the queue, in the
loop's hand, or with a worker, and never twice; without it a second worker could
overwrite what the first one's step says of the job. `AllTracked` says that the
coordinator knows every worker but the one just submitted, `LatchComes` that a
latch set during a claim has its interrupt queued or about to be.

### The ledger of the card (`GpuAdmissionProofs`)

- `WaitersWake`, `NoLostWakeup`: with `Shape`, whoever waits is in the queue and
  whoever sleeps waits. Admissions, unwinds and releases wake everybody; a thread
  that joins leaves the head alone, or is itself the new head and awake.
- `CardStaysShared`, `CardIsShared`: `CardInv`, every budget, cached or priced, is
  one that some free memory of the card justifies, and who sizes itself asks for
  the whole budget it was priced at.
- `DeadlinesSuffice`, `PricedDeadlineSuffices`: `DeadlineInv`, whoever waits in
  place `j` of the queue has time left, what was lent added, for `j - 1` handlers
  and for the rest of those admitted. A tick takes from both sides or is lent, an
  admission moves one handler from the first part to the second.

The sums are folds, that is, recursions over sets. `Sums` proves what is needed of
them (a term taken out, monotony, change at one place) without induction: a set
of counterexamples would have a least one (`FiniteSetTheorems`).

### The caches (`InputCacheProofs`, `StoresProofs`)

- `OnlyCopyIsKept`, `OnlyCopySurvives`: `CacheInv` says who holds which lock and
  what is so of the slot at each place of a call, for instance that the payload
  is gone once the mark is being dropped, or that the store has the newest
  version before an old tree is removed.
- `AccountIsKept`, `AccountHolds`, in three parts. The account is the disk outside
  a lock: `RowInv`, also for a walk, where what it has seen either still is so or
  was touched since, or is a slot that a `get` could not seal. Retained objects
  fit their share (`ShareHolds`): `ShareInv`, what is retained together with what
  the holder of `_retain_lock` was granted fits, because the tally knows every
  object retained before. The cap holds: `CapInv`, each disposable object is owed
  by some thread with a prune still before it, or some call ended without one.
- `ReadsAreFresh`, `NeverStale`: each step of the cache is one of `ObjectStore` or
  none.
- `ResultsAreExact`, `DeliveredIsExact`: `Owners`, who restores, computes or stores
  a key owns its lock. A pruner, which owns none, may remove a directory at any
  moment: a copy that loses its source is a miss, and the handler runs.
- `TreesAreWhole`, `ServedTreesStay`, `ServedIsWhole`: `NoLateWriter`, no range of
  an abandoned call writes to a tar once it is verified; `TakeOver`, where a
  fresh slot was claimed there is nothing bare to remove.

### Boot (`BootProofs`)

- `BootsAreHonest`, `BootIsHonest`: `MarksTell` relates the two marks to how the
  last process ended at each stage of the preflight; `ProofStands` carries what
  the encoder was proved with through the Vulkan ranks and the environment the
  ladder falls back to; `NamedIsWhole` is what the environment may name.
- `WritersKeep`, `WritersKeepTheirFile`: a descriptor is closed only where no
  thread of its call is alive, and nobody starts one for a call afterwards.
- `FetchRefines`: the fetch starts as `DriverDirectory` and each of its steps maps
  to one of it or to none. `DirInv`: while a call works the directory does not
  verify, from the checksum on the archive is the vendor's, and at the rename the
  old directory is out of the way. It has to be an invariant of the whole call,
  because a thread of an abandoned attempt may write until the checksum is taken.

### Executors and transfers (`WorkProofs`)

- `WhatIsNamedLanded`, `WorkspacesOutliveUse`: `OpsInv`, a chain's three sets part
  its steps by what has become of them, a PUT follows its step, and at each place
  of `run_chain` what is over is over.
- `LanesAreGivenBack`, `LanesAreExact`: free lanes and forwards on the card add up
  to the lanes, with the finiteness of what is counted part of the invariant.
- `CardHoldsWhatItMay`, `ResidencyHolds`: `CardHold`, one request at a time is in
  the heavy lane, nobody loads what is kept, and who loads a ranker has the lock.
- `EachTileHasItsScore`, `ScoresAreTheTiles`: `ScoreInv`, the results are those of
  the groups whose text is through, each of its own set's tiles, which stay as
  gathered; that tile `i` finds its own row among those that passed is a
  pigeonhole argument on increasing sequences.
- `PutsTellTheWire`, `PutsAreAccounted`: `UploadInv`, the two counters are the
  threads at the places between their changes, a PUT on the wire uses the pool in
  force, and until its last one every attempt of a call was a fault.
- `SlotsAreGivenBack`, `SlotsAreExact`: a host's slots count its fetches on the
  wire. `VerdictIsHeard`, `VerdictReachesRequest`: what is cancelled was cancelled
  by a verdict, and a request that scores has gathered every tile, done.
- `OnlyWholeObjects`, `WholeObject`: `DownInv`, a worker that still runs was told to
  stop or works for the call under way, on a file of its own; the ranges of an
  object leave no block out; a stream holds blocks of the version it pinned.

### Only model-checked

Liveness under fairness: `AssignedGetsCommitted`, `LatchEndsLoop`, `ExecutorsEnd`,
`StoreCallsEnd`, `TransfersEnd`, `BootConcludes`, and the half of `KeepsPromise`
that says a call of the fetch ends. Such a proof needs `ENABLED` of the fair
actions, which the proof system does not handle. The properties of the two
violation runs are false, as the runs show.

## What is not modelled, and why

- Stream: the callers' delivery walls (`_await_delivery`, `await_settled`), whose
  only effect on the state is the pending latch that `LatchPending` already
  sets; clock samples; `close`. A socket opened while an acknowledged readiness
  frame waits to be settled carries no readiness of its own
  (`event_stream.py:1490`); what the control plane makes of that is not in the
  repository, so no property judges it.
- Preflight: the environment a ladder rank restores before it refuses.
- Input cache: deletions by hand under the running process; temporary files,
  which are never read; `retained_holder`, a read, and the public `reconcile`,
  which only tests call.
- Artifact cache: calls that overlap on a bare slot, a directory without its
  sentinel that an older layout left. The take-over (`artifact.py:361`) tests,
  removes and renames with no lock between callers, so one call may remove what
  another has just published and handed out, and publish its own a moment later:
  `ServedIsWhole` does not hold there. The run keeps to `Overlap = {"absent"}`:
  calls overlap on a fresh slot, and the take-over is explored with one call at
  a time. Giving `Overlap` the value `{"absent", "bare"}` shows the other case.
- Transfers: the JSON calls to the control plane, which are single requests,
  and the product-tenant bearer. Origins: the pool of idle connections, name
  resolution and the address rules, whose outcome is a choice.
- Ops runner: event texts, VRAM sampling, timings; a handler is a choice of how
  it ends. Loading an ops pack is an import of Python files: which generation a
  chain names is a constant.
- Render, captions, inference mathematics: sequential work without shared state,
  better served by tests. The wire models: declarative validation, whose outcome
  is a constant. Build and release scripts are not part of the running pod.
