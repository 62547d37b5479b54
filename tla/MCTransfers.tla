----------------------------- MODULE MCTransfers -----------------------------
(***************************************************************************)
(* The three kinds of transfer, each explored on its own in one run: a     *)
(* download, PUTs, or the images of a clip_rank request. They share no     *)
(* state in the program. `transfer` says which one a behaviour is about;   *)
(* the others sleep.                                                       *)
(***************************************************************************)
EXTENDS Naturals

CONSTANTS
  Threads, Threshold, Width, MaxCalls, Sizes, Origins, \* Download
  Putters, MaxPuts, MaxIdles, Attempts,                \* Upload; Attempts is Download's too
  N, Hosts, Pool, PoolWidth, OriginAttempts, MaxHold, Deadline, WindowN, MinN, Urls, Windows  \* OriginFetch

VARIABLES transfer,
  origin, dpc, call, dattempt, pin, file, used, path, temp, dest, worker, abort,
  upc, uattempt, rows, lost, adapter, session, rate, left,
  opc, at, host, window, clock, egress, shared, req

downloads == <<origin, dpc, call, dattempt, pin, file, used, path, temp, dest, worker, abort>>
uploads   == <<upc, uattempt, rows, lost, adapter, session, rate, left>>
fetches   == <<opc, at, host, window, clock, egress, shared, req>>

(* Two versions, of the same length or of another; three kinds of origin.   *)
MCSizes   == {<<2, 2>>, <<2, 3>>}
MCOrigins == {[tagged |-> TRUE,  framed |-> TRUE,  honors |-> FALSE],
              [tagged |-> TRUE,  framed |-> FALSE, honors |-> TRUE],
              [tagged |-> FALSE, framed |-> TRUE,  honors |-> FALSE]}
(* The tiles' urls name two hosts, each of which failed once before; a      *)
(* redirect brings both to one.                                             *)
MCUrls    == {<<1, 2>>}
MCWindows == {<<TRUE>>}

D == INSTANCE Download WITH pc <- dpc, attempt <- dattempt
U == INSTANCE Upload WITH Threads <- Putters, pc <- upc, attempt <- uattempt
O == INSTANCE OriginFetch WITH Attempts <- OriginAttempts, pc <- opc

ASSUME DownloadsAssumption == D!DownloadAssumption
ASSUME UploadsAssumption   == U!UploadAssumption
ASSUME FetchesAssumption   == O!OriginAssumption

OneDownload == D!Starts(CHOOSE o \in Origins : TRUE, CHOOSE s \in Sizes : TRUE)
OneFetch    == O!Begins(CHOOSE of \in Urls : TRUE, CHOOSE record \in [Hosts -> Windows] : TRUE)

TransfersInit ==
  \/ transfer = "download" /\ D!Init /\ U!Init /\ OneFetch
  \/ transfer = "upload" /\ OneDownload /\ U!Init /\ OneFetch
  \/ transfer = "origin" /\ OneDownload /\ U!Init /\ O!Init

TransfersNext ==
  /\ UNCHANGED transfer
  /\ \/ transfer = "download" /\ D!Next /\ UNCHANGED <<uploads, fetches>>
     \/ transfer = "upload" /\ U!Next /\ UNCHANGED <<downloads, fetches>>
     \/ transfer = "origin" /\ O!Next /\ UNCHANGED <<downloads, uploads>>

Fetching == transfer = "origin"
TransfersSpec ==
  /\ TransfersInit /\ [][TransfersNext]_<<transfer, downloads, uploads, fetches>>
  /\ \A t \in Threads : WF_downloads(D!Downloads(t))
  /\ WF_fetches(Fetching /\ O!Tick) /\ WF_fetches(Fetching /\ O!Asks)
  /\ \A t \in 1..N : WF_fetches(Fetching /\ O!Fetches(t))

(* What Download, Upload and OriginFetch state, at the place of each.       *)
WholeObject           == D!WholeObject
PutsAreAccounted      == U!PutsAreAccounted
SlotsAreExact         == O!SlotsAreExact
VerdictReachesRequest == O!VerdictReachesRequest
(* A download ends, even if a worker of it never does, and a request with   *)
(* every tile of it: whatever fails, they are over again and again.         *)
TransfersEnded ==
  CASE transfer = "download" -> \A t \in Threads : D!Ended(t)
    [] transfer = "origin"   -> O!Ended
    [] OTHER             -> TRUE
TransfersEnd          == []<>TransfersEnded

=============================================================================
