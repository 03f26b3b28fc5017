---------------------------- MODULE NativeBridge ----------------------------
(****************************************************************************)
(* The file bridge between the Python plug-in and the native point viewer.  *)
(* Python writes visible_sector.bin, its .jsonl sidecar and the request;    *)
(* the native plug-in reads them when the artist runs UNAV Reload Native    *)
(* Viewer and answers with the status file.                                 *)
(*                                                                          *)
(* Both sides run on the host's main thread, so no native command runs      *)
(* inside a Python handler; each file of a handler is still a step of its   *)
(* own, because every writing may fail and the host may die between and     *)
(* during them, and the files outlive it.                                   *)
(****************************************************************************)
EXTENDS Naturals

CONSTANTS
  Sector,    \* visible sets the navigator may select
  Size,      \* number of points of each
  ModeCap,   \* cap_for_mode(native_viewer)
  DefaultCap \* UnavPointBuffer::kDefaultMaxPoints

ASSUME BridgeAssumption ==
  /\ Sector \cap {"missing", "torn", "none", "lost"} = {}
  /\ Size \in [Sector -> Nat]
  /\ ModeCap \in Nat \ {0}
  /\ DefaultCap \in Nat
  /\ ModeCap <= DefaultCap

VARIABLES
  binary, sidecar, \* the visible set in each file, or its damage
  request,         \* native_request.json
  status,          \* native_status.json
  answered,        \* the latest pick-up wrote the status and it answers the request on disk
  job,             \* the Python handler in progress
  cpu, gpu,        \* contents of gNativeBuffer and gGpuBuffer
  maxPoints        \* gNativeBuffer's maxPoints_

files == <<binary, sidecar, request>>
engine == <<cpu, gpu, maxPoints>>
vars == <<binary, sidecar, request, status, answered, job, cpu, gpu, maxPoints>>

File == Sector \cup {"missing", "torn"}

Nothing == [sector |-> "none", count |-> 0]
Points == [sector : Sector \cup {"none"}, count : Nat]

Request == [state : {"missing", "unreadable", "bad_path", "load", "clear"}, cap : 0 .. ModeCap]
Status == [state : {"missing", "torn", "gone", "ok", "error"}, count : Nat]

Idle == [step |-> "idle", sector |-> "none", cap |-> 0]
Job ==
  [step : {"binary", "sidecar", "request"}, sector : Sector, cap : {0, ModeCap}]
    \cup [step : {"idle", "reissue", "drop_binary", "drop_sidecar", "clear"},
          sector : {"none"}, cap : {0}]

TypeOK ==
  /\ binary \in File
  /\ sidecar \in File
  /\ request \in Request
  /\ status \in Status
  /\ answered \in BOOLEAN
  /\ job \in Job
  /\ cpu \in Points
  /\ gpu \in Points
  /\ maxPoints \in 1 .. DefaultCap

Init ==
  /\ binary = "missing"
  /\ sidecar = "missing"
  /\ request = [state |-> "missing", cap |-> 0]
  /\ status = [state |-> "missing", count |-> 0]
  /\ answered = FALSE
  /\ job = Idle
  /\ cpu = Nothing
  /\ gpu = Nothing
  /\ maxPoints = DefaultCap

------------------------------------------------------------------------------
\* Python: the buttons

\* Sync in native viewer mode asks for the mode's cap, Export Visible Sector
\* (Binary) for 0, "the native plug-in's own".
StartExport(s, cap) ==
  /\ job = Idle
  /\ job' = [step |-> "binary", sector |-> s, cap |-> cap]
  /\ UNCHANGED <<files, status, answered, engine>>

\* Reload Native Viewer re-issues the request for the binary that is there.
StartReload ==
  /\ job = Idle
  /\ binary # "missing"
  /\ job' = [Idle EXCEPT !.step = "reissue"]
  /\ UNCHANGED <<files, status, answered, engine>>

StartClear ==
  /\ job = Idle
  /\ job' = [Idle EXCEPT !.step = "drop_binary"]
  /\ UNCHANGED <<files, status, answered, engine>>

------------------------------------------------------------------------------
\* Python: one step per file

WriteBinary ==
  /\ job.step = "binary"
  /\ binary' = job.sector
  /\ job' = [job EXCEPT !.step = "sidecar"]
  /\ UNCHANGED <<sidecar, request, status, answered, engine>>

WriteSidecar ==
  /\ job.step = "sidecar"
  /\ sidecar' = job.sector
  /\ job' = [job EXCEPT !.step = "request"]
  /\ UNCHANGED <<binary, request, status, answered, engine>>

WriteRequest ==
  /\ job.step \in {"request", "reissue"}
  /\ request' = [state |-> "load", cap |-> job.cap]
  /\ answered' = FALSE
  /\ job' = Idle
  /\ UNCHANGED <<binary, sidecar, status, engine>>

\* clear() goes on whether or not a file could be removed.
DropBinary ==
  /\ job.step = "drop_binary"
  /\ binary' \in {binary, "missing"}
  /\ job' = [job EXCEPT !.step = "drop_sidecar"]
  /\ UNCHANGED <<sidecar, request, status, answered, engine>>

DropSidecar ==
  /\ job.step = "drop_sidecar"
  /\ sidecar' \in {sidecar, "missing"}
  /\ job' = [job EXCEPT !.step = "clear"]
  /\ UNCHANGED <<binary, request, status, answered, engine>>

WriteClear ==
  /\ job.step = "clear"
  /\ request' = [state |-> "clear", cap |-> 0]
  /\ answered' = FALSE
  /\ job' = Idle
  /\ UNCHANGED <<binary, sidecar, status, engine>>

\* What a request cut short says to a reader that searches the text for its
\* keys: no action or no path, a path that ends early, or a whole path and a cap
\* short of digits (any smaller number here).
CutShort ==
  LET none == [state |-> "unreadable", cap |-> 0] IN
  IF job.step = "clear" THEN {none, [state |-> "clear", cap |-> 0]}
  ELSE {none} \cup [state : {"bad_path", "load"}, cap : 0 .. job.cap]

\* A writing that fails at open() leaves the file, one that fails later leaves
\* a part of it: the files are truncated and rewritten in place.
Damage ==
  /\ binary' \in IF job.step = "binary" THEN {binary, "torn"} ELSE {binary}
  /\ sidecar' \in IF job.step = "sidecar" THEN {sidecar, "torn"} ELSE {sidecar}
  /\ request' \in IF job.step \in {"request", "reissue", "clear"}
                  THEN {request} \cup CutShort ELSE {request}

\* Mutant of Fail: a sidecar that cannot be written is logged and skipped.
FailSkippingSidecar ==
  /\ job.step \in {"binary", "sidecar", "request", "reissue", "clear"}
  /\ Damage
  /\ answered' = (answered /\ request' = request)
  /\ job' = IF job.step = "sidecar" THEN [job EXCEPT !.step = "request"] ELSE Idle
  /\ UNCHANGED <<status, engine>>

\* Every failed writing ends the handler; removals do not fail it.
Fail ==
  /\ job.step \in {"binary", "sidecar", "request", "reissue", "clear"}
  /\ Damage
  /\ answered' = (answered /\ request' = request)
  /\ job' = Idle
  /\ UNCHANGED <<status, engine>>

------------------------------------------------------------------------------
\* The native plug-in

AtMost(n, cap) == IF n < cap THEN n ELSE cap

\* Mutant of Loaded: the points are committed before the footer is checked.
LoadedUnchecked(file, cap) ==
  IF file = "torn" THEN [sector |-> CHOOSE s \in Sector : TRUE, count |-> 1]
  ELSE IF file \in Sector /\ Size[file] > 0
  THEN [sector |-> file, count |-> AtMost(Size[file], cap)]
  ELSE Nothing

\* loadFromFile empties the buffer first and commits only a file whose length,
\* magic and CRC are right.
Loaded(file, cap) ==
  IF file \in Sector /\ Size[file] > 0
  THEN [sector |-> file, count |-> AtMost(Size[file], cap)]
  ELSE Nothing

\* The status is rewritten in place.  Nobody looks whether that succeeded: when
\* it did not, the status of an earlier answer stands, or a part of the new one.
Answer(state, points, answers) ==
  /\ \/ /\ status' = [state |-> state, count |-> points]
        /\ answered' = answers
     \/ /\ status' \in {status, [state |-> "torn", count |-> 0]}
        /\ answered' = FALSE
  /\ UNCHANGED <<files, job>>

\* Mutant of Shadow: an empty buffer returns before the old vertices go.
ShadowSkipsEmpty == gpu' = IF cpu' = Nothing THEN gpu ELSE cpu'

\* UnavReloadCommand: whatever the request did, the GPU shadow is rebuilt.
Shadow == gpu' = cpu'

\* A request without an action or a path is reported; the points stay.
RejectRequest ==
  /\ job = Idle
  /\ request.state \in {"missing", "unreadable"}
  /\ Answer("error", 0, FALSE)
  /\ UNCHANGED <<cpu, maxPoints>>
  /\ Shadow

ServeClear ==
  /\ job = Idle
  /\ request.state = "clear"
  /\ cpu' = Nothing
  /\ Shadow
  /\ Answer("ok", 0, TRUE)
  /\ UNCHANGED maxPoints

\* Mutant of Load: a failed load keeps the points that were there.
LoadKeepingOld(file, cap) ==
  /\ maxPoints' = IF cap > 0 THEN cap ELSE maxPoints
  /\ cpu' = IF file \in Sector THEN Loaded(file, maxPoints') ELSE cpu
  /\ Shadow
  /\ Answer(IF file \in Sector THEN "ok" ELSE "error", cpu'.count, TRUE)

\* A cap of 0 leaves the cap of an earlier request in force.
Load(file, cap) ==
  /\ maxPoints' = IF cap > 0 THEN cap ELSE maxPoints
  /\ cpu' = Loaded(file, maxPoints')
  /\ Shadow
  /\ Answer(IF file \in Sector THEN "ok" ELSE "error", cpu'.count, TRUE)

ServeLoad ==
  /\ job = Idle
  /\ request.state \in {"load", "bad_path"}
  /\ Load(IF request.state = "load" THEN binary ELSE "missing", request.cap)

\* Deleting a starfield object (or a temporary clone of one) frees the shadow
\* all starfields share; the next redraw builds it again.
FreeStarfield ==
  /\ gpu # Nothing
  /\ gpu' = Nothing
  /\ UNCHANGED <<files, status, answered, job, cpu, maxPoints>>

Draw ==
  /\ cpu # Nothing
  /\ gpu = Nothing
  /\ gpu' = cpu
  /\ UNCHANGED <<files, status, answered, job, cpu, maxPoints>>

------------------------------------------------------------------------------
\* The end of the session

EngineStarts ==
  /\ cpu' = Nothing
  /\ gpu' = Nothing
  /\ maxPoints' = DefaultCap

\* PluginEnd, and the host started again.
Quit ==
  /\ job = Idle
  /\ EngineStarts
  /\ Answer("gone", 0, FALSE)

Crash ==
  /\ Damage
  /\ EngineStarts
  /\ job' = Idle
  /\ answered' = FALSE
  /\ UNCHANGED status

\* The host dies while the status file is rewritten.
CrashAnswering ==
  /\ job = Idle
  /\ EngineStarts
  /\ status' = [state |-> "torn", count |-> 0]
  /\ answered' = FALSE
  /\ UNCHANGED <<files, job>>

Python ==
  \/ \E s \in Sector, cap \in {0, ModeCap} : StartExport(s, cap)
  \/ StartReload
  \/ StartClear
  \/ WriteBinary
  \/ WriteSidecar
  \/ WriteRequest
  \/ DropBinary
  \/ DropSidecar
  \/ WriteClear
  \/ Fail

Native ==
  \/ RejectRequest
  \/ ServeClear
  \/ ServeLoad
  \/ FreeStarfield
  \/ Draw

Host == Quit \/ Crash \/ CrashAnswering

Next == Python \/ Native \/ Host

Spec == Init /\ [][Next]_vars

------------------------------------------------------------------------------
\* Properties

\* What a redraw shows.
View == IF cpu = Nothing THEN Nothing ELSE IF gpu = Nothing THEN cpu ELSE gpu

\* The shadow the renderer walks never holds points of an earlier load: it is
\* the buffer's copy or it is empty and the next redraw fills it.
GpuShadowsCpu == gpu \in {Nothing, cpu}

\* A status that the latest pick-up wrote in answer to the request on disk tells
\* the truth about the picture: its count is what a redraw shows, an error means
\* an empty viewport, and a positive cap in the request is honoured.  Exports that
\* failed since, in any of their files, do not change that.  Nothing is promised
\* of a status whose writing failed: when a request is served again, the old
\* status echoes it too and may stand beside another picture.
AnswerDescribesView ==
  answered =>
    /\ status.count = View.count
    /\ status.state = "error" => View = Nothing
    /\ (request.state = "load" /\ request.cap > 0) => View.count <= request.cap

\* An export posts its request only when binary and sidecar are both whole and
\* of the visible set it was asked for, whatever failed or was left by earlier
\* handlers.
PublishedIsWhole ==
  job.step = "request" => binary = job.sector /\ sidecar = job.sector

\* The promise to the artist, see PointViewer.
Viewer == INSTANCE PointViewer WITH
  MaxCap <- DefaultCap,
  file <- IF binary \in Sector THEN binary ELSE "lost",
  view <- View

DrawsCompleteExports == Viewer!ViewerSpec
==============================================================================
