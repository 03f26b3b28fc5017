------------------------- MODULE NativeBridge_proofs -------------------------
(* Proofs about NativeBridge: types, the three safety invariants, and that the *)
(* bridge implements PointViewer, for every set of visible sets and every cap. *)
EXTENDS NativeBridge, TLAPS

------------------------------------------------------------------------------
\* The types of what the engine loads and what a cut-short request says.

\* loadFromFile leaves nothing or at most the cap.
LEMMA LoadedType ==
  ASSUME BridgeAssumption, NEW file, NEW cap \in 1 .. DefaultCap
  PROVE  /\ Loaded(file, cap) \in Points
         /\ Loaded(file, cap).count <= cap
         /\ file \notin Sector => Loaded(file, cap) = Nothing
BY DEF BridgeAssumption, Loaded, Points, Nothing, AtMost

\* A request that was cut short is still one of the requests.
LEMMA CutShortType ==
  ASSUME BridgeAssumption, job \in Job
  PROVE  CutShort \subseteq Request
BY DEF BridgeAssumption, CutShort, Job, Request

\* A handler's next step keeps the visible set and the cap it was started with.
LEMMA JobStep ==
  ASSUME NEW j \in Job
  PROVE  /\ j.step = "binary" => [j EXCEPT !.step = "sidecar"] \in Job
         /\ j.step = "sidecar" => [j EXCEPT !.step = "request"] \in Job
         /\ j.step = "drop_binary" => [j EXCEPT !.step = "drop_sidecar"] \in Job
         /\ j.step = "drop_sidecar" => [j EXCEPT !.step = "clear"] \in Job
         /\ j.step \in {"binary", "sidecar"} => j.sector \in Sector
         /\ \A step \in {"sidecar", "request"} : [j EXCEPT !.step = step].sector = j.sector
         /\ \A step \in {"sidecar", "request", "drop_sidecar", "clear"} :
              [j EXCEPT !.step = step].step = step
         /\ j.cap \in {0, ModeCap}
BY DEF Job

\* The handlers' first and last steps are jobs.
LEMMA IdleType == Idle \in Job /\ [Idle EXCEPT !.step = "reissue"] \in Job
                   /\ [Idle EXCEPT !.step = "drop_binary"] \in Job
                   /\ Idle.step = "idle" /\ [Idle EXCEPT !.step = "reissue"].step = "reissue"
                   /\ [Idle EXCEPT !.step = "drop_binary"].step = "drop_binary"
BY DEF Idle, Job

\* What Damage leaves in the files has its type.
LEMMA DamageType ==
  ASSUME BridgeAssumption, TypeOK, Damage
  PROVE  binary' \in File /\ sidecar' \in File /\ request' \in Request
BY CutShortType DEF TypeOK, Damage, File, Request

\* Whether or not it could be written, the status keeps its type.
LEMMA AnswerType ==
  ASSUME TypeOK, NEW state \in {"gone", "ok", "error"}, NEW points \in Nat,
         NEW answers \in BOOLEAN, Answer(state, points, answers)
  PROVE  status' \in Status /\ answered' \in BOOLEAN
<1>1. CASE status' = [state |-> state, count |-> points] /\ answered' = answers
  BY <1>1 DEF Status
<1>2. CASE status' = status /\ answered' = FALSE
  BY <1>2 DEF TypeOK
<1>3. CASE status' = [state |-> "torn", count |-> 0] /\ answered' = FALSE
  BY <1>3 DEF Status
<1> QED BY <1>1, <1>2, <1>3 DEF Answer

\* A load, whatever its file, leaves typed buffers and the shadow equal to the
\* buffer; the status, if it was written, counts it, and an error means it is empty.
LEMMA LoadEffect ==
  ASSUME BridgeAssumption, TypeOK, NEW file, NEW cap \in 0 .. ModeCap, Load(file, cap)
  PROVE  /\ maxPoints' \in 1 .. DefaultCap
         /\ cap > 0 => maxPoints' = cap
         /\ cpu' \in Points /\ gpu' = cpu'
         /\ cpu' = Loaded(file, maxPoints')
         /\ cpu'.count <= maxPoints'
         /\ status' \in Status /\ answered' \in BOOLEAN
         /\ answered' => /\ status'.count = cpu'.count
                         /\ status'.state = "error" => cpu' = Nothing
         /\ UNCHANGED <<binary, sidecar, request, job>>
<1>1. maxPoints' \in 1 .. DefaultCap /\ (cap > 0 => maxPoints' = cap)
  BY DEF BridgeAssumption, TypeOK, Load
<1>2. cpu' = Loaded(file, maxPoints') /\ gpu' = cpu'
  BY DEF Load, Shadow
<1>3. cpu' \in Points /\ cpu'.count <= maxPoints' /\ (file \notin Sector => cpu' = Nothing)
  BY <1>1, <1>2, LoadedType
<1>4. status' \in Status /\ answered' \in BOOLEAN
  <2> DEFINE state == IF file \in Sector THEN "ok" ELSE "error"
  <2>1. /\ answered' \in BOOLEAN
        /\ \/ status' = [state |-> state, count |-> cpu'.count]
           \/ status' \in {status, [state |-> "torn", count |-> 0]}
    BY DEF Load, Answer
  <2>2. cpu'.count \in Nat /\ state \in {"ok", "error"}
    BY <1>3 DEF Points
  <2> HIDE DEF state
  <2>3. CASE status' = [state |-> state, count |-> cpu'.count]
    BY <2>1, <2>2, <2>3 DEF Status
  <2>4. CASE status' \in {status, [state |-> "torn", count |-> 0]}
    BY <2>1, <2>4 DEF Status, TypeOK
  <2> QED BY <2>1, <2>3, <2>4
<1>5. answered' => /\ status'.count = cpu'.count
                   /\ status'.state = "error" => cpu' = Nothing
  BY <1>3 DEF Load, Answer
<1> QED BY <1>1, <1>2, <1>3, <1>4, <1>5 DEF Load, Answer, files

------------------------------------------------------------------------------
\* The inductive invariant.  An answer stays true only while the shadow is the
\* buffer's.  That a posted request finds both files whole needs what is known
\* half way: before the sidecar is written the binary is already the job's.

HalfWritten == job.step = "sidecar" => binary = job.sector

IInv ==
  /\ TypeOK
  /\ GpuShadowsCpu
  /\ HalfWritten
  /\ PublishedIsWhole
  /\ AnswerDescribesView

\* The invariant holds before the first export.
LEMMA InitIInv ==
  ASSUME BridgeAssumption, Init
  PROVE  IInv
<1>1. TypeOK
  <2>1. request \in Request /\ status \in Status
    BY DEF BridgeAssumption, Init, Request, Status
  <2>2. job \in Job
    BY DEF Init, Job, Idle
  <2>3. maxPoints \in 1 .. DefaultCap
    BY DEF BridgeAssumption, Init
  <2> QED BY <2>1, <2>2, <2>3 DEF Init, TypeOK, File, Points, Nothing
<1> QED BY <1>1 DEF Init, IInv, GpuShadowsCpu, HalfWritten, PublishedIsWhole, AnswerDescribesView, Idle

\* Python's handlers do not touch the engine, and a new request voids the answer.
LEMMA PythonIInv ==
  ASSUME BridgeAssumption, IInv, Python
  PROVE  IInv'
<1> USE DEF IInv
<1>1. UNCHANGED <<status, cpu, gpu, maxPoints>>
  BY DEF Python, StartExport, StartReload, StartClear, WriteBinary, WriteSidecar,
         WriteRequest, DropBinary, DropSidecar, WriteClear, Fail, engine
<1>2. TypeOK'
  <2>1. ASSUME NEW s \in Sector, NEW cap \in {0, ModeCap}, StartExport(s, cap) PROVE TypeOK'
    BY <2>1 DEF StartExport, TypeOK, Job, files, engine
  <2>2. CASE StartReload BY <2>2, IdleType DEF StartReload, TypeOK, files, engine
  <2>3. CASE StartClear BY <2>3, IdleType DEF StartClear, TypeOK, files, engine
  <2>4. CASE WriteBinary
    <3>1. job' \in Job
      BY <2>4, JobStep DEF WriteBinary, TypeOK
    <3>2. binary' \in File
      BY <2>4, JobStep DEF WriteBinary, TypeOK, File
    <3> QED BY <1>1, <2>4, <3>1, <3>2 DEF WriteBinary, TypeOK, engine
  <2>5. CASE WriteSidecar BY <2>5, JobStep DEF WriteSidecar, TypeOK, File, engine
  <2>6. CASE WriteRequest
    <3>1. job.cap \in 0 .. ModeCap
      <4>1. job \in Job
        BY DEF TypeOK
      <4>2. job.cap \in {0, ModeCap}
        BY <4>1, JobStep
      <4> QED BY <4>2 DEF BridgeAssumption
    <3>2. request' \in Request /\ job' \in Job
      BY <2>6, <3>1, IdleType DEF WriteRequest, Request
    <3> QED BY <1>1, <2>6, <3>2 DEF WriteRequest, TypeOK
  <2>7. CASE DropBinary
    <3>1. job' \in Job
      BY <2>7, JobStep DEF DropBinary, TypeOK
    <3>2. binary' \in File
      BY <2>7 DEF DropBinary, TypeOK, File
    <3> QED BY <1>1, <2>7, <3>1, <3>2 DEF DropBinary, TypeOK, engine
  <2>8. CASE DropSidecar BY <2>8, JobStep DEF DropSidecar, TypeOK, File, engine
  <2>9. CASE WriteClear
    <3>1. request' \in Request /\ job' \in Job
      BY <2>9, IdleType DEF WriteClear, Request, BridgeAssumption
    <3> QED BY <1>1, <2>9, <3>1 DEF WriteClear, TypeOK
  <2>10. CASE Fail
    <3>1. binary' \in File /\ sidecar' \in File /\ request' \in Request
      BY <2>10, DamageType DEF Fail
    <3>2. answered' \in BOOLEAN /\ job' \in Job
      BY <2>10, IdleType DEF Fail, TypeOK
    <3> QED BY <1>1, <3>1, <3>2 DEF TypeOK
  <2> QED BY <2>1, <2>2, <2>3, <2>4, <2>5, <2>6, <2>7, <2>8, <2>9, <2>10 DEF Python
<1>3. GpuShadowsCpu'
  BY <1>1 DEF GpuShadowsCpu
<1>4. HalfWritten' /\ PublishedIsWhole'
  <2>1. job \in Job
    BY DEF TypeOK
  <2>2. CASE WriteBinary
    BY <2>1, <2>2, JobStep DEF WriteBinary, HalfWritten, PublishedIsWhole
  <2>3. CASE WriteSidecar
    <3>1. job.step = "sidecar" /\ job'.sector = job.sector /\ sidecar' = job.sector
      BY <2>1, <2>3, JobStep DEF WriteSidecar
    <3>2. job'.step = "request" /\ binary' = binary
      BY <2>1, <2>3, JobStep DEF WriteSidecar
    <3> QED BY <3>1, <3>2 DEF HalfWritten, PublishedIsWhole
  <2>4. CASE DropBinary \/ DropSidecar
    <3>1. job'.step \notin {"sidecar", "request"}
      BY <2>1, <2>4, JobStep DEF DropBinary, DropSidecar
    <3> QED BY <3>1 DEF HalfWritten, PublishedIsWhole
  <2>5. ASSUME NEW s \in Sector, NEW cap \in {0, ModeCap}, StartExport(s, cap)
        PROVE  HalfWritten' /\ PublishedIsWhole'
    BY <2>5 DEF StartExport, HalfWritten, PublishedIsWhole
  <2>6. CASE StartReload \/ StartClear \/ WriteRequest \/ WriteClear \/ Fail
    BY <2>6, IdleType
    DEF StartReload, StartClear, WriteRequest, WriteClear, Fail, HalfWritten,
        PublishedIsWhole
  <2> QED BY <2>2, <2>3, <2>4, <2>5, <2>6 DEF Python
<1>5. answered' => answered /\ request' = request
  BY DEF Python, StartExport, StartReload, StartClear, WriteBinary, WriteSidecar,
         WriteRequest, DropBinary, DropSidecar, WriteClear, Fail, files, TypeOK
<1>6. AnswerDescribesView'
  BY <1>1, <1>5 DEF AnswerDescribesView, View
<1> QED BY <1>2, <1>3, <1>4, <1>6

\* A native command or redraw leaves the shadow the buffer's; every answer is
\* about the buffer it leaves.
LEMMA NativeIInv ==
  ASSUME BridgeAssumption, IInv, Native
  PROVE  IInv'
<1> USE DEF IInv
<1>1. UNCHANGED <<binary, sidecar, request, job>>
  BY DEF Native, RejectRequest, ServeClear, ServeLoad, FreeStarfield, Draw, Answer,
         Load, files
<1>2. HalfWritten' /\ PublishedIsWhole'
  BY <1>1 DEF HalfWritten, PublishedIsWhole
<1>3. CASE RejectRequest
  <2>1. /\ status' \in Status /\ answered' = FALSE
        /\ cpu' = cpu /\ gpu' = cpu' /\ maxPoints' = maxPoints
    BY <1>3, AnswerType DEF RejectRequest, Answer, Shadow
  <2> QED BY <1>1, <1>2, <2>1 DEF TypeOK, GpuShadowsCpu, AnswerDescribesView
<1>4. CASE ServeClear
  <2>0. status' \in Status /\ answered' \in BOOLEAN
    BY <1>4, AnswerType DEF ServeClear
  <2>1. /\ answered' => status'.count = 0 /\ status'.state = "ok"
        /\ request.state = "clear"
        /\ cpu' = Nothing /\ gpu' = cpu' /\ maxPoints' = maxPoints
    BY <1>4 DEF ServeClear, Answer, Shadow
  <2>2. Nothing \in Points
    BY DEF Points, Nothing
  <2>3. AnswerDescribesView'
    BY <1>1, <2>1 DEF AnswerDescribesView, View, Nothing
  <2> QED BY <1>1, <1>2, <2>0, <2>1, <2>2, <2>3 DEF TypeOK, GpuShadowsCpu
<1>5. CASE ServeLoad
  <2> DEFINE file == IF request.state = "load" THEN binary ELSE "missing"
  <2>1. request.cap \in 0 .. ModeCap /\ Load(file, request.cap)
    BY <1>5 DEF ServeLoad, TypeOK, Request
  <2> HIDE DEF file
  <2>2. /\ maxPoints' \in 1 .. DefaultCap
        /\ request.cap > 0 => maxPoints' = request.cap
        /\ cpu' \in Points /\ gpu' = cpu'
        /\ cpu'.count <= maxPoints'
        /\ status' \in Status /\ answered' \in BOOLEAN
        /\ answered' => /\ status'.count = cpu'.count
                        /\ status'.state = "error" => cpu' = Nothing
    BY <2>1, LoadEffect
  <2>3. View' = cpu'
    BY <2>2 DEF View
  <2>4. AnswerDescribesView'
    BY <1>1, <2>2, <2>3 DEF AnswerDescribesView
  <2> QED BY <1>1, <1>2, <2>1, <2>2, <2>4 DEF TypeOK, GpuShadowsCpu
<1>6. CASE FreeStarfield \/ Draw
  <2>1. /\ UNCHANGED <<status, answered, cpu, maxPoints>>
        /\ gpu' \in {Nothing, cpu}
    BY <1>6 DEF FreeStarfield, Draw
  <2>2. View' = View
    BY <2>1 DEF View, GpuShadowsCpu
  <2>3. gpu' \in Points
    BY <2>1 DEF TypeOK, Points, Nothing
  <2>4. TypeOK'
    BY <1>1, <2>1, <2>3 DEF TypeOK
  <2>5. AnswerDescribesView'
    BY <1>1, <2>1, <2>2 DEF AnswerDescribesView
  <2> QED BY <1>2, <2>1, <2>4, <2>5 DEF GpuShadowsCpu
<1> QED BY <1>3, <1>4, <1>5, <1>6 DEF Native

\* The end of a session empties the engine and voids the answer.
LEMMA HostIInv ==
  ASSUME BridgeAssumption, IInv, Host
  PROVE  IInv'
<1> USE DEF IInv
<1>1. /\ cpu' = Nothing /\ gpu' = Nothing /\ maxPoints' = DefaultCap
      /\ answered' = FALSE
  BY DEF Host, Quit, Crash, CrashAnswering, EngineStarts, Answer
<1>2. binary' \in File /\ sidecar' \in File /\ request' \in Request
  <2>1. CASE Crash BY <2>1, DamageType DEF Crash
  <2>2. CASE Quit \/ CrashAnswering
    BY <2>2 DEF Quit, CrashAnswering, Answer, files, TypeOK
  <2> QED BY <2>1, <2>2 DEF Host
<1>3. status' \in Status
  <2>1. CASE Quit BY <2>1, AnswerType DEF Quit
  <2>2. CASE Crash \/ CrashAnswering
    BY <2>2 DEF Crash, CrashAnswering, TypeOK, Status
  <2> QED BY <2>1, <2>2 DEF Host
<1>4. job' = Idle
  BY DEF Host, Quit, Crash, CrashAnswering, Answer
<1>5. Nothing \in Points /\ DefaultCap \in 1 .. DefaultCap
  BY DEF BridgeAssumption, Points, Nothing
<1>6. TypeOK'
  BY <1>1, <1>2, <1>3, <1>4, <1>5, IdleType DEF TypeOK
<1> QED BY <1>1, <1>4, <1>6, IdleType
    DEF GpuShadowsCpu, HalfWritten, PublishedIsWhole, AnswerDescribesView

\* Every step of Python, the native plug-in and the host keeps the invariant.
LEMMA StepIInv ==
  ASSUME BridgeAssumption, IInv, [Next]_vars
  PROVE  IInv'
<1>1. CASE UNCHANGED vars
  BY <1>1 DEF vars, IInv, TypeOK, GpuShadowsCpu, HalfWritten, PublishedIsWhole,
              AnswerDescribesView, View
<1> QED BY <1>1, PythonIInv, NativeIInv, HostIInv DEF Next

\* The invariant holds for ever.
LEMMA AlwaysIInv == Spec => []IInv
<1>1. Init => IInv
  BY InitIInv, BridgeAssumption
<1>2. IInv /\ [Next]_vars => IInv'
  BY StepIInv, BridgeAssumption
<1> QED BY <1>1, <1>2, PTL DEF Spec

\* Every variable keeps its type; a cap of 0 never becomes the engine's.
THEOREM TypeCorrect == Spec => []TypeOK
<1>1. IInv => TypeOK
  BY DEF IInv
<1> QED BY <1>1, AlwaysIInv, PTL

\* The points the renderer walks are never those of an earlier load.
THEOREM ShadowSafe == Spec => []GpuShadowsCpu
<1>1. IInv => GpuShadowsCpu
  BY DEF IInv
<1> QED BY <1>1, AlwaysIInv, PTL

\* An answer that could be written tells the truth about the picture.
THEOREM AnswersAreTrue == Spec => []AnswerDescribesView
<1>1. IInv => AnswerDescribesView
  BY DEF IInv
<1> QED BY <1>1, AlwaysIInv, PTL

\* A request is posted only for files that are whole and of one export.
THEOREM ExportsAreWhole == Spec => []PublishedIsWhole
<1>1. IInv => PublishedIsWhole
  BY DEF IInv
<1> QED BY <1>1, AlwaysIInv, PTL

------------------------------------------------------------------------------
\* The bridge implements PointViewer: the file is the whole binary there is, the
\* view what a redraw shows.

FileBar == IF binary \in Sector THEN binary ELSE "lost"

\* The abstract file is a complete export or lost.
LEMMA FileBarType ==
  /\ FileBar \in Sector \cup {"lost"}
  /\ FileBar' \in Sector \cup {"lost"}
BY DEF FileBar

\* Whatever Python writes is an Export, most of the time of what is there.
LEMMA PythonRefines ==
  ASSUME BridgeAssumption, IInv, Python
  PROVE  FileBar' \in Sector \cup {"lost"} /\ View' = View
<1>1. UNCHANGED <<cpu, gpu>>
  BY DEF Python, StartExport, StartReload, StartClear, WriteBinary, WriteSidecar,
         WriteRequest, DropBinary, DropSidecar, WriteClear, Fail, engine
<1> QED BY <1>1, FileBarType DEF View

\* Every step of the native plug-in is a pick-up or changes nothing the artist sees.
LEMMA NativeRefines ==
  ASSUME BridgeAssumption, IInv, Native
  PROVE  /\ FileBar' = FileBar
         /\ \/ View' = View
            \/ View' = Nothing
            \/ /\ FileBar \in Sector
               /\ \E cap \in 1 .. DefaultCap :
                    View' = [sector |-> FileBar, count |-> AtMost(Size[FileBar], cap)]
<1> USE DEF IInv
<1>1. binary' = binary
  BY DEF Native, RejectRequest, ServeClear, ServeLoad, FreeStarfield, Draw, Answer,
         Load, files
<1>2. FileBar' = FileBar
  BY <1>1 DEF FileBar
<1>3. CASE RejectRequest
  BY <1>2, <1>3 DEF RejectRequest, Shadow, View, GpuShadowsCpu
<1>4. CASE ServeClear
  BY <1>2, <1>4 DEF ServeClear, View
<1>5. CASE ServeLoad
  <2> DEFINE file == IF request.state = "load" THEN binary ELSE "missing"
  <2>1. request.cap \in 0 .. ModeCap /\ Load(file, request.cap)
    BY <1>5 DEF ServeLoad, TypeOK, Request
  <2> HIDE DEF file
  <2>2. /\ maxPoints' \in 1 .. DefaultCap
        /\ cpu' = Loaded(file, maxPoints') /\ gpu' = cpu'
    BY <2>1, LoadEffect
  <2>3. View' = Loaded(file, maxPoints')
    BY <2>2 DEF View
  <2>4. CASE Loaded(file, maxPoints') = Nothing
    BY <1>2, <2>3, <2>4
  <2>5. CASE Loaded(file, maxPoints') # Nothing
    <3>1. /\ file \in Sector
          /\ Loaded(file, maxPoints')
               = [sector |-> file, count |-> AtMost(Size[file], maxPoints')]
      BY <2>5 DEF Loaded
    <3>2. file = FileBar
      BY <3>1 DEF file, FileBar, BridgeAssumption
    <3> QED BY <1>2, <2>2, <2>3, <3>1, <3>2
  <2> QED BY <2>4, <2>5
<1>6. CASE FreeStarfield \/ Draw
  BY <1>2, <1>6 DEF FreeStarfield, Draw, View, GpuShadowsCpu
<1> QED BY <1>3, <1>4, <1>5, <1>6 DEF Native

\* The end of the host empties the picture and keeps or loses the file.
LEMMA HostRefines ==
  ASSUME BridgeAssumption, IInv, Host
  PROVE  View' = Nothing /\ FileBar' \in {FileBar, "lost"}
<1>1. View' = Nothing
  BY DEF Host, Quit, Crash, CrashAnswering, EngineStarts, View
<1>2. binary' \in {binary, "torn"}
  BY DEF Host, Quit, Crash, CrashAnswering, Answer, files, Damage
<1>3. "torn" \notin Sector
  BY DEF BridgeAssumption
<1> QED BY <1>1, <1>2, <1>3 DEF FileBar

\* Every step of the bridge is a step of the viewer or changes nothing the
\* artist sees: the picture is nothing or the head of one complete export.
THEOREM BridgeImplementsViewer == Spec => DrawsCompleteExports
<1> USE DEF Viewer!viewerVars, FileBar
<1>1. Init => Viewer!ViewerInit
  BY BridgeAssumption DEF Init, Viewer!ViewerInit, View, Nothing, Viewer!Nothing,
     BridgeAssumption
<1>2. IInv /\ [Next]_vars => [Viewer!ViewerNext]_(Viewer!viewerVars)
  <2> SUFFICES ASSUME IInv, [Next]_vars PROVE [Viewer!ViewerNext]_(Viewer!viewerVars)
    OBVIOUS
  <2>1. CASE Python
    <3>1. FileBar' \in Sector \cup {"lost"} /\ View' = View
      BY <2>1, BridgeAssumption, PythonRefines
    <3>2. Viewer!Export
      BY <3>1 DEF Viewer!Export
    <3> QED BY <3>2 DEF Viewer!ViewerNext
  <2>2. CASE Native
    <3>1. FileBar' = FileBar
      BY <2>2, BridgeAssumption, NativeRefines
    <3>2. CASE View' = View
      BY <3>1, <3>2
    <3>3. CASE View' # View
      <4>1. Viewer!PickUp
        BY <2>2, <3>1, <3>3, BridgeAssumption, NativeRefines
        DEF Viewer!PickUp, Nothing, Viewer!Nothing, AtMost, Viewer!AtMost
      <4> QED BY <4>1 DEF Viewer!ViewerNext
    <3> QED BY <3>2, <3>3
  <2>3. CASE Host
    <3>1. View' = Nothing /\ FileBar' \in {FileBar, "lost"}
      BY <2>3, BridgeAssumption, HostRefines
    <3>2. Viewer!HostDies
      BY <3>1 DEF Viewer!HostDies, Nothing, Viewer!Nothing
    <3> QED BY <3>2 DEF Viewer!ViewerNext
  <2>4. CASE UNCHANGED vars
    BY <2>4 DEF vars, View
  <2> QED BY <2>1, <2>2, <2>3, <2>4 DEF Next
<1> QED BY <1>1, <1>2, AlwaysIInv, PTL DEF Spec, DrawsCompleteExports, Viewer!ViewerSpec
==============================================================================
