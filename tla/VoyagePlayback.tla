--------------------------- MODULE VoyagePlayback ---------------------------
(* The Missions tab: the playback engine (voyage/playback.py), the camera    *)
(* path it steps along (voyage/camera_path.py) and the dialog's handlers     *)
(* that build, drive and drop it (ui/main_dialog.py).                        *)
(*                                                                           *)
(* A waypoint is its duration, travel and pause together, in 1/Grain of a    *)
(* second, or Unresolved when no position is cached for it.  A camera path   *)
(* is the durations of its waypoints and the speed it was built at; poses    *)
(* and the interpolation mode are left out.  The plug-in never loops.        *)
EXTENDS Integers, Sequences, SequencesExt

CONSTANTS Missions,      \* mission ids
          Files,         \* the waypoints of missions an artist can import
          Unresolved,    \* a waypoint without a cached position
          None,
          MaxWaypoints,  \* MAX_WAYPOINTS_PER_MISSION
          Speeds,        \* readings of the Speed field
          Grain,         \* durations count 1/Grain of a second
          StepsPerSecond, SyncEvery,
          MaxRate        \* steps per second above which syncs are throttled

\* Every duration is positive (MissionWaypoint.__post_init__).
Waypoints == (Nat \ {0}) \cup {Unresolved}

ASSUME VoyageAssumption ==
  /\ None \notin Missions \cup Nat
  /\ Unresolved \notin Nat
  /\ Files \subseteq Seq(Waypoints)
  /\ Speeds \subseteq Nat \ {0}
  /\ {MaxWaypoints, Grain, StepsPerSecond, SyncEvery, MaxRate} \subseteq Nat \ {0}

VARIABLES list,     \* the mission list, in display order
          wps,      \* the waypoints of each mission
          active,   \* _active_mission_id
          pick,     \* the "Pick #" field
          eng       \* _playback: the loaded engine

voyageVars == <<list, wps, active, pick, eng>>

Listed == Range(list)

-----------------------------------------------------------------------------
(* The camera path *)

\* Python's round(a / b): halves go to the even side.
Rounded(a, b) ==
  LET q == a \div b  r == 2 * (a % b)
  IN  IF r > b \/ (r = b /\ q % 2 = 1) THEN q + 1 ELSE q

\* The running sums of the durations.
Elapsed(legs) ==
  LET sum[i \in 0 .. Len(legs)] == IF i = 0 THEN 0 ELSE sum[i - 1] + legs[i]
  IN  sum

Total(legs) == Elapsed(legs)[Len(legs)]

\* Waypoints without a position are dropped from the path, front to back.
ResolvedLegs(ws) ==
  LET legs[i \in 0 .. Len(ws)] ==
        IF i = 0 THEN <<>>
        ELSE IF ws[i] = Unresolved THEN legs[i - 1] ELSE Append(legs[i - 1], ws[i])
  IN  legs[Len(ws)]

CameraPath(m) == ResolvedLegs(wps[m])

\* At least one step per segment.
TotalSteps(legs, speed) ==
  LET steps == Rounded(Total(legs) * StepsPerSecond, Grain * speed)
  IN  IF steps < Len(legs) - 1 THEN Len(legs) - 1 ELSE steps

\* The mutant places the waypoints by their times, whatever the path's speed.
AnchorsByTime(legs, total) ==
  [i \in 1 .. Len(legs) |->
     IF i = Len(legs) THEN total
     ELSE Rounded((Elapsed(legs)[i] - legs[1]) * StepsPerSecond, Grain)]

\* The step of each waypoint.  The first duration counts in the total but not
\* in the running sum; the last anchor is set to the end.
Anchors(legs, total) ==
  [i \in 1 .. Len(legs) |->
     IF i = Len(legs) THEN total
     ELSE Rounded((Elapsed(legs)[i] - legs[1]) * total, Total(legs))]

\* The mutant takes the first of several waypoints at one step.
WaypointAtFirst(e, step) ==
  CHOOSE i \in DOMAIN e.anchors :
    /\ e.anchors[i] <= step
    /\ \A j \in DOMAIN e.anchors :
         e.anchors[j] <= step =>
           e.anchors[j] < e.anchors[i] \/ (e.anchors[j] = e.anchors[i] /\ i <= j)
WaypointAt(e, step) ==
  CHOOSE i \in DOMAIN e.anchors :
    /\ \A j \in 1 .. i : e.anchors[j] <= step
    /\ i < Len(e.anchors) => e.anchors[i + 1] > step

-----------------------------------------------------------------------------
(* The engine.  synced is the step of the last tick that asked for a sync of *)
(* the visible sector, None as long as none did: neither the constructor nor *)
(* play() asks for one.                                                      *)

Playback(m, pathSpeed, speed) ==
  LET legs == CameraPath(m)  total == TotalSteps(legs, pathSpeed)
  IN  [owner |-> m, total |-> total, anchors |-> Anchors(legs, total), speed |-> speed,
       step |-> 0, playing |-> FALSE, since |-> 0, synced |-> None]

SyncTick(e) == [e EXCEPT !.synced = e.step]
SeekTo(e, step) == SyncTick([e EXCEPT !.step = step, !.since = 0])

\* A jump to a waypoint leaves the sync counter and the play flag alone.
JumpToWaypoint(e, i) ==
  LET n == Len(e.anchors)
      idx == IF i < 1 THEN 1 ELSE IF i > n THEN n ELSE i
  IN  SyncTick([e EXCEPT !.step = e.anchors[idx]])

NextWaypoint(e) == JumpToWaypoint(e, WaypointAt(e, e.step) + 1)

PreviousWaypoint(e) ==
  LET i == WaypointAt(e, e.step)
  IN  JumpToWaypoint(e, IF e.step > e.anchors[i] THEN i ELSE i - 1)

\* Above MaxRate a sync is asked for once a second.
Cadence(speed) ==
  LET rate == StepsPerSecond * speed
  IN  IF rate > MaxRate /\ rate > SyncEvery THEN rate ELSE SyncEvery

CrossedAnchor(e, a, b) ==
  \E s \in Range(e.anchors) : (a < s /\ s <= b) \/ (b < s /\ s <= a)

\* The mutants sync at the cadence alone, and count the steps after the test.
DueCadenceOnly(e, to) == e.since + 1 >= Cadence(e.speed)
DueLate(e, to) == \/ CrossedAnchor(e, e.step, to)
                  \/ to = 0 \/ to = e.total
                  \/ e.since >= Cadence(e.speed)
SyncDue(e, to) == \/ CrossedAnchor(e, e.step, to)
                  \/ to = 0 \/ to = e.total
                  \/ e.since + 1 >= Cadence(e.speed)

MoveBy(e, delta) ==
  LET end  == e.total
      to   == IF e.step + delta >= end THEN end
              ELSE IF e.step + delta < 0 THEN 0 ELSE e.step + delta
      here == [e EXCEPT !.step = to, !.playing = @ /\ e.step + delta < end]
  IN  IF SyncDue(e, to) THEN SyncTick([here EXCEPT !.since = 0])
                        ELSE [here EXCEPT !.since = @ + 1]

Transports == {"play", "pause", "stop", "next", "prev", "step_fwd", "step_back",
               "jump_start", "jump_end"}

Driven(e, t) ==
  CASE t = "play"       -> [e EXCEPT !.playing = TRUE]
    [] t = "pause"      -> [e EXCEPT !.playing = FALSE]
    [] t = "stop"       -> SeekTo([e EXCEPT !.playing = FALSE], 0)
    [] t = "next"       -> NextWaypoint(e)
    [] t = "prev"       -> PreviousWaypoint(e)
    [] t = "step_fwd"   -> MoveBy(e, 1)
    [] t = "step_back"  -> MoveBy(e, -1)
    [] t = "jump_start" -> SeekTo(e, 0)
    [] t = "jump_end"   -> SeekTo([e EXCEPT !.playing = FALSE], e.total)

-----------------------------------------------------------------------------
(* The dialog *)

VoyageInit ==
  /\ list = <<>>
  /\ wps = [m \in Missions |-> <<>>]
  /\ active = None
  /\ pick = 0
  /\ eng = None

\* _active_mission: the remembered mission while it is listed, else the picked.
ActiveMission(l, a) ==
  IF a \in Range(l) THEN a ELSE IF pick < Len(l) THEN l[pick + 1] ELSE None

\* Every handler that changes missions ends in _refresh_mission_panels, which
\* looks the active mission up and remembers it.
Refreshed(l, a) == LET m == ActiveMission(l, a) IN IF m = None THEN a ELSE m

Register(m, content) ==
  /\ m \notin Listed
  /\ list' = Append(list, m)
  /\ wps' = [wps EXCEPT ![m] = content]
  /\ active' = m
  /\ UNCHANGED <<pick, eng>>

NewMission    == \E m \in Missions : Register(m, <<>>)
ImportMission == \E m \in Missions, f \in Files : Register(m, f)
DuplicateMission ==
  \E m \in Missions : /\ ActiveMission(list, active) # None
                      /\ Register(m, wps[ActiveMission(list, active)])

\* The mutant forgets the engine.
EngineKept(e) == e
EngineDropped(e) == None

DeleteMission ==
  LET m == ActiveMission(list, active) IN
  /\ m # None
  /\ \E i \in DOMAIN list : list[i] = m /\ list' = RemoveAt(list, i)
  /\ wps' = [wps EXCEPT ![m] = <<>>]
  /\ eng' = EngineDropped(eng)
  /\ active' = Refreshed(list', None)
  /\ UNCHANGED pick

\* From the selection or from a bookmark: the new waypoint has no position.
AddWaypoint ==
  LET m == ActiveMission(list, active) IN
  /\ m # None
  /\ Len(wps[m]) < MaxWaypoints
  /\ wps' = [wps EXCEPT ![m] = Append(@, Unresolved)]
  /\ active' = m
  /\ UNCHANGED <<list, pick, eng>>

RemoveLastWaypoint ==
  LET m == ActiveMission(list, active) IN
  /\ m # None
  /\ wps[m] # <<>>
  /\ wps' = [wps EXCEPT ![m] = Front(@)]
  /\ active' = m
  /\ UNCHANGED <<list, pick, eng>>

Pick(k) == /\ pick' = k
           /\ UNCHANGED <<list, wps, active, eng>>

\* Only Stop, and the first use, build an engine; with fewer than two resolved
\* waypoints the handler returns.
Transport(t, speed) ==
  LET m == ActiveMission(list, active)
      fresh == eng = None \/ t = "stop"
  IN
  /\ m # None
  /\ active' = m
  /\ eng' = IF ~fresh THEN Driven([eng EXCEPT !.speed = speed], t)
            ELSE IF Len(CameraPath(m)) < 2 THEN eng
            ELSE Driven(Playback(m, speed, speed), t)
  /\ UNCHANGED <<list, wps, pick>>

\* The slider builds an engine of its own when there is none, at speed 1.
Scrub(speed) ==
  LET m == ActiveMission(list, active)
      e == IF eng = None THEN Playback(m, speed, 1) ELSE eng
  IN
  /\ eng = None => m # None /\ Len(CameraPath(m)) >= 2
  /\ active' = IF eng = None THEN m ELSE active
  /\ \E k \in 0 .. e.total : eng' = SeekTo(e, k)
  /\ UNCHANGED <<list, wps, pick>>

\* advance(), for an idle handler or a SceneHook to call.
Advance ==
  /\ eng # None
  /\ eng.playing
  /\ eng' = MoveBy(eng, 1)
  /\ UNCHANGED <<list, wps, active, pick>>

VoyageNext ==
  \/ NewMission \/ ImportMission \/ DuplicateMission \/ DeleteMission
  \/ AddWaypoint \/ RemoveLastWaypoint \/ Advance
  \/ \E k \in 0 .. Len(list) : Pick(k)
  \/ \E t \in Transports, speed \in Speeds : Transport(t, speed)
  \/ \E speed \in Speeds : Scrub(speed)

VoyageSpec == VoyageInit /\ [][VoyageNext]_voyageVars

-----------------------------------------------------------------------------

\* Where the cadence counts from: the last sync, or the start before the first.
CountedFrom(e) == IF e.synced = None THEN 0 ELSE e.synced

\* After any move of the cursor, by steps in both directions, jumps, seeks and
\* changes of speed in between, the pose the sector was last synced for, or the
\* start when there was no sync yet, is less than one cadence of the speed then
\* set away.
SyncOnTime ==
  [][ eng # None /\ eng' # None /\ eng'.step # eng.step =>
        /\ eng'.step - CountedFrom(eng') < Cadence(eng'.speed)
        /\ CountedFrom(eng') - eng'.step < Cadence(eng'.speed) ]_voyageVars

\* Wherever the cursor came from, at both ends of the path the last sync asked
\* for is the one of that end.  The exception is an engine that nothing has
\* moved since it was built: it stands at the start, plays or not, and no tick
\* has asked for a sync yet.
EndsAreSynced ==
  eng # None /\ eng.step \in {0, eng.total} =>
    \/ eng.synced = eng.step
    \/ eng.synced = None /\ eng.step = 0 /\ eng.since = 0

\* Next never gets stuck: from any step short of the end it goes forward, also
\* where rounding gives several waypoints one step.
NextGoesForward ==
  [][ \A speed \in Speeds :
        eng # None /\ Transport("next", speed) /\ eng.step < eng.total =>
          eng'.step > eng.step ]_voyageVars

\* The waypoint named for a step, which Next, Previous and the panel go by, is
\* the last one the cursor has reached: no rounding, speed or first duration puts a
\* waypoint behind an earlier one, where the search would stop before it
\* (_waypoint_index_at_step).
WaypointIsLastReached ==
  eng # None =>
    \A step \in 0 .. eng.total, i \in DOMAIN eng.anchors :
      eng.anchors[i] <= step => i <= WaypointAt(eng, step)

\* The engine may be another mission's than the active one, but its mission is
\* always one of the list: no interleaving of new, import, duplicate, pick and
\* delete leaves an engine of a mission that is gone.
EngineOfListedMission == eng # None => eng.owner \in Listed
=============================================================================
