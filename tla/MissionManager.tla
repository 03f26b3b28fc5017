--------------------------- MODULE MissionManager ---------------------------
(****************************************************************************)
(* The artist's missions: one JSON file each in the missions directory, and *)
(* index.json with the order in which they are listed.  A handler changes   *)
(* the manager's memory first and then writes its files, one after another: *)
(* the mission through a temporary file and a rename, the index in place.   *)
(* The temporary file has one name per mission, which all sessions share.   *)
(*                                                                          *)
(* Every file is a step of its own, because every writing may fail and the  *)
(* host may die between and during them.  The artist may put files into the *)
(* directory, break or remove them, and another session may write there.    *)
(****************************************************************************)
EXTENDS Naturals, Sequences, FiniteSets

CONSTANTS
  Id,       \* mission ids, in the order of their names in the directory
  Alien,    \* other names of .json files in it, in the same order
  MaxClock, \* bound: seconds in which a mission is modified
  Outside   \* what others do to the directory

AllOutside == {"put", "break", "remove", "index", "tmp"}

ASSUME MissionAssumption ==
  /\ Id \subseteq Nat \ {0} /\ IsFiniteSet(Id)
  /\ Alien \subseteq Nat \ {0} /\ IsFiniteSet(Alien)
  /\ Id \cap Alien = {}
  /\ MaxClock \in Nat \ {0}
  /\ Outside \subseteq AllOutside

VARIABLES
  open,     \* a MissionManager has loaded the directory
  missions, \* _missions: modified_iso by id, 0 for an unknown id
  order,    \* _order
  file,     \* what each .json file holds
  index,    \* index.json
  tmp,      \* what <job.id>.json.tmp holds while a handler is about to rename it
  job,      \* the handler in progress: its next step and its mission
  clean,    \* since the load no writing failed and nobody else wrote here
  used,     \* ids given out: a new one is a fresh uuid
  clock     \* the wall clock

memory == <<open, missions, order>>
disk == <<file, index, tmp>>
vars == <<open, missions, order, file, index, tmp, job, clean, used, clock>>

Name == Id \cup Alien

\* Two sets of bytes with one modified_iso are the same version of a mission.
Content == [id : Id \cup {0}, stamp : 0 .. MaxClock]
Missing == [id |-> 0, stamp |-> 0]
Cut == [id |-> 0, stamp |-> 1]

\* The sequences that list each of the ids once.
ListsOnce(o, ids) ==
  /\ \A i \in ids : \E p \in DOMAIN o : o[p] = i
  /\ \A p \in DOMAIN o : o[p] \in ids
  /\ \A p, q \in DOMAIN o : o[p] = o[q] => p = q

Arrangement(ids) == {o \in [1 .. Cardinality(ids) -> ids] : ListsOnce(o, ids)}

Index == [state : {"missing", "cut", "whole"}, ids : Seq(Id)]

Idle == [step |-> "idle", id |-> 0]
Job == [step : {"stage", "replace", "unlink"}, id : Id]
         \cup [step : {"idle", "truncate", "index"}, id : {0}]

Registered == {i \in Id : missions[i] # 0}

TypeOK ==
  /\ open \in BOOLEAN
  /\ missions \in [Id -> 0 .. MaxClock]
  /\ order \in Seq(Id)
  /\ file \in [Name -> Content]
  /\ index \in Index
  /\ tmp \in Content
  /\ job \in Job
  /\ clean \in BOOLEAN
  /\ used \subseteq Id
  /\ clock \in 1 .. MaxClock

Forgotten == [i \in Id |-> 0]

Init ==
  /\ open = FALSE
  /\ missions = Forgotten
  /\ order = <<>>
  /\ file = [n \in Name |-> Missing]
  /\ index = [state |-> "missing", ids |-> <<>>]
  /\ tmp = Missing
  /\ job = Idle
  /\ clean = FALSE
  /\ used = {}
  /\ clock = 1

------------------------------------------------------------------------------
\* reload: the directory says which missions there are, the index their order

Holders(i) == {n \in Name : file[n].id = i}

\* Mutant of NewestOf: the comparison of the dates is swapped.
OldestOf(i) ==
  CHOOSE stamp \in {file[n].stamp : n \in Holders(i)} :
    \A n \in Holders(i) : stamp <= file[n].stamp

\* Of several files with one mission_id the one modified last counts.
NewestOf(i) ==
  CHOOSE stamp \in {file[n].stamp : n \in Holders(i)} :
    \A n \in Holders(i) : file[n].stamp <= stamp

\* A file that cannot be parsed is skipped.
Loaded == [i \in Id |-> IF Holders(i) = {} THEN 0 ELSE NewestOf(i)]

FirstHolder(i) == CHOOSE n \in Holders(i) : \A m \in Holders(i) : n <= m

\* Ids the index lists come first, the others in the order of their files.
Rank(i) ==
  LET listed == {p \in DOMAIN index.ids : index.ids[p] = i} IN
  IF listed = {} THEN Len(index.ids) + FirstHolder(i)
  ELSE CHOOSE p \in listed : \A q \in listed : p <= q

Ranked(o) == \A p, q \in DOMAIN o : p < q => Rank(o[p]) < Rank(o[q])

Reload ==
  /\ job = Idle
  /\ open' = TRUE
  /\ missions' = Loaded
  /\ order' \in {o \in Arrangement({i \in Id : Loaded[i] # 0}) : Ranked(o)}
  /\ clean' = TRUE
  /\ UNCHANGED <<disk, job, used, clock>>

------------------------------------------------------------------------------
\* The handlers: memory first

Ready == open /\ job = Idle

SaveMission(i) == job' = [step |-> "stage", id |-> i]
SaveIndex == job' = [step |-> "truncate", id |-> 0]

\* create: its callers see to it that the id is not registered yet.
Create(i, stamp) ==
  /\ missions' = [missions EXCEPT ![i] = stamp]
  /\ order' = Append(order, i)
  /\ SaveMission(i)
  /\ used' = used \cup {i}

\* New, and the import of a file that is not JSON: a blank mission.
New ==
  /\ Ready
  /\ clock < MaxClock
  /\ clock' = clock + 1
  /\ \E i \in Id \ used : Create(i, clock')
  /\ UNCHANGED <<open, disk, clean>>

Duplicate(source) ==
  /\ Ready
  /\ source \in Registered
  /\ \E i \in Id \ used : Create(i, missions[source])
  /\ UNCHANGED <<open, disk, clean, clock>>

\* Mutant of ImportedId: the id of the file is kept.
ImportedIdKept(i, mine) == mine = i

\* An imported mission keeps its id unless one of that id is registered.
ImportedId(i, mine) == IF i \in Registered THEN mine \notin used ELSE mine = i

\* import_mission; import_package is a series of them.
Import(i, stamp) ==
  /\ Ready
  /\ \E mine \in Id : ImportedId(i, mine) /\ Create(mine, stamp)
  /\ UNCHANGED <<open, disk, clean, clock>>

\* update, rename, add_tags, remove_tag.
Update(i) ==
  /\ Ready
  /\ i \in Registered
  /\ clock < MaxClock
  /\ clock' = clock + 1
  /\ missions' = [missions EXCEPT ![i] = clock']
  /\ SaveMission(i)
  /\ UNCHANGED <<open, order, disk, clean, used>>

Without(o, p) == SubSeq(o, 1, p - 1) \o SubSeq(o, p + 1, Len(o))

Delete(i) ==
  /\ Ready
  /\ i \in Registered
  /\ missions' = [missions EXCEPT ![i] = 0]
  /\ \E p \in DOMAIN order : order[p] = i /\ order' = Without(order, p)
  /\ job' = [step |-> "unlink", id |-> i]
  /\ UNCHANGED <<open, disk, clean, used, clock>>

\* move and sort, whose keys are titles, dates and counts of the artist's.
Rearrange ==
  /\ Ready
  /\ order' \in Arrangement(Registered)
  /\ SaveIndex
  /\ UNCHANGED <<open, missions, disk, clean, used, clock>>

------------------------------------------------------------------------------
\* The handlers: one step per file

\* What this session has of the mission it saves.
Mine == [id |-> job.id, stamp |-> missions[job.id]]

\* Mutant of StageMission: the mission file is written in place.
StageInPlace ==
  /\ job.step = "stage"
  /\ file' = [file EXCEPT ![job.id] = Cut]
  /\ tmp' = Mine
  /\ job' = [step |-> "replace", id |-> job.id]
  /\ UNCHANGED <<memory, index, clean, used, clock>>

\* safe_write_json, the temporary file: whatever a crash or another session left
\* there is written over, and no reload looks at it.
StageMission ==
  /\ job.step = "stage"
  /\ tmp' = Mine
  /\ job' = [step |-> "replace", id |-> job.id]
  /\ UNCHANGED <<memory, file, index, clean, used, clock>>

\* What is renamed is what the temporary file holds by now.
ReplaceMission ==
  /\ job.step = "replace"
  /\ tmp # Missing
  /\ file' = [file EXCEPT ![job.id] = tmp]
  /\ tmp' = Missing
  /\ SaveIndex
  /\ UNCHANGED <<memory, index, clean, used, clock>>

\* safe_write_json removes the temporary file and returns None, which nobody
\* looks at; the index is written.
SaveFails ==
  /\ job.step \in {"stage", "replace"}
  /\ tmp' = Missing
  /\ SaveIndex
  /\ clean' = FALSE
  /\ UNCHANGED <<memory, file, index, used, clock>>

\* The directory cannot be made: the exception leaves the handler.
HandlerRaises ==
  /\ job.step \in {"stage", "truncate"}
  /\ job' = Idle
  /\ clean' = FALSE
  /\ UNCHANGED <<memory, disk, used, clock>>

\* Mutant of Unlink: the file of a deleted mission stays.
UnlinkNothing ==
  /\ job.step = "unlink"
  /\ SaveIndex
  /\ UNCHANGED <<memory, disk, clean, used, clock>>

Unlink ==
  /\ job.step = "unlink"
  /\ file' = [file EXCEPT ![job.id] = Missing]
  /\ SaveIndex
  /\ UNCHANGED <<memory, index, tmp, clean, used, clock>>

UnlinkFails ==
  /\ job.step = "unlink"
  /\ file[job.id] # Missing
  /\ SaveIndex
  /\ clean' = FALSE
  /\ UNCHANGED <<memory, disk, used, clock>>

TruncateIndex ==
  /\ job.step = "truncate"
  /\ index' = [state |-> "cut", ids |-> <<>>]
  /\ job' = [step |-> "index", id |-> 0]
  /\ UNCHANGED <<memory, file, tmp, clean, used, clock>>

WriteIndex ==
  /\ job.step = "index"
  /\ index' = [state |-> "whole", ids |-> order]
  /\ job' = Idle
  /\ UNCHANGED <<memory, file, tmp, clean, used, clock>>

IndexFails ==
  /\ job.step \in {"truncate", "index"}
  /\ job' = Idle
  /\ clean' = FALSE
  /\ UNCHANGED <<memory, disk, used, clock>>

\* The host dies, or is closed when no handler runs.  A temporary file may be
\* left, which nobody reads before it is written over.
Crash ==
  /\ open
  /\ open' = FALSE
  /\ missions' = Forgotten
  /\ order' = <<>>
  /\ job' = Idle
  /\ tmp' = Missing
  /\ UNCHANGED <<file, index, clean, used, clock>>

Manager ==
  \/ Reload
  \/ New
  \/ \E i \in Id : Duplicate(i) \/ Update(i) \/ Delete(i)
  \/ \E i \in Id, stamp \in 1 .. clock : Import(i, stamp)
  \/ Rearrange
  \/ StageMission \/ ReplaceMission \/ SaveFails \/ HandlerRaises
  \/ Unlink \/ UnlinkFails
  \/ TruncateIndex \/ WriteIndex \/ IndexFails
  \/ Crash

------------------------------------------------------------------------------
\* Everybody else

\* A file of the artist's bears any name, one of another session its mission's.
\* Clocks agree: no file was modified in the future.
PutFile(n, i, stamp) ==
  /\ n \in Id => n = i
  /\ file' = [file EXCEPT ![n] = [id |-> i, stamp |-> stamp]]
  /\ used' = used \cup {i}
  /\ UNCHANGED <<index, tmp>>

BreakFile(n) ==
  /\ file[n].id # 0
  /\ file' = [file EXCEPT ![n] = Cut]
  /\ UNCHANGED <<index, tmp, used>>

RemoveFile(n) ==
  /\ file[n] # Missing
  /\ file' = [file EXCEPT ![n] = Missing]
  /\ UNCHANGED <<index, tmp, used>>

ChangeIndex ==
  /\ \/ \E s \in {"missing", "cut"} : index' = [state |-> s, ids |-> <<>>]
     \/ \E S \in SUBSET used : \E o \in Arrangement(S) :
          index' = [state |-> "whole", ids |-> o]
  /\ UNCHANGED <<file, tmp, used>>

\* Another session saves the same mission between this one's writing and its
\* renaming: it has the temporary file open and cut short, has written its own
\* version there, has renamed what there is, or has removed it after a failure.
ShareTmp ==
  /\ job.step = "replace"
  /\ \/ /\ tmp' \in {Missing, Cut} \cup [id : {job.id}, stamp : 1 .. clock]
        /\ UNCHANGED file
     \/ /\ tmp # Missing
        /\ file' = [file EXCEPT ![job.id] = tmp]
        /\ tmp' = Missing
  /\ UNCHANGED <<index, used>>

Others ==
  /\ clean' = FALSE
  /\ \/ "put" \in Outside /\ \E n \in Name, i \in Id, stamp \in 1 .. clock : PutFile(n, i, stamp)
     \/ "break" \in Outside /\ \E n \in Name : BreakFile(n)
     \/ "remove" \in Outside /\ \E n \in Name : RemoveFile(n)
     \/ "index" \in Outside /\ ChangeIndex
     \/ "tmp" \in Outside /\ ShareTmp
  /\ UNCHANGED <<memory, job, clock>>

Next == Manager \/ Others

Spec == Init /\ [][Next]_vars

------------------------------------------------------------------------------
\* Properties

\* The list the artist sees shows every mission of the library once.
ListedOnce == ListsOnce(order, Registered)

\* Whatever fails and whenever the host dies, a step of the manager changes the
\* stored version of no mission but the one its handler is about, replaces it
\* by no version older than the one in memory, and takes it away only when the
\* mission is deleted.  That it is memory's version holds as long as no other
\* session got at the temporary file: where two save one mission at a time, each
\* may publish what the other has written so far, cut short or older.
StoredSafely ==
  \A i \in Id : Loaded'[i] # Loaded[i] =>
    /\ i = job.id
    /\ (job.step = "replace" => tmp = Mine) =>
         Loaded'[i] = missions[i] \/ (missions[i] <= Loaded'[i] /\ Loaded'[i] < Loaded[i])

OneVersionAtATime == [][Manager => StoredSafely]_vars

Undisturbed == open /\ job = Idle /\ clean

\* When no writing failed and nobody else wrote, a restart brings back every
\* mission, in the order it is listed in and no older than it is.
Recoverable ==
  Undisturbed =>
    /\ \A i \in Registered : Loaded[i] >= missions[i]
    /\ Ranked(order)

NamedById == \A n \in Name : file[n].id \in {0, n}

\* If in addition every file is named after its mission, it brings back the very
\* same versions and none of the missions that were deleted.
RestartIsNoOp == (Undisturbed /\ NamedById) => Loaded = missions
==============================================================================
