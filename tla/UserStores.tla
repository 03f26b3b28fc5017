----------------------------- MODULE UserStores -----------------------------
(* The files under ~/.unav_pro that every scene shares (datasets.json,       *)
(* bookmarks.json, projects/<scene>.json), the scene's own container, and    *)
(* the four surfaces of the dialog that read and write them: the Dataset     *)
(* Manager, the External Tools panel, Save/Load UNAV State, and Bookmarks.   *)
(*                                                                           *)
(* A registry is a row per dataset: not registered, enabled or disabled; the *)
(* paths and statistics of an entry are left out.  A project state is its    *)
(* list of enabled datasets.  A handler computes what it writes and runs to  *)
(* its end on the host's main thread; todo holds the writes it still owes,   *)
(* each of two steps between which the program may stop or the write fail.   *)
EXTENDS Naturals, Sequences, SequencesExt

CONSTANTS Datasets,   \* the names a registry may hold
          Sample,     \* the bundled sample catalog
          Marks,      \* the places an artist may bookmark
          Io,         \* how a file operation may go: TRUE works, FALSE is an OSError
          None,       \* no file, nothing in memory, no state
          Torn        \* a file cut short: no valid JSON

ASSUME StoresAssumption ==
  /\ Sample \in Datasets
  /\ Io \subseteq BOOLEAN /\ TRUE \in Io
  /\ None \notin [Datasets -> {"none", "on", "off"}]

VARIABLES registry,   \* datasets.json
          bookmarks,  \* bookmarks.json
          sidecar,    \* projects/<name of the titled scene>.json
          scene,      \* [titled, box, kept]: the container live and in the .c4d
          manager,    \* the Dataset Manager's copy of the registry
          list,       \* the dialog's bookmark list
          last,       \* the dataset of the tools panel's last good run
          todo        \* the writes the running handler still owes

vars == <<registry, bookmarks, sidecar, scene, manager, list, last, todo>>

Registries == [Datasets -> {"none", "on", "off"}]
States     == SUBSET Datasets

NoRows == [d \in Datasets |-> "none"]

TypeOK ==
  /\ registry \in Registries \cup {None}
  /\ scene.box \in States \cup {None} /\ scene.kept \in States \cup {None}
  /\ sidecar \in States \cup {None, Torn}
  /\ manager \in Registries \cup {None}
  /\ last \in Datasets \cup {None}

Init ==
  /\ registry = None /\ bookmarks = None /\ sidecar = None
  /\ scene = [titled |-> FALSE, box |-> None, kept |-> None]
  /\ manager = None /\ list = << >> /\ last = None
  /\ todo = << >>

-----------------------------------------------------------------------------
(* Reading and writing *)

\* Every loader answers a missing, damaged or unreadable file with defaults.
Loaded(file, defaults, read) ==
  IF file \in {None, Torn} \/ ~read THEN defaults ELSE file

LoadRegistry(read) == Loaded(registry, NoRows, read)

\* A write the handler owes: the file, what goes in, whether the file was
\* already opened, the rows the new ones were computed from, the dataset the
\* request was about.
Write(file, body) == [file |-> file, body |-> body, open |-> FALSE,
                      base |-> NoRows, about |-> None]

SaveRegistry(rows, base, about) ==
  [Write("registry", rows) EXCEPT !.base = base, !.about = about]

Bootstrapped == [NoRows EXCEPT ![Sample] = "on"]

\* DatasetManagerController(): an empty registry becomes the sample and is saved.
FirstSave(rows) ==
  IF rows = NoRows THEN <<SaveRegistry(Bootstrapped, NoRows, Sample)>> ELSE << >>

Opened(rows) == IF rows = NoRows THEN Bootstrapped ELSE rows

\* A tool's output joins the registry; the entry of a known one only gains
\* its index, its database or fresh statistics.
Ensured(rows, d) == IF rows[d] = "none" THEN [rows EXCEPT ![d] = "on"] ELSE rows

Idle == todo = << >>

-----------------------------------------------------------------------------
(* The Dataset Manager, whose controller lives as long as the dialog *)

OpenManager ==
  /\ Idle /\ manager = None
  /\ \E read \in Io :
       /\ manager' = Opened(LoadRegistry(read))
       /\ todo' = FirstSave(LoadRegistry(read))
  /\ UNCHANGED <<registry, bookmarks, sidecar, scene, list, last>>

\* add_dataset, remove_dataset and toggle_enabled change the copy and save it
\* whole; refresh_stats and build_index save it unchanged.
ManagerSaves(d, row) ==
  /\ Idle /\ manager # None
  /\ manager' = [manager EXCEPT ![d] = row]
  /\ todo' = <<SaveRegistry(manager', manager, d)>>
  /\ UNCHANGED <<registry, bookmarks, sidecar, scene, list, last>>

AddDataset(d) == manager # None /\ manager[d] = "none" /\ ManagerSaves(d, "on")

RemoveDataset(d) == manager # None /\ manager[d] # "none" /\ ManagerSaves(d, "none")

ToggleDataset(d) ==
  /\ manager # None /\ manager[d] # "none"
  /\ ManagerSaves(d, IF manager[d] = "on" THEN "off" ELSE "on")

RefreshDataset(d) == manager # None /\ manager[d] # "none" /\ ManagerSaves(d, manager[d])

-----------------------------------------------------------------------------
(* The External Tools panel *)

\* register_result builds a controller of its own, which reads the file.
RegisteredWrites(d, read) ==
  LET rows == LoadRegistry(read) IN
  Append(FirstSave(rows), SaveRegistry(Ensured(Opened(rows), d), Opened(rows), d))

\* A run that failed leaves nothing to register; a good one is registered at
\* once when the box is ticked.
RunTool(d, ok, tick) ==
  /\ Idle
  /\ last' = IF ok THEN d ELSE None
  /\ \E read \in Io :
       todo' = IF ok /\ tick THEN RegisteredWrites(d, read) ELSE << >>
  /\ UNCHANGED <<registry, bookmarks, sidecar, scene, manager, list>>

Register ==
  /\ Idle /\ last # None
  /\ \E read \in Io : todo' = RegisteredWrites(last, read)
  /\ UNCHANGED <<registry, bookmarks, sidecar, scene, manager, list, last>>

-----------------------------------------------------------------------------
(* Save and Load UNAV State, and the scene they are about *)

\* The sidecar first, the container after it even when the sidecar failed.
\* An untitled scene writes _untitled.json, which no load ever looks for.
SaveState ==
  /\ Idle
  /\ \E read \in Io :
       LET state == {d \in Datasets : LoadRegistry(read)[d] = "on"} IN
       todo' = (IF scene.titled THEN <<Write("sidecar", state)>> ELSE << >>)
                 \o <<Write("box", state)>>
  /\ UNCHANGED <<registry, bookmarks, sidecar, scene, manager, list, last>>

\* The container wins over the sidecar.
FoundState(read) ==
  IF scene.box # None THEN scene.box
  ELSE IF scene.titled THEN Loaded(sidecar, None, read) ELSE None

AlignedByDropping(rows, wanted) ==
  [d \in Datasets |-> IF d \in wanted /\ rows[d] # "none" THEN "on" ELSE "none"]

\* Registered datasets are enabled exactly when the state names them.
Aligned(rows, wanted) ==
  [d \in Datasets |-> IF rows[d] = "none" THEN "none"
                      ELSE IF d \in wanted THEN "on" ELSE "off"]

LoadState ==
  /\ Idle
  /\ \E r1, r2 \in Io :
       LET rows == LoadRegistry(r2) IN
       /\ FoundState(r1) # None
       /\ todo' = <<SaveRegistry(Aligned(rows, FoundState(r1)), rows, None)>>
  /\ UNCHANGED <<registry, bookmarks, sidecar, scene, manager, list, last>>

\* The host saves the document, its container with it.
SaveScene ==
  /\ Idle
  /\ scene' = [scene EXCEPT !.titled = TRUE, !.kept = scene.box]
  /\ UNCHANGED <<registry, bookmarks, sidecar, manager, list, last, todo>>

-----------------------------------------------------------------------------
(* Bookmarks *)

BookmarkSaves(marks) ==
  /\ list' = marks
  /\ todo' = <<Write("bookmarks", marks)>>
  /\ UNCHANGED <<registry, bookmarks, sidecar, scene, manager, last>>

AddBookmark(k) ==
  /\ Idle /\ ~Contains(list, k)
  /\ BookmarkSaves(Append(list, k))

RemoveBookmark(i) == Idle /\ BookmarkSaves(RemoveAt(list, i))

MoveBookmark(i, j) ==
  Idle /\ BookmarkSaves(InsertAt(RemoveAt(list, i), j, list[i]))

RefreshBookmarks ==
  /\ Idle
  /\ \E read \in Io : list' = Loaded(bookmarks, << >>, read)
  /\ UNCHANGED <<registry, bookmarks, sidecar, scene, manager, last, todo>>

-----------------------------------------------------------------------------
(* The writes *)

Content(file, body) ==
  /\ registry'  = IF file = "registry" THEN body ELSE registry
  /\ bookmarks' = IF file = "bookmarks" THEN body ELSE bookmarks
  /\ sidecar'   = IF file = "sidecar" THEN body ELSE sidecar
  /\ scene'     = IF file = "box" THEN [scene EXCEPT !.box = body] ELSE scene

Here == Head(todo)

Opening == /\ todo' = [todo EXCEPT ![1].open = TRUE]
           /\ UNCHANGED <<manager, list, last>>

OpenEveryInPlace ==
  /\ todo # << >> /\ ~Here.open /\ Here.file # "box"
  /\ Content(Here.file, Torn)
  /\ Opening

\* safe_write_json opens a .tmp beside the registry; the other two files are
\* opened for writing themselves, which empties them.
OpenFile ==
  /\ todo # << >> /\ ~Here.open /\ Here.file # "box"
  /\ IF Here.file = "registry" THEN Content("none", None)
                               ELSE Content(Here.file, Torn)
  /\ Opening

\* os.replace, or the last byte of a file written in place; the container is
\* set in memory.
FinishWrite ==
  /\ todo # << >> /\ (Here.open \/ Here.file = "box")
  /\ Content(Here.file, Here.body)
  /\ todo' = Tail(todo)
  /\ UNCHANGED <<manager, list, last>>

\* An OSError: logged, the .tmp removed, and the handler goes on.
FailWrite ==
  /\ FALSE \in Io /\ todo # << >> /\ Here.file # "box"
  /\ todo' = Tail(todo)
  /\ UNCHANGED <<registry, bookmarks, sidecar, scene, manager, list, last>>

\* The host ends, in the middle of a handler or not, and is started again; the
\* artist reopens the .c4d or begins a new scene.
Restart(reopen) ==
  /\ reopen => scene.titled
  /\ scene' = IF reopen THEN [scene EXCEPT !.box = scene.kept]
                        ELSE [titled |-> FALSE, box |-> None, kept |-> None]
  /\ sidecar' = IF reopen THEN sidecar ELSE None    \* the next scene's name is new
  /\ manager' = None /\ last' = None /\ todo' = << >>
  /\ \E read \in Io : list' = Loaded(bookmarks, << >>, read)
  /\ UNCHANGED <<registry, bookmarks>>

-----------------------------------------------------------------------------

Next ==
  \/ OpenManager
  \/ \E d \in Datasets : \/ AddDataset(d) \/ RemoveDataset(d)
                         \/ ToggleDataset(d) \/ RefreshDataset(d)
  \/ \E d \in Datasets, ok, tick \in BOOLEAN : RunTool(d, ok, tick)
  \/ Register
  \/ SaveState
  \/ LoadState
  \/ SaveScene
  \/ \E k \in Marks : AddBookmark(k)
  \/ \E i \in DOMAIN list : RemoveBookmark(i)
  \/ \E i, j \in DOMAIN list : MoveBookmark(i, j)
  \/ RefreshBookmarks
  \/ OpenFile
  \/ FinishWrite
  \/ FailWrite
  \/ \E reopen \in BOOLEAN : Restart(reopen)

Spec == Init /\ [][Next]_vars

-----------------------------------------------------------------------------
(* Properties *)

Row(file, d) == IF file = None THEN "none" ELSE file[d]

\* Whatever step is taken, a restart in the middle of a handler and a write
\* that fails included, the registry keeps its rows or becomes the whole
\* registry of the save that ends there (safe_write_json).
RegistryReplacedWhole ==
  [][registry' # registry =>
       /\ todo # << >> /\ todo' = Tail(todo)
       /\ Here.file = "registry" /\ registry' = Here.body]_vars

\* A save changes the row of a dataset it is not about only when the copy it
\* was made from no longer agreed with the file; Load UNAV State, which is
\* about every flag, still registers and forgets nothing (apply_project_state,
\* register_tool_output, DatasetManagerController).
SaveChangesWhatItNames ==
  [][\A d \in Datasets :
       Row(registry', d) # Row(registry, d) =>
         \/ Here.about = d
         \/ Here.base[d] # Row(registry, d)
         \/ Here.about = None /\ "none" \notin {Row(registry, d), Row(registry', d)}]_vars

\* What the tools panel registered stays registered until somebody removes it.
RegisteredStays ==
  [][\A d \in Datasets :
       Row(registry, d) # "none" /\ Row(registry', d) = "none" => Here.about = d]_vars
=============================================================================
