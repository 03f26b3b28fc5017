------------------------------ MODULE SceneSync ------------------------------
(****************************************************************************)
(* The visible sector of the Cinema 4D document and the buttons that write  *)
(* it: Sync Visible Sector (through one of four render backends), Sync at   *)
(* Epoch, Generate Point Cloud, Regenerate Visible Field, Clear Scene, the  *)
(* debug cone toggle and Create Navigation Null, between arbitrary edits by *)
(* the artist in the Object Manager.                                        *)
(*                                                                          *)
(* Every handler runs to completion on the host's main thread, so a handler *)
(* is one action.  What the navigator sees is an input of each action: the  *)
(* artist moves it freely between two clicks.                               *)
(****************************************************************************)
EXTENDS Naturals, Sequences, SequencesExt, FiniteSets

CONSTANTS
  Uid,              \* catalog object uids
  Bad,              \* uids whose row raises while its node is built
  Epoch, BaseEpoch, \* times a position can be resolved for; BaseEpoch: no epoch given
  View,             \* what the navigator may see: records, see SceneAssumption
  MaxVisible,       \* values of the navigator's max_visible_objects
  Catalog,          \* the bundled sample catalog, in file order
  FallbackCap,      \* _NAVIGATOR_LESS_FALLBACK_CAP
  MaxGenerated,     \* SafetyLimits.max_generated_objects
  Mode,             \* the render modes the artist switches between
  Edit              \* the artist's edits explored

AllEdits == {"tag", "copy", "move_out", "delete", "adopt"}

PerObjectMode == {"debug_objects", "instances"}
PegMode == {"point_cloud", "native_viewer"}
RenderMode == PerObjectMode \cup PegMode

\* streaming: the registry has an enabled dataset; stream and sample: the
\* ranked result of filtering the datasets and the sample catalog, before the cap.
ViewType == [streaming : BOOLEAN, stream : Seq(Uid), sample : Seq(Uid)]

ASSUME SceneAssumption ==
  /\ Bad \subseteq Uid
  /\ BaseEpoch \in Epoch
  /\ View \subseteq ViewType
  /\ MaxVisible \subseteq Nat
  /\ Catalog \in Seq(Uid)
  /\ FallbackCap \in Nat
  /\ MaxGenerated \in Nat
  /\ Mode \subseteq RenderMode
  /\ Edit \subseteq AllEdits

VARIABLES
  navigator, \* UNAV_Navigator is in the document
  hierarchy, \* UNAV_Starfield, UNAV_VisibleSector and UNAV_Debug are
  sector,    \* the uid-marked children of UNAV_VisibleSector
  pegs,      \* the placeholder nulls among its children, by render mode
  strays,    \* uid-marked nodes the artist moved elsewhere in the document
  debug,     \* children of UNAV_Debug: the instance template, the cone
  guest,     \* where an object of the artist's own is
  lookup,    \* uids the default MetadataLookup resolves
  exported   \* uids in the native viewer's binary file

vars == <<navigator, hierarchy, sector, pegs, strays, debug, guest, lookup, exported>>

\* A node is the original the plug-in built or the copy the artist made of it.
Node == [uid : Uid, mode : PerObjectMode, epoch : Epoch, tagged : BOOLEAN, copy : BOOLEAN]

Uids(nodes) == {n.uid : n \in nodes}

TypeOK ==
  /\ navigator \in BOOLEAN
  /\ hierarchy \in BOOLEAN
  /\ sector \subseteq Node
  /\ pegs \subseteq PegMode
  /\ strays \subseteq Node
  /\ debug \subseteq {"template", "cone"}
  /\ guest \in {"root", "sector", "deleted"}
  /\ lookup \subseteq Uid
  /\ exported \subseteq Uid

Init ==
  /\ navigator = FALSE
  /\ hierarchy = FALSE
  /\ sector = {}
  /\ pegs = {}
  /\ strays = {}
  /\ debug = {}
  /\ guest = "root"
  /\ lookup = {}
  /\ exported = {}

------------------------------------------------------------------------------
\* What the filters and the diff compute

Prefix(s, n) == SubSeq(s, 1, IF n < Len(s) THEN n ELSE Len(s))

\* The filters read a cap of 0 as "no cap".
Filtered(s, cap) == IF cap = 0 THEN s ELSE Prefix(s, cap)

\* A streaming pass with an enabled dataset is used even when it finds nothing.
SyncResult(v, cap) == Filtered(IF v.streaming THEN v.stream ELSE v.sample, cap)

\* Mutant of Wanted: a zero cap skips the truncation.
WantedZeroIsAll(v, cap) == ToSet(Filtered(SyncResult(v, cap), cap))

\* compute_diff truncates at max_visible, 0 included.
Wanted(v, cap) == ToSet(Prefix(SyncResult(v, cap), cap))

\* Mutants of Added: the current set is collected from the whole document; the
\* subtraction of the current set is dropped.
AddedWholeScene(wanted) == wanted \ Uids(sector \cup strays)
AddedAll(wanted) == wanted

Added(wanted) == wanted \ Uids(sector)
Removed(wanted) == Uids(sector) \ wanted

NodeOf(u, mode, epoch) ==
  [uid |-> u, mode |-> mode, epoch |-> epoch, tagged |-> FALSE, copy |-> FALSE]

\* A row whose build raises is logged and skipped.
Built(uids, mode, epoch) == {NodeOf(u, mode, epoch) : u \in uids \ Bad}

\* Mutant of Published: the lookup is installed once and never refreshed.
PublishedOnce(used, v, cap) ==
  IF used /\ v.stream # <<>> /\ lookup = {} THEN ToSet(Filtered(v.stream, cap)) ELSE lookup

\* _publish_streamed_lookup: an empty stream leaves the lookup alone.
Published(used, v, cap) ==
  IF used /\ v.stream # <<>> THEN ToSet(Filtered(v.stream, cap)) ELSE lookup

------------------------------------------------------------------------------
\* Sync Visible Sector

\* Where two siblings carry one uid the walk of the children keeps the last:
\* which one depends on the order the artist left them in.
Victims(wanted, victims) ==
  /\ victims \subseteq sector
  /\ Uids(victims) = Removed(wanted)
  /\ \A m, n \in victims : m.uid = n.uid => m = n

\* Mutant of UpdateNodes: the children are rebuilt rather than diffed.
UpdateNodesRebuild(mode, wanted, epoch) == sector' = Built(wanted, mode, epoch)

UpdateNodes(mode, wanted, epoch) ==
  \E victims \in SUBSET {n \in sector : n.uid \notin wanted} :
    /\ Victims(wanted, victims)
    /\ sector' = (sector \ victims) \cup Built(Added(wanted), mode, epoch)

\* A peg backend is built afresh for every pass, so the only uids it has are
\* the added ones; it re-creates its peg when it has any.
UpdatePeg(mode, wanted) ==
  pegs' = IF Added(wanted) = {} THEN pegs \ {mode} ELSE pegs \cup {mode}

\* Mutant of UpdateCone: hiding the cone clears the whole debug root.
UpdateConeDropsRoot(show, kept) == debug' = IF show THEN kept \cup {"cone"} ELSE {}

UpdateCone(show, kept) == debug' = IF show THEN kept \cup {"cone"} ELSE kept \ {"cone"}

\* Only the streaming pass resolves positions at the epoch it is given.
SyncPerObject(mode, v, cap, epoch, show) ==
  /\ UpdateNodes(mode, Wanted(v, cap), IF v.streaming THEN epoch ELSE BaseEpoch)
  /\ UpdateCone(show, IF mode = "instances" THEN debug \cup {"template"} ELSE debug)
  /\ UNCHANGED <<pegs, exported>>

SyncPointCloud(v, cap, show) ==
  /\ UpdatePeg("point_cloud", Wanted(v, cap))
  /\ UpdateCone(show, debug)
  /\ UNCHANGED <<sector, exported>>

SyncNative(v, cap, show) ==
  /\ UpdatePeg("native_viewer", Wanted(v, cap))
  /\ exported' = Added(Wanted(v, cap))
  /\ UpdateCone(show, debug)
  /\ UNCHANGED sector

\* A failed export returns before the load request and the peg.
SyncNativeFails(show) ==
  /\ UpdateCone(show, debug)
  /\ UNCHANGED <<sector, pegs, exported>>

\* Without a navigator the handler returns a message and changes nothing.
Sync(mode, v, cap, epoch, show) ==
  /\ navigator
  /\ hierarchy' = TRUE
  /\ lookup' = Published(v.streaming, v, cap)
  /\ \/ mode \in PerObjectMode /\ SyncPerObject(mode, v, cap, epoch, show)
     \/ mode = "point_cloud" /\ SyncPointCloud(v, cap, show)
     \/ mode = "native_viewer" /\ (SyncNative(v, cap, show) \/ SyncNativeFails(show))
  /\ UNCHANGED <<navigator, strays, guest>>

------------------------------------------------------------------------------
\* Clear, Generate and Regenerate

\* Mutant of ClearMarked: only the children of the sector are collected.
ClearMarkedSectorOnly ==
  /\ navigator' = FALSE
  /\ pegs' = {}
  /\ debug' = {}
  /\ guest' = IF guest = "sector" THEN "deleted" ELSE guest
  /\ UNCHANGED <<strays, exported>>

\* clear_starfield removes every object that carries the UNAV marker, wherever
\* it is; the navigator carries one, and what the artist parented under a
\* removed node goes with it.
ClearMarked ==
  /\ navigator' = FALSE
  /\ strays' = {}
  /\ pegs' = {}
  /\ debug' = {}
  /\ guest' = IF guest = "sector" THEN "deleted" ELSE guest
  /\ UNCHANGED exported

\* build_starfield after the clear: plain nulls, whatever the render mode is.
Rebuild(uids) ==
  /\ ClearMarked
  /\ hierarchy' = TRUE
  /\ sector' = Built(uids, "debug_objects", BaseEpoch)

ClearScene ==
  /\ ClearMarked
  /\ hierarchy' = FALSE
  /\ sector' = {}
  /\ UNCHANGED lookup

\* Generate falls back to the sample when the stream is empty, and to the head
\* of the unfiltered catalog when there is no navigator.
GenerateResult(v, cap) ==
  IF ~navigator THEN Prefix(Catalog, FallbackCap)
  ELSE IF v.streaming /\ v.stream # <<>> THEN Filtered(v.stream, cap)
  ELSE Filtered(v.sample, cap)

\* evaluate_generate
SafetyAllows(count, allowFull) == allowFull \/ (navigator /\ count <= MaxGenerated)

Generate(v, cap, allowFull) ==
  LET result == GenerateResult(v, cap) IN
  /\ result # <<>>
  /\ SafetyAllows(Len(result), allowFull)
  /\ Rebuild(ToSet(result))
  /\ lookup' = Published(navigator /\ v.streaming, v, cap)

Regenerate(v, cap) ==
  /\ navigator
  /\ SyncResult(v, cap) # <<>>
  /\ Rebuild(ToSet(SyncResult(v, cap)))
  /\ lookup' = Published(v.streaming, v, cap)

------------------------------------------------------------------------------
\* The navigator, the cone and the artist

CreateNavigator ==
  /\ ~navigator
  /\ navigator' = TRUE
  /\ UNCHANGED <<hierarchy, sector, pegs, strays, debug, guest, lookup, exported>>

ShowCone ==
  /\ navigator
  /\ hierarchy' = TRUE
  /\ UpdateCone(TRUE, debug)
  /\ UNCHANGED <<navigator, sector, pegs, strays, guest, lookup, exported>>

HideCone ==
  /\ hierarchy
  /\ UpdateCone(FALSE, debug)
  /\ UNCHANGED <<navigator, hierarchy, sector, pegs, strays, guest, lookup, exported>>

\* Selection, keyframes or tags the artist puts on a node.  Bound: one such node.
TagNode(n) ==
  /\ \A m \in sector : ~m.tagged
  /\ sector' = (sector \ {n}) \cup {[n EXCEPT !.tagged = TRUE]}
  /\ UNCHANGED <<navigator, hierarchy, pegs, strays, debug, guest, lookup, exported>>

\* A copy carries its original's marker.  Bound: one copy at a time.
CopyNode(n) ==
  /\ \A m \in sector : ~m.copy
  /\ sector' = sector \cup {[n EXCEPT !.copy = TRUE]}
  /\ UNCHANGED <<navigator, hierarchy, pegs, strays, debug, guest, lookup, exported>>

\* Bound: one node outside the sector.
MoveNodeOut(n) ==
  /\ strays = {}
  /\ sector' = sector \ {n}
  /\ strays' = {n}
  /\ UNCHANGED <<navigator, hierarchy, pegs, debug, guest, lookup, exported>>

DeleteNode(n) ==
  /\ sector' = sector \ {n}
  /\ UNCHANGED <<navigator, hierarchy, pegs, strays, debug, guest, lookup, exported>>

\* The artist parents an object of their own under UNAV_VisibleSector.
AdoptGuest ==
  /\ hierarchy
  /\ guest = "root"
  /\ guest' = "sector"
  /\ UNCHANGED <<navigator, hierarchy, sector, pegs, strays, debug, lookup, exported>>

Artist ==
  \/ \E n \in sector :
       \/ "tag" \in Edit /\ TagNode(n)
       \/ "copy" \in Edit /\ CopyNode(n)
       \/ "move_out" \in Edit /\ MoveNodeOut(n)
       \/ "delete" \in Edit /\ DeleteNode(n)
  \/ "adopt" \in Edit /\ AdoptGuest

Next ==
  \/ \E mode \in Mode, v \in View, cap \in MaxVisible, epoch \in Epoch, show \in BOOLEAN :
       Sync(mode, v, cap, epoch, show)
  \/ \E v \in View, cap \in MaxVisible, allowFull \in BOOLEAN : Generate(v, cap, allowFull)
  \/ \E v \in View, cap \in MaxVisible : Regenerate(v, cap)
  \/ ClearScene
  \/ CreateNavigator
  \/ ShowCone
  \/ HideCone
  \/ Artist

Spec == Init /\ [][Next]_vars

------------------------------------------------------------------------------
\* Properties

\* The template every instance links to lives under UNAV_Debug: neither hiding
\* the cone nor a switch to another mode may take it away while an instance
\* made from it is in the document.
InstancesHaveTemplate ==
  \A n \in sector \cup strays : n.mode = "instances" => "template" \in debug

\* How many nodes carry one uid.
Copies(nodes, u) == Cardinality({n \in nodes : n.uid = u})

\* A pass through a per-object backend shows every wanted uid that can be
\* built; an unwanted uid loses one node, so only an artist's copy of it is
\* left, and repeating the pass removes that one too.
Converges ==
  \A mode \in Mode \cap PerObjectMode, v \in View, cap \in MaxVisible, epoch \in Epoch, show \in BOOLEAN :
    Sync(mode, v, cap, epoch, show) =>
      /\ Wanted(v, cap) \ Bad \subseteq Uids(sector')
      /\ \A u \in Uids(sector) \ Wanted(v, cap) : Copies(sector', u) = Copies(sector, u) - 1

SyncConverges == [][Converges]_vars

\* A node whose uid stays wanted is not touched by any pass, in any mode: the
\* tags, keyframes and selection the artist put on it survive.
SparesKept ==
  \A mode \in Mode, v \in View, cap \in MaxVisible, epoch \in Epoch, show \in BOOLEAN :
    Sync(mode, v, cap, epoch, show) =>
      {n \in sector : n.uid \in Wanted(v, cap)} \subseteq sector'

SyncSparesKept == [][SparesKept]_vars

\* A second click with the navigator where it was adds and removes nothing,
\* whichever backend built the nodes that are there.
NoOpWhenSettled ==
  \A mode \in Mode \cap PerObjectMode, v \in View, cap \in MaxVisible,
     epoch \in Epoch, show \in BOOLEAN :
    (Sync(mode, v, cap, epoch, show) /\ Uids(sector) = Wanted(v, cap)) => sector' = sector

SyncIdempotent == [][NoOpWhenSettled]_vars

\* max_visible_objects bounds what a pass leaves, 0 included, unless the artist
\* copied a node the pass wants gone.
CapHonoured ==
  \A mode \in Mode \cap PerObjectMode, v \in View, cap \in MaxVisible, epoch \in Epoch, show \in BOOLEAN :
    (Sync(mode, v, cap, epoch, show) /\ \A n \in sector : ~n.copy)
      => Cardinality(sector') <= cap

SyncHonoursCap == [][CapHonoured]_vars

\* After a streamed Sync, Generate or Regenerate that found something, the
\* inspector resolves every node in the sector.
LookupCovers ==
  \A v \in View, cap \in MaxVisible :
    (v.streaming /\ v.stream # <<>>) =>
      /\ \A mode \in Mode \cap PerObjectMode, epoch \in Epoch, show \in BOOLEAN :
           (Sync(mode, v, cap, epoch, show) /\ \A n \in sector : ~n.copy)
             => Uids(sector') \subseteq lookup'
      /\ \A allowFull \in BOOLEAN :
           (navigator /\ Generate(v, cap, allowFull)) => Uids(sector') \subseteq lookup'
      /\ Regenerate(v, cap) => Uids(sector') \subseteq lookup'

LookupCoversSector == [][LookupCovers]_vars

\* Clear-and-rebuild and diff-and-update agree: what Regenerate leaves is what
\* a Sync from the same place would settle on, and nothing of an earlier build
\* is left anywhere in the document.  A cap of 0 is excluded: the filters read
\* it as "no cap" and compute_diff as "keep nothing".
RebuildAgrees ==
  \A v \in View, cap \in MaxVisible \ {0} :
    Regenerate(v, cap) =>
      /\ Uids(sector' \cup strays') = Wanted(v, cap) \ Bad
      /\ Cardinality(sector') = Cardinality(Uids(sector'))
      /\ pegs' = {}

RegenerateAgreesWithSync == [][RebuildAgrees]_vars
==============================================================================
