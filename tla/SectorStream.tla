---------------------------- MODULE SectorStream ----------------------------
(* What the navigator's cone sees: the catalog file of a dataset, the        *)
(* chunked grid index beside it (core/spatial_index.py), a database dataset  *)
(* read through a bounding box (db/spatial_query.py), the exact filter both  *)
(* end in (core/spatial_filter.py) and the merge (core/sector_streaming.py). *)
(*                                                                           *)
(* Space is one axis of integers, the unit the millionth of a parsec by      *)
(* which build_index pads its grid.  On it a cone is the half-line ahead of  *)
(* the navigator; source and type filters, magnitudes and the epoch are left *)
(* out.  A query is a function of the state, so it is an operator; the steps *)
(* are those of fetching a catalog and of building its index, file by file,  *)
(* with failures and restarts in between.                                    *)
EXTENDS Integers, FiniteSets

CONSTANTS Catalogs,   \* the contents a catalog file may have: sets of objects
          Rows,       \* the rows of the database dataset
          Poses,      \* navigators: [at, forward, near, far]
          Caps,       \* values of max_visible_objects
          Extent,     \* the farthest position on the axis
          PerAxis,    \* cells along the longest axis
          MinCell,    \* _MIN_CELL_SIZE_PC
          BoxFactor,  \* DEFAULT_BBOX_CAP_MULTIPLIER
          Ceiling,    \* HARD_FULL_LOAD_CEILING
          None, Torn  \* no file; a file cut short

\* NavigationParams.clamped() leaves near >= 0 and near < far.
ASSUME StreamAssumption ==
  /\ \A c \in Catalogs \cup {Rows} :
       IsFiniteSet(c) /\ \A o \in c : o.pos \in 0 .. Extent /\ o.uid \in Nat
  /\ \A p \in Poses : /\ p.at \in Int /\ p.forward \in {-1, 0, 1}
                      /\ p.near \in Nat /\ p.far \in Nat /\ p.near < p.far
  /\ Caps \subseteq Nat /\ Extent \in Nat /\ MinCell \in Nat \ {0}
  /\ PerAxis \in Nat \ {0} /\ BoxFactor \in Nat \ {0} /\ Ceiling \in Nat

VARIABLES catalog,   \* the catalog file
          stats,     \* the entry's object count when it was last scanned
          indexed,   \* the entry has an index_path
          manifest,  \* index.json
          chunks,    \* the chunk file of each cell
          build      \* the index build under way

vars == <<catalog, stats, indexed, manifest, chunks, build>>

-----------------------------------------------------------------------------
(* Geometry *)

Distance(p, q) == IF p < q THEN q - p ELSE p - q

Larger(a, b) == IF a < b THEN b ELSE a

\* The exact test; an object at the navigator's own place passes whatever the
\* direction.
InCone(pos, pose) ==
  LET d == Distance(pos, pose.at) IN
  /\ pose.near <= d /\ d <= pose.far
  /\ \/ pose.forward = 0 \/ d = 0
     \/ (pos - pose.at) * pose.forward > 0

Visible(objects, pose) == {o \in objects : InCone(o.pos, pose)}

\* The nearest of the visible ones when there are more than the cap; 0 is no
\* cap.  Which of two at one distance stays is the sort's affair.
Filtered(objects, pose, cap) ==
  LET seen == Visible(objects, pose)
      size == Cardinality(seen) IN
  {kept \in SUBSET seen :
     /\ Cardinality(kept) = IF cap = 0 \/ size <= cap THEN size ELSE cap
     /\ \A o \in kept, x \in seen \ kept :
          Distance(o.pos, pose.at) <= Distance(x.pos, pose.at)}

-----------------------------------------------------------------------------
(* The grid *)

Positions(objects) == {o.pos : o \in objects}

Lowest(objects)  == CHOOSE m \in Positions(objects) : \A q \in Positions(objects) : m <= q
Highest(objects) == CHOOSE m \in Positions(objects) : \A q \in Positions(objects) : q <= m

CellSize(objects) ==
  Larger(MinCell, (Highest(objects) - Lowest(objects)) \div PerAxis)

CellOf(pos, origin, size) == (pos - origin) \div size

InCell(objects, k, origin, size) == {o \in objects : CellOf(o.pos, origin, size) = k}

\* The manifest build_index writes for these objects.
ManifestOf(objects) ==
  LET origin == Lowest(objects) - 1
      size   == CellSize(objects) IN
  [of |-> objects, origin |-> origin, size |-> size,
   cells |-> {CellOf(o.pos, origin, size) : o \in objects}]

IntersectsNearestFirst(lo, hi, pose) ==
  LET nearest == Larger(0, Larger(lo - pose.at, pose.at - hi)) IN
  /\ pose.near <= nearest /\ nearest <= pose.far
  /\ \/ pose.forward = 0
     \/ \E corner \in {lo, hi} : (corner - pose.at) * pose.forward > 0

\* aabb_intersects_cone: the distance shell against the nearest and farthest
\* point of the box, then whether a corner lies ahead.
Intersects(lo, hi, pose) ==
  LET nearest  == Larger(0, Larger(lo - pose.at, pose.at - hi))
      farthest == Larger(Distance(pose.at, lo), Distance(pose.at, hi)) IN
  /\ pose.near <= farthest /\ nearest <= pose.far
  /\ \/ pose.forward = 0
     \/ \E corner \in {lo, hi} : (corner - pose.at) * pose.forward > 0

CellsAhead(pose) ==
  {k \in manifest.cells :
     LET lo == manifest.origin + k * manifest.size IN
     Intersects(lo, lo + manifest.size, pose)}

IndexCandidates(pose) == UNION {chunks[k] : k \in CellsAhead(pose)}

-----------------------------------------------------------------------------
(* Queries *)

\* How stream_sector_for_dataset reads the file-backed dataset.
Path ==
  IF indexed /\ manifest = Torn THEN "error"
  ELSE IF indexed /\ manifest # None THEN "index"
  ELSE IF stats > Ceiling THEN "refused" ELSE "full"

FileStream(pose, cap) ==
  CASE Path = "index" -> Filtered(IndexCandidates(pose), pose, cap)
    [] Path = "full"  -> Filtered(catalog, pose, cap)
    [] OTHER          -> {{}}

\* SELECT ... BETWEEN ... ORDER BY uid LIMIT cap * BoxFactor.
InBox(pose) == {o \in Rows : Distance(o.pos, pose.at) <= pose.far}

BoxCandidates(pose, cap) ==
  {o \in InBox(pose) :
     cap = 0 \/ Cardinality({x \in InBox(pose) : x.uid < o.uid}) < cap * BoxFactor}

DbStream(pose, cap) == Filtered(BoxCandidates(pose, cap), pose, cap)

Named(name, objects) == {<<name, o>> : o \in objects}

\* The datasets in the registry's order, the first cap objects of them.
Merged(pose, cap) ==
  {kept \in UNION {SUBSET (Named("file", f) \cup Named("db", d)) :
                     f \in FileStream(pose, cap), d \in DbStream(pose, cap)} :
     \E f \in FileStream(pose, cap), d \in DbStream(pose, cap) :
       LET all == Named("file", f) \cup Named("db", d) IN
       /\ kept \subseteq all
       /\ Cardinality(kept) = IF cap = 0 \/ Cardinality(all) <= cap
                                THEN Cardinality(all) ELSE cap
       /\ Named("file", f) \subseteq kept}

-----------------------------------------------------------------------------
(* Catalog and index files *)

Init ==
  /\ catalog \in Catalogs
  /\ stats = Cardinality(catalog)
  /\ indexed = FALSE /\ manifest = None
  /\ chunks = [k \in {} |-> {}]
  /\ build = None

\* A fetch replaces the file; registering it rescans the entry and leaves its
\* index path alone.  A catalog may also be replaced behind the registry.
Fetch(c, register) ==
  /\ build = None
  /\ catalog' = c
  /\ stats' = IF register THEN Cardinality(c) ELSE stats
  /\ UNCHANGED <<indexed, manifest, chunks, build>>

\* Remove and Add: the entry is new, the index directory stays on disk.
Reregister ==
  /\ build = None
  /\ indexed' = FALSE /\ stats' = Cardinality(catalog)
  /\ UNCHANGED <<catalog, manifest, chunks, build>>

StartBuild ==
  /\ build = None /\ catalog # {}
  /\ build' = [of |-> catalog, left |-> ManifestOf(catalog).cells, pc |-> "cells"]
  /\ UNCHANGED <<catalog, stats, indexed, manifest, chunks>>

\* Cells in order, each over the file an earlier build left.
WriteCell ==
  /\ build # None /\ build.pc = "cells"
  /\ \E k \in build.left :
       LET grid == ManifestOf(build.of) IN
       /\ \A j \in build.left : k <= j
       /\ chunks' = [j \in DOMAIN chunks \cup {k} |->
                       IF j = k THEN InCell(build.of, k, grid.origin, grid.size)
                                ELSE chunks[j]]
       /\ build' = [build EXCEPT !.left = @ \ {k}]
  /\ UNCHANGED <<catalog, stats, indexed, manifest>>

\* index.json comes last and is opened for writing itself.
OpenManifest ==
  /\ build # None /\ build.pc = "cells" /\ build.left = {}
  /\ manifest' = Torn
  /\ build' = [build EXCEPT !.pc = "manifest"]
  /\ UNCHANGED <<catalog, stats, indexed, chunks>>

FinishBuild ==
  /\ build # None /\ build.pc = "manifest"
  /\ manifest' = ManifestOf(build.of)
  /\ indexed' = TRUE
  /\ build' = None
  /\ UNCHANGED <<catalog, stats, chunks>>

\* An OSError, or the host ending: what was written stays.
StopBuild ==
  /\ build # None
  /\ build' = None
  /\ UNCHANGED <<catalog, stats, indexed, manifest, chunks>>

Next ==
  \/ \E c \in Catalogs, register \in BOOLEAN : Fetch(c, register)
  \/ Reregister
  \/ StartBuild
  \/ WriteCell
  \/ OpenManifest
  \/ FinishBuild
  \/ StopBuild

Spec == Init /\ [][Next]_vars

-----------------------------------------------------------------------------
(* Properties *)

\* The index on disk is the one some finished build wrote, chunk by chunk.
Intact ==
  /\ manifest \notin {None, Torn}
  /\ \A k \in manifest.cells :
       chunks[k] = InCell(manifest.of, k, manifest.origin, manifest.size)

\* What the gate of the index misses, against its documentation: the object on
\* a grid line where the navigator stands, looking away from the object's cell.
OnGridLine(pose) ==
  {o \in catalog : /\ Path = "index" /\ pose.forward = -1 /\ o.pos = pose.at
                   /\ (o.pos - manifest.origin) % manifest.size = 0}

\* What the row limit cuts off, taken over the whole box in uid order.
OverRowLimit(pose, cap) == InBox(pose) \ BoxCandidates(pose, cap)

\* When the file is read whole, or through an intact index of what it holds,
\* the navigator is shown nothing outside its cone and no more than its cap.
\* When the sector fits the cap, an object of it is missing only on a grid line
\* or over the row limit: beyond these two, neither the grid, nor the shell and
\* corner tests, nor the box, nor the merge loses one (query_index, query_cone,
\* stream_sector_for_active_datasets).
StreamShowsTheSector ==
  (\/ Path = "full"
   \/ Path = "index" /\ Intact /\ manifest.of = catalog) =>
    \A pose \in Poses, cap \in Caps :
      LET sector == Named("file", Visible(catalog, pose))
                      \cup Named("db", Visible(Rows, pose))
          lost   == Named("file", OnGridLine(pose))
                      \cup Named("db", OverRowLimit(pose, cap)) IN
      \A shown \in Merged(pose, cap) :
        /\ shown \subseteq sector
        /\ cap # 0 => Cardinality(shown) <= cap
        /\ cap = 0 \/ Cardinality(sector) <= cap => sector \ lost \subseteq shown
=============================================================================
