------------------------- MODULE SectorStream_proofs -------------------------
(* Proofs about SectorStream: on any axis, for any catalogs, navigators, caps *)
(* and cell sizes, a stream through the whole file or an intact index of it   *)
(* shows nothing outside the sector, and of a sector that fits the cap it     *)
(* loses no object but one on a grid line or over the row limit.              *)
EXTENDS SectorStream, FiniteSetTheorems, WellFoundedInduction, TLAPS

\* What a manifest on disk describes: the grid of some catalog, whole.
Described == (manifest \notin {None, Torn}) =>
               (manifest.of \in Catalogs /\ manifest.of # {} /\ manifest = ManifestOf(manifest.of))

\* The inductive invariant.
IInv ==
  /\ catalog \in Catalogs
  /\ build # None => (build.of \in Catalogs /\ build.of # {})
  /\ Described

-----------------------------------------------------------------------------
(* The grid *)

\* A nonempty set of naturals has a least element.
LEMMA LeastNatural ==
  ASSUME NEW S \in SUBSET Nat, S # {}
  PROVE  \E m \in S : \A q \in S : m <= q
<1>1. PICK m \in S : \A q \in S : ~(<<q, m>> \in OpToRel(<, Nat))
  BY WFMin, NatLessThanWellFounded
<1>2. \A q \in S : ~(q < m)
  BY <1>1 DEF OpToRel
<1> QED
  BY <1>2

\* A nonempty set of naturals below a bound has a greatest element.
LEMMA GreatestBounded ==
  ASSUME NEW E \in Nat, NEW S \in SUBSET (0 .. E), S # {}
  PROVE  \E m \in S : \A q \in S : q <= m
<1> DEFINE T == {E - p : p \in S}
<1>1. T \in SUBSET Nat /\ T # {}
  <2>1. \A p \in S : p \in Int /\ E - p \in Nat
    OBVIOUS
  <2>2. PICK p \in S : TRUE
    OBVIOUS
  <2>3. E - p \in T
    BY <2>2
  <2> QED
    BY <2>1, <2>3
<1>2. PICK t \in T : \A u \in T : t <= u
  BY <1>1, LeastNatural
<1>3. PICK m \in S : t = E - m
  OBVIOUS
<1>4. \A q \in S : E - q \in T
  OBVIOUS
<1> HIDE DEF T
<1>5. \A q \in S : E - m <= E - q
  BY <1>2, <1>3, <1>4
<1>6. \A q \in S : q <= m
  BY <1>5
<1> QED
  BY <1>6

\* The bounding box of a catalog (_global_bbox).
LEMMA BoxTyped ==
  ASSUME NEW c \in Catalogs, c # {}
  PROVE  /\ Lowest(c) \in Nat /\ Highest(c) \in Nat
         /\ \A o \in c : o.pos \in Nat /\ Lowest(c) <= o.pos /\ o.pos <= Highest(c)
         /\ Lowest(c) <= Highest(c)
<1>1. Positions(c) \in SUBSET (0 .. Extent) /\ Positions(c) # {} /\ Extent \in Nat
  BY StreamAssumption DEF Positions
<1>2. \E m \in Positions(c) : \A q \in Positions(c) : m <= q
  BY <1>1, LeastNatural
<1>3. \E m \in Positions(c) : \A q \in Positions(c) : q <= m
  BY <1>1, GreatestBounded
<1>4. Lowest(c) \in Positions(c) /\ \A q \in Positions(c) : Lowest(c) <= q
  BY <1>2 DEF Lowest
<1>5. Highest(c) \in Positions(c) /\ \A q \in Positions(c) : q <= Highest(c)
  BY <1>3 DEF Highest
<1> QED
  BY <1>1, <1>4, <1>5 DEF Positions

\* A number lies between two multiples of a divisor.
LEMMA DivisionBounds ==
  ASSUME NEW a \in Nat, NEW b \in Nat \ {0}
  PROVE  /\ a \div b \in Nat
         /\ (a \div b) * b <= a
         /\ a < (a \div b) * b + b
         /\ (a \div b) * b = a => a % b = 0
  OBVIOUS

\* The cell size is positive (_auto_cell_size_pc).
LEMMA SizePositive ==
  ASSUME NEW c \in Catalogs, c # {}
  PROVE  CellSize(c) \in Nat \ {0}
<1>1. Highest(c) - Lowest(c) \in Nat
  BY BoxTyped
<1>2. (Highest(c) - Lowest(c)) \div PerAxis \in Nat
  BY <1>1, DivisionBounds, StreamAssumption
<1> QED
  BY <1>2, StreamAssumption DEF CellSize, Larger

\* An object lies in its cell (cell_index_for, cell_bbox).
LEMMA CellHolds ==
  ASSUME NEW c \in Catalogs, NEW o \in c,
         NEW origin, origin = Lowest(c) - 1, NEW size, size = CellSize(c),
         NEW k, k = CellOf(o.pos, origin, size)
  PROVE  /\ k \in Nat /\ origin + k * size \in Int /\ size \in Nat
         /\ origin + k * size <= o.pos
         /\ o.pos < origin + k * size + size
         /\ o.pos = origin + k * size => (o.pos - origin) % size = 0
<1>1. c # {}
  OBVIOUS
<1>2. size \in Nat \ {0}
  BY <1>1, SizePositive
<1>3. origin \in Int /\ o.pos \in Nat /\ o.pos - origin \in Nat
  BY <1>1, BoxTyped
<1>4. k = (o.pos - origin) \div size
  BY DEF CellOf
<1>5. k \in Nat /\ k * size <= o.pos - origin /\ o.pos - origin < k * size + size
  BY <1>2, <1>3, <1>4, DivisionBounds
<1>6. k * size \in Int
  BY <1>2, <1>5
<1>7. k * size = o.pos - origin => (o.pos - origin) % size = 0
  BY <1>2, <1>3, <1>4, DivisionBounds
<1> QED
  BY <1>2, <1>3, <1>5, <1>6, <1>7

\* A box that holds an object inside the cone is not skipped, unless the
\* navigator stands on the object at the box's low side and looks down the axis
\* (aabb_intersects_cone).
LEMMA BoxAhead ==
  ASSUME NEW lo \in Int, NEW hi \in Int, NEW p \in Int, lo <= p, p < hi,
         NEW pose \in Poses, InCone(p, pose),
         ~(pose.forward = -1 /\ p = pose.at /\ p = lo)
  PROVE  Intersects(lo, hi, pose)
<1> DEFINE at == pose.at
           nearest == Larger(0, Larger(lo - at, at - hi))
           farthest == Larger(Distance(at, lo), Distance(at, hi))
           d == Distance(p, at)
<1>1. /\ at \in Int /\ pose.near \in Nat /\ pose.far \in Nat
      /\ pose.forward \in {-1, 0, 1}
  BY StreamAssumption
<1>2. /\ pose.near <= d /\ d <= pose.far
      /\ pose.forward = 0 \/ d = 0 \/ (p - at) * pose.forward > 0
  BY DEF InCone
<1>3. d \in Nat /\ nearest \in Int /\ farthest \in Int
      /\ nearest <= d /\ d <= farthest /\ (d = 0 <=> p = at)
  BY <1>1 DEF Larger, Distance
<1>4. pose.near <= farthest /\ nearest <= pose.far
  BY <1>1, <1>2, <1>3
<1>5. \/ pose.forward = 0
      \/ \E corner \in {lo, hi} : (corner - at) * pose.forward > 0
  <2>1. CASE pose.forward = 0
    BY <2>1
  <2>2. CASE pose.forward = 1
    <3>1. at <= p
      BY <1>1, <1>2, <1>3, <2>2
    <3>2. (hi - at) * pose.forward > 0
      BY <1>1, <2>2, <3>1
    <3> QED
      BY <3>2
  <2>3. CASE pose.forward = -1
    <3>1. lo < at
      BY <1>1, <1>2, <1>3, <2>3
    <3>2. (lo - at) * pose.forward > 0
      BY <1>1, <2>3, <3>1
    <3> QED
      BY <3>2
  <2> QED
    BY <1>1, <2>1, <2>2, <2>3
<1> QED
  BY <1>4, <1>5 DEF Intersects

\* Through an intact index of the catalog a navigator sees nothing but what is
\* visible in the file, and all of that but what lies on a grid line
\* (query_index).
LEMMA IndexLosesLittle ==
  ASSUME IInv, Path = "index", Intact, manifest.of = catalog, NEW pose \in Poses
  PROVE  /\ Visible(IndexCandidates(pose), pose) \subseteq Visible(catalog, pose)
         /\ Visible(catalog, pose) \ OnGridLine(pose) \subseteq Visible(IndexCandidates(pose), pose)
         /\ IsFiniteSet(IndexCandidates(pose))
<1> DEFINE origin == Lowest(catalog) - 1
           size   == CellSize(catalog)
<1>1. manifest = ManifestOf(catalog) /\ catalog # {}
  BY DEF IInv, Described, Intact
<1>2. /\ manifest.origin = origin /\ manifest.size = size
      /\ manifest.cells = {CellOf(o.pos, origin, size) : o \in catalog}
  BY <1>1 DEF ManifestOf
<1>3. \A k \in manifest.cells : chunks[k] = InCell(catalog, k, origin, size)
  BY <1>2 DEF Intact
<1>4. IndexCandidates(pose) \subseteq catalog
  BY <1>3 DEF IndexCandidates, CellsAhead, InCell
<1>5. ASSUME NEW o \in Visible(catalog, pose) \ OnGridLine(pose)
      PROVE  o \in IndexCandidates(pose)
  <2> DEFINE k == CellOf(o.pos, origin, size)
             lo == origin + k * size
  <2>1. o \in catalog /\ InCone(o.pos, pose)
    BY DEF Visible
  <2>2. /\ lo \in Int /\ size \in Nat /\ lo <= o.pos /\ o.pos < lo + size
        /\ o.pos = lo => (o.pos - origin) % size = 0
    BY <2>1, CellHolds DEF IInv
  <2>3. o.pos \in Int
    BY <2>1, BoxTyped DEF IInv
  <2>4. ~(pose.forward = -1 /\ o.pos = pose.at /\ o.pos = lo)
    <3> HIDE DEF origin, size, lo
    <3> QED
      BY <1>2, <2>1, <2>2 DEF OnGridLine
  <2> HIDE DEF k, lo, size, origin
  <2>5. Intersects(lo, lo + size, pose)
    <3>1. lo + size \in Int
      BY <2>2
    <3> QED
      BY <2>1, <2>2, <2>3, <2>4, <3>1, BoxAhead
  <2>6. k \in CellsAhead(pose)
    BY <1>2, <2>1, <2>5 DEF CellsAhead, k, lo
  <2>7. o \in chunks[k]
    BY <1>3, <2>1, <2>6 DEF CellsAhead, InCell, k
  <2> QED
    BY <2>6, <2>7 DEF IndexCandidates
<1>6. IsFiniteSet(IndexCandidates(pose))
  BY <1>4, FS_Subset, StreamAssumption DEF IInv
<1> QED
  BY <1>4, <1>5, <1>6 DEF Visible

-----------------------------------------------------------------------------
(* Caps *)

\* What an exact filter keeps is visible, and all of it below the cap
\* (apply_filter).
LEMMA FilterKeeps ==
  ASSUME NEW objects, IsFiniteSet(objects), NEW pose, NEW cap,
         NEW kept \in Filtered(objects, pose, cap)
  PROVE  /\ kept \subseteq Visible(objects, pose)
         /\ IsFiniteSet(Visible(objects, pose))
         /\ (cap = 0 \/ Cardinality(Visible(objects, pose)) <= cap)
              => kept = Visible(objects, pose)
<1> DEFINE seen == Visible(objects, pose)
<1>1. IsFiniteSet(seen)
  BY FS_Subset DEF Visible
<1>2. /\ kept \in SUBSET seen
      /\ (cap = 0 \/ Cardinality(seen) <= cap) => Cardinality(kept) = Cardinality(seen)
  BY DEF Filtered
<1> HIDE DEF seen
<1>3. Cardinality(kept) = Cardinality(seen) => kept = seen
  BY <1>1, <1>2, FS_Subset
<1> QED
  BY <1>1, <1>2, <1>3 DEF seen

\* The box holds every row that can be in the cone (cone_aabb).
LEMMA BoxHoldsCone ==
  ASSUME NEW pose
  PROVE  Visible(InBox(pose), pose) = Visible(Rows, pose)
  BY DEF Visible, InBox, InCone

\* The dataset's name in front keeps the objects apart (_namespace).
LEMMA NamesCount ==
  ASSUME NEW name, NEW objects, IsFiniteSet(objects)
  PROVE  /\ IsFiniteSet(Named(name, objects))
         /\ Cardinality(Named(name, objects)) = Cardinality(objects)
<1> DEFINE f == [o \in objects |-> <<name, o>>]
<1>1. f \in [objects -> Named(name, objects)]
  BY DEF Named
<1>2. \A x, y \in objects : f[x] = f[y] => x = y
  OBVIOUS
<1>3. \A t \in Named(name, objects) : \E x \in objects : f[x] = t
  BY DEF Named
<1>4. f \in Bijection(objects, Named(name, objects))
  BY <1>1, <1>2, <1>3 DEF Bijection, Injection, Surjection, IsInjective
<1> QED
  BY <1>4, FS_Bijection DEF ExistsBijection

-----------------------------------------------------------------------------
(* The stream *)

\* Whatever was fetched, built or interrupted before, a stream of a file that is
\* read whole or through an intact index is the sector, cut only by the caps,
\* the row limit and the grid lines (stream_sector_for_active_datasets).
LEMMA StreamCorrect == IInv => StreamShowsTheSector
<1> SUFFICES ASSUME IInv,
                    \/ Path = "full"
                    \/ Path = "index" /\ Intact /\ manifest.of = catalog,
                    NEW pose \in Poses, NEW cap \in Caps,
                    NEW shown \in Merged(pose, cap)
             PROVE  LET sector == Named("file", Visible(catalog, pose))
                                    \cup Named("db", Visible(Rows, pose))
                        lost   == Named("file", OnGridLine(pose))
                                    \cup Named("db", OverRowLimit(pose, cap)) IN
                    /\ shown \subseteq sector
                    /\ cap # 0 => Cardinality(shown) <= cap
                    /\ cap = 0 \/ Cardinality(sector) <= cap => sector \ lost \subseteq shown
  BY DEF StreamShowsTheSector
<1> DEFINE V == Visible(catalog, pose)
           W == Visible(Rows, pose)
           C == IF Path = "full" THEN catalog ELSE IndexCandidates(pose)
           R == BoxCandidates(pose, cap)
           sector == Named("file", V) \cup Named("db", W)
           lost == Named("file", OnGridLine(pose)) \cup Named("db", OverRowLimit(pose, cap))
<1>1. PICK f \in FileStream(pose, cap), d \in DbStream(pose, cap) :
        LET all == Named("file", f) \cup Named("db", d) IN
        /\ shown \subseteq all
        /\ Cardinality(shown) = IF cap = 0 \/ Cardinality(all) <= cap
                                  THEN Cardinality(all) ELSE cap
  BY DEF Merged
<1> DEFINE all == Named("file", f) \cup Named("db", d)
<1>2. IsFiniteSet(catalog) /\ IsFiniteSet(Rows) /\ cap \in Nat
  BY StreamAssumption DEF IInv
<1>3. /\ f \in Filtered(C, pose, cap) /\ IsFiniteSet(C)
      /\ Visible(C, pose) \subseteq V
      /\ V \ OnGridLine(pose) \subseteq Visible(C, pose)
  <2>1. CASE Path = "full"
    BY <1>2, <2>1 DEF FileStream
  <2>2. CASE Path # "full"
    <3>1. Path = "index" /\ Intact /\ manifest.of = catalog
      BY <2>2
    <3>2. f \in Filtered(IndexCandidates(pose), pose, cap)
      BY <3>1 DEF FileStream
    <3> QED
      BY <2>2, <3>1, <3>2, IndexLosesLittle
  <2> QED
    BY <2>1, <2>2
<1>4. R \subseteq InBox(pose) /\ InBox(pose) \subseteq Rows
  BY DEF BoxCandidates, InBox
<1>5. IsFiniteSet(R)
  BY <1>2, <1>4, FS_Subset
<1>6. Visible(R, pose) \subseteq W /\ W \ OverRowLimit(pose, cap) \subseteq Visible(R, pose)
  <2>1. W = Visible(InBox(pose), pose)
    BY BoxHoldsCone
  <2> HIDE DEF R
  <2>2. Visible(R, pose) \subseteq Visible(Rows, pose)
    BY <1>4 DEF Visible
  <2>3. Visible(InBox(pose), pose) \ (InBox(pose) \ R) \subseteq Visible(R, pose)
    BY DEF Visible
  <2> QED
    BY <2>1, <2>2, <2>3 DEF OverRowLimit, R
<1> HIDE DEF C, R
<1>7. /\ f \subseteq Visible(C, pose)
      /\ (cap = 0 \/ Cardinality(Visible(C, pose)) <= cap) => f = Visible(C, pose)
  BY <1>3, FilterKeeps
<1>8. /\ d \subseteq Visible(R, pose)
      /\ (cap = 0 \/ Cardinality(Visible(R, pose)) <= cap) => d = Visible(R, pose)
  BY <1>5, FilterKeeps DEF DbStream, R
<1>9. IsFiniteSet(V) /\ IsFiniteSet(W)
  <2>1. V \in SUBSET catalog /\ W \in SUBSET Rows
    BY DEF Visible
  <2> QED
    BY <1>2, <2>1, FS_Subset
<1> HIDE DEF V, W
<1>10. all \subseteq sector
  BY <1>3, <1>6, <1>7, <1>8 DEF Named
<1>11. IsFiniteSet(sector)
  BY <1>9, NamesCount, FS_Union
<1>12. IsFiniteSet(all) /\ Cardinality(all) \in Nat
  BY <1>10, <1>11, FS_Subset, FS_CardinalityType
<1>13. cap # 0 => Cardinality(shown) <= cap
  BY <1>1, <1>2, <1>12
<1>14. shown \subseteq sector
  BY <1>1, <1>10
<1>15. ASSUME cap = 0 \/ Cardinality(sector) <= cap
       PROVE  sector \ lost \subseteq shown
  <2>1. /\ Cardinality(Named("file", V)) = Cardinality(V)
        /\ Cardinality(Named("db", W)) = Cardinality(W)
    BY <1>9, NamesCount
  <2>2. /\ Cardinality(Named("file", V)) <= Cardinality(sector)
        /\ Cardinality(Named("db", W)) <= Cardinality(sector)
        /\ Cardinality(all) <= Cardinality(sector)
    BY <1>10, <1>11, FS_Subset
  <2>3. /\ Cardinality(Visible(C, pose)) <= Cardinality(V)
        /\ Cardinality(Visible(R, pose)) <= Cardinality(W)
    BY <1>3, <1>6, <1>9, FS_Subset
  <2>4. /\ IsFiniteSet(Visible(C, pose)) /\ IsFiniteSet(Visible(R, pose))
    BY <1>3, <1>6, <1>9, FS_Subset
  <2>5. /\ Cardinality(V) \in Nat /\ Cardinality(W) \in Nat /\ Cardinality(sector) \in Nat
        /\ Cardinality(Visible(C, pose)) \in Nat /\ Cardinality(Visible(R, pose)) \in Nat
    BY <1>9, <1>11, <2>4, FS_CardinalityType
  <2>6. f = Visible(C, pose) /\ d = Visible(R, pose)
    BY <1>2, <1>7, <1>8, <1>15, <2>1, <2>2, <2>3, <2>5
  <2>7. sector \ lost \subseteq all
    BY <1>3, <1>6, <2>6 DEF Named
  <2>8. cap = 0 \/ Cardinality(all) <= cap
    BY <1>2, <1>12, <1>15, <2>2, <2>5
  <2>9. Cardinality(shown) = Cardinality(all) /\ shown \in SUBSET all
    BY <1>1, <2>8
  <2>10. shown = all
    BY <1>12, <2>9, FS_Subset
  <2> QED
    BY <2>7, <2>10
<1> QED
  BY <1>13, <1>14, <1>15 DEF V, W

\* No step leaves a manifest that describes anything but a catalog's grid.
LEMMA InvPreserved == IInv /\ [Next]_vars => IInv'
<1> SUFFICES ASSUME IInv, [Next]_vars PROVE IInv'
  OBVIOUS
<1>1. ASSUME NEW c \in Catalogs, NEW register \in BOOLEAN, Fetch(c, register) PROVE IInv'
  BY <1>1 DEF Fetch, IInv, Described
<1>2. CASE Reregister
  BY <1>2 DEF Reregister, IInv, Described
<1>3. CASE StartBuild
  BY <1>3 DEF StartBuild, IInv, Described
<1>4. CASE WriteCell
  <2>1. PICK k \in build.left : build' = [build EXCEPT !.left = @ \ {k}]
    BY <1>4 DEF WriteCell
  <2>2. build.of \in Catalogs /\ build.of # {}
    BY <1>4 DEF WriteCell, IInv
  <2>3. build'.of = build.of
    BY <2>1
  <2> QED
    BY <1>4, <2>2, <2>3 DEF WriteCell, IInv, Described
<1>5. CASE OpenManifest
  <2>1. build.of \in Catalogs /\ build.of # {} /\ build'.of = build.of
    BY <1>5 DEF OpenManifest, IInv
  <2> QED
    BY <1>5, <2>1 DEF OpenManifest, IInv, Described
<1>6. CASE FinishBuild
  <2>1. build.of \in Catalogs /\ build.of # {}
    BY <1>6 DEF FinishBuild, IInv
  <2>2. manifest' = ManifestOf(build.of) /\ ManifestOf(build.of).of = build.of
    BY <1>6 DEF FinishBuild, ManifestOf
  <2> QED
    BY <1>6, <2>1, <2>2 DEF FinishBuild, IInv, Described
<1>7. CASE StopBuild
  BY <1>7 DEF StopBuild, IInv, Described
<1>8. CASE UNCHANGED vars
  BY <1>8 DEF vars, IInv, Described
<1> QED
  BY <1>1, <1>2, <1>3, <1>4, <1>5, <1>6, <1>7, <1>8 DEF Next

\* While the file is read whole or through an intact index of it, the navigator is
\* shown nothing but its sector, and all of a sector that fits the cap except what
\* lies on a grid line or over the row limit, for any history of the files.
THEOREM StreamIsTheSector == Spec => []StreamShowsTheSector
<1>1. Init => IInv
  BY DEF Init, IInv, Described
<1>2. IInv /\ [Next]_vars => IInv'
  BY InvPreserved
<1>3. IInv => StreamShowsTheSector
  BY StreamCorrect
<1> QED
  BY <1>1, <1>2, <1>3, PTL DEF Spec
=============================================================================
