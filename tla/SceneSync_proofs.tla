--------------------------- MODULE SceneSync_proofs ---------------------------
(* Type correctness of SceneSync, the life of the instance template, what a   *)
(* pass keeps, adds and removes, and how many nodes it leaves.                *)
EXTENDS SceneSync, TLAPS, SequenceTheorems, FiniteSetTheorems

\* A capped prefix of a sequence of uids is a sequence of uids.
LEMMA PrefixType ==
  ASSUME NEW s \in Seq(Uid), NEW n \in Nat
  PROVE  Prefix(s, n) \in Seq(Uid)
BY DEF Prefix

\* The elements of a sequence of uids are uids.
LEMMA ToSetType ==
  ASSUME NEW s \in Seq(Uid)
  PROVE  ToSet(s) \subseteq Uid
BY DEF ToSet

\* What the filters hand to the handlers, and what the diff wants, are uids.
LEMMA ResultType ==
  ASSUME NEW v \in View, NEW cap \in MaxVisible
  PROVE  /\ SyncResult(v, cap) \in Seq(Uid)
         /\ Filtered(v.stream, cap) \in Seq(Uid)
         /\ GenerateResult(v, cap) \in Seq(Uid)
         /\ Wanted(v, cap) \subseteq Uid
<1>1. /\ v.stream \in Seq(Uid) /\ v.sample \in Seq(Uid)
      /\ cap \in Nat /\ Catalog \in Seq(Uid) /\ FallbackCap \in Nat
  BY SceneAssumption DEF ViewType
<1>2. \A s \in Seq(Uid) : Filtered(s, cap) \in Seq(Uid)
  BY <1>1, PrefixType DEF Filtered
<1>3. SyncResult(v, cap) \in Seq(Uid)
  BY <1>1, <1>2 DEF SyncResult
<1>4. GenerateResult(v, cap) \in Seq(Uid)
  BY <1>1, <1>2, PrefixType DEF GenerateResult
<1> QED
  BY <1>1, <1>2, <1>3, <1>4, PrefixType, ToSetType DEF Wanted

\* What build_point_object and _build_instance make are nodes.
LEMMA BuiltType ==
  ASSUME NEW uids \in SUBSET Uid, NEW mode \in PerObjectMode, NEW epoch \in Epoch
  PROVE  /\ Built(uids, mode, epoch) \subseteq Node
         /\ \A n \in Built(uids, mode, epoch) : n.mode = mode /\ n.epoch = epoch
<1>1. \A u \in Uid : NodeOf(u, mode, epoch) \in Node
  BY DEF NodeOf, Node
<1>2. \A u \in Uid : NodeOf(u, mode, epoch).mode = mode /\ NodeOf(u, mode, epoch).epoch = epoch
  BY DEF NodeOf
<1> QED
  BY <1>1, <1>2 DEF Built

\* The debug_objects backend builds for Generate and Regenerate.
LEMMA RebuildType ==
  ASSUME TypeOK, NEW uids \in SUBSET Uid, Rebuild(uids)
  PROVE  /\ navigator' = FALSE /\ hierarchy' = TRUE /\ strays' = {} /\ pegs' = {}
         /\ debug' = {} /\ exported' = exported
         /\ guest' \in {"root", "sector", "deleted"}
         /\ sector' \subseteq Node
         /\ \A n \in sector' : n.mode = "debug_objects"
<1>1. "debug_objects" \in PerObjectMode /\ BaseEpoch \in Epoch
  BY SceneAssumption DEF PerObjectMode
<1>2. /\ Built(uids, "debug_objects", BaseEpoch) \subseteq Node
      /\ \A n \in Built(uids, "debug_objects", BaseEpoch) : n.mode = "debug_objects"
  BY <1>1, BuiltType
<1> QED
  BY <1>2 DEF Rebuild, ClearMarked, TypeOK

\* What the lookup is given are uids.
LEMMA PublishedType ==
  ASSUME TypeOK, NEW used, NEW v \in View, NEW cap \in MaxVisible
  PROVE  Published(used, v, cap) \subseteq Uid
<1>1. ToSet(Filtered(v.stream, cap)) \subseteq Uid
  BY ResultType, ToSetType
<1> QED
  BY <1>1 DEF Published, TypeOK

\* What one pass does to each part of the scene, whichever backend runs it.
LEMMA SyncType ==
  ASSUME TypeOK, NEW mode \in Mode, NEW v \in View, NEW cap \in MaxVisible,
         NEW epoch \in Epoch, NEW show \in BOOLEAN, Sync(mode, v, cap, epoch, show)
  PROVE  TypeOK'
<1> DEFINE wanted == Wanted(v, cap)
           at == IF v.streaming THEN epoch ELSE BaseEpoch
<1>1. /\ wanted \subseteq Uid /\ Added(wanted) \subseteq Uid /\ at \in Epoch
  BY ResultType, SceneAssumption DEF Added
<1>2. navigator' \in BOOLEAN /\ hierarchy' \in BOOLEAN /\ strays' \subseteq Node
      /\ guest' \in {"root", "sector", "deleted"}
  BY DEF Sync, TypeOK
<1>3. lookup' \subseteq Uid
  BY PublishedType DEF Sync
<1>4. CASE mode \in PerObjectMode /\ SyncPerObject(mode, v, cap, epoch, show)
  <2>1. Built(Added(wanted), mode, at) \subseteq Node
    BY <1>1, <1>4, BuiltType
  <2>2. sector' \subseteq Node
    BY <1>4, <2>1 DEF SyncPerObject, UpdateNodes, TypeOK
  <2>3. debug' \subseteq {"template", "cone"} /\ pegs' \subseteq PegMode /\ exported' \subseteq Uid
    BY <1>4 DEF SyncPerObject, UpdateCone, TypeOK
  <2> QED
    BY <1>2, <1>3, <2>2, <2>3 DEF TypeOK
<1>5. CASE mode = "point_cloud" /\ SyncPointCloud(v, cap, show)
  BY <1>2, <1>3, <1>5 DEF SyncPointCloud, UpdatePeg, UpdateCone, TypeOK, PegMode
<1>6. CASE mode = "native_viewer" /\ SyncNative(v, cap, show)
  BY <1>1, <1>2, <1>3, <1>6 DEF SyncNative, UpdatePeg, UpdateCone, TypeOK, PegMode
<1>7. CASE mode = "native_viewer" /\ SyncNativeFails(show)
  BY <1>2, <1>3, <1>7 DEF SyncNativeFails, UpdateCone, TypeOK
<1> QED
  BY <1>4, <1>5, <1>6, <1>7 DEF Sync

\* The artist's edits keep the nodes well formed.
LEMMA ArtistType ==
  ASSUME TypeOK, Artist
  PROVE  TypeOK'
<1>1. /\ sector' \subseteq Node /\ strays' \subseteq Node
      /\ guest' \in {"root", "sector", "deleted"}
      /\ UNCHANGED <<navigator, hierarchy, pegs, debug, lookup, exported>>
  <2>1. CASE \E n \in sector : TagNode(n)
    <3>1. PICK n \in sector : TagNode(n)
      BY <2>1
    <3>2. [n EXCEPT !.tagged = TRUE] \in Node
      BY DEF TypeOK, Node
    <3> QED
      BY <3>1, <3>2 DEF TagNode, TypeOK
  <2>2. CASE \E n \in sector : CopyNode(n)
    <3>1. PICK n \in sector : CopyNode(n)
      BY <2>2
    <3>2. [n EXCEPT !.copy = TRUE] \in Node
      BY DEF TypeOK, Node
    <3> QED
      BY <3>1, <3>2 DEF CopyNode, TypeOK
  <2>3. CASE \E n \in sector : MoveNodeOut(n) \/ DeleteNode(n)
    BY <2>3 DEF MoveNodeOut, DeleteNode, TypeOK
  <2>4. CASE AdoptGuest
    BY <2>4 DEF AdoptGuest, TypeOK
  <2> QED
    BY <2>1, <2>2, <2>3, <2>4 DEF Artist
<1> QED
  BY <1>1 DEF TypeOK

\* Every button, toggle and edit keeps the scene well formed: the nodes under
\* UNAV_VisibleSector are ones some handler built or the artist copied, whatever
\* the catalog, the caps and the modes are.
THEOREM TypeCorrect == Spec => []TypeOK
<1>1. Init => TypeOK
  BY DEF Init, TypeOK
<1>2. TypeOK /\ [Next]_vars => TypeOK'
  <2> SUFFICES ASSUME TypeOK, [Next]_vars
               PROVE  TypeOK'
    OBVIOUS
  <2>1. CASE \E mode \in Mode, v \in View, cap \in MaxVisible, epoch \in Epoch, show \in BOOLEAN :
               Sync(mode, v, cap, epoch, show)
    BY <2>1, SyncType
  <2>2. CASE \E v \in View, cap \in MaxVisible, allowFull \in BOOLEAN : Generate(v, cap, allowFull)
    <3>1. PICK v \in View, cap \in MaxVisible, allowFull \in BOOLEAN : Generate(v, cap, allowFull)
      BY <2>2
    <3>2. ToSet(GenerateResult(v, cap)) \subseteq Uid /\ lookup' \subseteq Uid
      BY <3>1, ResultType, ToSetType, PublishedType DEF Generate
    <3> QED
      BY <3>1, <3>2, RebuildType DEF Generate, TypeOK
  <2>3. CASE \E v \in View, cap \in MaxVisible : Regenerate(v, cap)
    <3>1. PICK v \in View, cap \in MaxVisible : Regenerate(v, cap)
      BY <2>3
    <3>2. ToSet(SyncResult(v, cap)) \subseteq Uid /\ lookup' \subseteq Uid
      BY <3>1, ResultType, ToSetType, PublishedType DEF Regenerate
    <3> QED
      BY <3>1, <3>2, RebuildType DEF Regenerate, TypeOK
  <2>4. CASE ClearScene
    BY <2>4 DEF ClearScene, ClearMarked, TypeOK
  <2>5. CASE CreateNavigator \/ ShowCone \/ HideCone
    BY <2>5 DEF CreateNavigator, ShowCone, HideCone, UpdateCone, TypeOK
  <2>6. CASE Artist
    BY <2>6, ArtistType
  <2>7. CASE UNCHANGED vars
    BY <2>7 DEF vars, TypeOK
  <2> QED
    BY <2>1, <2>2, <2>3, <2>4, <2>5, <2>6, <2>7 DEF Next
<1> QED
  BY <1>1, <1>2, PTL DEF Spec

------------------------------------------------------------------------------
\* The template outlives the instances made from it.

\* Inductive with the type invariant: an instance only enters the sector in a
\* pass that ensures the template, and only the clear removes the template.
TemplateInv == TypeOK /\ InstancesHaveTemplate

\* A pass in any mode leaves the template where instances need it.
LEMMA SyncKeepsTemplate ==
  ASSUME TemplateInv, NEW mode \in Mode, NEW v \in View, NEW cap \in MaxVisible,
         NEW epoch \in Epoch, NEW show \in BOOLEAN, Sync(mode, v, cap, epoch, show)
  PROVE  InstancesHaveTemplate'
<1> DEFINE wanted == Wanted(v, cap)
           at == IF v.streaming THEN epoch ELSE BaseEpoch
<1>1. Added(wanted) \subseteq Uid /\ at \in Epoch
  BY ResultType, SceneAssumption DEF Added
<1>2. strays' = strays
  BY DEF Sync
<1>3. CASE mode \in PerObjectMode /\ SyncPerObject(mode, v, cap, epoch, show)
  <2>1. \A n \in Built(Added(wanted), mode, at) : n.mode = mode
    BY <1>1, <1>3, BuiltType
  <2>2. sector' \subseteq sector \cup Built(Added(wanted), mode, at)
    BY <1>3 DEF SyncPerObject, UpdateNodes
  <2>3. /\ "template" \in debug => "template" \in debug'
        /\ mode = "instances" => "template" \in debug'
    BY <1>3 DEF SyncPerObject, UpdateCone
  <2> QED
    BY <1>2, <2>1, <2>2, <2>3 DEF TemplateInv, InstancesHaveTemplate
<1>4. CASE sector' = sector /\ UpdateCone(show, debug)
  BY <1>2, <1>4 DEF UpdateCone, TemplateInv, InstancesHaveTemplate
<1> QED
  BY <1>3, <1>4 DEF Sync, SyncPointCloud, SyncNative, SyncNativeFails

\* Editing a node does not change what it is an instance of.
LEMMA ArtistKeepsTemplate ==
  ASSUME TemplateInv, Artist
  PROVE  InstancesHaveTemplate'
<1>1. \A n \in sector : /\ [n EXCEPT !.tagged = TRUE].mode = n.mode
                        /\ [n EXCEPT !.copy = TRUE].mode = n.mode
  BY DEF TemplateInv, TypeOK, Node
<1>2. CASE \E n \in sector : TagNode(n)
  BY <1>1, <1>2 DEF TagNode, TemplateInv, InstancesHaveTemplate
<1>3. CASE \E n \in sector : CopyNode(n)
  BY <1>1, <1>3 DEF CopyNode, TemplateInv, InstancesHaveTemplate
<1>4. CASE \E n \in sector : MoveNodeOut(n) \/ DeleteNode(n)
  BY <1>4 DEF MoveNodeOut, DeleteNode, TemplateInv, InstancesHaveTemplate
<1>5. CASE AdoptGuest
  BY <1>5 DEF AdoptGuest, TemplateInv, InstancesHaveTemplate
<1> QED
  BY <1>2, <1>3, <1>4, <1>5 DEF Artist

\* No handler and no edit leaves an instance, in the sector or moved out of it,
\* without the template it links to.
THEOREM TemplateSafe == Spec => []InstancesHaveTemplate
<1>1. Init => InstancesHaveTemplate
  BY DEF Init, InstancesHaveTemplate
<1>2. TypeOK /\ InstancesHaveTemplate /\ [Next]_vars => InstancesHaveTemplate'
  <2> SUFFICES ASSUME TypeOK, InstancesHaveTemplate, [Next]_vars
               PROVE  InstancesHaveTemplate'
    OBVIOUS
  <2> USE DEF TemplateInv
  <2>1. CASE \E mode \in Mode, v \in View, cap \in MaxVisible, epoch \in Epoch, show \in BOOLEAN :
               Sync(mode, v, cap, epoch, show)
    BY <2>1, SyncKeepsTemplate
  <2>2. CASE \E uids \in SUBSET Uid : Rebuild(uids)
    BY <2>2, RebuildType DEF InstancesHaveTemplate
  <2>3. CASE \E v \in View, cap \in MaxVisible, allowFull \in BOOLEAN : Generate(v, cap, allowFull)
    BY <2>2, <2>3, ResultType, ToSetType DEF Generate
  <2>4. CASE \E v \in View, cap \in MaxVisible : Regenerate(v, cap)
    BY <2>2, <2>4, ResultType, ToSetType DEF Regenerate
  <2>5. CASE ClearScene
    BY <2>5 DEF ClearScene, ClearMarked, InstancesHaveTemplate
  <2>6. CASE CreateNavigator \/ ShowCone \/ HideCone
    BY <2>6 DEF CreateNavigator, ShowCone, HideCone, UpdateCone, InstancesHaveTemplate
  <2>7. CASE Artist
    BY <2>7, ArtistKeepsTemplate
  <2>8. CASE UNCHANGED vars
    BY <2>8 DEF vars, InstancesHaveTemplate
  <2> QED
    BY <2>1, <2>3, <2>4, <2>5, <2>6, <2>7, <2>8 DEF Next
<1> QED
  BY <1>1, <1>2, TypeCorrect, PTL DEF Spec

------------------------------------------------------------------------------
\* A node whose uid stays wanted survives every pass as it is, whatever the
\* mode, the cap and the number of copies: a pass takes away only victims, and
\* no victim carries a wanted uid.
THEOREM KeptNodesSurvive == Spec => SyncSparesKept
<1>1. ASSUME NEW mode \in Mode, NEW v \in View, NEW cap \in MaxVisible,
             NEW epoch \in Epoch, NEW show \in BOOLEAN, Sync(mode, v, cap, epoch, show)
      PROVE  {n \in sector : n.uid \in Wanted(v, cap)} \subseteq sector'
  <2>1. CASE SyncPerObject(mode, v, cap, epoch, show)
    BY <2>1 DEF SyncPerObject, UpdateNodes
  <2>2. CASE sector' = sector
    BY <2>2
  <2> QED
    BY <1>1, <2>1, <2>2 DEF Sync, SyncPointCloud, SyncNative, SyncNativeFails
<1>2. SparesKept
  BY <1>1 DEF SparesKept
<1> QED
  BY <1>2, PTL DEF SyncSparesKept

\* When the sector shows exactly the wanted uids there is nothing to add and no
\* uid to remove, so a pass finds no victim, even where the artist copied nodes.
THEOREM SettledSyncIsNoOp == Spec => SyncIdempotent
<1>1. ASSUME NEW mode \in Mode \cap PerObjectMode, NEW v \in View, NEW cap \in MaxVisible,
             NEW epoch \in Epoch, NEW show \in BOOLEAN, Sync(mode, v, cap, epoch, show),
             Uids(sector) = Wanted(v, cap)
      PROVE  sector' = sector
  <2> DEFINE wanted == Wanted(v, cap)
             at == IF v.streaming THEN epoch ELSE BaseEpoch
  <2>1. UpdateNodes(mode, wanted, at)
    BY <1>1 DEF Sync, SyncPerObject, PerObjectMode
  <2>2. Built(Added(wanted), mode, at) = {}
    BY <1>1 DEF Built, Added
  <2>3. PICK victims \in SUBSET {n \in sector : n.uid \notin wanted} :
           sector' = (sector \ victims) \cup Built(Added(wanted), mode, at)
    BY <2>1 DEF UpdateNodes
  <2>4. victims = {}
    BY <1>1 DEF Uids
  <2> QED
    BY <2>2, <2>3, <2>4
<1>2. NoOpWhenSettled
  BY <1>1 DEF NoOpWhenSettled
<1> QED
  BY <1>2, PTL DEF SyncIdempotent

------------------------------------------------------------------------------
\* What a pass adds and removes, and how much it leaves.

\* A capped prefix has at most as many elements as the cap, all of them of the
\* sequence.
LEMMA PrefixElements ==
  ASSUME NEW s \in Seq(Uid), NEW n \in Nat
  PROVE  /\ IsFiniteSet(ToSet(Prefix(s, n)))
         /\ Cardinality(ToSet(Prefix(s, n))) <= n
         /\ ToSet(Prefix(s, n)) \subseteq ToSet(s)
<1> DEFINE m == IF n < Len(s) THEN n ELSE Len(s)
           p == Prefix(s, n)
           f == [i \in 1..m |-> p[i]]
<1>1. m \in Nat /\ m <= n /\ m <= Len(s)
  OBVIOUS
<1>2. p \in Seq(Uid) /\ Len(p) = m /\ \A i \in 1..m : p[i] = s[i]
  BY <1>1 DEF Prefix
<1>3. ToSet(p) = {p[i] : i \in 1..m}
  BY <1>2 DEF ToSet
<1>4. f \in Surjection(1..m, ToSet(p))
  BY <1>3 DEF Surjection
<1>5. IsFiniteSet(1..m) /\ Cardinality(1..m) = m
  <2> HIDE DEF m
  <2> QED
    BY <1>1, FS_Interval
<1>6. IsFiniteSet(ToSet(p)) /\ Cardinality(ToSet(p)) <= m
  BY <1>4, <1>5, FS_Surjection
<1>7. Cardinality(ToSet(p)) \in Nat
  BY <1>6, FS_CardinalityType
<1>8. ToSet(p) \subseteq ToSet(s)
  BY <1>1, <1>2, <1>3 DEF ToSet
<1> QED
  BY <1>1, <1>6, <1>7, <1>8

\* What the diff wants is finite, within the cap, and of what the filter found.
LEMMA WantedBounded ==
  ASSUME NEW v \in View, NEW cap \in MaxVisible
  PROVE  /\ IsFiniteSet(Wanted(v, cap))
         /\ Cardinality(Wanted(v, cap)) <= cap
         /\ Wanted(v, cap) \subseteq ToSet(SyncResult(v, cap))
<1>1. SyncResult(v, cap) \in Seq(Uid) /\ cap \in Nat
  BY ResultType, SceneAssumption
<1> QED
  BY <1>1, PrefixElements DEF Wanted

\* A cap other than 0 cuts nothing off what the filter has cut already.
LEMMA WantedIsResult ==
  ASSUME NEW v \in View, NEW cap \in MaxVisible \ {0}
  PROVE  Wanted(v, cap) = ToSet(SyncResult(v, cap))
<1>1. v.stream \in Seq(Uid) /\ v.sample \in Seq(Uid) /\ cap \in Nat
  BY SceneAssumption DEF ViewType
<1>2. \A s \in Seq(Uid) : Prefix(Prefix(s, cap), cap) = Prefix(s, cap)
  <2> TAKE s \in Seq(Uid)
  <2>1. CASE cap < Len(s)
    <3>1. Prefix(s, cap) = SubSeq(s, 1, cap)
      BY <2>1 DEF Prefix
    <3>2. SubSeq(s, 1, cap) \in Seq(Uid) /\ Len(SubSeq(s, 1, cap)) = cap
      BY <1>1, <2>1
    <3>3. SubSeq(SubSeq(s, 1, cap), 1, cap) = SubSeq(s, 1, cap)
      BY <3>2
    <3> QED
      BY <3>1, <3>2, <3>3 DEF Prefix
  <2>2. CASE ~(cap < Len(s))
    <3>1. SubSeq(s, 1, Len(s)) = s
      OBVIOUS
    <3> QED
      BY <2>2, <3>1 DEF Prefix
  <2> QED
    BY <2>1, <2>2
<1> QED
  BY <1>1, <1>2 DEF Wanted, SyncResult, Filtered

\* The uids of what is built are the uids asked for, except the bad ones.
LEMMA BuiltUids ==
  ASSUME NEW uids, NEW mode, NEW epoch
  PROVE  /\ Uids(Built(uids, mode, epoch)) = uids \ Bad
         /\ \A m, n \in Built(uids, mode, epoch) : m.uid = n.uid => m = n
         /\ \A n \in Built(uids, mode, epoch) : ~n.copy
<1>1. \A u \in uids : NodeOf(u, mode, epoch).uid = u /\ ~NodeOf(u, mode, epoch).copy
  BY DEF NodeOf
<1> QED
  BY <1>1 DEF Uids, Built

\* Nodes told apart by their uids are as many as their uids.
LEMMA CountByUid ==
  ASSUME NEW nodes, NEW S, IsFiniteSet(S), Uids(nodes) \subseteq S,
         \A m, n \in nodes : m.uid = n.uid => m = n
  PROVE  /\ IsFiniteSet(nodes)
         /\ Cardinality(nodes) <= Cardinality(S)
         /\ S = Uids(nodes) => Cardinality(nodes) = Cardinality(S)
<1> DEFINE f == [n \in nodes |-> n.uid]
<1>1. f \in Injection(nodes, S)
  BY DEF Injection, IsInjective, Uids
<1>2. S = Uids(nodes) => f \in Surjection(nodes, S)
  BY <1>1 DEF Surjection, Injection, Uids
<1> QED
  BY <1>1, <1>2, FS_Injection

------------------------------------------------------------------------------
\* The sector never holds two originals of one uid.

\* There are finitely many nodes, and only an artist's copy repeats a uid.
Originals ==
  /\ IsFiniteSet(sector)
  /\ \A m, n \in sector : (m.uid = n.uid /\ ~m.copy /\ ~n.copy) => m = n

\* A per-object pass, seen as the nodes it takes and the nodes it adds.
LEMMA PassParts ==
  ASSUME NEW mode \in Mode \cap PerObjectMode, NEW v \in View, NEW cap \in MaxVisible,
         NEW epoch \in Epoch, NEW show \in BOOLEAN, Sync(mode, v, cap, epoch, show)
  PROVE  \E victims \in SUBSET {n \in sector : n.uid \notin Wanted(v, cap)}, at \in Epoch :
           /\ Victims(Wanted(v, cap), victims)
           /\ sector' = (sector \ victims) \cup Built(Added(Wanted(v, cap)), mode, at)
<1> DEFINE at == IF v.streaming THEN epoch ELSE BaseEpoch
<1>1. at \in Epoch
  BY SceneAssumption
<1>2. mode # "point_cloud" /\ mode # "native_viewer"
  BY DEF PerObjectMode
<1>3. UpdateNodes(mode, Wanted(v, cap), at)
  BY <1>2 DEF Sync, SyncPerObject
<1> QED
  BY <1>1, <1>3 DEF UpdateNodes

\* A pass adds only uids the sector does not have.
LEMMA SyncKeepsOriginals ==
  ASSUME Originals, NEW mode \in Mode, NEW v \in View, NEW cap \in MaxVisible,
         NEW epoch \in Epoch, NEW show \in BOOLEAN, Sync(mode, v, cap, epoch, show)
  PROVE  Originals'
<1> DEFINE wanted == Wanted(v, cap)
<1>1. CASE mode \in PerObjectMode
  <2>1. PICK victims \in SUBSET {n \in sector : n.uid \notin wanted}, at \in Epoch :
           sector' = (sector \ victims) \cup Built(Added(wanted), mode, at)
    BY <1>1, PassParts
  <2> DEFINE new == Built(Added(wanted), mode, at)
             kept == sector \ victims
  <2>2. /\ Uids(new) = Added(wanted) \ Bad
        /\ \A m, n \in new : m.uid = n.uid => m = n
    BY BuiltUids
  <2>3. \A m \in new, n \in sector : m.uid # n.uid
    BY <2>2 DEF Added, Uids
  <2>4. IsFiniteSet(Added(wanted) \ Bad)
    BY WantedBounded, FS_Subset DEF Added
  <2>5. IsFiniteSet(new)
    BY <2>2, <2>4, CountByUid
  <2>6. IsFiniteSet(kept)
    BY FS_Subset DEF Originals
  <2>7. IsFiniteSet(sector')
    BY <2>1, <2>5, <2>6, FS_Union
  <2>8. \A m, n \in sector' : (m.uid = n.uid /\ ~m.copy /\ ~n.copy) => m = n
    <3>1. \A m, n \in kept : (m.uid = n.uid /\ ~m.copy /\ ~n.copy) => m = n
      BY DEF Originals
    <3>2. \A m \in new, n \in kept : m.uid # n.uid
      BY <2>3
    <3>3. sector' = kept \cup new
      BY <2>1
    <3> HIDE DEF new, kept
    <3> QED
      BY <2>2, <3>1, <3>2, <3>3
  <2> QED
    BY <2>7, <2>8 DEF Originals
<1>2. CASE mode \notin PerObjectMode
  <2>1. sector' = sector
    BY <1>2 DEF Sync, SyncPointCloud, SyncNative, SyncNativeFails
  <2> QED
    BY <2>1 DEF Originals
<1> QED
  BY <1>1, <1>2

\* A rebuild leaves one node for each uid.
LEMMA RebuildKeepsOriginals ==
  ASSUME NEW uids, IsFiniteSet(uids), Rebuild(uids)
  PROVE  Originals'
<1>1. sector' = Built(uids, "debug_objects", BaseEpoch)
  BY DEF Rebuild
<1>2. /\ Uids(sector') = uids \ Bad
      /\ \A m, n \in sector' : m.uid = n.uid => m = n
  BY <1>1, BuiltUids
<1>3. IsFiniteSet(uids \ Bad)
  BY FS_Subset
<1>4. IsFiniteSet(sector')
  BY <1>2, <1>3, CountByUid
<1> QED
  BY <1>2, <1>4 DEF Originals

\* What Generate and Regenerate build is finite.
LEMMA ResultsFinite ==
  ASSUME NEW s \in Seq(Uid)
  PROVE  IsFiniteSet(ToSet(s))
<1>1. Len(s) \in Nat /\ Prefix(s, Len(s)) = s
  BY DEF Prefix
<1> QED
  BY <1>1, PrefixElements

\* An edit repeats a uid only by copying.
LEMMA ArtistKeepsOriginals ==
  ASSUME TypeOK, Originals, Artist
  PROVE  Originals'
<1>1. CASE \E n \in sector : TagNode(n)
  <2>1. PICK n \in sector : TagNode(n)
    BY <1>1
  <2> DEFINE t == [n EXCEPT !.tagged = TRUE]
             rest == sector \ {n}
  <2>2. sector' = rest \cup {t}
    BY <2>1 DEF TagNode
  <2>3. t.uid = n.uid /\ t.copy = n.copy
    BY DEF TypeOK, Node
  <2>4. IsFiniteSet(rest)
    BY FS_RemoveElement DEF Originals
  <2>5. IsFiniteSet(sector')
    BY <2>2, <2>4, FS_AddElement
  <2>6. \A m \in rest : ~(m.uid = t.uid /\ ~m.copy /\ ~t.copy)
    BY <2>3 DEF Originals
  <2>7. \A l, m \in rest : (l.uid = m.uid /\ ~l.copy /\ ~m.copy) => l = m
    BY DEF Originals
  <2>8. \A l, m \in sector' : (l.uid = m.uid /\ ~l.copy /\ ~m.copy) => l = m
    <3> HIDE DEF t, rest
    <3> QED
      BY <2>2, <2>6, <2>7
  <2> QED
    BY <2>5, <2>8 DEF Originals
<1>2. CASE \E n \in sector : CopyNode(n)
  <2>1. PICK n \in sector : CopyNode(n)
    BY <1>2
  <2> DEFINE c == [n EXCEPT !.copy = TRUE]
  <2>2. sector' = sector \cup {c} /\ c.copy
    BY <2>1 DEF CopyNode, TypeOK, Node
  <2>3. IsFiniteSet(sector')
    BY <2>2, FS_AddElement DEF Originals
  <2>4. \A l, m \in sector' : (l.uid = m.uid /\ ~l.copy /\ ~m.copy) => l = m
    <3> HIDE DEF c
    <3> QED
      BY <2>2 DEF Originals
  <2> QED
    BY <2>3, <2>4 DEF Originals
<1>3. CASE \E n \in sector : MoveNodeOut(n) \/ DeleteNode(n)
  <2>1. PICK n \in sector : sector' = sector \ {n}
    BY <1>3 DEF MoveNodeOut, DeleteNode
  <2>2. IsFiniteSet(sector')
    BY <2>1, FS_RemoveElement DEF Originals
  <2> QED
    BY <2>1, <2>2 DEF Originals
<1>4. CASE AdoptGuest
  BY <1>4 DEF AdoptGuest, Originals
<1> QED
  BY <1>1, <1>2, <1>3, <1>4 DEF Artist

\* Whatever is clicked and edited, only copies repeat a uid.
LEMMA OriginalsAlways == Spec => []Originals
<1>1. Init => Originals
  BY FS_EmptySet DEF Init, Originals
<1>2. TypeOK /\ Originals /\ [Next]_vars => Originals'
  <2> SUFFICES ASSUME TypeOK, Originals, [Next]_vars
               PROVE  Originals'
    OBVIOUS
  <2>1. CASE \E mode \in Mode, v \in View, cap \in MaxVisible, epoch \in Epoch, show \in BOOLEAN :
               Sync(mode, v, cap, epoch, show)
    BY <2>1, SyncKeepsOriginals
  <2>2. CASE \E v \in View, cap \in MaxVisible, allowFull \in BOOLEAN : Generate(v, cap, allowFull)
    BY <2>2, ResultType, ResultsFinite, RebuildKeepsOriginals DEF Generate
  <2>3. CASE \E v \in View, cap \in MaxVisible : Regenerate(v, cap)
    BY <2>3, ResultType, ResultsFinite, RebuildKeepsOriginals DEF Regenerate
  <2>4. CASE ClearScene
    BY <2>4, FS_EmptySet DEF ClearScene, Originals
  <2>5. CASE sector' = sector
    BY <2>5 DEF Originals
  <2>6. CASE Artist
    BY <2>6, ArtistKeepsOriginals
  <2> QED
    BY <2>1, <2>2, <2>3, <2>4, <2>5, <2>6 DEF Next, CreateNavigator, ShowCone, HideCone, vars
<1> QED
  BY <1>1, <1>2, TypeCorrect, PTL DEF Spec

------------------------------------------------------------------------------
\* A per-object pass shows every wanted uid that can be built and takes exactly
\* one node of every uid that is not wanted any more, from any scene the clicks
\* and the artist may have left.
THEOREM PassesConverge == Spec => SyncConverges
<1>1. ASSUME Originals, NEW mode \in Mode \cap PerObjectMode, NEW v \in View,
             NEW cap \in MaxVisible, NEW epoch \in Epoch, NEW show \in BOOLEAN,
             Sync(mode, v, cap, epoch, show)
      PROVE  /\ Wanted(v, cap) \ Bad \subseteq Uids(sector')
             /\ \A u \in Uids(sector) \ Wanted(v, cap) :
                  Copies(sector', u) = Copies(sector, u) - 1
  <2> DEFINE wanted == Wanted(v, cap)
  <2>1. PICK victims \in SUBSET {n \in sector : n.uid \notin wanted}, at \in Epoch :
           /\ Victims(wanted, victims)
           /\ sector' = (sector \ victims) \cup Built(Added(wanted), mode, at)
    BY <1>1, PassParts
  <2> DEFINE new == Built(Added(wanted), mode, at)
  <2>2. Uids(new) = Added(wanted) \ Bad
    BY BuiltUids
  <2> HIDE DEF new
  <2>3. wanted \ Bad \subseteq Uids(sector')
    BY <2>1, <2>2 DEF new, Added, Uids
  <2>4. ASSUME NEW u \in Uids(sector) \ wanted
        PROVE  Copies(sector', u) = Copies(sector, u) - 1
    <3> DEFINE before == {n \in sector : n.uid = u}
               after == {n \in sector' : n.uid = u}
    <3>1. u \in Removed(wanted)
      BY DEF Removed
    <3>2. PICK gone \in victims : gone.uid = u
      BY <2>1, <3>1 DEF Victims, Uids
    <3>3. \A n \in victims : n.uid = u => n = gone
      BY <2>1, <3>2 DEF Victims
    <3>4. \A n \in new : n.uid # u
      BY <2>2 DEF Uids, Added
    <3>5. sector' = (sector \ victims) \cup new
      BY <2>1 DEF new
    <3>6. after = before \ {gone}
      BY <3>2, <3>3, <3>4, <3>5
    <3>7. gone \in before
      BY <2>1, <3>2
    <3>8. IsFiniteSet(before)
      BY <1>1, FS_Subset DEF Originals
    <3>9. Cardinality(before \ {gone}) = Cardinality(before) - 1
      BY <3>7, <3>8, FS_RemoveElement
    <3>10. Copies(sector', u) = Cardinality(after) /\ Copies(sector, u) = Cardinality(before)
      BY DEF Copies
    <3> QED
      BY <3>6, <3>9, <3>10
  <2> QED
    BY <2>3, <2>4
<1>2. Originals => Converges
  BY <1>1 DEF Converges
<1> QED
  BY <1>2, OriginalsAlways, PTL DEF SyncConverges

\* Where the artist has copied nothing, the nodes a pass leaves carry wanted
\* uids, one each.
LEMMA PassLeavesWanted ==
  ASSUME Originals, NEW mode \in Mode \cap PerObjectMode, NEW v \in View,
         NEW cap \in MaxVisible, NEW epoch \in Epoch, NEW show \in BOOLEAN,
         Sync(mode, v, cap, epoch, show), \A n \in sector : ~n.copy
  PROVE  /\ Uids(sector') \subseteq Wanted(v, cap)
         /\ \A m, n \in sector' : m.uid = n.uid => m = n
<1> DEFINE wanted == Wanted(v, cap)
<1>1. PICK victims \in SUBSET {n \in sector : n.uid \notin wanted}, at \in Epoch :
         /\ Victims(wanted, victims)
         /\ sector' = (sector \ victims) \cup Built(Added(wanted), mode, at)
  BY PassParts
<1> DEFINE new == Built(Added(wanted), mode, at)
<1>2. Uids(new) = Added(wanted) \ Bad /\ \A m, n \in new : m.uid = n.uid => m = n
  BY BuiltUids
<1>3. sector' = (sector \ victims) \cup new
  BY <1>1
<1> HIDE DEF new
<1>4. \A m, n \in sector : m.uid = n.uid => m = n
  BY DEF Originals
<1>5. \A n \in sector \ victims : n.uid \in wanted
  <2> SUFFICES ASSUME NEW n \in sector, n.uid \notin wanted
               PROVE  n \in victims
    OBVIOUS
  <2>1. n.uid \in Uids(victims)
    BY <1>1 DEF Victims, Removed, Uids
  <2> QED
    BY <1>4, <2>1 DEF Uids
<1>6. \A m \in new, n \in sector : m.uid # n.uid
  BY <1>2 DEF Added, Uids
<1>7. \A n \in new : n.uid \in wanted
  BY <1>2 DEF Added, Uids
<1>8. Uids(sector') \subseteq wanted
  BY <1>3, <1>5, <1>7 DEF Uids
<1>9. \A m, n \in sector' : m.uid = n.uid => m = n
  BY <1>2, <1>3, <1>4, <1>6
<1> QED
  BY <1>8, <1>9

\* max_visible_objects bounds the sector after any per-object pass, for every
\* cap, catalog and history of clicks in which no node was copied.
THEOREM CapRespected == Spec => SyncHonoursCap
<1>1. ASSUME Originals, NEW mode \in Mode \cap PerObjectMode, NEW v \in View,
             NEW cap \in MaxVisible, NEW epoch \in Epoch, NEW show \in BOOLEAN,
             Sync(mode, v, cap, epoch, show), \A n \in sector : ~n.copy
      PROVE  Cardinality(sector') <= cap
  <2>1. /\ Uids(sector') \subseteq Wanted(v, cap)
        /\ \A m, n \in sector' : m.uid = n.uid => m = n
    BY <1>1, PassLeavesWanted
  <2>2. IsFiniteSet(Wanted(v, cap)) /\ Cardinality(Wanted(v, cap)) <= cap
    BY WantedBounded
  <2>3. IsFiniteSet(sector') /\ Cardinality(sector') <= Cardinality(Wanted(v, cap))
    BY <2>1, <2>2, CountByUid
  <2>4. /\ Cardinality(sector') \in Nat /\ Cardinality(Wanted(v, cap)) \in Nat
        /\ cap \in Nat
    BY <2>2, <2>3, FS_CardinalityType, SceneAssumption
  <2> QED
    BY <2>2, <2>3, <2>4
<1>2. Originals => CapHonoured
  BY <1>1 DEF CapHonoured
<1> QED
  BY <1>2, OriginalsAlways, PTL DEF SyncHonoursCap

\* One streamed handler that found something leaves the lookup covering the
\* sector.
LEMMA HandlerPublishes ==
  ASSUME Originals, NEW v \in View, NEW cap \in MaxVisible, v.streaming, v.stream # <<>>
  PROVE  /\ \A mode \in Mode \cap PerObjectMode, epoch \in Epoch, show \in BOOLEAN :
              (Sync(mode, v, cap, epoch, show) /\ \A n \in sector : ~n.copy)
                => Uids(sector') \subseteq lookup'
         /\ \A allowFull \in BOOLEAN :
              (navigator /\ Generate(v, cap, allowFull)) => Uids(sector') \subseteq lookup'
         /\ Regenerate(v, cap) => Uids(sector') \subseteq lookup'
<1> DEFINE found == ToSet(Filtered(v.stream, cap))
<1>1. SyncResult(v, cap) = Filtered(v.stream, cap)
  BY DEF SyncResult
<1>2. Published(TRUE, v, cap) = found
  BY DEF Published
<1>3. ASSUME NEW mode \in Mode \cap PerObjectMode, NEW epoch \in Epoch,
             NEW show \in BOOLEAN, Sync(mode, v, cap, epoch, show), \A n \in sector : ~n.copy
      PROVE  Uids(sector') \subseteq lookup'
  <2>1. Uids(sector') \subseteq Wanted(v, cap)
    BY <1>3, PassLeavesWanted
  <2>2. Wanted(v, cap) \subseteq found
    BY <1>1, WantedBounded
  <2>3. lookup' = found
    BY <1>3 DEF Sync, Published
  <2> QED
    BY <2>1, <2>2, <2>3
<1>4. ASSUME NEW uids, Rebuild(uids)
      PROVE  Uids(sector') \subseteq uids
  BY <1>4, BuiltUids DEF Rebuild
<1>5. ASSUME NEW allowFull \in BOOLEAN, navigator, Generate(v, cap, allowFull)
      PROVE  Uids(sector') \subseteq lookup'
  <2>1. GenerateResult(v, cap) = Filtered(v.stream, cap)
    BY <1>5 DEF GenerateResult
  <2>2. Rebuild(found) /\ lookup' = found
    BY <1>5, <2>1 DEF Generate, Published
  <2> QED
    BY <1>4, <2>2
<1>6. ASSUME Regenerate(v, cap)
      PROVE  Uids(sector') \subseteq lookup'
  <2>1. Rebuild(found) /\ lookup' = found
    BY <1>1, <1>6 DEF Regenerate, Published
  <2> QED
    BY <1>4, <2>1
<1> QED
  BY <1>3, <1>5, <1>6

\* The lookup the inspector reads covers every node a streamed handler leaves,
\* whichever of the three handlers ran.
THEOREM LookupComplete == Spec => LookupCoversSector
<1>1. Originals => LookupCovers
  BY HandlerPublishes DEF LookupCovers
<1> QED
  BY <1>1, OriginalsAlways, PTL DEF LookupCoversSector

\* What Regenerate leaves is what a Sync from the same place settles on, once
\* each and with nothing of an earlier build, for every cap but 0.
THEOREM RegenerateIsSync == Spec => RegenerateAgreesWithSync
<1>1. ASSUME NEW v \in View, NEW cap \in MaxVisible \ {0}, Regenerate(v, cap)
      PROVE  /\ Uids(sector' \cup strays') = Wanted(v, cap) \ Bad
             /\ Cardinality(sector') = Cardinality(Uids(sector'))
             /\ pegs' = {}
  <2> DEFINE uids == Wanted(v, cap)
  <2>1. Rebuild(uids)
    BY <1>1, WantedIsResult DEF Regenerate
  <2>2. sector' = Built(uids, "debug_objects", BaseEpoch) /\ strays' = {} /\ pegs' = {}
    BY <2>1 DEF Rebuild, ClearMarked
  <2>3. /\ Uids(sector') = uids \ Bad
        /\ \A m, n \in sector' : m.uid = n.uid => m = n
    BY <2>2, BuiltUids
  <2>4. IsFiniteSet(Uids(sector'))
    BY <2>3, WantedBounded, FS_Subset
  <2>5. Cardinality(sector') = Cardinality(Uids(sector'))
    BY <2>3, <2>4, CountByUid
  <2>6. sector' \cup strays' = sector'
    BY <2>2
  <2> QED
    BY <2>2, <2>3, <2>5, <2>6
<1>2. RebuildAgrees
  BY <1>1 DEF RebuildAgrees
<1> QED
  BY <1>2, PTL DEF RegenerateAgreesWithSync
===============================================================================
