---------------------------- MODULE MCSceneSync ----------------------------
(* Small instances of SceneSync: three uids, one of them in a row that cannot *)
(* be built, and views that overlap, are empty, or exceed the cap.            *)
EXTENDS SceneSync

CONSTANTS a, b, c, t0, t1

MCUid == {a, b, c}
MCEpoch == {t0, t1}
MCCatalog == <<a, b, c>>
\* Overlapping visible sets, a sample that differs from the stream, a stream
\* that finds nothing, and no enabled dataset.
Seen   == [streaming |-> TRUE,  stream |-> <<a, c, b>>, sample |-> <<b>>]
Empty  == [streaming |-> TRUE,  stream |-> <<>>,        sample |-> <<a, c>>]
NoData == [streaming |-> FALSE, stream |-> <<>>,        sample |-> <<b, c>>]

MCView == {Seen, Empty, NoData}
MCSyncView == {Seen, NoData}
============================================================================
