----------------------------- MODULE CatalogDB -----------------------------
(* The SQLite catalog (db/db_manager.py) under the two programs that write   *)
(* it, tools/import_catalog_to_db.py and tools/fetch_jpl_solar_system.py.    *)
(*                                                                           *)
(* A row of the tables is reduced to the version of the source row it was    *)
(* written from; the ephemeris rows of a uid to whether there are any (a JPL *)
(* uid names its epoch, so it has one).  A batch is a set of source rows     *)
(* with distinct uids, which is what seen_in_batch leaves of it.             *)
EXTENDS Naturals, FiniteSets

CONSTANTS Uids,        \* the uids a catalog file may name
          Vers,        \* the versions of a source row
          BatchSize,   \* rows per executemany()
          MaxRows,     \* rows read by one import
          None         \* no row, no connection

ASSUME CatalogAssumption ==
  /\ None \notin Vers
  /\ BatchSize \in Nat \ {0}
  /\ MaxRows \in Nat

VARIABLES disk,     \* the committed tables
          schema,   \* the committed unav_meta.schema_version, 0 before the DDL
          conn,     \* the writer's connection: its view and PRAGMA foreign_keys
          job,      \* the import or JPL fetch the writer runs
          acked     \* uids whose import returned to its caller

vars == <<disk, schema, conn, job, acked>>

BuildSchema == 2

Tables == [obj : [Uids -> Vers \cup {None}], meta : [Uids -> Vers \cup {None}],
           eph : [Uids -> BOOLEAN]]
Rows   == [uid : Uids, ver : Vers, blob : BOOLEAN]
Conns  == [view : Tables, fk : BOOLEAN]
Jobs   == [pc : {"idle", "rows", "states"}, jpl : BOOLEAN, replace : BOOLEAN,
           metadata : BOOLEAN, batch : SUBSET Rows, read : 0 .. MaxRows,
           uids : SUBSET Uids]

ASSUME NoneIsNoConn == None \notin Conns

Idle == [pc |-> "idle", jpl |-> FALSE, replace |-> FALSE, metadata |-> FALSE,
         batch |-> {}, read |-> 0, uids |-> {}]

EmptyTables == [obj |-> [u \in Uids |-> None], meta |-> [u \in Uids |-> None],
                eph |-> [u \in Uids |-> FALSE]]

TypeOK ==
  /\ disk \in Tables
  /\ schema \in 0 .. 3
  /\ conn \in Conns \cup {None}
  /\ job \in Jobs
  /\ acked \subseteq Uids

Init ==
  /\ disk = EmptyTables
  /\ schema \in 0 .. 3          \* a new file, a v1 file, a v2 file, a newer one
  /\ conn = None
  /\ job = Idle
  /\ acked = {}

-----------------------------------------------------------------------------
(* The connection *)

Open ==
  /\ conn = None
  /\ conn' = [view |-> disk, fk |-> FALSE]
  /\ UNCHANGED <<disk, schema, job, acked>>

\* executescript() commits and runs the DDL, whose pragma turns the foreign
\* keys on for this connection only; a v1 file is migrated; a newer file is
\* refused with a DBError that leaves the with-block.
ApplySchema ==
  /\ conn # None /\ job.pc = "idle"
  /\ disk' = conn.view
  /\ schema' = IF schema < BuildSchema THEN BuildSchema ELSE schema
  /\ conn' = IF schema' = BuildSchema THEN [conn EXCEPT !.fk = TRUE] ELSE None
  /\ UNCHANGED <<job, acked>>

\* close() commits what the connection holds, also on the way out of an
\* exception, and forgets the connection.
Close(j) ==
  /\ conn # None
  /\ disk' = conn.view
  /\ conn' = None
  /\ job' = j

CloseWriter ==
  /\ job.pc = "idle"
  /\ Close(job)
  /\ UNCHANGED <<schema, acked>>

-----------------------------------------------------------------------------
(* Writing rows *)

BatchUids(b) == {r.uid : r \in b}
RowOf(b, u)  == CHOOSE r \in b : r.uid = u

\* The uids whose row INSERT OR REPLACE deletes before it inserts: with the
\* foreign keys on, the delete cascades to metadata and object_states.
Replaced(db, j) == {u \in BatchUids(j.batch) : j.replace /\ db.obj[u] # None}
Cascades(c, j)  == IF c.fk THEN Replaced(c.view, j) ELSE {}

\* The mutant flushes every batch with INSERT OR REPLACE.
FlushObjectsReplacing(db, j) ==
  [u \in Uids |-> IF u \in BatchUids(j.batch) THEN RowOf(j.batch, u).ver
                                              ELSE db.obj[u]]
FlushObjects(db, j) ==
  [u \in Uids |->
     IF u \in BatchUids(j.batch) /\ (j.replace \/ db.obj[u] = None)
     THEN RowOf(j.batch, u).ver ELSE db.obj[u]]

\* Metadata is always INSERT OR REPLACE, for ignored objects too.
FlushMetadata(c, j) ==
  [u \in Uids |->
     IF /\ j.metadata /\ u \in BatchUids(j.batch)
        /\ RowOf(j.batch, u).blob
     THEN RowOf(j.batch, u).ver
     ELSE IF u \in Cascades(c, j) THEN None ELSE c.view.meta[u]]

Flush(c, j) ==
  [c EXCEPT !.view =
     [obj  |-> FlushObjects(c.view, j),
      meta |-> FlushMetadata(c, j),
      eph  |-> [u \in Uids |-> c.view.eph[u] /\ u \notin Cascades(c, j)]]]

\* Both writers apply the schema before their first row.
StartJob(jpl, replace, metadata) ==
  /\ conn # None /\ conn.fk /\ job.pc = "idle"
  /\ job' = [Idle EXCEPT !.pc = "rows", !.jpl = jpl, !.replace = replace,
                         !.metadata = metadata]
  /\ UNCHANGED <<disk, schema, conn, acked>>

StartImport == \E replace, metadata \in BOOLEAN : StartJob(FALSE, replace, metadata)
StartJpl    == StartJob(TRUE, TRUE, TRUE)

\* One turn of _insert_iter: a uid the batch already has is skipped; a full
\* batch goes to the connection, uncommitted.
ReadRow(r) ==
  /\ job.pc = "rows" /\ job.read < MaxRows
  /\ LET fresh == r.uid \notin BatchUids(job.batch)
         j == [job EXCEPT !.read = @ + 1, !.uids = @ \cup {r.uid},
                          !.batch = IF fresh THEN @ \cup {r} ELSE @]
         full == fresh /\ Cardinality(j.batch) >= BatchSize
     IN /\ job' = IF full THEN [j EXCEPT !.batch = {}] ELSE j
        /\ conn' = IF full THEN Flush(conn, j) ELSE conn
  /\ UNCHANGED <<disk, schema, acked>>

\* The mutant commits before the last batch is flushed.
CommittedEarly(c, j) == c.view
Committed(c, j) == Flush(c, j).view

\* The input ends: flush the last batch and commit.  A JPL fetch goes on with
\* insert_states(), a transaction of its own.
EndRows ==
  /\ job.pc = "rows"
  /\ conn' = Flush(conn, job)
  /\ disk' = Committed(conn, job)
  /\ job' = IF job.jpl THEN [job EXCEPT !.pc = "states", !.batch = {}] ELSE Idle
  /\ acked' = acked \cup job.uids
  /\ UNCHANGED schema

InsertStates ==
  /\ job.pc = "states"
  /\ conn' = [conn EXCEPT !.view.eph = [u \in Uids |-> @[u] \/ u \in job.uids]]
  /\ disk' = conn'.view
  /\ job' = Idle
  /\ UNCHANGED <<schema, acked>>

\* The source raises in the middle of an import: the with-block closes the
\* connection, and close() commits the batches already flushed.
ImportFails ==
  /\ job.pc # "idle"
  /\ Close(Idle)
  /\ UNCHANGED <<schema, acked>>

\* The mutant never cascades.
DeletedNoCascade(c, u) == [c.view EXCEPT !.obj[u] = None]

\* The cascade delete_uid counts on needs a connection that applied the schema.
Deleted(c, u) ==
  IF c.fk THEN [c.view EXCEPT !.obj[u] = None, !.meta[u] = None, !.eph[u] = FALSE]
  ELSE [c.view EXCEPT !.obj[u] = None]

DeleteUid(u) ==
  /\ conn # None /\ job.pc = "idle"
  /\ conn' = [conn EXCEPT !.view = Deleted(conn, u)]
  /\ disk' = conn'.view
  /\ acked' = acked \ {u}
  /\ UNCHANGED <<schema, job>>

\* The process dies: SQLite rolls the open transaction back.
Crash ==
  /\ conn # None
  /\ conn' = None
  /\ job' = Idle
  /\ UNCHANGED <<disk, schema, acked>>

-----------------------------------------------------------------------------
Next ==
  \/ Open \/ ApplySchema \/ CloseWriter
  \/ StartImport \/ StartJpl \/ EndRows \/ InsertStates \/ ImportFails \/ Crash
  \/ \E r \in Rows : ReadRow(r)
  \/ \E u \in Uids : DeleteUid(u)

Spec == Init /\ [][Next]_vars

-----------------------------------------------------------------------------

Orphans(db) == {u \in Uids : db.obj[u] = None /\ (db.meta[u] # None \/ db.eph[u])}

\* Only a delete on a connection that never applied the schema leaves metadata
\* or ephemeris rows behind their object.  No other commit makes an orphan: a
\* delete that knows of the foreign keys cascades, a replaced object is back in
\* the statement that deleted it, and metadata and ephemerides are written only
\* after their object, in whatever batch or transaction an import fails.
NoNewOrphans ==
  [][Orphans(disk') \subseteq Orphans(disk) \/ (conn # None /\ ~conn.fk)]_vars

\* What an importer has reported as imported is on disk, whatever crash or
\* failed import follows, until someone deletes it.
ReportedIsDurable == \A u \in acked : disk.obj[u] # None

\* An import without --replace skips the uids the catalog has: no step of it,
\* the commit on the way out of a failure included, changes a committed object
\* row.
IgnoreKeepsObjects ==
  [][ job.pc # "idle" /\ ~job.replace =>
        \A u \in Uids : disk.obj[u] # None => disk'.obj[u] = disk.obj[u] ]_vars

\* The database keeps its promise to the readers of the committed tables,
\* whatever import, failure, crash or removal is under way (db_manager.py).
Readers == INSTANCE CatalogReaders WITH
  seen <- disk,
  import <- [on |-> job.pc # "idle", replace |-> job.replace, uids |-> job.uids],
  reported <- acked

ReadersAreServed == Readers!ReadersSpec
=============================================================================
