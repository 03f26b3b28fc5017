-------------------------- MODULE CatalogDB_proofs --------------------------
(* The catalog's safety for any number of uids, versions and batch sizes.    *)
(* The induction needs how the connection's view relates to the committed    *)
(* tables (Tracks): equal between jobs; during an import it has every        *)
(* committed object, differs only in uids that were read, and has all there  *)
(* was unless the import replaces; and it has no orphan of its own           *)
(* (NoOrphanOfItsOwn).  A uid the running import has read is in its batch or *)
(* in the view (JobRows).                                                    *)
EXTENDS CatalogDB, TLAPS

Same(db, base, u) ==
  db.obj[u] = base.obj[u] /\ db.meta[u] = base.meta[u] /\ db.eph[u] = base.eph[u]

Spared(db, base, u) ==
  /\ db.obj[u] = base.obj[u]
  /\ base.meta[u] # None => db.meta[u] # None
  /\ base.eph[u] => db.eph[u]

NoOrphanOfItsOwn == conn # None => Orphans(conn.view) \subseteq Orphans(disk)

Tracks ==
  /\ job.pc # "idle" => conn # None /\ conn.fk
  /\ job.pc = "states" => job.jpl /\ job.batch = {}
  /\ job.jpl => job.replace
  /\ conn # None =>
       /\ \A u \in Uids : disk.obj[u] # None => conn.view.obj[u] # None
       /\ ~job.replace => \A u \in Uids :
            disk.obj[u] # None => Spared(conn.view, disk, u)
       /\ \A u \in Uids \ job.uids : Same(conn.view, disk, u)
       /\ job.pc # "rows" => conn.view = disk

JobRows ==
  job.pc # "idle" =>
    /\ BatchUids(job.batch) \subseteq job.uids
    /\ \A u \in job.uids : u \in BatchUids(job.batch) \/ conn.view.obj[u] # None

IInv == TypeOK /\ NoOrphanOfItsOwn /\ Tracks /\ JobRows /\ ReportedIsDurable

-----------------------------------------------------------------------------
(* What a flush does to the tables *)

\* The row a batch has for a uid of it is one of its rows.
LEMMA RowOfBatch ==
  ASSUME NEW b \in SUBSET Rows, NEW u \in BatchUids(b)
  PROVE  RowOf(b, u) \in Rows /\ RowOf(b, u).ver \in Vers
  <1>1. PICK r \in b : r.uid = u
    BY DEF BatchUids
  <1>2. RowOf(b, u) \in b
    BY <1>1 DEF RowOf
  <1> QED BY <1>2 DEF Rows

\* A flush leaves the connection's tables well-formed and its pragma alone.
LEMMA FlushType ==
  ASSUME NEW c \in Conns, NEW j \in Jobs
  PROVE  Flush(c, j) \in Conns /\ Flush(c, j).fk = c.fk
  <1>0. c.view \in Tables /\ c.fk \in BOOLEAN /\ j.batch \in SUBSET Rows
    BY DEF Conns, Jobs
  <1> DEFINE m == FlushMetadata(c, j)
             o == FlushObjects(c.view, j)
             e == [u \in Uids |-> c.view.eph[u] /\ u \notin Cascades(c, j)]
  <1>1. o \in [Uids -> Vers \cup {None}]
    BY <1>0, RowOfBatch DEF FlushObjects, Tables
  <1>2. m \in [Uids -> Vers \cup {None}]
    BY <1>0, RowOfBatch DEF FlushMetadata, Tables
  <1>3. e \in [Uids -> BOOLEAN]
    BY <1>0 DEF Tables
  <1>4. [obj |-> o, meta |-> m, eph |-> e] \in Tables
    BY <1>1, <1>2, <1>3 DEF Tables
  <1>5. Flush(c, j) = [c EXCEPT !.view = [obj |-> o, meta |-> m, eph |-> e]]
    BY DEF Flush
  <1> QED BY <1>4, <1>5 DEF Conns

\* Object by object: a flush removes none, and changes none unless it replaces.
LEMMA FlushObj ==
  ASSUME NEW c \in Conns, NEW j \in Jobs, NEW u \in Uids
  PROVE  /\ c.view.obj[u] # None => Flush(c, j).view.obj[u] # None
         /\ c.view.obj[u] # None /\ ~j.replace => Flush(c, j).view.obj[u] = c.view.obj[u]
         /\ u \in BatchUids(j.batch) => Flush(c, j).view.obj[u] # None
  <1>0. c.view \in Tables /\ j.batch \in SUBSET Rows
    BY DEF Conns, Jobs
  <1>1. Flush(c, j).view.obj = FlushObjects(c.view, j)
    BY DEF Flush, Conns
  <1>2. u \in BatchUids(j.batch) => RowOf(j.batch, u).ver # None
    BY <1>0, RowOfBatch, CatalogAssumption
  <1> QED BY <1>0, <1>1, <1>2 DEF FlushObjects

\* Row by row: a flush touches the uids of the batch only, and takes no metadata
\* or ephemeris away unless it replaces.
LEMMA FlushRows ==
  ASSUME NEW c \in Conns, NEW j \in Jobs, NEW u \in Uids
  PROVE  /\ u \notin BatchUids(j.batch) => Same(Flush(c, j).view, c.view, u)
         /\ ~j.replace /\ c.view.meta[u] # None => Flush(c, j).view.meta[u] # None
         /\ ~j.replace /\ c.view.eph[u] => Flush(c, j).view.eph[u]
  <1>0. c.view \in Tables /\ j.batch \in SUBSET Rows
    BY DEF Conns, Jobs
  <1>1. /\ Flush(c, j).view.obj = FlushObjects(c.view, j)
        /\ Flush(c, j).view.meta = FlushMetadata(c, j)
        /\ Flush(c, j).view.eph = [v \in Uids |-> c.view.eph[v] /\ v \notin Cascades(c, j)]
    BY DEF Flush, Conns
  <1>2. u \in BatchUids(j.batch) => RowOf(j.batch, u).ver # None
    BY <1>0, RowOfBatch, CatalogAssumption
  <1>3. u \in Cascades(c, j) => u \in BatchUids(j.batch) /\ j.replace
    BY DEF Cascades, Replaced
  <1>4. c.view.eph[u] \in BOOLEAN
    BY <1>0 DEF Tables
  <1>5. u \notin BatchUids(j.batch) => Same(Flush(c, j).view, c.view, u)
    <2> SUFFICES ASSUME u \notin BatchUids(j.batch)
                 PROVE  Same(Flush(c, j).view, c.view, u)
      OBVIOUS
    <2>1. Flush(c, j).view.obj[u] = c.view.obj[u]
      BY <1>1 DEF FlushObjects
    <2>2. Flush(c, j).view.meta[u] = c.view.meta[u]
      BY <1>1, <1>3 DEF FlushMetadata
    <2>3. Flush(c, j).view.eph[u] = c.view.eph[u]
      BY <1>1, <1>3, <1>4
    <2> QED BY <2>1, <2>2, <2>3 DEF Same
  <1>6. ~j.replace /\ c.view.meta[u] # None => Flush(c, j).view.meta[u] # None
    BY <1>1, <1>2, <1>3 DEF FlushMetadata
  <1>7. ~j.replace /\ c.view.eph[u] => Flush(c, j).view.eph[u]
    BY <1>1, <1>3
  <1> QED BY <1>5, <1>6, <1>7

\* A flush makes no orphan: the objects of its rows are there.
LEMMA FlushOrphans ==
  ASSUME NEW c \in Conns, NEW j \in Jobs
  PROVE  Orphans(Flush(c, j).view) \subseteq Orphans(c.view)
  <1> SUFFICES ASSUME NEW u \in Uids, Flush(c, j).view.obj[u] = None,
                      Flush(c, j).view.meta[u] # None \/ Flush(c, j).view.eph[u]
               PROVE  c.view.obj[u] = None /\ (c.view.meta[u] # None \/ c.view.eph[u])
    BY DEF Orphans
  <1>1. u \notin BatchUids(j.batch) /\ c.view.obj[u] = None
    BY FlushObj
  <1>2. Same(Flush(c, j).view, c.view, u)
    BY <1>1, FlushRows
  <1> QED BY <1>1, <1>2 DEF Same

-----------------------------------------------------------------------------
(* The invariant *)

\* The first state has no connection, no job and no reports.
LEMMA InitIInv == Init => IInv
  <1> SUFFICES ASSUME Init PROVE IInv
    OBVIOUS
  <1> USE DEF Init
  <1>1. EmptyTables \in Tables
    BY DEF EmptyTables, Tables
  <1>2. Idle \in Jobs
    BY CatalogAssumption DEF Idle, Jobs
  <1>3. TypeOK
    BY <1>1, <1>2 DEF TypeOK
  <1>4. NoOrphanOfItsOwn
    BY DEF NoOrphanOfItsOwn
  <1>5. Tracks /\ JobRows /\ ReportedIsDurable
    BY DEF Tracks, JobRows, Idle, ReportedIsDurable
  <1> QED BY <1>3, <1>4, <1>5 DEF IInv
\* Opening and forgetting connections, and starting jobs, keep the invariant.
LEMMA ConnectionSteps ==
  ASSUME IInv, Open \/ ApplySchema \/ CloseWriter \/ ImportFails \/ Crash
  PROVE  IInv'
  <1> USE DEF IInv
  <1>0. Idle \in Jobs /\ Idle.pc = "idle" /\ ~Idle.jpl /\ ~Idle.replace
    BY CatalogAssumption DEF Idle, Jobs
  <1>1. CASE Open
    <2>1. conn' \in Conns /\ conn'.view = disk /\ conn' # None
      <3>1. [view |-> disk, fk |-> FALSE] \in Conns
        BY DEF TypeOK, Conns
      <3> QED BY <1>1, <3>1, NoneIsNoConn DEF Open
    <2>2. job.pc = "idle"
      BY <1>1 DEF Open, Tracks
    <2>3. TypeOK' /\ NoOrphanOfItsOwn' /\ ReportedIsDurable'
      BY <1>1, <2>1 DEF Open, TypeOK, NoOrphanOfItsOwn, ReportedIsDurable
    <2>4. Tracks' /\ JobRows'
      BY <1>1, <2>1, <2>2 DEF Open, Tracks, JobRows, Same, Spared
    <2> QED BY <2>3, <2>4
  <1>2. CASE ApplySchema
    <2>1. conn \in Conns /\ conn.view = disk
      BY <1>2 DEF ApplySchema, TypeOK, Tracks
    <2>2. schema' \in 0 .. 3 /\ disk' = disk /\ UNCHANGED <<job, acked>> /\ job.pc = "idle"
      BY <1>2, <2>1 DEF ApplySchema, TypeOK, BuildSchema
    <2>3. conn' = None \/ (conn' \in Conns /\ conn'.view = disk)
      BY <1>2, <2>1 DEF ApplySchema, Conns
    <2>4. TypeOK' /\ ReportedIsDurable' /\ NoOrphanOfItsOwn'
      BY <2>1, <2>2, <2>3 DEF TypeOK, ReportedIsDurable, NoOrphanOfItsOwn
    <2>5. Tracks' /\ JobRows'
      BY <2>1, <2>2, <2>3 DEF Tracks, JobRows, Same, Spared
    <2> QED BY <2>4, <2>5
  <1>3. CASE CloseWriter \/ ImportFails
    <2>1. /\ conn \in Conns /\ conn # None /\ disk' = conn.view /\ conn' = None
          /\ UNCHANGED <<schema, acked>>
          /\ (job' = Idle) \/ (job' = job /\ job.pc = "idle")
      BY <1>3 DEF CloseWriter, ImportFails, Close, TypeOK
    <2>2. TypeOK'
      BY <1>0, <2>1 DEF TypeOK, Conns
    <2>3. NoOrphanOfItsOwn' /\ ReportedIsDurable'
      BY <2>1 DEF NoOrphanOfItsOwn, Tracks, ReportedIsDurable, TypeOK
    <2>4. Tracks' /\ JobRows'
      BY <1>0, <2>1 DEF Tracks, JobRows
    <2> QED BY <2>2, <2>3, <2>4
  <1>4. CASE Crash
    <2>1. TypeOK'
      BY <1>0, <1>4 DEF Crash, TypeOK
    <2>2. NoOrphanOfItsOwn' /\ ReportedIsDurable' /\ Tracks' /\ JobRows'
      BY <1>0, <1>4 DEF Crash, NoOrphanOfItsOwn, Tracks, JobRows, ReportedIsDurable
    <2> QED BY <2>1, <2>2
  <1> QED BY <1>1, <1>2, <1>3, <1>4

\* An import or a JPL fetch starts on the committed tables.
LEMMA StartSteps ==
  ASSUME IInv, NEW jpl \in BOOLEAN, NEW replace \in BOOLEAN, NEW metadata \in BOOLEAN,
         jpl => replace, StartJob(jpl, replace, metadata)
  PROVE  IInv'
  <1> USE DEF IInv
  <1>0. /\ conn # None /\ conn.fk /\ conn.view = disk
        /\ UNCHANGED <<disk, schema, conn, acked>>
    BY DEF StartJob, Tracks
  <1>1. /\ job' \in Jobs /\ job'.pc = "rows" /\ job'.jpl = jpl /\ job'.replace = replace
        /\ job'.uids = {} /\ job'.batch = {}
    <2>1. job' = [pc |-> "rows", jpl |-> jpl, replace |-> replace, metadata |-> metadata,
                  batch |-> {}, read |-> 0, uids |-> {}]
      BY DEF StartJob, Idle
    <2>2. 0 \in 0 .. MaxRows
      BY CatalogAssumption
    <2> QED BY <2>1, <2>2 DEF Jobs
  <1>2. TypeOK' /\ NoOrphanOfItsOwn' /\ ReportedIsDurable'
    BY <1>0, <1>1 DEF TypeOK, NoOrphanOfItsOwn, ReportedIsDurable
  <1>3. Tracks' /\ JobRows'
    BY <1>0, <1>1 DEF Tracks, JobRows, Same, Spared, BatchUids
  <1> QED BY <1>2, <1>3

\* Reading a row touches the job and, when it fills the batch, the connection.
LEMMA ReadStep ==
  ASSUME IInv, NEW r \in Rows, ReadRow(r)
  PROVE  IInv'
  <1> USE DEF IInv
  <1> DEFINE fresh == r.uid \notin BatchUids(job.batch)
             j == [job EXCEPT !.read = @ + 1, !.uids = @ \cup {r.uid},
                              !.batch = IF fresh THEN @ \cup {r} ELSE @]
             full == fresh /\ Cardinality(j.batch) >= BatchSize
  <1>1. /\ conn \in Conns /\ conn # None /\ conn.fk /\ job \in Jobs /\ job.pc = "rows"
        /\ UNCHANGED <<disk, schema, acked>>
    BY DEF ReadRow, TypeOK, Tracks
  <1>2. /\ j \in Jobs /\ j.pc = "rows" /\ j.jpl = job.jpl /\ j.replace = job.replace
    <2>1. job.read + 1 \in 0 .. MaxRows /\ r.uid \in Uids
      BY <1>1, CatalogAssumption DEF Jobs, Rows, ReadRow
    <2>2. (IF fresh THEN job.batch \cup {r} ELSE job.batch) \in SUBSET Rows
      BY <1>1 DEF Jobs
    <2> QED BY <1>1, <2>1, <2>2 DEF Jobs
  <1>3. /\ job' \in Jobs /\ job'.pc = "rows" /\ job'.jpl = job.jpl
        /\ job'.replace = job.replace
    BY <1>2 DEF ReadRow, Jobs
  <1>4. conn' = conn \/ conn' = Flush(conn, j)
    BY DEF ReadRow
  <1>5. conn' \in Conns /\ conn' # None /\ conn'.fk
    BY <1>1, <1>2, <1>4, FlushType, NoneIsNoConn
  <1>6. Orphans(conn'.view) \subseteq Orphans(conn.view)
    BY <1>1, <1>2, <1>4, FlushOrphans
  <1>7. \A u \in Uids : /\ conn.view.obj[u] # None => conn'.view.obj[u] # None
                        /\ conn.view.obj[u] # None /\ ~job.replace =>
                             conn'.view.obj[u] = conn.view.obj[u]
    BY <1>1, <1>2, <1>4, FlushObj
  <1>8. TypeOK' /\ NoOrphanOfItsOwn' /\ ReportedIsDurable'
    BY <1>1, <1>3, <1>5, <1>6 DEF TypeOK, NoOrphanOfItsOwn, ReportedIsDurable
  <1>9. /\ r.uid \in Uids /\ job.uids \subseteq Uids
        /\ j.uids = job.uids \cup {r.uid} /\ job'.uids = j.uids
        /\ BatchUids(j.batch) = BatchUids(job.batch) \cup {r.uid}
        /\ BatchUids(j.batch) \subseteq j.uids
    <2>1. /\ r.uid \in Uids /\ job.uids \subseteq Uids
          /\ j.uids = job.uids \cup {r.uid} /\ job'.uids = j.uids
      BY <1>1 DEF ReadRow, Rows, Jobs
    <2>2. BatchUids(j.batch) = BatchUids(job.batch) \cup {r.uid}
      BY <1>1 DEF Jobs, BatchUids
    <2> QED BY <1>1, <2>1, <2>2 DEF JobRows
  <1>11. Tracks'
    <2>1. ASSUME NEW u \in Uids \ job'.uids PROVE Same(conn'.view, disk', u)
      <3>1. Same(conn.view, disk, u)
        BY <1>1, <1>9, <2>1 DEF Tracks
      <3>2. conn' = conn \/ Same(conn'.view, conn.view, u)
        BY <1>1, <1>2, <1>4, <1>9, <2>1, FlushRows
      <3> QED BY <1>1, <3>1, <3>2 DEF Same
    <2>2. ASSUME ~job'.replace, NEW u \in Uids, disk'.obj[u] # None
          PROVE  Spared(conn'.view, disk', u)
      <3>1. Spared(conn.view, disk, u) /\ ~j.replace
        BY <1>1, <1>2, <1>3, <2>2 DEF Tracks
      <3>2. /\ conn.view.meta[u] # None => conn'.view.meta[u] # None
            /\ conn.view.eph[u] => conn'.view.eph[u]
        BY <1>1, <1>2, <1>4, <3>1, FlushRows
      <3> QED BY <1>1, <1>3, <1>7, <2>2, <3>1, <3>2 DEF Spared
    <2>3. \A u \in Uids : disk'.obj[u] # None => conn'.view.obj[u] # None
      BY <1>1, <1>7 DEF Tracks
    <2>4. job'.jpl => job'.replace
      BY <1>3 DEF Tracks
    <2> QED BY <1>3, <1>5, <2>1, <2>2, <2>3, <2>4 DEF Tracks
  <1>10. JobRows'
    <2>3. CASE full
      <3>1. conn' = Flush(conn, j)
        BY <2>3 DEF ReadRow
      <3>2. \A u \in Uids : u \in BatchUids(j.batch) => conn'.view.obj[u] # None
        BY <1>1, <1>2, <3>1, FlushObj
      <3>3. job'.batch = {}
        BY <1>2, <2>3 DEF ReadRow, Jobs
      <3> QED BY <1>1, <1>7, <1>9, <3>2, <3>3 DEF JobRows, BatchUids
    <2>4. CASE ~full
      <3>1. conn' = conn /\ job' = j
        BY <2>4 DEF ReadRow
      <3> QED BY <1>1, <1>9, <3>1 DEF JobRows
    <2> QED BY <2>3, <2>4
  <1> QED BY <1>8, <1>10, <1>11

\* The end of the input flushes the rest and commits.
LEMMA EndStep ==
  ASSUME IInv, EndRows
  PROVE  IInv'
  <1> USE DEF IInv
  <1> DEFINE c == Flush(conn, job)
  <1>0. Idle \in Jobs /\ Idle.pc = "idle" /\ Idle.jpl = FALSE /\ Idle.replace = FALSE
    BY CatalogAssumption DEF Idle, Jobs
  <1>1. /\ conn \in Conns /\ conn # None /\ conn.fk /\ job \in Jobs /\ job.pc = "rows"
    BY DEF EndRows, TypeOK, Tracks
  <1>2. /\ conn' = c /\ disk' = c.view /\ schema' = schema
        /\ acked' = acked \cup job.uids
    BY DEF EndRows, Committed
  <1>3. c \in Conns /\ c # None /\ c.fk = conn.fk
    BY <1>1, FlushType, NoneIsNoConn
  <1>4. /\ job' \in Jobs
        /\ (job' = Idle) \/ (/\ job.jpl /\ job'.pc = "states" /\ job'.jpl /\ job'.batch = {}
                             /\ job'.replace = job.replace)
    BY <1>0, <1>1 DEF EndRows, Jobs
  <1>5. \A u \in Uids : conn.view.obj[u] # None => c.view.obj[u] # None
    BY <1>1, FlushObj
  <1>6. TypeOK'
    <2>1. c.view \in Tables
      BY <1>3 DEF Conns
    <2>2. job.uids \subseteq Uids
      BY <1>1 DEF Jobs
    <2> QED BY <1>2, <1>3, <1>4, <2>1, <2>2 DEF TypeOK
  <1>7. NoOrphanOfItsOwn'
    BY <1>2 DEF NoOrphanOfItsOwn
  <1>8. Tracks'
    <2>1. conn'.view = disk' /\ conn' # None /\ conn'.fk
      BY <1>1, <1>2, <1>3
    <2>2. /\ job'.pc = "states" => job'.jpl /\ job'.batch = {}
          /\ job'.jpl => job'.replace
          /\ job'.pc # "rows"
      BY <1>0, <1>4 DEF Tracks
    <2> QED BY <2>1, <2>2 DEF Tracks, Same, Spared
  <1>9. ReportedIsDurable'
    <2> SUFFICES ASSUME NEW u \in acked' PROVE c.view.obj[u] # None
      BY <1>2 DEF ReportedIsDurable
    <2>0. u \in Uids
      BY <1>6 DEF TypeOK
    <2>1. CASE u \in acked
      BY <2>0, <2>1, <1>1, <1>5 DEF ReportedIsDurable, Tracks
    <2>2. CASE u \in job.uids
      BY <2>0, <2>2, <1>1, <1>5, FlushObj DEF JobRows
    <2> QED BY <1>2, <2>1, <2>2
  <1>10. JobRows'
    <2> SUFFICES ASSUME job'.pc # "idle", NEW u \in job'.uids
                 PROVE  conn'.view.obj[u] # None
      BY <1>0, <1>4 DEF JobRows, BatchUids
    <2>1. u \in job.uids
      BY <1>0, <1>1 DEF EndRows, Jobs
    <2>2. u \in acked' /\ conn'.view = disk'
      BY <1>2, <2>1
    <2> QED BY <1>9, <2>2 DEF ReportedIsDurable
  <1> QED BY <1>6, <1>7, <1>8, <1>9, <1>10

\* The second transaction of a JPL fetch adds rows for the uids it just wrote.
LEMMA StatesStep ==
  ASSUME IInv, InsertStates
  PROVE  IInv'
  <1> USE DEF IInv
  <1> DEFINE e == [u \in Uids |-> conn.view.eph[u] \/ u \in job.uids]
             view == [conn.view EXCEPT !.eph = e]
  <1>0. Idle \in Jobs /\ Idle.pc = "idle" /\ Idle.jpl = FALSE
    BY CatalogAssumption DEF Idle, Jobs
  <1>1. /\ conn \in Conns /\ conn # None /\ job \in Jobs /\ conn.view = disk
        /\ job.pc = "states" /\ conn.view \in Tables
    BY DEF InsertStates, TypeOK, Tracks, Conns
  <1>2. /\ conn' = [conn EXCEPT !.view.eph = e] /\ disk' = conn'.view /\ job' = Idle
        /\ UNCHANGED <<schema, acked>>
    BY DEF InsertStates
  <1>3. conn' = [conn EXCEPT !.view = view] /\ view \in Tables
    BY <1>1, <1>2 DEF Conns, Tables
  <1>4. conn' \in Conns /\ conn' # None /\ conn'.view = view
    BY <1>1, <1>3, NoneIsNoConn DEF Conns
  <1>5. view.obj = disk.obj /\ view.meta = disk.meta /\ view.eph = e
    BY <1>1 DEF Tables
  <1>6. TypeOK'
    BY <1>0, <1>2, <1>3, <1>4 DEF TypeOK
  <1>7. NoOrphanOfItsOwn'
    BY <1>2 DEF NoOrphanOfItsOwn
  <1>8. Tracks' /\ JobRows' /\ ReportedIsDurable'
    <2>1. job'.pc = "idle" /\ job'.jpl = FALSE /\ conn'.view = disk' /\ disk'.obj = disk.obj
      BY <1>0, <1>2, <1>4, <1>5
    <2>2. Tracks' /\ JobRows'
      BY <2>1 DEF Tracks, JobRows, Same, Spared
    <2>3. ReportedIsDurable'
      BY <1>2, <2>1 DEF ReportedIsDurable
    <2> QED BY <2>2, <2>3
  <1> QED BY <1>6, <1>7, <1>8

\* A delete, with or without the rows on its object, is committed at once and
\* no longer reported.
LEMMA DeleteStep ==
  ASSUME IInv, NEW u \in Uids, DeleteUid(u)
  PROVE  IInv'
  <1> USE DEF IInv
  <1> DEFINE view == Deleted(conn, u)
  <1>1. /\ conn \in Conns /\ conn # None /\ conn.view = disk
        /\ conn.view \in Tables /\ job.pc = "idle"
    BY DEF DeleteUid, TypeOK, Tracks, Conns
  <1>2. /\ conn' = [conn EXCEPT !.view = view] /\ disk' = conn'.view
        /\ acked' = acked \ {u} /\ UNCHANGED <<schema, job>>
    BY DEF DeleteUid
  <1>3. view \in Tables
    BY <1>1 DEF Deleted, Tables
  <1>4. conn' \in Conns /\ conn' # None /\ conn'.view = view
    BY <1>1, <1>2, <1>3, NoneIsNoConn DEF Conns
  <1>5. view.obj = [disk.obj EXCEPT ![u] = None]
    BY <1>1 DEF Deleted, Tables
  <1>6. TypeOK'
    BY <1>1, <1>2, <1>3, <1>4 DEF TypeOK
  <1>8. NoOrphanOfItsOwn'
    BY <1>2 DEF NoOrphanOfItsOwn
  <1>9. Tracks' /\ JobRows'
    BY <1>1, <1>2, <1>4 DEF Tracks, JobRows, Same, Spared
  <1>10. ReportedIsDurable'
    BY <1>1, <1>2, <1>4, <1>5 DEF ReportedIsDurable, TypeOK, Tables
  <1> QED BY <1>6, <1>8, <1>9, <1>10

\* Every step keeps the invariant.
LEMMA NextIInv == IInv /\ [Next]_vars => IInv'
  <1> SUFFICES ASSUME IInv, [Next]_vars PROVE IInv'
    OBVIOUS
  <1>1. CASE Open \/ ApplySchema \/ CloseWriter \/ ImportFails \/ Crash
    BY <1>1, ConnectionSteps
  <1>2. CASE StartImport
    BY <1>2, StartSteps DEF StartImport
  <1>3. CASE StartJpl
    BY <1>3, StartSteps DEF StartJpl
  <1>4. CASE EndRows
    BY <1>4, EndStep
  <1>5. CASE InsertStates
    BY <1>5, StatesStep
  <1>6. CASE \E r \in Rows : ReadRow(r)
    BY <1>6, ReadStep
  <1>7. CASE \E u \in Uids : DeleteUid(u)
    BY <1>7, DeleteStep
  <1>8. CASE UNCHANGED vars
    BY <1>8 DEF vars, IInv, TypeOK, NoOrphanOfItsOwn, Tracks, JobRows, ReportedIsDurable, Same,
                Spared
  <1> QED BY <1>1, <1>2, <1>3, <1>4, <1>5, <1>6, <1>7, <1>8 DEF Next

-----------------------------------------------------------------------------
(* The theorems *)

\* The invariant holds throughout.
LEMMA IInvAlways == Spec => []IInv
  <1> QED BY InitIInv, NextIInv, PTL DEF Spec

\* The tables, the connection and the job keep their shape.
THEOREM TypeCorrect == Spec => []TypeOK
  <1>1. IInv => TypeOK
    BY DEF IInv
  <1> QED BY IInvAlways, <1>1, PTL

\* Only a delete on a connection without foreign keys leaves rows behind their object.
THEOREM OrphansExplained == Spec => NoNewOrphans
  <1>1. ASSUME IInv, [Next]_vars, conn # None => conn.fk
        PROVE  Orphans(disk') \subseteq Orphans(disk)
    <2> USE <1>1 DEF IInv
    <2>1. CASE disk' = disk
      BY <2>1
    <2>2. CASE ApplySchema \/ CloseWriter \/ ImportFails
      BY <2>2 DEF ApplySchema, CloseWriter, ImportFails, Close, NoOrphanOfItsOwn
    <2>3. CASE EndRows
      <3>1. /\ conn \in Conns /\ conn # None /\ job \in Jobs
            /\ disk' = Flush(conn, job).view
        BY <2>3 DEF EndRows, Committed, TypeOK, Tracks
      <3> QED BY <3>1, FlushOrphans DEF NoOrphanOfItsOwn
    <2>4. CASE InsertStates
      <3> DEFINE e == [u \in Uids |-> conn.view.eph[u] \/ u \in job.uids]
      <3>1. /\ conn \in Conns /\ conn # None /\ conn.view = disk /\ disk \in Tables
            /\ job.pc = "states" /\ job.batch = {} /\ job \in Jobs
        BY <2>4 DEF InsertStates, TypeOK, Tracks
      <3>2. disk' = [disk EXCEPT !.eph = e]
        BY <2>4, <3>1 DEF InsertStates, Conns
      <3>3. disk'.obj = disk.obj /\ disk'.meta = disk.meta /\ disk'.eph = e
        BY <3>1, <3>2 DEF Tables
      <3>4. \A u \in job.uids : disk.obj[u] # None
        BY <3>1 DEF JobRows, BatchUids
      <3> QED BY <3>1, <3>3, <3>4 DEF Orphans
    <2>5. ASSUME NEW u \in Uids, DeleteUid(u) PROVE Orphans(disk') \subseteq Orphans(disk)
      <3>1. /\ conn \in Conns /\ conn.fk /\ conn.view = disk /\ disk \in Tables
        BY <1>1, <2>5 DEF DeleteUid, TypeOK, Tracks
      <3>2. disk' = [disk EXCEPT !.obj[u] = None, !.meta[u] = None, !.eph[u] = FALSE]
        BY <2>5, <3>1 DEF DeleteUid, Deleted, Conns
      <3>3. \A v \in Uids : v # u => Same(disk', disk, v)
        BY <3>1, <3>2 DEF Same, Tables
      <3>4. disk'.meta[u] = None /\ ~disk'.eph[u]
        BY <3>1, <3>2 DEF Tables
      <3> QED BY <3>3, <3>4 DEF Orphans, Same
    <2> QED
      BY <2>1, <2>2, <2>3, <2>4, <2>5
      DEF Next, Open, StartImport, StartJpl, StartJob, Crash, ReadRow, vars
  <1>2. IInv /\ [Next]_vars =>
          [Orphans(disk') \subseteq Orphans(disk) \/ (conn # None /\ ~conn.fk)]_vars
    BY <1>1
  <1> QED BY IInvAlways, <1>2, PTL DEF Spec, NoNewOrphans

\* What an importer reported is on disk until it is deleted.
THEOREM ReportedStaysDurable == Spec => []ReportedIsDurable
  <1>1. IInv => ReportedIsDurable
    BY DEF IInv
  <1> QED BY IInvAlways, <1>1, PTL

\* No step of an import without --replace changes a committed object row.
THEOREM IgnoringImportKeepsRows == Spec => IgnoreKeepsObjects
  <1>1. ASSUME IInv, [Next]_vars, job.pc # "idle", ~job.replace, NEW u \in Uids,
               disk.obj[u] # None
        PROVE  disk'.obj[u] = disk.obj[u]
    <2>1. /\ conn \in Conns /\ conn # None /\ job \in Jobs /\ job.pc # "states"
          /\ conn.view.obj[u] = disk.obj[u]
      BY <1>1 DEF IInv, TypeOK, Tracks, Spared
    <2>2. CASE disk' = disk
      BY <2>2
    <2>3. CASE ImportFails
      BY <2>1, <2>3 DEF ImportFails, Close
    <2>4. CASE EndRows
      <3>1. disk' = Flush(conn, job).view
        BY <2>4 DEF EndRows, Committed
      <3> QED BY <1>1, <2>1, <3>1, FlushObj
    <2> QED
      BY <1>1, <2>1, <2>2, <2>3, <2>4
      DEF Next, Open, ApplySchema, CloseWriter, Close, StartImport, StartJpl, StartJob,
          InsertStates, Crash, ReadRow, DeleteUid, vars
  <1>2. IInv /\ [Next]_vars =>
          [job.pc # "idle" /\ ~job.replace =>
             \A u \in Uids : disk.obj[u] # None => disk'.obj[u] = disk.obj[u]]_vars
    BY <1>1
  <1> QED BY IInvAlways, <1>2, PTL DEF Spec, IgnoreKeepsObjects

-----------------------------------------------------------------------------
(* The refinement *)

\* The import a reader may know of.
Import == [on |-> job.pc # "idle", replace |-> job.replace, uids |-> job.uids]

\* What a running import may commit: its view, or that with the last batch.
CommitOK(db) ==
  /\ \A u \in Uids \ job.uids : Same(db, disk, u)
  /\ ~job.replace => \A u \in Uids : disk.obj[u] # None => Spared(db, disk, u)
  /\ \A u \in Uids : disk.obj[u] # None => db.obj[u] # None
  /\ Orphans(db) \subseteq Orphans(disk)

\* A commit of a running import is a publication.
LEMMA CommitPublishes ==
  ASSUME IInv, IInv', job.pc # "idle", CommitOK(disk'),
         acked' = acked \/ acked' = acked \cup job.uids,
         Import' = Import \/ Import' = Readers!NoImport
  PROVE  Readers!Publish
  <1>1. disk' \in Tables /\ acked' \subseteq Uids /\ \A u \in acked' : disk'.obj[u] # None
    BY DEF IInv, TypeOK, ReportedIsDurable
  <1>2. disk' \in Readers!Table
    BY <1>1 DEF Tables, Readers!Table
  <1>3. \A u \in Uids \ job.uids : Readers!Same(u)
    BY DEF CommitOK, Same, Readers!Same
  <1>4. ~job.replace => \A u \in Readers!Present(disk) : Readers!Spared(u)
    BY DEF CommitOK, Spared, Readers!Spared, Readers!Present
  <1>5. Readers!Present(disk) \subseteq Readers!Present(disk')
        /\ acked' \subseteq Readers!Present(disk')
    BY <1>1 DEF CommitOK, Readers!Present
  <1>6. Readers!Orphans(disk') \subseteq Readers!Orphans(disk)
    BY DEF CommitOK, Orphans, Readers!Orphans
  <1> QED BY <1>2, <1>3, <1>4, <1>5, <1>6 DEF Readers!Publish, Import

\* Each step of a writer is one of its import, a removal, or none that shows.
LEMMA WriterStep ==
  ASSUME IInv, IInv', [Next]_vars
  PROVE  [Readers!ReadersNext]_<<disk, Import, acked>>
  <1> USE DEF IInv
  <1>0. Idle.pc = "idle" /\ Idle.replace = FALSE /\ Idle.uids = {}
    BY DEF Idle
  <1>1. CASE Open \/ ApplySchema \/ CloseWriter \/ UNCHANGED vars
    <2>1. conn # None /\ job.pc = "idle" => conn.view = disk
      BY DEF Tracks
    <2> QED BY <1>1, <2>1 DEF Open, ApplySchema, CloseWriter, Close, vars, Import
  <1>2. ASSUME NEW jpl \in BOOLEAN, NEW replace \in BOOLEAN, NEW metadata \in BOOLEAN,
               StartJob(jpl, replace, metadata)
        PROVE  Readers!ReadersNext
    <2>1. job.pc = "idle" /\ UNCHANGED <<disk, acked>>
      BY <1>2 DEF StartJob
    <2>2. job' = [pc |-> "rows", jpl |-> jpl, replace |-> replace, metadata |-> metadata,
                  batch |-> {}, read |-> 0, uids |-> {}]
      BY <1>2 DEF StartJob, Idle
    <2>3. Import' = [on |-> TRUE, replace |-> replace, uids |-> {}]
      BY <2>2 DEF Import
    <2>4. Readers!Begin(replace)
      BY <2>1, <2>3 DEF Readers!Begin, Import
    <2> QED BY <2>4 DEF Readers!ReadersNext
  <1>3. CASE StartImport \/ StartJpl
    BY <1>2, <1>3 DEF StartImport, StartJpl
  <1>4. ASSUME NEW r \in Rows, ReadRow(r) PROVE Readers!ReadersNext
    <2>1. /\ job.pc = "rows" /\ job \in Jobs /\ UNCHANGED <<disk, acked>> /\ r.uid \in Uids
      BY <1>4 DEF ReadRow, TypeOK, Rows
    <2>2. /\ job'.pc = "rows" /\ job'.replace = job.replace
          /\ job'.uids = job.uids \cup {r.uid}
      BY <1>4, <2>1 DEF ReadRow, Jobs
    <2>3. Import' = [Import EXCEPT !.uids = job.uids \cup {r.uid}]
      BY <2>1, <2>2 DEF Import
    <2>4. Readers!Read(r.uid)
      BY <2>1, <2>3 DEF Readers!Read, Import
    <2> QED BY <2>1, <2>4 DEF Readers!ReadersNext
  <1>5. CASE ImportFails
    <2>1. /\ conn # None /\ disk' = conn.view /\ job.pc # "idle" /\ acked' = acked /\ job' = Idle
      BY <1>5 DEF ImportFails, Close
    <2>2. CommitOK(disk')
      BY <2>1 DEF Tracks, NoOrphanOfItsOwn, CommitOK
    <2>3. Import' = Readers!NoImport
      BY <1>0, <2>1 DEF Import, Readers!NoImport
    <2>4. Readers!Publish
      BY <2>1, <2>2, <2>3, CommitPublishes
    <2> QED BY <2>4 DEF Readers!ReadersNext
  <1>6. CASE EndRows
    <2>1. /\ conn \in Conns /\ conn # None /\ job \in Jobs /\ job.pc = "rows"
          /\ disk' = Flush(conn, job).view /\ acked' = acked \cup job.uids
      BY <1>6 DEF EndRows, Committed, TypeOK, Tracks
    <2>2. CommitOK(disk')
      <3>1. ASSUME NEW u \in Uids \ job.uids PROVE Same(disk', disk, u)
        <4>1. Same(conn.view, disk, u)
          BY <2>1 DEF Tracks
        <4>2. Same(disk', conn.view, u)
          BY <2>1, FlushRows DEF JobRows
        <4> QED BY <4>1, <4>2 DEF Same
      <3>2. ASSUME ~job.replace, NEW u \in Uids, disk.obj[u] # None
            PROVE  Spared(disk', disk, u)
        <4>1. Spared(conn.view, disk, u)
          BY <2>1, <3>2 DEF Tracks
        <4>2. /\ disk'.obj[u] = conn.view.obj[u]
              /\ conn.view.meta[u] # None => disk'.meta[u] # None
              /\ conn.view.eph[u] => disk'.eph[u]
          BY <2>1, <3>2, <4>1, FlushObj, FlushRows DEF Spared
        <4> QED BY <4>1, <4>2 DEF Spared
      <3>3. \A u \in Uids : disk.obj[u] # None => disk'.obj[u] # None
        BY <2>1, FlushObj DEF Tracks
      <3>4. Orphans(disk') \subseteq Orphans(disk)
        BY <2>1, FlushOrphans DEF NoOrphanOfItsOwn
      <3> QED BY <3>1, <3>2, <3>3, <3>4 DEF CommitOK
    <2>3. Import' = Import \/ Import' = Readers!NoImport
      <3>1. CASE job.jpl
        <4>1. job' = [job EXCEPT !.pc = "states", !.batch = {}]
          BY <1>6, <3>1 DEF EndRows
        <4>2. job'.pc = "states" /\ job'.replace = job.replace /\ job'.uids = job.uids
          BY <2>1, <4>1 DEF Jobs
        <4> QED BY <2>1, <4>2 DEF Import
      <3>2. CASE ~job.jpl
        <4>1. job' = Idle
          BY <1>6, <3>2 DEF EndRows
        <4> QED BY <1>0, <4>1 DEF Import, Readers!NoImport
      <3> QED BY <3>1, <3>2
    <2>4. Readers!Publish
      BY <2>1, <2>2, <2>3, CommitPublishes
    <2> QED BY <2>4 DEF Readers!ReadersNext
  <1>7. CASE InsertStates
    <2> DEFINE e == [u \in Uids |-> conn.view.eph[u] \/ u \in job.uids]
    <2>1. /\ conn \in Conns /\ conn # None /\ conn.view = disk /\ disk \in Tables
          /\ job.pc = "states" /\ job.batch = {} /\ job.replace /\ job' = Idle /\ acked' = acked
      BY <1>7 DEF InsertStates, TypeOK, Tracks
    <2>2. disk' = [disk EXCEPT !.eph = e]
      BY <1>7, <2>1 DEF InsertStates, Conns
    <2>3. disk'.obj = disk.obj /\ disk'.meta = disk.meta /\ disk'.eph = e
      BY <2>1, <2>2 DEF Tables
    <2>4. CommitOK(disk')
      <3>1. \A u \in job.uids : disk.obj[u] # None
        BY <2>1 DEF JobRows, BatchUids
      <3>2. \A u \in Uids : disk.eph[u] \in BOOLEAN
        BY <2>1 DEF Tables
      <3>3. \A u \in Uids \ job.uids : disk'.eph[u] = disk.eph[u]
        BY <2>1, <2>3, <3>2
      <3>4. \A u \in Uids \ job.uids : Same(disk', disk, u)
        BY <2>3, <3>3 DEF Same
      <3>5. Orphans(disk') \subseteq Orphans(disk)
        BY <2>3, <3>1, <3>3 DEF Orphans
      <3> QED BY <2>1, <2>3, <3>4, <3>5 DEF CommitOK
    <2>5. Import' = Readers!NoImport
      BY <1>0, <2>1 DEF Import, Readers!NoImport
    <2>6. Readers!Publish
      BY <2>1, <2>4, <2>5, CommitPublishes
    <2> QED BY <2>6 DEF Readers!ReadersNext
  <1>8. CASE Crash
    <2>1. job' = Idle /\ UNCHANGED <<disk, acked>>
      BY <1>8 DEF Crash
    <2>2. Import' = Readers!NoImport
      BY <1>0, <2>1 DEF Import, Readers!NoImport
    <2>3. Readers!Abandon
      BY <2>1, <2>2 DEF Readers!Abandon, Import
    <2> QED BY <2>3 DEF Readers!ReadersNext
  <1>9. ASSUME NEW u \in Uids, DeleteUid(u) PROVE Readers!ReadersNext
    <2>1. /\ conn \in Conns /\ conn.view = disk /\ disk \in Tables /\ job.pc = "idle"
          /\ UNCHANGED job
      BY <1>9 DEF DeleteUid, TypeOK, Tracks
    <2>2. conn' = [conn EXCEPT !.view = Deleted(conn, u)] /\ disk' = conn'.view
          /\ acked' = acked \ {u}
      BY <1>9 DEF DeleteUid
    <2>3. disk' = Deleted(conn, u)
      BY <2>1, <2>2 DEF Conns
    <2>4. Readers!Remove(u)
      BY <2>1, <2>2, <2>3 DEF Deleted, Readers!Remove, Import
    <2> QED BY <2>4 DEF Readers!ReadersNext
  <1> QED BY <1>1, <1>3, <1>4, <1>5, <1>6, <1>7, <1>8, <1>9 DEF Next

\* The database implements CatalogReaders: nothing of an import shows before it
\* commits, what it then changes are uids it has read, it takes no object away,
\* and it takes away what hangs on one only when it replaces it.
THEOREM DatabaseServesReaders == Spec => ReadersAreServed
  <1>1. Init => Readers!ReadersInit
    <2> SUFFICES ASSUME Init PROVE Readers!ReadersInit
      OBVIOUS
    <2>1. disk = EmptyTables /\ EmptyTables \in Readers!Table
      BY DEF Init, EmptyTables, Readers!Table
    <2>2. Import = Readers!NoImport
      BY DEF Init, Import, Idle, Readers!NoImport
    <2> QED BY <2>1, <2>2 DEF Init, EmptyTables, Readers!ReadersInit, Import
  <1>2. IInv /\ IInv' /\ [Next]_vars => [Readers!ReadersNext]_<<disk, Import, acked>>
    BY WriterStep
  <1>3. Spec => Readers!ReadersInit /\ [][Readers!ReadersNext]_<<disk, Import, acked>>
    BY <1>1, <1>2, IInvAlways, PTL DEF Spec
  <1> QED BY <1>3 DEF ReadersAreServed, Readers!ReadersSpec, Readers!readersVars, Import
=============================================================================
