--------------------------- MODULE CatalogReaders ---------------------------
(***************************************************************************)
(* What the catalog database promises its readers, the navigator's query   *)
(* in the host while a tool imports.  Nothing shows until the import       *)
(* commits, and then only rows of the uids it has read change.  An object  *)
(* that is there stays until it is removed by name.  An import that does   *)
(* not replace takes nothing away; one that replaces may take the metadata *)
(* and the ephemerides of the objects it read.  What was reported as       *)
(* imported is there, and only a removal leaves rows of a missing object.  *)
(***************************************************************************)
CONSTANTS Uids, Vers, None

VARIABLES
  seen,     \* the tables a reader sees
  import,   \* the import under way: whether it replaces, and the uids it has read
  reported  \* uids reported as imported and not removed since

readersVars == <<seen, import, reported>>

Table == [obj : [Uids -> Vers \cup {None}], meta : [Uids -> Vers \cup {None}],
          eph : [Uids -> BOOLEAN]]

Present(t) == {u \in Uids : t.obj[u] # None}

\* Uids with a metadata or ephemeris row and no object.
Orphans(t) == {u \in Uids : t.obj[u] = None /\ (t.meta[u] # None \/ t.eph[u])}

NoImport == [on |-> FALSE, replace |-> FALSE, uids |-> {}]

ReadersInit ==
  /\ seen \in Table
  /\ \A u \in Uids : seen.obj[u] = None /\ seen.meta[u] = None /\ ~seen.eph[u]
  /\ import = NoImport
  /\ reported = {}

Begin(replace) ==
  /\ ~import.on
  /\ import' = [on |-> TRUE, replace |-> replace, uids |-> {}]
  /\ UNCHANGED <<seen, reported>>

Read(u) ==
  /\ import.on
  /\ import' = [import EXCEPT !.uids = @ \cup {u}]
  /\ UNCHANGED <<seen, reported>>

\* What a reader sees of u is the same.
Same(u) == /\ seen'.obj[u] = seen.obj[u]
           /\ seen'.meta[u] = seen.meta[u]
           /\ seen'.eph[u] = seen.eph[u]

\* All of u that there was is still there, and the object as it was.
Spared(u) == /\ seen'.obj[u] = seen.obj[u]
             /\ seen.meta[u] # None => seen'.meta[u] # None
             /\ seen.eph[u] => seen'.eph[u]

\* A commit, at the end of the import or on the way out of its failure.
Publish ==
  /\ import.on
  /\ seen' \in Table
  /\ \A u \in Uids \ import.uids : Same(u)
  /\ ~import.replace => \A u \in Present(seen) : Spared(u)
  /\ Present(seen) \subseteq Present(seen')
  /\ Orphans(seen') \subseteq Orphans(seen)
  /\ reported' \in {reported, reported \cup import.uids}
  /\ reported' \subseteq Present(seen')
  /\ import' \in {import, NoImport}

\* The importing process dies: nothing of it shows.
Abandon ==
  /\ import' = NoImport
  /\ UNCHANGED <<seen, reported>>

\* The removal of an object takes along what hangs on it, or none of that.
Remove(u) ==
  /\ ~import.on
  /\ seen' \in {[seen EXCEPT !.obj[u] = None],
                [seen EXCEPT !.obj[u] = None, !.meta[u] = None, !.eph[u] = FALSE]}
  /\ reported' = reported \ {u}
  /\ UNCHANGED import

ReadersNext ==
  \/ \E replace \in BOOLEAN : Begin(replace)
  \/ \E u \in Uids : Read(u) \/ Remove(u)
  \/ Publish
  \/ Abandon

ReadersSpec == ReadersInit /\ [][ReadersNext]_readersVars
=============================================================================
