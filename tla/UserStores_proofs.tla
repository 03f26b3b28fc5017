------------------------- MODULE UserStores_proofs -------------------------
(* Proofs about UserStores: for every set of datasets and bookmarks, and     *)
(* whatever file operations fail, the registry is only ever replaced whole,  *)
(* and only by rows its handler had a right to change.                       *)
EXTENDS UserStores, SequenceTheorems, TLAPS

\* What a pending save of the registry may differ in from the rows it was
\* computed from: the dataset it is about, or, for Load UNAV State, flags.
Honest(w) ==
  w.file = "registry" =>
    \A d \in Datasets :
      w.body[d] # w.base[d] =>
        \/ w.about = d
        \/ w.about = None /\ "none" \notin {w.body[d], w.base[d]}

\* The inductive invariant: todo is a sequence of honest writes, and what the
\* bodies of registry saves are computed from are registries.
Pending ==
  /\ \E S : todo \in Seq(S)
  /\ \A i \in 1 .. Len(todo) : Honest(todo[i])

IInv ==
  /\ registry \in Registries \cup {None}
  /\ manager \in Registries \cup {None}
  /\ last \in Datasets \cup {None}
  /\ \A i \in 1 .. Len(todo) : todo[i].file = "registry" => todo[i].body \in Registries
  /\ Pending

-----------------------------------------------------------------------------
(* What handlers put in todo *)

\* Reading the registry gives a registry (DatasetRegistry.load).
LEMMA LoadTyped ==
  ASSUME registry \in Registries \cup {None}, NEW read \in Io
  PROVE  LoadRegistry(read) \in Registries
  BY StoresAssumption DEF LoadRegistry, Loaded, NoRows, Registries

\* The bundled sample makes a registry (bootstrap_with_sample).
LEMMA BootstrapTyped == Bootstrapped \in Registries /\ NoRows \in Registries
  BY StoresAssumption DEF Bootstrapped, NoRows, Registries

\* A write of the registry as the handlers build it.
LEMMA SaveShape ==
  ASSUME NEW rows, NEW base, NEW about
  PROVE  /\ SaveRegistry(rows, base, about).file = "registry"
         /\ SaveRegistry(rows, base, about).body = rows
         /\ SaveRegistry(rows, base, about).base = base
         /\ SaveRegistry(rows, base, about).about = about
  BY DEF SaveRegistry, Write

\* Writes of other files are honest whatever is in them.
LEMMA OtherWrites ==
  ASSUME NEW f, NEW body, f # "registry"
  PROVE  Write(f, body).file # "registry" /\ Honest(Write(f, body))
  BY DEF Write, Honest

\* A save about one dataset, made from a copy that differs only there.
LEMMA SaveAboutOne ==
  ASSUME NEW rows \in Registries, NEW d \in Datasets, NEW row
  PROVE  Honest(SaveRegistry([rows EXCEPT ![d] = row], rows, d))
  <1>1. \A e \in Datasets : e # d => [rows EXCEPT ![d] = row][e] = rows[e]
    BY DEF Registries
  <1> DEFINE w == SaveRegistry([rows EXCEPT ![d] = row], rows, d)
  <1>2. w.body = [rows EXCEPT ![d] = row] /\ w.base = rows /\ w.about = d
    BY SaveShape
  <1> HIDE DEF w
  <1>3. \A e \in Datasets : w.body[e] # w.base[e] => w.about = e
    BY <1>1, <1>2
  <1>4. Honest(w)
    BY <1>3 DEF Honest
  <1> QED  BY <1>4 DEF w

\* The bootstrap save.
LEMMA FirstSaveHonest ==
  Honest(SaveRegistry(Bootstrapped, NoRows, Sample))
  BY SaveAboutOne, BootstrapTyped, StoresAssumption DEF Bootstrapped

\* A registration changes at most the row of its dataset.
LEMMA EnsuredHonest ==
  ASSUME NEW rows \in Registries, NEW d \in Datasets
  PROVE  /\ Ensured(rows, d) \in Registries
         /\ Honest(SaveRegistry(Ensured(rows, d), rows, d))
  <1>1. CASE rows[d] = "none"
    <2>1. Ensured(rows, d) = [rows EXCEPT ![d] = "on"]
      BY <1>1 DEF Ensured
    <2>2. [rows EXCEPT ![d] = "on"] \in Registries
      BY DEF Registries
    <2> QED  BY <2>1, <2>2, SaveAboutOne
  <1>2. CASE rows[d] # "none"
    <2>1. Ensured(rows, d) = rows
      BY <1>2 DEF Ensured
    <2> QED  BY <2>1, SaveShape DEF Honest
  <1> QED  BY <1>1, <1>2

\* Aligning the flags registers and forgets nothing (apply_project_state).
LEMMA AlignedHonest ==
  ASSUME NEW rows \in Registries, NEW wanted
  PROVE  /\ Aligned(rows, wanted) \in Registries
         /\ Honest(SaveRegistry(Aligned(rows, wanted), rows, None))
  <1>1. Aligned(rows, wanted) \in Registries
    BY DEF Aligned, Registries
  <1>2. \A d \in Datasets : Aligned(rows, wanted)[d] # rows[d] =>
          "none" \notin {Aligned(rows, wanted)[d], rows[d]}
    BY DEF Aligned, Registries
  <1> QED  BY <1>1, <1>2, SaveShape DEF Honest

\* One write, honest and of a registry if it is one of the registry, is a
\* good thing to have in todo.
Good(w) == Honest(w) /\ (w.file = "registry" => w.body \in Registries)

\* Being good holds of every write of a sequence of none, one or two.
LEMMA GoodTodo ==
  ASSUME NEW u, NEW w, Good(u), Good(w),
         NEW t, t \in {<< >>, <<w>>, <<u, w>>}
  PROVE  /\ \E S : t \in Seq(S)
         /\ \A i \in 1 .. Len(t) : Good(t[i])
  <1>1. CASE t = << >>
    <2>1. << >> \in Seq({})  OBVIOUS
    <2> QED  BY <1>1, <2>1
  <1>2. CASE t = <<w>>
    <2>1. t \in Seq({w})
      BY <1>2
    <2>2. \A i \in 1 .. Len(t) : t[i] = w
      BY <1>2
    <2> QED  BY <2>1, <2>2
  <1>3. CASE t = <<u, w>>
    <2>1. t \in Seq({u, w})
      BY <1>3
    <2>2. \A i \in 1 .. Len(t) : t[i] = u \/ t[i] = w
      BY <1>3
    <2> QED  BY <2>1, <2>2
  <1> QED  BY <1>1, <1>2, <1>3

\* How handlers put two writes one after the other.
LEMMA Joining ==
  ASSUME NEW u, NEW w
  PROVE  /\ Append(<< >>, w) = <<w>> /\ Append(<<u>>, w) = <<u, w>>
         /\ << >> \o <<w>> = <<w>> /\ <<u>> \o <<w>> = <<u, w>>
  <1>1. Append(<< >>, w) = <<w>>  OBVIOUS
  <1>2. Append(<<u>>, w) = <<u, w>>
    <2> DEFINE S == {u, w}
    <2>1. <<u>> \in Seq(S) /\ w \in S /\ <<u, w>> \in Seq(S)  OBVIOUS
    <2>2. Len(<<u>>) = 1 /\ <<u>>[1] = u /\ Len(<<u, w>>) = 2
          /\ <<u, w>>[1] = u /\ <<u, w>>[2] = w  OBVIOUS
    <2> HIDE DEF S
    <2>3. /\ Append(<<u>>, w) \in Seq(S) /\ Len(Append(<<u>>, w)) = 2
          /\ Append(<<u>>, w)[1] = u /\ Append(<<u>>, w)[2] = w
      BY <2>1, <2>2, AppendProperties
    <2>4. \A i \in 1 .. 2 : Append(<<u>>, w)[i] = <<u, w>>[i]
      BY <2>2, <2>3
    <2> QED  BY <2>1, <2>2, <2>3, <2>4, SeqEqual
  <1>3. << >> \o <<w>> = <<w>>  OBVIOUS
  <1>4. <<u>> \o <<w>> = <<u, w>>
    <2> DEFINE S == {u, w}
    <2>1. <<u>> \in Seq(S) /\ w \in S  OBVIOUS
    <2>2. Append(<<u>>, w) = <<u>> \o <<w>>
      BY <2>1, AppendIsConcat
    <2> QED  BY <1>2, <2>2
  <1> QED  BY <1>1, <1>2, <1>3, <1>4

\* Registering a tool's output owes one good write or two.
LEMMA RegisteredGood ==
  ASSUME registry \in Registries \cup {None}, NEW d \in Datasets, NEW read \in Io
  PROVE  LET t == RegisteredWrites(d, read)
         IN  /\ \E S : t \in Seq(S)
             /\ \A i \in 1 .. Len(t) : Good(t[i])
  <1> DEFINE rows == LoadRegistry(read)
             u == SaveRegistry(Bootstrapped, NoRows, Sample)
             w == SaveRegistry(Ensured(Opened(rows), d), Opened(rows), d)
             t == RegisteredWrites(d, read)
  <1>1. Opened(rows) \in Registries
    BY LoadTyped, BootstrapTyped DEF Opened
  <1>2. Good(u)
    BY FirstSaveHonest, SaveShape, BootstrapTyped DEF Good
  <1>3. Good(w)
    BY <1>1, EnsuredHonest, SaveShape DEF Good
  <1>4. t = <<w>> \/ t = <<u, w>>
    <2>1. FirstSave(rows) \in {<< >>, <<u>>}
      BY DEF FirstSave
    <2>2. t = Append(FirstSave(rows), w)
      BY DEF RegisteredWrites
    <2> HIDE DEF u, w, t, rows
    <2> QED  BY <2>1, <2>2, Joining
  <1>5. t \in {<< >>, <<w>>, <<u, w>>}
    BY <1>4
  <1> HIDE DEF u, w, t
  <1>6. /\ \E S : t \in Seq(S)
        /\ \A i \in 1 .. Len(t) : Good(t[i])
    BY <1>2, <1>3, <1>5, GoodTodo
  <1> QED  BY <1>6 DEF t

-----------------------------------------------------------------------------
(* Induction *)

\* What a handler that only fills todo has to show.
LEMMA FillsTodo ==
  ASSUME IInv, NEW t,
         registry' = registry, manager' \in Registries \cup {None},
         last' \in Datasets \cup {None}, todo' = t,
         \E S : t \in Seq(S), \A i \in 1 .. Len(t) : Good(t[i])
  PROVE  IInv'
  BY DEF IInv, Pending, Good, Honest

\* The state in which no handler ran yet.
LEMMA InitIInv == Init => IInv
  <1> SUFFICES ASSUME Init PROVE IInv  OBVIOUS
  <1>1. << >> \in Seq({})  OBVIOUS
  <1>2. todo = << >> /\ Len(todo) = 0
    BY DEF Init
  <1> QED  BY <1>1, <1>2 DEF Init, IInv, Pending

\* The buttons of the Dataset Manager.
LEMMA ManagerSavesIInv ==
  ASSUME IInv, NEW d \in Datasets, NEW row \in {"none", "on", "off"},
         ManagerSaves(d, row)
  PROVE  IInv'
  <1> DEFINE w == SaveRegistry(manager', manager, d)
  <1>1. manager \in Registries /\ manager' = [manager EXCEPT ![d] = row]
    BY DEF ManagerSaves, IInv
  <1>2. manager' \in Registries
    BY <1>1 DEF Registries
  <1>3. Good(w)
    <2>1. Honest(SaveRegistry([manager EXCEPT ![d] = row], manager, d))
      BY <1>1, SaveAboutOne
    <2>2. Honest(w)
      BY <1>1, <2>1
    <2> QED  BY <1>2, <2>2, SaveShape DEF Good
  <1>4. registry' = registry /\ last' = last /\ todo' = <<w>>
    BY DEF ManagerSaves
  <1> HIDE DEF w
  <1>5. \E S : <<w>> \in Seq(S)
    BY <1>3, GoodTodo
  <1>6. \A i \in 1 .. Len(<<w>>) : Good(<<w>>[i])
    BY <1>3, GoodTodo
  <1> QED  BY <1>2, <1>4, <1>5, <1>6, FillsTodo DEF IInv

\* Every step keeps the invariant.
LEMMA StepIInv == IInv /\ [Next]_vars => IInv'
  <1> SUFFICES ASSUME IInv, [Next]_vars PROVE IInv'  OBVIOUS
  <1>e. (\E S : << >> \in Seq(S)) /\ \A i \in 1 .. Len(<< >>) : Good(<< >>[i])
    <2>1. << >> \in Seq({})  OBVIOUS
    <2> QED  BY <2>1
  <1>1. CASE OpenManager
    <2>1. PICK read \in Io : /\ manager' = Opened(LoadRegistry(read))
                             /\ todo' = FirstSave(LoadRegistry(read))
      BY <1>1 DEF OpenManager
    <2>2. manager' \in Registries
      BY <2>1, LoadTyped, BootstrapTyped DEF Opened, IInv
    <2> DEFINE w == SaveRegistry(Bootstrapped, NoRows, Sample)
    <2>3. Good(w)
      BY FirstSaveHonest, SaveShape, BootstrapTyped DEF Good
    <2>4. todo' \in {<< >>, <<w>>, <<w, w>>}
      BY <2>1 DEF FirstSave
    <2> HIDE DEF w
    <2>5. (\E S : todo' \in Seq(S)) /\ \A i \in 1 .. Len(todo') : Good(todo'[i])
      BY <2>3, <2>4, GoodTodo
    <2>6. registry' = registry /\ last' = last
      BY <1>1 DEF OpenManager
    <2> QED  BY <2>2, <2>5, <2>6, FillsTodo DEF IInv
  <1>2. ASSUME NEW d \in Datasets,
               AddDataset(d) \/ RemoveDataset(d) \/ ToggleDataset(d) \/ RefreshDataset(d)
        PROVE  IInv'
    <2>1. manager \in Registries
      BY <1>2 DEF IInv, AddDataset, RemoveDataset, ToggleDataset, RefreshDataset
    <2>2. PICK row \in {"none", "on", "off"} : ManagerSaves(d, row)
      BY <1>2, <2>1 DEF AddDataset, RemoveDataset, ToggleDataset, RefreshDataset, Registries
    <2> QED  BY <2>2, ManagerSavesIInv
  <1>3. ASSUME NEW d \in Datasets, NEW ok \in BOOLEAN, NEW tick \in BOOLEAN,
               RunTool(d, ok, tick)
        PROVE  IInv'
    <2>1. PICK read \in Io :
            todo' = IF ok /\ tick THEN RegisteredWrites(d, read) ELSE << >>
      BY <1>3 DEF RunTool
    <2>2. (\E S : todo' \in Seq(S)) /\ \A i \in 1 .. Len(todo') : Good(todo'[i])
      BY <2>1, <1>e, RegisteredGood DEF IInv
    <2>3. registry' = registry /\ manager' = manager /\ last' \in Datasets \cup {None}
      BY <1>3 DEF RunTool
    <2> QED  BY <2>2, <2>3, FillsTodo DEF IInv
  <1>4. CASE Register
    <2>1. last \in Datasets
      BY <1>4 DEF Register, IInv
    <2>2. PICK read \in Io : todo' = RegisteredWrites(last, read)
      BY <1>4 DEF Register
    <2>3. (\E S : todo' \in Seq(S)) /\ \A i \in 1 .. Len(todo') : Good(todo'[i])
      BY <2>1, <2>2, RegisteredGood DEF IInv
    <2>4. registry' = registry /\ manager' = manager /\ last' = last
      BY <1>4 DEF Register
    <2> QED  BY <2>3, <2>4, FillsTodo DEF IInv
  <1>5. CASE SaveState
    <2>1. PICK read \in Io :
            LET state == {d \in Datasets : LoadRegistry(read)[d] = "on"}
            IN  todo' = (IF scene.titled THEN <<Write("sidecar", state)>> ELSE << >>)
                          \o <<Write("box", state)>>
      BY <1>5 DEF SaveState
    <2> DEFINE state == {d \in Datasets : LoadRegistry(read)[d] = "on"}
               u == Write("sidecar", state)
               w == Write("box", state)
    <2>2. Good(u) /\ Good(w)
      BY OtherWrites DEF Good
    <2>3. todo' \in {<< >>, <<w>>, <<u, w>>}
      <3>1. todo' = (IF scene.titled THEN <<u>> ELSE << >>) \o <<w>>
        BY <2>1
      <3> HIDE DEF u, w
      <3> QED  BY <3>1, Joining
    <2> HIDE DEF u, w
    <2>4. (\E S : todo' \in Seq(S)) /\ \A i \in 1 .. Len(todo') : Good(todo'[i])
      BY <2>2, <2>3, GoodTodo
    <2>5. registry' = registry /\ manager' = manager /\ last' = last
      BY <1>5 DEF SaveState
    <2> QED  BY <2>4, <2>5, FillsTodo DEF IInv
  <1>6. CASE LoadState
    <2>1. PICK r1 \in Io, r2 \in Io :
            LET rows == LoadRegistry(r2)
            IN  todo' = <<SaveRegistry(Aligned(rows, FoundState(r1)), rows, None)>>
      BY <1>6 DEF LoadState
    <2> DEFINE rows == LoadRegistry(r2)
               w == SaveRegistry(Aligned(rows, FoundState(r1)), rows, None)
    <2>2. rows \in Registries
      BY LoadTyped DEF IInv
    <2>3. Good(w)
      <3> HIDE DEF rows
      <3> QED  BY <2>2, AlignedHonest, SaveShape DEF Good
    <2>4. todo' \in {<< >>, <<w>>, <<w, w>>}
      BY <2>1
    <2> HIDE DEF w
    <2>5. (\E S : todo' \in Seq(S)) /\ \A i \in 1 .. Len(todo') : Good(todo'[i])
      BY <2>3, <2>4, GoodTodo
    <2>6. registry' = registry /\ manager' = manager /\ last' = last
      BY <1>6 DEF LoadState
    <2> QED  BY <2>5, <2>6, FillsTodo DEF IInv
  <1>7. CASE SaveScene
    BY <1>7 DEF SaveScene, IInv, Pending, Honest
  <1>8. ASSUME NEW marks, BookmarkSaves(marks)
        PROVE  IInv'
    <2> DEFINE w == Write("bookmarks", marks)
    <2>1. Good(w)
      BY OtherWrites DEF Good
    <2>2. todo' \in {<< >>, <<w>>, <<w, w>>}
      BY <1>8 DEF BookmarkSaves
    <2> HIDE DEF w
    <2>3. (\E S : todo' \in Seq(S)) /\ \A i \in 1 .. Len(todo') : Good(todo'[i])
      BY <2>1, <2>2, GoodTodo
    <2>4. registry' = registry /\ manager' = manager /\ last' = last
      BY <1>8 DEF BookmarkSaves
    <2> QED  BY <2>3, <2>4, FillsTodo DEF IInv
  <1>9. CASE RefreshBookmarks
    BY <1>9 DEF RefreshBookmarks, IInv, Pending, Honest
  <1>10. CASE OpenFile
    <2>1. todo # << >> /\ todo' = [todo EXCEPT ![1].open = TRUE]
      BY <1>10 DEF OpenFile, Opening
    <2>2. registry' = registry /\ manager' = manager /\ last' = last
      BY <1>10 DEF OpenFile, Opening, Content, Here
    <2>3. PICK S : todo \in Seq(S)
      BY DEF IInv, Pending
    <2> DEFINE w == [todo[1] EXCEPT !.open = TRUE]
    <2>4. todo' = [todo EXCEPT ![1] = w]
      BY <2>1
    <2>5. todo' \in Seq(S \cup {w}) /\ Len(todo') = Len(todo)
      BY <2>1, <2>3, <2>4
    <2>6. 1 \in 1 .. Len(todo)
      BY <2>1, <2>3
    <2>7. Good(todo[1]) => Good(w)
      BY DEF Good, Honest
    <2>8. \A i \in 1 .. Len(todo) : Good(todo[i])
      BY DEF IInv, Pending, Good
    <2> HIDE DEF w
    <2>9. \A i \in 1 .. Len(todo') : Good(todo'[i])
      BY <2>3, <2>4, <2>5, <2>6, <2>7, <2>8
    <2> QED  BY <2>2, <2>5, <2>9, FillsTodo DEF IInv
  <1>11. ASSUME todo # << >>, todo' = Tail(todo), UNCHANGED <<manager, last>>,
                registry' \in Registries \cup {None}
         PROVE  IInv'
    <2>1. PICK S : todo \in Seq(S)
      BY DEF IInv, Pending
    <2>2. /\ todo' \in Seq(S) /\ Len(todo') = Len(todo) - 1 /\ Len(todo) \in Nat
          /\ \A i \in 1 .. Len(todo') : todo'[i] = todo[i + 1] /\ i + 1 \in 1 .. Len(todo)
      BY <1>11, <2>1
    <2>3. \A i \in 1 .. Len(todo') : Good(todo'[i])
      BY <2>2 DEF IInv, Pending, Good
    <2> QED  BY <1>11, <2>2, <2>3 DEF IInv, Pending, Good, Honest
  <1>12. CASE FinishWrite
    <2>1. todo # << >> /\ todo' = Tail(todo) /\ UNCHANGED <<manager, last>>
      BY <1>12 DEF FinishWrite
    <2>2. PICK S : todo \in Seq(S)
      BY DEF IInv, Pending
    <2>3. 1 \in 1 .. Len(todo) /\ Here = todo[1]
      BY <2>1, <2>2 DEF Here
    <2>4. registry' = IF Here.file = "registry" THEN Here.body ELSE registry
      BY <1>12 DEF FinishWrite, Content
    <2>5. registry' \in Registries \cup {None}
      BY <2>3, <2>4 DEF IInv
    <2> QED  BY <2>1, <2>5, <1>11
  <1>13. CASE FailWrite
    BY <1>13, <1>11 DEF FailWrite, IInv
  <1>14. ASSUME NEW reopen \in BOOLEAN, Restart(reopen)
         PROVE  IInv'
    <2>1. registry' = registry /\ manager' = None /\ last' = None /\ todo' = << >>
      BY <1>14 DEF Restart
    <2> QED  BY <2>1, <1>e, FillsTodo DEF IInv
  <1>15. CASE UNCHANGED vars
    BY <1>15 DEF vars, IInv, Pending, Honest
  <1> QED
    BY <1>1, <1>2, <1>3, <1>4, <1>5, <1>6, <1>7, <1>8, <1>9, <1>10, <1>12, <1>13,
       <1>14, <1>15 DEF Next, AddBookmark, RemoveBookmark, MoveBookmark

-----------------------------------------------------------------------------
(* Theorems *)

\* Only the end of a write changes the registry.
LEMMA OnlyFinish ==
  ASSUME IInv, [Next]_vars, registry' # registry
  PROVE  /\ FinishWrite
         /\ Here.file = "registry" /\ registry' = Here.body
         /\ todo # << >> /\ todo' = Tail(todo)
  <1>1. FinishWrite
    <2>1. ~ OpenFile
      BY DEF OpenFile, Content, Here
    <2>2. ~ UNCHANGED vars
      BY DEF vars
    <2> QED
      BY <2>1, <2>2 DEF Next, OpenManager, AddDataset, RemoveDataset, ToggleDataset,
        RefreshDataset, ManagerSaves, RunTool, Register, SaveState, LoadState,
        SaveScene, AddBookmark, RemoveBookmark, MoveBookmark, BookmarkSaves,
        RefreshBookmarks, FailWrite, Restart
  <1>2. registry' = IF Here.file = "registry" THEN Here.body ELSE registry
    BY <1>1 DEF FinishWrite, Content
  <1> QED  BY <1>1, <1>2 DEF FinishWrite

\* The inductive invariant holds of every behaviour.
LEMMA AlwaysIInv == Spec => []IInv
  BY InitIInv, StepIInv, PTL DEF Spec

\* For every set of datasets and every failure, datasets.json is kept or
\* replaced by the whole registry of the save that ends (safe_write_json).
THEOREM RegistryAtomic == Spec => RegistryReplacedWhole
  <1>1. IInv /\ [Next]_vars =>
          [registry' # registry =>
             /\ todo # << >> /\ todo' = Tail(todo)
             /\ Here.file = "registry" /\ registry' = Here.body]_vars
    BY OnlyFinish
  <1> QED  BY <1>1, AlwaysIInv, PTL DEF Spec, RegistryReplacedWhole

\* For every set of datasets, a save made from rows that still agree with the
\* file changes the rows it is about and no other (the four writers of
\* datasets.json).
THEOREM SavesAreHonest == Spec => SaveChangesWhatItNames
  <1> DEFINE A == \A d \in Datasets :
       Row(registry', d) # Row(registry, d) =>
         \/ Here.about = d
         \/ Here.base[d] # Row(registry, d)
         \/ Here.about = None /\ "none" \notin {Row(registry, d), Row(registry', d)}
  <1>1. IInv /\ [Next]_vars => [A]_vars
    <2> SUFFICES ASSUME IInv, [Next]_vars, NEW d \in Datasets,
                        Row(registry', d) # Row(registry, d),
                        Here.base[d] = Row(registry, d)
                 PROVE  \/ Here.about = d
                        \/ /\ Here.about = None
                           /\ "none" \notin {Row(registry, d), Row(registry', d)}
      OBVIOUS
    <2>1. /\ Here.file = "registry" /\ registry' = Here.body /\ todo # << >>
      BY OnlyFinish
    <2>2. PICK S : todo \in Seq(S)
      BY DEF IInv, Pending
    <2>3. 1 \in 1 .. Len(todo) /\ Here = todo[1]
      BY <2>1, <2>2 DEF Here
    <2>4. Honest(Here) /\ registry' \in Registries
      BY <2>1, <2>3 DEF IInv, Pending
    <2>5. registry' # None
      BY <2>4, StoresAssumption DEF Registries
    <2>6. Row(registry', d) = Here.body[d]
      BY <2>1, <2>5 DEF Row
    <2>7. Here.body[d] # Here.base[d]
      BY <2>6
    <2> QED  BY <2>1, <2>4, <2>6, <2>7 DEF Honest
  <1>2. SaveChangesWhatItNames <=> [][A]_vars
    BY DEF SaveChangesWhatItNames
  <1> QED  BY <1>1, <1>2, AlwaysIInv, PTL DEF Spec
=============================================================================
