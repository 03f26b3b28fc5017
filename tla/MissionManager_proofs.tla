------------------------ MODULE MissionManager_proofs ------------------------
(****************************************************************************)
(* Proofs about MissionManager, for any ids, file names and clock: types,   *)
(* the list shows every mission once, no handler, failure or crash loses a  *)
(* stored version, and an undisturbed restart is a no-op.                   *)
(****************************************************************************)
EXTENDS MissionManager, FiniteSetTheorems, WellFoundedInduction, TLAPS

\* The constants, in the form the steps use.
LEMMA Constants ==
  /\ 0 \notin Id
  /\ MaxClock \in Nat \ {0}
  /\ IsFiniteSet(Id)
BY MissionAssumption DEF MissionAssumption

\* A set of dates that is not empty has a latest one.
LEMMA LatestExists ==
  ASSUME NEW S \in SUBSET (0 .. MaxClock), S # {}
  PROVE  \E s \in S : \A t \in S : t <= s
<1> DEFINE R == OpToRel(<, Nat)
           T == {MaxClock - s : s \in S}
<1>1. T \subseteq Nat /\ T # {}
  <2>1. \A s \in S : MaxClock - s \in Nat
    BY Constants
  <2>2. PICK s \in S : TRUE
    OBVIOUS
  <2>3. MaxClock - s \in T
    BY <2>2
  <2> QED
    BY <2>1, <2>3
<1>2. PICK x \in T : \A y \in T : <<y, x>> \notin R
  <2> HIDE DEF T, R
  <2> IsWellFoundedOn(R, Nat)
    BY NatLessThanWellFounded DEF R
  <2> QED
    BY <1>1, WFMin
<1>3. PICK s \in S : x = MaxClock - s
  BY <1>2
<1>4. ASSUME NEW t \in S PROVE t <= s
  <2>1. MaxClock - t \in T /\ MaxClock - t \in Nat /\ x \in Nat
    BY <1>1, <1>2
  <2>2. ~ (MaxClock - t < x)
    BY <2>1, <1>2 DEF OpToRel
  <2> QED
    BY <2>1, <2>2, <1>3, Constants
<1> QED
  BY <1>4

\* What a load makes of the files that hold one mission.
LEMMA NewestIsLatest ==
  ASSUME file \in [Name -> Content], NEW i \in Id, Holders(i) # {}
  PROVE  /\ NewestOf(i) \in {file[n].stamp : n \in Holders(i)}
         /\ \A n \in Holders(i) : file[n].stamp <= NewestOf(i)
         /\ NewestOf(i) \in 0 .. MaxClock
<1> DEFINE S == {file[n].stamp : n \in Holders(i)}
<1>1. S \in SUBSET (0 .. MaxClock) /\ S # {}
  BY DEF Holders, Content
<1>2. \E s \in S : \A t \in S : t <= s
  <2> HIDE DEF S
  <2> QED BY <1>1, LatestExists
<1>3. NewestOf(i) = CHOOSE s \in S : \A n \in Holders(i) : file[n].stamp <= s
  BY DEF NewestOf
<1>4. \E s \in S : \A n \in Holders(i) : file[n].stamp <= s
  BY <1>2
<1>5. NewestOf(i) \in S /\ \A n \in Holders(i) : file[n].stamp <= NewestOf(i)
  BY <1>3, <1>4
<1> QED
  BY <1>1, <1>5

\* The loaded version of a mission is the latest that any file holds.
Latest ==
  \A i \in Id :
    /\ Loaded[i] \in 0 .. MaxClock
    /\ Holders(i) = {} => Loaded[i] = 0
    /\ Holders(i) # {} => \E n \in Holders(i) : Loaded[i] = file[n].stamp
    /\ \A n \in Holders(i) : file[n].stamp <= Loaded[i]

\* reload takes the version modified last.
LEMMA LoadsLatest == file \in [Name -> Content] => Latest
<1> SUFFICES ASSUME file \in [Name -> Content], NEW i \in Id
             PROVE  /\ Loaded[i] \in 0 .. MaxClock
                    /\ Holders(i) = {} => Loaded[i] = 0
                    /\ Holders(i) # {} => \E n \in Holders(i) : Loaded[i] = file[n].stamp
                    /\ \A n \in Holders(i) : file[n].stamp <= Loaded[i]
  BY DEF Latest
<1>1. CASE Holders(i) = {}
  BY <1>1, Constants DEF Loaded
<1>2. CASE Holders(i) # {}
  <2>1. Loaded[i] = NewestOf(i)
    BY <1>2 DEF Loaded
  <2> QED
    BY <2>1, <1>2, NewestIsLatest
<1> QED
  BY <1>1, <1>2

\* The same of the state after a step.
LEMMA LoadsLatestNext == (file \in [Name -> Content])' => Latest'
BY LoadsLatest, PTL

------------------------------------------------------------------------------
\* Types

\* What move and sort may make of the list is a list.
LEMMA ArrangementType ==
  ASSUME NEW S \in SUBSET Id, NEW o \in Arrangement(S)
  PROVE  o \in Seq(Id) /\ ListsOnce(o, S)
<1>1. Cardinality(S) \in Nat
  BY Constants, FS_Subset, FS_CardinalityType
<1>2. o \in [1 .. Cardinality(S) -> S] /\ ListsOnce(o, S)
  BY DEF Arrangement
<1> QED
  BY <1>1, <1>2

\* The values the handlers and the others write.
LEMMA Values ==
  /\ Idle \in Job
  /\ [step |-> "truncate", id |-> 0] \in Job
  /\ [step |-> "index", id |-> 0] \in Job
  /\ \A i \in Id : \A s \in {"stage", "replace", "unlink"} : [step |-> s, id |-> i] \in Job
  /\ Missing \in Content /\ Cut \in Content
  /\ \A i \in Id, stamp \in 0 .. MaxClock : [id |-> i, stamp |-> stamp] \in Content
  /\ \A s \in {"missing", "cut", "whole"}, o \in Seq(Id) : [state |-> s, ids |-> o] \in Index
  /\ <<>> \in Seq(Id)
  /\ Forgotten \in [Id -> 0 .. MaxClock]
<1>1. /\ Idle \in Job
      /\ [step |-> "truncate", id |-> 0] \in Job
      /\ [step |-> "index", id |-> 0] \in Job
      /\ \A i \in Id : \A s \in {"stage", "replace", "unlink"} : [step |-> s, id |-> i] \in Job
  BY DEF Idle, Job
<1>2. /\ Missing \in Content /\ Cut \in Content
      /\ \A i \in Id, stamp \in 0 .. MaxClock : [id |-> i, stamp |-> stamp] \in Content
  BY Constants DEF Missing, Cut, Content
<1>3. <<>> \in Seq(Id)
  OBVIOUS
<1>4. \A s \in {"missing", "cut", "whole"}, o \in Seq(Id) : [state |-> s, ids |-> o] \in Index
  BY DEF Index
<1>5. Forgotten \in [Id -> 0 .. MaxClock]
  BY Constants DEF Forgotten
<1> QED
  BY <1>1, <1>2, <1>3, <1>4, <1>5

\* The steps about a mission name one.
LEMMA StepHasMission ==
  ASSUME job \in Job, job.step \in {"stage", "replace", "unlink"}
  PROVE  job.id \in Id
BY DEF Job

\* The types hold before the first load.
LEMMA TypeInit == Init => TypeOK
<1> SUFFICES ASSUME Init PROVE TypeOK
  OBVIOUS
<1>1. file \in [Name -> Content] /\ index \in Index /\ missions \in [Id -> 0 .. MaxClock]
  BY Values DEF Init
<1>2. order \in Seq(Id) /\ job \in Job /\ tmp \in Content
  BY Values DEF Init
<1>3. clock \in 1 .. MaxClock
  BY Constants DEF Init
<1> QED
  BY <1>1, <1>2, <1>3 DEF Init, TypeOK

\* create keeps the types, whoever calls it.
LEMMA CreateType ==
  ASSUME TypeOK, NEW i \in Id, NEW stamp \in 0 .. MaxClock, Create(i, stamp)
  PROVE  /\ missions' \in [Id -> 0 .. MaxClock]
         /\ order' \in Seq(Id)
         /\ job' \in Job
         /\ used' \subseteq Id
BY DEF TypeOK, Create, SaveMission, Job

\* Every step keeps the types.
LEMMA TypeStep == TypeOK /\ [Next]_vars => TypeOK'
<1> SUFFICES ASSUME TypeOK, [Next]_vars PROVE TypeOK'
  OBVIOUS
<1> USE Constants DEF TypeOK
<1>1. CASE Reload
  <2>1. \A i \in Id : Loaded[i] \in 0 .. MaxClock
    BY LoadsLatest DEF Latest
  <2>2. missions' \in [Id -> 0 .. MaxClock]
    BY <1>1, <2>1 DEF Reload, Loaded
  <2>3. order' \in Seq(Id)
    BY <1>1, ArrangementType DEF Reload
  <2> QED
    BY <1>1, <2>2, <2>3 DEF Reload, Job, Idle, disk
<1>2. CASE New
  <2>1. clock' \in 1 .. MaxClock
    BY <1>2 DEF New
  <2>2. PICK i \in Id : Create(i, clock')
    BY <1>2 DEF New
  <2> QED
    BY <1>2, <2>1, <2>2, CreateType DEF New, disk
<1>3. ASSUME NEW source \in Id, Duplicate(source) PROVE TypeOK'
  <2>1. PICK i \in Id : Create(i, missions[source])
    BY <1>3 DEF Duplicate
  <2> QED
    BY <1>3, <2>1, CreateType DEF Duplicate, disk
<1>4. ASSUME NEW i \in Id, NEW stamp \in 1 .. clock, Import(i, stamp) PROVE TypeOK'
  <2>1. PICK mine \in Id : Create(mine, stamp)
    BY <1>4 DEF Import
  <2>2. stamp \in 0 .. MaxClock
    OBVIOUS
  <2> QED
    BY <1>4, <2>1, <2>2, CreateType DEF Import, disk
<1>5. ASSUME NEW i \in Id, Update(i) PROVE TypeOK'
  BY <1>5 DEF Update, SaveMission, Job, disk
<1>6. ASSUME NEW i \in Id, Delete(i) PROVE TypeOK'
  <2>1. PICK p \in DOMAIN order : order' = Without(order, p)
    BY <1>6 DEF Delete
  <2>2. p \in 1 .. Len(order)
    BY <2>1
  <2>3. SubSeq(order, 1, p - 1) \in Seq(Id) /\ SubSeq(order, p + 1, Len(order)) \in Seq(Id)
    BY <2>2
  <2>4. order' \in Seq(Id)
    BY <2>1, <2>3 DEF Without
  <2> QED
    BY <1>6, <2>4 DEF Delete, Job, disk
<1>7. CASE Rearrange
  <2>1. order' \in Seq(Id)
    BY <1>7, ArrangementType DEF Rearrange, Registered
  <2> QED
    BY <1>7, <2>1 DEF Rearrange, SaveIndex, Job, disk
<1>8. CASE StageMission \/ SaveFails \/ HandlerRaises
  <2>1. job' \in Job
    BY <1>8, Values, StepHasMission DEF StageMission, SaveFails, HandlerRaises, SaveIndex
  <2>2. tmp' \in Content
    <3>1. StageMission => tmp' \in Content
      BY StepHasMission, Values DEF StageMission, Mine
    <3> QED
      BY <1>8, <3>1, Values DEF SaveFails, HandlerRaises, disk
  <2> QED
    BY <1>8, <2>1, <2>2 DEF StageMission, SaveFails, HandlerRaises, memory, disk
<1>9. CASE ReplaceMission
  BY <1>9, Values DEF ReplaceMission, SaveIndex, memory
<1>10. CASE Unlink \/ UnlinkFails
  <2>1. job' \in Job /\ file' \in [Name -> Content]
    BY <1>10, Values DEF Unlink, UnlinkFails, SaveIndex, disk
  <2> QED
    BY <1>10, <2>1 DEF Unlink, UnlinkFails, memory, disk
<1>11. CASE TruncateIndex \/ WriteIndex \/ IndexFails
  <2>1. job' \in Job /\ index' \in Index
    BY <1>11, Values DEF TruncateIndex, WriteIndex, IndexFails, disk
  <2> QED
    BY <1>11, <2>1 DEF TruncateIndex, WriteIndex, IndexFails, memory, disk
<1>12. CASE Crash
  BY <1>12, Values DEF Crash, disk
<1>13. CASE Others
  <2>1. ASSUME NEW n \in Name, NEW i \in Id, NEW stamp \in 1 .. clock, PutFile(n, i, stamp)
        PROVE  /\ file' \in [Name -> Content] /\ tmp' \in Content
               /\ index' \in Index /\ used' \subseteq Id
    <3>1. [id |-> i, stamp |-> stamp] \in Content
      BY DEF Content
    <3> QED
      BY <2>1, <3>1 DEF PutFile
  <2>2. ASSUME NEW n \in Name, BreakFile(n) \/ RemoveFile(n)
        PROVE  /\ file' \in [Name -> Content] /\ tmp' \in Content
               /\ index' \in Index /\ used' \subseteq Id
    <3>1. Cut \in Content /\ Missing \in Content
      BY DEF Cut, Missing, Content
    <3> QED
      BY <2>2, <3>1 DEF BreakFile, RemoveFile
  <2>3. ASSUME ChangeIndex
        PROVE  /\ file' \in [Name -> Content] /\ tmp' \in Content
               /\ index' \in Index /\ used' \subseteq Id
    <3>1. ASSUME NEW S \in SUBSET used, NEW o \in Arrangement(S) PROVE o \in Seq(Id)
      <4>1. S \in SUBSET Id
        OBVIOUS
      <4> QED
        BY <4>1, ArrangementType
    <3>2. index' \in Index
      BY <2>3, <3>1, Values DEF ChangeIndex
    <3> QED
      BY <2>3, <3>2 DEF ChangeIndex
  <2>4. ASSUME ShareTmp
        PROVE  /\ file' \in [Name -> Content] /\ tmp' \in Content
               /\ index' \in Index /\ used' \subseteq Id
    <3>1. job.id \in Id \cup {0}
      BY DEF Job
    <3>2. \A i \in Id \cup {0}, stamp \in 1 .. clock : [id |-> i, stamp |-> stamp] \in Content
      BY DEF Content
    <3>3. {Missing, Cut} \cup [id : {job.id}, stamp : 1 .. clock] \subseteq Content
      BY <3>1, <3>2, Values
    <3> QED
      BY <2>4, <3>3, Values DEF ShareTmp
  <2> QED
    BY <1>13, <2>1, <2>2, <2>3, <2>4 DEF Others, memory
<1>14. CASE UNCHANGED vars
  BY <1>14 DEF vars
<1> QED
  BY <1>1, <1>2, <1>3, <1>4, <1>5, <1>6, <1>7, <1>8, <1>9, <1>10, <1>11, <1>12, <1>13, <1>14
     DEF Next, Manager

\* Memory, files, index and handler keep their types.
THEOREM TypeCorrect == Spec => []TypeOK
BY TypeInit, TypeStep, PTL DEF Spec

------------------------------------------------------------------------------
\* The temporary file

\* It is of the mission that is being saved, and of this session as long as
\* nobody else wrote.
OwnTmp ==
  /\ job.step # "replace" => tmp = Missing
  /\ tmp.id \in {0, job.id}
  /\ (clean /\ job.step = "replace") => tmp = Mine

\* Every step keeps it so.
LEMMA TmpStep == TypeOK /\ OwnTmp /\ [Next]_vars => OwnTmp'
<1> SUFFICES ASSUME TypeOK, OwnTmp, [Next]_vars PROVE OwnTmp'
  OBVIOUS
<1>1. Missing.id = 0 /\ Cut.id = 0 /\ Mine.id = job.id
  BY DEF Missing, Cut, Mine
<1>2. ASSUME job.step # "replace", job'.step # "replace", UNCHANGED tmp PROVE OwnTmp'
  BY <1>1, <1>2 DEF OwnTmp
<1>3. ASSUME job'.step # "replace", tmp' = Missing PROVE OwnTmp'
  BY <1>1, <1>3 DEF OwnTmp
<1>4. CASE Reload \/ New \/ Rearrange \/ HandlerRaises \/ Unlink \/ UnlinkFails
             \/ TruncateIndex \/ WriteIndex \/ IndexFails
  BY <1>2, <1>4 DEF Reload, New, Create, SaveMission, Rearrange, HandlerRaises, Unlink,
     UnlinkFails, TruncateIndex, WriteIndex, IndexFails, SaveIndex, Ready, Idle, disk
<1>5. ASSUME NEW i \in Id, \/ Duplicate(i) \/ Update(i) \/ Delete(i)
                           \/ \E stamp \in 1 .. clock : Import(i, stamp)
      PROVE  OwnTmp'
  BY <1>2, <1>5 DEF Duplicate, Update, Delete, Import, Create, SaveMission, Ready, Idle, disk
<1>6. CASE ReplaceMission \/ SaveFails \/ Crash
  BY <1>3, <1>6 DEF ReplaceMission, SaveFails, Crash, SaveIndex, Idle
<1>7. CASE StageMission
  <2>1. tmp' = Mine /\ job'.id = job.id /\ job'.step = "replace" /\ missions' = missions
    BY <1>7 DEF StageMission, memory
  <2>2. Mine' = Mine
    BY <2>1 DEF Mine
  <2> QED
    BY <1>1, <2>1, <2>2 DEF OwnTmp
<1>8. CASE Others
  <2>1. UNCHANGED job /\ ~ clean'
    BY <1>8 DEF Others
  <2>2. CASE UNCHANGED tmp
    BY <2>1, <2>2 DEF OwnTmp
  <2>3. CASE ShareTmp
    BY <1>1, <2>1, <2>3 DEF ShareTmp, OwnTmp
  <2> QED
    BY <1>8, <2>2, <2>3 DEF Others, PutFile, BreakFile, RemoveFile, ChangeIndex
<1>9. CASE UNCHANGED vars
  BY <1>9 DEF vars, OwnTmp, Mine
<1> QED
  BY <1>4, <1>5, <1>6, <1>7, <1>8, <1>9 DEF Next, Manager

\* There is none before the first load.
LEMMA TmpInit == Init => OwnTmp
BY DEF Init, OwnTmp, Idle, Missing

------------------------------------------------------------------------------
\* The list

\* A mission that is created is listed once more.
LEMMA CreateLists ==
  ASSUME TypeOK, ListedOnce, NEW i \in Id, i \notin Registered, NEW stamp \in 1 .. MaxClock,
         Create(i, stamp)
  PROVE  ListedOnce'
<1>1. /\ order' \in Seq(Id) /\ Len(order') = Len(order) + 1
      /\ \A p \in DOMAIN order : p \in DOMAIN order' /\ order'[p] = order[p]
      /\ order'[Len(order) + 1] = i
  BY DEF TypeOK, Create
<1>2. Registered' = Registered \cup {i}
  BY DEF TypeOK, Create, Registered
<1>3. \A p \in DOMAIN order' : p \in DOMAIN order \/ p = Len(order) + 1
  BY <1>1
<1>4. Len(order) + 1 \in DOMAIN order' /\ Len(order) + 1 \notin DOMAIN order
  BY <1>1 DEF TypeOK
<1> QED
  BY <1>1, <1>2, <1>3, <1>4 DEF ListedOnce, ListsOnce

\* What list.remove leaves, entry by entry.
LEMMA WithoutEntry ==
  ASSUME NEW o \in Seq(Id), NEW p \in 1 .. Len(o)
  PROVE  /\ Without(o, p) \in Seq(Id) /\ Len(Without(o, p)) = Len(o) - 1
         /\ \A q \in 1 .. p - 1 : Without(o, p)[q] = o[q]
         /\ \A q \in p .. Len(o) - 1 : Without(o, p)[q] = o[q + 1]
<1> DEFINE head == SubSeq(o, 1, p - 1)
           tail == SubSeq(o, p + 1, Len(o))
<1>1. head \in Seq(Id) /\ Len(head) = p - 1 /\ \A q \in 1 .. p - 1 : head[q] = o[q]
  OBVIOUS
<1>2. tail \in Seq(Id) /\ Len(tail) = Len(o) - p /\ \A q \in 1 .. Len(o) - p : tail[q] = o[p + q]
  OBVIOUS
<1>3. Without(o, p) = head \o tail
  BY DEF Without
<1> HIDE DEF head, tail
<1>4. Without(o, p) \in Seq(Id) /\ Len(Without(o, p)) = Len(o) - 1
  BY <1>1, <1>2, <1>3
<1>5. \A q \in 1 .. p - 1 : Without(o, p)[q] = o[q]
  BY <1>1, <1>2, <1>3
<1>6. ASSUME NEW q \in p .. Len(o) - 1 PROVE Without(o, p)[q] = o[q + 1]
  <2>1. Without(o, p)[q] = tail[q - (p - 1)]
    BY <1>1, <1>2, <1>3
  <2>2. q - (p - 1) \in 1 .. Len(o) - p /\ p + (q - (p - 1)) = q + 1
    OBVIOUS
  <2> QED
    BY <2>1, <2>2, <1>2
<1> QED
  BY <1>4, <1>5, <1>6

\* A mission that is deleted is listed no more, and the others still once.
LEMMA DeleteLists ==
  ASSUME TypeOK, ListedOnce, NEW i \in Id, Delete(i)
  PROVE  ListedOnce'
<1>1. PICK p \in DOMAIN order : order[p] = i /\ order' = Without(order, p)
  BY DEF Delete
<1>2. p \in 1 .. Len(order) /\ Len(order) \in Nat /\ order \in Seq(Id)
  BY <1>1 DEF TypeOK
<1>5. /\ order' \in Seq(Id) /\ Len(order') = Len(order) - 1
      /\ \A q \in 1 .. p - 1 : order'[q] = order[q]
      /\ \A q \in p .. Len(order) - 1 : order'[q] = order[q + 1]
  BY <1>1, <1>2, WithoutEntry
<1>6. Registered' = Registered \ {i}
  BY DEF Delete, Registered, TypeOK
<1>7. \A q \in DOMAIN order : q # p =>
        \E r \in DOMAIN order' : order'[r] = order[q]
  <2>1. ASSUME NEW q \in DOMAIN order, q < p PROVE q \in DOMAIN order' /\ order'[q] = order[q]
    BY <2>1, <1>2, <1>5
  <2>2. ASSUME NEW q \in DOMAIN order, q > p PROVE q - 1 \in DOMAIN order' /\ order'[q - 1] = order[q]
    BY <2>2, <1>2, <1>5
  <2> QED
    BY <2>1, <2>2, <1>2
<1>8. \A r \in DOMAIN order' : \/ r < p /\ r \in DOMAIN order /\ order'[r] = order[r]
                               \/ r >= p /\ r + 1 \in DOMAIN order /\ order'[r] = order[r + 1]
  <2>1. DOMAIN order = 1 .. Len(order) /\ DOMAIN order' = 1 .. Len(order) - 1
    BY <1>2, <1>5
  <2> QED
    BY <2>1, <1>2, <1>5
<1>9. \A j \in Registered' : \E r \in DOMAIN order' : order'[r] = j
  BY <1>1, <1>6, <1>7 DEF ListedOnce, ListsOnce
<1>10. \A r \in DOMAIN order' : order'[r] \in Registered'
  BY <1>1, <1>2, <1>6, <1>8 DEF ListedOnce, ListsOnce
<1>11. \A r, q \in DOMAIN order' : order'[r] = order'[q] => r = q
  BY <1>2, <1>5, <1>8 DEF ListedOnce, ListsOnce
<1> QED
  BY <1>9, <1>10, <1>11 DEF ListedOnce, ListsOnce

\* Ids given out are remembered, so a fresh one is new to memory and disk.
KnownIds ==
  /\ Registered \subseteq used
  /\ \A n \in Name : file[n].id \in used \cup {0}
  /\ job.id \in used \cup {0}

\* No step forgets an id that memory or a file uses.
LEMMA KnownStep == TypeOK /\ OwnTmp /\ KnownIds /\ [Next]_vars => KnownIds'
<1> SUFFICES ASSUME TypeOK, OwnTmp, KnownIds, [Next]_vars PROVE KnownIds'
  OBVIOUS
<1> USE DEF TypeOK, KnownIds
<1>1. CASE Reload
  <2>1. \A i \in Id : Loaded[i] # 0 => Holders(i) # {}
    BY LoadsLatest DEF Latest
  <2>2. \A i \in Id : Loaded[i] # 0 => i \in used
    BY <2>1, Constants DEF Holders
  <2>3. Registered' \subseteq used
    BY <1>1, <2>2 DEF Reload, Registered
  <2> QED
    BY <1>1, <2>3 DEF Reload, disk
<1>2. ASSUME NEW i \in Id, NEW stamp \in 0 .. MaxClock, Create(i, stamp), UNCHANGED disk
      PROVE  KnownIds'
  <2>1. Registered' \subseteq Registered \cup {i} /\ used' = used \cup {i} /\ job'.id = i
    BY <1>2 DEF Create, Registered, SaveMission
  <2> QED
    BY <1>2, <2>1 DEF disk
<1>3. CASE New
  <2>1. clock' \in 0 .. MaxClock /\ UNCHANGED disk
    BY <1>3, Constants DEF New
  <2> QED
    BY <1>2, <1>3, <2>1 DEF New
<1>4. ASSUME NEW i \in Id, Duplicate(i) PROVE KnownIds'
  BY <1>2, <1>4 DEF Duplicate
<1>5. ASSUME NEW i \in Id, NEW stamp \in 1 .. clock, Import(i, stamp) PROVE KnownIds'
  <2>1. stamp \in 0 .. MaxClock
    BY Constants
  <2> QED
    BY <1>2, <1>5, <2>1 DEF Import
<1>6. ASSUME NEW i \in Id, Update(i) \/ Delete(i) PROVE KnownIds'
  <2>1. Registered' \subseteq Registered /\ i \in Registered /\ job'.id = i
    BY <1>6 DEF Update, Delete, SaveMission, Registered
  <2> QED
    BY <1>6, <2>1 DEF Update, Delete, disk
<1>7. CASE Rearrange \/ StageMission \/ SaveFails \/ HandlerRaises \/ UnlinkFails
             \/ TruncateIndex \/ WriteIndex \/ IndexFails
  <2>1. job'.id \in {job.id, 0} /\ UNCHANGED <<missions, file, used>>
    BY <1>7 DEF Rearrange, StageMission, SaveFails, HandlerRaises, UnlinkFails, TruncateIndex,
         WriteIndex, IndexFails, SaveIndex, Idle, memory, disk
  <2> QED
    BY <2>1 DEF Registered
<1>8. CASE ReplaceMission \/ Unlink
  <2>1. job'.id = 0 /\ UNCHANGED <<missions, used>>
    BY <1>8 DEF ReplaceMission, Unlink, SaveIndex, memory
  <2>2. \A n \in Name : file'[n].id \in {file[n].id, job.id, 0}
    BY <1>8 DEF ReplaceMission, Unlink, Missing, OwnTmp
  <2> QED
    BY <2>1, <2>2 DEF Registered
<1>9. CASE Crash
  BY <1>9, Constants DEF Crash, Registered, Forgotten, Idle, disk
<1>10. CASE Others
  <2>1. used \subseteq used' /\ \A n \in Name : file'[n].id \in used' \cup {0}
    <3>1. ASSUME NEW n \in Name, NEW i \in Id, NEW stamp \in 1 .. clock, PutFile(n, i, stamp)
          PROVE  used \subseteq used' /\ \A m \in Name : file'[m].id \in used' \cup {0}
      BY <3>1 DEF PutFile
    <3>2. ASSUME NEW n \in Name, BreakFile(n) \/ RemoveFile(n)
          PROVE  used \subseteq used' /\ \A m \in Name : file'[m].id \in used' \cup {0}
      <4>1. \A m \in Name : file'[m] \in {file[m], Cut, Missing}
        BY <3>2 DEF BreakFile, RemoveFile
      <4>2. Cut.id = 0 /\ Missing.id = 0
        BY DEF Cut, Missing
      <4> QED
        BY <3>2, <4>1, <4>2 DEF BreakFile, RemoveFile
    <3>3. ASSUME ShareTmp
          PROVE  used \subseteq used' /\ \A m \in Name : file'[m].id \in used' \cup {0}
      BY <3>3 DEF ShareTmp, OwnTmp
    <3> QED
      BY <1>10, <3>1, <3>2, <3>3 DEF Others, ChangeIndex
  <2>2. UNCHANGED <<missions, job>>
    BY <1>10 DEF Others, memory
  <2> QED
    BY <2>1, <2>2 DEF Registered
<1>11. CASE UNCHANGED vars
  BY <1>11 DEF vars, Registered
<1> QED
  BY <1>1, <1>3, <1>4, <1>5, <1>6, <1>7, <1>8, <1>9, <1>10, <1>11 DEF Next, Manager

\* Every step keeps the list in agreement with the missions.
LEMMA ListStep == TypeOK /\ KnownIds /\ ListedOnce /\ [Next]_vars => ListedOnce'
<1> SUFFICES ASSUME TypeOK, KnownIds, ListedOnce, [Next]_vars PROVE ListedOnce'
  OBVIOUS
<1>1. CASE Reload
  <2>1. {i \in Id : Loaded[i] # 0} = Registered'
    BY <1>1 DEF Reload, Registered
  <2>2. order' \in Arrangement(Registered')
    BY <1>1, <2>1 DEF Reload
  <2> QED
    BY <2>2 DEF Arrangement, ListedOnce
<1>2. CASE New
  <2>1. clock' \in 1 .. MaxClock
    BY <1>2, Constants DEF New, TypeOK
  <2>2. PICK i \in Id \ used : Create(i, clock')
    BY <1>2 DEF New
  <2>3. i \notin Registered
    BY <2>2 DEF KnownIds
  <2> QED
    BY <2>1, <2>2, <2>3, CreateLists
<1>3. ASSUME NEW source \in Id, Duplicate(source) PROVE ListedOnce'
  <2>1. missions[source] \in 1 .. MaxClock
    BY <1>3 DEF Duplicate, Registered, TypeOK
  <2>2. PICK i \in Id \ used : Create(i, missions[source])
    BY <1>3 DEF Duplicate
  <2>3. i \notin Registered
    BY <2>2 DEF KnownIds
  <2> QED
    BY <2>1, <2>2, <2>3, CreateLists
<1>4. ASSUME NEW i \in Id, NEW stamp \in 1 .. clock, Import(i, stamp) PROVE ListedOnce'
  <2>1. PICK mine \in Id : ImportedId(i, mine) /\ Create(mine, stamp)
    BY <1>4 DEF Import
  <2>2. mine \notin Registered
    BY <2>1 DEF ImportedId, KnownIds
  <2>3. stamp \in 1 .. MaxClock
    BY Constants DEF TypeOK
  <2> QED
    BY <2>1, <2>2, <2>3, CreateLists
<1>5. ASSUME NEW i \in Id, Update(i) PROVE ListedOnce'
  <2>1. clock' # 0
    BY <1>5 DEF Update, TypeOK
  <2>2. Registered' = Registered /\ order' = order
    BY <1>5, <2>1 DEF Update, Registered, TypeOK
  <2> QED
    BY <2>2 DEF ListedOnce, ListsOnce
<1>6. ASSUME NEW i \in Id, Delete(i) PROVE ListedOnce'
  BY <1>6, DeleteLists
<1>7. CASE Rearrange
  <2>1. Registered' = Registered
    BY <1>7 DEF Rearrange, Registered
  <2> QED
    BY <1>7, <2>1 DEF Rearrange, Arrangement, ListedOnce
<1>8. CASE Crash
  BY <1>8 DEF Crash, Registered, Forgotten, ListedOnce, ListsOnce
<1>9. CASE UNCHANGED <<missions, order>>
  BY <1>9 DEF Registered, ListedOnce, ListsOnce
<1>10. CASE StageMission \/ ReplaceMission \/ SaveFails \/ HandlerRaises \/ Unlink \/ UnlinkFails
              \/ TruncateIndex \/ WriteIndex \/ IndexFails \/ Others
  BY <1>10, <1>9 DEF StageMission, ReplaceMission, SaveFails, HandlerRaises, Unlink, UnlinkFails,
       TruncateIndex, WriteIndex, IndexFails, Others, memory
<1> QED
  BY <1>1, <1>2, <1>3, <1>4, <1>5, <1>6, <1>7, <1>8, <1>9, <1>10 DEF Next, Manager, vars

\* list_all shows every registered mission once, also after imports, duplicates
\* and loads of a directory others wrote to.
THEOREM ListShowsAll == Spec => []ListedOnce
<1>1. Init => KnownIds /\ ListedOnce
  BY DEF Init, KnownIds, ListedOnce, ListsOnce, Registered, Forgotten, Idle, Missing
<1> QED
  BY <1>1, TypeInit, TypeStep, TmpInit, TmpStep, KnownStep, ListStep, PTL DEF Spec

------------------------------------------------------------------------------
\* The files

\* A file named after an id holds that mission or nothing that can be read.
OwnNames == \A n \in Id : file[n].id \in {0, n}

\* A mission whose file is about to be unlinked is forgotten already.
Doomed == job.step = "unlink" => missions[job.id] = 0

\* A mission whose files stay as they are keeps its stored version.
LEMMA SameVersion ==
  ASSUME Latest, Latest', NEW i \in Id, Holders(i)' = Holders(i),
         \A n \in Holders(i) : file'[n].stamp = file[n].stamp
  PROVE  Loaded'[i] = Loaded[i]
<1>1. CASE Holders(i) = {}
  BY <1>1 DEF Latest
<1>2. CASE Holders(i) # {}
  <2>1. PICK n \in Holders(i) : Loaded[i] = file[n].stamp
    BY <1>2 DEF Latest
  <2>2. PICK m \in Holders(i) : Loaded'[i] = file[m].stamp
    BY <1>2 DEF Latest
  <2>3. file[m].stamp <= Loaded[i] /\ file[n].stamp <= Loaded'[i]
    BY DEF Latest
  <2>4. Loaded[i] \in Nat /\ Loaded'[i] \in Nat
    BY Constants DEF Latest
  <2> QED
    BY <2>1, <2>2, <2>3, <2>4
<1> QED
  BY <1>1, <1>2

\* So does every mission, when no file changes.
LEMMA SameFiles ==
  ASSUME TypeOK, UNCHANGED file
  PROVE  \A i \in Id : Loaded'[i] = Loaded[i]
<1>1. Latest /\ Latest'
  BY LoadsLatest, LoadsLatestNext DEF TypeOK
<1>2. ASSUME NEW i \in Id PROVE Loaded'[i] = Loaded[i]
  <2>1. Holders(i)' = Holders(i)
    BY DEF Holders
  <2> QED
    BY <1>1, <2>1, SameVersion
<1> QED
  BY <1>2

\* A handler that changes the file of one mission leaves the others alone.
LEMMA OtherVersions ==
  ASSUME TypeOK, TypeOK', OwnNames, NEW k \in Id, NEW c \in Content, c.id \in {0, k},
         file' = [file EXCEPT ![k] = c]
  PROVE  \A i \in Id \ {k} : Loaded'[i] = Loaded[i]
<1>1. Latest /\ Latest'
  BY LoadsLatest, LoadsLatestNext DEF TypeOK
<1>2. ASSUME NEW i \in Id \ {k} PROVE Loaded'[i] = Loaded[i]
  <2>1. k \in Name /\ file[k].id \in {0, k} /\ i # 0
    BY Constants DEF Name, OwnNames
  <2>2. \A n \in Name : (n # k => file'[n] = file[n]) /\ file'[k] = c
    BY <2>1 DEF TypeOK
  <2>3. \A n \in Name : file'[n].id = i <=> file[n].id = i
    BY <2>1, <2>2
  <2>4. Holders(i)' = Holders(i)
    BY <2>3 DEF Holders
  <2>5. \A n \in Holders(i) : file'[n].stamp = file[n].stamp
    BY <2>1, <2>2 DEF Holders
  <2> QED
    BY <1>1, <2>4, <2>5, SameVersion
<1> QED
  BY <1>2

\* What the replacing of a mission's file does to its stored version.
LEMMA ReplacedVersion ==
  ASSUME TypeOK, TypeOK', OwnNames, NEW k \in Id, missions[k] \in 0 .. MaxClock,
         file' = [file EXCEPT ![k] = [id |-> k, stamp |-> missions[k]]]
  PROVE  /\ missions[k] <= Loaded'[k]
         /\ Loaded'[k] # missions[k] => Loaded'[k] <= Loaded[k]
         /\ NamedById => Loaded'[k] = missions[k]
<1>1. Latest /\ Latest'
  BY LoadsLatest, LoadsLatestNext DEF TypeOK
<1>2. k \in Name /\ \A n \in Name : n # k => file'[n] = file[n]
  BY DEF TypeOK, Name
<1>3. file'[k].id = k /\ file'[k].stamp = missions[k]
  BY <1>2 DEF TypeOK
<1>4. k \in Holders(k)'
  BY <1>2, <1>3 DEF Holders
<1>5. missions[k] <= Loaded'[k]
  BY <1>1, <1>3, <1>4 DEF Latest
<1>6. PICK n \in Holders(k)' : Loaded'[k] = file'[n].stamp
  BY <1>1, <1>4 DEF Latest
<1>7. n \in Name /\ file'[n].id = k
  BY <1>6 DEF Holders
<1>8. ASSUME Loaded'[k] # missions[k] PROVE Loaded'[k] <= Loaded[k]
  <2>1. n # k
    BY <1>3, <1>6, <1>8
  <2>2. n \in Holders(k) /\ Loaded'[k] = file[n].stamp
    BY <1>2, <1>6, <1>7, <2>1 DEF Holders
  <2> QED
    BY <1>1, <2>2 DEF Latest
<1>9. ASSUME NamedById PROVE Loaded'[k] = missions[k]
  <2>1. n = k
    BY <1>2, <1>7, <1>9, Constants DEF NamedById
  <2> QED
    BY <1>3, <1>6, <2>1
<1> QED
  BY <1>5, <1>8, <1>9

\* What the unlinking of a mission's file does to its stored version.
LEMMA UnlinkedVersion ==
  ASSUME TypeOK, TypeOK', NEW k \in Id, file' = [file EXCEPT ![k] = Missing]
  PROVE  /\ Loaded'[k] <= Loaded[k]
         /\ NamedById => Loaded'[k] = 0
<1>1. Latest /\ Latest' /\ Loaded[k] \in Nat /\ Loaded'[k] \in Nat
  <2>1. Latest /\ Latest'
    BY LoadsLatest, LoadsLatestNext DEF TypeOK
  <2> QED
    BY <2>1, Constants DEF Latest
<1>2. k \in Name /\ k # 0 /\ \A n \in Name : n # k => file'[n] = file[n]
  BY Constants DEF TypeOK, Name
<1>3. file'[k].id = 0
  BY <1>2 DEF TypeOK, Missing
<1>4. \A n \in Holders(k)' : n # k /\ n \in Holders(k) /\ file'[n] = file[n]
  BY <1>2, <1>3 DEF Holders
<1>5. CASE Holders(k)' = {}
  BY <1>1, <1>5 DEF Latest
<1>6. CASE Holders(k)' # {}
  <2>1. PICK n \in Holders(k)' : Loaded'[k] = file'[n].stamp
    BY <1>1, <1>6 DEF Latest
  <2>2. n # k /\ n \in Holders(k) /\ Loaded'[k] = file[n].stamp
    BY <1>4, <2>1
  <2>3. ~ NamedById
    BY <1>2, <2>2 DEF NamedById, Holders
  <2> QED
    BY <1>1, <2>2, <2>3 DEF Latest
<1> QED
  BY <1>5, <1>6

\* Every step keeps files named after their ids, and the doomed forgotten.
LEMMA NamesStep == TypeOK /\ OwnTmp /\ OwnNames /\ Doomed /\ [Next]_vars => OwnNames' /\ Doomed'
<1> SUFFICES ASSUME TypeOK, OwnTmp, OwnNames, Doomed, [Next]_vars PROVE OwnNames' /\ Doomed'
  OBVIOUS
<1>1. ASSUME UNCHANGED <<file, missions, job>> PROVE OwnNames' /\ Doomed'
  BY <1>1 DEF OwnNames, Doomed
<1>2. ASSUME UNCHANGED file, job'.step # "unlink" PROVE OwnNames' /\ Doomed'
  BY <1>2 DEF OwnNames, Doomed
<1>3. CASE Reload \/ New \/ Rearrange \/ StageMission \/ SaveFails \/ HandlerRaises \/ UnlinkFails
             \/ TruncateIndex \/ WriteIndex \/ IndexFails \/ Crash
  BY <1>2, <1>3 DEF Reload, New, Create, SaveMission, Rearrange, StageMission, SaveFails, Idle,
       HandlerRaises, UnlinkFails, TruncateIndex, WriteIndex, IndexFails, Crash, SaveIndex, disk
<1>4. ASSUME NEW i \in Id, Duplicate(i) \/ Update(i) \/ \E stamp \in 1 .. clock : Import(i, stamp)
      PROVE  OwnNames' /\ Doomed'
  BY <1>2, <1>4 DEF Duplicate, Update, Import, Create, SaveMission, disk
<1>5. ASSUME NEW i \in Id, Delete(i) PROVE OwnNames' /\ Doomed'
  <2>1. UNCHANGED file /\ job'.id = i /\ missions'[i] = 0
    BY <1>5 DEF Delete, disk, TypeOK
  <2> QED
    BY <2>1 DEF OwnNames, Doomed
<1>6. CASE ReplaceMission \/ Unlink
  <2>1. job.id \in Id /\ job'.step # "unlink"
    BY <1>6, StepHasMission DEF ReplaceMission, Unlink, SaveIndex, TypeOK
  <2>2. file'[job.id].id \in {0, job.id} /\ \A n \in Name : n # job.id => file'[n] = file[n]
    BY <1>6, <2>1 DEF ReplaceMission, Unlink, TypeOK, Name, Missing, OwnTmp
  <2> QED
    BY <2>1, <2>2 DEF OwnNames, Doomed, Name
<1>7. CASE Others
  <2>1. Doomed'
    BY <1>7 DEF Others, memory, Doomed
  <2>2. ASSUME NEW n \in Name, NEW i \in Id, NEW stamp \in 1 .. clock, PutFile(n, i, stamp)
        PROVE  OwnNames'
    <3>1. n \in Id => file'[n].id = n
      BY <2>2 DEF PutFile, TypeOK
    <3>2. \A m \in Name : m # n => file'[m] = file[m]
      BY <2>2 DEF PutFile, TypeOK
    <3> QED
      BY <3>1, <3>2 DEF OwnNames, Name
  <2>3. ASSUME NEW n \in Name, BreakFile(n) \/ RemoveFile(n) PROVE OwnNames'
    <3>1. \A m \in Name : file'[m] \in {file[m], Cut, Missing}
      BY <2>3 DEF BreakFile, RemoveFile, TypeOK
    <3>2. Cut.id = 0 /\ Missing.id = 0
      BY DEF Cut, Missing
    <3> QED
      BY <3>1, <3>2 DEF OwnNames, Name
  <2>4. ChangeIndex => OwnNames'
    BY DEF ChangeIndex, OwnNames
  <2>5. ASSUME ShareTmp PROVE OwnNames'
    <3>1. \A m \in Name : file'[m] = file[m] \/ (m = job.id /\ file'[m] = tmp)
      BY <2>5 DEF ShareTmp, TypeOK
    <3> QED
      BY <3>1 DEF OwnNames, OwnTmp, Name
  <2> QED
    BY <1>7, <2>1, <2>2, <2>3, <2>4, <2>5 DEF Others
<1>8. CASE UNCHANGED vars
  BY <1>1, <1>8 DEF vars
<1> QED
  BY <1>3, <1>4, <1>5, <1>6, <1>7, <1>8 DEF Next, Manager

\* What each step of the manager does to the stored versions.
LEMMA StoredStep ==
  TypeOK /\ TypeOK' /\ OwnTmp /\ OwnNames /\ Doomed /\ Manager => StoredSafely
<1> SUFFICES ASSUME TypeOK, TypeOK', OwnTmp, OwnNames, Doomed, Manager PROVE StoredSafely
  OBVIOUS
<1>1. CASE ReplaceMission
  <2>1. PICK k \in Id : k = job.id
    BY <1>1, StepHasMission DEF ReplaceMission, TypeOK
  <2>2. /\ missions[k] \in 0 .. MaxClock /\ job.step = "replace"
        /\ tmp \in Content /\ tmp.id \in {0, k} /\ file' = [file EXCEPT ![k] = tmp]
    BY <1>1, <2>1 DEF ReplaceMission, TypeOK, OwnTmp
  <2>3. \A i \in Id \ {k} : Loaded'[i] = Loaded[i]
    BY <2>2, OtherVersions
  <2>4. ASSUME tmp = Mine
        PROVE  /\ missions[k] <= Loaded'[k]
               /\ Loaded'[k] # missions[k] => Loaded'[k] <= Loaded[k]
    <3>1. file' = [file EXCEPT ![k] = [id |-> k, stamp |-> missions[k]]]
      BY <2>1, <2>2, <2>4 DEF Mine
    <3> QED
      BY <2>2, <3>1, ReplacedVersion
  <2>5. Loaded[k] \in Nat /\ Loaded'[k] \in Nat
    BY LoadsLatest, LoadsLatestNext, Constants DEF TypeOK, Latest
  <2> QED
    BY <2>1, <2>2, <2>3, <2>4, <2>5 DEF StoredSafely
<1>2. CASE Unlink
  <2>1. PICK k \in Id : k = job.id
    BY <1>2, StepHasMission DEF Unlink, TypeOK
  <2>2. missions[k] = 0 /\ file' = [file EXCEPT ![k] = Missing]
    BY <1>2, <2>1 DEF Unlink, Doomed
  <2>3. \A i \in Id \ {k} : Loaded'[i] = Loaded[i]
    BY <2>2, Values, OtherVersions DEF Missing
  <2>4. Loaded'[k] <= Loaded[k]
    BY <2>2, UnlinkedVersion
  <2>5. Loaded[k] \in Nat /\ Loaded'[k] \in Nat
    BY LoadsLatest, LoadsLatestNext, Constants DEF TypeOK, Latest
  <2> QED
    BY <2>1, <2>2, <2>3, <2>4, <2>5 DEF StoredSafely
<1>3. CASE UNCHANGED file
  BY <1>3, SameFiles DEF StoredSafely
<1> QED
  BY <1>1, <1>2, <1>3 DEF Manager, Reload, New, Duplicate, Update, Delete, Import, Rearrange,
     StageMission, SaveFails, HandlerRaises, UnlinkFails, TruncateIndex, WriteIndex, IndexFails,
     Crash, disk

\* No handler, no failing write and no crash touches the stored version of a
\* mission but the one the handler saves or deletes; of that one it publishes
\* memory's version unless another session wrote into the temporary file.
THEOREM HandlersStoreSafely == Spec => OneVersionAtATime
<1>1. Init => OwnNames /\ Doomed
  BY DEF Init, OwnNames, Doomed, Idle, Missing, Name
<1>2. TypeOK /\ TypeOK' /\ OwnTmp /\ OwnNames /\ Doomed => [Manager => StoredSafely]_vars
  BY StoredStep
<1> QED
  BY <1>1, <1>2, TypeInit, TypeStep, TmpInit, TmpStep, NamesStep, PTL DEF Spec, OneVersionAtATime

------------------------------------------------------------------------------
\* Restarts

\* As long as nothing fails and nobody else writes, what is stored is what is
\* in memory, except for the mission a handler is about.
Kept ==
  (open /\ clean) =>
    /\ \A i \in Id : job.id = i \/ Loaded[i] >= missions[i]
    /\ NamedById => \A i \in Id : job.id = i \/ Loaded[i] = missions[i]

\* create changes memory only, and only the mission it saves next.
LEMMA CreateKeeps ==
  ASSUME TypeOK, Kept, job = Idle, NEW i \in Id, NEW stamp, Create(i, stamp),
         UNCHANGED <<open, file, clean>>
  PROVE  Kept'
<1>1. \A j \in Id : Loaded'[j] = Loaded[j]
  BY SameFiles
<1>2. job'.id = i /\ job.id = 0 /\ \A j \in Id : j # i => missions'[j] = missions[j]
  BY DEF Create, SaveMission, Idle, TypeOK
<1>3. NamedById' <=> NamedById
  BY DEF NamedById
<1> QED
  BY <1>1, <1>2, <1>3, Constants DEF Kept

\* Every step that does not fail keeps disk and memory in agreement.
LEMMA KeptStep ==
  TypeOK /\ TypeOK' /\ OwnTmp /\ OwnNames /\ Doomed /\ Kept /\ [Next]_vars => Kept'
<1> SUFFICES ASSUME TypeOK, TypeOK', OwnTmp, OwnNames, Doomed, Kept, [Next]_vars PROVE Kept'
  OBVIOUS
<1>1. ASSUME ~ clean' \/ ~ open' PROVE Kept'
  BY <1>1 DEF Kept
<1>2. \A i \in Id : /\ Loaded[i] \in Nat /\ Loaded'[i] \in Nat
                    /\ missions[i] \in Nat /\ missions'[i] \in Nat
  BY LoadsLatest, LoadsLatestNext, Constants DEF TypeOK, Latest
<1>3. CASE Reload
  <2>1. \A i \in Id : Loaded'[i] = Loaded[i]
    BY <1>3, SameFiles DEF Reload, disk
  <2> QED
    BY <1>2, <1>3, <2>1 DEF Reload, Kept
<1>4. CASE New
  <2>1. PICK i \in Id : Create(i, clock')
    BY <1>4 DEF New
  <2> QED
    BY <1>4, <2>1, CreateKeeps DEF New, Ready, disk
<1>5. ASSUME NEW source \in Id, Duplicate(source) PROVE Kept'
  <2>1. PICK i \in Id : Create(i, missions[source])
    BY <1>5 DEF Duplicate
  <2> QED
    BY <1>5, <2>1, CreateKeeps DEF Duplicate, Ready, disk
<1>6. ASSUME NEW i \in Id, NEW stamp \in 1 .. clock, Import(i, stamp) PROVE Kept'
  <2>1. PICK mine \in Id : Create(mine, stamp)
    BY <1>6 DEF Import
  <2> QED
    BY <1>6, <2>1, CreateKeeps DEF Import, Ready, disk
<1>7. ASSUME NEW i \in Id, Update(i) \/ Delete(i) PROVE Kept'
  <2>1. UNCHANGED <<file, open, clean>> /\ job.id = 0 /\ job'.id = i
    BY <1>7 DEF Update, Delete, Ready, Idle, SaveMission, disk
  <2>2. \A j \in Id : Loaded'[j] = Loaded[j] /\ (j # i => missions'[j] = missions[j])
    BY <1>7, <2>1, SameFiles DEF Update, Delete, TypeOK
  <2>3. NamedById' <=> NamedById
    BY <2>1 DEF NamedById
  <2> QED
    BY <2>1, <2>2, <2>3, Constants DEF Kept
<1>8. ASSUME UNCHANGED <<missions, file, open, clean>>, job'.id = job.id \/ job.id = 0 PROVE Kept'
  <2>1. \A j \in Id : Loaded'[j] = Loaded[j]
    BY <1>8, SameFiles
  <2>2. NamedById' <=> NamedById
    BY <1>8 DEF NamedById
  <2> QED
    BY <1>8, <2>1, <2>2, Constants DEF Kept
<1>9. CASE Rearrange \/ StageMission \/ TruncateIndex \/ WriteIndex
  <2>1. UNCHANGED <<missions, file, open, clean>>
    BY <1>9 DEF Rearrange, StageMission, TruncateIndex, WriteIndex, memory, disk
  <2>2. job'.id = job.id \/ job.id = 0
    BY <1>9 DEF Rearrange, StageMission, TruncateIndex, WriteIndex, Ready, Idle, Job, TypeOK
  <2> QED
    BY <1>8, <2>1, <2>2
<1>10. CASE SaveFails \/ HandlerRaises \/ UnlinkFails \/ IndexFails \/ Crash \/ Others
  BY <1>1, <1>10 DEF SaveFails, HandlerRaises, UnlinkFails, IndexFails, Crash, Others
<1>11. CASE ReplaceMission
  <2>1. PICK k \in Id : k = job.id
    BY <1>11, StepHasMission DEF ReplaceMission, TypeOK
  <2> SUFFICES ASSUME clean PROVE Kept'
    BY <1>1, <1>11 DEF ReplaceMission
  <2>2. missions[k] \in 0 .. MaxClock /\ file' = [file EXCEPT ![k] = [id |-> k, stamp |-> missions[k]]]
    BY <1>11, <2>1 DEF ReplaceMission, TypeOK, OwnTmp, Mine
  <2>3. [id |-> k, stamp |-> missions[k]] \in Content
    BY <2>2, Values
  <2>4. \A i \in Id \ {k} : Loaded'[i] = Loaded[i]
    BY <2>2, <2>3, OtherVersions
  <2>5. missions[k] <= Loaded'[k]
    BY <2>2, ReplacedVersion
  <2>6. ASSUME NamedById' PROVE NamedById /\ Loaded'[k] = missions[k]
    <3>1. NamedById
      BY <2>2, <2>6 DEF NamedById, OwnNames, Name, TypeOK
    <3> QED
      BY <2>2, <3>1, ReplacedVersion
  <2>7. UNCHANGED <<missions, open, clean>>
    BY <1>11 DEF ReplaceMission, memory
  <2> QED
    BY <1>2, <2>1, <2>4, <2>5, <2>6, <2>7 DEF Kept
<1>12. CASE Unlink
  <2>1. PICK k \in Id : k = job.id
    BY <1>12, StepHasMission DEF Unlink, TypeOK
  <2>2. missions[k] = 0 /\ file' = [file EXCEPT ![k] = Missing]
    BY <1>12, <2>1 DEF Unlink, Doomed
  <2>3. \A i \in Id \ {k} : Loaded'[i] = Loaded[i]
    BY <2>2, Values, OtherVersions DEF Missing
  <2>4. ASSUME NamedById' PROVE NamedById /\ Loaded'[k] = 0
    <3>1. NamedById
      BY <2>2, <2>4 DEF NamedById, OwnNames, Name, TypeOK
    <3> QED
      BY <2>2, <3>1, UnlinkedVersion
  <2>5. UNCHANGED <<missions, open, clean>>
    BY <1>12 DEF Unlink, memory
  <2> QED
    BY <1>2, <2>1, <2>2, <2>3, <2>4, <2>5 DEF Kept
<1>13. CASE UNCHANGED vars
  BY <1>8, <1>13 DEF vars
<1> QED
  BY <1>3, <1>4, <1>5, <1>6, <1>7, <1>9, <1>10, <1>11, <1>12, <1>13 DEF Next, Manager

\* An undisturbed restart brings back the very versions in memory, when every
\* file is named after its mission.
THEOREM RestartLosesNothing == Spec => []RestartIsNoOp
<1>1. Init => OwnNames /\ Doomed /\ Kept
  BY DEF Init, OwnNames, Doomed, Kept, Idle, Missing, Name
<1>2. TypeOK /\ Kept => RestartIsNoOp
  <2> SUFFICES ASSUME TypeOK, Kept, Undisturbed, NamedById PROVE Loaded = missions
    BY DEF RestartIsNoOp
  <2>1. \A i \in Id : Loaded[i] = missions[i]
    BY Constants DEF Kept, Undisturbed, Idle
  <2>2. missions = [i \in Id |-> missions[i]] /\ Loaded = [i \in Id |-> Loaded[i]]
    BY DEF TypeOK, Loaded
  <2> QED
    BY <2>1, <2>2
<1> QED
  BY <1>1, <1>2, TypeInit, TypeStep, TmpInit, TmpStep, NamesStep, KeptStep, PTL DEF Spec

\* Where the index and the directory rank a mission.
Listing(i) == {p \in DOMAIN index.ids : index.ids[p] = i}

RankOf(i, r) ==
  /\ Listing(i) # {} => r \in Listing(i) /\ \A p \in Listing(i) : r <= p
  /\ Listing(i) = {} => \E n \in Holders(i) :
       r = Len(index.ids) + n /\ \A m \in Holders(i) : n <= m

\* A set of numbers that is not empty has a least one.
LEMMA LeastExists ==
  ASSUME NEW S \in SUBSET Nat, S # {}
  PROVE  \E s \in S : \A t \in S : s <= t
<1> DEFINE R == OpToRel(<, Nat)
<1>1. PICK s \in S : \A t \in S : <<t, s>> \notin R
  <2> HIDE DEF R
  <2> IsWellFoundedOn(R, Nat)
    BY NatLessThanWellFounded DEF R
  <2> QED
    BY WFMin
<1>2. \A t \in S : ~ (t < s)
  BY <1>1 DEF OpToRel
<1> QED
  BY <1>2

RanksRight == \A i \in Id : Holders(i) # {} => RankOf(i, Rank(i))

\* Rank is the place in the index, or else the place in the directory behind it.
LEMMA RankIsRank == TypeOK => RanksRight
<1> SUFFICES ASSUME TypeOK, NEW i \in Id, Holders(i) # {} PROVE RankOf(i, Rank(i))
  BY DEF RanksRight
<1>1. Listing(i) \in SUBSET Nat
  BY DEF Listing, TypeOK, Index
<1>2. Holders(i) \in SUBSET Nat
  BY MissionAssumption DEF Holders, MissionAssumption, Name
<1>3. CASE Listing(i) # {}
  <2>1. \E p \in Listing(i) : \A q \in Listing(i) : p <= q
    BY <1>1, <1>3, LeastExists
  <2>2. Rank(i) = CHOOSE p \in Listing(i) : \A q \in Listing(i) : p <= q
    BY <1>3 DEF Rank, Listing
  <2>3. Rank(i) \in Listing(i) /\ \A q \in Listing(i) : Rank(i) <= q
    BY <2>1, <2>2
  <2> QED
    BY <1>3, <2>3 DEF RankOf
<1>4. CASE Listing(i) = {}
  <2>1. \E n \in Holders(i) : \A m \in Holders(i) : n <= m
    BY <1>2, LeastExists
  <2>2. FirstHolder(i) \in Holders(i) /\ \A m \in Holders(i) : FirstHolder(i) <= m
    BY <2>1 DEF FirstHolder
  <2>3. Rank(i) = Len(index.ids) + FirstHolder(i)
    BY <1>4 DEF Rank, Listing
  <2> QED
    BY <1>4, <2>2, <2>3 DEF RankOf
<1> QED
  BY <1>3, <1>4

\* The same of the state after a step.
LEMMA RankIsRankNext == TypeOK' => RanksRight'
BY RankIsRank, PTL

\* As long as the files stay as they are, so does every rank.
LEMMA SameRank ==
  ASSUME TypeOK, TypeOK', UNCHANGED <<file, index>>, NEW i \in Id, Holders(i) # {}
  PROVE  Rank(i)' = Rank(i)
<1>1. Holders(i)' = Holders(i) /\ Listing(i)' = Listing(i) /\ index' = index
  BY DEF Holders, Listing
<1>2. RankOf(i, Rank(i)) /\ RankOf(i, Rank(i))'
  BY <1>1, RankIsRank, RankIsRankNext DEF RanksRight
<1>3. Listing(i) \in SUBSET Nat
  BY DEF Listing, TypeOK, Index
<1>4. Holders(i) \in SUBSET Nat
  BY MissionAssumption DEF Holders, MissionAssumption, Name
<1>5. CASE Listing(i) # {}
  <2>1. /\ Rank(i) \in Listing(i) /\ \A p \in Listing(i) : Rank(i) <= p
        /\ Rank(i)' \in Listing(i) /\ \A p \in Listing(i) : Rank(i)' <= p
    BY <1>1, <1>2, <1>5 DEF RankOf
  <2> QED
    BY <1>3, <2>1
<1>6. CASE Listing(i) = {}
  <2>1. PICK n \in Holders(i) : Rank(i) = Len(index.ids) + n /\ \A p \in Holders(i) : n <= p
    BY <1>2, <1>6 DEF RankOf
  <2>2. PICK m \in Holders(i) : Rank(i)' = Len(index.ids) + m /\ \A p \in Holders(i) : m <= p
    BY <1>1, <1>2, <1>6 DEF RankOf
  <2>3. n = m
    BY <1>4, <2>1, <2>2
  <2> QED
    BY <2>1, <2>2, <2>3
<1> QED
  BY <1>5, <1>6

\* A mission that is listed once, in the index that was just written, is ranked
\* by its place in it.
LEMMA WrittenRank ==
  ASSUME TypeOK, ListedOnce, index.ids = order, NEW p \in DOMAIN order
  PROVE  Rank(order[p]) = p
<1>1. Listing(order[p]) = {p}
  BY DEF Listing, ListedOnce, ListsOnce
<1>2. Rank(order[p]) = CHOOSE q \in Listing(order[p]) : \A r \in Listing(order[p]) : q <= r
  BY <1>1 DEF Rank, Listing
<1>3. p \in Nat
  BY DEF TypeOK
<1> QED
  BY <1>1, <1>2, <1>3

Ordered == ListedOnce => (index.ids = order => Ranked(order))

\* The index that was just written ranks the list as it is.
LEMMA WrittenOrder == TypeOK => Ordered
BY WrittenRank DEF Ordered, Ranked

\* The same of the state after a step.
LEMMA WrittenOrderNext == TypeOK' => Ordered'
BY WrittenOrder, PTL

\* The ranks as a function, which a step can be said to leave as it is.
RankAt == [i \in Id |-> Rank(i)]

InRankOrder(o) == \A p, q \in DOMAIN o : p < q => RankAt[o[p]] < RankAt[o[q]]

RankedIs == Ranked(order) <=> InRankOrder(order)

\* The order by rank, said of the function.
LEMMA RanksAsFunction == ASSUME NEW o \in Seq(Id) PROVE Ranked(o) <=> InRankOrder(o)
<1>1. ASSUME NEW p \in DOMAIN o PROVE RankAt[o[p]] = Rank(o[p])
  <2>1. o[p] \in Id
    OBVIOUS
  <2> QED
    BY <2>1 DEF RankAt
<1> QED
  BY <1>1 DEF Ranked, InRankOrder

\* The same of the list.
LEMMA RanksAsFunctionNow == TypeOK => RankedIs
BY RanksAsFunction DEF TypeOK, RankedIs

\* The same of the list after a step.
LEMMA RanksAsFunctionNext == TypeOK' => RankedIs'
BY RanksAsFunctionNow, PTL

\* When nothing failed, the list is in the order the next load will give it.
InOrder == Undisturbed => Ranked(order)

\* Every step that ends a handler without failure leaves list and index in one order.
LEMMA OrderStep ==
  TypeOK /\ TypeOK' /\ ListedOnce' /\ Kept /\ Kept' /\ InOrder /\ [Next]_vars => InOrder'
<1> SUFFICES ASSUME TypeOK, TypeOK', ListedOnce', Kept, Kept', InOrder, [Next]_vars, Undisturbed'
             PROVE  Ranked(order)'
  BY DEF InOrder
<1>1. ASSUME UNCHANGED <<file, index>>, NEW o, o = order', Ranked(o) PROVE Ranked(order)'
  <2>1. ASSUME NEW i \in Registered' PROVE RankAt'[i] = RankAt[i]
    <3>1. i \in Id /\ missions'[i] \in 1 .. MaxClock
      BY <2>1 DEF Registered, TypeOK
    <3>2. Loaded'[i] >= missions'[i]
      BY <3>1, Constants DEF Kept, Undisturbed, Idle
    <3>3. Latest'
      BY LoadsLatestNext DEF TypeOK
    <3>4. Loaded'[i] # 0
      BY <3>1, <3>2, <3>3, Constants DEF Latest
    <3>5. Holders(i)' # {} /\ Holders(i)' = Holders(i)
      BY <1>1, <3>1, <3>3, <3>4 DEF Latest, Holders
    <3>6. Rank(i)' = Rank(i)
      BY <1>1, <3>1, <3>5, SameRank
    <3> QED
      BY <3>1, <3>6 DEF RankAt
  <2>2. \A p \in DOMAIN order' : order'[p] \in Registered'
    BY DEF ListedOnce, ListsOnce
  <2>3. InRankOrder(o)
    BY <1>1, RanksAsFunction DEF TypeOK
  <2>4. InRankOrder(order)'
    BY <1>1, <2>1, <2>2, <2>3 DEF InRankOrder
  <2> QED
    BY <2>4, RanksAsFunctionNext DEF RankedIs
<1>2. CASE Reload
  <2>1. PICK o : o = order' /\ Ranked(o)
    BY <1>2 DEF Reload
  <2> QED
    BY <1>1, <1>2, <2>1 DEF Reload, disk
<1>3. CASE WriteIndex
  <2>1. index'.ids = order'
    BY <1>3 DEF WriteIndex, memory
  <2> QED
    BY <2>1, WrittenOrderNext DEF Ordered
<1>4. CASE UNCHANGED vars
  <2>1. Undisturbed
    BY <1>4 DEF Undisturbed, vars
  <2> QED
    BY <1>1, <1>4, <2>1 DEF vars, InOrder
<1>5. CASE SaveFails \/ HandlerRaises \/ UnlinkFails \/ IndexFails \/ Crash \/ Others
  BY <1>5 DEF SaveFails, HandlerRaises, UnlinkFails, IndexFails, Crash, Others, Undisturbed
<1>6. \A i \in Id : i # 0
  BY Constants
<1>7. ASSUME job'.step # "idle" PROVE FALSE
  BY <1>7 DEF Undisturbed, Idle
<1>8. CASE New \/ Rearrange \/ StageMission \/ ReplaceMission \/ Unlink \/ TruncateIndex
  BY <1>7, <1>8 DEF New, Create, SaveMission, Rearrange, StageMission, ReplaceMission, Unlink,
       TruncateIndex, SaveIndex
<1>9. ASSUME NEW i \in Id,
             Duplicate(i) \/ Update(i) \/ Delete(i) \/ \E stamp \in 1 .. clock : Import(i, stamp)
      PROVE  FALSE
  BY <1>7, <1>9 DEF Duplicate, Update, Delete, Import, Create, SaveMission
<1> QED
  BY <1>2, <1>3, <1>4, <1>5, <1>8, <1>9 DEF Next, Manager

\* An undisturbed restart brings back every mission, in the order of the list
\* and no older than it is in memory.
THEOREM RestartRecovers == Spec => []Recoverable
<1>1. Init => OwnNames /\ Doomed /\ Kept /\ InOrder /\ KnownIds /\ ListedOnce
  BY DEF Init, OwnNames, Doomed, Kept, Idle, Missing, Name, InOrder, Undisturbed, KnownIds,
     ListedOnce, ListsOnce, Registered, Forgotten
<1>2. Kept /\ InOrder => Recoverable
  BY Constants DEF Recoverable, InOrder, Undisturbed, Kept, Idle, Registered
<1> QED
  BY <1>1, <1>2, TypeInit, TypeStep, TmpInit, TmpStep, KnownStep, ListStep, NamesStep, KeptStep,
     OrderStep, PTL DEF Spec
==============================================================================
