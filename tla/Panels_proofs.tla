---------------------------- MODULE Panels_proofs ----------------------------
(***************************************************************************)
(* Proofs about the three components that a panel of the dialog drives by  *)
(* itself: the presentation runtime, mission playback and the runner of    *)
(* external tools.  They share no state, only the lemmas below on          *)
(* induction, on recursive functions and on sequences.                     *)
(***************************************************************************)
EXTENDS PresentationRuntime, VoyagePlayback, ToolRunner, SequenceTheorems,
        WellFoundedInduction, TLAPS

-----------------------------------------------------------------------------
(* Induction, recursion and sequences *)

\* A nonempty set of naturals has a least element.
LEMMA LeastNatural ==
  ASSUME NEW S \in SUBSET Nat, S # {}
  PROVE  \E m \in S : \A q \in S : m <= q
  <1>1. PICK m \in S : \A q \in S : ~(<<q, m>> \in OpToRel(<, Nat))
    BY WFMin, NatLessThanWellFounded
  <1>2. \A q \in S : ~(q < m)
    BY <1>1 DEF OpToRel
  <1> QED BY <1>2

\* Induction up to n, for a set: what holds of 0 and passes from each number
\* to the next holds of all.
LEMMA UpTo ==
  ASSUME NEW n \in Nat, NEW S, 0 \in S, \A i \in 1 .. n : i - 1 \in S => i \in S
  PROVE  0 .. n \subseteq S
  <1> DEFINE Missed == {i \in 0 .. n : i \notin S}
  <1>1. ASSUME Missed # {} PROVE FALSE
    <2>0. Missed \in SUBSET Nat
      OBVIOUS
    <2>1. PICK m \in Missed : \A q \in Missed : m <= q
      <3> HIDE DEF Missed
      <3> QED BY <1>1, <2>0, LeastNatural
    <2>2. m \in 1 .. n /\ m - 1 \in 0 .. n
      BY <2>1
    <2>3. m - 1 \notin Missed
      BY <2>1, <2>2
    <2> QED BY <2>2, <2>3
  <1> QED BY <1>1

\* A nonempty set of naturals below a bound has a greatest element.
LEMMA GreatestBounded ==
  ASSUME NEW E \in Nat, NEW S \in SUBSET (0 .. E), S # {}
  PROVE  \E m \in S : \A q \in S : q <= m
  <1> DEFINE T == {E - p : p \in S}
  <1>1. T \in SUBSET Nat /\ T # {}
    <2>1. \A p \in S : p \in Int /\ E - p \in Nat
      OBVIOUS
    <2>2. PICK p \in S : TRUE
      OBVIOUS
    <2>3. E - p \in T
      BY <2>2
    <2> QED BY <2>1, <2>3
  <1>2. PICK t \in T : \A u \in T : t <= u
    BY <1>1, LeastNatural
  <1>3. PICK m \in S : t = E - m
    OBVIOUS
  <1>4. \A q \in S : E - q \in T
    OBVIOUS
  <1> HIDE DEF T
  <1>5. \A q \in S : E - m <= E - q
    BY <1>2, <1>3, <1>4
  <1>6. \A q \in S : q <= m
    BY <1>5
  <1> QED BY <1>6

\* Two functions that begin alike and go on alike are alike.
LEMMA SameRecursion ==
  ASSUME NEW n \in Nat, NEW f, NEW g, f[0] = g[0],
         \A i \in 1 .. n : f[i - 1] = g[i - 1] => f[i] = g[i]
  PROVE  \A i \in 0 .. n : f[i] = g[i]
  <1> DEFINE Same == {i \in 0 .. n : f[i] = g[i]}
  <1>1. 0 \in Same
    OBVIOUS
  <1>2. \A i \in 1 .. n : i - 1 \in Same => i \in Same
    OBVIOUS
  <1> HIDE DEF Same
  <1>3. 0 .. n \subseteq Same
    BY <1>1, <1>2, UpTo
  <1> QED BY <1>3 DEF Same

\* A sequence without one of its elements.
LEMMA RemoveAtProperties ==
  ASSUME NEW S, NEW s \in Seq(S), NEW i \in 1 .. Len(s)
  PROVE  RemoveAt(s, i) \in Seq(S) /\ Len(RemoveAt(s, i)) = Len(s) - 1
  <1> DEFINE before == SubSeq(s, 1, i - 1)
             after == SubSeq(s, i + 1, Len(s))
  <1>1. Len(s) \in Nat /\ i \in Int
    OBVIOUS
  <1>2. before \in Seq(S) /\ Len(before) = i - 1
    BY SubSeqProperties
  <1>3. after \in Seq(S) /\ Len(after) = Len(s) - i
    BY SubSeqProperties
  <1>4. RemoveAt(s, i) = before \o after
    BY DEF RemoveAt
  <1> HIDE DEF before, after
  <1>5. before \o after \in Seq(S) /\ Len(before \o after) = Len(before) + Len(after)
    BY <1>2, <1>3, ConcatProperties
  <1>6. Len(before) + Len(after) = Len(s) - 1
    BY <1>1, <1>2, <1>3
  <1> QED BY <1>4, <1>5, <1>6

\* What a recursion over 1 .. m asks of a function.
Follows(f, base, step, m) == f[0] = base /\ \A i \in 1 .. m : f[i] = step[i][f[i - 1]]

\* A recursion over 1 .. n whose steps are functions on V defines a function
\* into V.
LEMMA RecursionExists ==
  ASSUME NEW n \in Nat, NEW V, NEW base \in V, NEW step \in [1 .. n -> [V -> V]]
  PROVE  \E f \in [0 .. n -> V] : Follows(f, base, step, n)
  <1> DEFINE Defined == {m \in 0 .. n : \E f \in [0 .. m -> V] : Follows(f, base, step, m)}
  <1>1. 0 \in Defined
    <2> DEFINE g == [i \in 0 .. 0 |-> base]
    <2>1. g \in [0 .. 0 -> V] /\ Follows(g, base, step, 0)
      BY DEF Follows
    <2> HIDE DEF g
    <2> QED BY <2>1
  <1>2. ASSUME NEW m \in 1 .. n, m - 1 \in Defined PROVE m \in Defined
    <2>1. PICK f \in [0 .. m - 1 -> V] : Follows(f, base, step, m - 1)
      BY <1>2
    <2> DEFINE g == [i \in 0 .. m |-> IF i = m THEN step[m][f[m - 1]] ELSE f[i]]
    <2>2. m - 1 \in 0 .. m - 1 /\ f[m - 1] \in V /\ step[m] \in [V -> V]
      OBVIOUS
    <2>3. step[m][f[m - 1]] \in V
      BY <2>2
    <2>4. \A i \in 0 .. m : g[i] \in V /\ (i # m => g[i] = f[i])
      BY <2>3
    <2>5. g \in [0 .. m -> V]
      BY <2>4
    <2>6. g[0] = base
      BY <2>1, <2>4 DEF Follows
    <2>7. ASSUME NEW i \in 1 .. m PROVE g[i] = step[i][g[i - 1]]
      <3>1. i \in 0 .. m /\ i - 1 \in 0 .. m /\ i - 1 # m
        OBVIOUS
      <3>2. g[i - 1] = f[i - 1]
        BY <2>4, <3>1
      <3>3. CASE i = m
        BY <3>1, <3>2, <3>3
      <3>4. CASE i # m
        <4>1. f[i] = step[i][f[i - 1]]
          BY <2>1, <3>4 DEF Follows
        <4> QED BY <2>4, <3>1, <3>2, <3>4, <4>1
      <3> QED BY <3>3, <3>4
    <2> HIDE DEF g
    <2>8. Follows(g, base, step, m)
      BY <2>6, <2>7 DEF Follows
    <2> QED BY <2>5, <2>8
  <1> HIDE DEF Defined
  <1>3. 0 .. n \subseteq Defined
    BY <1>1, <1>2, UpTo
  <1>4. n \in Defined
    BY <1>3
  <1> QED BY <1>4 DEF Defined

-----------------------------------------------------------------------------
(* Presentation and exhibition: PresentationRuntime *)

\* The greatest of a set of positions.
Latest(S) == CHOOSE j \in S : \A k \in S : k <= j

\* The steps up to the i-th that set a look of their own.
Setters(steps, i) == {j \in 1..i : Look[steps[j]] # Blank}

\* The look of the nearest step at or before the i-th that sets one.
NearestLook(steps, i) ==
  IF Setters(steps, i) = {} THEN Blank
  ELSE Look[steps[Latest(Setters(steps, i))]]

\* The nearest look is inherited, which is the recursion of resolved_steps.
LEMMA NearestIsInherited ==
  ASSUME NEW steps, NEW n \in Nat, NEW i \in 0..n
  PROVE  NearestLook(steps, i) =
           IF i = 0 THEN Blank
           ELSE IF Look[steps[i]] # Blank THEN Look[steps[i]] ELSE NearestLook(steps, i - 1)
  <1>1. CASE i = 0
    BY <1>1 DEF NearestLook, Setters
  <1>2. CASE i # 0 /\ Look[steps[i]] # Blank
    <2>1. i \in Setters(steps, i) /\ \A k \in Setters(steps, i) : k \in 1..i
      BY <1>2 DEF Setters
    <2>2. Latest(Setters(steps, i)) = i
      BY <2>1 DEF Latest
    <2> QED BY <1>2, <2>1, <2>2 DEF NearestLook
  <1>3. CASE i # 0 /\ Look[steps[i]] = Blank
    <2>1. Setters(steps, i) = Setters(steps, i - 1)
      BY <1>3 DEF Setters
    <2> QED BY <1>3, <2>1 DEF NearestLook
  <1> QED BY <1>1, <1>2, <1>3

\* The pass over a document gives every step the nearest look
\* (presentation_sequence.py, resolved_steps).
LEMMA ResolvedCards ==
  ASSUME NEW steps \in Seq(Steps)
  PROVE  Resolved(steps) =
           [i \in 1..Len(steps) |-> [id |-> steps[i], look |-> NearestLook(steps, i)]]
  <1> DEFINE n == Len(steps)
             Inherits(f) == f = [i \in 0..n |->
                IF i = 0 THEN Blank
                ELSE IF Look[steps[i]] # Blank THEN Look[steps[i]] ELSE f[i - 1]]
             near == [i \in 0..n |-> NearestLook(steps, i)]
             look == CHOOSE f : Inherits(f)
  <1>1. n \in Nat
    OBVIOUS
  <1>2. Inherits(near)
    <2>1. \A i \in 0..n : i # 0 => i - 1 \in 0..n
      BY <1>1
    <2>2. \A i \in 0..n : near[i] = IF i = 0 THEN Blank
              ELSE IF Look[steps[i]] # Blank THEN Look[steps[i]] ELSE near[i - 1]
      BY <1>1, <2>1, NearestIsInherited
    <2> QED BY <2>2
  <1>3. Inherits(look)
    BY <1>2
  <1> HIDE DEF look, near
  <1>4. \A i \in 0..n : look[i] = near[i]
    <2>1. look[0] = near[0]
      BY <1>1, <1>2, <1>3
    <2>2. \A i \in 1..n : /\ i \in 0..n /\ i # 0
                         /\ look[i] = IF Look[steps[i]] # Blank THEN Look[steps[i]] ELSE look[i - 1]
      BY <1>1, <1>3
    <2>3. \A i \in 1..n : near[i] = IF Look[steps[i]] # Blank THEN Look[steps[i]] ELSE near[i - 1]
      BY <1>1, <1>2, <2>2
    <2> HIDE DEF n
    <2>4. \A i \in 1..n : look[i - 1] = near[i - 1] => look[i] = near[i]
      BY <2>2, <2>3
    <2> QED BY <1>1, <2>1, <2>4, SameRecursion
  <1>5. Resolved(steps) = [i \in 1..n |-> [id |-> steps[i], look |-> look[i]]]
    BY DEF Resolved, look
  <1>6. \A i \in 1..n : look[i] = NearestLook(steps, i)
    BY <1>1, <1>4 DEF near
  <1> QED BY <1>5, <1>6
\* The runtime object keeps its fields, and its index is a count of steps.
ShowShape ==
  /\ show = [status |-> show.status, index |-> show.index, loaded |-> show.loaded,
             cards |-> show.cards, pose |-> show.pose]
  /\ show.status \in Statuses
  /\ show.index \in Nat

ExhibitionType ==
  exh \in [active : BOOLEAN, locked : BOOLEAN, view : {"presenter", "audience"},
           notes : BOOLEAN, highlight : Uids \cup {Nothing},
           chapter : {Chapters[i] : i \in 1..Len(Chapters)} \cup {Nothing},
           pose : BOOLEAN]

ShowInv == ShowShape /\ ExhibitionType /\ NothingLeftOfTheShow

\* The runtime and the exhibition begin idle (PresentationState() and
\* ExhibitionState()).
LEMMA ShowBegins == Init => ShowInv
  <1>1. Init => ShowShape
    BY DEF Init, ShowShape, Idle, Statuses
  <1>2. Init => ExhibitionType
    BY DEF Init, ExhibitionType, DefaultExhibition
  <1>3. Init => NothingLeftOfTheShow
    BY DEF Init, NothingLeftOfTheShow, DefaultExhibition
  <1> QED BY <1>1, <1>2, <1>3 DEF ShowInv

\* Where a step leads, and that it ends a pause (presentation_state.py:184-200).
LEMMA WalkShape ==
  ASSUME ShowShape, NEW i \in Nat, WalkTo(i)
  PROVE  /\ ShowShape'
         /\ show'.status # "paused"
  BY DEF ShowShape, WalkTo, Statuses

\* The document's and the show's actions keep the shape of the show.
LEMMA StepShowShape == ShowShape /\ [Next]_vars => ShowShape'
  <1> SUFFICES ASSUME ShowShape, [Next]_vars PROVE ShowShape'
    OBVIOUS
  <1>1. ASSUME UNCHANGED show PROVE ShowShape'
    BY <1>1 DEF ShowShape
  <1>2. ASSUME NEW s \in Steps, AddStep(s) \/ RemoveStep(s) PROVE ShowShape'
    BY <1>1, <1>2 DEF AddStep, RemoveStep
  <1>3. ASSUME NEW s \in Steps, NEW to \in 1..MaxSteps, MoveStep(s, to) PROVE ShowShape'
    BY <1>1, <1>3 DEF MoveStep
  <1>4. CASE Start
    BY <1>4 DEF Start, ShowShape, Statuses
  <1>5. CASE End
    BY <1>5 DEF End, Idle, ShowShape, Statuses
  <1>6. CASE Pause
    BY <1>6 DEF Pause, ShowShape, Statuses
  <1>7. CASE Resume
    BY <1>7 DEF Resume, ShowShape, Statuses
  <1>8. CASE NextStep
    <2>1. CASE show.index + 1 > StepTotal
      BY <1>8, <2>1 DEF NextStep, ShowShape, Statuses
    <2>2. CASE ~(show.index + 1 > StepTotal)
      <3>1. show.index + 1 \in Nat
        BY DEF ShowShape
      <3> QED BY <1>8, <2>2, <3>1, WalkShape DEF NextStep
    <2> QED BY <2>1, <2>2
  <1>9. CASE PreviousStep
    <2>1. show.index - 1 \in Nat /\ WalkTo(show.index - 1)
      BY <1>9 DEF PreviousStep, ShowShape
    <2> QED BY <2>1, WalkShape
  <1>10. ASSUME NEW i \in 1..MaxSteps, JumpTo(i) PROVE ShowShape'
    <2>1. i \in Nat /\ WalkTo(i)
      BY <1>10 DEF JumpTo
    <2> QED BY <2>1, WalkShape
  <1>11. ASSUME NEW held \in BOOLEAN, HoldPose(held) PROVE ShowShape'
    BY <1>11 DEF HoldPose, ShowShape
  <1>12. ASSUME NEW v \in {"presenter", "audience"}, NEW n \in BOOLEAN, NEW l \in BOOLEAN,
                NEW p \in BOOLEAN, StartExhibition(v, n, l, p)
         PROVE ShowShape'
    BY <1>1, <1>12 DEF StartExhibition
  <1>13. CASE EndExhibition \/ ToggleView \/ ToggleNotes \/ UnlockNavigation
    BY <1>1, <1>13 DEF EndExhibition, ToggleView, ToggleNotes, UnlockNavigation
  <1>14. ASSUME NEW p \in BOOLEAN, LockNavigation(p) PROVE ShowShape'
    BY <1>1, <1>14 DEF LockNavigation
  <1>15. ASSUME NEW u \in Uids \cup {Nothing}, Highlight(u) PROVE ShowShape'
    BY <1>1, <1>15 DEF Highlight
  <1>16. ASSUME NEW told \in BOOLEAN,
                NextChapter(told) \/ PreviousChapter(told)
                \/ \E i \in 1..Len(Chapters) : ToChapter(i, told)
         PROVE ShowShape'
    BY <1>1, <1>16 DEF NextChapter, PreviousChapter, ToChapter
  <1>17. CASE UNCHANGED vars
    BY <1>1, <1>17 DEF vars
  <1> QED
    BY <1>2, <1>3, <1>4, <1>5, <1>6, <1>7, <1>8, <1>9, <1>10, <1>11, <1>12, <1>13,
       <1>14, <1>15, <1>16, <1>17 DEF Next

\* A chapter move changes the exhibition's chapter to one of the tour, or
\* nothing of it (exhibition_panel.py:203-264).
LEMMA ChapterMove ==
  ASSUME ExhibitionType, NothingLeftOfTheShow, NEW i, NEW told \in BOOLEAN, ToChapter(i, told)
  PROVE  ExhibitionType' /\ NothingLeftOfTheShow'
  <1>1. ExhibitionType'
    BY DEF ExhibitionType, ToChapter
  <1>2. NothingLeftOfTheShow'
    BY DEF ExhibitionType, NothingLeftOfTheShow, ToChapter
  <1> QED BY <1>1, <1>2

\* The panel's actions keep the exhibition's type, and every piece of it that
\* a show sets is set only in one, or put back by leaving it.
LEMMA StepExhibition ==
  ExhibitionType /\ NothingLeftOfTheShow /\ [Next]_vars
    => ExhibitionType' /\ NothingLeftOfTheShow'
  <1> SUFFICES ASSUME ExhibitionType, NothingLeftOfTheShow, [Next]_vars
               PROVE  ExhibitionType' /\ NothingLeftOfTheShow'
    OBVIOUS
  <1> USE DEF ExhibitionType, NothingLeftOfTheShow
  <1>1. ASSUME UNCHANGED exh PROVE ExhibitionType' /\ NothingLeftOfTheShow'
    BY <1>1
  <1>2. ASSUME NEW s \in Steps, AddStep(s) \/ RemoveStep(s)
        PROVE ExhibitionType' /\ NothingLeftOfTheShow'
    BY <1>1, <1>2 DEF AddStep, RemoveStep
  <1>3. ASSUME NEW s \in Steps, NEW to \in 1..MaxSteps, MoveStep(s, to)
        PROVE ExhibitionType' /\ NothingLeftOfTheShow'
    BY <1>1, <1>3 DEF MoveStep
  <1>4. CASE Start \/ End \/ Pause \/ Resume
    BY <1>1, <1>4 DEF Start, End, Pause, Resume
  <1>5. CASE NextStep \/ PreviousStep
    BY <1>1, <1>5 DEF NextStep, PreviousStep
  <1>6. ASSUME NEW i \in 1..MaxSteps, JumpTo(i)
        PROVE ExhibitionType' /\ NothingLeftOfTheShow'
    BY <1>1, <1>6 DEF JumpTo
  <1>7. ASSUME NEW held \in BOOLEAN, HoldPose(held)
        PROVE ExhibitionType' /\ NothingLeftOfTheShow'
    BY <1>1, <1>7 DEF HoldPose
  <1>8. ASSUME NEW v \in {"presenter", "audience"}, NEW n \in BOOLEAN, NEW l \in BOOLEAN,
               NEW p \in BOOLEAN, StartExhibition(v, n, l, p)
        PROVE ExhibitionType' /\ NothingLeftOfTheShow'
    BY <1>8 DEF StartExhibition
  <1>9. CASE EndExhibition
    BY <1>9 DEF EndExhibition, DefaultExhibition
  <1>10. CASE ToggleView
    BY <1>10 DEF ToggleView
  <1>11. CASE ToggleNotes
    BY <1>11 DEF ToggleNotes
  <1>12. CASE UnlockNavigation
    BY <1>12 DEF UnlockNavigation
  <1>13. ASSUME NEW p \in BOOLEAN, LockNavigation(p)
         PROVE ExhibitionType' /\ NothingLeftOfTheShow'
    BY <1>13 DEF LockNavigation
  <1>14. ASSUME NEW u \in Uids \cup {Nothing}, Highlight(u)
         PROVE ExhibitionType' /\ NothingLeftOfTheShow'
    BY <1>14 DEF Highlight
  <1>15. ASSUME NEW told \in BOOLEAN,
                NextChapter(told) \/ PreviousChapter(told)
                \/ \E i \in 1..Len(Chapters) : ToChapter(i, told)
         PROVE ExhibitionType' /\ NothingLeftOfTheShow'
    BY <1>15, ChapterMove DEF NextChapter, PreviousChapter
  <1>16. CASE UNCHANGED vars
    BY <1>1, <1>16 DEF vars
  <1> QED
    BY <1>2, <1>3, <1>4, <1>5, <1>6, <1>7, <1>8, <1>9, <1>10, <1>11, <1>12, <1>13,
       <1>14, <1>15, <1>16 DEF Next

\* The invariant the two results rest on is inductive.
LEMMA ShowInvariance == Spec => []ShowInv
  <1>1. ShowInv /\ [Next]_vars => ShowInv'
    BY StepShowShape, StepExhibition DEF ShowInv
  <1> QED BY ShowBegins, <1>1, PTL DEF Spec

\* Outside a show nothing of one is left: navigation is free, no pose is
\* held, view and notes are the presenter's (exhibition_mode.py:138-147 and
\* the guards of exhibition_panel.py).
THEOREM ExhibitionLeavesNothing == Spec => []NothingLeftOfTheShow
  <1>1. ShowInv => NothingLeftOfTheShow
    BY DEF ShowInv
  <1> QED BY ShowInvariance, <1>1, PTL

\* A paused show keeps its picture until it is resumed, stepped, restarted or
\* ended, whatever happens to the document (presentation_state.py:162-245).
THEOREM PauseKeepsPicture == Spec => PausedPictureHolds
  <1> DEFINE Held == show.status = "paused" /\ show'.status = "paused"
                     => CurrentResolved' = CurrentResolved
  <1>1. ASSUME ShowInv, [Next]_vars PROVE Held
    <2> SUFFICES ASSUME show.status = "paused", show'.status = "paused"
                 PROVE  CurrentResolved' = CurrentResolved
      OBVIOUS
    <2>1. ShowShape /\ ShowShape'
      BY <1>1, StepShowShape DEF ShowInv
    <2>2. ASSUME show'.index = show.index, show'.cards = show.cards
          PROVE CurrentResolved' = CurrentResolved
      BY <2>2 DEF CurrentResolved
    <2>3. ASSUME UNCHANGED show PROVE CurrentResolved' = CurrentResolved
      BY <2>2, <2>3
    <2>4. ASSUME NEW s \in Steps, AddStep(s) \/ RemoveStep(s)
          PROVE CurrentResolved' = CurrentResolved
      BY <2>3, <2>4 DEF AddStep, RemoveStep
    <2>5. ASSUME NEW s \in Steps, NEW to \in 1..MaxSteps, MoveStep(s, to)
          PROVE CurrentResolved' = CurrentResolved
      BY <2>3, <2>5 DEF MoveStep
    <2>6. CASE Start \/ End \/ Pause \/ Resume
      BY <2>1, <2>6 DEF Start, End, Idle, Pause, Resume, ShowShape
    <2>7. CASE NextStep
      <3>1. CASE show.index + 1 > StepTotal
        BY <2>1, <2>7, <3>1 DEF NextStep, ShowShape
      <3>2. CASE ~(show.index + 1 > StepTotal)
        <4>1. show.index + 1 \in Nat
          BY <2>1 DEF ShowShape
        <4> QED BY <2>1, <2>7, <3>2, <4>1, WalkShape DEF NextStep
      <3> QED BY <3>1, <3>2
    <2>8. CASE PreviousStep
      <3>1. show.index - 1 \in Nat /\ WalkTo(show.index - 1)
        BY <2>1, <2>8 DEF PreviousStep, ShowShape
      <3> QED BY <2>1, <3>1, WalkShape
    <2>9. ASSUME NEW i \in 1..MaxSteps, JumpTo(i)
          PROVE CurrentResolved' = CurrentResolved
      <3>1. i \in Nat /\ WalkTo(i)
        BY <2>9 DEF JumpTo
      <3> QED BY <2>1, <3>1, WalkShape
    <2>10. ASSUME NEW held \in BOOLEAN, HoldPose(held)
           PROVE CurrentResolved' = CurrentResolved
      BY <2>1, <2>2, <2>10 DEF HoldPose, ShowShape
    <2>11. ASSUME NEW v \in {"presenter", "audience"}, NEW n \in BOOLEAN, NEW l \in BOOLEAN,
                  NEW p \in BOOLEAN, StartExhibition(v, n, l, p)
           PROVE CurrentResolved' = CurrentResolved
      BY <2>3, <2>11 DEF StartExhibition
    <2>12. CASE EndExhibition \/ ToggleView \/ ToggleNotes \/ UnlockNavigation
      BY <2>3, <2>12 DEF EndExhibition, ToggleView, ToggleNotes, UnlockNavigation
    <2>13. ASSUME NEW p \in BOOLEAN, LockNavigation(p)
           PROVE CurrentResolved' = CurrentResolved
      BY <2>3, <2>13 DEF LockNavigation
    <2>14. ASSUME NEW u \in Uids \cup {Nothing}, Highlight(u)
           PROVE CurrentResolved' = CurrentResolved
      BY <2>3, <2>14 DEF Highlight
    <2>15. ASSUME NEW told \in BOOLEAN,
                  NextChapter(told) \/ PreviousChapter(told)
                  \/ \E i \in 1..Len(Chapters) : ToChapter(i, told)
           PROVE CurrentResolved' = CurrentResolved
      BY <2>3, <2>15 DEF NextChapter, PreviousChapter, ToChapter
    <2>16. CASE UNCHANGED vars
      BY <2>3, <2>16 DEF vars
    <2> QED
      BY <1>1, <2>4, <2>5, <2>6, <2>7, <2>8, <2>9, <2>10, <2>11, <2>12, <2>13, <2>14,
         <2>15, <2>16 DEF Next
  <1> HIDE DEF Held
  <1>2. ShowInv /\ [Next]_vars => [Held]_vars
    BY <1>1
  <1>3. Held => (show.status = "paused" /\ show'.status = "paused"
                 => CurrentResolved' = CurrentResolved)
    BY DEF Held
  <1> QED BY ShowInvariance, <1>2, <1>3, PTL DEF Spec, PausedPictureHolds

\* The actions of the exhibition panel.
ExhibitionMoves ==
  \/ \E v \in {"presenter", "audience"}, n, l, p \in BOOLEAN : StartExhibition(v, n, l, p)
  \/ EndExhibition \/ ToggleView \/ ToggleNotes \/ UnlockNavigation
  \/ \E p \in BOOLEAN : LockNavigation(p)
  \/ \E u \in Uids \cup {Nothing} : Highlight(u)
  \/ \E told \in BOOLEAN : \/ NextChapter(told) \/ PreviousChapter(told)
                           \/ \E i \in 1..Len(Chapters) : ToChapter(i, told)

\* The exhibition panel touches neither the document nor the show.
LEMMA ExhibitionAlone == ExhibitionMoves => UNCHANGED <<doc, show>>
  BY DEF ExhibitionMoves, StartExhibition, EndExhibition, ToggleView, ToggleNotes,
         UnlockNavigation, LockNavigation, Highlight, NextChapter, PreviousChapter, ToChapter

\* What a step leaves of the document is a document.
LEMMA StepDocument == doc \in Seq(Steps) /\ [Next]_vars => doc' \in Seq(Steps)
  <1> SUFFICES ASSUME doc \in Seq(Steps), [Next]_vars PROVE doc' \in Seq(Steps)
    OBVIOUS
  <1>1. ASSUME NEW s \in Steps, AddStep(s) PROVE doc' \in Seq(Steps)
    BY <1>1 DEF AddStep
  <1>2. ASSUME NEW i \in 1..Len(doc)
        PROVE  RemoveAt(doc, i) \in Seq(Steps) /\ Len(RemoveAt(doc, i)) = Len(doc) - 1
    BY RemoveAtProperties
  <1>3. ASSUME NEW s \in Steps, RemoveStep(s) PROVE doc' \in Seq(Steps)
    BY <1>2, <1>3 DEF RemoveStep
  <1>4. ASSUME NEW s \in Steps, NEW to \in 1..MaxSteps, MoveStep(s, to)
        PROVE  doc' \in Seq(Steps)
    <2>1. PICK i \in 1..Len(doc) : doc' = InsertAt(RemoveAt(doc, i), to, s)
      BY <1>4 DEF MoveStep
    <2>2. PICK rest \in Seq(Steps) : doc' = InsertAt(rest, to, s) /\ Len(rest) = Len(doc) - 1
      BY <1>2, <2>1
    <2>3. to \in Nat /\ 1 <= to /\ to <= Len(doc) /\ Len(doc) \in Nat
      BY <1>4 DEF MoveStep
    <2>4. SubSeq(rest, 1, to - 1) \in Seq(Steps) /\ SubSeq(rest, to, Len(rest)) \in Seq(Steps)
      BY <2>2, <2>3, SubSeqProperties
    <2>5. <<s>> \in Seq(Steps)
      OBVIOUS
    <2> QED BY <2>2, <2>4, <2>5 DEF InsertAt
  <1>5. ASSUME UNCHANGED doc PROVE doc' \in Seq(Steps)
    BY <1>5
  <1>6. CASE Start \/ End \/ Pause \/ Resume \/ NextStep \/ PreviousStep
    BY <1>5, <1>6 DEF Start, End, Pause, Resume, NextStep, PreviousStep
  <1>7. ASSUME NEW i \in 1..MaxSteps, JumpTo(i) PROVE doc' \in Seq(Steps)
    BY <1>5, <1>7 DEF JumpTo
  <1>8. ASSUME NEW held \in BOOLEAN, HoldPose(held) PROVE doc' \in Seq(Steps)
    BY <1>5, <1>8 DEF HoldPose
  <1>9. CASE ExhibitionMoves
    BY <1>5, <1>9, ExhibitionAlone
  <1>10. CASE UNCHANGED vars
    BY <1>5, <1>10 DEF vars
  <1> QED
    BY <1>1, <1>3, <1>4, <1>6, <1>7, <1>8, <1>9, <1>10 DEF Next, ExhibitionMoves

\* What CardIsNearest says of a list of cards.
NearestCards(cards) ==
  \A i \in DOMAIN cards :
    LET set == {j \in 1..i : Look[cards[j].id] # Blank}
    IN  cards[i].look = IF set = {} THEN Blank ELSE Look[cards[Latest(set)].id]

\* The cards a show starts with are nearest in the document it starts from.
LEMMA StartCards == ASSUME NEW steps \in Seq(Steps) PROVE NearestCards(Resolved(steps))
  <1> DEFINE cards == Resolved(steps)
  <1>1. cards = [i \in 1..Len(steps) |-> [id |-> steps[i], look |-> NearestLook(steps, i)]]
    BY ResolvedCards
  <1>2. DOMAIN cards = 1..Len(steps) /\ Len(steps) \in Nat
    BY <1>1
  <1>3. \A i \in 1..Len(steps) : cards[i].id = steps[i] /\ cards[i].look = NearestLook(steps, i)
    BY <1>1
  <1> HIDE DEF cards
  <1>4. ASSUME NEW i \in DOMAIN cards
        PROVE  LET set == {j \in 1..i : Look[cards[j].id] # Blank}
               IN  cards[i].look = IF set = {} THEN Blank ELSE Look[cards[Latest(set)].id]
    <2> DEFINE set == {j \in 1..i : Look[cards[j].id] # Blank}
    <2>1. set = Setters(steps, i)
      BY <1>2, <1>3 DEF Setters
    <2>2. set \in SUBSET (0 .. i) /\ i \in Nat
      BY <1>2
    <2>3. set \in SUBSET (1 .. Len(steps))
      BY <1>2
    <2> HIDE DEF set
    <2>4. ASSUME set # {} PROVE cards[Latest(set)].id = steps[Latest(set)]
      <3>1. Latest(set) \in set
        BY <2>2, <2>4, GreatestBounded DEF Latest
      <3> QED BY <1>3, <2>3, <3>1
    <2>5. cards[i].look = NearestLook(steps, i)
      BY <1>2, <1>3
    <2>6. cards[i].look = IF set = {} THEN Blank ELSE Look[cards[Latest(set)].id]
      BY <2>1, <2>4, <2>5 DEF NearestLook
    <2> QED BY <2>6 DEF set
  <1> QED BY <1>4 DEF cards, NearestCards

\* The cards of a show are those resolved at its start.
LEMMA StepCards ==
  doc \in Seq(Steps) /\ ShowShape /\ NearestCards(show.cards) /\ [Next]_vars
    => NearestCards(show'.cards)
  <1> SUFFICES ASSUME doc \in Seq(Steps), ShowShape, NearestCards(show.cards), [Next]_vars
               PROVE  NearestCards(show'.cards)
    OBVIOUS
  <1>1. ASSUME show'.cards = show.cards PROVE NearestCards(show'.cards)
    BY <1>1
  <1>2. ASSUME UNCHANGED show PROVE NearestCards(show'.cards)
    BY <1>1, <1>2
  <1>3. ASSUME NEW s \in Steps, AddStep(s) \/ RemoveStep(s) PROVE NearestCards(show'.cards)
    BY <1>2, <1>3 DEF AddStep, RemoveStep
  <1>4. ASSUME NEW s \in Steps, NEW to \in 1..MaxSteps, MoveStep(s, to)
        PROVE  NearestCards(show'.cards)
    BY <1>2, <1>4 DEF MoveStep
  <1>5. CASE Start
    <2>1. show'.cards = Resolved(doc)
      BY <1>5 DEF Start
    <2> QED BY <2>1, StartCards
  <1>6. CASE End
    BY <1>6 DEF End, Idle, NearestCards
  <1>7. CASE Pause \/ Resume
    BY <1>1, <1>7 DEF Pause, Resume, ShowShape
  <1>8. ASSUME NEW i, WalkTo(i) PROVE NearestCards(show'.cards)
    BY <1>1, <1>8 DEF WalkTo, ShowShape
  <1>9. CASE NextStep \/ PreviousStep
    BY <1>1, <1>8, <1>9 DEF NextStep, PreviousStep, ShowShape
  <1>10. ASSUME NEW i \in 1..MaxSteps, JumpTo(i) PROVE NearestCards(show'.cards)
    BY <1>8, <1>10 DEF JumpTo
  <1>11. ASSUME NEW held \in BOOLEAN, HoldPose(held) PROVE NearestCards(show'.cards)
    BY <1>1, <1>11 DEF HoldPose, ShowShape
  <1>12. CASE ExhibitionMoves
    BY <1>2, <1>12, ExhibitionAlone
  <1>13. CASE UNCHANGED vars
    BY <1>2, <1>13 DEF vars
  <1> QED
    BY <1>3, <1>4, <1>5, <1>6, <1>7, <1>9, <1>10, <1>11, <1>12, <1>13
    DEF Next, ExhibitionMoves

\* Every card a show has on stage or to come has the look of the nearest step
\* of its document, at or before it, that sets one
\* (presentation_sequence.py, resolved_steps; presentation_state.py, start).
THEOREM CardsInherit == Spec => []CardIsNearest
  <1> DEFINE Cards == doc \in Seq(Steps) /\ ShowShape /\ NearestCards(show.cards)
  <1>1. Init => Cards
    <2>1. Init => doc \in Seq(Steps)
      BY DEF Init
    <2>2. Init => NearestCards(show.cards)
      BY DEF Init, Idle, NearestCards
    <2> QED BY <2>1, <2>2, ShowBegins DEF ShowInv
  <1>2. Cards /\ [Next]_vars => Cards'
    BY StepDocument, StepShowShape, StepCards
  <1>3. Cards => CardIsNearest
    BY DEF NearestCards, CardIsNearest, Latest
  <1> HIDE DEF Cards
  <1> QED BY <1>1, <1>2, <1>3, PTL DEF Spec

-----------------------------------------------------------------------------
(* Mission playback: VoyagePlayback *)

\* Durations count 1/Grain of a second, and none is zero.
Legs == Nat \ {0}

\* Rounding halves to even stays a count, and stays within an exact bound.
LEMMA RoundedBound ==
  ASSUME NEW a \in Nat, NEW b \in Nat \ {0}
  PROVE  /\ Rounded(a, b) \in Nat
         /\ \A t \in Nat : a <= t * b => Rounded(a, b) <= t
         /\ a = 0 => Rounded(a, b) = 0
  <1> DEFINE q == a \div b
             m == a % b
  <1>1. q \in Nat /\ m \in 0 .. b - 1
    OBVIOUS
  <1>2. a = b * q + m
    OBVIOUS
  <1>3. /\ Rounded(a, b) \in {q, q + 1}
        /\ m = 0 => Rounded(a, b) = q
    <2>1. Rounded(a, b) = IF 2 * m > b \/ (2 * m = b /\ q % 2 = 1) THEN q + 1 ELSE q
      BY DEF Rounded
    <2> HIDE DEF q, m
    <2> QED BY <1>1, <2>1
  <1> HIDE DEF q, m
  <1>4. ASSUME NEW t \in Nat, a <= t * b PROVE Rounded(a, b) <= t
    <2>1. CASE q >= t + 1
      <3>1. b * q >= b * (t + 1) /\ b * (t + 1) = b * t + b /\ b * t = t * b
        BY <1>1, <2>1
      <3> QED BY <1>1, <1>2, <1>4, <3>1
    <2>2. CASE q = t
      <3>1. b * q = t * b /\ t * b \in Nat
        BY <2>2
      <3>2. m = 0
        BY <1>1, <1>2, <1>4, <3>1
      <3> QED BY <1>1, <1>3, <2>2, <3>2
    <2>3. CASE q + 1 <= t
      BY <1>1, <1>3, <2>3
    <2> QED BY <1>1, <2>1, <2>2, <2>3
  <1>5. ASSUME a = 0 PROVE Rounded(a, b) = 0
    <2>1. q = 0
      <3>1. CASE q >= 1
        <4>1. b * q >= b
          BY <1>1, <3>1
        <4> QED BY <1>1, <1>2, <1>5, <4>1
      <3> QED BY <1>1, <3>1
    <2>2. b * q = 0
      BY <2>1
    <2>3. m = 0
      BY <1>1, <1>2, <1>5, <2>2
    <2> QED BY <1>3, <2>1, <2>3
  <1> QED BY <1>1, <1>3, <1>4, <1>5

\* A larger time is rounded to no smaller step.
LEMMA RoundedInOrder ==
  ASSUME NEW a \in Nat, NEW c \in Nat, NEW b \in Nat \ {0}, a <= c
  PROVE  Rounded(a, b) <= Rounded(c, b)
  <1> DEFINE Up(q, m) == IF 2 * m > b \/ (2 * m = b /\ q % 2 = 1) THEN q + 1 ELSE q
             qa == a \div b
             ma == a % b
             qc == c \div b
             mc == c % b
  <1>1. /\ qa \in Nat /\ ma \in 0 .. b - 1 /\ a = b * qa + ma
        /\ qc \in Nat /\ mc \in 0 .. b - 1 /\ c = b * qc + mc
    OBVIOUS
  <1>2. Rounded(a, b) = Up(qa, ma) /\ Rounded(c, b) = Up(qc, mc)
    BY DEF Rounded
  <1> HIDE DEF qa, ma, qc, mc
  <1>3. CASE qa < qc
    <2>1. Up(qa, ma) \in {qa, qa + 1} /\ Up(qc, mc) \in {qc, qc + 1}
      OBVIOUS
    <2> QED BY <1>1, <1>2, <1>3, <2>1
  <1>4. CASE qa = qc
    <2>1. ma <= mc
      BY <1>1, <1>4
    <2> QED BY <1>1, <1>2, <1>4, <2>1
  <1>5. CASE qc + 1 <= qa
    <2>1. b * qa >= b * (qc + 1) /\ b * (qc + 1) = b * qc + b
      BY <1>1, <1>5
    <2> QED BY <1>1, <2>1
  <1> QED BY <1>1, <1>3, <1>4, <1>5

\* The running sums are those of the path (camera_path.py, build_camera_path).
LEMMA ElapsedSums ==
  ASSUME NEW legs \in Seq(Legs)
  PROVE  /\ \A i \in 0 .. Len(legs) : Elapsed(legs)[i] \in Nat
         /\ Elapsed(legs)[0] = 0
         /\ \A i \in 1 .. Len(legs) : Elapsed(legs)[i] = Elapsed(legs)[i - 1] + legs[i]
  <1> DEFINE n == Len(legs)
             Sums(f) == f = [i \in 0 .. n |-> IF i = 0 THEN 0 ELSE f[i - 1] + legs[i]]
             step == [i \in 1 .. n |-> [v \in Nat |-> v + legs[i]]]
             sum == CHOOSE f : Sums(f)
  <1>1. n \in Nat /\ \A i \in 1 .. n : legs[i] \in Nat
    BY DEF Legs
  <1>2. step \in [1 .. n -> [Nat -> Nat]]
    BY <1>1
  <1>3. PICK f \in [0 .. n -> Nat] : Follows(f, 0, step, n)
    <2> HIDE DEF n, step
    <2> QED BY <1>1, <1>2, RecursionExists
  <1>4. /\ f[0] = 0
        /\ \A i \in 1 .. n : i - 1 \in 0 .. n /\ f[i - 1] \in Nat /\ f[i] = f[i - 1] + legs[i]
    <2>1. \A i \in 1 .. n : i - 1 \in 0 .. n
      BY <1>1
    <2>2. f[0] = 0 /\ \A i \in 1 .. n : f[i - 1] \in Nat /\ f[i] = step[i][f[i - 1]]
      BY <1>3, <2>1 DEF Follows
    <2> HIDE DEF n
    <2> QED BY <2>1, <2>2
  <1>5. Sums(f)
    BY <1>1, <1>4
  <1>6. Sums(sum)
    BY <1>5
  <1>7. Elapsed(legs) = sum
    BY DEF Elapsed
  <1> HIDE DEF sum, step
  <1>8. sum[0] = 0 /\ \A i \in 1 .. n : sum[i] = sum[i - 1] + legs[i]
    BY <1>1, <1>6
  <1>9. \A i \in 0 .. n : sum[i] = f[i]
    <2>1. sum[0] = f[0] /\ \A i \in 1 .. n : sum[i - 1] = f[i - 1] => sum[i] = f[i]
      BY <1>4, <1>8
    <2> HIDE DEF n
    <2> QED BY <1>1, <2>1, SameRecursion
  <1> QED BY <1>3, <1>7, <1>8, <1>9

\* The sums grow, and the first of a path is its first duration.
LEMMA ElapsedGrows ==
  ASSUME NEW legs \in Seq(Legs), NEW i \in 0 .. Len(legs), NEW k \in 0 .. Len(legs), i <= k
  PROVE  Elapsed(legs)[i] <= Elapsed(legs)[k]
  <1> DEFINE n == Len(legs)
             sum == Elapsed(legs)
             Above == {j \in 0 .. n : i <= j => sum[i] <= sum[j]}
  <1>1. n \in Nat /\ \A j \in 1 .. n : legs[j] \in Nat
    BY DEF Legs
  <1>2. /\ \A j \in 0 .. n : sum[j] \in Nat
        /\ \A j \in 1 .. n : sum[j] = sum[j - 1] + legs[j]
    BY ElapsedSums
  <1> HIDE DEF n, sum
  <1>3. 0 \in Above
    BY <1>1, <1>2 DEF n
  <1>4. ASSUME NEW j \in 1 .. n, j - 1 \in Above PROVE j \in Above
    <2>1. j \in 0 .. n /\ j - 1 \in 0 .. n
      BY <1>1
    <2>2. CASE i <= j - 1
      BY <1>1, <1>2, <1>4, <2>1, <2>2 DEF n
    <2>3. CASE ~(i <= j - 1)
      BY <1>1, <1>2, <2>1, <2>3 DEF n
    <2> QED BY <2>2, <2>3
  <1> HIDE DEF Above
  <1>5. k \in Above
    BY <1>1, <1>3, <1>4, UpTo DEF n
  <1> QED BY <1>5 DEF Above, n, sum

\* The path of a mission is made of its waypoints that have a position.
LEMMA PathOfLegs == ASSUME NEW ws \in Seq(Waypoints) PROVE ResolvedLegs(ws) \in Seq(Legs)
  <1> DEFINE n == Len(ws)
             V == Seq(Legs)
             Walks(f) == f = [i \in 0 .. n |->
               IF i = 0 THEN <<>>
               ELSE IF ws[i] = Unresolved THEN f[i - 1] ELSE Append(f[i - 1], ws[i])]
             step == [i \in 1 .. n |-> [v \in V |->
               IF ws[i] = Unresolved THEN v ELSE Append(v, ws[i])]]
             legs == CHOOSE f : Walks(f)
  <1>1. n \in Nat /\ \A i \in 1 .. n : ws[i] = Unresolved \/ ws[i] \in Legs
    BY DEF Waypoints, Legs
  <1>2. step \in [1 .. n -> [V -> V]] /\ <<>> \in V
    <2>1. \A v \in V, w \in Legs : Append(v, w) \in V
      OBVIOUS
    <2>2. <<>> \in V
      OBVIOUS
    <2> HIDE DEF V, n
    <2> QED BY <1>1, <2>1, <2>2
  <1>3. PICK f \in [0 .. n -> V] : Follows(f, <<>>, step, n)
    <2> HIDE DEF n, V, step
    <2> QED BY <1>1, <1>2, RecursionExists
  <1>4. /\ f[0] = <<>>
        /\ \A i \in 1 .. n : f[i] = IF ws[i] = Unresolved THEN f[i - 1] ELSE Append(f[i - 1], ws[i])
    <2>1. \A i \in 1 .. n : i - 1 \in 0 .. n
      BY <1>1
    <2> HIDE DEF V, n
    <2>2. f[0] = <<>> /\ \A i \in 1 .. n : f[i - 1] \in V /\ f[i] = step[i][f[i - 1]]
      <3> HIDE DEF step
      <3> QED BY <1>3, <2>1 DEF Follows
    <2> QED BY <2>2
  <1>5. Walks(f)
    <2>1. \A i \in 0 .. n : i = 0 \/ i \in 1 .. n
      BY <1>1
    <2>2. \A i \in 0 .. n : f[i] = IF i = 0 THEN <<>>
            ELSE IF ws[i] = Unresolved THEN f[i - 1] ELSE Append(f[i - 1], ws[i])
      BY <1>1, <1>4, <2>1
    <2> HIDE DEF V, n, step
    <2> QED BY <1>3, <2>2
  <1>6. Walks(legs)
    BY <1>5
  <1>7. ResolvedLegs(ws) = legs[n]
    BY DEF ResolvedLegs
  <1> HIDE DEF legs, step, V
  <1>8. /\ legs[0] = <<>>
        /\ \A i \in 1 .. n :
             legs[i] = IF ws[i] = Unresolved THEN legs[i - 1] ELSE Append(legs[i - 1], ws[i])
    <2>1. 0 \in 0 .. n /\ \A i \in 1 .. n : i \in 0 .. n /\ i # 0
      BY <1>1
    <2> HIDE DEF n
    <2> QED BY <1>6, <2>1
  <1>9. \A i \in 0 .. n : legs[i] = f[i]
    <2>1. legs[0] = f[0] /\ \A i \in 1 .. n : legs[i - 1] = f[i - 1] => legs[i] = f[i]
      BY <1>4, <1>8
    <2> HIDE DEF n
    <2> QED BY <1>1, <2>1, SameRecursion
  <1>10. legs[n] \in V
    BY <1>1, <1>3, <1>9
  <1> QED BY <1>7, <1>10 DEF V

\* The anchors of a path of two waypoints or more lie on it, the first at its
\* beginning and the last at its end.
AnchorsOn(anchors, total) ==
  /\ anchors \in Seq(0 .. total) /\ Len(anchors) >= 2
  /\ anchors[1] = 0 /\ anchors[Len(anchors)] = total

LEMMA AnchorsOnPath ==
  ASSUME NEW legs \in Seq(Legs), Len(legs) >= 2, NEW total \in Nat
  PROVE  AnchorsOn(Anchors(legs, total), total)
  <1> DEFINE n == Len(legs)
             sum == Elapsed(legs)
  <1>1. n \in Nat /\ n >= 2 /\ \A i \in 1 .. n : legs[i] \in Nat /\ legs[i] > 0
    BY DEF Legs
  <1>2. /\ \A i \in 0 .. n : sum[i] \in Nat
        /\ sum[0] = 0 /\ sum[1] = sum[0] + legs[1]
    BY <1>1, ElapsedSums
  <1>3. \A i \in 1 .. n : legs[1] <= sum[i] /\ sum[i] <= sum[n]
    <2>1. \A i \in 1 .. n : sum[1] <= sum[i] /\ sum[i] <= sum[n]
      BY <1>1, ElapsedGrows
    <2> HIDE DEF sum
    <2> QED BY <1>1, <1>2, <2>1
  <1>4. Anchors(legs, total) =
          [i \in 1 .. n |-> IF i = n THEN total ELSE Rounded((sum[i] - legs[1]) * total, sum[n])]
    BY DEF Anchors, Total
  <1> HIDE DEF n, sum
  <1>5. sum[n] \in Nat \ {0}
    BY <1>1, <1>2, <1>3
  <1>6. ASSUME NEW i \in 1 .. n
        PROVE  Rounded((sum[i] - legs[1]) * total, sum[n]) \in 0 .. total
    <2> DEFINE part == sum[i] - legs[1]
    <2>1. part \in Nat /\ part <= sum[n]
      BY <1>1, <1>2, <1>3
    <2> HIDE DEF part
    <2>2. part * total \in Nat /\ part * total <= total * sum[n]
      BY <1>5, <2>1
    <2>3. Rounded(part * total, sum[n]) \in Nat /\ Rounded(part * total, sum[n]) <= total
      BY <1>5, <2>2, RoundedBound
    <2> QED BY <2>3 DEF part
  <1>7. Rounded((sum[1] - legs[1]) * total, sum[n]) = 0
    <2>1. (sum[1] - legs[1]) * total = 0
      BY <1>1, <1>2
    <2> QED BY <1>5, <2>1, RoundedBound
  <1> DEFINE anchors == Anchors(legs, total)
  <1>8. anchors \in [1 .. n -> 0 .. total]
    BY <1>4, <1>6
  <1>9. anchors[1] = 0 /\ anchors[n] = total
    BY <1>1, <1>4, <1>7
  <1> HIDE DEF anchors
  <1>10. anchors \in Seq(0 .. total) /\ Len(anchors) = n
    BY <1>1, <1>8, IsASeq, LenProperties
  <1> QED BY <1>1, <1>9, <1>10 DEF anchors, AnchorsOn

\* No waypoint is anchored behind an earlier one.
InOrder(anchors) ==
  \A i, k \in 1 .. Len(anchors) : i <= k => anchors[i] <= anchors[k]

\* The first duration is left out of every sum alike and the last anchor is the
\* greatest (camera_path.py, build_camera_path; playback.py,
\* _compute_waypoint_anchors).
LEMMA AnchorsInOrder ==
  ASSUME NEW legs \in Seq(Legs), Len(legs) >= 2, NEW total \in Nat
  PROVE  InOrder(Anchors(legs, total))
  <1> DEFINE n == Len(legs)
             sum == Elapsed(legs)
             anchors == Anchors(legs, total)
             Place(i) == (sum[i] - legs[1]) * total
  <1>1. n \in Nat /\ n >= 2 /\ \A i \in 1 .. n : legs[i] \in Nat /\ legs[i] > 0
    BY DEF Legs
  <1>2. /\ \A i \in 0 .. n : sum[i] \in Nat
        /\ sum[0] = 0 /\ sum[1] = sum[0] + legs[1]
    BY <1>1, ElapsedSums
  <1>3. \A i, k \in 1 .. n : i <= k => sum[i] <= sum[k]
    BY <1>1, ElapsedGrows
  <1>4. anchors = [i \in 1 .. n |-> IF i = n THEN total ELSE Rounded(Place(i), sum[n])]
    BY DEF Anchors, Total
  <1>5. AnchorsOn(anchors, total)
    BY AnchorsOnPath
  <1> HIDE DEF n, sum, anchors
  <1>6. Len(anchors) = n /\ \A i \in 1 .. n : anchors[i] <= total
    <2>1. DOMAIN anchors = 1 .. n
      BY <1>4
    <2> QED BY <1>1, <1>5, <2>1, LenProperties DEF AnchorsOn
  <1>7. sum[n] \in Nat \ {0}
    <2>1. 1 \in 1 .. n /\ n \in 1 .. n
      BY <1>1
    <2>2. sum[1] <= sum[n]
      BY <1>1, <1>3, <2>1
    <2> QED BY <1>1, <1>2, <2>1, <2>2
  <1>8. ASSUME NEW i \in 1 .. n, NEW k \in 1 .. n, i <= k, k # n
        PROVE  Rounded(Place(i), sum[n]) <= Rounded(Place(k), sum[n])
    <2> DEFINE x == sum[i] - legs[1]
               y == sum[k] - legs[1]
    <2>1. x \in Nat /\ y \in Nat /\ x <= y
      <3>1. 1 \in 1 .. n /\ 1 <= i /\ 1 <= k
        BY <1>1
      <3>2. sum[1] <= sum[i] /\ sum[1] <= sum[k] /\ sum[i] <= sum[k]
        BY <1>3, <1>8, <3>1
      <3>3. sum[i] \in Nat /\ sum[k] \in Nat /\ sum[1] = legs[1] /\ legs[1] \in Nat
        BY <1>1, <1>2, <3>1
      <3> QED BY <3>2, <3>3
    <2> HIDE DEF x, y
    <2>2. x * total \in Nat /\ y * total \in Nat /\ x * total <= y * total
      BY <2>1
    <2> QED BY <1>7, <2>2, RoundedInOrder DEF x, y
  <1>9. ASSUME NEW i \in 1 .. n, NEW k \in 1 .. n, i <= k PROVE anchors[i] <= anchors[k]
    <2>1. CASE k = n
      BY <1>4, <1>6, <2>1
    <2>2. CASE k # n
      <3>1. i # n
        BY <1>1, <1>9, <2>2
      <3> HIDE DEF Place
      <3>2. anchors[i] = Rounded(Place(i), sum[n]) /\ anchors[k] = Rounded(Place(k), sum[n])
        BY <1>4, <2>2, <3>1
      <3> QED BY <1>8, <1>9, <2>2, <3>2
    <2> QED BY <2>1, <2>2
  <1>10. InOrder(anchors)
    BY <1>6, <1>9 DEF InOrder
  <1> QED BY <1>10 DEF anchors

\* The number of steps is a count.
LEMMA TotalIsCount ==
  ASSUME NEW legs \in Seq(Legs), NEW speed \in Nat \ {0}
  PROVE  TotalSteps(legs, speed) \in Nat
  <1>1. Grain \in Nat \ {0} /\ StepsPerSecond \in Nat
    BY VoyageAssumption DEF VoyageAssumption
  <1>2. Len(legs) \in Nat /\ Total(legs) \in Nat
    BY ElapsedSums DEF Total
  <1>3. Total(legs) * StepsPerSecond \in Nat /\ Grain * speed \in Nat \ {0}
    BY <1>1, <1>2
  <1>4. Rounded(Total(legs) * StepsPerSecond, Grain * speed) \in Nat
    BY <1>3, RoundedBound
  <1> QED BY <1>2, <1>4 DEF TotalSteps

-----------------------------------------------------------------------------
EngineType == [owner : Missions, total : Nat, anchors : Seq(Nat), speed : Nat \ {0},
               step : Nat, playing : BOOLEAN, since : Nat, synced : Nat \cup {None}]

\* The pose of an engine is on its path, no further from the last synced one
\* than the sync counter says, and at either end it is the synced one, unless
\* nothing has moved it since it was built.
EngineShape(e) ==
  /\ e \in EngineType
  /\ AnchorsOn(e.anchors, e.total) /\ InOrder(e.anchors)
  /\ e.step <= e.total
  /\ e.step - CountedFrom(e) <= e.since /\ CountedFrom(e) - e.step <= e.since
  /\ e.step \in {0, e.total} =>
       e.synced = e.step \/ (e.synced = None /\ e.step = 0 /\ e.since = 0)

\* A fresh engine (playback.py, Playback.__init__; make_playback).
LEMMA FreshEngine ==
  ASSUME NEW m \in Missions, wps[m] \in Seq(Waypoints), Len(CameraPath(m)) >= 2,
         NEW pathSpeed \in Nat \ {0}, NEW speed \in Nat \ {0}
  PROVE  EngineShape(Playback(m, pathSpeed, speed)) /\ Playback(m, pathSpeed, speed).owner = m
  <1> DEFINE legs == CameraPath(m)
             total == TotalSteps(legs, pathSpeed)
             anchors == Anchors(legs, total)
  <1>1. legs \in Seq(Legs)
    BY PathOfLegs DEF CameraPath
  <1>2. total \in Nat
    BY <1>1, TotalIsCount
  <1>3. AnchorsOn(anchors, total)
    <2> HIDE DEF total
    <2> QED BY <1>1, <1>2, AnchorsOnPath
  <1>9. InOrder(anchors)
    <2> HIDE DEF total
    <2> QED BY <1>1, <1>2, AnchorsInOrder
  <1>4. Playback(m, pathSpeed, speed) =
          [owner |-> m, total |-> total, anchors |-> anchors, speed |-> speed,
           step |-> 0, playing |-> FALSE, since |-> 0, synced |-> None]
    BY DEF Playback
  <1> HIDE DEF anchors, total, legs
  <1>5. anchors \in Seq(Nat)
    BY <1>2, <1>3 DEF AnchorsOn
  <1> DEFINE e == Playback(m, pathSpeed, speed)
  <1>6. e \in EngineType
    BY <1>2, <1>4, <1>5 DEF EngineType
  <1>7. e.anchors = anchors /\ e.total = total /\ e.step = 0 /\ e.synced = None /\ e.since = 0
        /\ e.owner = m
    BY <1>4
  <1> HIDE DEF e
  <1>10. CountedFrom(e) = 0
    BY <1>7 DEF CountedFrom
  <1>8. EngineShape(e)
    BY <1>2, <1>3, <1>6, <1>7, <1>9, <1>10 DEF EngineShape
  <1> QED BY <1>7, <1>8 DEF e

\* There is a waypoint at every step, and the next one is ahead of it
\* (playback.py, _waypoint_index_at_step).
LEMMA WaypointBehind ==
  ASSUME NEW e, EngineShape(e), NEW step \in Nat
  PROVE  LET i == WaypointAt(e, step)
         IN  /\ i \in Nat /\ i \in 1 .. Len(e.anchors)
             /\ e.anchors[i] <= step
             /\ i < Len(e.anchors) => e.anchors[i + 1] > step
  <1> DEFINE n == Len(e.anchors)
             Behind == {i \in 1 .. n : \A j \in 1 .. i : e.anchors[j] <= step}
  <1>1. /\ DOMAIN e.anchors = 1 .. n /\ n \in Nat /\ n >= 2
        /\ \A i \in 1 .. n : e.anchors[i] \in Nat
        /\ e.anchors[1] = 0
    BY DEF EngineShape, EngineType, AnchorsOn
  <1>2. 1 \in Behind /\ Behind \in SUBSET (0 .. n)
    BY <1>1
  <1>3. PICK i \in Behind : \A k \in Behind : k <= i
    <2> HIDE DEF Behind, n
    <2> QED BY <1>1, <1>2, GreatestBounded
  <1>4. ASSUME i < n PROVE e.anchors[i + 1] > step
    <2>1. i \in Nat /\ i + 1 \in 1 .. n /\ i + 1 \notin Behind
      BY <1>1, <1>3, <1>4
    <2>2. \E j \in 1 .. i + 1 : ~(e.anchors[j] <= step)
      BY <2>1
    <2>3. ~(e.anchors[i + 1] <= step)
      BY <1>3, <2>1, <2>2
    <2> QED BY <1>1, <2>1, <2>3
  <1>5. \E w \in DOMAIN e.anchors :
          /\ \A j \in 1 .. w : e.anchors[j] <= step
          /\ w < Len(e.anchors) => e.anchors[w + 1] > step
    BY <1>1, <1>3, <1>4
  <1> DEFINE w == WaypointAt(e, step)
  <1>6. /\ w \in DOMAIN e.anchors
        /\ \A j \in 1 .. w : e.anchors[j] <= step
        /\ w < Len(e.anchors) => e.anchors[w + 1] > step
    BY <1>5 DEF WaypointAt
  <1> HIDE DEF w
  <1>7. w \in 1 .. w
    BY <1>1, <1>6
  <1> QED BY <1>1, <1>6, <1>7 DEF w

\* The cadence of a speed is a positive number of steps
\* (playback.py, _effective_sync_cadence).
LEMMA CadencePositive == ASSUME NEW speed \in Nat \ {0} PROVE Cadence(speed) \in Nat \ {0}
  <1>1. StepsPerSecond \in Nat \ {0} /\ SyncEvery \in Nat \ {0}
    BY VoyageAssumption DEF VoyageAssumption
  <1>2. StepsPerSecond * speed \in Nat
    BY <1>1
  <1>3. Cadence(speed) \in {StepsPerSecond * speed, SyncEvery}
        /\ (Cadence(speed) = StepsPerSecond * speed => Cadence(speed) # 0 \/ Cadence(speed) = SyncEvery)
    <2>1. CASE StepsPerSecond * speed > MaxRate /\ StepsPerSecond * speed > SyncEvery
      BY <1>1, <1>2, <2>1 DEF Cadence
    <2>2. CASE ~(StepsPerSecond * speed > MaxRate /\ StepsPerSecond * speed > SyncEvery)
      BY <1>1, <2>2 DEF Cadence
    <2> QED BY <2>1, <2>2
  <1> QED BY <1>1, <1>2, <1>3

\* The pose is less than a cadence from the last synced one.
WithinCadence(e) ==
  /\ e.step - CountedFrom(e) < Cadence(e.speed)
  /\ CountedFrom(e) - e.step < Cadence(e.speed)

\* An engine that is another one's after an operation of its transport.
Follower(d, e) == EngineShape(d) /\ d.owner = e.owner /\ d.speed = e.speed

\* The cadence of an engine that has synced counts from there; it is a step.
LEMMA CountedFromSync ==
  ASSUME NEW e PROVE (e.synced \in Nat => CountedFrom(e) = e.synced)
                     /\ (e.synced \in Nat \cup {None} => CountedFrom(e) \in Nat)
  BY VoyageAssumption DEF VoyageAssumption, CountedFrom

\* What a pose with a sync of its own is worth.
LEMMA SyncedInTime ==
  ASSUME NEW e, EngineShape(e), e.synced = e.step PROVE WithinCadence(e)
  <1>1. e.step \in Nat /\ e.speed \in Nat \ {0}
    BY DEF EngineShape, EngineType
  <1>2. Cadence(e.speed) \in Nat \ {0}
    BY <1>1, CadencePositive
  <1>3. CountedFrom(e) = e.step
    BY <1>1, CountedFromSync
  <1> QED BY <1>1, <1>2, <1>3 DEF WithinCadence

\* A seek is synced where it lands (playback.py, stop, jump_to_start,
\* jump_to_end, scrub_to_progress).
LEMMA SeekShape ==
  ASSUME NEW e, EngineShape(e), NEW step \in 0 .. e.total
  PROVE  LET d == SeekTo(e, step)
         IN  Follower(d, e) /\ WithinCadence(d) /\ d.step = step
  <1> DEFINE d == SeekTo(e, step)
  <1>1. step \in Nat /\ e.total \in Nat
    BY DEF EngineShape, EngineType
  <1>2. /\ d \in EngineType
        /\ d.step = step /\ d.synced = step /\ d.since = 0
        /\ d.owner = e.owner /\ d.speed = e.speed /\ d.total = e.total /\ d.anchors = e.anchors
    BY <1>1 DEF SeekTo, SyncTick, EngineShape, EngineType
  <1> HIDE DEF d
  <1>3. CountedFrom(d) = step
    BY <1>1, <1>2, CountedFromSync
  <1>4. EngineShape(d)
    BY <1>1, <1>2, <1>3 DEF EngineShape
  <1> QED BY <1>2, <1>4, SyncedInTime DEF d, Follower

\* A jump lands on an anchor and is synced there (playback.py, jump_to_waypoint).
LEMMA JumpShape ==
  ASSUME NEW e, EngineShape(e), NEW i \in Int
  PROVE  LET d == JumpToWaypoint(e, i)
         IN  /\ Follower(d, e) /\ WithinCadence(d)
             /\ i \in 1 .. Len(e.anchors) => d.step = e.anchors[i]
  <1> DEFINE n == Len(e.anchors)
             idx == IF i < 1 THEN 1 ELSE IF i > n THEN n ELSE i
             d == JumpToWaypoint(e, i)
  <1>1. n \in Nat /\ n >= 2 /\ e.total \in Nat /\ e.anchors \in Seq(0 .. e.total) /\ e.since \in Nat
    BY DEF EngineShape, EngineType, AnchorsOn
  <1>2. idx \in 1 .. n /\ (i \in 1 .. n => idx = i)
    BY <1>1
  <1>3. d = SyncTick([e EXCEPT !.step = e.anchors[idx]])
    BY DEF JumpToWaypoint
  <1> HIDE DEF d, idx
  <1>4. e.anchors[idx] \in 0 .. e.total
    BY <1>1, <1>2
  <1> DEFINE there == [e EXCEPT !.step = e.anchors[idx]]
  <1>5. /\ there \in EngineType
        /\ there.step = e.anchors[idx] /\ there.since = e.since
        /\ there.owner = e.owner /\ there.speed = e.speed /\ there.total = e.total
        /\ there.anchors = e.anchors
    <2>1. e.anchors[idx] \in Nat /\ e \in EngineType
      BY <1>1, <1>4 DEF EngineShape
    <2> QED BY <2>1 DEF EngineType
  <1>6. d = SyncTick(there)
    BY <1>3
  <1> HIDE DEF there
  <1>7. /\ d \in EngineType
        /\ d.step = e.anchors[idx] /\ d.synced = d.step /\ d.since = e.since
        /\ d.owner = e.owner /\ d.speed = e.speed /\ d.total = e.total /\ d.anchors = e.anchors
    BY <1>5, <1>6 DEF SyncTick, EngineType
  <1>10. CountedFrom(d) = d.step
    BY <1>1, <1>4, <1>7, CountedFromSync
  <1>8. EngineShape(d)
    BY <1>1, <1>4, <1>7, <1>10 DEF EngineShape
  <1>9. Follower(d, e) /\ WithinCadence(d)
    BY <1>7, <1>8, SyncedInTime DEF Follower
  <1> QED BY <1>2, <1>7, <1>9 DEF d

\* A single step either syncs or is still within the cadence
\* (playback.py, _move_by).
LEMMA MoveShape ==
  ASSUME NEW e, EngineShape(e), NEW delta \in {-1, 1}
  PROVE  LET d == MoveBy(e, delta) IN Follower(d, e) /\ WithinCadence(d)
  <1> DEFINE to   == IF e.step + delta >= e.total THEN e.total
                     ELSE IF e.step + delta < 0 THEN 0 ELSE e.step + delta
             here == [e EXCEPT !.step = to, !.playing = @ /\ e.step + delta < e.total]
             d    == MoveBy(e, delta)
  <1>1. /\ e \in EngineType
        /\ e.total \in Nat /\ e.step \in Nat /\ e.since \in Nat
        /\ e.synced \in Nat \cup {None} /\ CountedFrom(e) \in Nat
        /\ e.speed \in Nat \ {0} /\ e.playing \in BOOLEAN /\ e.step <= e.total
    BY CountedFromSync DEF EngineShape, EngineType
  <1>2. to \in 0 .. e.total /\ to - e.step <= 1 /\ e.step - to <= 1
    BY <1>1
  <1>3. d = IF SyncDue(e, to) THEN SyncTick([here EXCEPT !.since = 0])
            ELSE [here EXCEPT !.since = @ + 1]
    BY DEF MoveBy
  <1>4. /\ here \in EngineType
        /\ here.step = to /\ here.synced = e.synced /\ here.since = e.since
        /\ here.owner = e.owner /\ here.speed = e.speed /\ here.total = e.total
        /\ here.anchors = e.anchors
    <2> HIDE DEF to
    <2>1. to \in Nat
      BY <1>1, <1>2
    <2> QED BY <1>1, <2>1 DEF EngineType
  <1> HIDE DEF d, here, to
  <1>5. CASE SyncDue(e, to)
    <2>1. /\ d \in EngineType
          /\ d.step = to /\ d.synced = to /\ d.since = 0
          /\ d.owner = e.owner /\ d.speed = e.speed /\ d.total = e.total /\ d.anchors = e.anchors
      BY <1>3, <1>4, <1>5 DEF SyncTick, EngineType
    <2>3. CountedFrom(d) = to
      BY <1>1, <1>2, <2>1, CountedFromSync
    <2>2. EngineShape(d)
      BY <1>1, <1>2, <2>1, <2>3 DEF EngineShape
    <2> QED BY <2>1, <2>2, SyncedInTime DEF Follower, d
  <1>6. CASE ~SyncDue(e, to)
    <2>1. /\ d \in EngineType
          /\ d.step = to /\ d.synced = e.synced /\ d.since = e.since + 1
          /\ d.owner = e.owner /\ d.speed = e.speed /\ d.total = e.total /\ d.anchors = e.anchors
      <3>1. d = [here EXCEPT !.since = here.since + 1]
        BY <1>3, <1>6
      <3>2. here.since + 1 \in Nat
        BY <1>1, <1>4
      <3> QED BY <1>4, <3>1, <3>2 DEF EngineType
    <2>2. to \notin {0, e.total} /\ ~(e.since + 1 >= Cadence(e.speed))
      BY <1>6 DEF SyncDue
    <2>3. Cadence(e.speed) \in Nat
      BY <1>1, CadencePositive
    <2>4. CountedFrom(d) = CountedFrom(e)
          /\ to - CountedFrom(d) <= e.since + 1 /\ CountedFrom(d) - to <= e.since + 1
      <3>1. e.step - CountedFrom(e) <= e.since /\ CountedFrom(e) - e.step <= e.since
        BY DEF EngineShape
      <3>2. CountedFrom(d) = CountedFrom(e)
        BY <2>1 DEF CountedFrom
      <3> QED BY <1>1, <1>2, <3>1, <3>2
    <2>5. EngineShape(d)
      BY <1>1, <1>2, <2>1, <2>2, <2>4 DEF EngineShape
    <2>6. WithinCadence(d)
      BY <1>1, <1>2, <2>1, <2>2, <2>3, <2>4 DEF WithinCadence
    <2> QED BY <2>1, <2>5, <2>6 DEF Follower, d
  <1> QED BY <1>5, <1>6

\* Setting the speed or the play flag leaves the pose and its sync alone.
LEMMA KnobShape ==
  ASSUME NEW e, EngineShape(e), NEW speed \in Nat \ {0}, NEW on \in BOOLEAN
  PROVE  /\ EngineShape([e EXCEPT !.speed = speed])
         /\ [e EXCEPT !.speed = speed].owner = e.owner
         /\ [e EXCEPT !.speed = speed].step = e.step
         /\ [e EXCEPT !.speed = speed].total = e.total
         /\ Follower([e EXCEPT !.playing = on], e)
         /\ [e EXCEPT !.playing = on].step = e.step
         /\ [e EXCEPT !.playing = on].total = e.total
  <1> DEFINE d == [e EXCEPT !.speed = speed]
             f == [e EXCEPT !.playing = on]
  <1>1. /\ d \in EngineType
        /\ d.step = e.step /\ d.synced = e.synced /\ d.since = e.since /\ d.owner = e.owner
        /\ d.total = e.total /\ d.anchors = e.anchors
    BY DEF EngineShape, EngineType
  <1>2. /\ f \in EngineType
        /\ f.step = e.step /\ f.synced = e.synced /\ f.since = e.since /\ f.owner = e.owner
        /\ f.total = e.total /\ f.anchors = e.anchors /\ f.speed = e.speed
    BY DEF EngineShape, EngineType
  <1> HIDE DEF d, f
  <1>4. CountedFrom(d) = CountedFrom(e) /\ CountedFrom(f) = CountedFrom(e)
    BY <1>1, <1>2 DEF CountedFrom
  <1>3. EngineShape(d) /\ EngineShape(f)
    BY <1>1, <1>2, <1>4 DEF EngineShape
  <1> QED BY <1>1, <1>2, <1>3 DEF d, f, Follower

\* Every button of the transport keeps the engine an engine of its mission,
\* and one that moves the cursor leaves it within the cadence.
LEMMA DrivenShape ==
  ASSUME NEW e, EngineShape(e), NEW t \in Transports
  PROVE  LET d == Driven(e, t)
         IN  /\ EngineShape(d) /\ d.owner = e.owner
             /\ d.step # e.step \/ t = "stop" => WithinCadence(d)
  <1> DEFINE d == Driven(e, t)
             paused == [e EXCEPT !.playing = FALSE]
  <1>1. /\ Follower([e EXCEPT !.playing = TRUE], e) /\ [e EXCEPT !.playing = TRUE].step = e.step
        /\ Follower(paused, e) /\ paused.step = e.step /\ paused.total = e.total
    BY KnobShape DEF EngineShape, EngineType
  <1>2. /\ e.step \in Nat /\ e.total \in Nat /\ EngineShape(paused) /\ paused.owner = e.owner
        /\ WaypointAt(e, e.step) \in Nat
    <2>1. e.step \in Nat /\ e.total \in Nat /\ EngineShape(paused) /\ paused.owner = e.owner
      BY <1>1 DEF EngineShape, EngineType, Follower
    <2> QED BY <2>1, WaypointBehind
  <1> HIDE DEF paused
  <1>3. ASSUME t = "play" PROVE EngineShape(d) /\ d.owner = e.owner /\ d.step = e.step
    <2>1. d = [e EXCEPT !.playing = TRUE]
      BY <1>3 DEF Driven
    <2> QED BY <1>1, <2>1 DEF Follower
  <1>4. ASSUME t = "pause" PROVE EngineShape(d) /\ d.owner = e.owner /\ d.step = e.step
    <2>1. d = paused
      BY <1>4 DEF Driven, paused
    <2> QED BY <1>1, <2>1 DEF Follower
  <1> DEFINE Landed == EngineShape(d) /\ d.owner = e.owner /\ WithinCadence(d)
  <1>5. CASE t = "stop"
    <2>1. d = SeekTo(paused, 0)
      BY <1>5 DEF Driven, paused
    <2>2. Landed
      BY <1>1, <1>2, <2>1, SeekShape DEF Follower
    <2> QED BY <2>2
  <1>6. CASE t = "jump_start"
    <2>1. d = SeekTo(e, 0)
      BY <1>6 DEF Driven
    <2>2. Landed
      BY <1>2, <2>1, SeekShape DEF Follower
    <2> QED BY <2>2
  <1>7. CASE t = "jump_end"
    <2>1. d = SeekTo(paused, e.total)
      BY <1>7 DEF Driven, paused
    <2>2. Landed
      BY <1>1, <1>2, <2>1, SeekShape DEF Follower
    <2> QED BY <2>2
  <1>8. CASE t = "next"
    <2>1. d = JumpToWaypoint(e, WaypointAt(e, e.step) + 1)
      BY <1>8 DEF Driven, NextWaypoint
    <2>2. WaypointAt(e, e.step) + 1 \in Int
      BY <1>2
    <2>3. Landed
      BY <2>1, <2>2, JumpShape DEF Follower
    <2> QED BY <2>3
  <1>9. CASE t = "prev"
    <2>1. WaypointAt(e, e.step) \in Int /\ WaypointAt(e, e.step) - 1 \in Int
      BY <1>2
    <2>2. \E i \in Int : d = JumpToWaypoint(e, i)
      BY <1>9, <2>1 DEF Driven, PreviousWaypoint
    <2>3. Landed
      BY <2>2, JumpShape DEF Follower
    <2> QED BY <2>3
  <1>10. CASE t \in {"step_fwd", "step_back"}
    <2>1. \E delta \in {-1, 1} : d = MoveBy(e, delta)
      BY <1>10 DEF Driven
    <2>2. Landed
      BY <2>1, MoveShape DEF Follower
    <2> QED BY <2>2
  <1> QED BY <1>3, <1>4, <1>5, <1>6, <1>7, <1>8, <1>9, <1>10 DEF Transports, d

-----------------------------------------------------------------------------
VoyageType ==
  /\ list \in Seq(Missions)
  /\ wps \in [Missions -> Seq(Waypoints)]
  /\ pick \in Nat

\* The loaded engine is in shape, and its mission is in the list.
EngineKnown == eng # None => EngineShape(eng) /\ eng.owner \in Listed

VoyageInv == VoyageType /\ EngineKnown

\* A cursor that has moved is less than a cadence from the synced pose.
MovedInTime == eng # None /\ eng' # None /\ eng'.step # eng.step => WithinCadence(eng')

\* The active mission is one of the list (main_dialog.py, _active_mission).
LEMMA ActiveIsListed ==
  ASSUME VoyageType, NEW l \in Seq(Missions), NEW a, ActiveMission(l, a) # None
  PROVE  ActiveMission(l, a) \in Range(l) /\ ActiveMission(l, a) \in Missions
  <1>1. \A i \in 1 .. Len(l) : l[i] \in Range(l) /\ l[i] \in Missions
    BY DEF Range
  <1>2. CASE a \in Range(l)
    BY <1>2 DEF ActiveMission, Range
  <1>3. CASE a \notin Range(l)
    <2>1. pick < Len(l) /\ ActiveMission(l, a) = l[pick + 1]
      BY <1>3 DEF ActiveMission
    <2>2. pick + 1 \in 1 .. Len(l)
      BY <2>1 DEF VoyageType
    <2> QED BY <1>1, <2>1, <2>2
  <1> QED BY <1>2, <1>3

\* A new mission goes to the end of the list.
LEMMA RegisterKeeps ==
  ASSUME VoyageInv, NEW m \in Missions, NEW content \in Seq(Waypoints), Register(m, content)
  PROVE  VoyageInv' /\ MovedInTime
  <1>1. VoyageType'
    BY DEF VoyageInv, VoyageType, Register
  <1>2. Range(list) \subseteq Range(Append(list, m))
    <2> DEFINE longer == Append(list, m)
    <2>1. list \in Seq(Missions)
      BY DEF VoyageInv, VoyageType
    <2>2. \A i \in DOMAIN list : i \in DOMAIN longer /\ longer[i] = list[i]
      BY <2>1, AppendProperties
    <2> HIDE DEF longer
    <2>3. Range(list) \subseteq Range(longer)
      BY <2>2 DEF Range
    <2> QED BY <2>3 DEF longer
  <1>3. EngineKnown'
    BY <1>2 DEF VoyageInv, EngineKnown, Register, Listed
  <1> QED BY <1>1, <1>3 DEF VoyageInv, MovedInTime, Register

\* A change of the waypoints of a mission leaves the list and the engine.
LEMMA EditKeeps ==
  ASSUME VoyageInv, UNCHANGED <<list, pick, eng>>, wps' \in [Missions -> Seq(Waypoints)]
  PROVE  VoyageInv' /\ MovedInTime
  BY DEF VoyageInv, VoyageType, EngineKnown, Listed, MovedInTime

\* A transport button keeps the loaded engine or builds one for the active
\* mission (main_dialog.py, the mission transport handlers).
LEMMA TransportKeeps ==
  ASSUME VoyageInv, NEW t \in Transports, NEW speed \in Speeds, Transport(t, speed)
  PROVE  VoyageInv' /\ MovedInTime
  <1> DEFINE m == ActiveMission(list, active)
             fresh == eng = None \/ t = "stop"
             set == [eng EXCEPT !.speed = speed]
             new == Playback(m, speed, speed)
  <1>1. VoyageType' /\ Listed' = Listed
    BY DEF VoyageInv, VoyageType, Transport, Listed
  <1>2. speed \in Nat \ {0}
    BY VoyageAssumption DEF VoyageAssumption
  <1>3. /\ m # None
        /\ eng' = IF ~fresh THEN Driven(set, t)
                  ELSE IF Len(CameraPath(m)) < 2 THEN eng ELSE Driven(new, t)
    BY DEF Transport
  <1>4. m \in Listed /\ m \in Missions
    BY <1>3, ActiveIsListed DEF VoyageInv, VoyageType, Listed
  <1>5. ASSUME ~fresh PROVE EngineKnown' /\ MovedInTime
    <2>1. EngineShape(eng) /\ eng.owner \in Listed
      BY <1>5 DEF VoyageInv, EngineKnown
    <2>2. EngineShape(set) /\ set.owner = eng.owner /\ set.step = eng.step
      BY <1>2, <2>1, KnobShape
    <2> HIDE DEF set
    <2>3. EngineShape(eng') /\ eng'.owner = eng.owner
          /\ (eng'.step # eng.step => WithinCadence(eng'))
      BY <1>3, <1>5, <2>2, DrivenShape
    <2> QED BY <1>1, <2>1, <2>3 DEF EngineKnown, MovedInTime
  <1>6. ASSUME fresh, Len(CameraPath(m)) < 2 PROVE EngineKnown' /\ MovedInTime
    <2>1. eng' = eng
      BY <1>3, <1>6
    <2> QED BY <1>1, <2>1 DEF VoyageInv, EngineKnown, MovedInTime
  <1>7. ASSUME fresh, ~(Len(CameraPath(m)) < 2) PROVE EngineKnown' /\ MovedInTime
    <2>1. wps[m] \in Seq(Waypoints)
      BY <1>4 DEF VoyageInv, VoyageType
    <2>2. Len(CameraPath(m)) >= 2
      <3>1. Len(CameraPath(m)) \in Nat
        BY <2>1, PathOfLegs DEF CameraPath
      <3> QED BY <1>7, <3>1
    <2>3. EngineShape(new) /\ new.owner = m
      <3> HIDE DEF m
      <3> QED BY <1>2, <1>4, <2>1, <2>2, FreshEngine
    <2> HIDE DEF new, m
    <2>4. EngineShape(eng') /\ eng'.owner = m /\ (t = "stop" => WithinCadence(eng'))
      BY <1>3, <1>7, <2>3, DrivenShape
    <2> QED BY <1>1, <1>4, <1>7, <2>4 DEF EngineKnown, MovedInTime
  <1> QED BY <1>1, <1>5, <1>6, <1>7 DEF VoyageInv

\* So does the slider (main_dialog.py, the scrub handler).
LEMMA ScrubKeeps ==
  ASSUME VoyageInv, NEW speed \in Speeds, Scrub(speed)
  PROVE  VoyageInv' /\ MovedInTime
  <1> DEFINE m == ActiveMission(list, active)
             e == IF eng = None THEN Playback(m, speed, 1) ELSE eng
  <1>1. VoyageType' /\ Listed' = Listed
    BY DEF VoyageInv, VoyageType, Scrub, Listed
  <1>2. speed \in Nat \ {0}
    BY VoyageAssumption DEF VoyageAssumption
  <1>3. /\ eng = None => m # None /\ Len(CameraPath(m)) >= 2
        /\ \E k \in 0 .. e.total : eng' = SeekTo(e, k)
    BY DEF Scrub
  <1>4. EngineShape(e) /\ e.owner \in Listed
    <2>1. CASE eng = None
      <3>1. m \in Listed /\ m \in Missions
        BY <1>3, <2>1, ActiveIsListed DEF VoyageInv, VoyageType, Listed
      <3>2. wps[m] \in Seq(Waypoints)
        BY <3>1 DEF VoyageInv, VoyageType
      <3> HIDE DEF m
      <3>3. EngineShape(Playback(m, speed, 1)) /\ Playback(m, speed, 1).owner = m
        BY <1>2, <1>3, <2>1, <3>1, <3>2, FreshEngine
      <3> QED BY <2>1, <3>1, <3>3
    <2>2. CASE eng # None
      BY <2>2 DEF VoyageInv, EngineKnown
    <2> QED BY <2>1, <2>2
  <1> HIDE DEF e
  <1>5. EngineShape(eng') /\ eng'.owner = e.owner /\ WithinCadence(eng')
    BY <1>3, <1>4, SeekShape DEF Follower
  <1> QED BY <1>1, <1>4, <1>5 DEF VoyageInv, EngineKnown, MovedInTime

\* Every step keeps the engine in shape and of a mission of the list, and
\* keeps a moved cursor within the cadence.
LEMMA VoyageStep ==
  VoyageInv /\ [VoyageNext]_voyageVars => VoyageInv' /\ MovedInTime
  <1> SUFFICES ASSUME VoyageInv, [VoyageNext]_voyageVars PROVE VoyageInv' /\ MovedInTime
    OBVIOUS
  <1>1. CASE NewMission
    <2>1. <<>> \in Seq(Waypoints)
      OBVIOUS
    <2> QED BY <1>1, <2>1, RegisterKeeps DEF NewMission
  <1>2. CASE ImportMission
    <2>1. \A f \in Files : f \in Seq(Waypoints)
      BY VoyageAssumption DEF VoyageAssumption
    <2> QED BY <1>2, <2>1, RegisterKeeps DEF ImportMission
  <1>3. CASE DuplicateMission
    <2>1. wps[ActiveMission(list, active)] \in Seq(Waypoints)
      BY <1>3, ActiveIsListed DEF DuplicateMission, VoyageInv, VoyageType
    <2> QED BY <1>3, <2>1, RegisterKeeps DEF DuplicateMission
  <1>4. CASE DeleteMission
    <2>1. list' \in Seq(Missions)
      <3>1. PICK i \in DOMAIN list : list' = RemoveAt(list, i)
        BY <1>4 DEF DeleteMission
      <3>2. list \in Seq(Missions) /\ i \in 1 .. Len(list)
        BY DEF VoyageInv, VoyageType
      <3> QED BY <3>1, <3>2, RemoveAtProperties
    <2>2. wps' \in [Missions -> Seq(Waypoints)]
      BY <1>4 DEF DeleteMission, VoyageInv, VoyageType
    <2>3. eng' = None /\ pick' = pick
      BY <1>4 DEF DeleteMission, EngineDropped
    <2> QED BY <2>1, <2>2, <2>3 DEF VoyageInv, VoyageType, EngineKnown, MovedInTime
  <1>5. CASE AddWaypoint
    <2>1. \A s \in Seq(Waypoints) : Append(s, Unresolved) \in Seq(Waypoints)
      BY AppendProperties DEF Waypoints
    <2>2. wps' \in [Missions -> Seq(Waypoints)]
      BY <1>5, <2>1 DEF AddWaypoint, VoyageInv, VoyageType
    <2> QED BY <1>5, <2>2, EditKeeps DEF AddWaypoint
  <1>6. CASE RemoveLastWaypoint
    <2> DEFINE m == ActiveMission(list, active)
    <2>1. wps \in [Missions -> Seq(Waypoints)] /\ wps' = [wps EXCEPT ![m] = Front(@)]
      BY <1>6 DEF RemoveLastWaypoint, VoyageInv, VoyageType
    <2>2. wps[m] \in Seq(Waypoints) /\ wps[m] # <<>>
      BY <1>6, <2>1, ActiveIsListed DEF RemoveLastWaypoint, VoyageInv, VoyageType
    <2> HIDE DEF m
    <2>3. Front(wps[m]) \in Seq(Waypoints)
      <3>1. PICK s \in Seq(Waypoints) : s = wps[m] /\ s # <<>>
        BY <2>2
      <3>2. Len(s) \in Nat /\ Len(s) # 0
        BY <3>1, EmptySeq
      <3>3. SubSeq(s, 1, Len(s) - 1) \in Seq(Waypoints)
        BY <3>2, SubSeqProperties
      <3> QED BY <3>1, <3>3 DEF Front
    <2>4. wps' \in [Missions -> Seq(Waypoints)]
      BY <2>1, <2>3
    <2> QED BY <1>6, <2>4, EditKeeps DEF RemoveLastWaypoint
  <1>7. CASE Advance
    <2>1. eng # None /\ eng' = MoveBy(eng, 1) /\ UNCHANGED <<list, wps, active, pick>>
      BY <1>7 DEF Advance
    <2>2. EngineShape(eng) /\ eng.owner \in Listed
      BY <2>1 DEF VoyageInv, EngineKnown
    <2>3. EngineShape(eng') /\ eng'.owner = eng.owner /\ WithinCadence(eng')
      BY <2>1, <2>2, MoveShape DEF Follower
    <2> QED BY <2>1, <2>2, <2>3 DEF VoyageInv, VoyageType, EngineKnown, Listed, MovedInTime
  <1>8. ASSUME NEW k \in 0 .. Len(list), Pick(k) PROVE VoyageInv' /\ MovedInTime
    BY <1>8 DEF Pick, VoyageInv, VoyageType, EngineKnown, Listed, MovedInTime
  <1>9. CASE UNCHANGED voyageVars
    BY <1>9 DEF voyageVars, VoyageInv, VoyageType, EngineKnown, Listed, MovedInTime
  <1> QED
    BY <1>1, <1>2, <1>3, <1>4, <1>5, <1>6, <1>7, <1>8, <1>9, TransportKeeps, ScrubKeeps
    DEF VoyageNext

\* The tab begins without missions and without an engine.
LEMMA VoyageBegins == VoyageInit => VoyageInv
  BY DEF VoyageInit, VoyageInv, VoyageType, EngineKnown

\* The invariant the results about playback rest on.
LEMMA VoyageInvariance == VoyageSpec => []VoyageInv
  BY VoyageBegins, VoyageStep, PTL DEF VoyageSpec

\* At both ends of its path a loaded engine has synced the pose it shows,
\* whatever moved it there (playback.py, _move_by and the jumps); an engine
\* that nothing has moved yet may stand at the start without.
THEOREM EndsSynced == VoyageSpec => []EndsAreSynced
  <1>1. VoyageInv => EndsAreSynced
    BY DEF VoyageInv, EngineKnown, EngineShape, EndsAreSynced
  <1> QED BY VoyageInvariance, <1>1, PTL

\* The loaded engine is never one of a mission that has been deleted
\* (main_dialog.py, the mission handlers).
THEOREM EngineIsListed == VoyageSpec => []EngineOfListedMission
  <1>1. VoyageInv => EngineOfListedMission
    BY DEF VoyageInv, EngineKnown, EngineOfListedMission
  <1> QED BY VoyageInvariance, <1>1, PTL

\* A moved cursor is less than one cadence from the pose last synced
\* (playback.py, _move_by, _effective_sync_cadence).
THEOREM SyncsInTime == VoyageSpec => SyncOnTime
  <1>1. MovedInTime =>
          (eng # None /\ eng' # None /\ eng'.step # eng.step =>
             /\ eng'.step - CountedFrom(eng') < Cadence(eng'.speed)
             /\ CountedFrom(eng') - eng'.step < Cadence(eng'.speed))
    BY DEF MovedInTime, WithinCadence
  <1>2. VoyageInv /\ [VoyageNext]_voyageVars => [MovedInTime]_voyageVars
    BY VoyageStep
  <1> QED BY VoyageInvariance, <1>1, <1>2, PTL DEF VoyageSpec, SyncOnTime

\* Next goes forward from every step short of the end, also where rounding
\* puts several waypoints on one step (playback.py, jump_to_next_waypoint).
THEOREM NextIsForward == VoyageSpec => NextGoesForward
  <1> DEFINE Forward ==
        \A speed \in Speeds :
          eng # None /\ Transport("next", speed) /\ eng.step < eng.total => eng'.step > eng.step
  <1>1. ASSUME VoyageInv, NEW speed \in Speeds, eng # None, Transport("next", speed),
               eng.step < eng.total
        PROVE  eng'.step > eng.step
    <2> DEFINE e == [eng EXCEPT !.speed = speed]
               i == WaypointAt(e, e.step)
    <2>1. speed \in Nat \ {0} /\ EngineShape(eng)
      BY <1>1, VoyageAssumption DEF VoyageAssumption, VoyageInv, EngineKnown
    <2>2. EngineShape(e) /\ e.step = eng.step /\ e.total = eng.total
      BY <2>1, KnobShape
    <2>3. eng' = NextWaypoint(e)
      BY <1>1 DEF Transport, Driven
    <2> HIDE DEF e
    <2>4. /\ e.step \in Nat /\ e.total \in Nat /\ Len(e.anchors) \in Nat
          /\ e.anchors[Len(e.anchors)] = e.total
          /\ \A j \in 1 .. Len(e.anchors) : e.anchors[j] \in Nat
      BY <2>2 DEF EngineShape, EngineType, AnchorsOn
    <2>5. /\ i \in Nat /\ i \in 1 .. Len(e.anchors)
          /\ e.anchors[i] <= e.step
          /\ i < Len(e.anchors) => e.anchors[i + 1] > e.step
      BY <2>2, <2>4, WaypointBehind
    <2>6. eng' = JumpToWaypoint(e, i + 1)
      BY <2>3 DEF NextWaypoint
    <2> HIDE DEF i
    <2>7. i # Len(e.anchors)
      BY <1>1, <2>2, <2>4, <2>5
    <2>8. i + 1 \in 1 .. Len(e.anchors) /\ i < Len(e.anchors) /\ i + 1 \in Int
      BY <2>4, <2>5, <2>7
    <2>9. eng'.step = e.anchors[i + 1]
      BY <2>2, <2>6, <2>8, JumpShape
    <2> QED BY <2>2, <2>5, <2>8, <2>9
  <1>2. VoyageInv => Forward
    BY <1>1
  <1>3. Forward =>
          (\A speed \in Speeds :
             eng # None /\ Transport("next", speed) /\ eng.step < eng.total =>
               eng'.step > eng.step)
    OBVIOUS
  <1> HIDE DEF Forward
  <1>4. VoyageInv /\ [VoyageNext]_voyageVars => [Forward]_voyageVars
    BY <1>2
  <1> QED BY VoyageInvariance, <1>3, <1>4, PTL DEF VoyageSpec, NextGoesForward

\* Whatever the durations and the speed, the waypoint that is named for a step
\* of the path is the last one whose anchor that step has reached (playback.py,
\* _waypoint_index_at_step, which stops at the first anchor ahead).
THEOREM LastReached == VoyageSpec => []WaypointIsLastReached
  <1>1. ASSUME VoyageInv, eng # None, NEW step \in 0 .. eng.total,
               NEW i \in DOMAIN eng.anchors, eng.anchors[i] <= step
        PROVE  i <= WaypointAt(eng, step)
    <2> DEFINE n == Len(eng.anchors)
               w == WaypointAt(eng, step)
    <2>1. EngineShape(eng)
      BY <1>1 DEF VoyageInv, EngineKnown
    <2>2. /\ n \in Nat /\ i \in 1 .. n /\ step \in Nat
          /\ \A k \in 1 .. n : eng.anchors[k] \in Nat
          /\ \A j, k \in 1 .. n : j <= k => eng.anchors[j] <= eng.anchors[k]
      <3>1. eng.anchors \in Seq(Nat) /\ eng.total \in Nat
        BY <2>1 DEF EngineShape, EngineType
      <3>2. InOrder(eng.anchors)
        BY <2>1 DEF EngineShape
      <3>3. DOMAIN eng.anchors = 1 .. n /\ n \in Nat
        BY <3>1
      <3>4. \A k \in 1 .. n : eng.anchors[k] \in Nat
        BY <3>1
      <3> QED BY <1>1, <3>1, <3>2, <3>3, <3>4 DEF InOrder
    <2>3. w \in 1 .. n /\ (w < n => eng.anchors[w + 1] > step)
      BY <2>1, <2>2, WaypointBehind
    <2> HIDE DEF n, w
    <2>4. ASSUME w < i PROVE FALSE
      <3>1. w < n /\ w + 1 \in 1 .. n /\ w + 1 <= i
        BY <2>2, <2>3, <2>4
      <3>2. eng.anchors[w + 1] <= eng.anchors[i]
        BY <2>2, <3>1
      <3> QED BY <1>1, <2>2, <2>3, <3>1, <3>2
    <2>5. i <= w
      BY <2>2, <2>3, <2>4
    <2> QED BY <2>5 DEF w
  <1>2. VoyageInv => WaypointIsLastReached
    BY <1>1 DEF WaypointIsLastReached
  <1> QED BY VoyageInvariance, <1>2, PTL

-----------------------------------------------------------------------------
(* External tools: ToolRunner *)

\* What a child process is.
ChildType == [state : {"running", "hung", "dying", "exited"}, code : {Unset, 0, 1, 137},
              open : BOOLEAN, due : Nat, wrote : Nat]

\* Every line a child wrote is in the pipe or with the runner; wait is only
\* reached once the pipe is empty and closed; and only a child that wrote all
\* it was to write exits with 0 by itself (tool_runner.py).
LinesAccounted ==
  /\ phase \in {"idle", "reading", "waiting", "expired", "killing"}
  /\ job \in {"tool", "probe"}
  /\ child \in ChildType
  /\ pipe \in Nat /\ captured \in Nat
  /\ child.wrote = captured + pipe
  /\ phase = "waiting" => pipe = 0 /\ ~child.open
  /\ child.state = "exited" /\ child.code = 0 => child.wrote = child.due

RunnerInv == LinesAccounted /\ OutcomeIsTheChilds

\* The panel begins with no run behind it.
LEMMA InitRunnerInv == RunnerInit => RunnerInv
  <1> SUFFICES ASSUME RunnerInit PROVE RunnerInv
    OBVIOUS
  <1>1. child \in ChildType /\ child.wrote = 0 /\ child.due = 0
    BY DEF RunnerInit, Spawned, ChildType
  <1>2. LinesAccounted
    BY <1>1 DEF RunnerInit, LinesAccounted
  <1>3. OutcomeIsTheChilds
    BY RunnerAssumption DEF RunnerAssumption, RunnerInit, OutcomeIsTheChilds, Outcomes
  <1> QED BY <1>2, <1>3 DEF RunnerInv

\* A child that ends has closed its output and keeps the count of its lines.
LEMMA EndedAccount ==
  ASSUME LinesAccounted, NEW code \in {0, 1, 137}
  PROVE  /\ Ended(code) \in ChildType
         /\ Ended(code).code = code /\ ~Ended(code).open
         /\ Ended(code).due = child.due /\ Ended(code).wrote = child.wrote
  BY DEF LinesAccounted, ChildType, Ended

\* A child that is struck owes what it owed and writes no more by itself.
LEMMA StruckAccount ==
  ASSUME LinesAccounted
  PROVE  /\ Struck(child) \in ChildType
         /\ Struck(child).state \in {child.state, "dying"} /\ Struck(child).open = child.open
         /\ Struck(child).code = child.code
         /\ Struck(child).due = child.due /\ Struck(child).wrote = child.wrote
  BY DEF LinesAccounted, ChildType, Struck

\* What the runner does keeps the account of lines.
LEMMA RunnerKeepsAccount ==
  LinesAccounted /\ [RunnerNext]_runnerVars => LinesAccounted'
  <1> SUFFICES ASSUME LinesAccounted, [RunnerNext]_runnerVars PROVE LinesAccounted'
    OBVIOUS
  <1> USE DEF LinesAccounted, ChildType
  <1>1. CASE Refuse
    BY <1>1 DEF Refuse
  <1>2. ASSUME NEW kind \in {"tool", "probe"}, NEW limit \in BOOLEAN,
               Launched(kind, limit), phase' = "reading"
        PROVE  LinesAccounted'
    BY <1>2, RunnerAssumption DEF RunnerAssumption, Launched, Spawned
  <1>3. CASE \E limit \in BOOLEAN : Launch(limit)
    BY <1>2, <1>3 DEF Launch
  <1>4. CASE Probe
    BY <1>2, <1>4 DEF Probe
  <1>5. CASE ReadLine
    BY <1>5 DEF ReadLine
  <1>6. CASE ReadRaises
    BY <1>6 DEF ReadRaises
  <1>7. CASE SeeEnd
    BY <1>7 DEF SeeEnd
  <1>8. CASE WaitReturns
    BY <1>8 DEF WaitReturns, Returned
  <1>9. CASE Expire
    BY <1>9 DEF Expire
  <1>10. CASE Kill
    BY <1>10, StruckAccount DEF Kill
  <1>11. CASE Reap
    BY <1>11 DEF Reap, Returned
  <1>12. CASE Write
    BY <1>12 DEF Write, Become
  <1>13. CASE BrokenPipe
    BY <1>13, EndedAccount DEF BrokenPipe, Become
  <1>14. CASE CloseOutput
    BY <1>14 DEF CloseOutput, Become
  <1>15. CASE \E code \in {0, 1} : Exit(code)
    BY <1>15, EndedAccount DEF Exit, Become
  <1>16. CASE Hang
    BY <1>16 DEF Hang, Become
  <1>17. CASE EndedOutside
    BY <1>17, StruckAccount DEF EndedOutside, Become
  <1>18. CASE Die
    BY <1>18, EndedAccount DEF Die, Become
  <1>19. CASE UNCHANGED runnerVars
    BY <1>19 DEF runnerVars
  <1> QED
    BY <1>1, <1>3, <1>4, <1>5, <1>6, <1>7, <1>8, <1>9, <1>10, <1>11, <1>12, <1>13, <1>14,
       <1>15, <1>16, <1>17, <1>18, <1>19 DEF RunnerNext

\* The outcome is told as the run ends, from the process as it is then; what
\* has exited stays as it is until the next run.
LEMMA OutcomeStep ==
  RunnerInv /\ [RunnerNext]_runnerVars => OutcomeIsTheChilds'
  <1> SUFFICES ASSUME RunnerInv, [RunnerNext]_runnerVars PROVE OutcomeIsTheChilds'
    OBVIOUS
  <1> USE DEF RunnerInv, OutcomeIsTheChilds
  <1>1. CASE Refuse \/ ReadRaises
    BY <1>1 DEF Refuse, ReadRaises
  <1>2. CASE (\E limit \in BOOLEAN : Launch(limit)) \/ Probe
    BY <1>2 DEF Launch, Probe
  <1>3. CASE ReadLine \/ SeeEnd \/ Expire \/ Kill
    BY <1>3 DEF ReadLine, SeeEnd, Expire, Kill
  <1>4. CASE WaitReturns
    <2>1. child.state = "exited" /\ child' = child /\ captured' = captured /\ job' = job
          /\ last' = IF job = "tool" THEN IF child.code = 0 THEN "ok" ELSE "failed" ELSE last
      BY <1>4 DEF WaitReturns, Returned
    <2>2. child.code = 0 => captured = child.due
      BY <1>4, <2>1 DEF WaitReturns, LinesAccounted
    <2> QED BY <2>1, <2>2
  <1>5. CASE Reap
    BY <1>5 DEF Reap, Returned
  <1>6. ASSUME UNCHANGED <<phase, job, captured, last>>, child.state # "exited"
        PROVE  OutcomeIsTheChilds'
    BY <1>6
  <1>7. CASE Write \/ BrokenPipe \/ CloseOutput \/ Hang \/ EndedOutside \/ Die
    BY <1>6, <1>7 DEF Write, BrokenPipe, CloseOutput, Hang, EndedOutside, Die, Become
  <1>8. CASE \E code \in {0, 1} : Exit(code)
    BY <1>6, <1>8 DEF Exit, Become
  <1>9. CASE UNCHANGED runnerVars
    BY <1>9 DEF runnerVars
  <1> QED
    BY <1>1, <1>2, <1>3, <1>4, <1>5, <1>7, <1>8, <1>9 DEF RunnerNext

\* A success reported by the panel is a process that exited with 0 after its
\* whole output was read, a failure another exit, and a timeout is told only
\* of a process that is gone (run_tool, _default_subprocess_runner).
THEOREM OutcomesAreTrue == RunnerSpec => []OutcomeIsTheChilds
  <1>1. RunnerInv /\ [RunnerNext]_runnerVars => RunnerInv'
    BY RunnerKeepsAccount, OutcomeStep DEF RunnerInv
  <1>2. RunnerInv => OutcomeIsTheChilds
    BY DEF RunnerInv
  <1> QED BY InitRunnerInv, <1>1, <1>2, PTL DEF RunnerSpec

-----------------------------------------------------------------------------
(* Why a run ends: what of its liveness needs no fairness *)

\* A child prints no more than it has, closes its output only after that, and
\* has no output left once it is gone; a killed one is gone or going.
RunShape ==
  /\ child.wrote <= child.due
  /\ child.state = "exited" => ~child.open
  /\ ~child.open => child.wrote = child.due \/ child.state = "exited"
  /\ phase = "killing" => child.state \in {"dying", "exited"}

RunInv == LinesAccounted /\ RunShape

\* The shape of a run is kept.
LEMMA RunShapeKept == RunInv /\ [RunnerNext]_runnerVars => RunShape'
  <1> SUFFICES ASSUME RunInv, [RunnerNext]_runnerVars PROVE RunShape'
    OBVIOUS
  <1> USE DEF RunInv, RunShape
  <1>0. LinesAccounted
    OBVIOUS
  <1>1. CASE Refuse \/ ReadLine \/ ReadRaises \/ SeeEnd \/ WaitReturns \/ Expire
    BY <1>1 DEF Refuse, ReadLine, ReadRaises, SeeEnd, WaitReturns, Expire, Returned
  <1>2. ASSUME NEW kind, NEW limit, Launched(kind, limit), phase' = "reading"
        PROVE  RunShape'
    <2>1. child'.wrote = 0 /\ child'.due \in Nat /\ child'.open /\ child'.state = "running"
      BY <1>2, RunnerAssumption DEF RunnerAssumption, Launched, Spawned
    <2> QED BY <1>2, <2>1
  <1>3. CASE (\E limit \in BOOLEAN : Launch(limit)) \/ Probe
    BY <1>2, <1>3 DEF Launch, Probe
  <1>4. CASE Kill \/ EndedOutside
    <2>1. /\ Struck(child).open = child.open
          /\ Struck(child).due = child.due /\ Struck(child).wrote = child.wrote
          /\ Struck(child).state = IF child.state = "exited" THEN "exited" ELSE "dying"
      BY <1>0 DEF LinesAccounted, ChildType, Struck
    <2>2. child' = Struck(child)
      BY <1>4 DEF Kill, EndedOutside, Become
    <2> QED BY <2>1, <2>2
  <1>5. CASE Reap
    BY <1>5 DEF Reap, Returned
  <1>6. CASE Write
    BY <1>0, <1>6 DEF LinesAccounted, ChildType, Write, Become
  <1>7. ASSUME NEW code \in {0, 1, 137}, Become(Ended(code)) PROVE RunShape'
    <2>1. /\ Ended(code).state = "exited" /\ ~Ended(code).open
          /\ Ended(code).due = child.due /\ Ended(code).wrote = child.wrote
      BY <1>0 DEF LinesAccounted, ChildType, Ended
    <2> QED BY <1>7, <2>1 DEF Become
  <1>8. CASE BrokenPipe \/ (\E code \in {0, 1} : Exit(code)) \/ Die
    BY <1>7, <1>8 DEF BrokenPipe, Exit, Die
  <1>9. CASE CloseOutput \/ Hang
    BY <1>0, <1>9 DEF LinesAccounted, ChildType, CloseOutput, Hang, Become
  <1>10. CASE UNCHANGED runnerVars
    BY <1>10 DEF runnerVars
  <1> QED
    BY <1>1, <1>3, <1>4, <1>5, <1>6, <1>8, <1>9, <1>10 DEF RunnerNext

\* It is there from the first state on.
LEMMA RunInvariance == RunnerSpec => []RunInv
  <1>1. RunnerInit => RunShape
    BY DEF RunnerInit, Spawned, RunShape
  <1>2. RunnerInit => RunInv
    BY <1>1, InitRunnerInv DEF RunInv, RunnerInv
  <1>3. RunInv /\ [RunnerNext]_runnerVars => RunInv'
    BY RunnerKeepsAccount, RunShapeKept DEF RunInv
  <1> QED BY <1>2, <1>3, PTL DEF RunnerSpec

\* During a run, the guards of Runner and of Child.
RunnerMayMove ==
  \/ phase = "reading" /\ (pipe > 0 \/ ~child.open)
  \/ phase \in {"waiting", "killing"} /\ child.state = "exited"
  \/ phase = "expired"
  \/ /\ timed /\ child.state # "exited"
     /\ phase = "waiting" \/ (phase = "reading" /\ job = "probe")

ChildMayMove ==
  \/ child.state = "dying"
  \/ /\ child.state = "running"
     /\ child.wrote = child.due \/ (child.open /\ pipe < PipeSize)

\* A hung process holds the runner only where no timeout covers it.
Covered == timed /\ (phase \in {"waiting", "expired", "killing"} \/ job = "probe")

NobodyWaitsForNobody ==
  phase # "idle" /\ (child.state # "hung" \/ Covered) => RunnerMayMove \/ ChildMayMove

\* Runner and child never wait for each other, whatever the size of the pipe and
\* the amount of output: unless the process hangs outside every timeout, one of
\* the two can go on (_default_subprocess_runner).
THEOREM NoMutualWait == RunnerSpec => []NobodyWaitsForNobody
  <1>1. ASSUME RunInv, phase # "idle", child.state # "hung" \/ Covered
        PROVE  RunnerMayMove \/ ChildMayMove
    <2> USE DEF RunInv, RunShape, LinesAccounted, ChildType
    <2>1. CASE phase = "reading"
      <3>1. CASE pipe > 0 \/ ~child.open
        BY <2>1, <3>1 DEF RunnerMayMove
      <3>2. CASE pipe = 0 /\ child.open
        <4>1. pipe < PipeSize
          BY <3>2, RunnerAssumption DEF RunnerAssumption
        <4>2. child.state \in {"running", "dying", "hung"}
          BY <1>1, <3>2
        <4> QED BY <1>1, <2>1, <3>2, <4>1, <4>2 DEF RunnerMayMove, ChildMayMove, Covered
      <3> QED BY <1>1, <3>1, <3>2
    <2>2. CASE phase = "waiting"
      <3>1. child.state = "running" => child.wrote = child.due
        BY <1>1, <2>2
      <3> QED BY <1>1, <2>2, <3>1 DEF RunnerMayMove, ChildMayMove, Covered
    <2>3. CASE phase \in {"expired", "killing"}
      BY <1>1, <2>3 DEF RunnerMayMove, ChildMayMove
    <2> QED BY <1>1, <2>1, <2>2, <2>3
  <1>2. RunInv => NobodyWaitsForNobody
    BY <1>1 DEF NobodyWaitsForNobody
  <1> QED BY RunInvariance, <1>2, PTL

\* What is left of a run: phases of the runner, states of the child, its output
\* to close, lines to write and to read.
PhasesLeft ==
  CASE phase = "idle" -> 0 [] phase = "killing" -> 1 [] phase = "expired" -> 2
    [] phase = "waiting" -> 3 [] phase = "reading" -> 4

StatesLeft(c) ==
  CASE c.state = "exited" -> 0 [] c.state = "dying" -> 1 [] c.state = "hung" -> 2
    [] c.state = "running" -> 3

LinesLeft == 2 * (child.due - child.wrote) + pipe

Work == PhasesLeft + StatesLeft(child) + (IF child.open THEN 1 ELSE 0) + LinesLeft

WorkGoesDown == [][phase # "idle" => Work \in Nat /\ Work' < Work]_runnerVars

\* A step of a run takes some of what is left of it.
LEMMA StepOfRun == RunInv /\ phase # "idle" /\ RunnerNext => Work \in Nat /\ Work' < Work
  <1> SUFFICES ASSUME RunInv, phase # "idle", RunnerNext PROVE Work \in Nat /\ Work' < Work
    OBVIOUS
  <1> DEFINE Open == IF child.open THEN 1 ELSE 0
  <1>1. /\ child.state \in {"running", "hung", "dying", "exited"} /\ child.open \in BOOLEAN
        /\ child.due \in Nat /\ child.wrote \in Nat /\ child.wrote <= child.due
        /\ pipe \in Nat /\ phase \in {"idle", "reading", "waiting", "expired", "killing"}
        /\ child \in ChildType
    BY DEF RunInv, RunShape, LinesAccounted, ChildType
  <1>2. PhasesLeft \in 0 .. 4 /\ StatesLeft(child) \in 0 .. 3 /\ Open \in 0 .. 1
        /\ LinesLeft \in Nat
    BY <1>1 DEF PhasesLeft, StatesLeft, LinesLeft
  <1>3. /\ phase' \in {"idle", "reading", "waiting", "expired", "killing"}
        /\ StatesLeft(child') \in 0 .. StatesLeft(child) /\ child'.open = child.open
        /\ LinesLeft' = LinesLeft /\ PhasesLeft' < PhasesLeft
        => Work \in Nat /\ Work' < Work
    <2>1. phase' \in {"idle", "reading", "waiting", "expired", "killing"} => PhasesLeft' \in 0 .. 4
      BY DEF PhasesLeft
    <2> QED BY <1>2, <2>1 DEF Work
  <1>4. /\ phase' = phase /\ StatesLeft(child') \in 0 .. StatesLeft(child)
        /\ child'.open => child.open
        /\ LinesLeft' = LinesLeft
        /\ StatesLeft(child') < StatesLeft(child) \/ (child.open /\ ~child'.open)
        => Work \in Nat /\ Work' < Work
    <2>1. phase' = phase => PhasesLeft' = PhasesLeft
      BY DEF PhasesLeft
    <2>2. (child'.open => child.open) =>
            /\ (IF child'.open THEN 1 ELSE 0) \in 0 .. Open
            /\ child.open /\ ~child'.open => (IF child'.open THEN 1 ELSE 0) < Open
      OBVIOUS
    <2> QED BY <1>2, <2>1, <2>2 DEF Work
  <1>5. CASE ReadLine
    <2>1. LinesLeft' = LinesLeft - 1 /\ child' = child /\ PhasesLeft' = PhasesLeft
      BY <1>1, <1>5 DEF ReadLine, LinesLeft, PhasesLeft
    <2> QED BY <1>2, <2>1 DEF Work
  <1>6. CASE ReadRaises \/ SeeEnd \/ WaitReturns \/ Expire \/ Reap
    <2>1. child' = child /\ pipe' = pipe
      BY <1>6 DEF ReadRaises, SeeEnd, WaitReturns, Expire, Reap, Returned
    <2>2. PhasesLeft' < PhasesLeft /\ phase' \in {"idle", "waiting", "expired"}
      BY <1>6 DEF ReadRaises, SeeEnd, WaitReturns, Expire, Reap, Returned, PhasesLeft
    <2>3. LinesLeft' = LinesLeft
      BY <2>1 DEF LinesLeft
    <2> QED BY <1>2, <1>3, <2>1, <2>2, <2>3
  <1>7. /\ StatesLeft(Struck(child)) \in 0 .. StatesLeft(child)
        /\ child.state \in {"running", "hung"} => StatesLeft(Struck(child)) < StatesLeft(child)
        /\ Struck(child).open = child.open
        /\ Struck(child).due = child.due /\ Struck(child).wrote = child.wrote
    BY <1>1 DEF ChildType, Struck, StatesLeft
  <1>8. CASE Kill
    <2>1. child' = Struck(child) /\ pipe' = pipe /\ phase = "expired" /\ phase' = "killing"
      BY <1>8 DEF Kill
    <2>2. LinesLeft' = LinesLeft /\ PhasesLeft' < PhasesLeft
      BY <1>7, <2>1 DEF LinesLeft, PhasesLeft
    <2> QED BY <1>3, <1>7, <2>1, <2>2
  <1>9. CASE EndedOutside
    <2>1. child' = Struck(child) /\ pipe' = pipe /\ phase' = phase
          /\ child.state \in {"running", "hung"}
      BY <1>9 DEF EndedOutside, Become
    <2>2. LinesLeft' = LinesLeft
      BY <1>7, <2>1 DEF LinesLeft
    <2> QED BY <1>4, <1>7, <2>1, <2>2
  <1>10. CASE Write
    <2> DEFINE c == [child EXCEPT !.wrote = @ + 1]
    <2>1. child' = c /\ pipe' = pipe + 1 /\ phase' = phase /\ child.wrote < child.due
      BY <1>10 DEF Write, Become
    <2>2. c.wrote = child.wrote + 1 /\ c.due = child.due /\ c.open = child.open
          /\ c.state = child.state
      BY <1>1 DEF ChildType
    <2> HIDE DEF c
    <2>3. LinesLeft' = LinesLeft - 1
      BY <1>1, <2>1, <2>2 DEF LinesLeft
    <2>4. PhasesLeft' = PhasesLeft /\ StatesLeft(child') = StatesLeft(child)
          /\ child'.open = child.open
      BY <2>1, <2>2 DEF PhasesLeft, StatesLeft
    <2> QED BY <1>2, <2>3, <2>4 DEF Work
  <1>11. ASSUME NEW code \in {0, 1, 137}, Become(Ended(code)), pipe' = pipe,
                child.state # "exited"
         PROVE  Work \in Nat /\ Work' < Work
    <2>1. /\ Ended(code).state = "exited" /\ ~Ended(code).open
          /\ Ended(code).due = child.due /\ Ended(code).wrote = child.wrote
      BY <1>1 DEF ChildType, Ended
    <2>2. child' = Ended(code) /\ phase' = phase
      BY <1>11 DEF Become
    <2>3. StatesLeft(child') = 0 /\ StatesLeft(child) > 0 /\ LinesLeft' = LinesLeft
      BY <1>1, <1>11, <2>1, <2>2 DEF StatesLeft, LinesLeft
    <2> QED BY <1>2, <1>4, <2>1, <2>2, <2>3
  <1>12. CASE (\E code \in {0, 1} : Exit(code)) \/ Die
    BY <1>11, <1>12 DEF Exit, Die
  <1>13. CASE CloseOutput
    <2> DEFINE c == [child EXCEPT !.open = FALSE]
    <2>1. child' = c /\ pipe' = pipe /\ phase' = phase /\ child.open
      BY <1>13 DEF CloseOutput, Become
    <2>2. c.wrote = child.wrote /\ c.due = child.due /\ ~c.open /\ c.state = child.state
      BY <1>1 DEF ChildType
    <2> HIDE DEF c
    <2>3. LinesLeft' = LinesLeft /\ StatesLeft(child') = StatesLeft(child)
      BY <2>1, <2>2 DEF LinesLeft, StatesLeft
    <2> QED BY <1>2, <1>4, <2>1, <2>2, <2>3
  <1>14. CASE Hang
    <2> DEFINE c == [child EXCEPT !.state = "hung"]
    <2>1. child' = c /\ pipe' = pipe /\ phase' = phase /\ child.state = "running"
      BY <1>14 DEF Hang, Become
    <2>2. c.wrote = child.wrote /\ c.due = child.due /\ c.open = child.open /\ c.state = "hung"
      BY <1>1 DEF ChildType
    <2> HIDE DEF c
    <2>3. LinesLeft' = LinesLeft /\ StatesLeft(child') = 2 /\ StatesLeft(child) = 3
      BY <2>1, <2>2 DEF LinesLeft, StatesLeft
    <2> QED BY <1>4, <2>1, <2>2, <2>3
  <1>15. ~Refuse /\ ~Probe /\ ~BrokenPipe /\ ~(\E limit \in BOOLEAN : Launch(limit))
    BY DEF Refuse, Probe, BrokenPipe, Launch, Launched
  <1> QED
    BY <1>5, <1>6, <1>8, <1>9, <1>10, <1>12, <1>13, <1>14, <1>15 DEF RunnerNext

\* Every step of a run, hanging and being ended from outside included, takes
\* from a natural number: no run goes on for ever, and with NoMutualWait it
\* stops only at its end or with a process that hangs.
THEOREM RunsAreFinite == RunnerSpec => WorkGoesDown
  <1> DEFINE Down == phase # "idle" => Work \in Nat /\ Work' < Work
  <1>1. RunInv /\ [RunnerNext]_runnerVars => [Down]_runnerVars
    BY StepOfRun
  <1>2. RunnerSpec => [][Down]_runnerVars
    <2> HIDE DEF Down
    <2> QED BY RunInvariance, <1>1, PTL DEF RunnerSpec
  <1> QED BY <1>2 DEF WorkGoesDown
=============================================================================
