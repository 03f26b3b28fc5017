---------------------------- MODULE PresentationRuntime ----------------------------
(***************************************************************************)
(* The presentation runtime (presentation/presentation_state.py), the      *)
(* document it walks (presentation_sequence.py) and the exhibition wrapper *)
(* around it (exhibition_mode.py, ui/exhibition_panel.py), as the panels'  *)
(* buttons drive them.  The runtime keeps a reference to the document      *)
(* object, so an editor's add, remove and move reach a running show at     *)
(* once, while the cards it shows were resolved when the show started.     *)
(*                                                                         *)
(* The eight inherited fields of a step (camera, target, fov, epoch, two   *)
(* flag dicts, two annotation lists) go through the same code and are one  *)
(* value here, its look; Blank is the field left empty.  A comment at the  *)
(* camera (presentation_sequence.py:99-101) has an empty camera come from  *)
(* the mission's path instead: nothing in the code does that.              *)
(***************************************************************************)
EXTENDS Integers, Sequences, FiniteSets, SequencesExt

CONSTANTS Steps,        \* step ids
          Look,         \* the look each step sets itself, or Blank
          Blank,
          MaxSteps,     \* MAX_STEPS_PER_PRESENTATION
          Chapters,     \* the chapter ids of the tour, in order
          Uids,         \* objects a presenter may highlight
          Nothing       \* "" or None: no chapter, no highlight, no card

ASSUME PresentationAssumption ==
  /\ MaxSteps \in Nat
  /\ Chapters \in Seq(STRING)
  /\ Nothing \notin Uids

VARIABLES doc,          \* the steps of the document object, in order
          show,         \* PresentationState
          exh,          \* ExhibitionState
          cursor        \* ChapterCursor.current_chapter_index, 0 for idle

vars == <<doc, show, exh, cursor>>

Statuses == {"idle", "running", "paused", "finished"}

Idle == [status |-> "idle", index |-> 0, loaded |-> FALSE, cards |-> << >>,
         pose |-> FALSE]

DefaultExhibition ==
  [active |-> FALSE, locked |-> FALSE, view |-> "presenter", notes |-> TRUE,
   highlight |-> Nothing, chapter |-> Nothing, pose |-> FALSE]

\* Indices are one-based: 0 is the code's -1.
Init == /\ doc = << >>
        /\ show = Idle
        /\ exh = DefaultExhibition
        /\ cursor = 0

\* The bug to catch: a blank step takes the previous step's own field rather
\* than what the previous step resolved to.
ResolvedFromNeighbour(steps) ==
  [i \in 1..Len(steps) |->
     [id |-> steps[i],
      look |-> IF Look[steps[i]] # Blank \/ i = 1 THEN Look[steps[i]]
               ELSE Look[steps[i - 1]]]]

\* resolved_steps: front to back, a blank field takes what the step before
\* it resolved to.
Resolved(steps) ==
  LET look[i \in 0..Len(steps)] ==
        IF i = 0 THEN Blank
        ELSE IF Look[steps[i]] # Blank THEN Look[steps[i]] ELSE look[i - 1]
  IN  [i \in 1..Len(steps) |-> [id |-> steps[i], look |-> look[i]]]

StepTotal == IF show.loaded THEN Len(doc) ELSE 0

IsActive == show.status \in {"running", "paused"}

\* current_resolved, what the scene builder draws: an entry of the list taken
\* at the start of the show.
CurrentResolved ==
  IF show.index \in 1..Len(show.cards) THEN show.cards[show.index] ELSE Nothing

-----------------------------------------------------------------------------
\* The document

AddStep(s) ==
  /\ Len(doc) < MaxSteps
  /\ \A i \in 1..Len(doc) : doc[i] # s
  /\ doc' = Append(doc, s)
  /\ UNCHANGED <<show, exh, cursor>>

\* An id names one step of a document, which AddStep sees to.
RemoveStep(s) ==
  /\ \E i \in 1..Len(doc) : doc[i] = s /\ doc' = RemoveAt(doc, i)
  /\ UNCHANGED <<show, exh, cursor>>

\* The rest keep their order around the moved step.
MoveStep(s, to) ==
  /\ to \in 1..Len(doc)
  /\ \E i \in 1..Len(doc) : /\ doc[i] = s /\ i # to
                            /\ doc' = InsertAt(RemoveAt(doc, i), to, s)
  /\ UNCHANGED <<show, exh, cursor>>

-----------------------------------------------------------------------------
\* The show.  Starting over a show that runs is allowed.

Start ==
  /\ show' = [status |-> IF doc = << >> THEN "finished" ELSE "running",
              index |-> IF doc = << >> THEN 0 ELSE 1,
              loaded |-> TRUE, cards |-> Resolved(doc), pose |-> FALSE]
  /\ UNCHANGED <<doc, exh, cursor>>

End == /\ show' = Idle
       /\ UNCHANGED <<doc, exh, cursor>>

Pause == /\ show.status = "running"
         /\ show' = [show EXCEPT !.status = "paused"]
         /\ UNCHANGED <<doc, exh, cursor>>

Resume == /\ show.status = "paused"
          /\ show' = [show EXCEPT !.status = "running"]
          /\ UNCHANGED <<doc, exh, cursor>>

\* The bug to catch: stepping a paused show leaves it paused.
WalkToPaused(i) ==
  show' = [show EXCEPT !.index = i,
                       !.status = IF @ = "finished" THEN "running" ELSE @]

\* A step taken in any direction resumes a paused or finished show.
WalkTo(i) ==
  show' = [show EXCEPT !.index = i,
                       !.status = IF @ \in {"finished", "paused"} THEN "running"
                                  ELSE @]

NextStep ==
  /\ IsActive
  /\ IF show.index + 1 > StepTotal
     THEN show' = [show EXCEPT !.status = "finished"]
     ELSE WalkTo(show.index + 1)
  /\ UNCHANGED <<doc, exh, cursor>>

PreviousStep ==
  /\ StepTotal > 0
  /\ show.index > 1
  /\ WalkTo(show.index - 1)
  /\ UNCHANGED <<doc, exh, cursor>>

\* jump_to, and jump_to_step_id through find_step_index.
JumpTo(i) ==
  /\ i \in 1..StepTotal
  /\ i # show.index
  /\ WalkTo(i)
  /\ UNCHANGED <<doc, exh, cursor>>

\* lock_navigation and unlock_navigation of the show: the pose is kept for
\* the scene builder and cleared by start and end.
HoldPose(held) ==
  /\ show' = [show EXCEPT !.pose = held]
  /\ UNCHANGED <<doc, exh, cursor>>

-----------------------------------------------------------------------------
\* The exhibition panel

StartExhibition(view, notes, locked, pose) ==
  /\ exh' = [exh EXCEPT !.active = TRUE, !.view = view, !.notes = notes,
                        !.locked = locked, !.pose = pose]
  /\ UNCHANGED <<doc, show, cursor>>

\* The bug to catch: leaving the mode forgets the audience view.
EndExhibitionInView ==
  /\ exh' = [DefaultExhibition EXCEPT !.view = exh.view]
  /\ UNCHANGED <<doc, show, cursor>>

\* The chapter cursor is not reset.
EndExhibition ==
  /\ exh' = DefaultExhibition
  /\ UNCHANGED <<doc, show, cursor>>

ToggleView ==
  /\ exh.active
  /\ exh' = [exh EXCEPT !.view = IF @ = "presenter" THEN "audience" ELSE "presenter"]
  /\ UNCHANGED <<doc, show, cursor>>

ToggleNotes ==
  /\ exh.active
  /\ exh' = [exh EXCEPT !.notes = ~@]
  /\ UNCHANGED <<doc, show, cursor>>

LockNavigation(pose) ==
  /\ exh.active
  /\ exh' = [exh EXCEPT !.locked = TRUE, !.pose = pose]
  /\ UNCHANGED <<doc, show, cursor>>

UnlockNavigation ==
  /\ exh' = [exh EXCEPT !.locked = FALSE, !.pose = FALSE]
  /\ UNCHANGED <<doc, show, cursor>>

\* Nothing asks whether the mode is active; u may be Nothing (clear_highlight).
Highlight(u) ==
  /\ exh' = [exh EXCEPT !.highlight = u]
  /\ UNCHANGED <<doc, show, cursor>>

\* next, previous and jump_to chapter: one move of the cursor, and the
\* exhibition told when the caller passes it.
ToChapter(i, told) ==
  /\ i \in 1..Len(Chapters)
  /\ cursor' = i
  /\ exh' = IF told THEN [exh EXCEPT !.chapter = Chapters[i]] ELSE exh
  /\ UNCHANGED <<doc, show>>

NextChapter(told) == cursor + 1 <= Len(Chapters) /\ ToChapter(cursor + 1, told)

PreviousChapter(told) == cursor > 1 /\ ToChapter(cursor - 1, told)

-----------------------------------------------------------------------------
Next ==
  \/ \E s \in Steps : AddStep(s) \/ RemoveStep(s)
                      \/ \E to \in 1..MaxSteps : MoveStep(s, to)
  \/ Start \/ End \/ Pause \/ Resume \/ NextStep \/ PreviousStep
  \/ \E i \in 1..MaxSteps : JumpTo(i)
  \/ \E held \in BOOLEAN : HoldPose(held)
  \/ \E v \in {"presenter", "audience"}, n, l, p \in BOOLEAN : StartExhibition(v, n, l, p)
  \/ EndExhibition \/ ToggleView \/ ToggleNotes \/ UnlockNavigation
  \/ \E p \in BOOLEAN : LockNavigation(p)
  \/ \E u \in Uids \cup {Nothing} : Highlight(u)
  \/ \E told \in BOOLEAN : \/ NextChapter(told) \/ PreviousChapter(told)
                           \/ \E i \in 1..Len(Chapters) : ToChapter(i, told)

Spec == Init /\ [][Next]_vars

-----------------------------------------------------------------------------
\* Properties

\* What a paused show has on stage stays there while it is paused, whatever
\* the editor does to the document in the meantime and whichever button is
\* tried: the card comes from the list resolved at the start, and every step
\* taken leaves the pause.
PausedPictureHolds ==
  [][show.status = "paused" /\ show'.status = "paused"
     => CurrentResolved' = CurrentResolved]_vars

\* Every card resolved for a show has the look of the nearest step at or
\* before it that sets one, blank only when none does: a look is inherited
\* through any run of blank steps, whatever order the editor left them in.
\* For the camera that is what docs/PRESENTATION_SEQUENCES.md:65-82 promises,
\* and not what the comment at presentation_sequence.py:99-101 does.
CardIsNearest ==
  \A i \in DOMAIN show.cards :
    LET set == {j \in 1..i : Look[show.cards[j].id] # Blank}
    IN  show.cards[i].look =
          IF set = {} THEN Blank
          ELSE Look[show.cards[CHOOSE j \in set : \A k \in set : k <= j].id]

\* Outside a show the navigator is free, no pose is held, and the view and
\* the notes are the presenter's: no order of toggles, locks and restarts
\* leaves a piece of the exhibition behind it.
NothingLeftOfTheShow ==
  exh.active = FALSE => /\ exh.locked = FALSE
                        /\ exh.pose = FALSE
                        /\ exh.view = "presenter"
                        /\ exh.notes = TRUE
=============================================================================
