------------------------- MODULE MCPresentationRuntime -------------------------
\* Four steps, two of them blank, in shows of three, and a tour of two chapters.
EXTENDS PresentationRuntime, TLC

CONSTANTS intro, close, pan, hold

MCSteps == {intro, close, pan, hold}
MCLook == [s \in MCSteps |-> IF s = intro THEN "wide"
                             ELSE IF s = close THEN "tight" ELSE "blank"]
MCChapters == <<"c1", "c2">>

\* The two blank steps are alike.
Symmetry == Permutations({pan, hold})
=============================================================================
