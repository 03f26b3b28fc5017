----------------------------- MODULE PointViewer -----------------------------
(****************************************************************************)
(* What the native point viewer promises the artist: it draws nothing, or   *)
(* the first points of one complete visible sector, the one that was on     *)
(* disk when it was last asked to load.  Nothing Python writes changes the  *)
(* picture before the next pick-up, and a damaged file is never drawn.      *)
(****************************************************************************)
EXTENDS Naturals

CONSTANTS
  Sector, \* visible sets that can be exported
  Size,   \* number of points of each
  MaxCap  \* the largest cap the engine ever applies

VARIABLES
  file, \* the complete export on disk, or "lost"
  view  \* what a redraw shows

viewerVars == <<file, view>>

Nothing == [sector |-> "none", count |-> 0]

AtMost(n, cap) == IF n < cap THEN n ELSE cap

ViewerInit ==
  /\ file = "lost"
  /\ view = Nothing

Export ==
  /\ file' \in Sector \cup {"lost"}
  /\ UNCHANGED view

PickUp ==
  /\ \/ view' = Nothing
     \/ /\ file \in Sector
        /\ \E cap \in 1 .. MaxCap :
             view' = [sector |-> file, count |-> AtMost(Size[file], cap)]
  /\ UNCHANGED file

HostDies ==
  /\ view' = Nothing
  /\ file' \in {file, "lost"}

ViewerNext == Export \/ PickUp \/ HostDies

ViewerSpec == ViewerInit /\ [][ViewerNext]_viewerVars
==============================================================================
