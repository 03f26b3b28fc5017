-------------------------- MODULE MCVoyagePlayback --------------------------
EXTENDS VoyagePlayback, TLC

\* A mission whose middle waypoint shares its step with the first, one whose
\* waypoints are steps apart, and one with an unresolved waypoint.
MCFiles == {<<3, 1, 4>>, <<1, 8, 4>>, <<4, Unresolved, 2>>}

Symmetry == Permutations(Missions)
=============================================================================
