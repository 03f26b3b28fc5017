--------------------------- MODULE MCSectorStream ---------------------------
EXTENDS SectorStream

Object(u, p) == [uid |-> u, pos |-> p]

MCCatalogs ==
  {{}, {Object(1, 2)},
   {Object(1, 0), Object(2, 4)},
   {Object(1, 0), Object(2, 2), Object(3, 6)},
   {Object(1, 4), Object(2, 4), Object(3, 8), Object(4, 0)}}

MCRows == {Object(1, 1), Object(2, 3), Object(3, 5)}

MCPoses == [at : {0, 2, 5}, forward : {-1, 0, 1}, near : {0, 2}, far : {3, 6}]
=============================================================================
