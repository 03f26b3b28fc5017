--------------------------- MODULE MCNativeBridge ---------------------------
(* Small instances of NativeBridge: visible sets below, at and above both caps. *)
EXTENDS NativeBridge

CONSTANTS few, many, empty

MCSector == {empty, few, many}
MCSize == [s \in MCSector |-> IF s = many THEN 4 ELSE IF s = few THEN 1 ELSE 0]
==============================================================================
