--------------------------- MODULE MCWindowCache ---------------------------
(* Small instances of WindowCache: calls that need one window each. *)
EXTENDS WindowCache

OneKey == {<<k>> : k \in Keys}
=============================================================================
