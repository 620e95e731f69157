--------------------------- MODULE MCServerRegistry ---------------------------
(* Small instances of ServerRegistry for TLC. *)
EXTENDS ServerRegistry

\* Addresses and descriptors are interchangeable: no action and no invariant
\* names one.  (Not used by the runs that check a temporal property.)
Symmetry == Permutations(Conn) \cup Permutations(Fd) \cup Permutations(Id)
              \cup Permutations(Nick)
===============================================================================
