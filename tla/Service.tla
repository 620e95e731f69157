--------------------------------- MODULE Service -------------------------------
(***************************************************************************)
(* What start() and stop() promise of a server, whatever they say in its   *)
(* status word: one worker at a time, each on a socket that listens, and   *)
(* the clients are freed and the socket is opened or closed while there is *)
(* none.  It is promised until somebody spoils it.                         *)
(***************************************************************************)
CONSTANTS Worker

VARIABLES
  serving,   \* the workers that run
  past,      \* those that run or did
  listening, \* the listening socket is open
  emptied,   \* the clients are freed and the socket is still to be closed
  spoilt     \* nothing is promised any more

vars == <<serving, past, listening, emptied, spoilt>>

Init ==
  /\ serving = {} /\ past = {}
  /\ listening = FALSE /\ emptied = FALSE /\ spoilt = FALSE

\* A socket is opened, or none can be and the old one is forgotten.
Open ==
  /\ serving = {} /\ ~emptied
  /\ listening' \in BOOLEAN
  /\ UNCHANGED <<serving, past, emptied, spoilt>>

Launch(w) ==
  /\ serving = {} /\ listening /\ ~emptied
  /\ w \notin past
  /\ serving' = {w}
  /\ past' = past \cup {w}
  /\ UNCHANGED <<listening, emptied, spoilt>>

End(w) ==
  /\ w \in serving
  /\ serving' = serving \ {w}
  /\ UNCHANGED <<past, listening, emptied, spoilt>>

Empty ==
  /\ serving = {} /\ ~emptied
  /\ emptied' = TRUE
  /\ UNCHANGED <<serving, past, listening, spoilt>>

Shut ==
  /\ emptied
  /\ emptied' = FALSE
  /\ listening' = FALSE
  /\ UNCHANGED <<serving, past, spoilt>>

Spoil == spoilt' = TRUE

\* A service stays spoilt.
Anything == spoilt /\ spoilt'

Next ==
  \/ Open \/ Empty \/ Shut
  \/ \E w \in Worker : Launch(w) \/ End(w)
  \/ Spoil \/ Anything

Spec == Init /\ [][Next]_vars
================================================================================
