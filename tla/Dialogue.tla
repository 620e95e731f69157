-------------------------------- MODULE Dialogue -------------------------------
(***************************************************************************)
(* What a session promises to the application of a client: the server      *)
(* gives the client an identity before it says anything else, the client   *)
(* learns it once and before it hears anything else, and then it hears     *)
(* what the server said, from the first message on, each once and in       *)
(* order.  The server may lose the identity on its way: then the client    *)
(* mistakes the first message for it and hears the rest.  When the session *)
(* is over, nothing of it is left.                                         *)
(***************************************************************************)
EXTENDS Naturals, Sequences

CONSTANTS
  Id,   \* identities
  None  \* no identity

VARIABLES
  on,    \* a session is under way
  named, \* the identity that the server gave
  lost,  \* ... and lost on its way
  known, \* the identity that the client knows
  said,  \* how many messages the server has sent
  heard  \* the messages that the client was given, by their numbers

vars == <<on, named, lost, known, said, heard>>

\* Nothing has been agreed upon and nothing has been said.
Blank(n, l, k, s, h) == n = None /\ ~l /\ k = None /\ s = 0 /\ h = <<>>

Init == on = FALSE /\ Blank(named, lost, known, said, heard)

Begin == ~on /\ on' = TRUE /\ Blank(named', lost', known', said', heard')

Name ==
  /\ on /\ named = None
  /\ named' \in Id
  /\ UNCHANGED <<on, lost, known, said, heard>>

\* Nothing else has been said yet.
Lose ==
  /\ on /\ named # None /\ known = None /\ said = 0
  /\ ~lost /\ lost' = TRUE
  /\ UNCHANGED <<on, named, known, said, heard>>

Learn ==
  /\ on /\ named # None /\ ~lost /\ known = None
  /\ known' = named
  /\ UNCHANGED <<on, named, lost, said, heard>>

\* The client makes an identity of the first message.
Mistake ==
  /\ on /\ lost /\ known = None /\ said > 0
  /\ known' \in Id
  /\ UNCHANGED <<on, named, lost, said, heard>>

Say ==
  /\ on /\ named # None
  /\ said' = said + 1
  /\ UNCHANGED <<on, named, lost, known, heard>>

\* The message to be heard next.
Due == Len(heard) + IF lost THEN 2 ELSE 1

Hear ==
  /\ on /\ known # None
  /\ Due <= said
  /\ heard' = Append(heard, Due)
  /\ UNCHANGED <<on, named, lost, known, said>>

End == on /\ on' = FALSE /\ Blank(named', lost', known', said', heard')

Next == Begin \/ Name \/ Lose \/ Learn \/ Mistake \/ Say \/ Hear \/ End

Spec == Init /\ [][Next]_vars
================================================================================
