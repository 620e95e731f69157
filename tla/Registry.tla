-------------------------------- MODULE Registry -------------------------------
(***************************************************************************)
(* What a::Server promises about its clients, whatever tables it keeps:    *)
(* who is connected, under which ID, and in which channels.  A connection  *)
(* appears and disappears in one step, everywhere at once.                 *)
(***************************************************************************)
CONSTANTS
  Conn,    \* connections
  Id,      \* client IDs
  Chan,    \* channel names, without the main channel
  None     \* no connection

VARIABLES
  client,  \* the connection that an ID leads to
  members, \* the connections a message to everybody goes to
  joined,  \* the channels that each connection is in
  broken   \* nothing is promised any more

vars == <<client, members, joined, broken>>

Init ==
  /\ client = [i \in Id |-> None]
  /\ members = {}
  /\ joined = [c \in Conn |-> {}]
  /\ broken = FALSE

\* A newcomer gets an ID that nobody has.
Register(i, c) ==
  /\ client[i] = None
  /\ c \notin members
  /\ client' = [client EXCEPT ![i] = c]
  /\ members' = members \cup {c}
  /\ UNCHANGED <<joined, broken>>

\* The connections in S end: their IDs are free and they are in no channel.
Depart(S) ==
  /\ S \subseteq members
  /\ client' = [i \in Id |-> IF client[i] \in S THEN None ELSE client[i]]
  /\ members' = members \ S
  /\ joined' = [c \in Conn |-> IF c \in S THEN {} ELSE joined[c]]
  /\ UNCHANGED broken

\* A connected client enters or leaves one channel.
Move(c, n) ==
  /\ c \in members
  /\ joined' = [joined EXCEPT ![c] = IF n \in @ THEN @ \ {n} ELSE @ \cup {n}]
  /\ UNCHANGED <<client, members, broken>>

Break == broken' = TRUE

Next ==
  /\ ~broken
  /\ \/ \E i \in Id, c \in Conn : Register(i, c)
     \/ \E S \in SUBSET members : Depart(S)
     \/ \E c \in Conn, n \in Chan : Move(c, n)
     \/ Break

Spec == Init /\ [][Next]_vars

\* Every connected client is found under exactly one ID, every ID leads to a
\* connected client or nowhere, and nobody else is in a channel.
OneIdEach ==
  ~broken =>
    /\ \A c \in members : \E i \in Id : client[i] = c
    /\ \A i, j \in Id : client[i] = client[j] /\ client[i] # None => i = j
    /\ \A i \in Id : client[i] # None => client[i] \in members
    /\ \A c \in Conn \ members : joined[c] = {}
================================================================================
