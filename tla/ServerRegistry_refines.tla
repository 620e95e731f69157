------------------------ MODULE ServerRegistry_refines -------------------------
(***************************************************************************)
(* ServerRegistry implements Registry, for any number of descriptors,      *)
(* addresses, IDs, nicks and channels: each of its steps registers one     *)
(* client, ends one or all, moves one in or out of a channel, changes      *)
(* nothing that Registry knows of, or leaves defined behaviour.            *)
(***************************************************************************)
EXTENDS ServerRegistry_proofs

\* What Registry calls members and joined.
Everybody == {c \in Conn : InChannel(Main, c)}
ChannelsOf == [c \in Conn |-> IF Live(c) THEN conn[c].chans ELSE {}]

\* The main channel lists the live connections (killClient and addClient edit
\* both).
LEMMA EverybodyIsLive ==
  ASSUME IInv, ~fault
  PROVE  \A c \in Conn : c \in Everybody <=> Live(c)
BY DEF IInv, TablesAgree, Everybody

\* A step that leaves the IDs, the main channel, and each connection's life and
\* channels alone is invisible.
LEMMA Invisible ==
  ASSUME UNCHANGED <<byId, fault>>,
         \A c \in Conn : InChannel(Main, c)' <=> InChannel(Main, c),
         \A c \in Conn : Live(c)' <=> Live(c),
         \A c \in Conn : Live(c) => conn'[c].chans = conn[c].chans
  PROVE  UNCHANGED Promise!vars
<1>1. Everybody' = Everybody
  BY DEF Everybody
<1>2. ChannelsOf' = ChannelsOf
  BY DEF ChannelsOf
<1> QED BY <1>1, <1>2 DEF Promise!vars, Everybody, ChannelsOf

LEMMA TablesInvisible ==
  ASSUME UNCHANGED <<tableVars, fault>>
  PROVE  UNCHANGED Promise!vars
BY Invisible DEF tableVars, InChannel, Live

\* Leaving defined behaviour is one of Registry's steps.
LEMMA FaultBreaks ==
  ASSUME IInv, ~fault, Next, fault'
  PROVE  Promise!Next
<1>1. fault' = TRUE
  BY IInvPreserved DEF IInv, TypeOK
<1> QED
  BY <1>1 DEF Promise!Next, Promise!Break

\* killClient ends one connection, because the table of IDs leads to it from
\* its own ID only.
LEMMA KillDeparts ==
  ASSUME IInv, ~fault, UNCHANGED fault, NEW c \in Conn, Live(c), killClient(c)
  PROVE  Promise!Next
<1> USE ConstantsTyped
<1>1. TypeOK /\ conn[c] \in Connection /\ conn[c].id \in Id /\ {c} \subseteq Everybody
  BY EverybodyIsLive, LiveTyped DEF IInv, Connection
<1>2. /\ byId' = [byId EXCEPT ![conn[c].id] = None]
      /\ conn' = [conn EXCEPT ![c] = None]
      /\ channels[Main] \in Members
      /\ channels'[Main] = [channels[Main] EXCEPT ![c] = 0]
  BY <1>1, LiveTyped DEF killClient, IInv, MainExists
<1>3. byId' = [i \in Id |-> IF byId[i] \in {c} THEN None ELSE byId[i]]
  <2>1. \A i \in Id : byId[i] = c <=> i = conn[c].id
    BY <1>1 DEF IInv, TablesAgree
  <2> QED BY <1>1, <1>2, <2>1 DEF TypeOK
<1>4. Everybody' = Everybody \ {c}
  <2>1. channels'[Main] # None /\ channels[Main] # None
    BY <1>2 DEF Members
  <2>2. channels'[Main][c] = 0 /\ \A d \in Conn \ {c} : channels'[Main][d] = channels[Main][d]
    BY <1>2 DEF Members
  <2> QED BY <2>1, <2>2 DEF Everybody, InChannel
<1>5. ChannelsOf' = [d \in Conn |-> IF d \in {c} THEN {} ELSE ChannelsOf[d]]
  BY <1>1, <1>2 DEF ChannelsOf, Live, TypeOK
<1>6. Promise!Depart({c})
  BY <1>1, <1>3, <1>4, <1>5 DEF Promise!Depart, Everybody, ChannelsOf
<1>7. {c} \in SUBSET Everybody
  BY <1>1
<1> QED
  BY <1>6, <1>7 DEF Promise!Next, Everybody

\* addClient registers one.
LEMMA AddRegisters ==
  ASSUME IInv, ~fault, UNCHANGED fault, NEW s \in Fd, NEW id \in Id, NEW nick \in Nick,
         NEW c \in Conn, uniqueID(id), addClient(s, id, nick, c)
  PROVE  Promise!Next
<1> USE ConstantsTyped
<1> DEFINE r == [sock |-> s, id |-> id, nick |-> nick, active |-> FALSE, chans |-> {}]
<1>1. TypeOK /\ r \in Connection /\ r.chans = {} /\ ~Live(c)
  BY DEF IInv, Connection, addClient
<1>2. /\ conn' = [conn EXCEPT ![c] = r]
      /\ byId' = [byId EXCEPT ![id] = c]
      /\ channels' = [channels EXCEPT ![Main] = Push(channels[Main], c)]
      /\ channels[Main][c] < MaxCopies
      /\ channels[Main] \in Members
  BY <1>1, LiveTyped DEF addClient, TypeOK, IInv, MainExists
<1> HIDE DEF r
<1>3. /\ byId[id] = None
      /\ c \notin Everybody
  BY <1>1, EverybodyIsLive DEF uniqueID
<1>4. Everybody' = Everybody \cup {c}
  <2>1. channels'[Main] # None /\ channels[Main] # None
    BY <1>1, <1>2, PushTyped DEF TypeOK
  <2>2. channels'[Main][c] > 0
    <3>1. channels'[Main][c] = channels[Main][c] + 1
      BY <1>1, <1>2, PushTyped DEF TypeOK
    <3>2. channels[Main][c] \in Nat
      BY <1>2 DEF Members
    <3> QED BY <3>1, <3>2
  <2>3. \A d \in Conn \ {c} : channels'[Main][d] = channels[Main][d]
    BY <1>1, <1>2, PushTyped DEF TypeOK
  <2> QED BY <2>1, <2>2, <2>3 DEF Everybody, InChannel
<1>5. ChannelsOf' = ChannelsOf
  BY <1>1, <1>2 DEF ChannelsOf, Live, TypeOK
<1>6. Promise!Register(id, c)
  BY <1>2, <1>3, <1>4, <1>5 DEF Promise!Register, Everybody, ChannelsOf
<1> QED
  BY <1>6 DEF Promise!Next

\* killAllClients ends everybody, or finds nobody.
LEMMA KillAllDeparts ==
  ASSUME IInv, ~fault, UNCHANGED fault, killAllClients
  PROVE  Promise!Next \/ UNCHANGED Promise!vars
<1> USE ConstantsTyped
<1>1. CASE \A s \in Fd : bySock[s] = None
  BY <1>1, TablesInvisible DEF killAllClients
<1>2. CASE ~ \A s \in Fd : bySock[s] = None
  <2>1. TypeOK /\ \A c \in Conn : c \in Everybody <=> Live(c)
    BY EverybodyIsLive DEF IInv
  <2>2. /\ byId' = [i \in Id |-> None]
        /\ conn' = [c \in Conn |-> IF c \in Everybody THEN None ELSE conn[c]]
        /\ channels'[Main] = Nobody
    BY <1>2 DEF killAllClients, Everybody, InChannel, IInv, MainExists
  <2>3. \A i \in Id : byId[i] \in Everybody \/ byId[i] = None
    BY <2>1 DEF IInv, TablesAgree, TypeOK
  <2>4. PICK S : S = Everybody
    OBVIOUS
  <2>5. byId' = [i \in Id |-> IF byId[i] \in S THEN None ELSE byId[i]]
    BY <2>2, <2>3, <2>4
  <2>6. Everybody' = Everybody \ S
    BY <2>2, <2>4, NobodyTyped DEF Everybody, InChannel
  <2>7. ChannelsOf' = [c \in Conn |-> IF c \in S THEN {} ELSE ChannelsOf[c]]
    BY <2>1, <2>2, <2>4 DEF ChannelsOf, Live
  <2>8. Promise!Depart(S)
    BY <2>4, <2>5, <2>6, <2>7 DEF Promise!Depart, Everybody, ChannelsOf
  <2> QED BY <2>4, <2>8 DEF Promise!Next, Everybody
<1> QED
  BY <1>1, <1>2

\* joinChannel takes a connection into one channel that it is not in.
LEMMA JoinMoves ==
  ASSUME IInv, ~fault, UNCHANGED fault, NEW n \in Chan, NEW c \in Conn, joinChannel(n, c)
  PROVE  Promise!Next
<1> USE ConstantsTyped
<1> DEFINE m == IF channels[n] = None THEN Nobody ELSE channels[n]
           r == [conn[c] EXCEPT !.chans = @ \cup {n}]
<1>1. /\ TypeOK /\ Live(c) /\ conn[c] \in Connection /\ m \in Members /\ m[c] = 0
      /\ c \in Everybody /\ m[c] < MaxCopies
  BY LiveTyped, NobodyTyped, EverybodyIsLive DEF IInv, joinChannel
<1>2. /\ channels' = [channels EXCEPT ![n] = Push(m, c)]
      /\ conn' = [conn EXCEPT ![c] = r] /\ UNCHANGED byId
  BY DEF joinChannel
<1>3. n # Main /\ n \notin conn[c].chans /\ conn[c].chans \in SUBSET Chan
  <2>1. channels[Main] # None /\ channels[Main][c] > 0
    BY <1>1 DEF Everybody, InChannel
  <2>2. n = Main => m[c] > 0
    BY <2>1
  <2>3. n \in conn[c].chans => m[c] = 1
    BY <1>1 DEF IInv, JoinedIsListedOnce
  <2> QED BY <1>1, <2>2, <2>3 DEF Connection
<1>4. r \in Connection /\ r.chans = conn[c].chans \cup {n}
  BY <1>1 DEF Connection
<1> HIDE DEF m, r
<1>5. Everybody' = Everybody
  BY <1>1, <1>2, <1>3 DEF Everybody, InChannel, TypeOK
<1>6. ChannelsOf' = [ChannelsOf EXCEPT ![c] = @ \cup {n}] /\ n \notin ChannelsOf[c]
  BY <1>1, <1>2, <1>3, <1>4 DEF ChannelsOf, Live, TypeOK
<1>7. Promise!Move(c, n)
  BY <1>1, <1>2, <1>5, <1>6 DEF Promise!Move, Everybody, ChannelsOf
<1> QED
  BY <1>3, <1>7 DEF Promise!Next

\* leaveChannel takes it out of one, or changes nothing that counts.
LEMMA LeaveMoves ==
  ASSUME IInv, ~fault, UNCHANGED fault, NEW n \in Chan, NEW c \in Conn, leaveChannel(n, c)
  PROVE  Promise!Next \/ UNCHANGED Promise!vars
<1> USE ConstantsTyped
<1> DEFINE r == [conn[c] EXCEPT !.chans = @ \ {n}]
<1>1. /\ TypeOK /\ Live(c) /\ conn[c] \in Connection /\ c \in Everybody
      /\ channels[n] \in Members /\ channels[n][c] < MaxCopies
  BY LiveTyped, EverybodyIsLive DEF IInv, leaveChannel
<1>2. /\ channels' = [channels EXCEPT ![n] = Push(channels[n], c)]
      /\ conn' = [conn EXCEPT ![c] = r] /\ UNCHANGED byId
  BY DEF leaveChannel
<1>3. r \in Connection /\ r.chans = conn[c].chans \ {n}
  BY <1>1 DEF Connection
<1> HIDE DEF r
<1>4. \A d \in Conn : InChannel(Main, d)' <=> InChannel(Main, d)
  <2>1. CASE n # Main
    BY <1>1, <1>2, <2>1 DEF InChannel, TypeOK
  <2>2. CASE n = Main
    <3>1. channels'[Main] = Push(channels[Main], c) /\ channels'[Main] # None
      BY <1>1, <1>2, <2>2, PushTyped DEF TypeOK
    <3>2. channels[Main] # None /\ channels[Main][c] > 0 /\ channels[Main][c] \in Nat
      BY <1>1, <2>2 DEF Everybody, InChannel, Members
    <3>3. channels'[Main][c] > 0
      BY <1>1, <2>2, <3>1, <3>2, PushTyped
    <3>4. \A d \in Conn \ {c} : channels'[Main][d] = channels[Main][d]
      BY <1>1, <2>2, <3>1, PushTyped
    <3> QED BY <3>1, <3>2, <3>3, <3>4 DEF InChannel
  <2> QED BY <2>1, <2>2
<1>5. CASE n \in conn[c].chans
  <2>1. n # Main
    BY <1>1, <1>5 DEF IInv, JoinedIsListedOnce
  <2>2. Everybody' = Everybody
    BY <1>4 DEF Everybody
  <2>3. ChannelsOf' = [ChannelsOf EXCEPT ![c] = @ \ {n}] /\ n \in ChannelsOf[c]
    BY <1>1, <1>2, <1>3, <1>5 DEF ChannelsOf, Live, TypeOK
  <2>4. Promise!Move(c, n)
    BY <1>1, <1>2, <2>2, <2>3 DEF Promise!Move, Everybody, ChannelsOf
  <2> QED BY <2>1, <2>4 DEF Promise!Next
<1>6. CASE n \notin conn[c].chans
  <2> r.chans = conn[c].chans
    BY <1>3, <1>6
  <2>1. /\ \A d \in Conn : Live(d)' <=> Live(d)
        /\ \A d \in Conn : Live(d) => conn'[d].chans = conn[d].chans
    BY <1>1, <1>2, <1>3 DEF Live, TypeOK
  <2>2. UNCHANGED <<byId, fault>>
    BY <1>2
  <2> QED BY <1>4, <2>1, <2>2, Invisible
<1> QED
  BY <1>5, <1>6

\* A connection's activity and nick are nothing that Registry knows of.
LEMMA RelabelInvisible ==
  ASSUME IInv, ~fault, UNCHANGED fault, NEW c \in Conn,
         \/ \E a \in BOOLEAN : SetActive(c, a)
         \/ \E nick \in Nick : SetNick(c, nick)
         \/ \E id \in Id, nick \in Nick : byId[id] = c /\ changeNick(id, nick)
  PROVE  UNCHANGED Promise!vars
<1>1. TypeOK /\ Live(c) /\ conn[c] \in Connection /\ None \notin Connection
  BY ConstantsTyped, LiveTyped DEF SetActive, SetNick, changeNick, IInv, TablesAgree
<1>2. UNCHANGED <<byId, channels>>
  BY DEF SetActive, SetNick, changeNick
<1>3. \E r \in Connection : r.chans = conn[c].chans /\ conn' = [conn EXCEPT ![c] = r]
  <2>1. ASSUME NEW a \in BOOLEAN, SetActive(c, a)
        PROVE  /\ [conn[c] EXCEPT !.active = a] \in Connection
               /\ [conn[c] EXCEPT !.active = a].chans = conn[c].chans
               /\ conn' = [conn EXCEPT ![c] = [conn[c] EXCEPT !.active = a]]
    BY <1>1, <2>1 DEF SetActive, Connection
  <2>2. ASSUME NEW nick \in Nick
        PROVE  /\ [conn[c] EXCEPT !.nick = nick] \in Connection
               /\ [conn[c] EXCEPT !.nick = nick].chans = conn[c].chans
    BY <1>1 DEF Connection
  <2>3. ASSUME NEW nick \in Nick,
               SetNick(c, nick) \/ \E id \in Id : byId[id] = c /\ changeNick(id, nick)
        PROVE  conn' = [conn EXCEPT ![c] = [conn[c] EXCEPT !.nick = nick]]
    BY <2>3 DEF SetNick, changeNick
  <2> QED BY <2>1, <2>2, <2>3
<1>4. /\ \A d \in Conn : Live(d)' <=> Live(d)
      /\ \A d \in Conn : Live(d) => conn'[d].chans = conn[d].chans
  BY <1>1, <1>3 DEF Live, TypeOK
<1> QED
  BY <1>2, <1>4, Invisible DEF InChannel

\* Creating a channel is invisible: the main channel exists already.
LEMMA CreateInvisible ==
  ASSUME IInv, ~fault, NEW n \in Chan, createChannel(n)
  PROVE  UNCHANGED Promise!vars
<1>1. n # Main
  BY DEF createChannel, IInv, MainExists
<1> QED
  BY <1>1, ConstantsTyped, Invisible DEF createChannel, InChannel, Live, IInv, TypeOK

\* Every step of the server is one of Registry's, or invisible to it.
LEMMA StepRefines ==
  ASSUME IInv, [Next]_vars
  PROVE  [Promise!Next]_(Promise!vars)
<1> DEFINE Goal == Promise!Next \/ UNCHANGED Promise!vars
<1> SUFFICES Goal
  OBVIOUS
<1> HIDE DEF Goal
<1>1. CASE UNCHANGED vars
  BY <1>1, TablesInvisible DEF vars, Goal
<1>2. CASE Next /\ fault'
  BY <1>2, FaultBreaks DEF Next, Goal
<1>3. CASE Next /\ ~fault'
  <2>1. ~fault /\ UNCHANGED fault /\ (Peers \/ Worker \/ Application \/ Control)
    <3>1. fault \in BOOLEAN /\ fault' \in BOOLEAN
      BY <1>3, IInvPreserved DEF IInv, TypeOK
    <3> QED BY <1>3, <3>1 DEF Next
  <2>2. UNCHANGED tableVars => Goal
    BY <2>1, TablesInvisible DEF Goal
  <2>3. CASE Peers
    BY <2>2, <2>3 DEF Peers, PeerConnects, PeerSends, PeerCloses
  <2>4. CASE Worker
    <3>1. CASE AcceptFails \/ Select \/ EndPass
      BY <2>2, <3>1 DEF AcceptFails, Select, EndPass
    <3>2. ASSUME NEW s \in Fd,
                 \/ Accept(s) \/ Skip(s) \/ Message(s) \/ DropUnregistered(s)
                 \/ \E id \in Id : HelloDuplicate(s, id)
          PROVE  Goal
      BY <2>2, <3>2 DEF Accept, Skip, Message, DropUnregistered, HelloDuplicate
    <3>3. ASSUME NEW s \in Fd, HangUp(s) PROVE Goal
      BY <2>1, <3>3, HangUpKillsItsOwn, KillDeparts DEF Goal
    <3>4. ASSUME NEW s \in Fd, NEW id \in Id, NEW nick \in Nick, NEW c \in Conn,
                 Hello(s, id, nick, c)
          PROVE  Goal
      BY <2>1, <3>4, AddRegisters DEF Hello, Goal
    <3> QED BY <2>4, <3>1, <3>2, <3>3, <3>4 DEF Worker
  <2>5. CASE Application
    <3>1. ASSUME NEW n \in Chan, createChannel(n) \/ deleteChannel(n) \/ sendToFreed(n)
          PROVE  Goal
      BY <1>3, <2>1, <3>1, CreateInvisible DEF deleteChannel, sendToFreed, Goal
    <3>2. ASSUME NEW n \in Chan, NEW c \in Conn,
                 joinChannel(n, c) \/ leaveChannel(n, c) \/ sendFails(n, c)
          PROVE  Goal
      BY <2>1, <3>2, JoinMoves, LeaveMoves, KillDeparts DEF sendFails, Goal
    <3>3. ASSUME NEW c \in Conn,
                 \/ \E a \in BOOLEAN : SetActive(c, a)
                 \/ \E nick \in Nick : SetNick(c, nick)
          PROVE  Goal
      BY <2>1, <3>3, RelabelInvisible DEF Goal
    <3>4. ASSUME NEW id \in Id, NEW nick \in Nick, changeNick(id, nick)
          PROVE  Goal
      <4>1. byId[id] \in Conn
        BY <3>4 DEF changeNick, IInv, TypeOK
      <4> QED BY <2>1, <3>4, <4>1, RelabelInvisible DEF Goal
    <3> QED BY <2>5, <3>1, <3>2, <3>3, <3>4 DEF Application
  <2>6. CASE Control
    <3>1. CASE start
      BY <2>2, <3>1 DEF start
    <3>2. ASSUME NEW kill \in BOOLEAN, stop(kill) PROVE Goal
      BY <2>1, <3>2, KillAllDeparts DEF stop, Goal
    <3> QED BY <2>6, <3>1, <3>2 DEF Control
  <2> QED BY <2>1, <2>3, <2>4, <2>5, <2>6
<1> QED
  BY <1>1, <1>2, <1>3

\* The server starts where Registry starts.
LEMMA InitRefines ==
  ASSUME Init
  PROVE  Promise!Init
<1>1. Everybody = {}
  BY NobodyTyped, ConstantsTyped DEF Init, Everybody, InChannel
<1>2. ChannelsOf = [c \in Conn |-> {}]
  BY DEF Init, ChannelsOf, Live
<1> QED
  BY <1>1, <1>2 DEF Init, Promise!Init, Everybody, ChannelsOf

\* Whatever addClient, killClient, killAllClients, joinChannel and leaveChannel
\* (Server.cpp:299-385) do to their tables one after the other is, seen from
\* outside, one client coming, going or moving.
THEOREM Implements == Spec => ImplementsRegistry
<1>1. Init => IInv /\ Promise!Init
  BY IInvInit, InitRefines
<1>2. IInv /\ [Next]_vars => IInv' /\ [Promise!Next]_(Promise!vars)
  BY IInvPreserved, StepRefines
<1> QED
  BY <1>1, <1>2, PTL DEF Spec, ImplementsRegistry, Promise!Spec

\* What Registry makes of its steps holds of the server's tables: every client has
\* exactly one ID in _clients, and who is no client is in no channel's list of its
\* own (addClient, killClient and killAllClients in Server.cpp).
THEOREM ExactlyOneId == Spec => []Promise!OneIdEach
<1>1. IInv => Promise!OneIdEach
  <2> SUFFICES ASSUME IInv, ~fault
               PROVE  /\ \A c \in Everybody : \E i \in Id : byId[i] = c
                      /\ \A i, j \in Id : byId[i] = byId[j] /\ byId[i] # None => i = j
                      /\ \A i \in Id : byId[i] # None => byId[i] \in Everybody
                      /\ \A c \in Conn \ Everybody : ChannelsOf[c] = {}
    BY DEF Promise!OneIdEach, Everybody, ChannelsOf
  <2>1. /\ \A c \in Conn : c \in Everybody <=> Live(c)
        /\ \A c \in Conn : ~Live(c) => ChannelsOf[c] = {}
        /\ Everybody \subseteq Conn
    BY EverybodyIsLive DEF ChannelsOf, Everybody
  <2>2. \A c \in Conn : Live(c) => conn[c].id \in Id /\ byId[conn[c].id] = c
    BY LiveTyped DEF IInv, TablesAgree, Connection
  <2>3. \A i \in Id : byId[i] # None =>
          byId[i] \in Conn /\ Live(byId[i]) /\ conn[byId[i]].id = i
    BY DEF IInv, TypeOK, TablesAgree
  <2> QED BY <2>1, <2>2, <2>3
<1> QED
  BY <1>1, IInvInit, IInvPreserved, PTL DEF Spec

================================================================================
