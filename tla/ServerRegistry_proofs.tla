------------------------ MODULE ServerRegistry_proofs --------------------------
(***************************************************************************)
(* The safety of ServerRegistry for any number of descriptors, addresses,  *)
(* IDs, nicks and channels: types, the agreement of the server's tables,   *)
(* single membership of channels, and what follows for IDs and nicks.      *)
(***************************************************************************)
EXTENDS ServerRegistry, SequenceTheorems, WellFoundedInduction, TLAPS

-----------------------------------------------------------------------------
(* The array of sockets. *)

\* A nonempty set of naturals has the minimum that Min chooses.
LEMMA MinOfNaturals ==
  ASSUME NEW T \in SUBSET Nat, T # {}
  PROVE  Min(T) \in T
<1> DEFINE R == {p \in Nat \X Nat : p[1] < p[2]}
<1>1. IsWellFoundedOn(R, Nat)
  BY NatLessThanWellFounded DEF OpToRel
<1>2. PICK x \in T : \A y \in T : <<y, x>> \notin R
  <2> HIDE DEF R
  <2> QED BY <1>1, WFMin
<1>3. ASSUME NEW y \in T PROVE x =< y
  <2>1. x \in Nat /\ y \in Nat
    OBVIOUS
  <2>2. y < x => <<y, x>> \in R
    BY <2>1
  <2>3. ~ (y < x)
    BY <1>2, <2>2
  <2> QED BY <2>1, <2>3
<1> QED
  BY <1>3 DEF Min

\* Removing a socket from the array leaves an array of sockets.
LEMMA RemoveFirstTyped ==
  ASSUME NEW q \in Seq(Fd), NEW s
  PROVE  RemoveFirst(q, s) \in Seq(Fd)
<1>1. CASE \E i \in 1..Len(q) : q[i] = s
  <2> DEFINE I == {i \in 1..Len(q) : q[i] = s}
             m == Min(I)
  <2>1. m \in 1..Len(q)
    BY <1>1, MinOfNaturals
  <2>2. RemoveFirst(q, s) = SubSeq(q, 1, m-1) \o SubSeq(q, m+1, Len(q))
    BY <1>1 DEF RemoveFirst, RemoveAt, SelectInSeq
  <2> HIDE DEF m
  <2>3. SubSeq(q, 1, m-1) \in Seq(Fd) /\ SubSeq(q, m+1, Len(q)) \in Seq(Fd)
    BY <2>1, SubSeqProperties, ElementOfSeq
  <2> QED BY <2>2, <2>3, ConcatProperties
<1>2. CASE ~ \E i \in 1..Len(q) : q[i] = s
  BY <1>2 DEF RemoveFirst
<1> QED
  BY <1>1, <1>2

-----------------------------------------------------------------------------
(* The inductive invariant. *)

MainExists == ~fault => channels[Main] # None

\* The agreement of the tables is preserved because a connection is killed by
\* its own keys, which needs each key to lead to it and to no other; a killed
\* connection's channels are walked, which needs them to exist; and a freed
\* address is reused, which needs the main channel not to list it any more.
IInv == TypeOK /\ MainExists /\ TablesAgree /\ JoinedIsListedOnce

\* The bounds are positive numbers, and null is no connection and no channel.
LEMMA ConstantsTyped ==
  /\ Main \in Chan
  /\ SocketsCap \in Nat /\ IntSize \in Nat \ {0} /\ MaxPending \in Nat \ {0}
  /\ MaxBacklog \in Nat \ {0} /\ MaxCopies \in Nat \ {0} /\ MaxStarts \in Nat \ {0}
  /\ None \notin Conn /\ None \notin Connection /\ None \notin Members
<1>1. Members \subseteq [Conn -> Nat]
  BY RegistryAssumption DEF Members
<1> QED
  BY <1>1, RegistryAssumption DEF Connection

\* Nobody is in a channel with no members.
LEMMA NobodyTyped ==
  /\ Nobody \in Members
  /\ \A c \in Conn : Nobody[c] = 0
BY ConstantsTyped DEF Nobody, Members

\* A live address holds a connection, and an existing channel counts addresses.
LEMMA LiveTyped ==
  ASSUME TypeOK
  PROVE  /\ \A c \in Conn : Live(c) => conn[c] \in Connection
         /\ \A n \in Chan : channels[n] # None => channels[n] \in Members
BY DEF TypeOK, Live

\* Pushing within the bound gives a channel with one more copy of c.
LEMMA PushTyped ==
  ASSUME NEW m \in Members, NEW c \in Conn, m[c] < MaxCopies
  PROVE  /\ Push(m, c) \in Members
         /\ Push(m, c)[c] = m[c] + 1
         /\ \A d \in Conn \ {c} : Push(m, c)[d] = m[d]
BY ConstantsTyped DEF Push, Members

\* A step that leaves the tables alone preserves what IInv says of them.
LEMMA SameTables ==
  ASSUME IInv, UNCHANGED <<tableVars, fault>>
  PROVE  MainExists' /\ TablesAgree' /\ JoinedIsListedOnce'
BY DEF IInv, MainExists, TablesAgree, JoinedIsListedOnce, Live, InChannel, tableVars

\* A step into undefined behaviour promises nothing more.
LEMMA FaultExcuses ==
  ASSUME fault'
  PROVE  MainExists' /\ TablesAgree' /\ JoinedIsListedOnce'
BY DEF MainExists, TablesAgree, JoinedIsListedOnce

-----------------------------------------------------------------------------
(* Sockets. *)

FdTypes == /\ open \subseteq Fd
           /\ pending \in [Fd -> 0..MaxPending]
           /\ hungUp \subseteq Fd

ArrayTypes == /\ sockets \in Seq(Fd)
              /\ cap \in Nat
              /\ room \in Nat
              /\ set \subseteq Fd

LoopTypes == ready \subseteq Fd /\ idx \in Nat

TableTypes == /\ bySock \in [Fd -> Conn \cup {None}]
              /\ byId \in [Id -> Conn \cup {None}]
              /\ byNick \in [Nick -> Conn \cup {None}]
              /\ channels \in [Chan -> Members \cup {None}]
              /\ conn \in [Conn -> Connection \cup {None}]

OtherTypes == /\ backlog \in 0..MaxBacklog
              /\ running \in BOOLEAN
              /\ starts \in 0..MaxStarts
              /\ renamed \in BOOLEAN
              /\ fault \in BOOLEAN

\* TypeOK by the groups of variables that actions leave alone together.
LEMMA TypesGrouped ==
  TypeOK <=> FdTypes /\ ArrayTypes /\ LoopTypes /\ TableTypes /\ OtherTypes
BY DEF TypeOK, FdTypes, ArrayTypes, LoopTypes, TableTypes, OtherTypes

\* What a step leaves alone keeps its type.
LEMMA SameTypes ==
  /\ FdTypes /\ UNCHANGED fdVars => FdTypes'
  /\ ArrayTypes /\ UNCHANGED arrayVars => ArrayTypes'
  /\ LoopTypes /\ UNCHANGED loopVars => LoopTypes'
  /\ TableTypes /\ UNCHANGED tableVars => TableTypes'
BY DEF FdTypes, fdVars, ArrayTypes, arrayVars, LoopTypes, loopVars, TableTypes, tableVars

\* Closing descriptors keeps the types.
LEMMA CloseTyped ==
  ASSUME FdTypes, NEW S, close(S)
  PROVE  FdTypes'
BY ConstantsTyped DEF FdTypes, close

\* Listing a descriptor keeps the types of the array.
LEMMA AddSocketTyped ==
  ASSUME ArrayTypes, NEW s \in Fd, addSocket(s)
  PROVE  ArrayTypes'
<1>1. 2 * cap \in Nat /\ (2 * cap) \div IntSize \in Nat
  <2>1. 2 * cap \in Nat
    BY DEF ArrayTypes
  <2>2. \A a \in Nat, b \in Nat \ {0} : a \div b \in Nat
    OBVIOUS
  <2> QED BY <2>1, <2>2, ConstantsTyped
<1>2. cap' \in Nat /\ room' \in Nat
  BY <1>1, ConstantsTyped DEF ArrayTypes, addSocket
<1>3. sockets' \in Seq(Fd)
  BY AppendProperties DEF ArrayTypes, addSocket
<1>4. set' \subseteq Fd
  BY DEF ArrayTypes, addSocket
<1> QED
  BY <1>2, <1>3, <1>4 DEF ArrayTypes

\* Removing one keeps the types of the array and of the descriptors.
LEMMA RemoveSocketTyped ==
  ASSUME ArrayTypes, FdTypes, NEW s, removeSocket(s)
  PROVE  ArrayTypes' /\ FdTypes'
<1>1. FdTypes'
  BY CloseTyped DEF removeSocket
<1>2. sockets' \in Seq(Fd)
  BY RemoveFirstTyped DEF ArrayTypes, removeSocket
<1> QED
  BY <1>1, <1>2 DEF ArrayTypes, removeSocket

-----------------------------------------------------------------------------
(* Clients. *)

\* killClient takes one live connection out of everything, and no other: in
\* each channel but its own and the main one nothing changes, and the other
\* connections keep their place in those.
LEMMA KillPreserves ==
  ASSUME IInv, ~fault, NEW c \in Conn, Live(c), killClient(c)
  PROVE  /\ FdTypes' /\ ArrayTypes' /\ TableTypes'
         /\ MainExists' /\ TablesAgree' /\ JoinedIsListedOnce'
<1> USE ConstantsTyped
<1> DEFINE r == conn[c]
<1>1. TypeOK /\ r \in Connection
  BY LiveTyped DEF IInv
<1>2. r.sock \in Fd /\ r.id \in Id /\ r.nick \in Nick /\ r.chans \in SUBSET Chan
  BY <1>1 DEF Connection
<1>3. /\ channels[Main] \in Members
      /\ Main \notin r.chans
      /\ \A n \in r.chans : channels[n] \in Members /\ channels[n][c] < MaxCopies
  BY <1>1, <1>2, LiveTyped DEF IInv, MainExists, JoinedIsListedOnce, killClient
<1>4. /\ bySock' = [bySock EXCEPT ![r.sock] = None]
      /\ byId' = [byId EXCEPT ![r.id] = None]
      /\ byNick' = [byNick EXCEPT ![r.nick] = None]
      /\ conn' = [conn EXCEPT ![c] = None]
  BY DEF killClient
<1>5. /\ channels' = [n \in Chan |->
                        IF n = Main THEN [channels[Main] EXCEPT ![c] = 0]
                        ELSE IF n \in r.chans THEN Push(channels[n], c)
                        ELSE channels[n]]
  BY DEF killClient
<1>6. FdTypes' /\ ArrayTypes'
  BY <1>1, RemoveSocketTyped, TypesGrouped DEF killClient
<1>7. channels' \in [Chan -> Members \cup {None}]
  <2> SUFFICES ASSUME NEW n \in Chan PROVE channels'[n] \in Members \cup {None}
    BY <1>5
  <2>1. CASE n = Main
    BY <1>3, <1>5, <2>1 DEF Members
  <2>2. CASE n # Main /\ n \in r.chans
    BY <1>3, <1>5, <2>2, PushTyped
  <2>3. CASE n # Main /\ n \notin r.chans
    BY <1>1, <1>5, <2>3 DEF TypeOK
  <2> QED BY <2>1, <2>2, <2>3
<1>8. TableTypes'
  BY <1>1, <1>4, <1>7 DEF TypeOK, TableTypes
<1>9. /\ ~Live(c)'
      /\ \A d \in Conn \ {c} : conn'[d] = conn[d] /\ (Live(d)' <=> Live(d))
  BY <1>1, <1>4 DEF TypeOK, Live
<1>10. /\ channels'[Main] # None
       /\ channels'[Main][c] = 0
       /\ \A d \in Conn \ {c} : channels'[Main][d] = channels[Main][d]
  BY <1>3, <1>5, <1>7 DEF Members
<1>11. TablesAgree'
  <2>1. \A d \in Conn : Live(d)' => /\ bySock'[conn'[d].sock] = d
                                    /\ byId'[conn'[d].id] = d
    <3> SUFFICES ASSUME NEW d \in Conn, Live(d)'
                 PROVE  bySock'[conn'[d].sock] = d /\ byId'[conn'[d].id] = d
      OBVIOUS
    <3>1. d # c /\ conn'[d] = conn[d] /\ Live(d)
      BY <1>9
    <3>2. conn[d].sock \in Fd /\ conn[d].id \in Id
      BY <1>1, <3>1, LiveTyped DEF Connection
    <3>3. /\ bySock[conn[d].sock] = d /\ byId[conn[d].id] = d
          /\ bySock[r.sock] = c /\ byId[r.id] = c
      BY <3>1 DEF IInv, TablesAgree
    <3> QED BY <1>1, <1>4, <3>1, <3>2, <3>3 DEF TypeOK
  <2>2. \A t \in Fd : bySock'[t] # None => Live(bySock[t])' /\ conn'[bySock'[t]].sock = t
    <3> SUFFICES ASSUME NEW t \in Fd, bySock'[t] # None
                 PROVE  bySock'[t] \in Conn \ {c} /\ Live(bySock[t]) /\ conn[bySock[t]].sock = t
                        /\ bySock'[t] = bySock[t]
      BY <1>9 DEF Live
    <3>1. t # r.sock /\ bySock'[t] = bySock[t]
      BY <1>1, <1>2, <1>4 DEF TypeOK
    <3>2. Live(bySock[t]) /\ conn[bySock[t]].sock = t /\ bySock[t] \in Conn
      BY <1>1, <3>1 DEF IInv, TablesAgree, TypeOK
    <3> QED BY <3>1, <3>2
  <2>3. \A i \in Id : byId'[i] # None => Live(byId[i])' /\ conn'[byId'[i]].id = i
    <3> SUFFICES ASSUME NEW i \in Id, byId'[i] # None
                 PROVE  byId'[i] \in Conn \ {c} /\ Live(byId[i]) /\ conn[byId[i]].id = i
                        /\ byId'[i] = byId[i]
      BY <1>9 DEF Live
    <3>1. i # r.id /\ byId'[i] = byId[i]
      BY <1>1, <1>2, <1>4 DEF TypeOK
    <3>2. Live(byId[i]) /\ conn[byId[i]].id = i /\ byId[i] \in Conn
      BY <1>1, <3>1 DEF IInv, TablesAgree, TypeOK
    <3> QED BY <3>1, <3>2
  <2>4. \A d \in Conn : InChannel(Main, d)' <=> Live(d)'
    BY <1>3, <1>9, <1>10 DEF IInv, TablesAgree, InChannel
  <2> QED BY <2>1, <2>2, <2>3, <2>4 DEF TablesAgree, Live
<1>12. JoinedIsListedOnce'
  <2> SUFFICES ASSUME NEW d \in Conn, Live(d)', NEW n \in conn'[d].chans
               PROVE  n # Main /\ channels'[n] # None /\ channels'[n][d] = 1
    BY DEF JoinedIsListedOnce
  <2>1. d # c /\ conn'[d] = conn[d] /\ Live(d)
    BY <1>9
  <2>2. n \in Chan /\ n # Main /\ channels[n] # None /\ channels[n][d] = 1
    BY <1>1, <2>1, LiveTyped DEF IInv, JoinedIsListedOnce, Connection
  <2>3. CASE n \in r.chans
    BY <1>3, <1>5, <2>1, <2>2, <2>3, PushTyped
  <2>4. CASE n \notin r.chans
    BY <1>5, <2>2, <2>4
  <2> QED BY <2>3, <2>4
<1> QED
  BY <1>6, <1>8, <1>10, <1>11, <1>12 DEF MainExists

\* addClient lists a new connection where nothing was listed: at a free socket,
\* under a free ID, at an address that the main channel does not list.
LEMMA AddPreserves ==
  ASSUME IInv, ~fault, NEW s \in Fd, NEW id \in Id, NEW nick \in Nick, NEW c \in Conn,
         bySock[s] = None, uniqueID(id), addClient(s, id, nick, c)
  PROVE  TableTypes' /\ MainExists' /\ TablesAgree' /\ JoinedIsListedOnce'
<1> USE ConstantsTyped
<1> DEFINE r == [sock |-> s, id |-> id, nick |-> nick, active |-> FALSE, chans |-> {}]
<1>1. TypeOK /\ r \in Connection /\ ~Live(c) /\ byId[id] = None
  BY DEF IInv, Connection, addClient, uniqueID
<1>2. /\ conn' = [conn EXCEPT ![c] = r]
      /\ bySock' = [bySock EXCEPT ![s] = c]
      /\ byId' = [byId EXCEPT ![id] = c]
      /\ byNick' = [byNick EXCEPT ![nick] = c]
      /\ channels' = [channels EXCEPT ![Main] = Push(channels[Main], c)]
  BY <1>1 DEF addClient, TypeOK
<1>3. /\ channels[Main] \in Members
      /\ channels[Main][c] = 0
  <2>1. channels[Main] \in Members /\ channels[Main] # None
    BY <1>1, LiveTyped DEF IInv, MainExists
  <2>2. ~ (channels[Main][c] > 0)
    BY <1>1, <2>1 DEF IInv, TablesAgree, InChannel
  <2>3. channels[Main][c] \in 0..MaxCopies
    BY <2>1 DEF Members
  <2> QED BY <2>1, <2>2, <2>3
<1>4. /\ Push(channels[Main], c) \in Members
      /\ Push(channels[Main], c)[c] = 1
      /\ \A d \in Conn \ {c} : Push(channels[Main], c)[d] = channels[Main][d]
  BY <1>3, PushTyped
<1>5. TableTypes'
  BY <1>1, <1>2, <1>4 DEF TypeOK, TableTypes
<1>6. /\ channels'[Main] = Push(channels[Main], c)
      /\ channels'[Main] # None
      /\ \A n \in Chan \ {Main} : channels'[n] = channels[n]
  BY <1>1, <1>2, <1>4 DEF TypeOK
<1>7. /\ Live(c)' /\ conn'[c] = r
      /\ \A d \in Conn \ {c} : conn'[d] = conn[d] /\ (Live(d)' <=> Live(d))
  BY <1>1, <1>2 DEF TypeOK, Live
<1>8. TablesAgree'
  <2>1. \A d \in Conn : Live(d)' => /\ bySock'[conn'[d].sock] = d
                                    /\ byId'[conn'[d].id] = d
    <3> SUFFICES ASSUME NEW d \in Conn, Live(d)'
                 PROVE  bySock'[conn'[d].sock] = d /\ byId'[conn'[d].id] = d
      OBVIOUS
    <3>1. CASE d = c
      BY <1>1, <1>2, <1>7, <3>1 DEF TypeOK
    <3>2. CASE d # c
      <4>1. conn'[d] = conn[d] /\ Live(d) /\ conn[d] \in Connection
        BY <1>1, <1>7, <3>2, LiveTyped
      <4>2. /\ bySock[conn[d].sock] = d /\ byId[conn[d].id] = d
            /\ conn[d].sock \in Fd /\ conn[d].id \in Id
        BY <4>1 DEF IInv, TablesAgree, Connection
      <4>3. conn[d].sock # s /\ conn[d].id # id
        BY <1>1, <4>2
      <4> QED BY <1>1, <1>2, <4>1, <4>2, <4>3 DEF TypeOK
    <3> QED BY <3>1, <3>2
  <2>2. \A t \in Fd : bySock'[t] # None => conn'[bySock'[t]] # None /\ conn'[bySock'[t]].sock = t
    <3> SUFFICES ASSUME NEW t \in Fd, bySock'[t] # None
                 PROVE  conn'[bySock'[t]] # None /\ conn'[bySock'[t]].sock = t
      OBVIOUS
    <3>1. CASE t = s
      BY <1>1, <1>2, <1>7, <3>1 DEF TypeOK, Live
    <3>2. CASE t # s
      <4>1. bySock'[t] = bySock[t] /\ bySock[t] \in Conn
        BY <1>1, <1>2, <3>2 DEF TypeOK
      <4>2. Live(bySock[t]) /\ conn[bySock[t]].sock = t
        BY <4>1 DEF IInv, TablesAgree
      <4> QED BY <1>1, <1>7, <4>1, <4>2 DEF Live
    <3> QED BY <3>1, <3>2
  <2>3. \A i \in Id : byId'[i] # None => conn'[byId'[i]] # None /\ conn'[byId'[i]].id = i
    <3> SUFFICES ASSUME NEW i \in Id, byId'[i] # None
                 PROVE  conn'[byId'[i]] # None /\ conn'[byId'[i]].id = i
      OBVIOUS
    <3>1. CASE i = id
      BY <1>1, <1>2, <1>7, <3>1 DEF TypeOK, Live
    <3>2. CASE i # id
      <4>1. byId'[i] = byId[i] /\ byId[i] \in Conn
        BY <1>1, <1>2, <3>2 DEF TypeOK
      <4>2. Live(byId[i]) /\ conn[byId[i]].id = i
        BY <4>1 DEF IInv, TablesAgree
      <4> QED BY <1>1, <1>7, <4>1, <4>2 DEF Live
    <3> QED BY <3>1, <3>2
  <2>4. \A d \in Conn : InChannel(Main, d)' <=> Live(d)'
    BY <1>3, <1>4, <1>6, <1>7 DEF IInv, TablesAgree, InChannel
  <2> QED BY <2>1, <2>2, <2>3, <2>4 DEF TablesAgree, Live
<1>9. JoinedIsListedOnce'
  <2> SUFFICES ASSUME NEW d \in Conn, Live(d)', NEW n \in conn'[d].chans
               PROVE  n # Main /\ channels'[n] # None /\ channels'[n][d] = 1
    BY DEF JoinedIsListedOnce
  <2>1. d # c /\ conn'[d] = conn[d] /\ Live(d)
    BY <1>7
  <2>2. n \in Chan /\ n # Main /\ channels[n] # None /\ channels[n][d] = 1
    BY <1>1, <2>1, LiveTyped DEF IInv, JoinedIsListedOnce, Connection
  <2> QED BY <1>6, <2>2
<1> QED
  BY <1>5, <1>6, <1>8, <1>9 DEF MainExists

\* killAllClients leaves no live connection: all are in the main channel.
LEMMA KillAllPreserves ==
  ASSUME IInv, ~fault, killAllClients
  PROVE  /\ FdTypes' /\ TableTypes' /\ fault' \in BOOLEAN
         /\ MainExists' /\ TablesAgree' /\ JoinedIsListedOnce'
<1> USE ConstantsTyped
<1>1. FdTypes /\ TableTypes /\ fault = FALSE
  BY TypesGrouped DEF IInv, OtherTypes
<1>2. CASE \A s \in Fd : bySock[s] = None
  <2>1. UNCHANGED <<tableVars, fdVars, fault>>
    BY <1>2 DEF killAllClients
  <2> QED BY <1>1, <2>1, SameTables, SameTypes
<1>3. CASE ~ \A s \in Fd : bySock[s] = None
  <2> DEFINE gone == {c \in Conn : channels[Main][c] > 0}
  <2>1. /\ close({conn[c].sock : c \in {d \in gone : Live(d)}})
        /\ conn' = [c \in Conn |-> IF c \in gone THEN None ELSE conn[c]]
        /\ bySock' = [s \in Fd |-> None]
        /\ byId' = [i \in Id |-> None]
        /\ byNick' = [k \in Nick |-> None]
        /\ channels' = [n \in Chan |-> IF n = Main THEN Nobody ELSE None]
        /\ fault' = \E c \in gone : channels[Main][c] > 1 \/ ~Live(c)
    BY <1>3 DEF killAllClients
  <2>2. FdTypes' /\ fault' \in BOOLEAN
    <3> HIDE DEF gone
    <3> QED BY <1>1, <2>1, CloseTyped
  <2>3. TableTypes'
    BY <1>1, <2>1, NobodyTyped DEF TableTypes
  <2>4. \A c \in Conn : ~Live(c)'
    BY <1>1, <2>1 DEF IInv, TablesAgree, InChannel, Live
  <2>5. channels'[Main] = Nobody /\ Nobody # None
    BY <2>1, NobodyTyped
  <2>6. TablesAgree'
    BY <2>1, <2>4, <2>5, NobodyTyped DEF TablesAgree, Live, InChannel
  <2>7. JoinedIsListedOnce'
    BY <2>4 DEF JoinedIsListedOnce, Live
  <2> QED BY <2>2, <2>3, <2>5, <2>6, <2>7 DEF MainExists
<1> QED
  BY <1>2, <1>3

-----------------------------------------------------------------------------
(* One lemma for each process. *)

\* The parts of the invariant after a step, put together.
LEMMA IInvAssembled ==
  ASSUME FdTypes', ArrayTypes', LoopTypes', TableTypes', OtherTypes',
         MainExists', TablesAgree', JoinedIsListedOnce'
  PROVE  IInv'
BY DEF IInv, TypeOK, FdTypes, ArrayTypes, LoopTypes, TableTypes, OtherTypes

\* Peers touch the backlog and the descriptors only.
LEMMA PeersPreserve ==
  ASSUME IInv, ~fault, Peers
  PROVE  IInv'
<1> USE ConstantsTyped
<1>1. TypeOK
  BY DEF IInv
<1>2. UNCHANGED <<running, arrayVars, loopVars, tableVars, historyVars, fault>>
  BY DEF Peers, PeerConnects, PeerSends, PeerCloses
<1>3. backlog' \in 0..MaxBacklog /\ FdTypes'
  <2>1. CASE PeerConnects
    BY <1>1, <2>1 DEF PeerConnects, TypeOK, FdTypes
  <2>2. ASSUME NEW s \in Fd, PeerSends(s)
        PROVE  backlog' \in 0..MaxBacklog /\ FdTypes'
    <3>1. pending[s] + 1 \in 0..MaxPending
      BY <1>1, <2>2 DEF PeerSends, TypeOK
    <3> QED BY <1>1, <2>2, <3>1 DEF PeerSends, TypeOK, FdTypes
  <2>3. ASSUME NEW s \in Fd, PeerCloses(s)
        PROVE  backlog' \in 0..MaxBacklog /\ FdTypes'
    BY <1>1, <2>3 DEF PeerCloses, TypeOK, FdTypes
  <2> QED BY <2>1, <2>2, <2>3 DEF Peers
<1>4. TypeOK'
  BY <1>1, <1>2, <1>3 DEF TypeOK, FdTypes, arrayVars, loopVars, tableVars, historyVars
<1> QED
  BY <1>2, <1>4, SameTables DEF IInv

\* killClient(c->id) on a hang-up kills the connection of that socket itself.
LEMMA HangUpKillsItsOwn ==
  ASSUME IInv, ~fault, NEW s \in Fd, HangUp(s)
  PROVE  \E c \in Conn : /\ Live(c) /\ killClient(c)
                         /\ conn[c].sock = s /\ ReceivesNothing(s)
<1> DEFINE c == bySock[s]
<1>1. c \in Conn /\ Live(c) /\ conn[c].sock = s
  BY ConstantsTyped DEF HangUp, IInv, TablesAgree, TypeOK
<1>2. byId[conn[c].id] = c
  BY <1>1 DEF IInv, TablesAgree
<1>3. ReceivesNothing(s) /\ killClient(c)
  BY <1>1, <1>2, ConstantsTyped DEF HangUp
<1> QED
  BY <1>1, <1>3

\* The worker's handlers.
LEMMA WorkerPreserves ==
  ASSUME IInv, ~fault, Worker
  PROVE  IInv'
<1> USE ConstantsTyped
<1>1. TypeOK /\ FdTypes /\ ArrayTypes /\ LoopTypes /\ TableTypes /\ OtherTypes
  BY TypesGrouped DEF IInv
<1>2. CASE AcceptFails
  <2>1. /\ fault' = TRUE
        /\ UNCHANGED <<backlog, fdVars, running, arrayVars, loopVars, tableVars, historyVars>>
    BY <1>2 DEF AcceptFails
  <2>2. OtherTypes'
    BY <1>1, <2>1 DEF OtherTypes, historyVars
  <2> QED BY <1>1, <2>1, <2>2, SameTypes, IInvAssembled, FaultExcuses
<1>3. CASE Select \/ EndPass
  <2>1. UNCHANGED <<backlog, fdVars, running, arrayVars, tableVars, historyVars, fault>>
    BY <1>3 DEF Select, EndPass
  <2>2. LoopTypes'
    BY <1>1, <1>3 DEF Select, EndPass, Readable, LoopTypes, ArrayTypes
  <2>3. OtherTypes'
    BY <1>1, <2>1 DEF OtherTypes, historyVars
  <2> QED BY <1>1, <2>1, <2>2, <2>3, SameTypes, SameTables, IInvAssembled
<1>4. ASSUME NEW s \in Fd, Accept(s)
      PROVE  IInv'
  <2>1. /\ addSocket(s)
        /\ backlog > 0 /\ backlog' = backlog - 1
        /\ open' = open \cup {s}
        /\ fault' \in BOOLEAN
        /\ UNCHANGED <<pending, hungUp, running, loopVars, tableVars, historyVars>>
    BY <1>4 DEF Accept
  <2>2. FdTypes' /\ ArrayTypes'
    BY <1>1, <2>1, AddSocketTyped DEF FdTypes
  <2>3. OtherTypes'
    BY <1>1, <2>1 DEF OtherTypes, historyVars
  \* behind the array's memory nothing is promised
  <2>4. MainExists' /\ TablesAgree' /\ JoinedIsListedOnce'
    <3>1. CASE fault'
      BY <3>1, FaultExcuses
    <3>2. CASE ~fault'
      <4>1. fault' = fault
        BY <1>1, <2>1, <3>2 DEF OtherTypes
      <4> QED BY <2>1, <4>1, SameTables
    <3> QED BY <3>1, <3>2
  <2> QED BY <1>1, <2>1, <2>2, <2>3, <2>4, SameTypes, IInvAssembled
<1>5. ASSUME NEW s \in Fd, Skip(s)
      PROVE  IInv'
  <2>1. /\ idx' = idx + 1
        /\ UNCHANGED <<backlog, fdVars, running, arrayVars, ready, tableVars, historyVars, fault>>
    BY <1>5 DEF Skip
  <2>2. LoopTypes' /\ OtherTypes'
    BY <1>1, <2>1 DEF LoopTypes, OtherTypes, historyVars
  <2> QED BY <1>1, <2>1, <2>2, SameTypes, SameTables, IInvAssembled
<1>6. ASSUME NEW s \in Fd, Receives(s), UNCHANGED open
      PROVE  FdTypes' /\ LoopTypes' /\ UNCHANGED <<backlog, running, historyVars>>
  BY <1>1, <1>6 DEF Receives, FdTypes, LoopTypes
<1>7. ASSUME NEW s \in Fd, ReceivesNothing(s)
      PROVE  LoopTypes' /\ UNCHANGED <<backlog, running, historyVars, fault>>
  BY <1>1, <1>7 DEF ReceivesNothing, LoopTypes
<1>8. UNCHANGED <<backlog, running, historyVars, fault>> => OtherTypes'
  BY <1>1 DEF OtherTypes, historyVars
<1>9. ASSUME NEW s \in Fd,
             Message(s) \/ \E id \in Id : HelloDuplicate(s, id)
      PROVE  IInv'
  <2>1. Receives(s) /\ UNCHANGED <<open, arrayVars, tableVars, fault>>
    BY <1>9 DEF Message, HelloDuplicate
  <2> QED BY <1>1, <1>6, <1>8, <2>1, SameTypes, SameTables, IInvAssembled
<1>10. ASSUME NEW s \in Fd, NEW id \in Id, NEW nick \in Nick, NEW c \in Conn,
              Hello(s, id, nick, c)
       PROVE  IInv'
  <2>1. /\ bySock[s] = None /\ uniqueID(id) /\ addClient(s, id, nick, c)
        /\ Receives(s) /\ UNCHANGED <<open, arrayVars, fault>>
    BY <1>10 DEF Hello
  <2>2. TableTypes' /\ MainExists' /\ TablesAgree' /\ JoinedIsListedOnce'
    BY <2>1, AddPreserves
  <2> QED BY <1>1, <1>6, <1>8, <2>1, <2>2, SameTypes, IInvAssembled
<1>11. ASSUME NEW s \in Fd, DropUnregistered(s)
       PROVE  IInv'
  <2>1. ReceivesNothing(s) /\ removeSocket(s) /\ UNCHANGED tableVars
    BY <1>11 DEF DropUnregistered
  <2>2. FdTypes' /\ ArrayTypes'
    BY <1>1, <2>1, RemoveSocketTyped
  <2> QED BY <1>1, <1>7, <1>8, <2>1, <2>2, SameTypes, SameTables, IInvAssembled
<1>12. ASSUME NEW s \in Fd, HangUp(s)
       PROVE  IInv'
  <2>1. PICK c \in Conn : Live(c) /\ killClient(c) /\ ReceivesNothing(s)
    BY <1>12, HangUpKillsItsOwn
  <2>2. /\ FdTypes' /\ ArrayTypes' /\ TableTypes'
        /\ MainExists' /\ TablesAgree' /\ JoinedIsListedOnce'
    BY <2>1, KillPreserves
  <2> QED BY <1>1, <1>7, <1>8, <2>1, <2>2, IInvAssembled
<1> QED
  BY <1>2, <1>3, <1>4, <1>5, <1>9, <1>10, <1>11, <1>12 DEF Worker

\* A live connection's label is its nick and its activity: changing it disturbs
\* neither the tables by socket and ID nor any channel.
LEMMA RelabelPreserves ==
  ASSUME IInv, ~fault, NEW c \in Conn, Live(c), NEW r \in Connection,
         r.sock = conn[c].sock, r.id = conn[c].id, r.chans = conn[c].chans,
         conn' = [conn EXCEPT ![c] = r],
         UNCHANGED <<bySock, byId, channels, fault>>
  PROVE  MainExists' /\ TablesAgree' /\ JoinedIsListedOnce'
<1> USE ConstantsTyped
<1>1. /\ \A d \in Conn : Live(d)' <=> Live(d)
      /\ \A d \in Conn : Live(d) => /\ conn'[d].sock = conn[d].sock
                                    /\ conn'[d].id = conn[d].id
                                    /\ conn'[d].chans = conn[d].chans
  BY DEF IInv, TypeOK, Live
<1>2. TablesAgree'
  <2>1. /\ \A s \in Fd : bySock[s] # None => bySock[s] \in Conn
        /\ \A i \in Id : byId[i] # None => byId[i] \in Conn
    BY DEF IInv, TypeOK
  <2>2. \A s \in Fd : bySock'[s] # None =>
          conn'[bySock'[s]] # None /\ conn'[bySock'[s]].sock = s
    BY <1>1, <2>1 DEF IInv, TablesAgree, Live
  <2>3. \A i \in Id : byId'[i] # None =>
          conn'[byId'[i]] # None /\ conn'[byId'[i]].id = i
    BY <1>1, <2>1 DEF IInv, TablesAgree, Live
  <2>4. \A d \in Conn : conn'[d] # None =>
          bySock'[conn'[d].sock] = d /\ byId'[conn'[d].id] = d
    BY <1>1 DEF IInv, TablesAgree, Live
  <2>5. \A d \in Conn : InChannel(Main, d)' <=> conn'[d] # None
    BY <1>1 DEF IInv, TablesAgree, Live, InChannel
  <2> QED BY <2>2, <2>3, <2>4, <2>5 DEF TablesAgree, Live
<1>3. JoinedIsListedOnce'
  BY <1>1 DEF IInv, JoinedIsListedOnce
<1> QED
  BY <1>2, <1>3 DEF IInv, MainExists

\* Changing what one live connection and one channel say of each other keeps
\* the tables, as long as the connection stays in the main channel if this is
\* the one, and its list of channels stays true.
LEMMA MembershipPreserves ==
  ASSUME IInv, ~fault, NEW c \in Conn, Live(c), NEW n \in Chan,
         NEW m \in Members, NEW r \in Connection,
         r.sock = conn[c].sock, r.id = conn[c].id,
         conn' = [conn EXCEPT ![c] = r],
         channels' = [channels EXCEPT ![n] = m],
         m[c] > 0,
         \A d \in Conn \ {c} :
           m[d] = IF channels[n] = None THEN 0 ELSE channels[n][d],
         \A k \in r.chans : k # Main /\ (k = n \/ k \in conn[c].chans),
         n \in r.chans => m[c] = 1,
         UNCHANGED <<bySock, byId>>
  PROVE  MainExists' /\ TablesAgree' /\ JoinedIsListedOnce'
<1> USE ConstantsTyped
<1>1. /\ \A d \in Conn : Live(d)' <=> Live(d)
      /\ \A d \in Conn : Live(d) => /\ conn'[d].sock = conn[d].sock
                                    /\ conn'[d].id = conn[d].id
      /\ conn'[c] = r
      /\ \A d \in Conn \ {c} : conn'[d] = conn[d]
  BY DEF IInv, TypeOK, Live
<1>2. /\ channels'[n] = m
      /\ \A k \in Chan \ {n} : channels'[k] = channels[k]
      /\ channels[Main] # None
      /\ channels'[Main] # None
  BY DEF IInv, TypeOK, MainExists
<1>3. \A d \in Conn : InChannel(Main, d)' <=> Live(d)
  <2> SUFFICES ASSUME NEW d \in Conn PROVE InChannel(Main, d)' <=> Live(d)
    OBVIOUS
  <2>1. InChannel(Main, d) <=> Live(d)
    BY DEF IInv, TablesAgree
  <2>2. CASE d = c
    <3>1. channels[Main][c] > 0
      BY <2>1, <2>2 DEF InChannel
    <3>2. channels'[Main][c] > 0
      BY <1>2, <3>1
    <3> QED BY <1>2, <2>2, <3>2 DEF InChannel
  <2>3. CASE d # c
    <3>1. channels'[Main][d] = channels[Main][d]
      BY <1>2, <2>3
    <3> QED BY <1>2, <2>1, <3>1 DEF InChannel
  <2> QED BY <2>2, <2>3
<1>4. TablesAgree'
  <2>1. /\ \A s \in Fd : bySock[s] # None => bySock[s] \in Conn
        /\ \A i \in Id : byId[i] # None => byId[i] \in Conn
    BY DEF IInv, TypeOK
  <2>2. \A s \in Fd : bySock'[s] # None =>
          conn'[bySock'[s]] # None /\ conn'[bySock'[s]].sock = s
    BY <1>1, <2>1 DEF IInv, TablesAgree, Live
  <2>3. \A i \in Id : byId'[i] # None =>
          conn'[byId'[i]] # None /\ conn'[byId'[i]].id = i
    BY <1>1, <2>1 DEF IInv, TablesAgree, Live
  <2>4. \A d \in Conn : conn'[d] # None =>
          bySock'[conn'[d].sock] = d /\ byId'[conn'[d].id] = d
    BY <1>1 DEF IInv, TablesAgree, Live
  <2>5. \A d \in Conn : InChannel(Main, d)' <=> conn'[d] # None
    BY <1>1, <1>3 DEF Live
  <2> QED BY <2>2, <2>3, <2>4, <2>5 DEF TablesAgree, Live
<1>5. JoinedIsListedOnce'
  <2> SUFFICES ASSUME NEW d \in Conn, Live(d)', NEW k \in conn'[d].chans
               PROVE  k # Main /\ channels'[k] # None /\ channels'[k][d] = 1
    BY DEF JoinedIsListedOnce
  <2>1. Live(d) /\ conn[d] \in Connection
    BY <1>1, LiveTyped DEF IInv
  <2>2. k \in Chan
    BY <1>1, <2>1 DEF Connection
  <2>3. k \in conn[d].chans => k # Main /\ channels[k] # None /\ channels[k][d] = 1
    BY <2>1 DEF IInv, JoinedIsListedOnce
  <2>4. CASE k # n
    BY <1>1, <1>2, <2>2, <2>3, <2>4
  <2>5. CASE k = n /\ d = c
    BY <1>1, <1>2, <2>5
  <2>6. CASE k = n /\ d # c
    BY <1>1, <1>2, <2>3, <2>6
  <2> QED BY <2>4, <2>5, <2>6
<1> QED
  BY <1>2, <1>4, <1>5 DEF MainExists

\* The application's calls.
LEMMA ApplicationPreserves ==
  ASSUME IInv, ~fault, Application
  PROVE  IInv'
<1> USE ConstantsTyped
<1>1. TypeOK /\ FdTypes /\ ArrayTypes /\ LoopTypes /\ TableTypes /\ OtherTypes
  BY TypesGrouped DEF IInv
<1>2. AppUnchanged => LoopTypes'
  BY <1>1, SameTypes DEF AppUnchanged
<1>3. AppUnchanged /\ renamed' \in BOOLEAN /\ fault' \in BOOLEAN => OtherTypes'
  BY <1>1 DEF OtherTypes, AppUnchanged
<1>4. UNCHANGED <<fdVars, arrayVars>> => FdTypes' /\ ArrayTypes'
  BY <1>1, SameTypes
<1>5. ASSUME NEW c \in Conn, NEW a \in BOOLEAN, SetActive(c, a)
      PROVE  IInv'
  <2> DEFINE r == [conn[c] EXCEPT !.active = a]
  <2>1. /\ Live(c) /\ conn' = [conn EXCEPT ![c] = r] /\ AppUnchanged
        /\ UNCHANGED <<fdVars, arrayVars, bySock, byId, byNick, channels, renamed, fault>>
    BY <1>5 DEF SetActive
  <2>2. /\ r \in Connection
        /\ r.sock = conn[c].sock /\ r.id = conn[c].id /\ r.chans = conn[c].chans
    BY <1>1, <2>1, LiveTyped DEF Connection
  <2> HIDE DEF r
  <2>3. MainExists' /\ TablesAgree' /\ JoinedIsListedOnce'
    BY <2>1, <2>2, RelabelPreserves
  <2>4. TableTypes'
    BY <1>1, <2>1, <2>2 DEF TableTypes
  <2>5. OtherTypes'
    BY <1>1, <1>3, <2>1 DEF OtherTypes
  <2> QED BY <1>2, <1>4, <2>1, <2>3, <2>4, <2>5, IInvAssembled
<1>6. ASSUME NEW c \in Conn, NEW nick \in Nick, SetNick(c, nick)
      PROVE  IInv'
  <2> DEFINE r == [conn[c] EXCEPT !.nick = nick]
  <2>1. /\ Live(c) /\ conn' = [conn EXCEPT ![c] = r] /\ AppUnchanged
        /\ renamed' = TRUE
        /\ UNCHANGED <<fdVars, arrayVars, bySock, byId, byNick, channels, fault>>
    BY <1>6 DEF SetNick
  <2>2. /\ r \in Connection
        /\ r.sock = conn[c].sock /\ r.id = conn[c].id /\ r.chans = conn[c].chans
    BY <1>1, <2>1, LiveTyped DEF Connection
  <2> HIDE DEF r
  <2>3. MainExists' /\ TablesAgree' /\ JoinedIsListedOnce'
    BY <2>1, <2>2, RelabelPreserves
  <2>4. TableTypes'
    BY <1>1, <2>1, <2>2 DEF TableTypes
  <2>5. OtherTypes'
    BY <1>1, <1>3, <2>1 DEF OtherTypes
  <2> QED BY <1>2, <1>4, <2>1, <2>3, <2>4, <2>5, IInvAssembled
<1>7. ASSUME NEW id \in Id, NEW nick \in Nick, changeNick(id, nick)
      PROVE  IInv'
  <2> DEFINE c == byId[id]
             r == [conn[c] EXCEPT !.nick = nick]
  <2>1. /\ c # None /\ conn' = [conn EXCEPT ![c] = r] /\ AppUnchanged
        /\ byNick' = [byNick EXCEPT ![conn[c].nick] = None, ![nick] = c]
        /\ UNCHANGED <<fdVars, arrayVars, bySock, byId, channels, renamed, fault>>
    BY <1>7 DEF changeNick
  <2>2. c \in Conn /\ Live(c)
    BY <1>1, <2>1 DEF IInv, TablesAgree, TypeOK
  <2>3. /\ r \in Connection
        /\ r.sock = conn[c].sock /\ r.id = conn[c].id /\ r.chans = conn[c].chans
    BY <1>1, <2>2, LiveTyped DEF Connection
  <2> HIDE DEF r, c
  <2>4. MainExists' /\ TablesAgree' /\ JoinedIsListedOnce'
    BY <2>1, <2>2, <2>3, RelabelPreserves
  <2>5. TableTypes'
    BY <1>1, <2>1, <2>2, <2>3 DEF TableTypes
  <2>6. OtherTypes'
    BY <1>1, <1>3, <2>1 DEF OtherTypes
  <2> QED BY <1>2, <1>4, <2>1, <2>4, <2>5, <2>6, IInvAssembled
<1>8. ASSUME NEW n \in Chan, createChannel(n)
      PROVE  IInv'
  <2>1. /\ channels[n] = None /\ channels' = [channels EXCEPT ![n] = Nobody] /\ AppUnchanged
        /\ UNCHANGED <<fdVars, arrayVars, bySock, byId, byNick, conn, renamed, fault>>
    BY <1>8 DEF createChannel
  <2>2. n # Main /\ channels[Main] # None
    BY <2>1 DEF IInv, MainExists
  <2>3. \A k \in Chan \ {n} : channels'[k] = channels[k]
    BY <1>1, <2>1 DEF TypeOK
  <2>4. MainExists' /\ TablesAgree'
    BY <2>1, <2>2, <2>3 DEF IInv, MainExists, TablesAgree, InChannel, Live
  <2>5. JoinedIsListedOnce'
    <3> SUFFICES ASSUME NEW d \in Conn, Live(d), NEW k \in conn[d].chans
                 PROVE  k # Main /\ channels'[k] # None /\ channels'[k][d] = 1
      BY <2>1 DEF JoinedIsListedOnce, Live
    <3>1. k \in Chan /\ k # Main /\ channels[k] # None /\ channels[k][d] = 1
      BY <1>1, LiveTyped DEF IInv, JoinedIsListedOnce, Connection
    <3> QED BY <2>1, <2>3, <3>1
  <2>6. TableTypes'
    BY <1>1, <2>1, NobodyTyped DEF TableTypes
  <2>7. OtherTypes'
    BY <1>1, <1>3, <2>1 DEF OtherTypes
  <2> QED BY <1>2, <1>4, <2>1, <2>4, <2>5, <2>6, <2>7, IInvAssembled
<1>9. ASSUME NEW n \in Chan, deleteChannel(n) \/ sendToFreed(n)
      PROVE  IInv'
  <2>1. /\ fault' /\ fault' \in BOOLEAN /\ AppUnchanged
        /\ UNCHANGED <<fdVars, arrayVars, renamed>>
    BY <1>9 DEF deleteChannel, sendToFreed
  <2>2. TableTypes'
    <3>1. CASE deleteChannel(n)
      BY <1>1, <3>1 DEF deleteChannel, TableTypes
    <3>2. CASE sendToFreed(n)
      BY <1>1, <3>2, SameTypes DEF sendToFreed
    <3> QED BY <1>9, <3>1, <3>2
  <2>3. OtherTypes'
    BY <1>1, <1>3, <2>1 DEF OtherTypes
  <2> QED BY <1>2, <1>4, <2>1, <2>2, <2>3, FaultExcuses, IInvAssembled
<1>10. ASSUME NEW n \in Chan, NEW c \in Conn, joinChannel(n, c)
       PROVE  IInv'
  <2> DEFINE before == IF channels[n] = None THEN Nobody ELSE channels[n]
             m == Push(before, c)
             r == [conn[c] EXCEPT !.chans = @ \cup {n}]
  <2>1. /\ Live(c) /\ before[c] = 0 /\ AppUnchanged
        /\ channels' = [channels EXCEPT ![n] = m]
        /\ conn' = [conn EXCEPT ![c] = r]
        /\ UNCHANGED <<fdVars, arrayVars, bySock, byId, byNick, renamed, fault>>
    BY <1>10 DEF joinChannel
  <2>2. before \in Members
    BY <1>1, LiveTyped, NobodyTyped
  <2>3. conn[c] \in Connection
    BY <1>1, <2>1, LiveTyped
  <2>4. /\ r \in Connection
        /\ r.sock = conn[c].sock /\ r.id = conn[c].id /\ r.chans = conn[c].chans \cup {n}
    BY <2>3 DEF Connection
  <2>5. \A d \in Conn : before[d] = IF channels[n] = None THEN 0 ELSE channels[n][d]
    BY NobodyTyped
  \* no connection joins the main channel: c is already in it
  <2>6. n # Main
    <3>1. channels[Main] # None /\ channels[Main][c] > 0
      BY <2>1 DEF IInv, MainExists, TablesAgree, InChannel
    <3> QED BY <2>1, <2>5, <3>1
  <2> HIDE DEF r, before
  <2>7. m \in Members /\ m[c] = 1 /\ \A d \in Conn \ {c} : m[d] = before[d]
    BY <2>1, <2>2, PushTyped
  <2> HIDE DEF m
  <2>8. \A k \in r.chans : k # Main /\ (k = n \/ k \in conn[c].chans)
    BY <2>1, <2>4, <2>6 DEF IInv, JoinedIsListedOnce
  <2>9. MainExists' /\ TablesAgree' /\ JoinedIsListedOnce'
    <3>1. \A d \in Conn \ {c} : m[d] = IF channels[n] = None THEN 0 ELSE channels[n][d]
      BY <2>5, <2>7
    <3>2. m[c] > 0 /\ (n \in r.chans => m[c] = 1) /\ UNCHANGED <<bySock, byId>>
      BY <2>1, <2>7
    <3> QED BY <2>1, <2>4, <2>7, <2>8, <3>1, <3>2, MembershipPreserves
  <2>10. TableTypes'
    BY <1>1, <2>1, <2>4, <2>7 DEF TableTypes
  <2>11. OtherTypes'
    BY <1>1, <1>3, <2>1 DEF OtherTypes
  <2> QED BY <1>2, <1>4, <2>1, <2>9, <2>10, <2>11, IInvAssembled
<1>11. ASSUME NEW n \in Chan, NEW c \in Conn, leaveChannel(n, c)
       PROVE  IInv'
  <2> DEFINE m == Push(channels[n], c)
             r == [conn[c] EXCEPT !.chans = @ \ {n}]
  <2>1. /\ Live(c) /\ channels[n] # None /\ channels[n][c] < MaxCopies /\ AppUnchanged
        /\ channels' = [channels EXCEPT ![n] = m]
        /\ conn' = [conn EXCEPT ![c] = r]
        /\ fault' = (channels'[n] = Nobody)
        /\ UNCHANGED <<fdVars, arrayVars, bySock, byId, byNick, renamed>>
    BY <1>1, <1>11 DEF leaveChannel, TypeOK
  <2>2. channels[n] \in Members /\ conn[c] \in Connection
    BY <1>1, <2>1, LiveTyped
  <2>3. /\ r \in Connection
        /\ r.sock = conn[c].sock /\ r.id = conn[c].id /\ r.chans = conn[c].chans \ {n}
    BY <2>2 DEF Connection
  <2>4. /\ m \in Members /\ m[c] > 0
        /\ \A d \in Conn \ {c} : m[d] = channels[n][d]
    <3>1. channels[n][c] \in Nat
      BY <2>2 DEF Members
    <3> QED BY <2>1, <2>2, <3>1, PushTyped
  <2> HIDE DEF r, m
  <2>5. \A k \in r.chans : k # Main /\ (k = n \/ k \in conn[c].chans)
    BY <2>1, <2>3 DEF IInv, JoinedIsListedOnce
  <2>6. MainExists' /\ TablesAgree' /\ JoinedIsListedOnce'
    <3>1. \A d \in Conn \ {c} : m[d] = IF channels[n] = None THEN 0 ELSE channels[n][d]
      BY <2>1, <2>4
    <3>2. (n \in r.chans => m[c] = 1) /\ UNCHANGED <<bySock, byId>>
      BY <2>1, <2>3
    <3> QED BY <2>1, <2>3, <2>4, <2>5, <3>1, <3>2, MembershipPreserves
  <2>7. TableTypes'
    BY <1>1, <2>1, <2>3, <2>4 DEF TableTypes
  <2>8. OtherTypes'
    BY <1>1, <1>3, <2>1 DEF OtherTypes
  <2> QED BY <1>2, <1>4, <2>1, <2>6, <2>7, <2>8, IInvAssembled
<1>12. ASSUME NEW n \in Chan, NEW c \in Conn, sendFails(n, c)
       PROVE  IInv'
  <2>1. Live(c) /\ killClient(c) /\ fault' = (n # Main) /\ AppUnchanged /\ UNCHANGED renamed
    BY <1>12 DEF sendFails
  <2>2. /\ FdTypes' /\ ArrayTypes' /\ TableTypes'
        /\ MainExists' /\ TablesAgree' /\ JoinedIsListedOnce'
    BY <2>1, KillPreserves
  <2>3. OtherTypes'
    BY <1>1, <1>3, <2>1 DEF OtherTypes
  <2> QED BY <1>2, <2>1, <2>2, <2>3, IInvAssembled
<1> QED
  BY <1>5, <1>6, <1>7, <1>8, <1>9, <1>10, <1>11, <1>12 DEF Application

\* Starting and stopping the server.
LEMMA ControlPreserves ==
  ASSUME IInv, ~fault, Control
  PROVE  IInv'
<1> USE ConstantsTyped
<1>1. TypeOK /\ FdTypes /\ ArrayTypes /\ LoopTypes /\ TableTypes /\ OtherTypes
  BY TypesGrouped DEF IInv
<1>2. CASE start
  <2>1. /\ starts < MaxStarts /\ starts' = starts + 1 /\ running' = TRUE /\ set' = {}
        /\ UNCHANGED <<backlog, fdVars, sockets, cap, room, loopVars, tableVars, renamed, fault>>
    BY <1>2 DEF start
  <2>2. starts' \in 0..MaxStarts
    BY <1>1, <2>1 DEF OtherTypes
  <2>3. OtherTypes' /\ ArrayTypes'
    BY <1>1, <2>1, <2>2 DEF OtherTypes, ArrayTypes
  <2> QED BY <1>1, <2>1, <2>3, SameTypes, SameTables, IInvAssembled
<1>3. ASSUME NEW kill \in BOOLEAN, stop(kill)
      PROVE  IInv'
  <2>1. /\ killAllClients /\ running' = FALSE /\ backlog' = 0 /\ idx' = 0 /\ ready' = {}
        /\ UNCHANGED <<arrayVars, historyVars>>
    BY <1>3 DEF stop
  <2>2. /\ FdTypes' /\ TableTypes' /\ fault' \in BOOLEAN
        /\ MainExists' /\ TablesAgree' /\ JoinedIsListedOnce'
    BY <2>1, KillAllPreserves
  <2>3. 0 \in 0..MaxBacklog /\ 0 \in Nat
    OBVIOUS
  <2>4. OtherTypes' /\ LoopTypes'
    BY <1>1, <2>1, <2>2, <2>3, Zenon DEF OtherTypes, LoopTypes, historyVars
  <2> QED BY <1>1, <2>1, <2>2, <2>4, SameTypes, IInvAssembled
<1> QED
  BY <1>2, <1>3 DEF Control

\* Every step preserves the invariant.
LEMMA IInvPreserved ==
  ASSUME IInv, [Next]_vars
  PROVE  IInv'
<1>1. CASE UNCHANGED vars
  <2>1. UNCHANGED <<backlog, fdVars, running, arrayVars, loopVars, tableVars,
                    historyVars, fault>>
    BY <1>1 DEF vars
  <2>2. OtherTypes'
    BY <2>1, TypesGrouped DEF IInv, OtherTypes, historyVars
  <2> QED BY <2>1, <2>2, TypesGrouped, SameTypes, SameTables, IInvAssembled DEF IInv
<1>2. CASE Next
  BY <1>2, PeersPreserve, WorkerPreserves, ApplicationPreserves, ControlPreserves DEF Next
<1> QED
  BY <1>1, <1>2

\* The invariant holds before the first start().
LEMMA IInvInit ==
  ASSUME Init
  PROVE  IInv
<1> USE ConstantsTyped
<1>1. FdTypes /\ ArrayTypes /\ LoopTypes
  BY DEF Init, FdTypes, ArrayTypes, LoopTypes
<1>2. OtherTypes
  <2>1. 0 \in 0..MaxBacklog /\ 0 \in 0..MaxStarts
    OBVIOUS
  <2> QED BY <2>1, Zenon DEF Init, OtherTypes
<1>3. TableTypes
  BY NobodyTyped DEF Init, TableTypes
<1>4. channels[Main] = Nobody /\ Nobody # None
  BY NobodyTyped DEF Init
<1>5. \A c \in Conn : ~Live(c)
  BY DEF Init, Live
<1>6. TablesAgree
  BY <1>4, <1>5, NobodyTyped DEF Init, TablesAgree, InChannel
<1>7. JoinedIsListedOnce
  BY <1>5 DEF JoinedIsListedOnce
<1> QED
  BY <1>1, <1>2, <1>3, <1>4, <1>6, <1>7, TypesGrouped DEF IInv, MainExists

-----------------------------------------------------------------------------
(* IDs and nicks. *)

\* Every connection stays live and keeps its nick.
NicksKept == \A c \in Conn : Live(c) => conn'[c] # None /\ conn'[c].nick = conn[c].nick

\* What a step does to _clients: it adds a client, kills one or all, changes a
\* nick through the server, or leaves the table alone; then every connection
\* keeps its nick unless one was changed behind the server.
LEMMA StepsOnClients ==
  ASSUME IInv, [Next]_vars
  PROVE  \/ /\ UNCHANGED <<byId, byNick>>
            /\ \/ renamed' = TRUE
               \/ renamed' = renamed /\ NicksKept
         \/ /\ renamed' = renamed /\ ~fault
            /\ \/ \E s \in Fd, id \in Id, nick \in Nick, c \in Conn :
                    uniqueID(id) /\ addClient(s, id, nick, c)
               \/ \E c \in Conn : Live(c) /\ killClient(c)
               \/ killAllClients
               \/ \E id \in Id, nick \in Nick : changeNick(id, nick)
<1> DEFINE Kept == /\ UNCHANGED <<byId, byNick>>
                   /\ \/ renamed' = TRUE
                      \/ renamed' = renamed /\ NicksKept
<1>1. conn \in [Conn -> Connection \cup {None}] /\ None \notin Connection
  BY ConstantsTyped DEF IInv, TypeOK
<1>2. ASSUME UNCHANGED <<byId, byNick, conn, renamed>>
      PROVE  Kept
  BY <1>2 DEF NicksKept, Live
<1>3. CASE UNCHANGED vars
  BY <1>2, <1>3 DEF vars, tableVars, historyVars
<1>4. CASE ~fault /\ Peers
  BY <1>2, <1>4 DEF Peers, PeerConnects, PeerSends, PeerCloses, tableVars, historyVars
<1>5. CASE ~fault /\ (AcceptFails \/ Select \/ EndPass)
  BY <1>2, <1>5 DEF AcceptFails, Select, EndPass, tableVars, historyVars
<1>6. ASSUME NEW s \in Fd,
             \/ Accept(s) \/ Skip(s) \/ Message(s) \/ DropUnregistered(s)
             \/ \E id \in Id : HelloDuplicate(s, id)
      PROVE  Kept
  BY <1>2, <1>6 DEF Accept, Skip, Message, DropUnregistered, HelloDuplicate, Receives,
                    ReceivesNothing, tableVars, historyVars
<1>7. ASSUME ~fault, NEW s \in Fd, HangUp(s)
      PROVE  renamed' = renamed /\ \E c \in Conn : Live(c) /\ killClient(c)
  BY <1>7, HangUpKillsItsOwn DEF ReceivesNothing, historyVars
<1>8. ASSUME NEW s \in Fd, NEW id \in Id, NEW nick \in Nick, NEW c \in Conn,
             Hello(s, id, nick, c)
      PROVE  renamed' = renamed /\ uniqueID(id) /\ addClient(s, id, nick, c)
  BY <1>8 DEF Hello, Receives, historyVars
<1>9. CASE ~fault /\ Worker
  <2> HIDE DEF Kept
  <2>1. CASE \E s \in Fd : HangUp(s)
    BY <1>7, <1>9, <2>1
  <2>2. CASE \E s \in Fd, id \in Id, nick \in Nick, c \in Conn : Hello(s, id, nick, c)
    BY <1>8, <1>9, <2>2
  <2>3. CASE Kept
    BY <2>3 DEF Kept
  <2> QED BY <1>5, <1>6, <1>9, <2>1, <2>2, <2>3 DEF Worker
<1>10. ASSUME NEW n \in Chan, createChannel(n) \/ deleteChannel(n) \/ sendToFreed(n)
       PROVE  Kept
  BY <1>2, <1>10 DEF createChannel, deleteChannel, sendToFreed, tableVars
<1>11. ASSUME NEW c \in Conn, NEW a \in BOOLEAN, SetActive(c, a)
       PROVE  Kept
  BY <1>1, <1>11 DEF SetActive, NicksKept, Live, Connection
<1>12. ASSUME NEW c \in Conn, NEW nick \in Nick, SetNick(c, nick)
       PROVE  Kept
  BY <1>12 DEF SetNick
<1>13. ASSUME NEW n \in Chan, NEW c \in Conn, joinChannel(n, c) \/ leaveChannel(n, c)
       PROVE  Kept
  <2>1. CASE joinChannel(n, c)
    BY <1>1, <2>1 DEF joinChannel, NicksKept, Live, Connection
  <2>2. CASE leaveChannel(n, c)
    BY <1>1, <2>2 DEF leaveChannel, NicksKept, Live, Connection
  <2> QED BY <1>13, <2>1, <2>2
<1>14. ASSUME NEW n \in Chan, NEW c \in Conn, sendFails(n, c)
       PROVE  renamed' = renamed /\ Live(c) /\ killClient(c)
  BY <1>14 DEF sendFails
<1>15. ASSUME NEW id \in Id, NEW nick \in Nick, changeNick(id, nick)
       PROVE  renamed' = renamed
  BY <1>15 DEF changeNick
<1>16. CASE ~fault /\ Application
  <2> HIDE DEF Kept
  <2>1. CASE Kept
    BY <2>1 DEF Kept
  <2>2. CASE \E id \in Id, nick \in Nick : changeNick(id, nick)
    BY <1>15, <1>16, <2>2
  <2>3. CASE \E n \in Chan, c \in Conn : sendFails(n, c)
    BY <1>14, <1>16, <2>3
  <2> QED BY <1>10, <1>11, <1>12, <1>13, <1>16, <2>1, <2>2, <2>3 DEF Application
<1>17. CASE ~fault /\ Control
  BY <1>2, <1>17 DEF Control, start, stop, tableVars, historyVars
<1> QED
  BY <1>3, <1>4, <1>9, <1>16, <1>17 DEF Next

\* A step takes an ID from a connection only by freeing it.
LEMMA IdKept ==
  ASSUME IInv, [Next]_vars
  PROVE  \A i \in Id : byId[i] # None /\ byId'[i] # byId[i] =>
           byId'[i] = None /\ conn'[byId[i]] = None
<1> SUFFICES ASSUME NEW i \in Id, byId[i] # None, byId'[i] # byId[i]
             PROVE  byId'[i] = None /\ conn'[byId[i]] = None
  OBVIOUS
<1>1. byId[i] \in Conn /\ TypeOK
  BY DEF IInv, TypeOK
<1>2. ASSUME NEW s \in Fd, NEW id \in Id, NEW nick \in Nick, NEW c \in Conn,
             uniqueID(id), addClient(s, id, nick, c)
      PROVE  FALSE
  BY <1>1, <1>2 DEF uniqueID, addClient, TypeOK
<1>3. ASSUME ~fault, NEW c \in Conn, Live(c), killClient(c)
      PROVE  byId'[i] = None /\ conn'[byId[i]] = None
  <2>1. byId' = [byId EXCEPT ![conn[c].id] = None] /\ conn' = [conn EXCEPT ![c] = None]
    BY <1>3 DEF killClient
  <2>2. i = conn[c].id
    BY <1>1, <2>1 DEF TypeOK
  <2>3. byId[i] = c
    BY <1>3, <2>2 DEF IInv, TablesAgree
  <2> QED BY <1>1, <2>1, <2>2, <2>3 DEF TypeOK
<1>4. ASSUME ~fault, killAllClients
      PROVE  byId'[i] = None /\ conn'[byId[i]] = None
  <2>1. channels[Main][byId[i]] > 0
    BY <1>1, <1>4 DEF IInv, TablesAgree, InChannel
  <2>2. CASE \A s \in Fd : bySock[s] = None
    BY <1>4, <2>2 DEF killAllClients, tableVars
  <2>3. CASE ~ \A s \in Fd : bySock[s] = None
    BY <1>1, <1>4, <2>1, <2>3 DEF killAllClients
  <2> QED BY <2>2, <2>3
<1>5. ASSUME NEW id \in Id, NEW nick \in Nick, changeNick(id, nick)
      PROVE  FALSE
  BY <1>5 DEF changeNick
<1> QED
  BY <1>2, <1>3, <1>4, <1>5, StepsOnClients

\* A step keeps every listed nick that of a live connection, as long as nicks
\* change through the server.
LEMMA NicksPreserved ==
  ASSUME IInv, NickLookupLive, [Next]_vars
  PROVE  NickLookupLive'
<1> SUFFICES ASSUME ~fault', ~renamed', NEW k \in Nick, byNick'[k] # None
             PROVE  conn'[byNick'[k]] # None /\ conn'[byNick'[k]].nick = k
  BY DEF NickLookupLive, Live
<1>1. TypeOK /\ None \notin Conn /\ None \notin Connection
  BY ConstantsTyped DEF IInv
<1>2. ~fault
  BY DEF Next, vars
<1>3. ASSUME ~renamed, byNick[k] # None
      PROVE  byNick[k] \in Conn /\ Live(byNick[k]) /\ conn[byNick[k]].nick = k
  BY <1>1, <1>2, <1>3 DEF NickLookupLive, TypeOK
<1>4. CASE renamed' = renamed /\ NicksKept /\ UNCHANGED <<byId, byNick>>
  BY <1>3, <1>4 DEF NicksKept
<1>5. ASSUME ~renamed, NEW s \in Fd, NEW id \in Id, NEW nick \in Nick, NEW c \in Conn,
             addClient(s, id, nick, c)
      PROVE  conn'[byNick'[k]] # None /\ conn'[byNick'[k]].nick = k
  <2> DEFINE r == [sock |-> s, id |-> id, nick |-> nick, active |-> FALSE, chans |-> {}]
  <2>1. /\ byNick' = [byNick EXCEPT ![nick] = c]
        /\ conn' = [conn EXCEPT ![c] = r]
        /\ ~Live(c)
    BY <1>5 DEF addClient
  <2>2. r \in Connection /\ r.nick = nick
    BY DEF Connection
  <2> HIDE DEF r
  <2>3. CASE k = nick
    <3>1. byNick'[k] = c /\ conn'[c] = r
      BY <1>1, <2>1, <2>3 DEF TypeOK
    <3> QED BY <1>1, <2>2, <2>3, <3>1
  <2>4. CASE k # nick
    <3>1. byNick'[k] = byNick[k]
      BY <1>1, <2>1, <2>4 DEF TypeOK
    <3>2. byNick[k] \in Conn /\ Live(byNick[k]) /\ conn[byNick[k]].nick = k
      BY <1>3, <1>5, <3>1
    <3>3. byNick[k] # c /\ conn'[byNick[k]] = conn[byNick[k]]
      BY <1>1, <2>1, <3>2 DEF TypeOK
    <3> QED BY <3>1, <3>2, <3>3 DEF Live
  <2> QED BY <2>3, <2>4
<1>6. ASSUME ~renamed, NEW c \in Conn, Live(c), killClient(c)
      PROVE  conn'[byNick'[k]] # None /\ conn'[byNick'[k]].nick = k
  <2>1. /\ byNick' = [byNick EXCEPT ![conn[c].nick] = None]
        /\ conn' = [conn EXCEPT ![c] = None]
    BY <1>6 DEF killClient
  <2>2. k # conn[c].nick /\ byNick'[k] = byNick[k]
    BY <1>1, <2>1 DEF TypeOK
  <2>3. byNick[k] \in Conn \ {c}
    BY <1>3, <1>6, <2>2
  <2> QED BY <1>1, <1>3, <1>6, <2>1, <2>2, <2>3 DEF TypeOK, Live
<1>7. ASSUME ~renamed, killAllClients
      PROVE  conn'[byNick'[k]] # None /\ conn'[byNick'[k]].nick = k
  <2>1. CASE \A s \in Fd : bySock[s] = None
    BY <1>3, <1>7, <2>1 DEF killAllClients, tableVars, Live
  <2>2. CASE ~ \A s \in Fd : bySock[s] = None
    BY <1>7, <2>2 DEF killAllClients
  <2> QED BY <2>1, <2>2
<1>8. ASSUME ~renamed, NEW id \in Id, NEW nick \in Nick, changeNick(id, nick)
      PROVE  conn'[byNick'[k]] # None /\ conn'[byNick'[k]].nick = k
  <2> DEFINE c == byId[id]
             r == [conn[c] EXCEPT !.nick = nick]
  <2>1. /\ c # None /\ conn' = [conn EXCEPT ![c] = r]
        /\ byNick' = [byNick EXCEPT ![conn[c].nick] = None, ![nick] = c]
    BY <1>8 DEF changeNick
  <2>2. c \in Conn /\ Live(c) /\ conn[c] \in Connection
    BY <1>1, <1>2, <2>1, LiveTyped DEF IInv, TablesAgree, TypeOK
  <2>3. r \in Connection /\ r.nick = nick
    BY <2>2 DEF Connection
  <2> HIDE DEF c, r
  <2>4. CASE k = nick
    BY <1>1, <2>1, <2>2, <2>3, <2>4 DEF TypeOK
  <2>5. CASE k # nick
    <3>1. byNick'[k] = byNick[k] /\ k # conn[c].nick
      BY <1>1, <2>1, <2>2, <2>5 DEF TypeOK
    <3>2. byNick[k] \in Conn \ {c} /\ Live(byNick[k]) /\ conn[byNick[k]].nick = k
      BY <1>3, <1>8, <3>1
    <3> QED BY <1>1, <2>1, <3>1, <3>2 DEF TypeOK, Live
  <2> QED BY <2>4, <2>5
<1> QED
  BY <1>4, <1>5, <1>6, <1>7, <1>8, StepsOnClients

-----------------------------------------------------------------------------
(* The theorems. *)

\* In every reachable state the tables of the server agree with each other and
\* with the main channel, and a connection is listed exactly once in each
\* channel that it believes to be in (addClient, killClient, killAllClients,
\* joinChannel, leaveChannel in Server.cpp).
THEOREM Safety == Spec => [](TypeOK /\ TablesAgree /\ JoinedIsListedOnce)
<1>1. Init => IInv
  BY IInvInit
<1>2. IInv /\ [Next]_vars => IInv'
  BY IInvPreserved
<1>3. IInv => TypeOK /\ TablesAgree /\ JoinedIsListedOnce
  BY DEF IInv
<1> QED
  BY <1>1, <1>2, <1>3, PTL DEF Spec


\* In every step an ID in use stays with its connection unless the connection is
\* freed (uniqueID, addClient, killClient in Server.cpp).
THEOREM IdsStay == Spec => IdNotStolen
<1>1. Init => IInv
  BY IInvInit
<1>2. IInv /\ [Next]_vars => IInv'
  BY IInvPreserved
<1>3. IInv /\ [Next]_vars =>
        [\A i \in Id : byId[i] # None /\ byId'[i] # byId[i] =>
           byId'[i] = None /\ conn'[byId[i]] = None]_vars
  BY IdKept
<1> QED
  BY <1>1, <1>2, <1>3, PTL DEF Spec, IdNotStolen


\* A lookup by nick finds a live connection of that nick or none, although nicks
\* are not unique, as long as nicks change through the server (addClient,
\* killClient, killAllClients and changeNick in Server.cpp).
THEOREM NicksLive == Spec => []NickLookupLive
<1>1. Init => IInv /\ NickLookupLive
  BY IInvInit DEF Init, NickLookupLive
<1>2. IInv /\ NickLookupLive /\ [Next]_vars => (IInv /\ NickLookupLive)'
  BY IInvPreserved, NicksPreserved
<1> QED
  BY <1>1, <1>2, PTL DEF Spec

-----------------------------------------------------------------------------
(* Who is listed in a channel. *)

\* Nobody leaves a channel, by leaveChannel or by killClient, which calls it for each
\* channel of the connection; the server may be stopped.
Staying ==
  \A c \in Conn :
    /\ \A n \in Chan : ~leaveChannel(n, c)
    /\ Live(c) /\ ~Live(c)' /\ running' = running => conn[c].chans = {}

ListedAreIn ==
  ~fault =>
    \A c \in Conn, n \in Chan \ {Main} : InChannel(n, c) => Live(c) /\ n \in conn[c].chans

\* Nobody is listed who was not, and nobody forgets a channel.
LEMMA NobodyListed ==
  ASSUME ListedAreIn, ~fault,
         \A c \in Conn, n \in Chan \ {Main} :
           /\ InChannel(n, c)' => InChannel(n, c)
           /\ InChannel(n, c) /\ Live(c) /\ n \in conn[c].chans =>
                Live(c)' /\ n \in conn'[c].chans
  PROVE  ListedAreIn'
BY DEF ListedAreIn

LEMMA RelabelKeepsChannels ==
  ASSUME IInv, ListedAreIn, ~fault, NEW c \in Conn, Live(c), channels' = channels,
         \/ \E a \in BOOLEAN : conn' = [conn EXCEPT ![c].active = a]
         \/ \E nick \in Nick : conn' = [conn EXCEPT ![c].nick = nick]
  PROVE  ListedAreIn'
<1>1. conn \in [Conn -> Connection \cup {None}] /\ conn[c] \in Connection /\ None \notin Connection
  BY LiveTyped, ConstantsTyped DEF IInv, TypeOK
<1>2. conn'[c] \in Connection /\ conn'[c].chans = conn[c].chans
  BY <1>1 DEF Connection
<1>3. \A d \in Conn : d # c => conn'[d] = conn[d]
  BY <1>1
<1> QED
  BY <1>1, <1>2, <1>3, NobodyListed DEF Live, InChannel

\* A connection without channels of its own ends.
LEMMA EndOfLoner ==
  ASSUME IInv, ListedAreIn, ~fault, NEW c \in Conn, Live(c), killClient(c), conn[c].chans = {}
  PROVE  ListedAreIn'
<1>1. /\ conn' = [conn EXCEPT ![c] = None]
      /\ \A n \in Chan \ {Main} : channels'[n] = channels[n]
  BY DEF killClient
<1>2. conn \in [Conn -> Connection \cup {None}]
  BY DEF IInv, TypeOK
<1>3. \A n \in Chan \ {Main} : ~InChannel(n, c)
  BY DEF ListedAreIn
<1>4. \A d \in Conn : d # c => conn'[d] = conn[d]
  BY <1>1, <1>2
<1> QED
  BY <1>1, <1>3, <1>4, NobodyListed DEF Live, InChannel

LEMMA ListedPreserved ==
  ASSUME IInv, ListedAreIn, [Next]_vars, [Staying]_vars
  PROVE  ListedAreIn'
<1>0. conn \in [Conn -> Connection \cup {None}] /\ None \notin Connection
      /\ channels \in [Chan -> Members \cup {None}] /\ None \notin Members
  BY ConstantsTyped DEF IInv, TypeOK
<1>1. CASE UNCHANGED vars
  BY <1>1 DEF vars, tableVars, ListedAreIn, Live, InChannel
<1>2. ASSUME ~fault, UNCHANGED <<conn, channels>>
      PROVE  ListedAreIn'
  BY <1>2, NobodyListed DEF Live, InChannel
<1>3. CASE ~fault /\ Peers
  BY <1>2, <1>3 DEF Peers, PeerConnects, PeerSends, PeerCloses, tableVars
<1>4. ASSUME NEW c \in Conn, ~fault, Staying, Live(c), killClient(c), running' = running
      PROVE  ListedAreIn'
  <2>1. ~Live(c)'
    BY <1>0, <1>4 DEF killClient, Live
  <2>2. conn[c].chans = {}
    BY <1>4, <2>1 DEF Staying
  <2> QED BY <1>4, <2>2, EndOfLoner
<1>5. CASE ~fault /\ Staying /\ Worker
  <2>1. CASE AcceptFails \/ Select \/ EndPass
    BY <1>2, <1>5, <2>1 DEF AcceptFails, Select, EndPass, tableVars
  <2>2. ASSUME NEW s \in Fd,
               \/ Accept(s) \/ Skip(s) \/ Message(s) \/ DropUnregistered(s)
               \/ \E id \in Id : HelloDuplicate(s, id)
        PROVE  ListedAreIn'
    BY <1>2, <1>5, <2>2 DEF Accept, Skip, Message, DropUnregistered, HelloDuplicate, tableVars
  <2>3. ASSUME NEW s \in Fd, HangUp(s)
        PROVE  ListedAreIn'
    BY <1>4, <1>5, <2>3, HangUpKillsItsOwn DEF ReceivesNothing, At
  <2>4. ASSUME NEW s \in Fd, NEW id \in Id, NEW nick \in Nick, NEW c \in Conn,
               Hello(s, id, nick, c)
        PROVE  ListedAreIn'
    <3>1. /\ ~Live(c) /\ channels' = [channels EXCEPT ![Main] = Push(@, c)]
          /\ conn' = [conn EXCEPT ![c] = [sock |-> s, id |-> id, nick |-> nick,
                                          active |-> FALSE, chans |-> {}]]
      BY <2>4 DEF Hello, addClient
    <3>2. \A n \in Chan \ {Main} : channels'[n] = channels[n]
      BY <1>0, <3>1
    <3>3. \A d \in Conn : d # c => conn'[d] = conn[d]
      BY <1>0, <3>1
    <3> QED BY <1>5, <3>1, <3>2, <3>3, NobodyListed DEF Live, InChannel
  <2> QED BY <1>5, <2>1, <2>2, <2>3, <2>4 DEF Worker
<1>6. CASE ~fault /\ Staying /\ Application
  <2>1. ASSUME NEW c \in Conn, NEW a \in BOOLEAN, SetActive(c, a)
        PROVE  ListedAreIn'
    BY <1>6, <2>1, RelabelKeepsChannels DEF SetActive
  <2>2. ASSUME NEW c \in Conn, NEW nick \in Nick, SetNick(c, nick)
        PROVE  ListedAreIn'
    BY <1>6, <2>2, RelabelKeepsChannels DEF SetNick
  <2>3. ASSUME NEW id \in Id, NEW nick \in Nick, changeNick(id, nick)
        PROVE  ListedAreIn'
    <3>1. byId[id] \in Conn /\ Live(byId[id])
      BY <1>6, <2>3 DEF changeNick, IInv, TypeOK, TablesAgree
    <3> QED BY <1>6, <2>3, <3>1, RelabelKeepsChannels DEF changeNick
  <2>4. ASSUME NEW n \in Chan, createChannel(n)
        PROVE  ListedAreIn'
    <3>1. conn' = conn /\ channels[n] = None /\ channels' = [channels EXCEPT ![n] = Nobody]
      BY <2>4 DEF createChannel
    <3>2. \A m \in Chan, c \in Conn : InChannel(m, c)' => InChannel(m, c)
      BY <1>0, <3>1, NobodyTyped DEF InChannel
    <3> QED BY <1>6, <3>1, <3>2, NobodyListed DEF Live
  <2>5. ASSUME NEW n \in Chan, NEW c \in Conn, joinChannel(n, c)
        PROVE  ListedAreIn'
    <3> DEFINE m == IF channels[n] = None THEN Nobody ELSE channels[n]
    <3>1. /\ Live(c) /\ conn[c] \in Connection /\ m \in Members
          /\ channels' = [channels EXCEPT ![n] = Push(m, c)]
          /\ conn' = [conn EXCEPT ![c].chans = @ \cup {n}]
      BY <1>0, <2>5, NobodyTyped DEF joinChannel, Live
    <3>2. /\ \A k \in Chan \ {n} : channels'[k] = channels[k]
          /\ \A d \in Conn \ {c} : InChannel(n, d)' => InChannel(n, d)
      BY <1>0, <3>1, NobodyTyped DEF InChannel, Push, Members
    <3>3. /\ \A d \in Conn \ {c} : conn'[d] = conn[d]
          /\ conn'[c] \in Connection /\ conn'[c].chans = conn[c].chans \cup {n}
      BY <1>0, <3>1 DEF Connection
    <3>4. ASSUME NEW d \in Conn, NEW k \in Chan \ {Main}, InChannel(k, d)'
          PROVE  Live(d)' /\ k \in conn'[d].chans
      <4>1. CASE d = c /\ k = n
        BY <1>0, <3>3, <4>1 DEF Live
      <4>2. CASE ~(d = c /\ k = n)
        <5>1. InChannel(k, d)
          BY <3>2, <3>4, <4>2 DEF InChannel
        <5>2. Live(d) /\ k \in conn[d].chans
          BY <1>6, <5>1 DEF ListedAreIn
        <5> QED BY <1>0, <3>3, <5>2 DEF Live
      <4> QED BY <4>1, <4>2
    <3> QED BY <3>4 DEF ListedAreIn
  <2>6. ASSUME NEW n \in Chan, NEW c \in Conn, leaveChannel(n, c)
        PROVE  FALSE
    BY <1>6, <2>6 DEF Staying
  <2>7. ASSUME NEW n \in Chan, NEW c \in Conn, sendFails(n, c)
        PROVE  ListedAreIn'
    BY <1>4, <1>6, <2>7 DEF sendFails, AppUnchanged
  <2>8. ASSUME NEW n \in Chan, deleteChannel(n) \/ sendToFreed(n)
        PROVE  ListedAreIn'
    BY <2>8 DEF deleteChannel, sendToFreed, ListedAreIn
  <2> QED BY <1>6, <2>1, <2>2, <2>3, <2>4, <2>5, <2>6, <2>7, <2>8 DEF Application
<1>7. CASE ~fault /\ start
  BY <1>2, <1>7 DEF start, tableVars
<1>8. ASSUME ~fault, NEW kill \in BOOLEAN, stop(kill)
      PROVE  ListedAreIn'
  <2>1. CASE UNCHANGED <<conn, channels>>
    BY <1>2, <1>8, <2>1
  <2>2. CASE channels' = [n \in Chan |-> IF n = Main THEN Nobody ELSE None]
    BY <2>2 DEF ListedAreIn, InChannel
  <2> QED BY <1>8, <2>1, <2>2 DEF stop, killAllClients, tableVars
<1>9. Staying \/ UNCHANGED vars
  OBVIOUS
<1> QED
  BY <1>1, <1>3, <1>5, <1>6, <1>7, <1>8, <1>9 DEF Next, Control

\* Only leaving makes a channel list somebody who is not in it (leaveChannel,
\* Server.cpp:299-307, and killClient, which calls it): as long as nobody leaves, a
\* channel lists its connections and no others, and no freed one.
THEOREM ListedUntilSomebodyLeaves == Spec /\ [][Staying]_vars => []ListedIsJoined
<1>1. Init => IInv /\ ListedAreIn
  <2>1. Init => ListedAreIn
    BY DEF Init, ListedAreIn, InChannel
  <2> QED BY <2>1, IInvInit
<1>2. IInv /\ ListedAreIn /\ [Next]_vars /\ [Staying]_vars => (IInv /\ ListedAreIn)'
  BY IInvPreserved, ListedPreserved
<1>3. ListedAreIn => ListedIsJoined
  BY DEF ListedAreIn, ListedIsJoined
<1> QED
  BY <1>1, <1>2, <1>3, PTL DEF Spec

=============================================================================
