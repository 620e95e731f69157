---------------------------- MODULE ServerRegistry ----------------------------
(***************************************************************************)
(* The connection registry of a::Server (src/amanita/net/Server.cpp): the  *)
(* select() loop of the worker thread, the array of accepted sockets, the  *)
(* tables _sockets, _clients (keyed by ID and by nick) and _channels, the  *)
(* main channel, and the calls an application makes on them.               *)
(*                                                                         *)
(* One action is one handler.  Handlers run one at a time here: the        *)
(* application calls the server from its event listener, which the worker  *)
(* runs, or while no worker runs.  ServerLifecycle is about the rest.      *)
(***************************************************************************)
EXTENDS Integers, Sequences, FiniteSets, SequencesExt

CONSTANTS
  Fd,          \* socket descriptors the process may hold for clients
  Conn,        \* addresses at which a ServerConnection may be allocated
  Id,          \* client IDs
  Nick,        \* nicks
  Chan,        \* channel names, among them Main
  Main,        \* the name of the channel every client is in
  None,        \* "no entry": a null pointer, an absent key, freed memory
  SocketsCap,  \* capacity, in sockets, of the first allocation of `sockets'
  IntSize,     \* sizeof(tcp_socket_t)
  MaxPending,  \* bound: frames a peer has sent and the server has not read
  MaxBacklog,  \* bound: connections waiting for accept()
  MaxCopies,   \* bound: times one connection is listed in one channel
  MaxStarts    \* bound: calls of Server::start()

ASSUME RegistryAssumption ==
  /\ Main \in Chan
  /\ None \notin Fd \cup Conn \cup [Conn -> Nat]
                 \cup [sock : Fd, id : Id, nick : Nick,
                       active : BOOLEAN, chans : SUBSET Chan]
  /\ {SocketsCap, IntSize, MaxPending, MaxBacklog, MaxCopies, MaxStarts}
        \subseteq Nat \ {0}

VARIABLES
  backlog,     \* connections waiting in the listening socket
  open,        \* accepted descriptors not yet closed by the server
  pending,     \* whole frames waiting in each open descriptor
  hungUp,      \* open descriptors whose peer has closed
  running,     \* a worker thread is in Server::run()
  sockets,     \* the array `sockets', of length sockets_n
  cap,         \* sockets_cap, in sockets
  room,        \* sockets that the memory behind `sockets' holds
  set,         \* the fd_set the loop waits on
  ready,       \* the fd_set `test' of the current pass
  idx,         \* the pass's index into `sockets' plus one; 0 at select()
  bySock,      \* _sockets
  byId,        \* _clients, its integer keys
  byNick,      \* _clients, its string keys
  channels,    \* _channels: for each name, how often each address is listed
  conn,        \* the heap of ServerConnection objects
  starts,      \* calls of Server::start() so far
  renamed,     \* history: a nick was changed without the server's tables
  fault        \* the program's behaviour is no longer defined

fdVars     == <<open, pending, hungUp>>
arrayVars  == <<sockets, cap, room, set>>
loopVars   == <<ready, idx>>
tableVars  == <<bySock, byId, byNick, channels, conn>>
historyVars == <<starts, renamed>>
vars == <<backlog, fdVars, running, arrayVars, loopVars, tableVars, historyVars, fault>>

Connection == [sock : Fd, id : Id, nick : Nick, active : BOOLEAN,
               chans : SUBSET Chan]

Members == [Conn -> 0..MaxCopies]

TypeOK ==
  /\ backlog \in 0..MaxBacklog
  /\ open \subseteq Fd
  /\ pending \in [Fd -> 0..MaxPending]
  /\ hungUp \subseteq Fd
  /\ running \in BOOLEAN
  /\ sockets \in Seq(Fd)
  /\ cap \in Nat
  /\ room \in Nat
  /\ set \subseteq Fd
  /\ ready \subseteq Fd
  /\ idx \in Nat
  /\ bySock \in [Fd -> Conn \cup {None}]
  /\ byId \in [Id -> Conn \cup {None}]
  /\ byNick \in [Nick -> Conn \cup {None}]
  /\ channels \in [Chan -> Members \cup {None}]
  /\ conn \in [Conn -> Connection \cup {None}]
  /\ starts \in 0..MaxStarts
  /\ renamed \in BOOLEAN
  /\ fault \in BOOLEAN

Nobody == [c \in Conn |-> 0]

Live(c) == conn[c] # None

InChannel(n, c) == channels[n] # None /\ channels[n][c] > 0

-----------------------------------------------------------------------------
(* Descriptors, the array `sockets' and the fd_set. *)

\* tcp_close of the descriptors in S; what was waiting in them is gone.
close(S) ==
  /\ open' = open \ S
  /\ pending' = [s \in Fd |-> IF s \in S THEN 0 ELSE pending[s]]
  /\ hungUp' = hungUp \ S

\* addSocket: allocate on first use, double the capacity when one slot is
\* left.  realloc() is given the capacity as a number of bytes.
addSocket(s) ==
  /\ \/ /\ cap = 0
        /\ cap' = SocketsCap
        /\ room' = SocketsCap
     \/ /\ cap # 0
        /\ Len(sockets) + 1 = cap
        /\ cap' = 2 * cap
        /\ room' = (2 * cap) \div IntSize
     \/ /\ cap # 0
        /\ Len(sockets) + 1 # cap
        /\ UNCHANGED <<cap, room>>
  /\ sockets' = Append(sockets, s)
  /\ set' = set \cup {s}

\* A slip of removeSocket: the entry stays in the array.
removeSocketKeepingEntry(s) ==
  /\ close({s})
  /\ set' = set \ {s}
  /\ UNCHANGED <<sockets, cap, room>>

\* removeSocket: drop the first entry equal to s, close s, clear its bit.
removeSocket(s) ==
  /\ sockets' = RemoveFirst(sockets, s)
  /\ close({s})
  /\ set' = set \ {s}
  /\ UNCHANGED <<cap, room>>

-----------------------------------------------------------------------------
(* Clients and channels. *)

\* Vector's operator <<, which appends without looking.
Push(m, c) == [m EXCEPT ![c] = @ + 1]

\* A slip of uniqueID: any ID will do.
uniqueIDAlways(id) == id \in Id

\* uniqueID
uniqueID(id) == byId[id] = None

\* A slip of killClient: the ID stays in _clients.
killClientKeepingId(c) ==
  LET r == conn[c] IN
  /\ \A n \in r.chans : channels[n][c] < MaxCopies
  /\ bySock' = [bySock EXCEPT ![r.sock] = None]
  /\ byNick' = [byNick EXCEPT ![r.nick] = None]
  /\ channels' = [channels EXCEPT ![Main][c] = 0]
  /\ removeSocket(r.sock)
  /\ conn' = [conn EXCEPT ![c] = None]
  /\ UNCHANGED byId

\* killClient(c): out of the three tables by c's own keys, out of the main
\* channel, out of each of c's channels by leaveChannel (which pushes c),
\* then close the socket and free c.
killClient(c) ==
  LET r == conn[c] IN
  /\ \A n \in r.chans : channels[n][c] < MaxCopies
  /\ bySock' = [bySock EXCEPT ![r.sock] = None]
  /\ byId' = [byId EXCEPT ![r.id] = None]
  /\ byNick' = [byNick EXCEPT ![r.nick] = None]
  /\ channels' = [n \in Chan |->
                    IF n = Main THEN [channels[Main] EXCEPT ![c] = 0]
                    ELSE IF n \in r.chans THEN Push(channels[n], c)
                    ELSE channels[n]]
  /\ removeSocket(r.sock)
  /\ conn' = [conn EXCEPT ![c] = None]

\* addClient, once the ID is known to be free: a new connection goes into
\* the tables and the main channel.  It is not active yet.
addClient(s, id, nick, c) ==
  /\ ~Live(c)
  /\ channels[Main][c] < MaxCopies
  /\ conn' = [conn EXCEPT ![c] = [sock |-> s, id |-> id, nick |-> nick,
                                  active |-> FALSE, chans |-> {}]]
  /\ bySock' = [bySock EXCEPT ![s] = c]
  /\ byId' = [byId EXCEPT ![id] = c]
  /\ byNick' = [byNick EXCEPT ![nick] = c]
  /\ channels' = [channels EXCEPT ![Main] = Push(@, c)]

\* killAllClients: nothing at all when no client is registered; otherwise
\* the main channel's members are closed and freed and every table and
\* channel is emptied.  The array `sockets' and its fd_set are not touched.
killAllClients ==
  LET gone == {c \in Conn : channels[Main][c] > 0} IN
  IF \A s \in Fd : bySock[s] = None
  THEN UNCHANGED <<tableVars, fdVars, fault>>
  ELSE /\ close({conn[c].sock : c \in {d \in gone : Live(d)}})
       /\ conn' = [c \in Conn |-> IF c \in gone THEN None ELSE conn[c]]
       /\ bySock' = [s \in Fd |-> None]
       /\ byId' = [i \in Id |-> None]
       /\ byNick' = [k \in Nick |-> None]
       /\ channels' = [n \in Chan |-> IF n = Main THEN Nobody ELSE None]
       \* a member listed twice is freed twice
       /\ fault' = \E c \in gone : channels[Main][c] > 1 \/ ~Live(c)

-----------------------------------------------------------------------------
(* The network and the peers. *)

PeerConnects ==
  /\ running
  /\ backlog < MaxBacklog
  /\ backlog' = backlog + 1
  /\ UNCHANGED <<open, pending, hungUp, running, arrayVars, loopVars, tableVars,
                 historyVars, fault>>

PeerSends(s) ==
  /\ s \in open \ hungUp
  /\ pending[s] < MaxPending
  /\ pending' = [pending EXCEPT ![s] = @ + 1]
  /\ UNCHANGED <<backlog, open, hungUp, running, arrayVars, loopVars, tableVars,
                 historyVars, fault>>

PeerCloses(s) ==
  /\ s \in open \ hungUp
  /\ hungUp' = hungUp \cup {s}
  /\ UNCHANGED <<backlog, open, pending, running, arrayVars, loopVars, tableVars,
                 historyVars, fault>>

Peers == PeerConnects \/ \E s \in Fd : PeerSends(s) \/ PeerCloses(s)

-----------------------------------------------------------------------------
(* The worker: one pass of the loop in Server::run. *)

AtSelect == running /\ idx = 0

Readable == {s \in set : s \in open /\ (pending[s] > 0 \/ s \in hungUp)}

\* select() reports the listening socket: accept one connection, look at no
\* other socket in this pass.  A socket stored behind the array's memory is
\* a fault.
Accept(s) ==
  /\ AtSelect
  /\ backlog > 0
  /\ s \in Fd \ open
  /\ addSocket(s)
  /\ backlog' = backlog - 1
  /\ open' = open \cup {s}
  /\ fault' = (Len(sockets') > room')
  /\ UNCHANGED <<pending, hungUp, running, loopVars, tableVars, historyVars>>

\* A slip of AcceptFails: the -1 is listed and the loop goes on.
AcceptFailsUnnoticed ==
  /\ AtSelect
  /\ backlog > 0
  /\ open = Fd
  /\ sockets' = Append(sockets, None)
  /\ backlog' = backlog - 1
  /\ UNCHANGED <<fdVars, running, cap, room, set, loopVars, tableVars, historyVars, fault>>

\* accept() has no descriptor left and returns -1, which is listed and put
\* into the fd_set as if it were a socket.
AcceptFails ==
  /\ AtSelect
  /\ backlog > 0
  /\ open = Fd
  /\ fault' = TRUE
  /\ UNCHANGED <<backlog, fdVars, running, arrayVars, loopVars, tableVars, historyVars>>

Select ==
  /\ AtSelect
  /\ backlog = 0
  /\ Readable # {}
  /\ ready' = Readable
  /\ idx' = 1
  /\ UNCHANGED <<backlog, fdVars, running, arrayVars, tableVars, historyVars, fault>>

\* A slip of the loop's condition: i!=sockets_n for i<sockets_n.
EndPassOnlyAtLength ==
  /\ running
  /\ idx = Len(sockets) + 1
  /\ idx' = 0
  /\ ready' = {}
  /\ UNCHANGED <<backlog, fdVars, running, arrayVars, tableVars, historyVars, fault>>

EndPass ==
  /\ running
  /\ idx > Len(sockets)
  /\ idx' = 0
  /\ ready' = {}
  /\ UNCHANGED <<backlog, fdVars, running, arrayVars, tableVars, historyVars, fault>>

\* The worker is at the socket s of the array.
At(s) == running /\ idx \in 1..Len(sockets) /\ sockets[idx] = s

Skip(s) ==
  /\ At(s)
  /\ s \notin ready
  /\ idx' = idx + 1
  /\ UNCHANGED <<backlog, fdVars, running, arrayVars, ready, tableVars, historyVars, fault>>

\* receive() on s returned a frame.
Receives(s) ==
  /\ At(s)
  /\ s \in ready \cap open
  /\ pending[s] > 0
  /\ pending' = [pending EXCEPT ![s] = @ - 1]
  /\ idx' = idx + 1
  /\ UNCHANGED <<backlog, hungUp, running, ready, historyVars>>

\* receive() on s returned no frame: the peer has closed, or the server has, or
\* a header says a length that is none, or recv() failed, which may be at any
\* time and of a peer that goes on.
ReceivesNothing(s) ==
  /\ At(s)
  /\ s \in ready
  /\ idx' = idx + 1
  /\ UNCHANGED <<backlog, running, ready, historyVars, fault>>

\* The first frame of a connection: its ID (or the server's own, see
\* SERVER_ST_INTERNAL_CLIENT_ID) and its nick.
Hello(s, id, nick, c) ==
  /\ bySock[s] = None
  /\ uniqueID(id)
  /\ Receives(s)
  /\ addClient(s, id, nick, c)
  /\ UNCHANGED <<open, arrayVars, fault>>

\* SM_DUPLICATE_ID is all that happens: no answer, the socket stays.
HelloDuplicate(s, id) ==
  /\ bySock[s] = None
  /\ ~uniqueID(id)
  /\ Receives(s)
  /\ UNCHANGED <<open, arrayVars, tableVars, fault>>

\* SM_GET_MESSAGE; what the listener does next is the application's.
Message(s) ==
  /\ bySock[s] # None
  /\ Receives(s)
  /\ UNCHANGED <<open, arrayVars, tableVars, fault>>

DropUnregistered(s) ==
  /\ bySock[s] = None
  /\ ReceivesNothing(s)
  /\ removeSocket(s)
  /\ UNCHANGED tableVars

\* A slip of run(): the client is looked up by its nick.
HangUpByNick(s) ==
  /\ bySock[s] # None
  /\ ReceivesNothing(s)
  /\ LET c == byNick[conn[bySock[s]].nick] IN
       \/ c # None /\ killClient(c)
       \/ c = None /\ UNCHANGED <<fdVars, arrayVars, tableVars>>

\* killClient(c->id), that is of whatever _clients holds for c's ID.
HangUp(s) ==
  /\ bySock[s] # None
  /\ ReceivesNothing(s)
  /\ LET c == byId[conn[bySock[s]].id] IN
       \/ c # None /\ killClient(c)
       \/ c = None /\ UNCHANGED <<fdVars, arrayVars, tableVars>>

Worker ==
  \/ AcceptFails
  \/ Select
  \/ EndPass
  \/ \E s \in Fd :
       \/ Accept(s)
       \/ Skip(s)
       \/ Message(s)
       \/ DropUnregistered(s)
       \/ HangUp(s)
       \/ \E id \in Id : HelloDuplicate(s, id)
       \/ \E id \in Id, nick \in Nick, c \in Conn : Hello(s, id, nick, c)

-----------------------------------------------------------------------------
(* The application: calls on the server and on live connections. *)

AppUnchanged == UNCHANGED <<backlog, running, loopVars, starts>>

SetActive(c, a) ==
  /\ Live(c)
  /\ conn' = [conn EXCEPT ![c].active = a]
  /\ AppUnchanged
  /\ UNCHANGED <<fdVars, arrayVars, bySock, byId, byNick, channels, renamed, fault>>

\* ServerConnection::setNick, which knows nothing of the server's tables.
SetNick(c, nick) ==
  /\ Live(c)
  /\ nick # conn[c].nick
  /\ conn' = [conn EXCEPT ![c].nick = nick]
  /\ renamed' = TRUE
  /\ AppUnchanged
  /\ UNCHANGED <<fdVars, arrayVars, bySock, byId, byNick, channels, fault>>

\* A slip of changeNick: the old nick stays in _clients.
changeNickKeepingOld(id, nick) ==
  LET c == byId[id] IN
  /\ c # None
  /\ byNick' = [byNick EXCEPT ![nick] = c]
  /\ conn' = [conn EXCEPT ![c].nick = nick]
  /\ AppUnchanged
  /\ UNCHANGED <<fdVars, arrayVars, bySock, byId, channels, renamed, fault>>

changeNick(id, nick) ==
  LET c == byId[id] IN
  /\ c # None
  /\ byNick' = [byNick EXCEPT ![conn[c].nick] = None, ![nick] = c]
  /\ conn' = [conn EXCEPT ![c].nick = nick]
  /\ AppUnchanged
  /\ UNCHANGED <<fdVars, arrayVars, bySock, byId, channels, renamed, fault>>

createChannel(n) ==
  /\ channels[n] = None
  /\ channels' = [channels EXCEPT ![n] = Nobody]
  /\ AppUnchanged
  /\ UNCHANGED <<fdVars, arrayVars, bySock, byId, byNick, conn, renamed, fault>>

\* A slip of joinChannel: contains() is not asked.
joinChannelAgain(n, c) ==
  LET m == IF channels[n] = None THEN Nobody ELSE channels[n] IN
  /\ Live(c)
  /\ m[c] < MaxCopies
  /\ channels' = [channels EXCEPT ![n] = Push(m, c)]
  /\ conn' = [conn EXCEPT ![c].chans = @ \cup {n}]
  /\ AppUnchanged
  /\ UNCHANGED <<fdVars, arrayVars, bySock, byId, byNick, renamed, fault>>

\* joinChannel by name creates the channel; a listed address is not added.
joinChannel(n, c) ==
  LET m == IF channels[n] = None THEN Nobody ELSE channels[n] IN
  /\ Live(c)
  /\ m[c] = 0
  /\ channels' = [channels EXCEPT ![n] = Push(m, c)]
  /\ conn' = [conn EXCEPT ![c].chans = @ \cup {n}]
  /\ AppUnchanged
  /\ UNCHANGED <<fdVars, arrayVars, bySock, byId, byNick, renamed, fault>>

\* leaveChannel pushes c onto the channel, takes the channel from c, and
\* deletes the channel if it is empty.
leaveChannel(n, c) ==
  /\ Live(c)
  /\ channels[n] # None
  /\ channels[n][c] < MaxCopies
  /\ channels' = [channels EXCEPT ![n] = Push(@, c)]
  /\ conn' = [conn EXCEPT ![c].chans = @ \ {n}]
  /\ fault' = (channels'[n] = Nobody)
  /\ AppUnchanged
  /\ UNCHANGED <<fdVars, arrayVars, bySock, byId, byNick, renamed>>

\* deleteChannel takes the count that Hashtable::remove returns for the
\* removed channel and follows it as a pointer.
deleteChannel(n) ==
  /\ channels[n] # None
  /\ channels' = [channels EXCEPT ![n] = None]
  /\ fault' = TRUE
  /\ AppUnchanged
  /\ UNCHANGED <<fdVars, arrayVars, bySock, byId, byNick, conn, renamed>>

\* send(Channel) when tcp_send writes less than the frame to the active member
\* c, whatever the reason: c is killed.  The loop then looks at the same index
\* again: killClient has taken c out of the main channel, but out of no other.
\* A call that fails for several members is several of these steps.
sendFails(n, c) ==
  /\ InChannel(n, c)
  /\ Live(c)
  /\ conn[c].active
  /\ killClient(c)
  /\ fault' = (n # Main)
  /\ AppUnchanged
  /\ UNCHANGED renamed

\* send(Channel) asks a freed connection whether it is active.
sendToFreed(n) ==
  /\ \E c \in Conn : InChannel(n, c) /\ ~Live(c)
  /\ fault' = TRUE
  /\ AppUnchanged
  /\ UNCHANGED <<fdVars, arrayVars, tableVars, renamed>>

Application ==
  \/ \E c \in Conn, a \in BOOLEAN : SetActive(c, a)
  \/ \E c \in Conn, nick \in Nick : SetNick(c, nick)
  \/ \E id \in Id, nick \in Nick : changeNick(id, nick)
  \/ \E n \in Chan : createChannel(n) \/ deleteChannel(n) \/ sendToFreed(n)
  \/ \E n \in Chan, c \in Conn :
       joinChannel(n, c) \/ leaveChannel(n, c) \/ sendFails(n, c)

-----------------------------------------------------------------------------
(* Starting and stopping. *)

\* A slip of run(): the fd_set is not cleared.
startKeepingSet ==
  /\ ~running
  /\ starts < MaxStarts
  /\ starts' = starts + 1
  /\ running' = TRUE
  /\ UNCHANGED <<backlog, fdVars, arrayVars, loopVars, tableVars, renamed, fault>>

\* start() up to the loop: run() clears the fd_set before it waits on it.
start ==
  /\ ~running
  /\ starts < MaxStarts
  /\ starts' = starts + 1
  /\ running' = TRUE
  /\ set' = {}
  /\ UNCHANGED <<backlog, fdVars, sockets, cap, room, loopVars, tableVars, renamed, fault>>

\* stop(): the worker ends, between two passes when it is joined and
\* anywhere when it is killed; then killAllClients and close().
stop(kill) ==
  /\ running
  /\ kill \/ idx = 0
  /\ killAllClients
  /\ running' = FALSE
  /\ backlog' = 0
  /\ idx' = 0
  /\ ready' = {}
  /\ UNCHANGED <<arrayVars, historyVars>>

Control == start \/ \E kill \in BOOLEAN : stop(kill)

Init ==
  /\ backlog = 0
  /\ open = {}
  /\ pending = [s \in Fd |-> 0]
  /\ hungUp = {}
  /\ running = FALSE
  /\ sockets = <<>>
  /\ cap = 0
  /\ room = 0
  /\ set = {}
  /\ ready = {}
  /\ idx = 0
  /\ bySock = [s \in Fd |-> None]
  /\ byId = [i \in Id |-> None]
  /\ byNick = [k \in Nick |-> None]
  /\ channels = [n \in Chan |-> IF n = Main THEN Nobody ELSE None]
  /\ conn = [c \in Conn |-> None]
  /\ starts = 0
  /\ renamed = FALSE
  /\ fault = FALSE

\* After a fault there is no next step to speak of.
Next == ~fault /\ (Peers \/ Worker \/ Application \/ Control)

Spec == Init /\ [][Next]_vars

-----------------------------------------------------------------------------
(* Properties. *)

\* _sockets, the IDs of _clients and the main channel (Server.h:180-182) list
\* the same connections: every live one under its own socket and ID, and no
\* freed one.  Each of addClient, killClient and killAllClients edits all of
\* them by hand.
TablesAgree ==
  ~fault =>
    /\ \A c \in Conn : Live(c) => /\ bySock[conn[c].sock] = c
                                  /\ byId[conn[c].id] = c
    /\ \A s \in Fd : bySock[s] # None =>
         Live(bySock[s]) /\ conn[bySock[s]].sock = s
    /\ \A i \in Id : byId[i] # None => Live(byId[i]) /\ conn[byId[i]].id = i
    /\ \A c \in Conn : InChannel(Main, c) <=> Live(c)

\* getClient(nick) never returns a freed connection or one that has another
\* nick by now, although nicks need not be unique and changeNick and
\* killClient remove whatever is stored under a nick: as long as nicks are
\* changed through the server.
NickLookupLive ==
  ~fault /\ ~renamed =>
    \A k \in Nick : byNick[k] # None => /\ Live(byNick[k])
                                        /\ conn[byNick[k]].nick = k

\* A channel that a connection believes to be in exists and lists it exactly
\* once, so a message to the channel reaches it once and killClient can walk
\* the connection's channels.  No connection joins the main channel.
JoinedIsListedOnce ==
  ~fault =>
    \A c \in Conn : Live(c) =>
      \A n \in conn[c].chans : /\ n # Main
                               /\ channels[n] # None
                               /\ channels[n][c] = 1

\* What the loop waits on is open and is in the array it walks (a readable
\* descriptor outside it would be reported for ever), and it waits on every
\* client's socket.  Without a worker there is no client.
ClientsArePolled ==
  ~fault =>
    /\ running => set \subseteq open /\ set \subseteq ToSet(sockets)
    /\ \A c \in Conn : Live(c) => running /\ conn[c].sock \in set

\* In a server's first run the array lists each open descriptor once, so the
\* loop never calls receive(), which blocks, on a socket without input: not
\* even after removals in the middle of a pass have moved the array.
ReceiveNeverBlocks ==
  starts <= 1 /\ running /\ ~fault =>
    /\ ToSet(sockets) = open
    /\ Len(sockets) = Cardinality(open)
    /\ idx \in 1..Len(sockets) /\ sockets[idx] \in ready =>
         pending[sockets[idx]] > 0 \/ sockets[idx] \in hungUp

\* An ID in use stays with its connection until that connection is gone: a
\* newcomer that says the same ID (addClient, uniqueID) never takes it over.
IdNotStolen ==
  [][\A i \in Id : byId[i] # None /\ byId'[i] # byId[i] =>
       byId'[i] = None /\ conn'[byId[i]] = None]_vars

\* A connection ends by what happened on its own socket, or with the server:
\* the worker is at that socket and receives nothing from it, or a send to this
\* active client was short.  HangUp goes from a socket to a connection, from
\* that to its ID and from the ID to the connection to kill, and each table
\* could lead to another one, whose peer is well.
EndsByItsOwnSocket ==
  [][\A c \in Conn : Live(c) /\ ~Live(c)' =>
       \/ ~running'
       \/ At(conn[c].sock) /\ conn[c].sock \in ready /\ idx' = idx + 1
       \/ conn[c].active /\ idx' = idx]_vars

\* The worker is in a receive() that waits for a peer.  It may fail, but nothing
\* says that it will.
Waiting ==
  \E s \in ready \cap open : At(s) /\ pending[s] = 0 /\ s \notin hungUp

\* The worker is the only process that is never held up for ever, unless it
\* waits; peers and the application may stop at any time.
FairSpec == Spec /\ WF_vars(~fault /\ ~Waiting /\ Worker)

Full(s) == running /\ ~fault /\ s \in set /\ pending[s] = MaxPending

Emptied(s) == pending[s] < MaxPending \/ s \notin set \/ ~running \/ fault

\* In a server's first run a client that has sent is read in the end, although
\* a removal makes the pass skip the next socket, provided that connections
\* stop arriving now and then: accept() goes before every client.
ServedInFirstRun ==
  <>[](backlog = 0) =>
    \A s \in Fd : (Full(s) /\ starts = 1) ~> Emptied(s)

\* The same for every run.  Server.h:188 says of run(): "Called by the thread,
\* and handles all incomming messages."
ServedInEveryRun ==
  <>[](backlog = 0) => \A s \in Fd : Full(s) ~> Emptied(s)

\* A connection that a channel lists is in that channel: ServerConnection's
\* _channels are the "Channels client is in" (Server.h:75).
ListedIsJoined ==
  ~fault =>
    \A c \in Conn, n \in Chan \ {Main} :
      Live(c) /\ InChannel(n, c) => n \in conn[c].chans

\* The memory behind `sockets' holds the sockets stored in it.  Server.h:165:
\* "This server can handle a large number of clients".
SocketsFit == Len(sockets) <= room

\* The tables, the main channel and each connection's list of channels, taken
\* together, behave like the registry of module Registry: what a handler does
\* to five structures one after the other (Server.cpp:309-361) is one change.
Promise == INSTANCE Registry WITH
  Chan    <- Chan \ {Main},
  client  <- byId,
  members <- {c \in Conn : InChannel(Main, c)},
  joined  <- [c \in Conn |-> IF Live(c) THEN conn[c].chans ELSE {}],
  broken  <- fault

ImplementsRegistry == Promise!Spec
=============================================================================
