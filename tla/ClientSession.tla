----------------------------- MODULE ClientSession -----------------------------
(***************************************************************************)
(* One a::Client (src/amanita/net/Client.cpp) and the server's side of its *)
(* connections (Server::addClient and killClient in Server.cpp): the hello *)
(* and the answer that fixes ID and nick, messages both ways, stop(), the  *)
(* end of either side, and another start().                                *)
(*                                                                         *)
(* The two sides meet only in the streams between them, which carry whole  *)
(* frames here (module Framing is about cutting them).  An identity stands *)
(* for an ID and its nick.  The client's status word is loaded and stored  *)
(* in two steps, as in ServerLifecycle.                                    *)
(***************************************************************************)
EXTENDS Naturals, Sequences, FiniteSets

CONSTANTS
  App,         \* the thread that calls the client's start() and stop()
  Session,     \* connections, each with its descriptor and its worker thread
  Id,          \* identities
  None,
  MaxMessages, \* bound: messages the server sends in a session
  Overlaps     \* whether start() is called over a live worker, too

ASSUME SessionAssumption ==
  /\ App \notin Session
  /\ None \notin {App} \cup Session \cup Id
  /\ MaxMessages \in Nat /\ Overlaps \in BOOLEAN

VARIABLES
  status, pc, half, reg,  \* the word; where threads are; loads not yet stored
  thread, joined, cancelled,  \* as in ServerLifecycle
  sock,        \* Socket::sock of the client
  agreed,      \* the client's id and nick, once it has them from `sock'
  inbox,       \* history: what the client's listener was given from `sock'
  toClient,    \* frames on their way to `sock'; nobody reads the others
  unread,      \* sessions with a frame on its way to the server
  serverOpen,  \* sessions that the server has not closed
  adding,      \* the session that the server's worker is in addClient with
  given,       \* the identity a session is registered under, or was, if it is `sock'
  active,      \* messages to a channel are sent to `sock'
  sent,        \* how many were
  lost         \* history: the answer to `sock' was sent in vain

wordVars   == <<status, half, reg>>
threadVars == <<thread, joined, cancelled>>
streamVars == <<toClient, unread>>
seenVars   == <<agreed, inbox>>
serverVars == <<serverOpen, adding, given, active, sent, lost>>
vars == <<wordVars, pc, threadVars, sock, seenVars, streamVars, serverVars>>

Flag == {"STARTING", "RUNNING", "STOPPING"}

Thread == {App} \cup Session

\* setStarting, setRunning and setStopping, by where they are called: the flag,
\* its new value and what follows.  The release build (-O2, CMakeLists.txt)
\* makes one load and one store of each.
Update ==
  [startingOn  |-> [flag |-> "STARTING", on |-> TRUE,  next |-> "connect"],
   failed      |-> [flag |-> "STARTING", on |-> FALSE, next |-> "idle"],
   stoppingOn  |-> [flag |-> "STOPPING", on |-> TRUE,  next |-> "stopping"],
   stopping    |-> [flag |-> "RUNNING",  on |-> FALSE, next |-> "join"],
   stoppingOff |-> [flag |-> "STOPPING", on |-> FALSE, next |-> "idle"],
   runningOn   |-> [flag |-> "RUNNING",  on |-> TRUE,  next |-> "loop"],
   answered    |-> [flag |-> "STARTING", on |-> FALSE, next |-> "loop"],
   closed      |-> [flag |-> "RUNNING",  on |-> FALSE, next |-> "loop"]]

WorkerPc == {"unborn", "runningOn", "loop", "pass", "answered", "closed", "done"}

AppPc == (DOMAIN Update \ WorkerPc) \cup {"idle", "connect", "spawn", "join", "joinWait", "close"}

\* What is on its way to the client: the answer with an identity, or a message.
ToClient == ({"answer"} \X Id) \cup ({"message"} \X (1..MaxMessages))

TypeOK ==
  /\ status \subseteq Flag /\ half \subseteq Thread /\ reg \in [Thread -> SUBSET Flag]
  /\ pc \in [Thread -> AppPc \cup WorkerPc]
  /\ pc[App] \in AppPc /\ \A s \in Session : pc[s] \in WorkerPc
  /\ thread \in Session \cup {None} /\ joined \in Session \cup {None}
  /\ cancelled \subseteq Session
  /\ sock \in Session \cup {None}
  /\ agreed \in Id \cup {None} /\ inbox \in Seq(0..MaxMessages)
  /\ toClient \in Seq(ToClient)
  /\ unread \subseteq Session /\ serverOpen \subseteq Session /\ adding \in Session \cup {None}
  /\ given \in [Session -> Id \cup {None}]
  /\ active \in BOOLEAN /\ sent \in 0..MaxMessages /\ lost \in BOOLEAN

Goto(t, l) == pc' = [pc EXCEPT ![t] = l]

Alive(w) == pc[w] \notin {"unborn", "done"}

-----------------------------------------------------------------------------
(* Updates of the status word. *)

Updated(u, w) == IF u.on THEN w \cup {u.flag} ELSE w \ {u.flag}

Load(t) ==
  /\ pc[t] \in DOMAIN Update
  /\ t \notin half
  /\ half' = half \cup {t}
  /\ reg' = [reg EXCEPT ![t] = status]
  /\ UNCHANGED <<status, pc, threadVars, sock, seenVars, streamVars, serverVars>>

Store(t) ==
  /\ pc[t] \in DOMAIN Update
  /\ t \in half
  /\ half' = half \ {t}
  /\ status' = Updated(Update[pc[t]], reg[t])
  /\ Goto(t, Update[pc[t]].next)
  /\ reg' = [reg EXCEPT ![t] = {}]
  /\ UNCHANGED <<threadVars, sock, seenVars, streamVars, serverVars>>

-----------------------------------------------------------------------------
(* Client::start, Client::stop and Client::send. *)

\* start() looks at nothing before it sets STARTING.
CallStart ==
  /\ pc[App] = "idle"
  /\ Overlaps \/ \A w \in Session : ~Alive(w)
  /\ Goto(App, "startingOn")
  /\ UNCHANGED <<wordVars, threadVars, sock, seenVars, streamVars, serverVars>>

\* The sessions to come, which are all alike.
Unborn == {s \in Session : pc[s] = "unborn"}

\* `sock' becomes s: nothing has come from it or been sent to it.  The server's
\* open connections stay registered.
NothingFrom(s) ==
  /\ toClient' = <<>> /\ agreed' = None /\ inbox' = <<>>
  /\ active' = FALSE /\ sent' = 0 /\ lost' = FALSE
  /\ given' = [r \in Session |-> IF r \in serverOpen THEN given[r] ELSE None]

\* The new socket is connected and the hello is sent.
Connect ==
  /\ pc[App] = "connect"
  /\ Unborn # {}
  /\ LET s == CHOOSE s \in Unborn : TRUE IN
       /\ sock' = s
       /\ unread' = unread \cup {s}
       /\ serverOpen' = serverOpen \cup {s}
       /\ NothingFrom(s)
  /\ Goto(App, "spawn")
  /\ UNCHANGED <<wordVars, threadVars, adding>>

\* There is no descriptor for the new socket.
OpenFails ==
  /\ pc[App] = "connect"
  /\ sock' = None
  /\ NothingFrom(None)
  /\ Goto(App, "failed")
  /\ UNCHANGED <<wordVars, threadVars, unread, serverOpen, adding>>

\* The host is not found, or the connection is refused, or it is made and the
\* hello is not sent.  The new socket stays in `sock' and gets no worker;
\* setStarting(false) follows.
ConnectFails ==
  /\ pc[App] = "connect"
  /\ Unborn # {}
  /\ LET s == CHOOSE s \in Unborn : TRUE IN
       /\ sock' = s
       /\ serverOpen' \in {serverOpen, serverOpen \cup {s}}
       /\ NothingFrom(s)
       /\ pc' = [pc EXCEPT ![App] = "failed", ![s] = "done"]
  /\ UNCHANGED <<wordVars, threadVars, unread, adding>>

\* Thread::kill of whatever thread is known.
Cancel == cancelled' = cancelled \cup {w \in Session : w = thread /\ Alive(w)}

\* A slip of start(): it clears STARTING itself.
SpawnStarted ==
  /\ pc[App] = "spawn"
  /\ Cancel
  /\ thread' = sock
  /\ status' = status \ {"STARTING"}
  /\ pc' = [pc EXCEPT ![App] = "idle", ![sock] = "runningOn"]
  /\ UNCHANGED <<half, reg, joined, sock, seenVars, streamVars, serverVars>>

\* Thread::start cancels the thread it still knows.  STARTING stays set: it
\* is for the worker to clear.
Spawn ==
  /\ pc[App] = "spawn"
  /\ Cancel
  /\ thread' = sock
  /\ pc' = [pc EXCEPT ![App] = "idle", ![sock] = "runningOn"]
  /\ UNCHANGED <<wordVars, joined, sock, seenVars, streamVars, serverVars>>

\* stop() does nothing unless the client is RUNNING and not STOPPING.
CallStop ==
  /\ pc[App] = "idle"
  /\ "RUNNING" \in status /\ "STOPPING" \notin status
  /\ Goto(App, "stoppingOn")
  /\ UNCHANGED <<wordVars, threadVars, sock, seenVars, streamVars, serverVars>>

\* A slip of stop(): the worker is dropped and not joined.
JoinNobody ==
  /\ pc[App] = "join"
  /\ thread' = None
  /\ Goto(App, "close")
  /\ UNCHANGED <<wordVars, joined, cancelled, sock, seenVars, streamVars, serverVars>>

\* stop(true): Thread::kill.
Kill ==
  /\ pc[App] = "join"
  /\ Cancel
  /\ thread' = None
  /\ Goto(App, "close")
  /\ UNCHANGED <<wordVars, joined, sock, seenVars, streamVars, serverVars>>

\* stop(false): Thread::stop up to pthread_join.
Join ==
  /\ pc[App] = "join"
  /\ joined' = thread
  /\ thread' = None
  /\ Goto(App, IF thread = None THEN "close" ELSE "joinWait")
  /\ UNCHANGED <<wordVars, cancelled, sock, seenVars, streamVars, serverVars>>

JoinWait ==
  /\ pc[App] = "joinWait"
  /\ ~Alive(joined)
  /\ joined' = None
  /\ Goto(App, "close")
  /\ UNCHANGED <<wordVars, thread, cancelled, sock, seenVars, streamVars,
                 serverVars>>

\* tcp_close(sock); sock = 0.  What the client has not read is gone.
Close ==
  /\ pc[App] = "close"
  /\ sock' = None
  /\ NothingFrom(None)
  /\ Goto(App, "stoppingOff")
  /\ UNCHANGED <<wordVars, threadVars, unread, serverOpen, adding>>

\* send(): one unread frame stands for any number of them.
ClientSends ==
  /\ pc[App] = "idle"
  /\ sock \in serverOpen
  /\ unread' = unread \cup {sock}
  /\ UNCHANGED <<wordVars, pc, threadVars, sock, seenVars, toClient, serverVars>>

-----------------------------------------------------------------------------
(* Client::run.  The worker reads whatever `sock' is by then. *)

workerUnchanged ==
  UNCHANGED <<wordVars, threadVars, sock, unread, serverVars>>

\* A slip of run(): it goes on while stop() is at work.
LoopTestStopping(w) ==
  /\ pc[w] = "loop"
  /\ Goto(w, IF status \cap {"RUNNING", "STOPPING"} # {} THEN "pass" ELSE "done")
  /\ workerUnchanged /\ UNCHANGED <<seenVars, toClient>>

LoopTest(w) ==
  /\ pc[w] = "loop"
  /\ Goto(w, IF "RUNNING" \in status THEN "pass" ELSE "done")
  /\ workerUnchanged /\ UNCHANGED <<seenVars, toClient>>

Readable == sock # None /\ (toClient # <<>> \/ sock \notin serverOpen)

\* select() reports nothing within its timeout.
Timeout(w) ==
  /\ pc[w] = "pass"
  /\ ~Readable
  /\ Goto(w, "loop")
  /\ workerUnchanged /\ UNCHANGED <<seenVars, toClient>>

\* select() fails: the loop is left and RUNNING stays set.
SelectFails(w) ==
  /\ pc[w] = "pass"
  /\ Goto(w, "done")
  /\ workerUnchanged /\ UNCHANGED <<seenVars, toClient>>

\* receive() returns a frame.
Receive(w) ==
  /\ pc[w] = "pass"
  /\ Readable /\ toClient # <<>>
  /\ toClient' = Tail(toClient)
  /\ workerUnchanged

\* A slip of run(): what a message holds is not looked at as an identity.
TakesAnswerUnread(w, i) ==
  /\ "STARTING" \in status
  /\ Receive(w)
  /\ agreed' = Head(toClient)[2]
  /\ Goto(w, "answered")
  /\ UNCHANGED inbox

\* While STARTING the first bytes of any frame are the client's identity:
\* those of a message could be anybody's.
TakesAnswer(w, i) ==
  /\ "STARTING" \in status
  /\ Receive(w)
  /\ Head(toClient)[1] = "answer" => i = Head(toClient)[2]
  /\ agreed' = i
  /\ Goto(w, "answered")
  /\ UNCHANGED inbox

\* Otherwise it is SM_GET_MESSAGE; an answer would be message 0.
TakesMessage(w) ==
  /\ "STARTING" \notin status
  /\ Receive(w)
  /\ inbox' = Append(inbox, IF Head(toClient)[1] = "answer" THEN 0 ELSE Head(toClient)[2])
  /\ Goto(w, "loop")
  /\ UNCHANGED agreed

\* The server has closed, or receive() fails on what there is to read.
ReceivesNothing(w) ==
  /\ pc[w] = "pass"
  /\ Readable
  /\ Goto(w, "closed")
  /\ workerUnchanged /\ UNCHANGED <<seenVars, toClient>>

\* A cancelled thread ends wherever it is.
Cancelled(w) ==
  /\ w \in cancelled
  /\ Alive(w)
  /\ Goto(w, "done")
  /\ half' = half \ {w}
  /\ reg' = [reg EXCEPT ![w] = {}]
  /\ UNCHANGED <<status, threadVars, sock, seenVars, streamVars, serverVars>>

-----------------------------------------------------------------------------
(* The server: one worker, and other threads that send to channels. *)

clientUnchanged == UNCHANGED <<wordVars, pc, threadVars, sock, seenVars>>

\* The worker reads a frame of a connection that it has not registered: the
\* hello or, after a refusal, any message.
TakesHello(s) ==
  /\ adding = None
  /\ s \in serverOpen \cap unread /\ given[s] = None
  /\ unread' = unread \ {s}
  /\ clientUnchanged
  /\ UNCHANGED <<serverOpen, active, sent, lost>>

\* uniqueID
Free(i) == \A s \in serverOpen : given[s] # i

\* A slip of addClient: it answers as send(Channel) sends.
ReplyToActive(s, i) ==
  toClient' = IF s = sock /\ active THEN Append(toClient, <<"answer", i>>) ELSE toClient

\* What goes to a descriptor that the client does not read is lost.
Reply(s, i) ==
  toClient' = IF s = sock THEN Append(toClient, <<"answer", i>>) ELSE toClient

\* addClient up to the answer: ID and nick are what the frame says, or what
\* the server or its listener makes of it.
Register(s, i) ==
  /\ Free(i)
  /\ TakesHello(s)
  /\ given' = [given EXCEPT ![s] = i]
  /\ adding' = s
  /\ UNCHANGED toClient

\* SM_DUPLICATE_ID: neither an answer nor a close.
Refuse(s, i) ==
  /\ ~Free(i)
  /\ TakesHello(s)
  /\ UNCHANGED <<given, adding, toClient>>

\* Nothing of the answer was written.  addClient does not look at what
\* Socket::send returns: the connection stays registered.
ReplyFails(s) ==
  /\ lost' = (lost \/ s = sock)
  /\ UNCHANGED toClient

Answer(s) ==
  /\ adding = s
  /\ adding' = None
  /\ \/ Reply(s, given[s]) /\ UNCHANGED lost
     \/ ReplyFails(s)
  /\ clientUnchanged
  /\ UNCHANGED <<unread, serverOpen, given, active, sent>>

\* A slip of addClient: SM_ADD_CLIENT, where the listener sets connections
\* active, comes before the answer.
ActivateBeforeAnswer ==
  /\ sock \in serverOpen /\ given[sock] # None
  /\ active' = TRUE
  /\ clientUnchanged
  /\ UNCHANGED <<streamVars, serverOpen, adding, given, sent, lost>>

\* The listener's setActive(true), at SM_ADD_CLIENT at the earliest.
Activate ==
  /\ sock \in serverOpen /\ given[sock] # None /\ adding # sock
  /\ active' = TRUE
  /\ clientUnchanged
  /\ UNCHANGED <<streamVars, serverOpen, adding, given, sent, lost>>

\* A slip of send(Channel): it does not ask whether a connection is active.
BroadcastToAll ==
  /\ sock \in serverOpen /\ given[sock] # None
  /\ sent < MaxMessages
  /\ sent' = sent + 1
  /\ toClient' = Append(toClient, <<"message", sent'>>)
  /\ clientUnchanged
  /\ UNCHANGED <<unread, serverOpen, adding, given, active, lost>>

\* send(Channel), by the worker or by another thread.
Broadcast ==
  /\ active /\ sock \in serverOpen
  /\ sent < MaxMessages
  /\ sent' = sent + 1
  /\ toClient' = Append(toClient, <<"message", sent'>>)
  /\ clientUnchanged
  /\ UNCHANGED <<unread, serverOpen, adding, given, active, lost>>

\* SM_GET_MESSAGE.
TakesClientMessage(s) ==
  /\ adding = None
  /\ s \in serverOpen \cap unread /\ given[s] # None
  /\ unread' = unread \ {s}
  /\ clientUnchanged
  /\ UNCHANGED <<toClient, serverVars>>

\* The server closes s: the peer has hung up, or a send failed, or stop().
\* With input unread the client may lose what it has not read.
ServerCloses(s) ==
  /\ adding # s
  /\ s \in serverOpen
  /\ serverOpen' = serverOpen \ {s}
  /\ unread' = unread \ {s}
  /\ \/ UNCHANGED toClient
     \/ s = sock /\ s \in unread /\ toClient' = <<>>
  /\ given' = [given EXCEPT ![s] = IF s = sock THEN @ ELSE None]
  /\ clientUnchanged
  /\ UNCHANGED <<adding, active, sent, lost>>

-----------------------------------------------------------------------------

Init ==
  /\ status = {} /\ half = {} /\ reg = [t \in Thread |-> {}]
  /\ pc = [t \in Thread |-> IF t = App THEN "idle" ELSE "unborn"]
  /\ thread = None /\ joined = None /\ cancelled = {} 
  /\ sock = None /\ agreed = None /\ inbox = <<>>
  /\ toClient = <<>> /\ unread = {}
  /\ serverOpen = {} /\ adding = None /\ given = [s \in Session |-> None]
  /\ active = FALSE /\ sent = 0 /\ lost = FALSE

AppStep ==
  \/ Load(App) \/ Store(App)
  \/ Connect
  \/ OpenFails \/ ConnectFails \/ Spawn \/ Kill \/ Join \/ JoinWait \/ Close

WorkerStep(w) ==
  \/ Load(w) \/ Store(w)
  \/ LoopTest(w) \/ Timeout(w) \/ SelectFails(w) \/ ReceivesNothing(w) \/ Cancelled(w)
  \/ TakesMessage(w) \/ \E i \in Id : TakesAnswer(w, i)

ServerStep ==
  \E s \in Session :
    \/ Answer(s) \/ TakesClientMessage(s)
    \/ \E i \in Id : Register(s, i) \/ Refuse(s, i)

Calls ==
  \/ CallStart \/ CallStop \/ ClientSends \/ Activate \/ Broadcast
  \/ \E s \in Session : ServerCloses(s)

Next == AppStep \/ ServerStep \/ Calls \/ \E w \in Session : WorkerStep(w)

Spec == Init /\ [][Next]_vars

\* No thread of the client is held up for ever, nor is the server's worker.
FairSpec == /\ Spec /\ WF_vars(AppStep) /\ WF_vars(ServerStep)
            /\ \A w \in Session : WF_vars(WorkerStep(w))

-----------------------------------------------------------------------------
(* Properties. *)

\* Nobody called start() over a live worker, and nobody was cancelled.
Orderly == cancelled = {}

\* The client is in a session, no stop() is on its way, and no start() was
\* called over a live worker.
Undisturbed == sock # None /\ pc[App] = "idle" /\ "RUNNING" \in status

\* The identity that the client takes from a session is the one the server
\* has registered it under: "This guarantees client and server use the same
\* ID and nick." (Client.cpp:163).  The client takes it from the first frame,
\* whatever it is, so no message may overtake the answer; and every start(), and
\* a stop() that loads the status word before the worker clears STARTING, makes
\* the next message another answer.  The guarantee ends where the answer was sent
\* in vain: then, and only then, the client takes the first message for it.
AgreedIdentity ==
  Undisturbed => agreed \in {None, given[sock]} \/ (lost /\ sent > 0)

\* The messages that the client took for the answer.
Eaten == IF lost THEN 1 ELSE 0

\* The listener of a client gets the server's messages, each once and in order,
\* from the first on, and never the answer: the flag that tells the two apart
\* is cleared by one thread while another updates the same word.  An answer that
\* was sent in vain costs it the first message and no other.
MessagesFromTheFirst ==
  Undisturbed => \A k \in 1..Len(inbox) : inbox[k] = k + Eaten

\* A session begins with the socket that start() opens and ends with the next
\* call of start() or stop().
InSession == sock # None /\ pc[App] \in {"idle", "spawn", "failed"}

Promise == INSTANCE Dialogue WITH
  on    <- InSession,
  named <- IF InSession THEN given[sock] ELSE None,
  lost  <- InSession /\ lost,
  known <- IF InSession THEN agreed ELSE None,
  said  <- IF InSession THEN sent ELSE 0,
  heard <- IF InSession THEN inbox ELSE <<>>

\* Whatever is left of earlier sessions, of a worker that ended by itself or of
\* stale stores, each session is a dialogue: the identity is given, learnt
\* once, and only then are messages heard, those that were said before; and what
\* one lost answer does to it is an identity out of the first message, no more.
ImplementsDialogue == Promise!Spec

\* A stop() that stopped something leaves no worker and no socket behind, nor
\* STOPPING, with which no later stop() would do anything, if all was orderly.
\* (A worker's stale store can leave RUNNING behind.)
StopLeavesNothing ==
  [][pc[App] = "stoppingOff" /\ pc'[App] = "idle" /\ Orderly =>
       /\ "STOPPING" \notin status'
       /\ sock' = None /\ thread' = None
       /\ \A w \in Session : ~Alive(w)]_vars

\* The worker is between the load and the store of setStarting(false), or on
\* its way there, with a word that says RUNNING.
MayRevive == "STARTING" \in status \/ \E w \in Session : pc[w] = "answered"

\* stop() returns, if the answer had come before it was called: it does not
\* wait for a worker whose RUNNING was restored by a stale store.
StopReturns ==
  pc[App] = "stoppingOn" /\ App \notin half /\ Orderly /\ ~MayRevive ~> pc[App] = "idle"

\* The client in a session is registered and does not know its identity, although
\* the answer was sent and both sides are there.
Unaware ==
  /\ sock \in serverOpen /\ given[sock] # None
  /\ agreed = None /\ ~lost
  /\ pc[sock] # "done" /\ Orderly

\* A registered client learns its identity, unless the answer was sent in vain
\* or either side ends first.
Answered == []<>~Unaware
================================================================================
