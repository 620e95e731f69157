---------------------------- MODULE ServerLifecycle ----------------------------
(***************************************************************************)
(* Starting and stopping an a::Server: the thread that calls start() and   *)
(* stop() (src/amanita/net/Server.cpp), the worker threads that those      *)
(* calls create, join and cancel (src/amanita/Thread.cpp), and the status  *)
(* word of a::Socket (include/amanita/net/Socket.h) they talk through.     *)
(*                                                                         *)
(* The word is a plain int.  setStarting, setRunning and setStopping are   *)
(* one or two read-modify-writes of it, and each of those is a load and a  *)
(* later store here, so an update made in between is lost.                 *)
(***************************************************************************)
EXTENDS Naturals, FiniteSets

CONSTANTS
  App,      \* the thread that calls start() and stop()
  Worker,   \* the threads start() can create; bounds the successful starts
  None      \* a null pointer, or no listening socket

ASSUME LifecycleAssumption ==
  /\ App \notin Worker
  /\ None \notin Worker \cup {"listening"}

VARIABLES
  status,     \* Socket::status, as the set of its flags
  pc,         \* where each thread is
  half,       \* threads between the load and the store of an update
  reg,        \* what such a thread loaded
  thread,     \* Thread::thread, the worker the server knows of
  joined,     \* the worker stop() waits for
  cancelled,  \* workers that were sent pthread_cancel while alive
  killing,    \* the argument of the current stop()
  sock,       \* Socket::sock: "listening" or None
  overlap     \* history: a start() went ahead while a worker was alive

vars == <<status, pc, half, reg, thread, joined, cancelled, killing, sock, overlap>>

\* SOCK_ST_STARTING, SOCK_ST_RUNNING, SOCK_ST_STOPPING and, for the options
\* of the server that share the word, one SERVER_ST flag.
Flag == {"STARTING", "RUNNING", "STOPPING", "OPTION"}

Thread == {App} \cup Worker

-----------------------------------------------------------------------------
(* setStarting, setRunning, setStopping: or to set, or and then xor to     *)
(* clear; setStatus: or to set, and-not to clear.  Each entry is one       *)
(* read-modify-write and where it leads.                                   *)

Update ==
  [startingOn   |-> [op |-> "or",  flag |-> "STARTING", next |-> "open"],
   startingOff  |-> [op |-> "or",  flag |-> "STARTING", next |-> "startingOff2"],
   startingOff2 |-> [op |-> "xor", flag |-> "STARTING", next |-> "idle"],
   stoppingOn   |-> [op |-> "or",  flag |-> "STOPPING", next |-> "runningOff"],
   runningOff   |-> [op |-> "or",  flag |-> "RUNNING",  next |-> "runningOff2"],
   runningOff2  |-> [op |-> "xor", flag |-> "RUNNING",  next |-> "join"],
   stoppingOff  |-> [op |-> "or",  flag |-> "STOPPING", next |-> "stoppingOff2"],
   stoppingOff2 |-> [op |-> "xor", flag |-> "STOPPING", next |-> "idle"],
   optionOn     |-> [op |-> "or",  flag |-> "OPTION",   next |-> "idle"],
   optionOff    |-> [op |-> "clear", flag |-> "OPTION", next |-> "idle"],
   runningOn    |-> [op |-> "or",  flag |-> "RUNNING",  next |-> "loop"]]

AppPc == (DOMAIN Update \ {"runningOn"}) \cup
         {"idle", "startWait", "startCheck", "open", "spawn",
          "stopWait", "stopCheck", "join", "joinWait", "killAllClients", "close"}

WorkerPc == {"unborn", "runningOn", "loop", "pass", "receive", "done"}

\* What the update u makes of the word w: xor flips the flag.
Updated(u, w) ==
  IF u.op = "or" \/ (u.op = "xor" /\ u.flag \notin w)
  THEN w \cup {u.flag} ELSE w \ {u.flag}

Load(t) ==
  /\ pc[t] \in DOMAIN Update
  /\ t \notin half
  /\ half' = half \cup {t}
  /\ reg' = [reg EXCEPT ![t] = status]
  /\ UNCHANGED <<status, pc, thread, joined, cancelled, killing, sock, overlap>>

Store(t) ==
  /\ pc[t] \in DOMAIN Update
  /\ t \in half
  /\ half' = half \ {t}
  /\ status' = Updated(Update[pc[t]], reg[t])
  /\ pc' = [pc EXCEPT ![t] = Update[pc[t]].next]
  /\ reg' = [reg EXCEPT ![t] = {}]
  /\ UNCHANGED <<thread, joined, cancelled, killing, sock, overlap>>

TypeOK ==
  /\ status \subseteq Flag
  /\ pc \in [Thread -> AppPc \cup WorkerPc]
  /\ pc[App] \in AppPc
  /\ \A w \in Worker : pc[w] \in WorkerPc
  /\ half \subseteq Thread
  /\ reg \in [Thread -> SUBSET Flag]
  /\ thread \in Worker \cup {None}
  /\ joined \in Worker \cup {None}
  /\ cancelled \subseteq Worker
  /\ killing \in BOOLEAN
  /\ sock \in {"listening", None}
  /\ overlap \in BOOLEAN

Alive(w) == pc[w] \notin {"unborn", "done"}

\* Thread::kill: cancel what `thread' points to; the cancelled thread ends
\* at some later moment, and nobody waits for it.
Cancel == cancelled' = cancelled \cup {w \in Worker : w = thread /\ Alive(w)}

Goto(t, l) == pc' = [pc EXCEPT ![t] = l]

-----------------------------------------------------------------------------
(* Server::setStatus and Server::start. *)

CallSetStatus(b) ==
  /\ pc[App] = "idle"
  /\ Goto(App, IF b THEN "optionOn" ELSE "optionOff")
  /\ UNCHANGED <<status, half, reg, thread, joined, cancelled, killing, sock, overlap>>

CallStart ==
  /\ pc[App] = "idle"
  /\ Goto(App, "startWait")
  /\ UNCHANGED <<status, half, reg, thread, joined, cancelled, killing, sock, overlap>>

StartWait ==
  /\ pc[App] = "startWait"
  /\ "STOPPING" \notin status
  /\ Goto(App, "startCheck")
  /\ UNCHANGED <<status, half, reg, thread, joined, cancelled, killing, sock, overlap>>

StartCheck ==
  /\ pc[App] = "startCheck"
  /\ \/ /\ status \cap {"RUNNING", "STARTING"} # {}
        /\ Goto(App, "idle")
        /\ UNCHANGED overlap
     \/ /\ status \cap {"RUNNING", "STARTING"} = {}
        /\ Goto(App, "startingOn")
        /\ overlap' = (overlap \/ \E w \in Worker : Alive(w))
  /\ UNCHANGED <<status, half, reg, thread, joined, cancelled, killing, sock>>

\* socket(), bind() and listen(): `sock' is overwritten either way, if only
\* with -1 or with a descriptor that does not listen.
Open ==
  /\ pc[App] = "open"
  /\ \/ sock' = "listening" /\ Goto(App, "spawn")
     \/ sock' = None /\ Goto(App, "startingOff")
  /\ UNCHANGED <<status, half, reg, thread, joined, cancelled, killing, overlap>>

\* A slip of Thread::start: the thread it replaces runs on.
SpawnForgetting(w) ==
  /\ pc[App] = "spawn"
  /\ pc[w] = "unborn"
  /\ thread' = w
  /\ pc' = [pc EXCEPT ![App] = "startingOff", ![w] = "runningOn"]
  /\ UNCHANGED <<status, half, reg, joined, cancelled, killing, sock, overlap>>

\* Thread::start: a thread that is still known is cancelled first.
Spawn(w) ==
  /\ pc[App] = "spawn"
  /\ pc[w] = "unborn"
  /\ Cancel
  /\ thread' = w
  /\ pc' = [pc EXCEPT ![App] = "startingOff", ![w] = "runningOn"]
  /\ UNCHANGED <<status, half, reg, joined, killing, sock, overlap>>

-----------------------------------------------------------------------------
(* Server::stop. *)

CallStop(k) ==
  /\ pc[App] = "idle"
  /\ killing' = k
  /\ Goto(App, "stopWait")
  /\ UNCHANGED <<status, half, reg, thread, joined, cancelled, sock, overlap>>

StopWait ==
  /\ pc[App] = "stopWait"
  /\ "STARTING" \notin status
  /\ Goto(App, "stopCheck")
  /\ UNCHANGED <<status, half, reg, thread, joined, cancelled, killing, sock, overlap>>

\* A slip of stop(): isRunning() is not asked.
StopCheckAlways ==
  /\ pc[App] = "stopCheck"
  /\ Goto(App, "stoppingOn")
  /\ UNCHANGED <<status, half, reg, thread, joined, cancelled, killing, sock, overlap>>

StopCheck ==
  /\ pc[App] = "stopCheck"
  /\ Goto(App, IF "RUNNING" \in status THEN "stoppingOn" ELSE "idle")
  /\ UNCHANGED <<status, half, reg, thread, joined, cancelled, killing, sock, overlap>>

\* A slip of Thread::stop: the thread is dropped and not joined.
JoinNobody ==
  /\ pc[App] = "join"
  /\ IF killing THEN Cancel ELSE UNCHANGED cancelled
  /\ Goto(App, "killAllClients")
  /\ thread' = None
  /\ UNCHANGED <<status, half, reg, joined, killing, sock, overlap>>

\* A slip of stop(): the listening socket is closed before the join.
CloseThenJoin ==
  /\ pc[App] = "join"
  /\ IF killing THEN Cancel ELSE UNCHANGED cancelled
  /\ Goto(App, IF killing \/ thread = None THEN "killAllClients" ELSE "joinWait")
  /\ joined' = IF killing THEN joined ELSE thread
  /\ thread' = None
  /\ sock' = None
  /\ UNCHANGED <<status, half, reg, killing, overlap>>

\* Thread::kill or the first half of Thread::stop: `thread' is zeroed
\* before pthread_join is called.
Join ==
  /\ pc[App] = "join"
  /\ \/ /\ killing
        /\ Cancel
        /\ Goto(App, "killAllClients")
        /\ UNCHANGED joined
     \/ /\ ~killing
        /\ Goto(App, IF thread = None THEN "killAllClients" ELSE "joinWait")
        /\ joined' = thread
        /\ UNCHANGED cancelled
  /\ thread' = None
  /\ UNCHANGED <<status, half, reg, killing, sock, overlap>>

\* A slip of Thread::stop: pthread_join fails and nobody looks at what it returns.
JoinAtOnce ==
  /\ pc[App] = "joinWait"
  /\ joined' = None
  /\ Goto(App, "killAllClients")
  /\ UNCHANGED <<status, half, reg, thread, cancelled, killing, sock, overlap>>

JoinWait ==
  /\ pc[App] = "joinWait"
  /\ ~Alive(joined)
  /\ joined' = None
  /\ Goto(App, "killAllClients")
  /\ UNCHANGED <<status, half, reg, thread, cancelled, killing, sock, overlap>>

KillAllClients ==
  /\ pc[App] = "killAllClients"
  /\ Goto(App, "close")
  /\ UNCHANGED <<status, half, reg, thread, joined, cancelled, killing, sock, overlap>>

\* A slip of stop(): `sock' keeps the number of the closed descriptor.
CloseKeepingNumber ==
  /\ pc[App] = "close"
  /\ sock' = "closed"
  /\ Goto(App, "stoppingOff")
  /\ UNCHANGED <<status, half, reg, thread, joined, cancelled, killing, overlap>>

Close ==
  /\ pc[App] = "close"
  /\ sock' = None
  /\ Goto(App, "stoppingOff")
  /\ UNCHANGED <<status, half, reg, thread, joined, cancelled, killing, overlap>>

-----------------------------------------------------------------------------
(* Server::run and the end of a worker. *)

\* The loop's condition; a pass waits in select() and handles what it reports.
LoopTest(w) ==
  /\ pc[w] = "loop"
  /\ Goto(w, IF "RUNNING" \in status THEN "pass" ELSE "done")
  /\ UNCHANGED <<status, half, reg, thread, joined, cancelled, killing, sock, overlap>>

EndPass(w) ==
  /\ pc[w] = "pass"
  /\ Goto(w, "loop")
  /\ UNCHANGED <<status, half, reg, thread, joined, cancelled, killing, sock, overlap>>

\* select() fails: the loop is left and RUNNING stays set.
SelectFails(w) ==
  /\ pc[w] = "pass"
  /\ Goto(w, "done")
  /\ UNCHANGED <<status, half, reg, thread, joined, cancelled, killing, sock, overlap>>

\* receive() blocks in the middle of a frame until the peer sends the rest
\* or goes away: the peer's doing, not the worker's.  A pass calls receive()
\* once for a socket; all that may block in it is one step.
Receive(w) ==
  /\ pc[w] = "pass"
  /\ Goto(w, "receive")
  /\ UNCHANGED <<status, half, reg, thread, joined, cancelled, killing, sock, overlap>>

PeerGoesOn(w) ==
  /\ pc[w] = "receive"
  /\ Goto(w, "loop")
  /\ UNCHANGED <<status, half, reg, thread, joined, cancelled, killing, sock, overlap>>

\* A cancelled thread ends wherever it is (PTHREAD_CANCEL_ASYNCHRONOUS).
Cancelled(w) ==
  /\ w \in cancelled
  /\ Alive(w)
  /\ Goto(w, "done")
  /\ half' = half \ {w}
  /\ reg' = [reg EXCEPT ![w] = {}]
  /\ UNCHANGED <<status, thread, joined, cancelled, killing, sock, overlap>>

-----------------------------------------------------------------------------

Init ==
  /\ status = {}
  /\ pc = [t \in Thread |-> IF t = App THEN "idle" ELSE "unborn"]
  /\ half = {}
  /\ reg = [t \in Thread |-> {}]
  /\ thread = None
  /\ joined = None
  /\ cancelled = {}
  /\ killing = FALSE
  /\ sock = None
  /\ overlap = FALSE

Calls == CallStart \/ \E b \in BOOLEAN : CallStop(b) \/ CallSetStatus(b)

AppStep ==
  \/ Load(App) \/ Store(App)
  \/ StartWait \/ StartCheck \/ Open \/ \E w \in Worker : Spawn(w)
  \/ StopWait \/ StopCheck \/ Join \/ JoinWait \/ KillAllClients \/ Close

WorkerStep(w) ==
  \/ Load(w) \/ Store(w)
  \/ LoopTest(w) \/ EndPass(w) \/ SelectFails(w) \/ Receive(w) \/ Cancelled(w)

Next == Calls \/ AppStep \/ \E w \in Worker : WorkerStep(w) \/ PeerGoesOn(w)

Spec == Init /\ [][Next]_vars

\* The scheduler holds up no thread for ever, and select() has a timeout;
\* nobody has to call anything, and no peer has to send anything.
FairSpec == Spec /\ WF_vars(AppStep) /\ \A w \in Worker : WF_vars(WorkerStep(w))

-----------------------------------------------------------------------------
(* Properties. *)

\* Every worker that is alive is known to the server, is being waited for,
\* or has been cancelled (Thread.cpp: start, stop and kill): no worker is
\* ever forgotten while it runs.
NoForgottenWorker ==
  \A w \in Worker : Alive(w) =>
    w = thread \/ (pc[App] = "joinWait" /\ w = joined) \/ w \in cancelled

\* stop() frees every connection while no worker runs, unless one was
\* cancelled, which is not waited for.
ClientsFreedAlone ==
  pc[App] \in {"killAllClients", "close"} =>
    \A w \in Worker : Alive(w) => w \in cancelled

\* A worker's loop never polls a closed listening socket, provided that no
\* start() overlapped a worker: stop() closes it after the join.
LoopHasListener ==
  \A w \in Worker :
    ~overlap /\ pc[w] \in {"loop", "pass"} /\ w \notin cancelled
      => sock = "listening"

\* Nobody called start() over a live worker, and nobody was cancelled.
Orderly == ~overlap /\ cancelled = {}

\* A stop() that stopped something leaves no worker, no socket and neither
\* RUNNING nor STOPPING behind, if all was orderly: not even a worker's stale
\* store brings them back.  (It can bring STARTING back, and then no start()
\* gets past its check and no stop() past its wait.)
StopLeavesNothing ==
  [][pc[App] = "stoppingOff2" /\ pc'[App] = "idle" /\ Orderly =>
       /\ status' \cap {"RUNNING", "STOPPING"} = {}
       /\ sock' = None
       /\ thread' = None
       /\ \A w \in Worker : ~Alive(w)]_vars

Promise == INSTANCE Service WITH
  serving   <- {w \in Worker : Alive(w)},
  past      <- {w \in Worker : pc[w] # "unborn"},
  listening <- sock = "listening",
  emptied   <- pc[App] = "close",
  spoilt    <- ~Orderly

\* The server is a service as long as all is orderly: there is one worker at a
\* time, and it has ended before another is created, before the connections are
\* freed and before its socket is closed or replaced, whatever order the loads
\* and stores of the status word fall in.
ImplementsService == Promise!Spec

\* Once stop() has announced itself it returns, if all was orderly and peers
\* finish the frames they begin: a worker cannot set RUNNING again after
\* stop() has cleared it and then be waited for.
StopReturns ==
  (\A w \in Worker : []<>(pc[w] # "receive")) =>
    (pc[App] = "stoppingOn" /\ Orderly ~> pc[App] = "idle")

\* A worker leaves its loop only after stop() or an error of select().
\* Server.h:188 says of run(): "Called by the thread, and handles all
\* incomming messages."
LeavesLoopWhenStopped ==
  \A w \in Worker :
    pc[w] = "loop" /\ "RUNNING" \notin status /\ w \notin cancelled =>
      pc[App] \in {"join", "joinWait"}
===============================================================================
