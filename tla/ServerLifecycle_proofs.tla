------------------------ MODULE ServerLifecycle_proofs -------------------------
(***************************************************************************)
(* The safety of ServerLifecycle, for every set of workers, that is for    *)
(* any number of starts: types, the three invariants about workers,        *)
(* connections and the listening socket, what a stop() leaves behind, and  *)
(* that it implements Service.                                             *)
(***************************************************************************)
EXTENDS ServerLifecycle, TLAPS

-----------------------------------------------------------------------------
(* The table of updates. *)

\* Each update touches a flag of the word.  An update of start(), stop() and
\* setStatus() leads to a place of the application, the worker's to its loop.
LEMMA UpdateTyped ==
  /\ \A l \in DOMAIN Update : Update[l].flag \in Flag
  /\ \A l \in AppPc \cap DOMAIN Update : Update[l].next \in AppPc
  /\ \A l \in WorkerPc \cap DOMAIN Update : l = "runningOn" /\ Update[l].next = "loop"
<1>1. DOMAIN Update = {"startingOn", "startingOff", "startingOff2", "stoppingOn",
                       "runningOff", "runningOff2", "stoppingOff", "stoppingOff2",
                       "optionOn", "optionOff", "runningOn"}
  BY DEF Update
<1>2. \A l \in DOMAIN Update : Update[l].flag \in Flag
  BY <1>1 DEF Update, Flag
<1>3. \A l \in AppPc \cap DOMAIN Update : Update[l].next \in AppPc
  BY <1>1 DEF Update, AppPc
<1>4. \A l \in WorkerPc \cap DOMAIN Update : l = "runningOn" /\ Update[l].next = "loop"
  BY <1>1 DEF Update, WorkerPc
<1> QED
  BY <1>2, <1>3, <1>4

\* What an update makes of a word of flags is a word of flags.
LEMMA UpdatedTyped ==
  ASSUME NEW l \in DOMAIN Update, NEW w \in SUBSET Flag
  PROVE  Updated(Update[l], w) \in SUBSET Flag
BY UpdateTyped DEF Updated

-----------------------------------------------------------------------------
(* Types. *)

\* Thread::kill cancels workers and nothing else.
LEMMA CancelTyped ==
  ASSUME TypeOK, Cancel
  PROVE  cancelled' \subseteq Worker
BY DEF TypeOK, Cancel

\* A thread that moves on to a place of its own kind keeps pc typed.
LEMMA GotoTyped ==
  ASSUME TypeOK, NEW t \in Thread, NEW l, Goto(t, l),
         t = App => l \in AppPc, t \in Worker => l \in WorkerPc
  PROVE  /\ pc' \in [Thread -> AppPc \cup WorkerPc]
         /\ pc'[App] \in AppPc
         /\ \A w \in Worker : pc'[w] \in WorkerPc
BY LifecycleAssumption DEF TypeOK, Goto, Thread

\* The variables keep their types (Server.cpp, Thread.cpp, Socket.h): the word
\* holds flags only, `sock' is never the number of a closed descriptor, and
\* `thread' is a worker or null.
THEOREM Typing == Spec => []TypeOK
<1>1. Init => TypeOK
  BY LifecycleAssumption DEF Init, TypeOK, Thread, AppPc, WorkerPc, Flag, Update
<1>2. TypeOK /\ [Next]_vars => TypeOK'
  <2> SUFFICES ASSUME TypeOK, [Next]_vars
               PROVE  TypeOK'
    OBVIOUS
  <2> USE LifecycleAssumption
  <2>a. App \in Thread /\ Worker \subseteq Thread
    BY DEF Thread
  <2>b. pc[App] \in AppPc /\ \A w \in Worker : pc[w] \in WorkerPc
    BY DEF TypeOK
  <2>1. ASSUME NEW t \in Thread, Load(t) PROVE TypeOK'
    BY <2>1 DEF Load, TypeOK
  <2>2. ASSUME NEW t \in Thread, Store(t) PROVE TypeOK'
    <3> DEFINE l == Update[pc[t]].next
    <3>1. pc[t] \in DOMAIN Update /\ reg[t] \in SUBSET Flag
      BY <2>2 DEF Store, TypeOK
    <3>2. status' \in SUBSET Flag
      BY <2>2, <3>1, UpdatedTyped DEF Store
    <3>3. (t = App => l \in AppPc) /\ (t \in Worker => l \in WorkerPc)
      <4>1. CASE t = App
        BY <3>1, <4>1, <2>b, UpdateTyped
      <4>2. CASE t \in Worker
        <5>1. l = "loop"
          BY <3>1, <4>2, <2>b, UpdateTyped
        <5> QED BY <5>1, <4>2 DEF WorkerPc
      <4> QED BY <4>1, <4>2 DEF Thread
    <3>4. Goto(t, l)
      BY <2>2 DEF Store, Goto
    <3> HIDE DEF l
    <3>5. /\ pc' \in [Thread -> AppPc \cup WorkerPc]
          /\ pc'[App] \in AppPc
          /\ \A w \in Worker : pc'[w] \in WorkerPc
      BY <3>3, <3>4, GotoTyped
    <3>6. half' \subseteq Thread /\ reg' \in [Thread -> SUBSET Flag]
      BY <2>2 DEF Store, TypeOK
    <3>7. UNCHANGED <<thread, joined, cancelled, killing, sock, overlap>>
      BY <2>2 DEF Store
    <3> QED BY <3>2, <3>5, <3>6, <3>7 DEF TypeOK
  <2>3. CASE CallStart
    BY <2>3, <2>a, GotoTyped DEF CallStart, TypeOK, AppPc
  <2>4. ASSUME NEW b \in BOOLEAN, CallStop(b) PROVE TypeOK'
    BY <2>4, <2>a, GotoTyped DEF CallStop, TypeOK, AppPc
  <2>5. ASSUME NEW b \in BOOLEAN, CallSetStatus(b) PROVE TypeOK'
    <3>1. (IF b THEN "optionOn" ELSE "optionOff") \in AppPc
      BY DEF AppPc, Update
    <3> QED BY <2>5, <2>a, <3>1, GotoTyped DEF CallSetStatus, TypeOK
  <2>6. CASE StartWait
    BY <2>6, <2>a, GotoTyped DEF StartWait, TypeOK, AppPc
  <2>7. CASE StartCheck
    <3>1. {"idle", "startingOn"} \subseteq AppPc
      BY DEF AppPc, Update
    <3>2. PICK l \in {"idle", "startingOn"} : Goto(App, l)
      BY <2>7 DEF StartCheck
    <3>3. overlap' \in BOOLEAN
      BY <2>7 DEF StartCheck, TypeOK
    <3> QED BY <2>7, <2>a, <3>1, <3>2, <3>3, GotoTyped DEF StartCheck, TypeOK
  <2>8. CASE Open
    <3>1. {"spawn", "startingOff"} \subseteq AppPc
      BY DEF AppPc, Update
    <3> QED BY <2>8, <2>a, <3>1, GotoTyped DEF Open, TypeOK
  <2>9. ASSUME NEW w \in Worker, Spawn(w) PROVE TypeOK'
    <3>1. "startingOff" \in AppPc /\ "runningOn" \in WorkerPc
      BY DEF AppPc, WorkerPc, Update
    <3>2. cancelled' \subseteq Worker
      BY <2>9, CancelTyped DEF Spawn
    <3> QED BY <2>9, <2>a, <3>1, <3>2 DEF Spawn, TypeOK
  <2>10. CASE StopWait
    BY <2>10, <2>a, GotoTyped DEF StopWait, TypeOK, AppPc
  <2>11. CASE StopCheck
    <3>1. {"stoppingOn", "idle"} \subseteq AppPc
      BY DEF AppPc, Update
    <3> QED BY <2>11, <2>a, <3>1, GotoTyped DEF StopCheck, TypeOK
  <2>12. CASE Join
    <3>1. {"killAllClients", "joinWait"} \subseteq AppPc
      BY DEF AppPc
    <3>2. PICK l \in {"killAllClients", "joinWait"} : Goto(App, l)
      BY <2>12 DEF Join
    <3>3. cancelled' \subseteq Worker
      BY <2>12, CancelTyped DEF Join, TypeOK
    <3>4. joined' \in Worker \cup {None}
      BY <2>12 DEF Join, TypeOK
    <3> QED BY <2>12, <2>a, <3>1, <3>2, <3>3, <3>4, GotoTyped DEF Join, TypeOK
  <2>13. CASE JoinWait
    BY <2>13, <2>a, GotoTyped DEF JoinWait, TypeOK, AppPc
  <2>14. CASE KillAllClients
    BY <2>14, <2>a, GotoTyped DEF KillAllClients, TypeOK, AppPc
  <2>15. CASE Close
    <3>1. "stoppingOff" \in AppPc
      BY DEF AppPc, Update
    <3> QED BY <2>15, <2>a, <3>1, GotoTyped DEF Close, TypeOK
  <2>16. ASSUME NEW w \in Worker,
                LoopTest(w) \/ EndPass(w) \/ SelectFails(w) \/ Receive(w) \/ PeerGoesOn(w)
         PROVE  TypeOK'
    <3>1. PICK l \in {"pass", "done", "loop", "receive"} : Goto(w, l)
      BY <2>16 DEF LoopTest, EndPass, SelectFails, Receive, PeerGoesOn
    <3>2. l \in WorkerPc
      BY DEF WorkerPc
    <3> QED BY <2>16, <2>a, <3>1, <3>2, GotoTyped
            DEF LoopTest, EndPass, SelectFails, Receive, PeerGoesOn, TypeOK
  <2>17. ASSUME NEW w \in Worker, Cancelled(w) PROVE TypeOK'
    <3>1. "done" \in WorkerPc
      BY DEF WorkerPc
    <3> QED BY <2>17, <2>a, <3>1, GotoTyped DEF Cancelled, TypeOK
  <2>18. CASE UNCHANGED vars
    BY <2>18 DEF vars, TypeOK
  <2> QED
    BY <2>a, <2>1, <2>2, <2>3, <2>4, <2>5, <2>6, <2>7, <2>8, <2>9, <2>10, <2>11, <2>12,
       <2>13, <2>14, <2>15, <2>16, <2>17, <2>18
    DEF Next, Calls, AppStep, WorkerStep
<1> QED
  BY <1>1, <1>2, PTL DEF Spec

-----------------------------------------------------------------------------
(* Workers, connections and the listening socket. *)

\* From the moment stop() joins or cancels until it returns, the server knows
\* no worker.
NoThreadWhileStopping ==
  pc[App] \in {"joinWait", "killAllClients", "close"} => thread = None

\* A worker that no start() overlapped and nobody cancelled has a listening
\* socket, and the application is nowhere where it opens or closes one.
UndisturbedWorkerHasListener ==
  ~overlap => \A w \in Worker \ cancelled : Alive(w) =>
    /\ sock = "listening"
    /\ pc[App] \notin {"startingOn", "open", "spawn", "killAllClients", "close"}

\* The conjunction is inductive.  NoForgottenWorker alone is not enough for
\* ClientsFreedAlone, which needs to know that `thread' is null by then, and
\* LoopHasListener needs to know which steps of the application exclude a live
\* worker.
IInv ==
  /\ TypeOK
  /\ NoForgottenWorker
  /\ NoThreadWhileStopping
  /\ pc[App] = "spawn" => sock = "listening"
  /\ UndisturbedWorkerHasListener

\* The other three invariants follow from IInv in each state.
LEMMA IInvImplies ==
  ASSUME IInv
  PROVE  NoForgottenWorker /\ ClientsFreedAlone /\ LoopHasListener
<1>1. ClientsFreedAlone
  BY LifecycleAssumption
  DEF IInv, NoForgottenWorker, NoThreadWhileStopping, ClientsFreedAlone
<1>2. LoopHasListener
  BY DEF IInv, UndisturbedWorkerHasListener, LoopHasListener, Alive
<1> QED
  BY <1>1, <1>2 DEF IInv

\* A step that moves a worker within its run, or ends it, and leaves the rest
\* alone, preserves IInv.
LEMMA WorkerMoves ==
  ASSUME IInv, TypeOK', NEW w \in Worker, Alive(w),
         pc'[App] = pc[App], \A v \in Worker \ {w} : pc'[v] = pc[v],
         UNCHANGED <<thread, joined, cancelled, sock, overlap>>
  PROVE  IInv'
<1> USE DEF IInv
<1>1. \A v \in Worker : Alive(v)' => Alive(v)
  BY DEF Alive
<1>2. NoForgottenWorker'
  BY <1>1 DEF NoForgottenWorker
<1>3. NoThreadWhileStopping'
  BY DEF NoThreadWhileStopping
<1>4. (pc[App] = "spawn" => sock = "listening")'
  OBVIOUS
<1>5. UndisturbedWorkerHasListener'
  BY <1>1 DEF UndisturbedWorkerHasListener
<1> QED
  BY <1>2, <1>3, <1>4, <1>5

\* A step of the application to a place outside the joining and closing part
\* of stop() and the opening part of start() preserves IInv.
LEMMA ApplicationMoves ==
  ASSUME IInv, TypeOK', NEW l, pc' = [pc EXCEPT ![App] = l],
         pc[App] # "joinWait",
         l \notin {"startingOn", "open", "spawn", "joinWait", "killAllClients", "close"},
         UNCHANGED <<thread, joined, cancelled, sock, overlap>>
  PROVE  IInv'
<1> USE LifecycleAssumption DEF IInv
<1>1. pc'[App] = l /\ \A v \in Worker : pc'[v] = pc[v]
  BY DEF TypeOK, Thread
<1>2. \A v \in Worker : Alive(v)' <=> Alive(v)
  BY <1>1 DEF Alive
<1>3. NoForgottenWorker'
  BY <1>2 DEF NoForgottenWorker
<1>4. NoThreadWhileStopping'
  BY <1>1 DEF NoThreadWhileStopping
<1>5. (pc[App] = "spawn" => sock = "listening")'
  BY <1>1
<1>6. UndisturbedWorkerHasListener'
  BY <1>1, <1>2 DEF UndisturbedWorkerHasListener
<1> QED
  BY <1>3, <1>4, <1>5, <1>6

\* A store of a worker's update moves the worker into its loop; a store of the
\* application's never leads into the joining part, and opens the socket only
\* from startingOn.
LEMMA StorePreserves ==
  ASSUME IInv, TypeOK', NEW t \in Thread, Store(t)
  PROVE  IInv'
<1> USE LifecycleAssumption
<1>1. CASE t \in Worker
  <2>1. pc[t] = "runningOn"
    BY <1>1, UpdateTyped DEF IInv, TypeOK, Store
  <2>2. Alive(t)
    BY <2>1 DEF Alive
  <2>3. pc'[App] = pc[App] /\ \A v \in Worker \ {t} : pc'[v] = pc[v]
    BY <1>1 DEF Store, IInv, TypeOK, Thread
  <2> QED BY <1>1, <2>2, <2>3, WorkerMoves DEF Store
<1>2. CASE t = App
  <2> DEFINE l == Update[pc[App]].next
  <2>1. pc' = [pc EXCEPT ![App] = l] /\ pc[App] \in DOMAIN Update
    BY <1>2 DEF Store
  <2>2. UNCHANGED <<thread, joined, cancelled, sock, overlap>>
    BY <1>2 DEF Store
  <2>3. pc[App] # "joinWait"
    BY <2>1 DEF Update
  <2>4. CASE pc[App] # "startingOn"
    <3>1. l \notin {"startingOn", "open", "spawn", "joinWait", "killAllClients", "close"}
      BY <2>1, <2>4 DEF Update
    <3> HIDE DEF l
    <3> QED BY <2>1, <2>2, <2>3, <3>1, ApplicationMoves
  <2>5. CASE pc[App] = "startingOn"
    <3>1. l = "open"
      BY <2>5 DEF Update
    <3>2. pc'[App] = "open" /\ \A v \in Worker : pc'[v] = pc[v]
      BY <2>1, <3>1 DEF IInv, TypeOK, Thread
    <3>3. \A v \in Worker : Alive(v)' <=> Alive(v)
      BY <3>2 DEF Alive
    <3>4. NoForgottenWorker'
      BY <2>2, <2>5, <3>2, <3>3 DEF IInv, NoForgottenWorker
    <3>5. NoThreadWhileStopping'
      BY <3>2 DEF NoThreadWhileStopping
    <3>6. UndisturbedWorkerHasListener'
      BY <2>2, <2>5, <3>2, <3>3 DEF IInv, UndisturbedWorkerHasListener
    <3> QED BY <3>2, <3>4, <3>5, <3>6 DEF IInv
  <2> QED BY <2>4, <2>5
<1> QED
  BY <1>1, <1>2 DEF Thread

\* Every step preserves IInv.
LEMMA IInvPreserved ==
  ASSUME IInv, TypeOK', [Next]_vars
  PROVE  IInv'
<1> USE LifecycleAssumption
<1>a. App \in Thread /\ Worker \subseteq Thread /\ App \notin Worker
  BY DEF Thread
<1>b. pc \in [Thread -> AppPc \cup WorkerPc] /\ thread \in Worker \cup {None}
  BY DEF IInv, TypeOK
<1>1. ASSUME NEW t \in Thread, Load(t) PROVE IInv'
  BY <1>1 DEF Load, IInv, NoForgottenWorker, NoThreadWhileStopping,
              UndisturbedWorkerHasListener, Alive
<1>2. ASSUME NEW t \in Thread, Store(t) PROVE IInv'
  BY <1>2, StorePreserves
<1>3. CASE CallStart
  BY <1>3, ApplicationMoves DEF CallStart, Goto
<1>4. ASSUME NEW b \in BOOLEAN, CallStop(b) PROVE IInv'
  BY <1>4, ApplicationMoves DEF CallStop, Goto
<1>5. ASSUME NEW b \in BOOLEAN, CallSetStatus(b) PROVE IInv'
  BY <1>5, ApplicationMoves DEF CallSetStatus, Goto
<1>6. CASE StartWait
  BY <1>6, ApplicationMoves DEF StartWait, Goto
<1>7. CASE StartCheck
  \* a live worker makes this start() an overlapping one
  <2>1. CASE Goto(App, "idle") /\ UNCHANGED overlap
    BY <1>7, <2>1, ApplicationMoves DEF StartCheck, Goto
  <2>2. CASE /\ Goto(App, "startingOn")
             /\ overlap' = (overlap \/ \E w \in Worker : Alive(w))
    <3>1. pc'[App] = "startingOn" /\ \A v \in Worker : pc'[v] = pc[v]
      BY <1>a, <1>b, <2>2 DEF Goto
    <3>2. \A v \in Worker : Alive(v)' <=> Alive(v)
      BY <3>1 DEF Alive
    <3>3. UNCHANGED <<thread, joined, cancelled, sock>> /\ pc[App] = "startCheck"
      BY <1>7 DEF StartCheck
    <3>4. NoForgottenWorker'
      BY <3>1, <3>2, <3>3 DEF IInv, NoForgottenWorker
    <3>5. NoThreadWhileStopping'
      BY <3>1 DEF NoThreadWhileStopping
    <3>6. UndisturbedWorkerHasListener'
      BY <2>2, <3>2, <3>3 DEF UndisturbedWorkerHasListener
    <3> QED BY <3>1, <3>4, <3>5, <3>6 DEF IInv
  <2> QED BY <1>7, <2>1, <2>2 DEF StartCheck
<1>8. CASE Open
  <2>1. /\ \A v \in Worker : pc'[v] = pc[v]
        /\ pc'[App] \in {"spawn", "startingOff"}
        /\ pc'[App] = "spawn" => sock' = "listening"
    BY <1>a, <1>b, <1>8 DEF Open, Goto
  <2>2. \A v \in Worker : Alive(v)' <=> Alive(v)
    BY <2>1 DEF Alive
  <2>3. UNCHANGED <<thread, joined, cancelled, overlap>> /\ pc[App] = "open"
    BY <1>8 DEF Open
  <2>4. NoForgottenWorker'
    BY <2>1, <2>2, <2>3 DEF IInv, NoForgottenWorker
  <2>5. NoThreadWhileStopping'
    BY <2>1 DEF NoThreadWhileStopping
  <2>6. UndisturbedWorkerHasListener'
    BY <2>2, <2>3 DEF IInv, UndisturbedWorkerHasListener
  <2> QED BY <2>1, <2>4, <2>5, <2>6 DEF IInv
<1>9. ASSUME NEW w \in Worker, Spawn(w) PROVE IInv'
  \* the worker that `thread' names is cancelled before w takes its place
  <2>1. /\ pc'[App] = "startingOff"
        /\ \A v \in Worker \ {w} : pc'[v] = pc[v]
    BY <1>a, <1>b, <1>9 DEF Spawn
  <2>2. \A v \in Worker \ {w} : Alive(v)' <=> Alive(v)
    BY <2>1 DEF Alive
  <2>3. /\ thread' = w
        /\ cancelled' = cancelled \cup {v \in Worker : v = thread /\ Alive(v)}
        /\ UNCHANGED <<joined, sock, overlap>>
        /\ pc[App] = "spawn"
    BY <1>9 DEF Spawn, Cancel
  <2>4. NoForgottenWorker'
    BY <2>2, <2>3 DEF IInv, NoForgottenWorker
  <2>5. NoThreadWhileStopping'
    BY <2>1 DEF NoThreadWhileStopping
  <2>6. UndisturbedWorkerHasListener'
    BY <2>1, <2>3 DEF IInv, UndisturbedWorkerHasListener
  <2> QED BY <2>1, <2>4, <2>5, <2>6 DEF IInv
<1>10. CASE StopWait
  BY <1>10, ApplicationMoves DEF StopWait, Goto
<1>11. CASE StopCheck
  BY <1>11, ApplicationMoves DEF StopCheck, Goto
<1>12. CASE Join
  \* the worker that `thread' names is cancelled or waited for
  <2>1. /\ \A v \in Worker : pc'[v] = pc[v]
        /\ pc'[App] \in {"killAllClients", "joinWait"}
    BY <1>a, <1>b, <1>12 DEF Join, Goto
  <2>2. \A v \in Worker : Alive(v)' <=> Alive(v)
    BY <2>1 DEF Alive
  <2>3. UNCHANGED <<sock, overlap>> /\ thread' = None /\ pc[App] = "join"
    BY <1>12 DEF Join
  <2>4. \/ /\ cancelled' = cancelled \cup {v \in Worker : v = thread /\ Alive(v)}
           /\ pc'[App] = "killAllClients"
        \/ /\ cancelled' = cancelled
           /\ joined' = thread
           /\ pc'[App] = IF thread = None THEN "killAllClients" ELSE "joinWait"
    BY <1>a, <1>b, <1>12 DEF Join, Cancel, Goto
  <2>5. NoForgottenWorker'
    BY <2>2, <2>3, <2>4 DEF IInv, NoForgottenWorker
  <2>6. NoThreadWhileStopping'
    BY <2>3 DEF NoThreadWhileStopping
  <2>7. \A v \in Worker \ cancelled' : Alive(v) => pc'[App] = "joinWait"
    BY <2>3, <2>4 DEF IInv, NoForgottenWorker
  <2>8. cancelled \subseteq cancelled'
    BY <2>4
  <2>9. UndisturbedWorkerHasListener'
    BY <2>2, <2>3, <2>7, <2>8 DEF IInv, UndisturbedWorkerHasListener
  <2> QED BY <2>1, <2>5, <2>6, <2>9 DEF IInv
<1>13. CASE JoinWait
  \* the worker that was waited for has ended, so only cancelled ones live
  <2>1. /\ \A v \in Worker : pc'[v] = pc[v]
        /\ pc'[App] = "killAllClients"
    BY <1>a, <1>b, <1>13 DEF JoinWait, Goto
  <2>2. \A v \in Worker : Alive(v)' <=> Alive(v)
    BY <2>1 DEF Alive
  <2>3. /\ pc[App] = "joinWait" /\ ~Alive(joined)
        /\ UNCHANGED <<thread, cancelled, sock, overlap>>
    BY <1>13 DEF JoinWait
  <2>4. \A v \in Worker : Alive(v) => v \in cancelled
    BY <2>3 DEF IInv, NoForgottenWorker, NoThreadWhileStopping
  <2>5. NoForgottenWorker'
    BY <2>2, <2>3, <2>4 DEF NoForgottenWorker
  <2>6. NoThreadWhileStopping'
    BY <2>3 DEF IInv, NoThreadWhileStopping
  <2>7. UndisturbedWorkerHasListener'
    BY <2>2, <2>3, <2>4 DEF UndisturbedWorkerHasListener
  <2> QED BY <2>1, <2>5, <2>6, <2>7 DEF IInv
<1>14. CASE KillAllClients \/ Close
  <2>1. /\ \A v \in Worker : pc'[v] = pc[v]
        /\ pc'[App] \in {"close", "stoppingOff"}
    BY <1>a, <1>b, <1>14 DEF KillAllClients, Close, Goto
  <2>2. \A v \in Worker : Alive(v)' <=> Alive(v)
    BY <2>1 DEF Alive
  <2>3. /\ pc[App] \in {"killAllClients", "close"}
        /\ UNCHANGED <<thread, joined, cancelled, overlap>>
    BY <1>14 DEF KillAllClients, Close
  <2>4. \A v \in Worker : Alive(v) => v \in cancelled
    BY <2>3, IInvImplies DEF ClientsFreedAlone
  <2>5. NoForgottenWorker'
    BY <2>2, <2>3, <2>4 DEF NoForgottenWorker
  <2>6. NoThreadWhileStopping'
    BY <2>3 DEF IInv, NoThreadWhileStopping
  <2>7. UndisturbedWorkerHasListener'
    BY <2>2, <2>3, <2>4 DEF UndisturbedWorkerHasListener
  <2> QED BY <2>1, <2>5, <2>6, <2>7 DEF IInv
<1>15. ASSUME NEW w \in Worker,
              \/ LoopTest(w) \/ EndPass(w) \/ SelectFails(w)
              \/ Receive(w) \/ PeerGoesOn(w) \/ Cancelled(w)
       PROVE  IInv'
  <2>1. Alive(w)
    BY <1>15 DEF LoopTest, EndPass, SelectFails, Receive, PeerGoesOn, Cancelled, Alive
  <2>2. PICK l : Goto(w, l)
    BY <1>15 DEF LoopTest, EndPass, SelectFails, Receive, PeerGoesOn, Cancelled
  <2>3. pc'[App] = pc[App] /\ \A v \in Worker \ {w} : pc'[v] = pc[v]
    BY <1>a, <1>b, <2>2 DEF Goto
  <2>4. UNCHANGED <<thread, joined, cancelled, sock, overlap>>
    BY <1>15 DEF LoopTest, EndPass, SelectFails, Receive, PeerGoesOn, Cancelled
  <2> QED BY <2>1, <2>3, <2>4, WorkerMoves
<1>16. CASE UNCHANGED vars
  BY <1>16 DEF vars, IInv, NoForgottenWorker, NoThreadWhileStopping,
               UndisturbedWorkerHasListener, Alive
<1> QED
  BY <1>a, <1>1, <1>2, <1>3, <1>4, <1>5, <1>6, <1>7, <1>8, <1>9, <1>10, <1>11, <1>12,
     <1>13, <1>14, <1>15, <1>16
  DEF Next, Calls, AppStep, WorkerStep

\* The initial states have the invariant, and so has every state.
LEMMA InitInv == Init => IInv
<1> SUFFICES ASSUME Init PROVE IInv
  OBVIOUS
<1>1. TypeOK
  BY LifecycleAssumption DEF Init, TypeOK, Thread, AppPc, WorkerPc, Flag, Update
<1>2. pc[App] = "idle" /\ \A w \in Worker : ~Alive(w)
  BY LifecycleAssumption DEF Init, Thread, Alive
<1> QED
  BY <1>1, <1>2 DEF IInv, NoForgottenWorker, NoThreadWhileStopping,
                    UndisturbedWorkerHasListener

LEMMA Invariance == Spec => []IInv
<1>1. IInv /\ TypeOK' /\ [Next]_vars => IInv'
  BY IInvPreserved
<1> QED
  BY <1>1, InitInv, Typing, PTL DEF Spec

\* In every reachable state no live worker is forgotten, connections are freed
\* while no worker runs that was not cancelled, and the loop has its listening
\* socket (Server::start, Server::stop, Thread::start, stop and kill).
THEOREM Safety == Spec => [](NoForgottenWorker /\ ClientsFreedAlone /\ LoopHasListener)
<1>1. IInv => NoForgottenWorker /\ ClientsFreedAlone /\ LoopHasListener
  BY IInvImplies
<1> QED
  BY <1>1, Invariance, PTL

-----------------------------------------------------------------------------
(* What stop() leaves behind. *)

\* The word, and what the application has loaded of it, has the flag, or not.
Has(f) == f \in status /\ (App \in half => f \in reg[App])
Lacks(f) == f \notin status /\ (App \in half => f \notin reg[App])

\* Where stop() is once it has seen RUNNING, and where it has cleared it.
Stopping == {"stoppingOn", "runningOff", "runningOff2"}
Stopped  == {"join", "joinWait", "killAllClients", "close", "stoppingOff", "stoppingOff2"}

\* While all is orderly: a worker that has not set RUNNING finds it clear, and no
\* stop() begins before it has; the two xors find the flag that they are to clear;
\* and when stop() has closed the socket no worker lives.
Clean ==
  /\ App \in half => pc[App] \in DOMAIN Update
  /\ pc[App] \in {"stoppingOff", "stoppingOff2"} => sock = None /\ thread = None
  /\ Orderly =>
       /\ \A w \in Worker : pc[w] = "runningOn" =>
            Lacks("RUNNING") /\ pc[App] \notin Stopping \cup Stopped
       /\ pc[App] \in {"startingOn", "open", "spawn"} \cup Stopped => Lacks("RUNNING")
       /\ pc[App] = "runningOff2" => Has("RUNNING")
       /\ pc[App] = "stoppingOff2" => Has("STOPPING")
       /\ pc[App] \in {"stoppingOff", "stoppingOff2"} => \A w \in Worker : ~Alive(w)

\* A worker's steps, but for its update, touch nothing of that.
LEMMA CleanWorkerMoves ==
  ASSUME IInv, Clean, NEW w \in Worker,
         \/ LoopTest(w) \/ EndPass(w) \/ SelectFails(w)
         \/ Receive(w) \/ PeerGoesOn(w) \/ Cancelled(w)
  PROVE  Clean'
<1> USE LifecycleAssumption
<1>1. Alive(w) /\ App # w /\ App \in Thread /\ Worker \subseteq Thread
  BY DEF LoopTest, EndPass, SelectFails, Receive, PeerGoesOn, Cancelled, Alive, Thread
<1>2. PICK l \in {"loop", "pass", "receive", "done"} : Goto(w, l)
  BY DEF LoopTest, EndPass, SelectFails, Receive, PeerGoesOn, Cancelled
<1>3. pc'[App] = pc[App] /\ pc'[w] = l /\ \A v \in Worker \ {w} : pc'[v] = pc[v]
  BY <1>1, <1>2 DEF Goto, IInv, TypeOK
<1>4. /\ UNCHANGED <<status, thread, sock, cancelled, overlap>>
      /\ reg'[App] = reg[App] /\ (App \in half' <=> App \in half)
  BY <1>1 DEF LoopTest, EndPass, SelectFails, Receive, PeerGoesOn, Cancelled, IInv, TypeOK
<1>5. Orderly' = Orderly /\ Lacks("RUNNING")' = Lacks("RUNNING")
      /\ Has("RUNNING")' = Has("RUNNING") /\ Has("STOPPING")' = Has("STOPPING")
  BY <1>4 DEF Orderly, Lacks, Has
<1> QED
  BY <1>1, <1>3, <1>4, <1>5 DEF Clean, Alive

\* A worker sets RUNNING: it loaded a word at some moment before, but no step of
\* stop() depends on the flags that its store may undo.
LEMMA CleanWorkerWord ==
  ASSUME IInv, Clean, NEW w \in Worker, Load(w) \/ Store(w)
  PROVE  Clean'
<1> USE LifecycleAssumption
<1>1. App # w /\ App \in Thread /\ Worker \subseteq Thread
  BY DEF Thread
<1>2. pc[w] = "runningOn" /\ Alive(w) /\ Update[pc[w]].next = "loop"
  BY UpdateTyped DEF Load, Store, IInv, TypeOK, Alive
<1>3. /\ pc'[App] = pc[App] /\ \A v \in Worker : pc'[v] # pc[v] => pc'[v] = "loop" /\ v = w
  BY <1>1, <1>2 DEF Load, Store, IInv, TypeOK
<1>4. /\ UNCHANGED <<thread, sock, cancelled, overlap>>
      /\ reg'[App] = reg[App] /\ (App \in half' <=> App \in half)
      /\ UNCHANGED status \/ pc'[w] = "loop"
  BY <1>1, <1>2 DEF Load, Store, IInv, TypeOK
<1>5. Orderly' = Orderly
  BY <1>4 DEF Orderly
<1>6. ASSUME Orderly
      PROVE  /\ pc[App] \notin {"startingOn", "open", "spawn"} \cup Stopping \cup Stopped
             /\ \A v \in Worker \ {w} : ~Alive(v)
  <2>1. pc[App] \notin Stopping \cup Stopped
    BY <1>2, <1>6 DEF Clean
  <2>2. pc[App] \notin {"startingOn", "open", "spawn"}
    BY <1>2, <1>6 DEF IInv, UndisturbedWorkerHasListener, Orderly
  <2>3. \A v \in Worker : Alive(v) => v = thread
    BY <1>6, <2>1 DEF IInv, NoForgottenWorker, Orderly, Stopped
  <2> QED BY <1>2, <2>1, <2>2, <2>3
<1>7. ASSUME Orderly, NEW v \in Worker, pc'[v] = "runningOn"
      PROVE  Lacks("RUNNING")'
  <2>1. v = w
    BY <1>3, <1>6, <1>7 DEF Alive
  <2>2. UNCHANGED status
    BY <1>4, <1>7, <2>1
  <2> QED
    BY <1>2, <1>4, <1>7, <2>2 DEF Clean, Lacks
<1> QED
  BY <1>3, <1>4, <1>5, <1>6, <1>7 DEF Clean, Stopping, Stopped

\* The application loads and stores the word.
LEMMA CleanAppWord ==
  ASSUME IInv, Clean, Load(App) \/ Store(App)
  PROVE  Clean'
<1> USE LifecycleAssumption
<1>1. App \in Thread /\ Worker \subseteq Thread
  BY DEF Thread
<1>2. CASE Load(App)
  <2>1. reg'[App] = status
    BY <1>1, <1>2 DEF Load, IInv, TypeOK
  <2>2. Orderly' = Orderly
    BY <1>2 DEF Load, Orderly
  <2> QED
    BY <1>2, <2>1, <2>2 DEF Load, Clean, Lacks, Has, Alive
<1>3. CASE Store(App)
  <2> DEFINE p == pc[App]
             q == Update[p].next
  <2>1. /\ p \in DOMAIN Update /\ App \in half /\ App \notin half'
        /\ status' = Updated(Update[p], reg[App])
        /\ UNCHANGED <<thread, sock, cancelled, overlap>>
    BY <1>3 DEF Store
  <2>2. pc'[App] = q /\ \A v \in Worker : pc'[v] = pc[v]
    BY <1>1, <1>3 DEF Store, IInv, TypeOK
  <2>3. Orderly' = Orderly
    BY <2>1 DEF Orderly
  <2>4. p \in {"startingOn", "startingOff", "startingOff2", "stoppingOn", "runningOff",
               "runningOff2", "stoppingOff", "stoppingOff2", "optionOn", "optionOff"}
    <3>1. p \in AppPc
      BY DEF IInv, TypeOK
    <3> QED BY <2>1, <3>1 DEF AppPc, Update
  <2>5. /\ p = "startingOn" => q = "open"
        /\ p = "startingOff" => q = "startingOff2"
        /\ p = "stoppingOn" => q = "runningOff"
        /\ p = "runningOff" => q = "runningOff2"
        /\ p = "runningOff2" => q = "join"
        /\ p = "stoppingOff" => q = "stoppingOff2"
        /\ p \in {"startingOff2", "stoppingOff2", "optionOn", "optionOff"} => q = "idle"
    BY <2>4 DEF Update
  <2>6. /\ p \notin {"runningOff", "runningOff2"} /\ "RUNNING" \notin reg[App]
             => "RUNNING" \notin status'
        /\ p = "runningOff" => "RUNNING" \in status'
        /\ p = "runningOff2" /\ "RUNNING" \in reg[App] => "RUNNING" \notin status'
        /\ p = "stoppingOff" => "STOPPING" \in status'
    BY <2>1, <2>4 DEF Update, Updated
  <2> HIDE DEF p, q
  <2>7. ASSUME Orderly
        PROVE  /\ \A w \in Worker : pc[w] = "runningOn" =>
                    "RUNNING" \notin reg[App] /\ p \notin Stopping \cup Stopped
               /\ p \in {"startingOn", "stoppingOff"} => "RUNNING" \notin reg[App]
               /\ p = "runningOff2" => "RUNNING" \in reg[App]
    BY <2>1, <2>7 DEF Clean, Lacks, Has, p, Stopped
  <2>8. (App \in half => pc[App] \in DOMAIN Update)'
    BY <2>1
  <2>9. (pc[App] \in {"stoppingOff", "stoppingOff2"} => sock = None /\ thread = None)'
    BY <2>1, <2>2, <2>4, <2>5 DEF Clean, p
  <2>10. ASSUME Orderly
         PROVE  /\ \A w \in Worker : (pc[w] = "runningOn" =>
                     Lacks("RUNNING") /\ pc[App] \notin Stopping \cup Stopped)'
                /\ (pc[App] \in {"startingOn", "open", "spawn"} \cup Stopped
                      => Lacks("RUNNING"))'
                /\ (pc[App] = "runningOff2" => Has("RUNNING"))'
                /\ (pc[App] = "stoppingOff2" => Has("STOPPING"))'
                /\ (pc[App] \in {"stoppingOff", "stoppingOff2"}
                      => \A w \in Worker : ~Alive(w))'
    <3>1. \A w \in Worker : (pc[w] = "runningOn" =>
            Lacks("RUNNING") /\ pc[App] \notin Stopping \cup Stopped)'
      BY <2>1, <2>2, <2>4, <2>5, <2>6, <2>7, <2>10 DEF Lacks, Stopping, Stopped
    <3>2. (pc[App] \in {"startingOn", "open", "spawn"} \cup Stopped => Lacks("RUNNING"))'
      BY <2>1, <2>2, <2>4, <2>5, <2>6, <2>7, <2>10 DEF Lacks, Stopped
    <3>3. (pc[App] = "runningOff2" => Has("RUNNING"))'
      BY <2>1, <2>2, <2>4, <2>5, <2>6 DEF Has
    <3>4. (pc[App] = "stoppingOff2" => Has("STOPPING"))'
      BY <2>1, <2>2, <2>4, <2>5, <2>6 DEF Has
    <3>5. (pc[App] \in {"stoppingOff", "stoppingOff2"} => \A w \in Worker : ~Alive(w))'
      BY <2>2, <2>4, <2>5, <2>10 DEF Clean, Alive, p
    <3> QED BY <3>1, <3>2, <3>3, <3>4, <3>5
  <2> QED
    BY <2>3, <2>8, <2>9, <2>10 DEF Clean
<1> QED
  BY <1>2, <1>3

\* What was cancelled stays so, and an overlap is not forgotten.
LEMMA Monotone ==
  ASSUME Next
  PROVE  cancelled \subseteq cancelled' /\ (overlap => overlap')
<1>1. cancelled' = cancelled \/ Cancel
  BY DEF Next, Calls, AppStep, WorkerStep, Load, Store, CallStart, CallStop, CallSetStatus,
         StartWait, StartCheck, Open, Spawn, StopWait, StopCheck, Join, JoinWait, KillAllClients,
         Close, LoopTest, EndPass, SelectFails, Receive, PeerGoesOn, Cancelled
<1>2. overlap' = overlap \/ StartCheck
  BY DEF Next, Calls, AppStep, WorkerStep, Load, Store, CallStart, CallStop, CallSetStatus,
         StartWait, StartCheck, Open, Spawn, StopWait, StopCheck, Join, JoinWait, KillAllClients,
         Close, LoopTest, EndPass, SelectFails, Receive, PeerGoesOn, Cancelled
<1>3. cancelled \subseteq cancelled'
  BY <1>1 DEF Cancel
<1>4. overlap => overlap'
  BY <1>2 DEF StartCheck
<1> QED
  BY <1>3, <1>4

\* The other steps of the application do not touch the word.
LEMMA CleanAppMoves ==
  ASSUME IInv, IInv', Clean, Calls \/ AppStep, ~Load(App), ~Store(App)
  PROVE  Clean'
<1> USE LifecycleAssumption
<1>1. App \in Thread /\ Worker \subseteq Thread /\ App \notin Worker
  BY DEF Thread
<1>2. UNCHANGED <<status, half, reg>> /\ (Orderly' => Orderly)
  <2>1. UNCHANGED <<status, half, reg>>
    BY DEF Calls, AppStep, CallStart, CallStop, CallSetStatus, StartWait, StartCheck, Open,
           Spawn, StopWait, StopCheck, Join, JoinWait, KillAllClients, Close
  <2>2. cancelled \subseteq cancelled' /\ (overlap => overlap')
    BY Monotone DEF Next
  <2> QED
    BY <2>1, <2>2 DEF Orderly
<1>3. pc[App] \in {"idle", "startWait", "startCheck", "open", "spawn", "stopWait", "stopCheck",
                   "join", "joinWait", "killAllClients", "close"}
  BY DEF Calls, AppStep, CallStart, CallStop, CallSetStatus, StartWait, StartCheck, Open, Spawn,
         StopWait, StopCheck, Join, JoinWait, KillAllClients, Close
<1>4. App \notin half
  BY <1>3 DEF Clean, Update
<1>5. \A f : (Lacks(f)' <=> f \notin status) /\ (Lacks(f) <=> f \notin status)
  BY <1>2, <1>4 DEF Lacks
<1>6. ASSUME NEW l, Goto(App, l)
      PROVE  pc'[App] = l /\ \A w \in Worker : pc'[w] = pc[w]
  BY <1>1, <1>6 DEF Goto, IInv, TypeOK
<1>7. CASE CallStart \/ StartWait \/ StopWait \/ \E b \in BOOLEAN : CallStop(b) \/ CallSetStatus(b)
  <2>1. PICK l \in {"startWait", "startCheck", "stopWait", "stopCheck", "optionOn", "optionOff"} :
          Goto(App, l)
    BY <1>7 DEF CallStart, StartWait, StopWait, CallStop, CallSetStatus
  <2>2. pc'[App] = l /\ \A w \in Worker : pc'[w] = pc[w]
    BY <1>6, <2>1
  <2> QED
    BY <1>2, <1>4, <1>5, <2>1, <2>2 DEF Clean, Stopping, Stopped
<1>8. CASE StartCheck
  <2>1. PICK l \in {"idle", "startingOn"} :
          Goto(App, l) /\ (l = "startingOn" => "RUNNING" \notin status)
    BY <1>8 DEF StartCheck
  <2>2. pc'[App] = l /\ \A w \in Worker : pc'[w] = pc[w]
    BY <1>6, <2>1
  <2> QED
    BY <1>2, <1>4, <1>5, <2>1, <2>2 DEF Clean, Stopping, Stopped
<1>9. CASE Open
  <2>1. PICK l \in {"spawn", "startingOff"} : Goto(App, l) /\ pc[App] = "open"
    BY <1>9 DEF Open
  <2>2. pc'[App] = l /\ \A w \in Worker : pc'[w] = pc[w]
    BY <1>6, <2>1
  <2> QED
    BY <1>2, <1>4, <1>5, <2>1, <2>2 DEF Clean, Stopping, Stopped
<1>10. ASSUME NEW w \in Worker, Spawn(w)
       PROVE  Clean'
  <2>1. pc'[App] = "startingOff" /\ pc[App] = "spawn"
    BY <1>1, <1>10 DEF Spawn, IInv, TypeOK
  <2>2. Orderly' => Lacks("RUNNING")'
    BY <1>2, <1>5, <2>1 DEF Clean
  <2> QED
    BY <1>2, <1>4, <2>1, <2>2 DEF Clean, Stopping, Stopped
<1>11. CASE StopCheck
  <2>1. /\ Goto(App, IF "RUNNING" \in status THEN "stoppingOn" ELSE "idle")
        /\ UNCHANGED <<thread, sock>>
    BY <1>11 DEF StopCheck
  <2>2. /\ pc'[App] = IF "RUNNING" \in status THEN "stoppingOn" ELSE "idle"
        /\ \A w \in Worker : pc'[w] = pc[w]
    BY <1>6, <2>1
  <2> QED
    BY <1>2, <1>4, <1>5, <2>2 DEF Clean, Stopping, Stopped
<1>12. CASE Join \/ JoinWait \/ KillAllClients \/ Close
  <2>1. PICK l \in {"joinWait", "killAllClients", "close", "stoppingOff"} :
          /\ Goto(App, l) /\ pc[App] \in {"join", "joinWait", "killAllClients", "close"}
          /\ l = "stoppingOff" => pc[App] = "close" /\ sock' = None /\ thread' = thread
                                  /\ UNCHANGED <<cancelled, overlap>>
    BY <1>12 DEF Join, JoinWait, KillAllClients, Close
  <2>2. pc'[App] = l /\ \A w \in Worker : pc'[w] = pc[w]
    BY <1>6, <2>1
  <2>3. l = "stoppingOff" => thread' = None
    BY <2>1 DEF IInv, NoThreadWhileStopping
  <2>4. l = "stoppingOff" /\ Orderly => \A w \in Worker : ~Alive(w)
    BY <2>1, IInvImplies DEF ClientsFreedAlone, Orderly
  <2> QED
    BY <1>2, <1>4, <1>5, <2>1, <2>2, <2>3, <2>4 DEF Clean, Stopping, Stopped, Alive
<1> QED
  BY <1>7, <1>8, <1>9, <1>10, <1>11, <1>12 DEF Calls, AppStep

\* A stop() that stopped something leaves no worker, no socket and neither
\* RUNNING nor STOPPING behind, if all was orderly (Server::stop, Thread::stop):
\* the worker sets RUNNING before stop() can see it, and never again.
THEOREM StopIsClean == Spec => StopLeavesNothing
<1> USE LifecycleAssumption
<1>1. Init => IInv /\ Clean
  <2> SUFFICES ASSUME Init
               PROVE  Clean
    BY InitInv
  <2>1. pc[App] = "idle" /\ \A w \in Worker : pc[w] = "unborn"
    BY DEF Init, Thread
  <2> QED
    BY <2>1 DEF Init, Clean, Stopping, Stopped
<1>2. IInv /\ IInv' /\ Clean /\ [Next]_vars => Clean'
  <2> SUFFICES ASSUME IInv, IInv', Clean, [Next]_vars
               PROVE  Clean'
    OBVIOUS
  <2>1. CASE UNCHANGED vars
    BY <2>1 DEF vars, Clean, Orderly, Lacks, Has, Alive
  <2> QED
    BY <2>1, CleanAppMoves, CleanAppWord, CleanWorkerWord, CleanWorkerMoves
    DEF Next, AppStep, WorkerStep
<1>3. IInv /\ Clean /\ [Next]_vars =>
        [pc[App] = "stoppingOff2" /\ pc'[App] = "idle" /\ Orderly =>
           /\ status' \cap {"RUNNING", "STOPPING"} = {}
           /\ sock' = None
           /\ thread' = None
           /\ \A w \in Worker : ~Alive(w)]_vars
  <2> SUFFICES ASSUME IInv, Clean, Next, pc[App] = "stoppingOff2", pc'[App] = "idle", Orderly
               PROVE  /\ status' \cap {"RUNNING", "STOPPING"} = {}
                      /\ sock' = None
                      /\ thread' = None
                      /\ \A w \in Worker : ~Alive(w)
    OBVIOUS
  <2>1. App \in Thread /\ App \notin Worker
    BY DEF Thread
  <2>2. \A w \in Worker : ~(WorkerStep(w) \/ PeerGoesOn(w))
    <3> SUFFICES ASSUME NEW w \in Worker, WorkerStep(w) \/ PeerGoesOn(w)
                 PROVE  pc'[App] = pc[App]
      OBVIOUS
    <3> QED
      BY <2>1 DEF WorkerStep, Load, Store, Goto, LoopTest, EndPass, SelectFails, Receive,
                  PeerGoesOn, Cancelled, IInv, TypeOK
  <2>3. Store(App)
    BY <2>2
    DEF Next, Calls, AppStep, Load, CallStart, CallStop, CallSetStatus, StartWait, StartCheck,
        Open, Spawn, StopWait, StopCheck, Join, JoinWait, KillAllClients, Close
  <2>4. App \in half /\ status' = Updated(Update["stoppingOff2"], reg[App])
    BY <2>3 DEF Store
  <2>5. "RUNNING" \notin reg[App] /\ "STOPPING" \in reg[App]
    BY <2>4 DEF Clean, Lacks, Has, Stopped
  <2>6. status' = reg[App] \ {"STOPPING"}
    BY <2>4, <2>5 DEF Updated, Update
  <2>7. UNCHANGED <<thread, sock>>
    BY <2>3 DEF Store
  <2> QED
    BY <2>5, <2>6, <2>7 DEF Clean
<1> QED
  BY <1>1, <1>2, <1>3, Invariance, PTL DEF Spec, StopLeavesNothing

-----------------------------------------------------------------------------
(* The service. *)

\* The workers that run, and those that run or did.
Serving == {w \in Worker : Alive(w)}
Born    == {w \in Worker : pc[w] # "unborn"}

\* What is done to no worker, no socket and none of the application's last steps
\* in stop() is nothing to the service.
LEMMA Nothing ==
  ASSUME Serving' = Serving, Born' = Born, sock' = sock, Orderly' = Orderly,
         pc[App] # "close", pc'[App] # "close"
  PROVE  UNCHANGED Promise!vars
BY DEF Serving, Born, Promise!vars

\* What was spoilt is spoilt.
LEMMA Disorderly ==
  ASSUME ~Orderly', [Next]_vars
  PROVE  Promise!Next
<1>1. (~Orderly)' = TRUE
  BY DEF Orderly
<1> QED
  BY <1>1 DEF Promise!Next, Promise!Spoil

\* The application, from idle to idle: it opens and closes while nobody runs, as
\* far as nobody was cancelled and no start() overlapped a worker.
LEMMA AppServes ==
  ASSUME IInv, IInv', Orderly', Orderly, Calls \/ AppStep
  PROVE  [Promise!Next]_(Promise!vars)
<1> USE LifecycleAssumption
<1>1. App \in Thread /\ Worker \subseteq Thread /\ App \notin Worker /\ Orderly' = Orderly
      /\ pc \in [Thread -> AppPc \cup WorkerPc] /\ pc[App] \in AppPc
  BY DEF Thread, IInv, TypeOK, Orderly
<1>2. pc[App] \in {"open", "spawn", "killAllClients", "close"} => Serving = {}
  BY DEF IInv, UndisturbedWorkerHasListener, Orderly, Serving
<1>3. ASSUME NEW l, Goto(App, l)
      PROVE  pc'[App] = l /\ Serving' = Serving /\ Born' = Born
  BY <1>1, <1>3 DEF Goto, Serving, Born, Alive
<1>4. CASE Load(App)
  BY <1>1, <1>4, Nothing DEF Load, Serving, Born, Alive, Update
<1>5. CASE Store(App)
  <2>1. Goto(App, Update[pc[App]].next) /\ pc[App] \in DOMAIN Update /\ sock' = sock
    BY <1>5 DEF Store, Goto
  <2>2. pc[App] # "close" /\ Update[pc[App]].next # "close"
    BY <2>1 DEF Update
  <2> QED
    BY <1>1, <1>3, <2>1, <2>2, Nothing
<1>6. CASE \/ CallStart \/ StartWait \/ StartCheck \/ StopWait \/ StopCheck \/ Join \/ JoinWait
           \/ \E b \in BOOLEAN : CallStop(b) \/ CallSetStatus(b)
  <2>1. PICK l \in {"startWait", "startCheck", "idle", "startingOn", "stopWait", "stopCheck",
                    "stoppingOn", "joinWait", "killAllClients", "optionOn", "optionOff"} :
          Goto(App, l)
    BY <1>6 DEF CallStart, StartWait, StartCheck, StopWait, StopCheck, Join, JoinWait, CallStop,
                CallSetStatus
  <2>2. sock' = sock /\ pc[App] # "close"
    BY <1>6 DEF CallStart, StartWait, StartCheck, StopWait, StopCheck, Join, JoinWait, CallStop,
                CallSetStatus
  <2> QED
    BY <1>1, <1>3, <2>1, <2>2, Nothing
<1>7. CASE Open
  <2>1. PICK l \in {"spawn", "startingOff"} : Goto(App, l) /\ pc[App] = "open"
    BY <1>7 DEF Open
  <2>2. Serving = {} /\ Serving' = Serving /\ Born' = Born /\ pc'[App] = l
    BY <1>2, <1>3, <2>1
  <2> QED
    BY <1>1, <2>1, <2>2 DEF Promise!Next, Promise!Open, Serving, Born
<1>8. ASSUME NEW w \in Worker, Spawn(w)
      PROVE  [Promise!Next]_(Promise!vars)
  <2>1. /\ pc[App] = "spawn" /\ pc'[App] = "startingOff" /\ pc[w] = "unborn"
        /\ pc'[w] = "runningOn" /\ \A v \in Worker \ {w} : pc'[v] = pc[v]
        /\ sock' = sock
    BY <1>1, <1>8 DEF Spawn
  <2>2. sock = "listening" /\ Serving = {}
    BY <1>2, <2>1 DEF IInv
  <2>3. Serving' = {w} /\ Born' = Born \cup {w} /\ w \notin Born
    BY <2>1, <2>2 DEF Serving, Born, Alive
  <2>4. Promise!Launch(w)
    BY <1>1, <2>1, <2>2, <2>3 DEF Promise!Launch, Serving, Born
  <2> QED
    BY <2>4 DEF Promise!Next
<1>9. CASE KillAllClients
  <2>1. pc[App] = "killAllClients" /\ Goto(App, "close") /\ sock' = sock
    BY <1>9 DEF KillAllClients
  <2>2. Serving = {} /\ Serving' = Serving /\ Born' = Born /\ pc'[App] = "close"
    BY <1>2, <1>3, <2>1
  <2> QED
    BY <1>1, <2>1, <2>2 DEF Promise!Next, Promise!Empty, Serving, Born
<1>10. CASE Close
  <2>1. pc[App] = "close" /\ Goto(App, "stoppingOff") /\ sock' = None
    BY <1>10 DEF Close
  <2>2. Serving' = Serving /\ Born' = Born /\ pc'[App] = "stoppingOff"
    BY <1>3, <2>1
  <2> QED
    BY <1>1, <2>1, <2>2 DEF Promise!Next, Promise!Shut, Serving, Born
<1> QED
  BY <1>4, <1>5, <1>6, <1>7, <1>8, <1>9, <1>10 DEF Calls, AppStep

\* A worker leaves its loop, or is cancelled, and another event is none.
LEMMA WorkerServes ==
  ASSUME IInv, Orderly', Orderly, NEW w \in Worker, WorkerStep(w) \/ PeerGoesOn(w)
  PROVE  [Promise!Next]_(Promise!vars)
<1> USE LifecycleAssumption
<1>1. App \in Thread /\ Worker \subseteq Thread /\ App \notin Worker /\ Orderly' = Orderly
      /\ pc \in [Thread -> AppPc \cup WorkerPc]
  BY DEF Thread, IInv, TypeOK, Orderly
<1>2. Alive(w) /\ pc[w] # "unborn"
  <2>1. CASE Load(w) \/ Store(w)
    BY <2>1 DEF Load, Store, Update, Alive
  <2>2. CASE ~(Load(w) \/ Store(w))
    BY <2>2 DEF WorkerStep, LoopTest, EndPass, SelectFails, Receive, PeerGoesOn, Cancelled, Alive
  <2> QED BY <2>1, <2>2
<1>3. sock' = sock
  BY DEF WorkerStep, Load, Store, LoopTest, EndPass, SelectFails, Receive, PeerGoesOn, Cancelled
<1>4. PICK l \in {pc[w], "loop", "pass", "receive", "done"} : Goto(w, l)
  <2>1. CASE Load(w)
    BY <1>1, <2>1 DEF Load, Goto
  <2>2. CASE Store(w)
    BY <2>2, UpdateTyped DEF Store, Goto, IInv, TypeOK
  <2>3. CASE ~(Load(w) \/ Store(w))
    BY <2>3 DEF WorkerStep, LoopTest, EndPass, SelectFails, Receive, PeerGoesOn, Cancelled
  <2> QED BY <2>1, <2>2, <2>3
<1>5. pc'[App] = pc[App] /\ pc'[w] = l /\ \A v \in Worker \ {w} : pc'[v] = pc[v]
  BY <1>1, <1>4 DEF Goto
<1>6. Born' = Born
  BY <1>2, <1>5 DEF Born
<1>7. CASE l = "done"
  <2>1. w \in Serving /\ Serving' = Serving \ {w}
    BY <1>2, <1>5, <1>7 DEF Serving, Alive
  <2>2. Promise!End(w)
    BY <1>1, <1>3, <1>5, <1>6, <2>1 DEF Promise!End, Serving, Born
  <2> QED
    BY <2>2 DEF Promise!Next
<1>8. CASE l # "done"
  <2>1. Serving' = Serving
    BY <1>2, <1>5, <1>8 DEF Serving, Alive
  <2>2. pc[App] # "close"
    BY <1>2 DEF IInv, UndisturbedWorkerHasListener, Orderly
  <2> QED
    BY <1>1, <1>3, <1>5, <1>6, <2>1, <2>2, Nothing
<1> QED
  BY <1>7, <1>8

\* The server is a service (Server::start, Server::stop, Thread::start, stop and
\* kill), for any number of starts, as long as start() is not called over a live
\* worker and none is cancelled: one worker at a time, with its socket, and none
\* while the connections are freed or the socket is opened or closed.
THEOREM Implements == Spec => ImplementsService
<1>1. Init => Promise!Init
  <2> SUFFICES ASSUME Init
               PROVE  Promise!Init
    OBVIOUS
  <2>1. pc[App] = "idle" /\ \A w \in Worker : pc[w] = "unborn"
    BY LifecycleAssumption DEF Init, Thread
  <2> QED
    BY <2>1, LifecycleAssumption DEF Init, Promise!Init, Alive, Orderly
<1>2. IInv /\ IInv' /\ [Next]_vars => [Promise!Next]_(Promise!vars)
  <2> SUFFICES ASSUME IInv, IInv', [Next]_vars
               PROVE  [Promise!Next]_(Promise!vars)
    OBVIOUS
  <2>1. CASE UNCHANGED vars
    BY <2>1 DEF vars, Promise!vars, Alive, Orderly
  <2>2. CASE ~Orderly'
    BY <2>2, Disorderly
  <2>3. CASE Next /\ Orderly'
    <3>1. Orderly
      <4>1. cancelled \subseteq cancelled' /\ (overlap => overlap')
        BY <2>3, Monotone
      <4> QED
        BY <2>3, <4>1 DEF Orderly
    <3> QED
      BY <2>3, <3>1, AppServes, WorkerServes DEF Next
  <2> QED
    BY <2>1, <2>2, <2>3
<1> QED
  BY <1>1, <1>2, Invariance, PTL DEF Spec, ImplementsService, Promise!Spec

================================================================================
