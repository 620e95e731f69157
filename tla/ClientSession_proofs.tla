-------------------------- MODULE ClientSession_proofs -------------------------
(***************************************************************************)
(* The identity and the messages of ClientSession, and that it implements  *)
(* Dialogue, for any number of sessions, identities and messages, of an    *)
(* application that does not call start() over a live worker.              *)
(***************************************************************************)
EXTENDS ClientSession, SequenceTheorems, TLAPS

-----------------------------------------------------------------------------
(* The table of updates. *)

\* Each update touches a flag of the word.  An update of start() or stop() leads
\* to a place of the application, one of run() to the loop.
LEMMA UpdateTyped ==
  /\ \A l \in DOMAIN Update : Update[l].flag \in Flag
  /\ \A l \in AppPc \cap DOMAIN Update : Update[l].next \in AppPc
  /\ \A l \in WorkerPc \cap DOMAIN Update :
       l \in {"runningOn", "answered", "closed"} /\ Update[l].next = "loop"
<1>1. DOMAIN Update = {"startingOn", "failed", "stoppingOn", "stopping",
                       "stoppingOff", "runningOn", "answered", "closed"}
  BY DEF Update
<1>2. \A l \in DOMAIN Update : Update[l].flag \in Flag
  BY <1>1 DEF Update, Flag
<1>3. \A l \in AppPc \cap DOMAIN Update : Update[l].next \in AppPc
  BY <1>1 DEF Update, AppPc, WorkerPc
<1>4. \A l \in WorkerPc \cap DOMAIN Update :
        l \in {"runningOn", "answered", "closed"} /\ Update[l].next = "loop"
  BY <1>1 DEF Update, WorkerPc
<1> QED
  BY <1>2, <1>3, <1>4

\* The places of the application, and those of a worker.
LEMMA Places ==
  /\ AppPc = {"startingOn", "failed", "stoppingOn", "stopping", "stoppingOff", "idle",
              "connect", "spawn", "join", "joinWait", "close"}
  /\ WorkerPc = {"unborn", "runningOn", "loop", "pass", "answered", "closed", "done"}
  /\ DOMAIN Update = {"startingOn", "failed", "stoppingOn", "stopping",
                      "stoppingOff", "runningOn", "answered", "closed"}
BY DEF AppPc, WorkerPc, Update

\* What an update makes of a word of flags is a word of flags.
LEMMA UpdatedTyped ==
  ASSUME NEW l \in DOMAIN Update, NEW w \in SUBSET Flag
  PROVE  Updated(Update[l], w) \in SUBSET Flag
BY UpdateTyped DEF Updated

-----------------------------------------------------------------------------
(* Types. *)

\* addClient works on a connection that is open and that it has registered.
Registered == adding # None => adding \in serverOpen /\ given[adding] \in Id

\* A thread that moves on to a place of its own kind keeps pc typed.
LEMMA GotoTyped ==
  ASSUME TypeOK, NEW t \in Thread, NEW l, Goto(t, l),
         t = App => l \in AppPc, t \in Session => l \in WorkerPc
  PROVE  /\ pc' \in [Thread -> AppPc \cup WorkerPc]
         /\ pc'[App] \in AppPc
         /\ \A w \in Session : pc'[w] \in WorkerPc
BY SessionAssumption DEF TypeOK, Goto, Thread

\* A socket that nothing has come from keeps what is said of it typed.
LEMMA NothingTyped ==
  ASSUME TypeOK, Registered, NEW s, NothingFrom(s), adding' = adding,
         serverOpen \subseteq serverOpen'
  PROVE  /\ toClient' \in Seq(ToClient)
         /\ agreed' \in Id \cup {None} /\ inbox' \in Seq(0..MaxMessages)
         /\ active' \in BOOLEAN /\ sent' \in 0..MaxMessages /\ lost' \in BOOLEAN
         /\ given' \in [Session -> Id \cup {None}]
         /\ Registered'
<1>1. given' \in [Session -> Id \cup {None}]
  BY DEF NothingFrom, TypeOK
<1>2. Registered'
  BY DEF NothingFrom, TypeOK, Registered
<1>3. /\ toClient' = <<>> /\ inbox' = <<>> /\ agreed' = None
      /\ active' = FALSE /\ sent' = 0 /\ lost' = FALSE
  BY DEF NothingFrom
<1>4. <<>> \in Seq(ToClient) /\ <<>> \in Seq(0..MaxMessages)
  BY EmptySeq
<1>5. 0 \in 0..MaxMessages
  BY SessionAssumption
<1> QED
  BY <1>1, <1>2, <1>3, <1>4, <1>5

\* Loads and stores of the status word keep the types.
LEMMA WordTyped ==
  ASSUME TypeOK, Registered, NEW t \in Thread, Load(t) \/ Store(t)
  PROVE  TypeOK' /\ Registered'
<1>1. CASE Load(t)
  BY <1>1 DEF Load, TypeOK, Registered, threadVars, seenVars, streamVars, serverVars
<1>2. CASE Store(t)
  <2> DEFINE l == Update[pc[t]].next
  <2>1. pc[t] \in DOMAIN Update /\ reg[t] \in SUBSET Flag
    BY <1>2 DEF Store, TypeOK
  <2>2. status' \in SUBSET Flag
    BY <1>2, <2>1, UpdatedTyped DEF Store
  <2>3. (t = App => l \in AppPc) /\ (t \in Session => l \in WorkerPc)
    <3>1. t = App => l \in AppPc
      BY <2>1, UpdateTyped DEF TypeOK
    <3>2. t \in Session => l = "loop"
      BY <2>1, UpdateTyped DEF TypeOK
    <3> QED BY <3>1, <3>2 DEF WorkerPc
  <2>4. Goto(t, l)
    BY <1>2 DEF Store
  <2> HIDE DEF l
  <2>5. /\ pc' \in [Thread -> AppPc \cup WorkerPc]
        /\ pc'[App] \in AppPc
        /\ \A w \in Session : pc'[w] \in WorkerPc
    BY <2>3, <2>4, GotoTyped
  <2>6. half' \subseteq Thread /\ reg' \in [Thread -> SUBSET Flag]
    BY <1>2 DEF Store, TypeOK
  <2>7. UNCHANGED <<threadVars, sock, seenVars, streamVars, serverVars>>
    BY <1>2 DEF Store
  <2> QED
    BY <2>2, <2>5, <2>6, <2>7
    DEF TypeOK, Registered, threadVars, seenVars, streamVars, serverVars
<1> QED
  BY <1>1, <1>2

\* start(), stop() and send() keep the types.
LEMMA AppTyped ==
  ASSUME TypeOK, Registered, AppStep \/ CallStart \/ CallStop \/ ClientSends
  PROVE  TypeOK' /\ Registered'
<1> USE SessionAssumption
<1>a. App \in Thread /\ Session \subseteq Thread
  BY DEF Thread
<1>1. CASE Load(App) \/ Store(App)
  BY <1>1, <1>a, WordTyped
<1>2. CASE Connect
  <2>1. PICK s \in Session : /\ sock' = s /\ unread' = unread \cup {s}
                             /\ serverOpen' = serverOpen \cup {s} /\ NothingFrom(s)
    BY <1>2 DEF Connect, Unborn
  <2>2. Goto(App, "spawn") /\ UNCHANGED <<wordVars, threadVars, adding>>
    BY <1>2 DEF Connect
  <2>3. /\ pc' \in [Thread -> AppPc \cup WorkerPc]
        /\ pc'[App] \in AppPc
        /\ \A w \in Session : pc'[w] \in WorkerPc
    BY <2>2, <1>a, GotoTyped, Places
  <2> QED
    BY <2>1, <2>2, <2>3, NothingTyped DEF TypeOK, wordVars, threadVars
<1>3. CASE OpenFails
  <2>1. /\ NothingFrom(None) /\ sock' = None /\ Goto(App, "failed")
        /\ UNCHANGED <<wordVars, threadVars, unread, serverOpen, adding>>
    BY <1>3 DEF OpenFails
  <2>2. /\ pc' \in [Thread -> AppPc \cup WorkerPc]
        /\ pc'[App] \in AppPc
        /\ \A w \in Session : pc'[w] \in WorkerPc
    BY <2>1, <1>a, GotoTyped, Places
  <2> QED
    BY <2>1, <2>2, NothingTyped DEF TypeOK, wordVars, threadVars
<1>4. CASE Spawn
  <2>1. /\ pc' \in [Thread -> AppPc \cup WorkerPc]
        /\ pc'[App] \in AppPc
        /\ \A w \in Session : pc'[w] \in WorkerPc
    <3>1. pc' = [pc EXCEPT ![App] = "idle", ![sock] = "runningOn"]
      BY <1>4 DEF Spawn
    <3>2. {"idle", "runningOn"} \subseteq AppPc \cup WorkerPc
      BY Places
    <3>3. pc' \in [Thread -> AppPc \cup WorkerPc]
      BY <3>1, <3>2 DEF TypeOK
    <3>4. sock # App /\ App \notin Session
      BY DEF TypeOK
    <3>5. pc'[App] = "idle" /\ \A w \in Session : pc'[w] \in {pc[w], "runningOn"}
      BY <3>1, <3>4, <1>a DEF TypeOK
    <3> QED
      BY <3>3, <3>5, Places DEF TypeOK
  <2>2. cancelled' \subseteq Session /\ thread' \in Session \cup {None}
    BY <1>4 DEF Spawn, Cancel, TypeOK
  <2> QED
    BY <1>4, <2>1, <2>2
    DEF Spawn, TypeOK, Registered, wordVars, seenVars, streamVars, serverVars
<1>5. CASE Kill
  <2>1. cancelled' \subseteq Session
    BY <1>5 DEF Kill, Cancel, TypeOK
  <2> QED
    BY <1>5, <1>a, <2>1, GotoTyped, Places
    DEF Kill, TypeOK, Registered, wordVars, seenVars, streamVars, serverVars
<1>6. CASE Join
  <2>1. PICK l \in {"close", "joinWait"} : Goto(App, l)
    BY <1>6 DEF Join
  <2>2. joined' \in Session \cup {None}
    BY <1>6 DEF Join, TypeOK
  <2> QED
    BY <1>6, <1>a, <2>1, <2>2, GotoTyped, Places
    DEF Join, TypeOK, Registered, wordVars, seenVars, streamVars, serverVars
<1>7. CASE JoinWait
  BY <1>7, <1>a, GotoTyped, Places
  DEF JoinWait, TypeOK, Registered, wordVars, seenVars, streamVars, serverVars
<1>8. CASE Close
  <2>1. /\ NothingFrom(None) /\ sock' = None /\ Goto(App, "stoppingOff")
        /\ UNCHANGED <<wordVars, threadVars, unread, serverOpen, adding>>
    BY <1>8 DEF Close
  <2>2. /\ pc' \in [Thread -> AppPc \cup WorkerPc]
        /\ pc'[App] \in AppPc
        /\ \A w \in Session : pc'[w] \in WorkerPc
    BY <2>1, <1>a, GotoTyped, Places
  <2> QED
    BY <2>1, <2>2, NothingTyped DEF TypeOK, wordVars, threadVars
<1>9. CASE CallStart
  BY <1>9, <1>a, GotoTyped, Places
  DEF CallStart, TypeOK, Registered, wordVars, threadVars, seenVars, streamVars, serverVars
<1>10. CASE CallStop
  BY <1>10, <1>a, GotoTyped, Places
  DEF CallStop, TypeOK, Registered, wordVars, threadVars, seenVars, streamVars, serverVars
<1>11. CASE ClientSends
  BY <1>11 DEF ClientSends, TypeOK, Registered, wordVars, threadVars, seenVars, serverVars
<1>12. CASE ConnectFails
  <2>1. PICK s \in Session : /\ sock' = s /\ NothingFrom(s)
                             /\ serverOpen' \in {serverOpen, serverOpen \cup {s}}
                             /\ pc' = [pc EXCEPT ![App] = "failed", ![s] = "done"]
    BY <1>12 DEF ConnectFails, Unborn
  <2>2. UNCHANGED <<wordVars, threadVars, unread, adding>>
    BY <1>12 DEF ConnectFails
  <2>3. /\ pc' \in [Thread -> AppPc \cup WorkerPc]
        /\ pc'[App] \in AppPc
        /\ \A w \in Session : pc'[w] \in WorkerPc
    <3>1. {"failed", "done"} \subseteq AppPc \cup WorkerPc
      BY Places
    <3>2. pc'[App] = "failed" /\ \A w \in Session : pc'[w] \in {pc[w], "done"}
      BY <2>1, <1>a DEF TypeOK
    <3> QED
      BY <2>1, <3>1, <3>2, Places DEF TypeOK
  <2> QED
    BY <2>1, <2>2, <2>3, NothingTyped DEF TypeOK, wordVars, threadVars
<1> QED
  BY <1>1, <1>2, <1>3, <1>4, <1>5, <1>6, <1>7, <1>8, <1>9, <1>10, <1>11, <1>12 DEF AppStep

\* run() keeps the types.
LEMMA WorkerTyped ==
  ASSUME TypeOK, Registered, NEW w \in Session, WorkerStep(w)
  PROVE  TypeOK' /\ Registered'
<1> USE SessionAssumption
<1>a. w \in Thread
  BY DEF Thread
<1>1. CASE Load(w) \/ Store(w)
  BY <1>1, <1>a, WordTyped
<1>2. CASE LoopTest(w) \/ Timeout(w) \/ SelectFails(w) \/ ReceivesNothing(w)
  <2>1. PICK l \in WorkerPc : Goto(w, l)
    BY <1>2, Places DEF LoopTest, Timeout, SelectFails, ReceivesNothing
  <2>2. workerUnchanged /\ UNCHANGED <<seenVars, toClient>>
    BY <1>2 DEF LoopTest, Timeout, SelectFails, ReceivesNothing
  <2> QED
    BY <2>1, <2>2, <1>a, GotoTyped
    DEF TypeOK, Registered, workerUnchanged, wordVars, threadVars, seenVars, serverVars
<1>3. CASE Cancelled(w)
  BY <1>3, <1>a, GotoTyped, Places
  DEF Cancelled, TypeOK, Registered, threadVars, seenVars, streamVars, serverVars
<1>4. CASE TakesMessage(w)
  <2>1. toClient \in Seq(ToClient) /\ toClient # <<>> /\ toClient' = Tail(toClient)
    BY <1>4 DEF TakesMessage, Receive, TypeOK
  <2>2. Head(toClient) \in ToClient /\ toClient' \in Seq(ToClient)
    BY <2>1, HeadTailProperties
  <2>3. inbox' \in Seq(0..MaxMessages)
    <3> DEFINE m == IF Head(toClient)[1] = "answer" THEN 0 ELSE Head(toClient)[2]
    <3>1. m \in 0..MaxMessages
      BY <2>2 DEF ToClient
    <3>2. inbox' = Append(inbox, m) /\ inbox \in Seq(0..MaxMessages)
      BY <1>4 DEF TakesMessage, TypeOK
    <3> HIDE DEF m
    <3> QED BY <3>1, <3>2, AppendProperties
  <2>4. /\ pc' \in [Thread -> AppPc \cup WorkerPc]
        /\ pc'[App] \in AppPc
        /\ \A v \in Session : pc'[v] \in WorkerPc
    BY <1>4, <1>a, GotoTyped, Places DEF TakesMessage
  <2> QED
    BY <1>4, <2>2, <2>3, <2>4
    DEF TakesMessage, Receive, workerUnchanged, TypeOK, Registered, wordVars, threadVars,
        serverVars
<1>5. ASSUME NEW i \in Id, TakesAnswer(w, i)
      PROVE  TypeOK' /\ Registered'
  <2>1. toClient \in Seq(ToClient) /\ toClient # <<>> /\ toClient' = Tail(toClient)
    BY <1>5 DEF TakesAnswer, Receive, TypeOK
  <2>2. toClient' \in Seq(ToClient)
    BY <2>1, HeadTailProperties
  <2>3. /\ pc' \in [Thread -> AppPc \cup WorkerPc]
        /\ pc'[App] \in AppPc
        /\ \A v \in Session : pc'[v] \in WorkerPc
    BY <1>5, <1>a, GotoTyped, Places DEF TakesAnswer
  <2> QED
    BY <1>5, <2>2, <2>3
    DEF TakesAnswer, Receive, workerUnchanged, TypeOK, Registered, wordVars, threadVars,
        serverVars
<1> QED
  BY <1>1, <1>2, <1>3, <1>4, <1>5 DEF WorkerStep

\* The server keeps the types.
LEMMA ServerTyped ==
  ASSUME TypeOK, Registered,
         \/ ServerStep \/ Activate \/ Broadcast
         \/ \E s \in Session : ServerCloses(s)
  PROVE  TypeOK' /\ Registered'
<1> USE SessionAssumption DEF clientUnchanged
<1>1. ASSUME NEW s \in Session, Answer(s)
      PROVE  TypeOK' /\ Registered'
  <2>1. <<"answer", given[s]>> \in ToClient
    BY <1>1 DEF Answer, Registered, ToClient
  <2>2. toClient' \in {toClient, Append(toClient, <<"answer", given[s]>>)}
    BY <1>1 DEF Answer, Reply, ReplyFails
  <2>a. toClient \in Seq(ToClient)
    BY DEF TypeOK
  <2>b. Append(toClient, <<"answer", given[s]>>) \in Seq(ToClient)
    BY <2>1, <2>a, AppendProperties
  <2>3. toClient' \in Seq(ToClient)
    BY <2>2, <2>a, <2>b
  <2>4. lost' \in BOOLEAN
    BY <1>1 DEF Answer, ReplyFails, TypeOK
  <2> QED
    BY <1>1, <2>3, <2>4 DEF Answer, TypeOK, Registered, wordVars, threadVars, seenVars
<1>2. ASSUME NEW s \in Session, TakesClientMessage(s)
      PROVE  TypeOK' /\ Registered'
  BY <1>2 DEF TakesClientMessage, TypeOK, Registered, wordVars, threadVars, seenVars, serverVars
<1>3. ASSUME NEW s \in Session, NEW i \in Id, Register(s, i)
      PROVE  TypeOK' /\ Registered'
  BY <1>3 DEF Register, TakesHello, TypeOK, Registered, wordVars, threadVars, seenVars
<1>4. ASSUME NEW s \in Session, NEW i \in Id, Refuse(s, i)
      PROVE  TypeOK' /\ Registered'
  BY <1>4 DEF Refuse, TakesHello, TypeOK, Registered, wordVars, threadVars, seenVars
<1>5. CASE Activate
  BY <1>5 DEF Activate, TypeOK, Registered, wordVars, threadVars, seenVars, streamVars
<1>6. CASE Broadcast
  <2>1. sent' \in 1..MaxMessages
    BY <1>6 DEF Broadcast, TypeOK
  <2>2. <<"message", sent'>> \in ToClient
    BY <2>1 DEF ToClient
  <2>3. toClient' \in Seq(ToClient)
    BY <1>6, <2>2, AppendProperties DEF Broadcast, TypeOK
  <2> QED
    BY <1>6, <2>1, <2>3 DEF Broadcast, TypeOK, Registered, wordVars, threadVars, seenVars
<1>7. ASSUME NEW s \in Session, ServerCloses(s)
      PROVE  TypeOK' /\ Registered'
  <2>1. toClient' \in Seq(ToClient)
    <3>1. toClient' = toClient \/ toClient' = <<>>
      BY <1>7 DEF ServerCloses
    <3>2. toClient \in Seq(ToClient) /\ <<>> \in Seq(ToClient)
      BY EmptySeq DEF TypeOK
    <3> QED
      BY <3>1, <3>2
  <2>2. given' \in [Session -> Id \cup {None}]
    BY <1>7 DEF ServerCloses, TypeOK
  <2>3. Registered'
    BY <1>7 DEF ServerCloses, Registered, TypeOK
  <2> QED
    BY <1>7, <2>1, <2>2, <2>3 DEF ServerCloses, TypeOK, wordVars, threadVars, seenVars
<1> QED
  BY <1>1, <1>2, <1>3, <1>4, <1>5, <1>6, <1>7 DEF ServerStep

\* The initial states are typed.
LEMMA InitTyped == Init => TypeOK /\ Registered
<1> SUFFICES ASSUME Init
             PROVE  TypeOK /\ Registered
  OBVIOUS
<1>1. <<>> \in Seq(ToClient) /\ <<>> \in Seq(0..MaxMessages)
  BY EmptySeq
<1>2. /\ pc \in [Thread -> AppPc \cup WorkerPc]
      /\ pc[App] \in AppPc /\ \A w \in Session : pc[w] \in WorkerPc
  BY SessionAssumption, Places DEF Init, Thread
<1>3. 0 \in 0..MaxMessages
  BY SessionAssumption
<1> QED
  BY <1>1, <1>2, <1>3 DEF Init, TypeOK, Registered

\* Every step keeps the types, and one that is none keeps everything.
LEMMA StepTyped == TypeOK /\ Registered /\ [Next]_vars => TypeOK' /\ Registered'
<1> SUFFICES ASSUME TypeOK, Registered, [Next]_vars
             PROVE  TypeOK' /\ Registered'
  OBVIOUS
<1>1. CASE UNCHANGED vars
  BY <1>1
  DEF TypeOK, Registered, vars, wordVars, threadVars, seenVars, streamVars, serverVars
<1>2. CASE Next
  BY <1>2, AppTyped, WorkerTyped, ServerTyped DEF Next, Calls
<1> QED
  BY <1>1, <1>2

\* The variables keep their types (Client.cpp, Server.cpp): each thread is at a
\* place of its own code, and what is on its way to the client is an answer
\* with an identity, or one of the messages.
THEOREM Typing == Spec => []TypeOK
<1>1. Init => TypeOK /\ Registered
  BY InitTyped
<1>2. TypeOK /\ Registered /\ [Next]_vars => (TypeOK /\ Registered)'
  BY StepTyped
<1> QED
  BY <1>1, <1>2, PTL DEF Spec

-----------------------------------------------------------------------------
(* The inductive invariant. *)

\* What start() finds and leaves: no worker lives while it runs, STARTING is set
\* when it creates one, a socket that it gives up will have no worker, and stop()
\* leaves no socket.
StartsAlone ==
  /\ pc[App] \in {"startingOn", "connect", "failed", "spawn"} =>
       \A w \in Session : ~Alive(w)
  /\ pc[App] \in {"connect", "spawn"} => "STARTING" \in status
  /\ pc[App] = "spawn" => sock \in Session /\ pc[sock] = "unborn" /\ agreed = None
  /\ pc[App] = "failed" => sock = None \/ pc[sock] = "done"
  /\ pc[App] = "stoppingOff" => sock = None
  /\ \A t \in half : pc[t] \in DOMAIN Update

\* The server knows nothing of a session to come.
Fresh ==
  \A s \in Session :
    pc[s] = "unborn" /\ ~(pc[App] = "spawn" /\ s = sock) =>
      s \notin serverOpen /\ adding # s /\ sock # s

\* Nobody but the worker of `sock' lives.  STARTING is set until it has taken
\* an answer, and from then on neither in the word nor in what it has loaded.
OneWorker ==
  /\ \A w \in Session \ {sock} : ~Alive(w)
  /\ agreed = None /\ pc[sock] # "done" =>
       /\ "STARTING" \in status
       /\ sock \in half => "STARTING" \in reg[sock]
       /\ pc[sock] # "answered"
  /\ agreed # None /\ Alive(sock) /\ pc[sock] # "answered" =>
       /\ "STARTING" \notin status
       /\ sock \in half => "STARTING" \notin reg[sock]
       /\ pc[sock] # "runningOn"

\* The server has not answered `sock'.
Silent == given[sock] = None \/ adding = sock

\* The stream to `sock' is cut off: nothing is in it, and nothing will be.
CutOff == toClient = <<>> /\ sock \notin serverOpen

\* The stream holds the answer, if it was sent and has not been taken, and then
\* the messages that are neither in the inbox nor eaten, in their order.
Stream ==
  /\ Silent => toClient = <<>> /\ agreed = None /\ ~active /\ sent = 0 /\ ~lost
  /\ agreed \in {None, given[sock]} \/ (lost /\ sent > 0)
  /\ agreed = None => inbox = <<>>
  /\ \A k \in 1..Len(inbox) : inbox[k] = k + Eaten
  /\ ~Silent /\ agreed = None /\ ~lost => CutOff \/
       /\ Len(toClient) = sent + 1
       /\ toClient[1] = <<"answer", given[sock]>>
       /\ \A k \in 2..Len(toClient) : toClient[k] = <<"message", k - 1>>
  /\ ~Silent /\ agreed = None /\ lost => CutOff \/
       /\ Len(toClient) = sent
       /\ \A k \in 1..Len(toClient) : toClient[k] = <<"message", k>>
  /\ agreed # None => CutOff \/
       /\ Len(inbox) + Eaten + Len(toClient) = sent
       /\ \A k \in 1..Len(toClient) : toClient[k] = <<"message", Len(inbox) + Eaten + k>>

\* What holds of a session while it lasts.
Proper == InSession => OneWorker /\ Stream

\* An application may stop and start again at any moment, so what is true of
\* one session rests on what the sessions before it leave behind.
IInv == TypeOK /\ Registered /\ StartsAlone /\ Fresh /\ Proper

-----------------------------------------------------------------------------
(* The initial states. *)

LEMMA InitInv == Init => IInv
<1> SUFFICES ASSUME Init
             PROVE  IInv
  OBVIOUS
<1>1. pc[App] = "idle" /\ \A w \in Session : pc[w] = "unborn"
  BY SessionAssumption DEF Init, Thread
<1>2. StartsAlone
  BY <1>1 DEF Init, StartsAlone
<1>3. Fresh
  BY <1>1, SessionAssumption DEF Init, Fresh
<1>4. Proper
  BY DEF Init, Proper, InSession
<1> QED
  BY <1>2, <1>3, <1>4, InitTyped DEF IInv

-----------------------------------------------------------------------------
(* The server. *)

\* What the server does leaves the client as it is, and it opens no connection:
\* what is left to show is the stream.
LEMMA ServerAside ==
  ASSUME IInv, clientUnchanged, serverOpen' \subseteq serverOpen,
         adding' = adding \/ adding' = None \/ adding' \in serverOpen
  PROVE  /\ StartsAlone' /\ Fresh'
         /\ InSession' = InSession
         /\ OneWorker => OneWorker'
<1> USE SessionAssumption
    DEF clientUnchanged, IInv, wordVars, threadVars, seenVars, Alive
<1>1. StartsAlone'
  BY DEF StartsAlone
<1>2. Fresh'
  BY DEF Fresh
<1>3. InSession' = InSession
  BY DEF InSession
<1>4. OneWorker => OneWorker'
  BY DEF OneWorker
<1> QED
  BY <1>1, <1>2, <1>3, <1>4

\* The answer is the first frame of its stream, or it is lost.
LEMMA AnswerKeeps ==
  ASSUME IInv, NEW s \in Session, Answer(s), InSession, Stream
  PROVE  Stream'
<1> USE DEF Answer, clientUnchanged, wordVars, threadVars, seenVars
<1>1. TypeOK /\ Registered
  BY DEF IInv
<1>2. CASE s # sock
  <2>1. UNCHANGED <<toClient, given, active, sent, serverOpen, agreed, inbox, sock>>
    BY <1>2 DEF Reply, ReplyFails
  <2>2. lost' = lost
    BY <1>1, <1>2 DEF ReplyFails, TypeOK
  <2>3. Silent' = Silent
    BY <1>2, <2>1 DEF Silent, InSession
  <2> QED
    BY <2>1, <2>2, <2>3 DEF Stream, CutOff, Eaten
<1>3. CASE s = sock
  <2>1. Silent /\ ~Silent'
    BY <1>1, <1>3, SessionAssumption DEF Silent, Registered, TypeOK
  <2>2. toClient = <<>> /\ agreed = None /\ ~active /\ sent = 0 /\ inbox = <<>> /\ ~lost
    BY <2>1 DEF Stream
  <2>3. Len(inbox) = 0 /\ Len(toClient) = 0
    BY <2>2
  <2>4. CASE Reply(s, given[s]) /\ UNCHANGED lost
    <3>1. toClient' = <<<<"answer", given[sock]>>>>
      BY <1>3, <2>2, <2>4 DEF Reply
    <3>2. /\ Len(toClient') = sent' + 1
          /\ toClient'[1] = <<"answer", given'[sock]>>
          /\ \A k \in 2..Len(toClient') : toClient'[k] = <<"message", k - 1>>
      BY <2>2, <3>1
    <3> QED
      BY <2>1, <2>2, <2>3, <2>4, <3>2 DEF Stream
  <2>5. CASE ReplyFails(s)
    <3>1. toClient' = <<>> /\ lost'
      BY <1>3, <2>2, <2>5 DEF ReplyFails
    <3> QED
      BY <2>1, <2>2, <2>3, <3>1 DEF Stream
  <2> QED
    BY <2>4, <2>5
<1> QED
  BY <1>2, <1>3

\* Nothing is answered by registering a connection.
LEMMA RegisterKeeps ==
  ASSUME IInv, NEW s \in Session, NEW i \in Id, Register(s, i) \/ Refuse(s, i),
         InSession, Stream
  PROVE  Stream'
<1> USE DEF Register, Refuse, TakesHello, clientUnchanged, seenVars
<1>1. TypeOK
  BY DEF IInv
<1>2. CASE Refuse(s, i)
  BY <1>2 DEF Stream, Silent, CutOff, Eaten
<1>3. CASE Register(s, i) /\ s = sock
  <2>1. Silent /\ Silent'
    BY <1>3 DEF Silent
  <2> QED
    BY <1>3, <2>1 DEF Stream
<1>4. CASE Register(s, i) /\ s # sock
  <2>1. given'[sock] = given[sock] /\ Silent' = Silent
    BY <1>1, <1>4, SessionAssumption DEF Silent, TypeOK, InSession
  <2> QED
    BY <1>4, <2>1 DEF Stream, CutOff, Eaten
<1> QED
  BY <1>2, <1>3, <1>4

\* A message is the last of its stream, and its number the next one.
LEMMA BroadcastKeeps ==
  ASSUME IInv, Broadcast, Stream
  PROVE  Stream'
<1> USE DEF Broadcast, clientUnchanged, seenVars
<1>1. /\ toClient \in Seq(ToClient) /\ inbox \in Seq(0..MaxMessages)
      /\ sent \in Nat /\ Len(toClient) \in Nat /\ Len(inbox) \in Nat
  <2>1. toClient \in Seq(ToClient) /\ inbox \in Seq(0..MaxMessages) /\ sent \in Nat
    BY SessionAssumption DEF IInv, TypeOK
  <2> QED
    BY <2>1, LenProperties
<1>2. ~Silent /\ ~Silent' /\ ~CutOff
  BY DEF Stream, Silent, CutOff, Eaten
<1>3. /\ Len(toClient') = Len(toClient) + 1
      /\ \A k \in 1..Len(toClient) : toClient'[k] = toClient[k]
      /\ toClient'[Len(toClient) + 1] = <<"message", sent + 1>>
  BY <1>1
<1>4. CASE agreed = None /\ ~lost
  <2>1. /\ Len(toClient) = sent + 1
        /\ toClient[1] = <<"answer", given[sock]>>
        /\ \A k \in 2..Len(toClient) : toClient[k] = <<"message", k - 1>>
    BY <1>2, <1>4 DEF Stream
  <2>2. /\ Len(toClient') = sent' + 1
        /\ toClient'[1] = <<"answer", given'[sock]>>
    BY <1>1, <1>3, <2>1
  <2>3. \A k \in 2..Len(toClient') : toClient'[k] = <<"message", k - 1>>
    BY <1>1, <1>3, <2>1
  <2> QED
    BY <1>2, <1>4, <2>2, <2>3 DEF Stream, Eaten
<1>5. CASE agreed = None /\ lost
  <2>1. /\ Len(toClient) = sent
        /\ \A k \in 1..Len(toClient) : toClient[k] = <<"message", k>>
    BY <1>2, <1>5 DEF Stream
  <2>2. /\ Len(toClient') = sent'
        /\ \A k \in 1..Len(toClient') : toClient'[k] = <<"message", k>>
    BY <1>1, <1>3, <2>1
  <2> QED
    BY <1>2, <1>5, <2>2 DEF Stream, Eaten
<1>6. CASE agreed # None
  <2>1. /\ Len(inbox) + Eaten + Len(toClient) = sent
        /\ \A k \in 1..Len(toClient) : toClient[k] = <<"message", Len(inbox) + Eaten + k>>
    BY <1>2, <1>6 DEF Stream
  <2>2. Eaten' = Eaten /\ Eaten \in 0..1
    BY DEF Eaten
  <2>3. /\ Len(inbox) + Eaten + Len(toClient') = sent'
        /\ \A k \in 1..Len(toClient') : toClient'[k] = <<"message", Len(inbox) + Eaten + k>>
    <3>1. Len(inbox) + Eaten + Len(toClient') = sent'
      BY <1>1, <1>3, <2>1, <2>2
    <3>2. ASSUME NEW k \in 1..Len(toClient')
          PROVE  toClient'[k] = <<"message", Len(inbox) + Eaten + k>>
      <4>1. CASE k \in 1..Len(toClient)
        BY <1>3, <2>1, <4>1
      <4>2. CASE k = Len(toClient) + 1
        <5>1. Len(inbox) + Eaten + k = sent + 1
          BY <1>1, <2>1, <2>2, <4>2
        <5> QED
          BY <1>3, <4>2, <5>1
      <4> QED
        BY <1>1, <1>3, <4>1, <4>2
    <3> QED
      BY <3>1, <3>2
  <2>4. agreed' \in {None, given'[sock']} \/ (lost' /\ sent' > 0)
    BY <1>1, <1>2 DEF Stream
  <2>5. \A k \in 1..Len(inbox') : inbox'[k] = k + Eaten'
    BY <2>2 DEF Stream
  <2> QED
    BY <1>2, <1>6, <2>2, <2>3, <2>4, <2>5 DEF Stream
<1> QED
  BY <1>4, <1>5, <1>6

\* A connection that the server closes keeps its stream, or loses all of it.
LEMMA ClosesKeeps ==
  ASSUME IInv, NEW s \in Session, ServerCloses(s), Stream
  PROVE  Stream'
<1> USE DEF ServerCloses, clientUnchanged, seenVars
<1>1. TypeOK
  BY DEF IInv
<1>2. given'[sock] = given[sock]
  BY <1>1 DEF TypeOK
<1>3. Silent' = Silent /\ Eaten' = Eaten
  BY <1>2 DEF Silent, Eaten
<1>4. CASE UNCHANGED toClient
  <2>1. CutOff => CutOff'
    BY <1>4 DEF CutOff
  <2> QED
    BY <1>2, <1>3, <1>4, <2>1 DEF Stream
<1>5. CASE s = sock /\ toClient' = <<>>
  <2>1. CutOff'
    BY <1>5 DEF CutOff
  <2> QED
    BY <1>2, <1>3, <1>5, <2>1 DEF Stream
<1> QED
  BY <1>4, <1>5

\* Whatever the server does, the client's session stays as it should be.
LEMMA ServerKeeps ==
  ASSUME IInv,
         \/ ServerStep \/ Activate \/ Broadcast
         \/ \E s \in Session : ServerCloses(s)
  PROVE  IInv'
<1>1. TypeOK' /\ Registered'
  BY ServerTyped DEF IInv
<1>2. /\ clientUnchanged /\ serverOpen' \subseteq serverOpen
      /\ adding' = adding \/ adding' = None \/ adding' \in serverOpen
  BY DEF ServerStep, Answer, TakesClientMessage, Register, Refuse, TakesHello, Activate,
         Broadcast, ServerCloses, serverVars
<1>3. /\ StartsAlone' /\ Fresh'
      /\ InSession' = InSession
      /\ OneWorker => OneWorker'
  BY <1>2, ServerAside
<1>4. InSession /\ Stream => Stream'
  <2> SUFFICES ASSUME InSession, Stream
               PROVE  Stream'
    OBVIOUS
  <2>1. ASSUME NEW s \in Session, TakesClientMessage(s)
        PROVE  Stream'
    BY <2>1 DEF TakesClientMessage, clientUnchanged, serverVars, seenVars, Stream, Silent, CutOff, Eaten
  <2>2. CASE Activate
    <3>1. ~Silent /\ ~Silent'
      BY <2>2 DEF Activate, clientUnchanged, Silent
    <3> QED
      BY <2>2, <3>1 DEF Activate, clientUnchanged, streamVars, seenVars, Stream, CutOff, Eaten
  <2> QED
    BY <2>1, <2>2, AnswerKeeps, RegisterKeeps, BroadcastKeeps, ClosesKeeps DEF ServerStep
<1> QED
  BY <1>1, <1>3, <1>4 DEF IInv, Proper

-----------------------------------------------------------------------------
(* The client's worker. *)

\* A worker that makes a step is alive.
LEMMA WorkerIsAlive ==
  ASSUME IInv, NEW w \in Session, WorkerStep(w)
  PROVE  Alive(w)
<1>1. CASE Load(w) \/ Store(w)
  BY <1>1, Places DEF Load, Store, Alive
<1>2. CASE ~(Load(w) \/ Store(w))
  BY <1>2 DEF WorkerStep, LoopTest, Timeout, SelectFails, ReceivesNothing, Cancelled,
              TakesMessage, TakesAnswer, Receive, Alive
<1> QED
  BY <1>1, <1>2

\* A step of a worker in a session is one of the session's worker, which start()
\* has created.
LEMMA WorkerOfSession ==
  ASSUME IInv, NEW w \in Session, Alive(w), InSession
  PROVE  w = sock /\ pc[App] = "idle"
<1>1. OneWorker
  BY DEF IInv, Proper
<1>2. w = sock
  BY <1>1 DEF OneWorker
<1>3. pc[App] \notin {"spawn", "failed"}
  BY DEF IInv, StartsAlone
<1> QED
  BY <1>2, <1>3 DEF InSession

\* A worker does not touch the socket or the server's tables, and it is never
\* unborn again: what is left to show is its own session.
LEMMA WorkerAside ==
  ASSUME IInv, NEW w \in Session, Alive(w), NEW l \in WorkerPc \ {"unborn"},
         Goto(w, l), UNCHANGED <<sock, serverOpen, adding>>,
         half' \subseteq half, w \in half' => l \in DOMAIN Update
  PROVE  /\ StartsAlone' /\ Fresh' /\ InSession' = InSession
         /\ pc'[w] = l /\ \A t \in Thread \ {w} : pc'[t] = pc[t]
<1> USE SessionAssumption
<1>1. pc'[w] = l /\ \A t \in Thread \ {w} : pc'[t] = pc[t]
  BY DEF Goto, IInv, TypeOK, Thread
<1>2. App \in Thread \ {w} /\ Session \subseteq Thread
  BY DEF Thread
<1>3. pc'[App] = pc[App]
  BY <1>1, <1>2
<1>4. pc[App] \notin {"startingOn", "connect", "failed", "spawn"}
  BY DEF IInv, StartsAlone
<1>5. \A t \in half' : pc'[t] \in DOMAIN Update
  BY <1>1 DEF IInv, StartsAlone, TypeOK
<1>6. StartsAlone'
  BY <1>3, <1>4, <1>5 DEF IInv, StartsAlone
<1>7. Fresh'
  BY <1>1, <1>2, <1>3 DEF IInv, Fresh, Alive
<1>8. InSession' = InSession
  BY <1>3 DEF InSession
<1> QED
  BY <1>1, <1>6, <1>7, <1>8

\* setRunning(true), setStarting(false) and setRunning(false) of run(): a stale
\* word still says STARTING as long as the client has no identity.
LEMMA WorkerWordKeeps ==
  ASSUME IInv, NEW w \in Session, Load(w) \/ Store(w)
  PROVE  StartsAlone' /\ Fresh' /\ Proper'
<1> USE SessionAssumption
<1>1. TypeOK /\ w \in Thread /\ App # w
  BY DEF IInv, Thread
<1>2. pc[w] \in DOMAIN Update /\ Alive(w) /\ pc[w] \in {"runningOn", "answered", "closed"}
  BY <1>1, Places DEF Load, Store, Alive, TypeOK
<1>3. pc[App] \notin {"startingOn", "connect", "failed", "spawn"}
  BY <1>2 DEF IInv, StartsAlone
<1>4. CASE Load(w)
  <2> USE DEF Load, threadVars, seenVars, streamVars, serverVars
  <2>1. StartsAlone'
    BY <1>2, <1>3, <1>4 DEF IInv, StartsAlone
  <2>2. Fresh'
    BY <1>4 DEF IInv, Fresh
  <2>3. ASSUME InSession' PROVE OneWorker' /\ Stream'
    <3>1. InSession /\ w = sock /\ OneWorker /\ Stream
      BY <1>2, <1>4, <2>3, WorkerOfSession DEF InSession, IInv, Proper
    <3>2. reg'[sock] = status
      BY <1>1, <1>4, <3>1 DEF TypeOK
    <3>3. OneWorker'
      BY <1>4, <3>1, <3>2 DEF OneWorker, Alive
    <3>4. Stream'
      BY <1>4, <3>1 DEF Stream, Silent, CutOff, Eaten
    <3> QED BY <3>3, <3>4
  <2> QED
    BY <2>1, <2>2, <2>3 DEF Proper
<1>5. CASE Store(w)
  <2>1. /\ Goto(w, "loop") /\ half' = half \ {w}
        /\ UNCHANGED <<threadVars, sock, seenVars, streamVars, serverVars>>
    BY <1>1, <1>2, <1>5, UpdateTyped DEF Store, TypeOK
  <2>2. /\ StartsAlone' /\ Fresh' /\ InSession' = InSession
        /\ pc'[w] = "loop" /\ \A t \in Thread \ {w} : pc'[t] = pc[t]
    BY <1>2, <2>1, Places, WorkerAside DEF serverVars
  <2>3. ASSUME InSession PROVE OneWorker' /\ Stream'
    <3>1. w = sock /\ OneWorker /\ Stream /\ sock \in half
      BY <1>2, <1>5, <2>3, WorkerOfSession DEF IInv, Proper, Store
    <3>2. Stream'
      BY <2>1, <3>1 DEF Stream, Silent, CutOff, Eaten, seenVars, streamVars, serverVars
    <3>3. \A v \in Session \ {sock'} : ~Alive(v)'
      BY <2>1, <2>2, <3>1 DEF OneWorker, Alive, Thread
    <3>4. ASSUME agreed = None PROVE "STARTING" \in status'
      <4>1. "STARTING" \in reg[w] /\ pc[w] \in {"runningOn", "closed"}
        BY <1>2, <3>1, <3>4 DEF OneWorker
      <4>2. \/ Update[pc[w]].flag = "RUNNING"
        BY <4>1 DEF Update
      <4> QED
        BY <1>5, <4>1, <4>2 DEF Store, Updated
    <3>5. ASSUME agreed # None PROVE "STARTING" \notin status'
      <4>1. CASE pc[w] = "answered"
        <5>1. status' = reg[w] \ {"STARTING"}
          BY <1>5, <4>1 DEF Store, Updated, Update
        <5> QED BY <5>1
      <4>2. CASE pc[w] = "closed"
        <5>1. "STARTING" \notin reg[w]
          BY <1>2, <3>1, <3>5, <4>2 DEF OneWorker
        <5>2. status' = reg[w] \ {"RUNNING"}
          BY <1>5, <4>2 DEF Store, Updated, Update
        <5> QED BY <5>1, <5>2
      <4>3. pc[w] # "runningOn"
        BY <1>2, <3>1, <3>5 DEF OneWorker
      <4> QED BY <1>2, <4>1, <4>2, <4>3
    <3>6. OneWorker'
      BY <2>1, <2>2, <3>1, <3>3, <3>4, <3>5 DEF OneWorker, seenVars
    <3> QED BY <3>2, <3>6
  <2> QED
    BY <2>2, <2>3 DEF Proper
<1> QED
  BY <1>4, <1>5

\* A pass that takes nothing from the stream: the loop's test, a timeout, a
\* failing select(), the end of the stream, and a cancelled worker.
LEMMA PassKeeps ==
  ASSUME IInv, NEW w \in Session,
         \/ LoopTest(w) \/ Timeout(w) \/ SelectFails(w)
         \/ ReceivesNothing(w) \/ Cancelled(w)
  PROVE  StartsAlone' /\ Fresh' /\ Proper'
<1> USE SessionAssumption
<1>1. Alive(w)
  BY WorkerIsAlive DEF WorkerStep
<1>2. PICK l \in {"loop", "pass", "closed", "done"} : Goto(w, l)
  BY DEF LoopTest, Timeout, SelectFails, ReceivesNothing, Cancelled
<1>3. /\ UNCHANGED <<status, sock, seenVars, streamVars, serverVars>>
      /\ w \notin half'
      /\ half' \subseteq half /\ \A t \in Thread \ {w} : reg'[t] = reg[t]
  <2>1. CASE Cancelled(w)
    BY <2>1 DEF Cancelled, IInv, TypeOK
  <2>2. CASE ~Cancelled(w)
    <3>1. pc[w] \in {"loop", "pass"} /\ workerUnchanged /\ UNCHANGED <<seenVars, toClient>>
      BY <2>2 DEF LoopTest, Timeout, SelectFails, ReceivesNothing
    <3>2. w \notin half
      BY <3>1, Places DEF IInv, StartsAlone
    <3> QED
      BY <3>1, <3>2 DEF workerUnchanged, wordVars, streamVars
  <2> QED
    BY <2>1, <2>2
<1>4. /\ StartsAlone' /\ Fresh' /\ InSession' = InSession
      /\ pc'[w] = l /\ \A t \in Thread \ {w} : pc'[t] = pc[t]
  BY <1>1, <1>2, <1>3, Places, WorkerAside DEF serverVars
<1>5. ASSUME InSession PROVE OneWorker' /\ Stream'
  <2>1. w = sock /\ OneWorker /\ Stream
    BY <1>1, <1>5, WorkerOfSession DEF IInv, Proper
  <2>2. \A v \in Session \ {sock'} : ~Alive(v)'
    BY <1>3, <1>4, <2>1 DEF OneWorker, Alive, Thread
  <2>3. agreed # None /\ Alive(sock)' => "STARTING" \notin status \/ pc[sock] = "answered"
    BY <1>1, <2>1 DEF OneWorker
  <2>4. pc[sock] = "answered" => pc'[sock] = "done"
    <3>1. pc[w] = "answered" => Cancelled(w)
      BY DEF LoopTest, Timeout, SelectFails, ReceivesNothing
    <3>2. Cancelled(w) => pc'[w] = "done"
      BY DEF Cancelled, Goto, IInv, TypeOK, Thread
    <3> QED BY <2>1, <3>1, <3>2
  <2>a. sock' = sock /\ status' = status /\ agreed' = agreed /\ sock' \notin half'
    BY <1>3, <2>1 DEF seenVars
  <2>b. pc'[sock] \in {"loop", "pass", "closed", "done"}
    BY <1>2, <1>4, <2>1
  <2>c. agreed = None => "STARTING" \in status
    BY <1>1, <2>1 DEF OneWorker, Alive
  <2>5. OneWorker'
    BY <2>2, <2>3, <2>4, <2>a, <2>b, <2>c DEF OneWorker, Alive
  <2>6. Stream'
    BY <1>3, <2>1 DEF Stream, Silent, CutOff, Eaten, seenVars, streamVars, serverVars
  <2> QED BY <2>5, <2>6
<1> QED
  BY <1>4, <1>5 DEF Proper

\* What the stream loses when the worker takes its first frame.
LEMMA TailOfStream ==
  ASSUME IInv, NEW w \in Session, Receive(w)
  PROVE  /\ toClient \in Seq(ToClient) /\ inbox \in Seq(0..MaxMessages)
         /\ Len(toClient) \in Nat \ {0} /\ Len(inbox) \in Nat /\ sent \in Nat
         /\ Head(toClient) = toClient[1]
         /\ Len(toClient') = Len(toClient) - 1
         /\ \A k \in 1..Len(toClient') : toClient'[k] = toClient[k + 1]
<1>1. /\ toClient \in Seq(ToClient) /\ toClient # <<>> /\ toClient' = Tail(toClient)
      /\ inbox \in Seq(0..MaxMessages) /\ sent \in Nat
  BY SessionAssumption DEF IInv, TypeOK, Receive
<1>2. /\ Len(toClient) \in Nat \ {0} /\ Len(inbox) \in Nat
  BY <1>1, LenProperties, EmptySeq
<1>3. Head(toClient) = toClient[1] /\ Len(toClient') = Len(toClient) - 1
  BY <1>1, HeadTailProperties
<1>4. \A k \in 1..Len(toClient') : toClient'[k] = toClient[k + 1]
  BY <1>1, <1>2, <1>3
<1> QED
  BY <1>1, <1>2, <1>3, <1>4

\* The worker that takes a frame while STARTING has no identity yet, and the
\* frame is the server's answer or, if that is lost, the first message.
LEMMA FirstIsIdentity ==
  ASSUME IInv, InSession, NEW w \in Session, NEW i \in Id, TakesAnswer(w, i)
  PROVE  /\ w = sock /\ agreed = None /\ inbox = <<>> /\ ~Silent
         /\ Len(toClient) + Eaten = sent + 1
         /\ ~lost => i = given[sock]
         /\ lost => sent > 0
         /\ \A k \in 2..Len(toClient) : toClient[k] = <<"message", k - 1 + Eaten>>
<1>1. /\ pc[w] = "pass" /\ "STARTING" \in status /\ Receive(w)
      /\ Head(toClient)[1] = "answer" => i = Head(toClient)[2]
  BY DEF TakesAnswer, Receive
<1>2. w = sock /\ OneWorker /\ Stream /\ Alive(w)
  BY <1>1, WorkerOfSession DEF Alive, IInv, Proper
<1>3. agreed = None /\ inbox = <<>>
  BY <1>1, <1>2 DEF OneWorker, Stream
<1>4. ~Silent /\ ~CutOff /\ toClient # <<>>
  BY <1>1, <1>2 DEF Receive, Stream, CutOff
<1>5. CASE ~lost
  <2>1. /\ Len(toClient) = sent + 1
        /\ toClient[1] = <<"answer", given[sock]>>
        /\ \A k \in 2..Len(toClient) : toClient[k] = <<"message", k - 1>>
    BY <1>2, <1>3, <1>4, <1>5 DEF Stream
  <2>2. i = given[sock]
    BY <1>1, <2>1, TailOfStream
  <2> QED
    BY <1>1, <1>2, <1>3, <1>4, <1>5, <2>1, <2>2, TailOfStream DEF Eaten
<1>6. CASE lost
  <2>1. /\ Len(toClient) = sent
        /\ \A k \in 1..Len(toClient) : toClient[k] = <<"message", k>>
    BY <1>2, <1>3, <1>4, <1>6 DEF Stream
  <2>2. Len(toClient) > 0
    BY <1>1, TailOfStream
  <2>3. \A k \in 2..Len(toClient) : toClient[k] = <<"message", (k - 1) + 1>>
    BY <2>1
  <2> QED
    BY <1>1, <1>2, <1>3, <1>4, <1>6, <2>1, <2>2, <2>3, TailOfStream DEF Eaten
<1> QED
  BY <1>5, <1>6

\* The worker that takes a frame when STARTING is clear has its identity, and
\* the frame is the next message.
LEMMA FirstIsMessage ==
  ASSUME IInv, InSession, NEW w \in Session, TakesMessage(w)
  PROVE  /\ w = sock /\ agreed # None /\ ~Silent
         /\ Len(inbox) + Eaten + Len(toClient) = sent
         /\ \A k \in 1..Len(toClient) : toClient[k] = <<"message", Len(inbox) + Eaten + k>>
         /\ inbox' = Append(inbox, Len(inbox) + Eaten + 1)
<1>1. pc[w] = "pass" /\ "STARTING" \notin status /\ Receive(w)
  BY DEF TakesMessage, Receive
<1>2. w = sock /\ OneWorker /\ Stream
  BY <1>1, WorkerOfSession DEF Alive, IInv, Proper
<1>3. agreed # None
  BY <1>1, <1>2 DEF OneWorker
<1>4. ~Silent /\ ~CutOff
  BY <1>1, <1>2, <1>3 DEF Receive, Stream, CutOff, Eaten
<1>5. /\ Len(inbox) + Eaten + Len(toClient) = sent
      /\ \A k \in 1..Len(toClient) : toClient[k] = <<"message", Len(inbox) + Eaten + k>>
  BY <1>2, <1>3, <1>4 DEF Stream
<1>6. inbox' = Append(inbox, Len(inbox) + Eaten + 1)
  <2>1. Head(toClient) = <<"message", Len(inbox) + Eaten + 1>>
    BY <1>1, <1>5, TailOfStream
  <2>2. inbox' = Append(inbox, IF Head(toClient)[1] = "answer" THEN 0 ELSE Head(toClient)[2])
    BY DEF TakesMessage
  <2> QED BY <2>1, <2>2
<1> QED
  BY <1>2, <1>3, <1>4, <1>5, <1>6

\* So taking an identity leaves the other messages in the stream.
LEMMA TakesAnswerKeeps ==
  ASSUME IInv, NEW w \in Session, NEW i \in Id, TakesAnswer(w, i)
  PROVE  StartsAlone' /\ Fresh' /\ Proper'
<1> USE SessionAssumption
<1>1. /\ pc[w] = "pass" /\ "STARTING" \in status /\ Receive(w)
      /\ Head(toClient)[1] = "answer" => i = Head(toClient)[2]
      /\ agreed' = i /\ Goto(w, "answered") /\ UNCHANGED inbox
      /\ UNCHANGED <<wordVars, threadVars, sock, unread, serverVars>>
  BY DEF TakesAnswer, Receive, workerUnchanged
<1>2. Alive(w) /\ w \notin half
  BY <1>1, Places DEF Alive, IInv, StartsAlone
<1>3. /\ StartsAlone' /\ Fresh' /\ InSession' = InSession
      /\ pc'[w] = "answered" /\ \A t \in Thread \ {w} : pc'[t] = pc[t]
  BY <1>1, <1>2, Places, WorkerAside DEF wordVars, serverVars
<1>4. ASSUME InSession PROVE OneWorker' /\ Stream'
  <2>1. w = sock /\ OneWorker /\ Stream
    BY <1>2, <1>4, WorkerOfSession DEF IInv, Proper
  <2>2. ~Silent /\ (~lost => i = given[sock]) /\ (lost => sent > 0)
    BY <1>4, FirstIsIdentity
  <2>3. /\ Len(toClient) + Eaten = sent + 1
        /\ \A k \in 2..Len(toClient) : toClient[k] = <<"message", k - 1 + Eaten>>
    BY <1>4, FirstIsIdentity
  <2>4. inbox = <<>> /\ Len(inbox) = 0
    BY <1>4, FirstIsIdentity
  <2>5. /\ Len(inbox) + Eaten + Len(toClient') = sent
        /\ \A k \in 1..Len(toClient') : toClient'[k] = <<"message", Len(inbox) + Eaten + k>>
    <3>1. Eaten \in 0..1
      BY DEF Eaten
    <3>2. Eaten + Len(toClient') = sent
      BY <1>1, <2>3, <3>1, TailOfStream
    <3>3. ASSUME NEW k \in 1..Len(toClient')
          PROVE  toClient'[k] = <<"message", Eaten + k>>
      <4>1. k + 1 \in 2..Len(toClient) /\ (k + 1) - 1 + Eaten = Eaten + k
        BY <1>1, <3>1, <3>3, TailOfStream
      <4>2. toClient'[k] = toClient[k + 1]
        BY <1>1, TailOfStream
      <4> QED BY <2>3, <4>1, <4>2
    <3> QED BY <1>1, <2>4, <3>1, <3>2, <3>3, TailOfStream
  <2>6. /\ ~Silent' /\ agreed' # None
        /\ agreed' = given'[sock'] \/ (lost' /\ sent' > 0)
    BY <1>1, <2>2 DEF Silent, serverVars
  <2>7. Stream'
    <3>1. Eaten' = Eaten
      BY <1>1 DEF Eaten, serverVars
    <3> QED
      BY <1>1, <2>4, <2>5, <2>6, <3>1 DEF Stream, serverVars
  <2>8. OneWorker'
    BY <1>1, <1>2, <1>3, <2>1, <2>6 DEF OneWorker, Alive, wordVars, Thread
  <2> QED BY <2>7, <2>8
<1> QED
  BY <1>3, <1>4 DEF Proper

\* And a message in the inbox is one less in the stream.
LEMMA TakesMessageKeeps ==
  ASSUME IInv, NEW w \in Session, TakesMessage(w)
  PROVE  StartsAlone' /\ Fresh' /\ Proper'
<1> USE SessionAssumption
<1>1. /\ pc[w] = "pass" /\ "STARTING" \notin status /\ Receive(w)
      /\ Goto(w, "loop") /\ UNCHANGED agreed
      /\ UNCHANGED <<wordVars, threadVars, sock, unread, serverVars>>
  BY DEF TakesMessage, Receive, workerUnchanged
<1>2. Alive(w) /\ w \notin half
  BY <1>1, Places DEF Alive, IInv, StartsAlone
<1>3. /\ StartsAlone' /\ Fresh' /\ InSession' = InSession
      /\ pc'[w] = "loop" /\ \A t \in Thread \ {w} : pc'[t] = pc[t]
  BY <1>1, <1>2, Places, WorkerAside DEF wordVars, serverVars
<1>4. ASSUME InSession PROVE OneWorker' /\ Stream'
  <2>1. w = sock /\ OneWorker /\ Stream
    BY <1>2, <1>4, WorkerOfSession DEF IInv, Proper
  <2>2. agreed # None /\ ~Silent
    BY <1>4, FirstIsMessage
  <2>a. Eaten \in 0..1 /\ Eaten' = Eaten
    BY <1>1 DEF Eaten, serverVars
  <2>b. /\ inbox \in Seq(0..MaxMessages) /\ Len(inbox) \in Nat /\ sent \in Nat
        /\ Len(toClient) \in Nat \ {0} /\ Len(toClient') = Len(toClient) - 1
    BY <1>1, TailOfStream
  <2>3. /\ Len(inbox) + Eaten + Len(toClient) = sent
        /\ \A k \in 1..Len(toClient) : toClient[k] = <<"message", Len(inbox) + Eaten + k>>
    BY <1>4, FirstIsMessage
  <2>4. inbox' = Append(inbox, Len(inbox) + Eaten + 1)
    BY <1>4, FirstIsMessage
  <2>5. Len(inbox') = Len(inbox) + 1 /\ \A k \in 1..Len(inbox') : inbox'[k] = k + Eaten
    <3>1. /\ Len(inbox') = Len(inbox) + 1
          /\ \A k \in 1..Len(inbox) : inbox'[k] = inbox[k]
          /\ inbox'[Len(inbox) + 1] = Len(inbox) + Eaten + 1
      BY <2>4, <2>b
    <3>2. \A k \in 1..Len(inbox) : inbox[k] = k + Eaten
      BY <2>1 DEF Stream
    <3>3. Len(inbox) + Eaten + 1 = (Len(inbox) + 1) + Eaten
      BY <2>a, <2>b
    <3>4. ASSUME NEW k \in 1..Len(inbox')
          PROVE  inbox'[k] = k + Eaten
      BY <2>b, <3>1, <3>2, <3>3, <3>4
    <3> QED BY <3>1, <3>4
  <2>6. /\ Len(inbox') + Eaten + Len(toClient') = sent
        /\ \A k \in 1..Len(toClient') : toClient'[k] = <<"message", Len(inbox') + Eaten + k>>
    <3>1. Len(inbox') + Eaten + Len(toClient') = sent
      <4>1. Len(inbox') = Len(inbox) + 1
        BY <2>5
      <4>2. Len(inbox) + Eaten + Len(toClient) = sent
        BY <2>3
      <4> QED
        BY <2>a, <2>b, <4>1, <4>2
    <3>2. ASSUME NEW k \in 1..Len(toClient')
          PROVE  toClient'[k] = <<"message", Len(inbox') + Eaten + k>>
      <4>1. k + 1 \in 1..Len(toClient) /\ Len(inbox) + Eaten + (k + 1) = Len(inbox') + Eaten + k
        BY <2>a, <2>b, <2>5, <3>2
      <4>2. toClient'[k] = toClient[k + 1]
        BY <1>1, TailOfStream
      <4> QED BY <2>3, <4>1, <4>2
    <3> QED BY <3>1, <3>2
  <2>7. ~Silent' /\ (agreed' \in {None, given'[sock']} \/ (lost' /\ sent' > 0))
    BY <1>1, <2>1, <2>2 DEF Silent, Stream, serverVars
  <2>8. Stream'
    BY <1>1, <2>a, <2>2, <2>5, <2>6, <2>7 DEF Stream, serverVars
  <2>9. OneWorker'
    BY <1>1, <1>2, <1>3, <2>1, <2>2 DEF OneWorker, Alive, wordVars, Thread
  <2> QED BY <2>8, <2>9
<1> QED
  BY <1>3, <1>4 DEF Proper

\* Whatever a worker does, the client's session stays as it should be.
LEMMA WorkerKeeps ==
  ASSUME IInv, NEW w \in Session, WorkerStep(w)
  PROVE  IInv'
<1>1. TypeOK' /\ Registered'
  BY WorkerTyped DEF IInv
<1>2. StartsAlone' /\ Fresh' /\ Proper'
  BY WorkerWordKeeps, PassKeeps, TakesAnswerKeeps, TakesMessageKeeps DEF WorkerStep
<1> QED
  BY <1>1, <1>2 DEF IInv

-----------------------------------------------------------------------------
(* The application. *)

\* The updates of start() and stop(), of which none is made in a session that has
\* a worker.
LEMMA AppWordKeeps ==
  ASSUME IInv, Load(App) \/ Store(App)
  PROVE  StartsAlone' /\ Fresh' /\ Proper'
<1> USE SessionAssumption
<1>1. TypeOK /\ App \in Thread /\ Session \subseteq Thread
  BY DEF IInv, Thread
<1>2. pc[App] \in {"startingOn", "failed", "stoppingOn", "stopping", "stoppingOff"}
  BY <1>1, Places DEF Load, Store, TypeOK
<1>a. ASSUME InSession
      PROVE  pc[App] = "failed" /\ pc[sock] = "done" /\ ~Alive(sock) /\ OneWorker /\ Stream
  BY <1>2, <1>a DEF IInv, StartsAlone, InSession, Proper, Alive
<1>3. CASE Load(App)
  <2> USE DEF Load, threadVars, seenVars, streamVars, serverVars
  <2>1. StartsAlone' /\ Fresh'
    BY <1>2, <1>3, Places DEF IInv, StartsAlone, Fresh, Alive
  <2>2. ASSUME InSession' PROVE OneWorker' /\ Stream'
    <3>1. InSession
      BY <1>3, <2>2 DEF InSession
    <3>2. pc[sock] = "done" /\ ~Alive(sock) /\ OneWorker /\ Stream
      BY <1>a, <3>1
    <3>3. OneWorker'
      BY <1>3, <3>2 DEF OneWorker, Alive
    <3>4. Stream'
      BY <1>3, <3>2 DEF Stream, Silent, CutOff, Eaten
    <3> QED BY <3>3, <3>4
  <2> QED
    BY <2>1, <2>2 DEF Proper
<1>4. CASE Store(App)
  <2>1. /\ UNCHANGED <<threadVars, sock, seenVars, streamVars, serverVars>>
        /\ half' = half \ {App} /\ status' = Updated(Update[pc[App]], reg[App])
        /\ Goto(App, Update[pc[App]].next)
    BY <1>4 DEF Store
  <2>2. pc'[App] = Update[pc[App]].next /\ \A t \in Session : pc'[t] = pc[t]
    BY <1>1, <2>1 DEF Goto, TypeOK
  <2>3. /\ pc[App] = "startingOn" => pc'[App] = "connect" /\ "STARTING" \in status'
        /\ pc[App] \in {"failed", "stoppingOff"} => pc'[App] = "idle"
        /\ pc[App] \in {"stoppingOn", "stopping"} => pc'[App] \in {"stopping", "join"}
    BY <2>1, <2>2 DEF Update, Updated
  <2>4. ASSUME InSession' PROVE OneWorker' /\ Stream'
    <3>1. InSession
      BY <1>2, <2>1, <2>2, <2>3, <2>4 DEF IInv, StartsAlone, InSession
    <3>2. pc[sock] = "done" /\ ~Alive(sock) /\ OneWorker /\ Stream /\ sock \in Session
      BY <1>a, <1>1, <3>1 DEF InSession, TypeOK
    <3>3. OneWorker'
      BY <2>1, <2>2, <3>2 DEF OneWorker, Alive
    <3>4. Stream'
      BY <2>1, <3>2 DEF Stream, Silent, CutOff, Eaten, seenVars, streamVars, serverVars
    <3> QED BY <3>3, <3>4
  <2>5. StartsAlone'
    <3>1. \A t \in half' : pc'[t] \in DOMAIN Update
      BY <1>1, <2>1, <2>2 DEF IInv, StartsAlone, TypeOK, Thread
    <3> QED
      BY <1>2, <2>1, <2>2, <2>3, <3>1 DEF IInv, StartsAlone, Alive
  <2>6. Fresh'
    BY <1>2, <2>1, <2>2, <2>3 DEF IInv, Fresh, serverVars
  <2>7. Proper'
    BY <2>4 DEF Proper
  <2> QED BY <2>5, <2>6, <2>7
<1> QED
  BY <1>3, <1>4

\* A new connection: its session begins with nothing sent and nothing taken.
LEMMA ConnectKeeps ==
  ASSUME IInv, Connect
  PROVE  StartsAlone' /\ Fresh' /\ Proper'
<1> USE SessionAssumption
<1>1. TypeOK
  BY DEF IInv
<1>2. PICK s \in Session : /\ pc[s] = "unborn" /\ sock' = s
                           /\ serverOpen' = serverOpen \cup {s} /\ NothingFrom(s)
  BY DEF Connect, Unborn
<1>3. /\ pc[App] = "connect" /\ Goto(App, "spawn")
      /\ UNCHANGED <<wordVars, threadVars, adding>>
  BY DEF Connect
<1>4. pc'[App] = "spawn" /\ \A t \in Session : pc'[t] = pc[t]
  BY <1>1, <1>3 DEF Goto, TypeOK, Thread
<1>5. (\A w \in Session : ~Alive(w)) /\ "STARTING" \in status
  BY <1>3 DEF IInv, StartsAlone
<1>6. s \notin serverOpen /\ adding # s
  BY <1>2, <1>3 DEF IInv, Fresh
<1>7. \A t \in half : pc'[t] \in DOMAIN Update
  BY <1>1, <1>3, <1>4, Places DEF IInv, StartsAlone, TypeOK, Thread
<1>8. StartsAlone'
  BY <1>2, <1>3, <1>4, <1>5, <1>7 DEF StartsAlone, Alive, wordVars, NothingFrom
<1>9. Fresh'
  BY <1>2, <1>3, <1>4 DEF IInv, Fresh
<1>10. OneWorker'
  <2>1. sock' \notin half'
    BY <1>2, <1>3, <1>7, <1>4, Places DEF wordVars
  <2> QED
    BY <1>2, <1>3, <1>4, <1>5, <2>1 DEF OneWorker, Alive, wordVars, NothingFrom
<1>11. Stream'
  <2>1. /\ Silent' /\ toClient' = <<>> /\ agreed' = None /\ inbox' = <<>>
        /\ ~active' /\ sent' = 0 /\ ~lost'
    BY <1>2, <1>6 DEF Silent, NothingFrom
  <2> QED BY <2>1 DEF Stream
<1> QED
  BY <1>8, <1>9, <1>10, <1>11 DEF Proper

\* A connection that fails begins a session that has no worker.
LEMMA ConnectFailsKeeps ==
  ASSUME IInv, ConnectFails
  PROVE  StartsAlone' /\ Fresh' /\ Proper'
<1> USE SessionAssumption
<1>1. TypeOK
  BY DEF IInv
<1>2. PICK s \in Session : /\ pc[s] = "unborn" /\ sock' = s
                           /\ serverOpen' \in {serverOpen, serverOpen \cup {s}}
                           /\ NothingFrom(s)
                           /\ pc' = [pc EXCEPT ![App] = "failed", ![s] = "done"]
  BY DEF ConnectFails, Unborn
<1>3. /\ pc[App] = "connect"
      /\ UNCHANGED <<wordVars, threadVars, adding>>
  BY DEF ConnectFails
<1>4. /\ pc'[App] = "failed" /\ pc'[s] = "done"
      /\ \A t \in Session \ {s} : pc'[t] = pc[t]
  BY <1>1, <1>2 DEF TypeOK, Thread
<1>5. \A w \in Session : ~Alive(w)
  BY <1>3 DEF IInv, StartsAlone
<1>6. s \notin serverOpen
  BY <1>2, <1>3 DEF IInv, Fresh
<1>7. \A w \in Session : ~Alive(w)'
  BY <1>4, <1>5 DEF Alive
<1>8. StartsAlone'
  <2>1. App \notin half /\ s \notin half
    BY <1>2, <1>3, Places DEF IInv, StartsAlone
  <2>2. \A t \in half : pc'[t] \in DOMAIN Update
    BY <1>1, <1>4, <2>1 DEF IInv, StartsAlone, TypeOK, Thread
  <2> QED
    BY <1>2, <1>3, <1>4, <1>7, <2>2 DEF StartsAlone, wordVars
<1>9. Fresh'
  BY <1>2, <1>3, <1>4 DEF IInv, Fresh
<1>10. OneWorker'
  BY <1>2, <1>4, <1>7 DEF OneWorker
<1>11. Stream'
  <2>1. /\ Silent' /\ toClient' = <<>> /\ agreed' = None /\ inbox' = <<>>
        /\ ~active' /\ sent' = 0 /\ ~lost'
    BY <1>2, <1>6 DEF Silent, NothingFrom
  <2> QED BY <2>1 DEF Stream
<1> QED
  BY <1>8, <1>9, <1>10, <1>11 DEF Proper

\* No descriptor for a connection, and the close of stop(): no session is left.
LEMMA NoSocketKeeps ==
  ASSUME IInv, OpenFails \/ Close
  PROVE  StartsAlone' /\ Fresh' /\ Proper'
<1> USE SessionAssumption
<1>1. TypeOK
  BY DEF IInv
<1>2. PICK l \in {"failed", "stoppingOff"} :
        /\ Goto(App, l) /\ sock' = None
        /\ UNCHANGED <<wordVars, threadVars, unread, serverOpen, adding>>
        /\ pc[App] \in {"connect", "close"} /\ (l = "failed" => pc[App] = "connect")
  BY DEF OpenFails, Close
<1>3. pc'[App] = l /\ \A t \in Session : pc'[t] = pc[t]
  BY <1>1, <1>2 DEF Goto, TypeOK, Thread
<1>4. StartsAlone'
  <2>1. \A t \in half : pc'[t] \in DOMAIN Update
    BY <1>1, <1>2, <1>3, Places DEF IInv, StartsAlone, TypeOK, Thread
  <2> QED
    BY <1>2, <1>3, <2>1 DEF IInv, StartsAlone, Alive, wordVars
<1>5. Fresh'
  BY <1>2, <1>3 DEF IInv, Fresh
<1>6. Proper'
  BY <1>2 DEF Proper, InSession
<1> QED
  BY <1>4, <1>5, <1>6

\* The worker of a session is born.
LEMMA SpawnKeeps ==
  ASSUME IInv, Spawn
  PROVE  StartsAlone' /\ Fresh' /\ Proper'
<1> USE SessionAssumption
<1>1. TypeOK /\ sock \in Session /\ pc[sock] = "unborn" /\ "STARTING" \in status
  BY DEF IInv, StartsAlone, Spawn
<1>2. /\ pc[App] = "spawn" /\ pc' = [pc EXCEPT ![App] = "idle", ![sock] = "runningOn"]
      /\ UNCHANGED <<wordVars, joined, sock, seenVars, streamVars, serverVars>>
  BY DEF Spawn
<1>3. /\ pc'[App] = "idle" /\ pc'[sock] = "runningOn"
      /\ \A t \in Session \ {sock} : pc'[t] = pc[t]
  BY <1>1, <1>2 DEF TypeOK, Thread
<1>4. InSession /\ OneWorker /\ Stream
  BY <1>1, <1>2 DEF IInv, Proper, InSession
<1>5. \A w \in Session : ~Alive(w)
  BY <1>2 DEF IInv, StartsAlone
<1>6. App \notin half /\ sock \notin half
  BY <1>1, <1>2, Places DEF IInv, StartsAlone
<1>7. StartsAlone'
  <2>1. \A t \in half : pc'[t] \in DOMAIN Update
    BY <1>3, <1>6 DEF IInv, StartsAlone, TypeOK, Thread
  <2> QED
    BY <1>2, <1>3, <2>1 DEF StartsAlone, wordVars
<1>8. Fresh'
  BY <1>1, <1>2, <1>3 DEF IInv, Fresh, serverVars
<1>9. agreed = None
  BY <1>2 DEF IInv, StartsAlone
<1>10. OneWorker'
  BY <1>1, <1>2, <1>3, <1>4, <1>5, <1>6, <1>9 DEF OneWorker, Alive, wordVars, seenVars
<1>11. Stream'
  BY <1>2, <1>4 DEF Stream, Silent, CutOff, Eaten, seenVars, streamVars, serverVars
<1> QED
  BY <1>7, <1>8, <1>10, <1>11 DEF Proper

\* The application calls start() over nobody.
Careful == CallStart => \A w \in Session : ~Alive(w)

\* The calls of start() and stop(), and stop()'s wait for the worker.
LEMMA CallsKeep ==
  ASSUME IInv, Careful, CallStart \/ CallStop \/ Kill \/ Join \/ JoinWait
  PROVE  StartsAlone' /\ Fresh' /\ Proper'
<1> USE SessionAssumption
<1>1. TypeOK
  BY DEF IInv
<1>2. PICK l \in {"startingOn", "stoppingOn", "joinWait", "close"} :
        /\ Goto(App, l) /\ (l = "startingOn" => \A w \in Session : ~Alive(w))
        /\ pc[App] \in {"idle", "join", "joinWait"}
        /\ UNCHANGED <<wordVars, sock, seenVars, streamVars, serverVars>>
  BY DEF CallStart, CallStop, Kill, Join, JoinWait, Careful
<1>3. pc'[App] = l /\ \A t \in Session : pc'[t] = pc[t]
  BY <1>1, <1>2 DEF Goto, TypeOK, Thread
<1>4. StartsAlone'
  <2>1. \A t \in half : pc'[t] \in DOMAIN Update
    BY <1>1, <1>2, <1>3, Places DEF IInv, StartsAlone, TypeOK, Thread
  <2> QED
    BY <1>2, <1>3, <2>1 DEF StartsAlone, Alive, wordVars
<1>5. Fresh'
  BY <1>2, <1>3 DEF IInv, Fresh, serverVars
<1>6. Proper'
  BY <1>2, <1>3 DEF Proper, InSession
<1> QED
  BY <1>4, <1>5, <1>6

\* Whatever the application does, the client's session stays as it should be.
LEMMA AppKeeps ==
  ASSUME IInv, Careful, AppStep \/ CallStart \/ CallStop \/ ClientSends
  PROVE  IInv'
<1>1. TypeOK' /\ Registered'
  BY AppTyped DEF IInv
<1>2. CASE ClientSends
  BY <1>1, <1>2
  DEF ClientSends, IInv, StartsAlone, Fresh, Proper, InSession, OneWorker, Stream, Silent,
      CutOff, Eaten, Alive, wordVars, threadVars, seenVars, serverVars
<1>3. CASE ~ClientSends
  <2>1. StartsAlone' /\ Fresh' /\ Proper'
    BY <1>3, AppWordKeeps, ConnectKeeps, ConnectFailsKeeps, NoSocketKeeps, SpawnKeeps, CallsKeep
    DEF AppStep
  <2> QED
    BY <1>1, <2>1 DEF IInv
<1> QED
  BY <1>2, <1>3

-----------------------------------------------------------------------------
(* The theorems. *)

LEMMA StepInv == IInv /\ [Next]_vars /\ [Careful]_vars => IInv'
<1> SUFFICES ASSUME IInv, [Next]_vars, [Careful]_vars
             PROVE  IInv'
  OBVIOUS
<1>1. CASE UNCHANGED vars
  BY <1>1
  DEF vars, wordVars, threadVars, seenVars, streamVars, serverVars, IInv, TypeOK, Registered,
      StartsAlone, Fresh, Proper, InSession, OneWorker, Stream, Silent, CutOff, Eaten, Alive
<1>2. CASE Next /\ Careful
  BY <1>2, AppKeeps, WorkerKeeps, ServerKeeps DEF Next, Calls
<1> QED
  BY <1>1, <1>2

\* As long as the application calls start() over nobody, the invariant holds.
LEMMA Invariance == Spec /\ [][Careful]_vars => []IInv
<1>1. Init => IInv
  BY InitInv
<1>2. IInv /\ [Next]_vars /\ [Careful]_vars => IInv'
  BY StepInv
<1> QED
  BY <1>1, <1>2, PTL DEF Spec

\* With Overlaps = FALSE it never does.
LEMMA NoOverlaps == ~Overlaps /\ Spec => [][Careful]_vars
<1>1. ~Overlaps => Careful
  BY DEF Careful, CallStart
<1>2. CASE Overlaps
  BY <1>2
<1>3. CASE ~Overlaps
  <2>1. Careful
    BY <1>1, <1>3
  <2> QED
    BY <2>1, PTL
<1> QED
  BY <1>2, <1>3

\* Client and server use the same identity (Client.cpp:163, Server::addClient),
\* whatever stale store stop() and the worker make of the status word, and
\* whatever other sessions left in the server; or the answer was sent in vain, and
\* the client has its identity from the first message.
THEOREM SameIdentity == Spec /\ [][Careful]_vars => []AgreedIdentity
<1>1. IInv => AgreedIdentity
  BY DEF IInv, Proper, InSession, Stream, AgreedIdentity, Undisturbed
<1> QED
  BY <1>1, Invariance, PTL

\* The client's listener gets the messages of its session from the first on,
\* each once and in order, and never the answer (Client::run); of a session whose
\* answer was sent in vain, from the second on.
THEOREM MessagesInOrder == Spec /\ [][Careful]_vars => []MessagesFromTheFirst
<1>1. IInv => MessagesFromTheFirst
  BY DEF IInv, Proper, InSession, Stream, MessagesFromTheFirst, Undisturbed
<1> QED
  BY <1>1, Invariance, PTL

-----------------------------------------------------------------------------
(* What stop() leaves behind, of any application. *)

\* The one worker that may live is the one that start() or stop() knows of, as
\* long as nobody was cancelled, and stop() knows of nobody once it has joined.
KnownWorker ==
  /\ pc[App] \in {"joinWait", "close", "stoppingOff"} => thread = None
  /\ pc[App] = "stoppingOff" => sock = None
  /\ Orderly => \A w \in Session :
       Alive(w) => w = thread \/ (pc[App] = "joinWait" /\ w = joined)

\* A step of a worker or of the server creates no worker.
LEMMA KnownAside ==
  ASSUME TypeOK, KnownWorker, pc'[App] = pc[App], UNCHANGED <<threadVars, sock>>,
         \A w \in Session : Alive(w)' => Alive(w)
  PROVE  KnownWorker'
BY DEF KnownWorker, threadVars, Orderly

LEMMA KnownWorkerStep ==
  ASSUME TypeOK, KnownWorker, NEW w \in Session, WorkerStep(w)
  PROVE  KnownWorker'
<1> USE SessionAssumption
<1>1. w \in Thread /\ App # w /\ App \in Thread /\ Session \subseteq Thread
  BY DEF Thread
<1>2. UNCHANGED <<threadVars, sock>>
  BY DEF WorkerStep, Load, Store, LoopTest, Timeout, SelectFails, ReceivesNothing, Cancelled,
         TakesMessage, TakesAnswer, Receive, workerUnchanged
<1>3. Alive(w)
  <2>1. CASE Load(w) \/ Store(w)
    BY <2>1, Places DEF Load, Store, Alive
  <2>2. CASE ~(Load(w) \/ Store(w))
    BY <2>2 DEF WorkerStep, LoopTest, Timeout, SelectFails, ReceivesNothing, Cancelled,
                TakesMessage, TakesAnswer, Receive, Alive
  <2> QED BY <2>1, <2>2
<1>4. \A t \in Thread \ {w} : pc'[t] = pc[t]
  BY <1>1
  DEF WorkerStep, Load, Store, Goto, LoopTest, Timeout, SelectFails, ReceivesNothing,
      Cancelled, TakesMessage, TakesAnswer, TypeOK
<1> QED
  BY <1>1, <1>2, <1>3, <1>4, KnownAside DEF Alive

LEMMA KnownServerStep ==
  ASSUME TypeOK, KnownWorker, clientUnchanged
  PROVE  KnownWorker'
BY KnownAside DEF clientUnchanged, wordVars, Alive

LEMMA KnownAppStep ==
  ASSUME TypeOK, KnownWorker, AppStep \/ CallStart \/ CallStop \/ ClientSends
  PROVE  KnownWorker'
<1> USE SessionAssumption
<1>1. App \in Thread /\ Session \subseteq Thread
  BY DEF Thread
<1>2. ASSUME NEW l \in AppPc, Goto(App, l)
      PROVE  pc'[App] = l /\ \A w \in Session : pc'[w] = pc[w]
  BY <1>1, <1>2 DEF Goto, TypeOK
<1>3. CASE Load(App)
  BY <1>3 DEF Load, KnownWorker, threadVars, Alive, Orderly
<1>4. CASE Store(App)
  <2>1. pc[App] \in AppPc \cap DOMAIN Update /\ Goto(App, Update[pc[App]].next)
    BY <1>4 DEF Store, TypeOK
  <2>2. Update[pc[App]].next \in AppPc
    BY <2>1, UpdateTyped
  <2>3. pc'[App] = Update[pc[App]].next /\ \A w \in Session : pc'[w] = pc[w]
    BY <1>2, <2>1, <2>2
  <2>4. pc[App] \in {"startingOn", "failed", "stoppingOn", "stopping", "stoppingOff"}
    BY <2>1, Places
  <2>5. pc'[App] \in {"connect", "idle", "stopping", "join"}
    BY <2>3, <2>4 DEF Update
  <2> QED
    BY <1>4, <2>3, <2>4, <2>5 DEF Store, KnownWorker, threadVars, Alive, Orderly
<1>5. CASE Connect \/ OpenFails \/ Close
  <2>1. PICK l \in {"spawn", "failed", "stoppingOff"} :
          /\ Goto(App, l) /\ UNCHANGED threadVars
          /\ pc[App] \in {"connect", "close"}
          /\ l = "stoppingOff" => pc[App] = "close" /\ sock' = None
    BY <1>5 DEF Connect, OpenFails, Close
  <2>2. pc'[App] = l /\ \A w \in Session : pc'[w] = pc[w]
    BY <1>2, <2>1, Places
  <2> QED
    BY <2>1, <2>2 DEF KnownWorker, threadVars, Alive, Orderly
<1>6. CASE Spawn
  <2>1. /\ pc' = [pc EXCEPT ![App] = "idle", ![sock] = "runningOn"]
        /\ pc[App] = "spawn" /\ Cancel /\ thread' = sock
    BY <1>6 DEF Spawn
  <2>2. pc'[App] = "idle" /\ \A w \in Session \ {sock} : pc'[w] = pc[w]
    BY <1>1, <2>1 DEF TypeOK
  <2>3. ASSUME NEW w \in Session, Orderly', Alive(w)'
        PROVE  w = thread'
    <3>1. Orderly /\ ~(thread \in Session /\ Alive(thread))
      BY <2>1, <2>3 DEF Cancel, Orderly
    <3>2. ~Alive(w)
      BY <2>1, <3>1 DEF KnownWorker
    <3> QED BY <2>1, <2>2, <2>3, <3>2 DEF Alive
  <2> QED
    BY <2>2, <2>3 DEF KnownWorker
<1>7. CASE Kill
  <2>1. /\ pc'[App] = "close" /\ \A w \in Session : pc'[w] = pc[w]
        /\ pc[App] = "join" /\ Cancel /\ thread' = None
    BY <1>2, <1>7, Places DEF Kill
  <2>2. ASSUME NEW w \in Session, Orderly', Alive(w)'
        PROVE  FALSE
    <3>1. Orderly /\ w # thread /\ Alive(w)
      BY <2>1, <2>2 DEF Cancel, Orderly, Alive
    <3> QED BY <2>1, <3>1 DEF KnownWorker
  <2> QED
    BY <2>1, <2>2 DEF KnownWorker
<1>8. CASE Join
  <2>1. /\ pc[App] = "join" /\ joined' = thread /\ thread' = None
        /\ UNCHANGED cancelled
        /\ Goto(App, IF thread = None THEN "close" ELSE "joinWait")
    BY <1>8 DEF Join
  <2>2. /\ pc'[App] = IF thread = None THEN "close" ELSE "joinWait"
        /\ \A w \in Session : pc'[w] = pc[w]
    BY <1>2, <2>1, Places
  <2> QED
    BY <2>1, <2>2 DEF KnownWorker, Alive, Orderly
<1>9. CASE JoinWait
  <2>1. pc'[App] = "close" /\ \A w \in Session : pc'[w] = pc[w]
    BY <1>2, <1>9, Places DEF JoinWait
  <2> QED
    BY <1>9, <2>1 DEF JoinWait, KnownWorker, Alive, Orderly
<1>10. CASE CallStart \/ CallStop
  <2>1. PICK l \in {"startingOn", "stoppingOn"} : Goto(App, l) /\ pc[App] = "idle"
    BY <1>10 DEF CallStart, CallStop
  <2>2. pc'[App] = l /\ \A w \in Session : pc'[w] = pc[w]
    BY <1>2, <2>1, Places
  <2> QED
    BY <1>10, <2>1, <2>2 DEF CallStart, CallStop, KnownWorker, threadVars, Alive, Orderly
<1>11. CASE ClientSends
  BY <1>11 DEF ClientSends, KnownWorker, threadVars, Alive, Orderly
<1>12. CASE ConnectFails
  <2>1. PICK s \in Session : pc' = [pc EXCEPT ![App] = "failed", ![s] = "done"]
    BY <1>12 DEF ConnectFails, Unborn
  <2>2. /\ pc'[App] = "failed"
        /\ \A w \in Session : pc'[w] \in {pc[w], "done"}
    BY <1>1, <2>1 DEF TypeOK
  <2>3. pc[App] = "connect" /\ UNCHANGED threadVars
    BY <1>12 DEF ConnectFails
  <2> QED
    BY <2>2, <2>3 DEF KnownWorker, threadVars, Alive, Orderly
<1> QED
  BY <1>3, <1>4, <1>5, <1>6, <1>7, <1>8, <1>9, <1>10, <1>11, <1>12 DEF AppStep

\* A stop() that returns leaves neither worker nor socket nor STOPPING, unless
\* a worker was cancelled (Client::stop, Thread::stop).
THEOREM StopIsClean == Spec => StopLeavesNothing
<1> USE SessionAssumption
<1> DEFINE Known == TypeOK /\ Registered /\ KnownWorker
<1>1. Init => Known
  <2> SUFFICES ASSUME Init
               PROVE  KnownWorker
    BY InitTyped
  <2>1. pc[App] = "idle" /\ \A w \in Session : pc[w] = "unborn"
    BY DEF Init, Thread
  <2> QED
    BY <2>1 DEF KnownWorker, Alive
<1>2. Known /\ [Next]_vars => Known'
  <2> SUFFICES ASSUME Known, [Next]_vars
               PROVE  KnownWorker'
    BY StepTyped
  <2>1. CASE UNCHANGED vars
    BY <2>1 DEF vars, wordVars, threadVars, KnownWorker, Alive, Orderly
  <2>2. CASE ServerStep \/ Activate \/ Broadcast \/ \E s \in Session : ServerCloses(s)
    <3>1. clientUnchanged
      BY <2>2 DEF ServerStep, Answer, TakesClientMessage, Register, Refuse, TakesHello,
                  Activate, Broadcast, ServerCloses
    <3> QED BY <3>1, KnownServerStep
  <2> QED
    BY <2>1, <2>2, KnownAppStep, KnownWorkerStep DEF Next, Calls
<1>3. Known /\ [Next]_vars =>
        [pc[App] = "stoppingOff" /\ pc'[App] = "idle" /\ Orderly =>
           /\ "STOPPING" \notin status'
           /\ sock' = None /\ thread' = None
           /\ \A w \in Session : ~Alive(w)]_vars
  <2> SUFFICES ASSUME Known, Next, pc[App] = "stoppingOff", pc'[App] = "idle", Orderly
               PROVE  /\ "STOPPING" \notin status'
                      /\ sock' = None /\ thread' = None
                      /\ \A w \in Session : ~Alive(w)
    OBVIOUS
  <2>1. ~clientUnchanged
    BY DEF clientUnchanged
  <2>2. ~ServerStep /\ ~Activate /\ ~Broadcast /\ \A s \in Session : ~ServerCloses(s)
    BY <2>1 DEF ServerStep, Answer, TakesClientMessage, Register, Refuse, TakesHello,
                Activate, Broadcast, ServerCloses
  <2>3. \A w \in Session : ~WorkerStep(w)
    <3> SUFFICES ASSUME NEW w \in Session, WorkerStep(w)
                 PROVE  pc'[App] = pc[App]
      OBVIOUS
    <3>1. App # w /\ App \in Thread
      BY DEF Thread
    <3> QED
      BY <3>1
      DEF WorkerStep, Load, Store, Goto, LoopTest, Timeout, SelectFails, ReceivesNothing,
          Cancelled, TakesMessage, TakesAnswer, TypeOK
  <2>4. Store(App)
    BY <2>2, <2>3
    DEF Next, Calls, AppStep, Load, Connect, OpenFails, ConnectFails, Spawn, Kill, Join,
        JoinWait, Close, CallStart, CallStop, ClientSends
  <2>5. status' = reg[App] \ {"STOPPING"}
    BY <2>4 DEF Store, Updated, Update
  <2>6. UNCHANGED <<threadVars, sock>>
    BY <2>4 DEF Store
  <2>7. thread = None /\ sock = None /\ \A w \in Session : ~Alive(w)
    BY DEF KnownWorker
  <2> QED
    BY <2>5, <2>6, <2>7 DEF threadVars
<1> QED
  BY <1>1, <1>2, <1>3, PTL DEF Spec, StopLeavesNothing

-----------------------------------------------------------------------------
(* The dialogue. *)

\* What leaves the session and what is said of it alone is nothing in the
\* dialogue, and neither is anything that is done while there is no session.
LEMMA Nothing ==
  ASSUME InSession' = InSession,
         InSession => UNCHANGED <<given[sock], agreed, sent, inbox, lost>>
  PROVE  UNCHANGED Promise!vars
<1>1. CASE InSession
  BY <1>1 DEF Promise!vars
<1>2. CASE ~InSession
  BY <1>2 DEF Promise!vars
<1> QED
  BY <1>1, <1>2

\* In a session, the dialogue is what the server and the client know.
LEMMA Under ==
  ASSUME InSession, InSession'
  PROVE  /\ given'[sock'] \in Id /\ given[sock] = None /\ UNCHANGED <<agreed, sent, inbox, lost>>
              => Promise!Name
         /\ given[sock] # None /\ agreed = None /\ sent = 0 /\ ~lost /\ lost' = TRUE
              /\ given'[sock'] = given[sock] /\ UNCHANGED <<agreed, sent, inbox>>
              => Promise!Lose
         /\ given[sock] # None /\ ~lost /\ agreed = None /\ agreed' = given[sock]
              /\ given'[sock'] = given[sock] /\ UNCHANGED <<sent, inbox, lost>>
              => Promise!Learn
         /\ lost /\ agreed = None /\ sent > 0 /\ agreed' \in Id
              /\ given'[sock'] = given[sock] /\ UNCHANGED <<sent, inbox, lost>>
              => Promise!Mistake
         /\ given[sock] # None /\ sent' = sent + 1
              /\ given'[sock'] = given[sock] /\ UNCHANGED <<agreed, inbox, lost>>
              => Promise!Say
         /\ agreed # None /\ Promise!Due <= sent /\ inbox' = Append(inbox, Promise!Due)
              /\ given'[sock'] = given[sock] /\ UNCHANGED <<agreed, sent, lost>>
              => Promise!Hear
<1>1. InSession' = InSession
  BY DEF InSession
<1> QED
  BY <1>1
  DEF Promise!Name, Promise!Lose, Promise!Learn, Promise!Mistake, Promise!Say, Promise!Hear

\* The server names, and says.
LEMMA ServerTalks ==
  ASSUME IInv,
         \/ ServerStep \/ Activate \/ Broadcast
         \/ \E s \in Session : ServerCloses(s)
  PROVE  [Promise!Next]_(Promise!vars)
<1> USE SessionAssumption
<1>1. clientUnchanged /\ InSession' = InSession /\ UNCHANGED <<sock, agreed, inbox>>
  <2>1. clientUnchanged
    BY DEF ServerStep, Answer, TakesClientMessage, Register, Refuse, TakesHello, Activate,
           Broadcast, ServerCloses
  <2> QED
    BY <2>1 DEF clientUnchanged, seenVars, InSession
<1>2. TypeOK
  BY DEF IInv
<1>3. ASSUME NEW s \in Session, TakesClientMessage(s) \/ ServerCloses(s) \/ Activate
      PROVE  [Promise!Next]_(Promise!vars)
  <2>1. InSession => given'[sock] = given[sock] /\ sent' = sent /\ lost' = lost
    BY <1>2, <1>3
    DEF TakesClientMessage, ServerCloses, Activate, serverVars, TypeOK, InSession
  <2> QED
    BY <1>1, <2>1, Nothing
<1>7. ASSUME NEW s \in Session, Answer(s)
      PROVE  [Promise!Next]_(Promise!vars)
  <2>1. given' = given /\ sent' = sent
    BY <1>7 DEF Answer
  <2>2. CASE InSession /\ s = sock /\ ReplyFails(s)
    <3>1. Silent /\ given[sock] # None
      BY <1>2, <1>7, <2>2 DEF Answer, Silent, IInv, Registered
    <3>2. agreed = None /\ sent = 0 /\ ~lost
      BY <2>2, <3>1 DEF IInv, Proper, Stream
    <3>3. lost' = TRUE
      BY <2>2 DEF ReplyFails
    <3> QED
      BY <1>1, <2>1, <2>2, <3>1, <3>2, <3>3, Under DEF Promise!Next
  <2>3. CASE ~(InSession /\ s = sock /\ ReplyFails(s))
    <3>1. InSession => lost' = lost
      BY <1>2, <1>7, <2>3 DEF Answer, ReplyFails, TypeOK
    <3> QED
      BY <1>1, <2>1, <3>1, Nothing
  <2> QED
    BY <2>2, <2>3
<1>4. ASSUME NEW s \in Session, NEW i \in Id, Register(s, i) \/ Refuse(s, i)
      PROVE  [Promise!Next]_(Promise!vars)
  <2>1. CASE InSession /\ Register(s, i) /\ s = sock
    <3>1. given'[sock] = i /\ given[sock] = None /\ sent' = sent /\ lost' = lost
      BY <1>2, <2>1 DEF Register, TakesHello, TypeOK
    <3> QED
      BY <1>1, <2>1, <3>1, Under DEF Promise!Next
  <2>2. CASE ~InSession \/ Refuse(s, i) \/ s # sock
    <3>1. InSession => given'[sock] = given[sock] /\ sent' = sent /\ lost' = lost
      BY <1>2, <1>4, <2>2 DEF Register, Refuse, TakesHello, TypeOK, InSession
    <3> QED
      BY <1>1, <3>1, Nothing
  <2> QED
    BY <1>4, <2>1, <2>2
<1>5. CASE Broadcast
  <2>1. CASE InSession
    <3>1. ~Silent
      BY <1>5, <2>1 DEF IInv, Proper, Stream, Broadcast
    <3>2. given[sock] # None /\ sent' = sent + 1 /\ given'[sock] = given[sock] /\ lost' = lost
      BY <1>5, <3>1 DEF Silent, Broadcast
    <3> QED
      BY <1>1, <2>1, <3>2, Under DEF Promise!Next
  <2>2. CASE ~InSession
    BY <1>1, <2>2, Nothing
  <2> QED
    BY <2>1, <2>2
<1>6. CASE Activate
  BY <1>1, <1>6, Nothing DEF Activate
<1> QED
  BY <1>3, <1>4, <1>5, <1>6, <1>7 DEF ServerStep

\* The worker learns, and hears.
LEMMA WorkerListens ==
  ASSUME IInv, NEW w \in Session, WorkerStep(w)
  PROVE  [Promise!Next]_(Promise!vars)
<1> USE SessionAssumption
<1>1. UNCHANGED <<sock, given, sent, lost>>
  BY DEF WorkerStep, Load, Store, LoopTest, Timeout, SelectFails, ReceivesNothing, Cancelled,
         TakesMessage, TakesAnswer, Receive, workerUnchanged, serverVars
<1>2. InSession' = InSession
  <2>1. pc'[App] = pc[App]
    BY DEF WorkerStep, Load, Store, Goto, LoopTest, Timeout, SelectFails, ReceivesNothing,
           Cancelled, TakesMessage, TakesAnswer, IInv, TypeOK, Thread
  <2> QED
    BY <1>1, <2>1 DEF InSession
<1>3. CASE ~InSession
  BY <1>2, <1>3, Nothing
<1>4. CASE InSession
  <2>1. ASSUME NEW i \in Id, TakesAnswer(w, i)
        PROVE  Promise!Next
    <3>1. /\ agreed = None /\ ~Silent
          /\ ~lost => i = given[sock]
          /\ lost => sent > 0
      BY <1>4, <2>1, FirstIsIdentity
    <3>2. agreed' = i /\ inbox' = inbox
      BY <2>1 DEF TakesAnswer
    <3>3. CASE lost
      BY <1>1, <1>2, <1>4, <3>1, <3>2, <3>3, Under DEF Promise!Next
    <3>4. CASE ~lost
      BY <1>1, <1>2, <1>4, <3>1, <3>2, <3>4, Under DEF Silent, Promise!Next
    <3> QED
      BY <3>3, <3>4
  <2>2. CASE TakesMessage(w)
    <3>1. agreed # None /\ inbox' = Append(inbox, Len(inbox) + Eaten + 1)
      BY <1>4, <2>2, FirstIsMessage
    <3>2. Promise!Due <= sent /\ inbox' = Append(inbox, Promise!Due)
      <4>1. Len(inbox) + Eaten + Len(toClient) = sent
        BY <1>4, <2>2, FirstIsMessage
      <4>2. Len(toClient) \in Nat \ {0} /\ Len(inbox) \in Nat /\ sent \in Nat
        BY <2>2, TailOfStream DEF TakesMessage
      <4>3. Promise!Due = Len(inbox) + Eaten + 1
        BY <1>4, <4>2 DEF Promise!Due, Eaten
      <4>4. Eaten \in 0..1
        BY DEF Eaten
      <4> QED
        BY <3>1, <4>1, <4>2, <4>3, <4>4
    <3>3. agreed' = agreed
      BY <2>2 DEF TakesMessage
    <3> QED
      BY <1>1, <1>2, <1>4, <3>1, <3>2, <3>3, Under DEF Promise!Next
  <2>3. CASE ~(TakesMessage(w) \/ \E i \in Id : TakesAnswer(w, i))
    <3>1. UNCHANGED <<agreed, inbox>>
      BY <2>3 DEF WorkerStep, Load, Store, LoopTest, Timeout, SelectFails, ReceivesNothing,
                  Cancelled, seenVars
    <3> QED
      BY <1>1, <1>2, <3>1, Nothing
  <2> QED
    BY <2>1, <2>2, <2>3 DEF Promise!Next
<1> QED
  BY <1>3, <1>4

\* The application begins with a socket, and ends with its next call.
LEMMA AppBeginsAndEnds ==
  ASSUME IInv, AppStep \/ CallStart \/ CallStop \/ ClientSends
  PROVE  [Promise!Next]_(Promise!vars)
<1> USE SessionAssumption
<1>1. TypeOK /\ App \in Thread
  BY DEF IInv, Thread
<1>2. CASE Load(App)
  BY <1>2, Nothing DEF Load, InSession, seenVars, serverVars
<1>3. CASE Store(App)
  <2>1. sock' = sock /\ pc'[App] = Update[pc[App]].next
    BY <1>1, <1>3 DEF Store, Goto, TypeOK
  <2>2. pc[App] \in {"startingOn", "failed", "stoppingOn", "stopping", "stoppingOff"}
    BY <1>1, <1>3, Places DEF Store, TypeOK
  <2>3. pc'[App] \in {"connect", "stopping", "join"} \/ sock = None
          \/ (pc[App] = "failed" /\ pc'[App] = "idle")
    BY <2>1, <2>2 DEF IInv, StartsAlone, Update
  <2>4. InSession' = InSession
    <3>1. CASE pc[App] = "failed"
      BY <2>1, <3>1 DEF InSession, Update
    <3>2. CASE pc[App] # "failed"
      BY <2>1, <2>2, <2>3, <3>2 DEF InSession
    <3> QED
      BY <3>1, <3>2
  <2>5. UNCHANGED <<given, agreed, sent, inbox, lost>>
    BY <1>3 DEF Store, seenVars, serverVars
  <2> QED
    BY <2>1, <2>4, <2>5, Nothing
<1>4. CASE Connect
  <2>1. PICK s \in Session : pc[s] = "unborn" /\ sock' = s /\ NothingFrom(s)
    BY <1>4 DEF Connect, Unborn
  <2>2. pc[App] = "connect" /\ pc'[App] = "spawn"
    BY <1>1, <1>4 DEF Connect, Goto, TypeOK
  <2>3. ~InSession /\ InSession' /\ InSession' \in BOOLEAN
    BY <2>1, <2>2 DEF InSession
  <2>4. s \notin serverOpen
    BY <2>1, <2>2 DEF IInv, Fresh
  <2>5. given'[sock'] = None /\ agreed' = None /\ sent' = 0 /\ inbox' = <<>> /\ ~lost'
    BY <2>1, <2>4 DEF NothingFrom
  <2> QED
    BY <2>3, <2>5 DEF Promise!Next, Promise!Begin, Promise!Blank
<1>10. CASE ConnectFails
  <2>1. PICK s \in Session : /\ pc[s] = "unborn" /\ sock' = s /\ NothingFrom(s)
                             /\ pc' = [pc EXCEPT ![App] = "failed", ![s] = "done"]
    BY <1>10 DEF ConnectFails, Unborn
  <2>2. pc[App] = "connect" /\ pc'[App] = "failed"
    BY <1>1, <1>10, <2>1 DEF ConnectFails, TypeOK
  <2>3. ~InSession /\ InSession' /\ InSession' \in BOOLEAN
    BY <2>1, <2>2 DEF InSession
  <2>4. s \notin serverOpen
    BY <2>1, <2>2 DEF IInv, Fresh
  <2>5. given'[sock'] = None /\ agreed' = None /\ sent' = 0 /\ inbox' = <<>> /\ ~lost'
    BY <2>1, <2>4 DEF NothingFrom
  <2> QED
    BY <2>3, <2>5 DEF Promise!Next, Promise!Begin, Promise!Blank
<1>5. CASE OpenFails \/ Close
  <2>1. pc[App] \in {"connect", "close"} /\ sock' = None
    BY <1>5 DEF OpenFails, Close
  <2> QED
    BY <2>1, Nothing DEF InSession
<1>6. CASE Spawn
  <2>1. sock # App /\ pc[App] = "spawn" /\ pc'[App] = "idle"
    BY <1>1, <1>6 DEF Spawn, TypeOK
  <2>2. InSession' = InSession
    BY <1>6, <2>1 DEF Spawn, InSession
  <2> QED
    BY <1>6, <2>2, Nothing DEF Spawn, seenVars, serverVars
<1>7. CASE Kill \/ Join \/ JoinWait
  <2>1. pc[App] \in {"join", "joinWait"} /\ pc'[App] \in {"close", "joinWait"}
    BY <1>1, <1>7 DEF Kill, Join, JoinWait, Goto, TypeOK
  <2> QED
    BY <2>1, Nothing DEF InSession
<1>8. CASE CallStart \/ CallStop
  <2>1. pc'[App] \in {"startingOn", "stoppingOn"}
    BY <1>1, <1>8 DEF CallStart, CallStop, Goto, TypeOK
  <2>2. ~InSession' /\ InSession' \in BOOLEAN
    BY <2>1 DEF InSession
  <2>3. CASE InSession
    BY <2>2, <2>3 DEF Promise!Next, Promise!End, Promise!Blank
  <2>4. CASE ~InSession
    BY <2>2, <2>4, Nothing DEF InSession
  <2> QED
    BY <2>3, <2>4
<1>9. CASE ClientSends
  BY <1>9, Nothing DEF ClientSends, InSession, seenVars, serverVars
<1> QED
  BY <1>2, <1>3, <1>4, <1>5, <1>6, <1>7, <1>8, <1>9, <1>10 DEF AppStep

\* A session is a dialogue (Client::run, Server::addClient): the server names the
\* client once, the client learns that name and no other, and then hears what was
\* said, whatever the sessions before left behind; or the name is lost on its way,
\* the client mistakes the first message for it, and hears all that come after.
THEOREM Implements == Spec /\ [][Careful]_vars => ImplementsDialogue
<1>1. Init => Promise!Init
  BY DEF Init, InSession, Promise!Init, Promise!Blank
<1>2. IInv /\ [Next]_vars => [Promise!Next]_(Promise!vars)
  <2> SUFFICES ASSUME IInv, [Next]_vars
               PROVE  [Promise!Next]_(Promise!vars)
    OBVIOUS
  <2>1. CASE UNCHANGED vars
    BY <2>1, Nothing DEF vars, InSession, seenVars, serverVars
  <2>2. CASE Next
    BY <2>2, AppBeginsAndEnds, WorkerListens, ServerTalks DEF Next, Calls
  <2> QED
    BY <2>1, <2>2
<1> QED
  BY <1>1, <1>2, Invariance, PTL DEF Spec, ImplementsDialogue, Promise!Spec
================================================================================
